----------------------------- MODULE Calibration -----------------------------
(***************************************************************************)
(* The temperatures that scale the logits (calibration.go): how a value of *)
(* the configuration is read, and which one a question gets.               *)
(*                                                                         *)
(* A value, as JSON gives it, has a type, a form and a number. The form of *)
(* a number is plain or overflow; that of a string tells what it spells:   *)
(* a numeral, plain or padded with blanks, a hexadecimal numeral, an       *)
(* infinity, or a word. Temperatures are counted in tenths.                *)
(***************************************************************************)
EXTENDS Integers, Sequences

(* The bounds compatibility.go asks of the manifest.                       *)
TemperatureMin == 5
TemperatureMax == 50
InvalidTemperature == 10

QType(kind) == CASE kind = "choice" -> 0 [] kind = "score" -> 1 [] kind = "noul" -> 2

(* numericTemperature, with isFinite: no number, or the one that is read.  *)
numericTemperature(value) ==
  CASE value.type = "number" /\ value.form = "plain" -> <<value.n>>
    [] value.type = "string" /\ value.form \in {"plain", "hexadecimal"} -> <<value.n>>
    [] value.type = "bool" -> <<IF value.form = "true" THEN 10 ELSE 0>>
    [] OTHER -> << >>

clamp_Not(t) == t

clamp(t) == IF t < TemperatureMin THEN TemperatureMin
            ELSE IF t > TemperatureMax THEN TemperatureMax ELSE t

parseCalibrationValue(value) ==
  LET number == numericTemperature(value)
  IN clamp(IF number = << >> THEN InvalidTemperature ELSE number[1])

temperatureBucket_OffByOne(kind, optionCount) ==
  kind \o ":" \o (IF optionCount <= 2 THEN "2" ELSE IF optionCount < 5 THEN "3-5"
                  ELSE IF optionCount <= 10 THEN "6-10" ELSE "11+")

temperatureBucket(kind, optionCount) ==
  kind \o ":" \o (IF optionCount <= 2 THEN "2" ELSE IF optionCount <= 5 THEN "3-5"
                  ELSE IF optionCount <= 10 THEN "6-10" ELSE "11+")

(* calibrationConfig.selectValue: no value if the qtype has none, or the   *)
(* bucket's before the qtype's.                                            *)
selectValue(calibration, kind, optionCount) ==
  LET bucket == temperatureBucket(kind, optionCount) IN
  CASE QType(kind) >= Len(calibration.byQType) -> << >>
    [] bucket \in DOMAIN calibration.byOptions -> <<calibration.byOptions[bucket]>>
    [] OTHER -> <<calibration.byQType[QType(kind) + 1]>>
=============================================================================
