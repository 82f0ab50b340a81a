-------------------------------- MODULE Bundle --------------------------------
(***************************************************************************)
(* The two JSON documents of a bundle: the manifest, as Verify takes it    *)
(* (internal/bundle: parse.go, compatibility.go, and the layout of         *)
(* verify.go; the comparison with the tree is in DirectorySource), and the *)
(* agent configuration with the temperatures (calibration.go).             *)
(*                                                                         *)
(* The manifest has its sections, with the fields other parts are checked  *)
(* against. "profile" stands for the many scalars that are pinned one by   *)
(* one and may be supported, well-formed but other, or malformed; a number *)
(* that may not be negative is negative as "-1".                           *)
(***************************************************************************)
EXTENDS JsonTypes, Calibration

CONSTANTS Documents,        \* manifests, as JSON documents
          AgentConfigs,     \* agent configurations, as JSON documents
          Paths,            \* the valid paths, in their order
          NoneRepeated(_),  \* what walks a document, defined in Json: rejectDuplicateFields,
          FieldsExact(_, _),  \* validateExactFields,
          Decodable(_, _),    \* whether encoding/json decodes a document into a type,
          Unmarshaled(_, _),  \* what it then gives,
          ZeroOf(_)           \* and the zero value of a type

VARIABLES document,      \* the file that has been read and not yet parsed
          manifest,      \* the Manifest made of the first
          calibration,   \* the calibrationConfig made of the second
          bundle         \* none, read, verified, configured, open, or an error:
                         \* invalid, unsupported, failed

bundleVars == <<document, manifest, calibration, bundle>>

Malformed == [t |-> "malformed"]

FileType == Struct([path |-> LeafType, role |-> LeafType])

ManifestType ==
  Struct([schema_version |-> LeafType,
          provenance |-> Struct([profile |-> LeafType, licenses |-> Slice(LeafType)]),
          model |-> Struct([path |-> LeafType, external_data |-> Slice(LeafType)]),
          tokenizer |-> Struct([json_path |-> LeafType, config_path |-> LeafType,
                                special_tokens |-> LeafType]),
          calibration |-> Struct([config_path |-> LeafType]),
          files |-> Slice(FileType)])

(* What the fields of a Manifest can hold, whatever it was decoded from.   *)
Manifest ==
  [schema_version : STRING,
   provenance : [profile : STRING, licenses : Seq(STRING)],
   model : [path : STRING, external_data : Seq(STRING)],
   tokenizer : [json_path : STRING, config_path : STRING, special_tokens : STRING],
   calibration : [config_path : STRING],
   files : Seq([path : STRING, role : STRING])]

decoded(d) == Unmarshaled(d, ManifestType)

(* What is decoded into a variable has its type.                           *)
ASSUME DecodedAssumption ==
  \A d \in Documents :
    d # Malformed /\ Decodable(d, ManifestType) => decoded(d) \in Manifest

Roles == {"model", "model-external-data", "tokenizer", "tokenizer-config",
          "agent-config", "license", "notice"}

validatePath(path) == path \in ToSet(Paths)

IsSortedByPath(paths) ==
  \A i \in 1..(Len(paths) - 1) :
    \E j, k \in DOMAIN Paths : j <= k /\ Paths[j] = paths[i] /\ Paths[k] = paths[i + 1]

(* The check of a list of paths, once for external data and once for files.*)
validatePaths_CaseSensitive(paths) ==
  /\ \A i \in DOMAIN paths : validatePath(paths[i])
  /\ NoneTwice(paths)
  /\ IsSortedByPath(paths)

validatePaths(paths) ==
  /\ \A i \in DOMAIN paths : validatePath(paths[i])
  /\ NoneTwice([i \in DOMAIN paths |-> Lower(paths[i])])
  /\ IsSortedByPath(paths)

validateManifest(m) ==
  /\ "-1" \notin {m.schema_version, m.tokenizer.special_tokens}
  /\ m.provenance.profile \in {"supported", "other"}
  /\ Len(m.provenance.licenses) >= 2
  /\ \A path \in ToSet(m.provenance.licenses)
                   \union {m.model.path, m.tokenizer.json_path, m.tokenizer.config_path,
                           m.calibration.config_path} : validatePath(path)
  /\ validatePaths(m.model.external_data)
  /\ Len(m.files) >= 6
  /\ \A i \in DOMAIN m.files : m.files[i].role \in Roles
  /\ validatePaths([i \in DOMAIN m.files |-> m.files[i].path])

validateCompatibility(m) ==
  /\ m.schema_version = "1" /\ m.provenance.profile = "supported"
  /\ m.model.path = "model.onnx"
  /\ m.tokenizer.json_path = "tokenizer/tokenizer.json"
  /\ m.tokenizer.config_path = "tokenizer/tokenizer_config.json"
  /\ m.calibration.config_path = "rl_agent_config.json"
  /\ m.provenance.licenses = <<"LICENSE.model", "LICENSE.sdk">>

(* What Parse refuses as invalid before and after decoding.                *)
parses(d) ==
  /\ d # Malformed
  /\ NoneRepeated(d) /\ FieldsExact(d, ManifestType) /\ Decodable(d, ManifestType)
  /\ validateManifest(decoded(d))
-----------------------------------------------------------------------------
(***************************************************************************)
(* validateLayout.                                                         *)
(***************************************************************************)
required(m) ==
  {<<m.model.path, "model">>, <<m.tokenizer.json_path, "tokenizer">>,
   <<m.tokenizer.config_path, "tokenizer-config">>, <<m.calibration.config_path, "agent-config">>}
    \union {<<path, "model-external-data">> : path \in ToSet(m.model.external_data)}
    \union {<<path, "license">> : path \in ToSet(m.provenance.licenses)}

roleCount(m, role) == Cardinality({i \in DOMAIN m.files : m.files[i].role = role})

wantRoleCount(m, role) ==
  CASE role = "model-external-data" -> Len(m.model.external_data)
    [] role \in {"license", "notice"} -> Len(m.provenance.licenses)
    [] OTHER -> 1

validateLayout_RequiredOnly(m) ==
  /\ \A i \in DOMAIN m.files : Lower(m.files[i].path) # "manifest.json"
  /\ \A artifact \in required(m) :
       \E i \in DOMAIN m.files : <<m.files[i].path, m.files[i].role>> = artifact

validateLayout(m) ==
  /\ \A i \in DOMAIN m.files : Lower(m.files[i].path) # "manifest.json"
  /\ \A role \in Roles : roleCount(m, role) = wantRoleCount(m, role)
  /\ \A artifact \in required(m) :
       \E i \in DOMAIN m.files : <<m.files[i].path, m.files[i].role>> = artifact

NoCalibration == [byQType |-> << >>, byOptions |-> << >>]

BundleInit ==
  /\ document = Null /\ manifest = ZeroOf(ManifestType) /\ calibration = NoCalibration
  /\ bundle = "none"

ReadManifest ==
  /\ bundle = "none"
  /\ document' \in Documents
  /\ bundle' = "read"
  /\ UNCHANGED <<manifest, calibration>>

(* Verify, up to the files: it parses, is supported, and has the layout.   *)
verdict(d) ==
  CASE ~parses(d) -> "invalid"
    [] parses(d) /\ ~validateCompatibility(decoded(d)) -> "unsupported"
    [] OTHER -> IF validateLayout(decoded(d)) THEN "verified" ELSE "invalid"

Verify ==
  /\ bundle = "read"
  /\ bundle' = verdict(document)
  /\ manifest' = IF bundle' = "verified" THEN decoded(document) ELSE manifest
  /\ document' = Null
  /\ UNCHANGED calibration
-----------------------------------------------------------------------------
(***************************************************************************)
(* parseCalibrationConfig. The fields that nothing reads are one, encoder. *)
(***************************************************************************)
AgentConfigType ==
  Struct([encoder |-> RawType, temperature |-> Slice(RawType),
          temperature_by_options |-> Map(RawType)])

(* A raw value as numericTemperature sees it.                              *)
Scalar(value) ==
  IF value.t = "leaf" THEN value.v ELSE [type |-> value.t, form |-> "", n |-> 0]

parseCalibrationConfig(d) ==
  LET fields == Unmarshaled(d, AgentConfigType) IN
  IF \/ d = Malformed \/ ~NoneRepeated(d) \/ ~Decodable(d, AgentConfigType)
     \/ Len(fields.temperature) # 3
  THEN << >>
  ELSE <<[byQType |-> [i \in 1..3 |-> parseCalibrationValue(Scalar(fields.temperature[i]))],
          byOptions |-> [bucket \in DOMAIN fields.temperature_by_options |->
                           parseCalibrationValue(Scalar(fields.temperature_by_options[bucket]))]]>>

(* The part of openVerified between Verify and the native resources.       *)
ReadAgentConfig ==
  /\ bundle = "verified"
  /\ document' \in AgentConfigs
  /\ bundle' = "configured"
  /\ UNCHANGED <<manifest, calibration>>

(* Of the manifest an open model uses what validateCompatibility pinned;   *)
(* it is not followed any further.                                         *)
ReadCalibration ==
  /\ bundle = "configured"
  /\ LET config == parseCalibrationConfig(document) IN
     IF config = << >> THEN bundle' = "failed" /\ UNCHANGED calibration
     ELSE bundle' = "open" /\ calibration' = config[1]
  /\ document' = Null /\ manifest' = ZeroOf(ManifestType)

BundleNext == ReadManifest \/ Verify \/ ReadAgentConfig \/ ReadCalibration
-----------------------------------------------------------------------------
(***************************************************************************)
(* Properties.                                                             *)
(***************************************************************************)
MembersAt(value, name) ==
  IF value.t # "object" THEN << >> ELSE SelectSeq(value.members, LAMBDA m : m.name = name)

(* One member of that very name, and the field is what it says.            *)
SaysOnce(value, name, type, field) ==
  LET members == MembersAt(value, name) IN
  /\ Len(members) = 1
  /\ field = IF members[1].value = Null THEN ZeroOf(type)
             ELSE IF type.t = "leaf" THEN members[1].value.v
             ELSE [i \in DOMAIN members[1].value.items |-> members[1].value.items[i].v]

(* What is used of a manifest is what a reader of the file sees, whichever *)
(* member the reader looks at: every field is there once, under its exact  *)
(* name, and has been decoded from there, so that no repeated or otherwise *)
(* spelled name replaces a value (rejectDuplicateFields,                   *)
(* validateExactFields; encoding/json takes the last, in any case).        *)
DecodedAsWritten ==
  [][bundle = "read" /\ bundle' = "verified" =>
       LET section(name) == MembersAt(document, name)[1].value
           leaf(value, name, field) == SaysOnce(value, name, LeafType, field)
           paths(value, name, field) == SaysOnce(value, name, Slice(LeafType), field)
           files == section("files").items
       IN /\ \A name \in DOMAIN ManifestType.fields : Len(MembersAt(document, name)) = 1
          /\ Len(document.members) = Cardinality(DOMAIN ManifestType.fields)
          /\ leaf(document, "schema_version", manifest'.schema_version)
          /\ leaf(section("provenance"), "profile", manifest'.provenance.profile)
          /\ paths(section("provenance"), "licenses", manifest'.provenance.licenses)
          /\ leaf(section("model"), "path", manifest'.model.path)
          /\ paths(section("model"), "external_data", manifest'.model.external_data)
          /\ leaf(section("tokenizer"), "json_path", manifest'.tokenizer.json_path)
          /\ leaf(section("tokenizer"), "config_path", manifest'.tokenizer.config_path)
          /\ leaf(section("tokenizer"), "special_tokens", manifest'.tokenizer.special_tokens)
          /\ leaf(section("calibration"), "config_path", manifest'.calibration.config_path)
          /\ Len(manifest'.files) = Len(files)
          /\ \A i \in DOMAIN files : /\ leaf(files[i], "path", manifest'.files[i].path)
                                     /\ leaf(files[i], "role", manifest'.files[i].role)]_bundle

(* "The strict allow-list": the files a verified manifest declares are     *)
(* exactly those its sections name, each with its role, and one notice for *)
(* each license; they are different files on a file system that ignores    *)
(* case as well, and the manifest is none of them (validateManifest and    *)
(* validateLayout together).                                               *)
DeclaredFilesAreTheArtifacts ==
  bundle = "verified" =>
    LET declared == {<<f.path, f.role>> : f \in ToSet(manifest.files)}
        notices == {d \in declared : d[2] = "notice"}
        folded == {Lower(d[1]) : d \in declared}
    IN /\ declared \ notices = required(manifest)
       /\ Cardinality(notices) = Len(manifest.provenance.licenses)
       /\ Cardinality(folded) = Len(manifest.files) /\ "manifest.json" \notin folded
=============================================================================
