----------------------- MODULE NativeModelEngineProofs -----------------------
(***************************************************************************)
(* Proofs about module NativeModelEngine, for every set of goroutines that *)
(* predict and close: an inductive invariant, memory safety of the native  *)
(* call, complete teardown, and the truth of what Predict reports.         *)
(***************************************************************************)
EXTENDS NativeModelEngine, TLAPS

TypeOK ==
  /\ phase \in {"calibration", "tokenizer", "session", "open", "failed"}
  /\ real \in [Resources -> {"absent", "open", "released"}]
  /\ held \in SUBSET Resources
  /\ closeFailed \in SUBSET Resources
  /\ closed \in BOOLEAN
  /\ mu \in Callers \union Closers \union {"free"}
  /\ exec \in {"idle", "running", "ok", "invalid", "failed"}
  /\ memory \in [Values -> {"none", "live", "freed", "lost"}]
  /\ terminated \in {"no", "yes", "failed"}
  /\ call \in [Callers -> {"out", "prepare", "run", "inputs", "execute",
                           "select", "drain"}]
  /\ ended \in [Callers -> BOOLEAN]
  /\ outcome \in [Callers -> {"none", "closed", "incomplete", "rejected",
                              "cancelled", "failed", "invalid", "ok"}]
  /\ close \in [Closers -> {"out", "close"}]
  /\ ret \in [Closers -> {"none", "nil", "error"}]

(* e.mu is held by the one Predict or Close that is under way, of an       *)
(* engine that is open and not closed.                                     *)
MutexOK ==
  /\ \A c \in Callers : call[c] # "out" <=> mu = c
  /\ \A k \in Closers : close[k] # "out" <=> mu = k
  /\ mu # "free" => phase = "open" /\ ~closed
  /\ mu \in Callers => {"tokenizer", "session"} \subseteq held
  /\ mu \in Closers => held # {}

(* How far openVerified has come is what it has opened; nothing is         *)
(* released before it has ended.                                           *)
PhaseOK ==
  /\ phase # "failed" => real["source"] # "absent"
  /\ phase \in {"calibration", "tokenizer"} => real["tokenizer"] = "absent"
  /\ phase \in {"calibration", "tokenizer", "session"} =>
       real["source"] = "open" /\ real["session"] = "absent"
  /\ phase = "session" => real["tokenizer"] = "open"
  /\ phase = "open" => \A r \in Resources : real[r] # "absent"

(* A run is under way, or has a result, exactly while a Predict waits for  *)
(* it; one that drains has been cancelled, and no other one is terminated. *)
CallOK ==
  /\ exec # "idle" => mu \in Callers
  /\ \A c \in Callers :
       /\ call[c] # "out" => (exec # "idle" <=> call[c] \in {"select", "drain"})
       /\ call[c] = "drain" => ended[c]
       /\ call[c] \notin {"out", "drain"} => terminated = "no"

InputNames == {"input_ids", "attention_mask", "marker_pos", "marker_mask", "qtype"}

(* What a call has allocated at each of its steps: the inputs one after    *)
(* the other, then the options, then, by the run, the outputs.             *)
InputsInOrder ==
  /\ memory["qtype"] = "live" => memory["marker_mask"] = "live"
  /\ memory["marker_mask"] = "live" => memory["marker_pos"] = "live"
  /\ memory["marker_pos"] = "live" => memory["attention_mask"] = "live"
  /\ memory["attention_mask"] = "live" => memory["input_ids"] = "live"

MemoryOK ==
  /\ mu \notin Callers => \A v \in Values : memory[v] # "live"
  /\ \A c \in Callers :
       /\ call[c] \in {"prepare", "run"} => \A v \in Values : memory[v] = "none"
       /\ call[c] = "inputs" =>
            /\ \A v \in InputNames : memory[v] \in {"none", "live"}
            /\ memory["options"] = "none"
            /\ InputsInOrder
       /\ call[c] \in {"execute", "select", "drain"} =>
            /\ \A v \in InputNames : memory[v] = "live"
            /\ memory["options"] = "live"
       /\ call[c] \in {"inputs", "execute"} => \A v \in Outputs : memory[v] = "none"
       /\ call[c] \in {"select", "drain"} =>
            \A v \in Outputs :
              memory[v] = IF exec \in {"ok", "invalid"} THEN "live" ELSE "none"

IInv == TypeOK /\ MutexOK /\ PhaseOK /\ CallOK /\ MemoryOK /\ TeardownIsComplete

(* The values of a call are the five inputs, the options and the outputs.  *)
LEMMA ValuesAre ==
  /\ DOMAIN Inputs = 1..5
  /\ Inputs[1] = "input_ids" /\ Inputs[2] = "attention_mask"
  /\ Inputs[3] = "marker_pos" /\ Inputs[4] = "marker_mask" /\ Inputs[5] = "qtype"
  /\ Values = InputNames \union {"options", "logits", "action_logits"}
<1>1. /\ DOMAIN Inputs = 1..5
      /\ Inputs[1] = "input_ids" /\ Inputs[2] = "attention_mask"
      /\ Inputs[3] = "marker_pos" /\ Inputs[4] = "marker_mask" /\ Inputs[5] = "qtype"
  BY DEF Inputs
<1>2. {Inputs[i] : i \in DOMAIN Inputs} = InputNames
  BY <1>1 DEF InputNames
<1> QED BY <1>1, <1>2 DEF Values, Outputs

(* newORTInputs allocates the first input that is not there yet.           *)
LEMMA NextInputIsFirst ==
  ASSUME TypeOK, \A v \in InputNames : memory[v] \in {"none", "live"},
         memory["qtype"] = "none", InputsInOrder
  PROVE  \/ memory["input_ids"] = "none" /\ Inputs[nextInput] = "input_ids"
         \/ /\ memory["input_ids"] = "live" /\ memory["attention_mask"] = "none"
            /\ Inputs[nextInput] = "attention_mask"
         \/ /\ memory["attention_mask"] = "live" /\ memory["marker_pos"] = "none"
            /\ Inputs[nextInput] = "marker_pos"
         \/ /\ memory["marker_pos"] = "live" /\ memory["marker_mask"] = "none"
            /\ Inputs[nextInput] = "marker_mask"
         \/ memory["marker_mask"] = "live" /\ Inputs[nextInput] = "qtype"
<1> DEFINE First(i) == memory[Inputs[i]] = "none" /\
                         \A j \in 1..i-1 : memory[Inputs[j]] # "none"
<1>1. \A v \in InputNames : memory[v] = "none" \/ memory[v] = "live"
  OBVIOUS
<1>2. \E i \in 1..5 : First(i)
  <2>1. CASE memory["input_ids"] = "none"
    <3>1. First(1)
      BY <2>1, ValuesAre
    <3> QED BY <3>1
  <2>2. CASE memory["input_ids"] = "live" /\ memory["attention_mask"] = "none"
    <3>1. \A j \in 1..2-1 : j = 1
      OBVIOUS
    <3>2. First(2)
      BY <2>2, <3>1, ValuesAre
    <3> QED BY <3>2
  <2>3. CASE memory["attention_mask"] = "live" /\ memory["marker_pos"] = "none"
    <3>1. \A j \in 1..3-1 : j = 1 \/ j = 2
      OBVIOUS
    <3>2. First(3)
      BY <2>3, <3>1, ValuesAre DEF InputsInOrder
    <3> QED BY <3>2
  <2>4. CASE memory["marker_pos"] = "live" /\ memory["marker_mask"] = "none"
    <3>1. \A j \in 1..4-1 : j = 1 \/ j = 2 \/ j = 3
      OBVIOUS
    <3>2. First(4)
      BY <2>4, <3>1, ValuesAre DEF InputsInOrder
    <3> QED BY <3>2
  <2>5. CASE memory["marker_mask"] = "live"
    <3>1. \A j \in 1..5-1 : j = 1 \/ j = 2 \/ j = 3 \/ j = 4
      OBVIOUS
    <3>2. First(5)
      BY <2>5, <3>1, ValuesAre DEF InputsInOrder
    <3> QED BY <3>2
  <2> QED BY <1>1, <2>1, <2>2, <2>3, <2>4, <2>5 DEF InputNames
<1>3. nextInput \in 1..5 /\ First(nextInput)
  BY <1>2, ValuesAre DEF nextInput
<1>4. PICK n \in 1..5 : n = nextInput /\ First(n)
  BY <1>3
<1>5. n = 1 \/ n = 2 \/ n = 3 \/ n = 4 \/ n = 5
  BY <1>4
<1>6. CASE n = 1
  BY <1>4, <1>6, ValuesAre
<1>7. CASE n = 2
  <2>1. memory[Inputs[1]] # "none"
    BY <1>4, <1>7
  <2> QED BY <1>1, <1>4, <1>7, <2>1, ValuesAre DEF InputNames
<1>8. CASE n = 3
  <2>1. memory[Inputs[2]] # "none"
    BY <1>4, <1>8
  <2> QED BY <1>1, <1>4, <1>8, <2>1, ValuesAre DEF InputNames
<1>9. CASE n = 4
  <2>1. memory[Inputs[3]] # "none"
    BY <1>4, <1>9
  <2> QED BY <1>1, <1>4, <1>9, <2>1, ValuesAre DEF InputNames
<1>10. CASE n = 5
  <2>1. memory[Inputs[4]] # "none"
    BY <1>4, <1>10
  <2> QED BY <1>1, <1>4, <1>10, <2>1, ValuesAre DEF InputNames
<1> QED BY <1>5, <1>6, <1>7, <1>8, <1>9, <1>10

(* The engine starts with the invariant.                                   *)
LEMMA InitInv == Init => IInv
<1> SUFFICES ASSUME Init PROVE IInv
  OBVIOUS
<1>1. TypeOK
  BY DEF Init, TypeOK, Resources
<1>2. MutexOK /\ PhaseOK /\ CallOK
  BY DistinctGoroutines DEF Init, MutexOK, PhaseOK, CallOK, Resources
<1>3. MemoryOK
  BY DEF Init, MemoryOK
<1>4. TeardownIsComplete
  BY DEF Init, TeardownIsComplete, Resources
<1> QED BY <1>1, <1>2, <1>3, <1>4 DEF IInv
-----------------------------------------------------------------------------
(***************************************************************************)
(* openVerified.                                                           *)
(***************************************************************************)

(* Until openVerified has ended nobody uses the engine.                    *)
LEMMA NobodyBeforeOpen ==
  ASSUME IInv, phase # "open"
  PROVE  /\ mu = "free" /\ exec = "idle" /\ ~closed
         /\ \A c \in Callers : call[c] = "out"
         /\ \A k \in Closers : close[k] = "out" /\ ret[k] # "nil"
         /\ \A v \in Values : memory[v] # "live"
<1>1. mu = "free"
  BY DEF IInv, MutexOK
<1>2. mu \notin Callers /\ mu \notin Closers
  BY <1>1, DistinctGoroutines
<1>3. ~closed
  BY DEF IInv, TeardownIsComplete
<1>4. exec = "idle" /\ \A v \in Values : memory[v] # "live"
  BY <1>2 DEF IInv, CallOK, MemoryOK
<1>5. \A c \in Callers : call[c] = "out"
  BY <1>2 DEF IInv, MutexOK
<1>6. \A k \in Closers : close[k] = "out" /\ ret[k] # "nil"
  BY <1>2, <1>3 DEF IInv, MutexOK, TeardownIsComplete
<1> QED BY <1>1, <1>3, <1>4, <1>5, <1>6

(* Every stage of openVerified keeps the invariant, whether it succeeds,   *)
(* fails or is cancelled.                                                  *)
LEMMA OpenInv ==
  ASSUME IInv, OpenStageSucceeds \/ OpenStageFails \/ OpenStageCancelled
  PROVE  IInv'
<1>0. TypeOK /\ PhaseOK /\ TeardownIsComplete
  BY DEF IInv
<1>1. /\ phase \in {"calibration", "tokenizer", "session"}
      /\ UNCHANGED <<closed, mu, exec, memory, terminated, call, ended, outcome,
                     close, ret>>
  BY DEF OpenStageSucceeds, OpenStageFails, OpenStageCancelled, NextPhase,
     nativeVars, callVars, closeVars
<1>2. /\ mu = "free" /\ exec = "idle" /\ ~closed
      /\ \A c \in Callers : call[c] = "out"
      /\ \A k \in Closers : close[k] = "out" /\ ret[k] # "nil"
      /\ \A v \in Values : memory[v] # "live"
  BY <1>1, NobodyBeforeOpen
<1>3. MutexOK' /\ CallOK' /\ MemoryOK'
  <2>1. mu \notin Callers /\ mu \notin Closers
    BY <1>2, DistinctGoroutines
  <2>2. MutexOK' /\ CallOK'
    BY <1>1, <1>2, <2>1 DEF MutexOK, CallOK
  <2>3. MemoryOK'
    BY <1>1, <1>2, <2>1 DEF MemoryOK
  <2> QED BY <2>2, <2>3
<1>4. held = {r \in Resources : real[r] = "open"}
  BY <1>0, <1>1 DEF TeardownIsComplete
<1>5. CASE OpenStageSucceeds
  <2>1. /\ real' = [r \in Resources |-> IF r = phase THEN "open" ELSE real[r]]
        /\ held' = held \union ({phase} \intersect Resources)
        /\ phase' = NextPhase[phase] /\ closeFailed' = closeFailed
    BY <1>5 DEF OpenStageSucceeds
  <2>2. CASE phase = "calibration"
    <3>1. phase' = "tokenizer" /\ held' = held /\ real' = real
      BY <1>0, <2>1, <2>2 DEF NextPhase, Resources, TypeOK
    <3>2. TypeOK' /\ PhaseOK'
      BY <1>0, <1>1, <2>1, <2>2, <3>1 DEF TypeOK, PhaseOK
    <3>3. TeardownIsComplete'
      BY <1>0, <1>1, <1>2, <2>2, <3>1 DEF TeardownIsComplete
    <3> QED BY <1>3, <3>2, <3>3 DEF IInv
  <2>3. CASE phase = "tokenizer"
    <3>1. /\ phase' = "session" /\ held' = held \union {"tokenizer"}
          /\ real'["tokenizer"] = "open" /\ real'["source"] = real["source"]
          /\ real'["session"] = real["session"]
          /\ real' \in [Resources -> {"absent", "open", "released"}]
      BY <1>0, <2>1, <2>3 DEF NextPhase, Resources, TypeOK
    <3>2. TypeOK' /\ PhaseOK'
      BY <1>0, <1>1, <2>1, <2>3, <3>1 DEF TypeOK, PhaseOK, Resources
    <3>3. TeardownIsComplete'
      BY <1>0, <1>1, <1>2, <1>4, <2>3, <3>1 DEF TeardownIsComplete, Resources, PhaseOK
    <3> QED BY <1>3, <3>2, <3>3 DEF IInv
  <2>4. CASE phase = "session"
    <3>1. /\ phase' = "open" /\ held' = held \union {"session"}
          /\ real'["tokenizer"] = real["tokenizer"] /\ real'["source"] = real["source"]
          /\ real'["session"] = "open"
          /\ real' \in [Resources -> {"absent", "open", "released"}]
      BY <1>0, <2>1, <2>4 DEF NextPhase, Resources, TypeOK
    <3>2. TypeOK' /\ PhaseOK'
      BY <1>0, <1>1, <2>1, <2>4, <3>1 DEF TypeOK, PhaseOK, Resources
    <3>3. TeardownIsComplete'
      BY <1>0, <1>1, <1>2, <1>4, <2>4, <3>1 DEF TeardownIsComplete, Resources, PhaseOK
    <3> QED BY <1>3, <3>2, <3>3 DEF IInv
  <2> QED BY <1>1, <2>2, <2>3, <2>4
<1>6. ASSUME NEW got \in SUBSET Resources, held \subseteq got, nativeOpenFailure(got)
      PROVE  IInv'
  <2>1. PICK failing \in SUBSET got :
          /\ real' = [r \in Resources |->
                        IF r \in got \ failing THEN "released"
                        ELSE IF r \in got THEN "open" ELSE real[r]]
          /\ closeFailed' = closeFailed \union failing
          /\ held' = {}
          /\ phase' = "failed"
    BY <1>6 DEF nativeOpenFailure
  <2>2. TypeOK' /\ PhaseOK'
    BY <1>0, <1>1, <2>1 DEF TypeOK, PhaseOK
  <2>3. \A r \in Resources : real'[r] = "open" => r \in closeFailed'
    BY <1>4, <1>6, <2>1
  <2>4. TeardownIsComplete'
    BY <1>1, <1>2, <2>1, <2>3 DEF TeardownIsComplete
  <2> QED BY <1>3, <2>2, <2>4 DEF IInv
<1>7. CASE OpenStageFails
  BY <1>0, <1>6, <1>7 DEF OpenStageFails, TypeOK
<1>8. CASE OpenStageCancelled
  BY <1>0, <1>6, <1>8 DEF OpenStageCancelled, TypeOK
<1> QED BY <1>5, <1>7, <1>8
-----------------------------------------------------------------------------
(***************************************************************************)
(* Predict.                                                                *)
(***************************************************************************)

(* After destroyORTValues no value of the call is live.                    *)
LEMMA NothingLive ==
  ASSUME TypeOK, NEW failing, destroyORTValues(failing)
  PROVE  /\ memory' \in [Values -> {"none", "live", "freed", "lost"}]
         /\ \A v \in Values : memory'[v] # "live"
BY DEF TypeOK, destroyORTValues

(* A Predict that returns, having destroyed what it had allocated, keeps   *)
(* the invariant.                                                          *)
LEMMA CallEnds ==
  ASSUME IInv, NEW c \in Callers, mu = c \/ mu = "free",
         NEW result \in {"closed", "incomplete", "rejected", "cancelled",
                         "failed", "invalid", "ok"},
         PredictReturns(c, result), exec' = "idle",
         memory' \in [Values -> {"none", "live", "freed", "lost"}],
         \A v \in Values : memory'[v] # "live",
         terminated' \in {"no", "yes", "failed"}, ended' \in [Callers -> BOOLEAN],
         UNCHANGED <<phase, real, held, closeFailed, closed, close, ret>>
  PROVE  IInv'
<1>0. TypeOK /\ MutexOK /\ PhaseOK /\ TeardownIsComplete
  BY DEF IInv
<1>1. /\ mu' = "free" /\ call' = [call EXCEPT ![c] = "out"]
      /\ outcome' = [outcome EXCEPT ![c] = result]
  BY DEF PredictReturns
<1>2. mu' \notin Callers /\ mu' \notin Closers /\ mu \notin Closers
  BY <1>1, DistinctGoroutines
<1>3. \A d \in Callers : call'[d] = "out"
  BY <1>0, <1>1, DistinctGoroutines DEF MutexOK, TypeOK
<1>4. \A k \in Closers : close'[k] = "out"
  BY <1>0, <1>2 DEF MutexOK
<1>5. TypeOK'
  BY <1>0, <1>1 DEF TypeOK
<1>6. MutexOK' /\ CallOK'
  BY <1>1, <1>2, <1>3, <1>4 DEF MutexOK, CallOK
<1>7. MemoryOK'
  BY <1>3 DEF MemoryOK
<1>8. PhaseOK' /\ TeardownIsComplete'
  BY <1>0 DEF PhaseOK, TeardownIsComplete
<1> QED BY <1>5, <1>6, <1>7, <1>8 DEF IInv

(* A step within a Predict leaves the mutex and the resources alone.       *)
LEMMA CallGoesOn ==
  ASSUME IInv, NEW c \in Callers, mu = c, mu' = mu,
         NEW to \in {"prepare", "run", "inputs", "execute", "select", "drain"},
         call' = [call EXCEPT ![c] = to],
         UNCHANGED <<phase, real, held, closeFailed, closed, close, ret>>
  PROVE  /\ MutexOK' /\ PhaseOK' /\ TeardownIsComplete'
         /\ call'[c] = to /\ \A d \in Callers : d # c => call'[d] = "out"
<1>1. /\ call'[c] = to /\ \A d \in Callers : d # c => call'[d] = "out"
  BY DEF IInv, TypeOK, MutexOK
<1>2. MutexOK'
  BY <1>1 DEF IInv, MutexOK
<1>3. PhaseOK' /\ TeardownIsComplete'
  BY DEF IInv, PhaseOK, TeardownIsComplete
<1> QED BY <1>1, <1>2, <1>3

(* What the invariant says of the one Predict that is under way.           *)
LEMMA RunningCall ==
  ASSUME IInv, NEW c \in Callers, call[c] # "out"
  PROVE  /\ mu = c /\ phase = "open" /\ ~closed /\ held = Resources
         /\ \A r \in Resources : real[r] = "open"
<1>1. mu = c /\ phase = "open" /\ ~closed
  BY DistinctGoroutines DEF IInv, MutexOK
<1>2. {"tokenizer", "session"} \subseteq held
  BY <1>1 DEF IInv, MutexOK
<1>3. real["session"] = "open" /\ real["tokenizer"] = "open" /\ real["source"] = "open"
  BY <1>1, <1>2 DEF IInv, TeardownIsComplete
<1>4. \A r \in Resources : real[r] = "open"
  BY <1>3 DEF Resources
<1>5. held = Resources
  BY <1>1, <1>4 DEF IInv, TeardownIsComplete
<1> QED BY <1>1, <1>4, <1>5

(* Every step of a Predict keeps the invariant, wherever it fails or its   *)
(* context ends.                                                           *)
LEMMA CallerInv ==
  ASSUME IInv, NEW c \in Callers, CallerStep(c) \/ PredictStarts(c) \/ ContextEnds(c)
  PROVE  IInv'
<1>0. TypeOK /\ MutexOK /\ CallOK /\ MemoryOK
  BY DEF IInv
<1>1. UNCHANGED <<phase, real, held, closeFailed, closed, close, ret>>
  BY DEF CallerStep, PrepareBatch, RunStarts, NewORTInput, NewRunOptions,
     AllocationFails, ExecuteStarts, ReceiveResult, TerminateCall, DrainResult,
     PredictStarts, ContextEnds, resourceVars, closeVars, callVars
<1> USE DEF GoCall
<1>2. CASE PredictStarts(c)
  <2>1. /\ mu = "free" /\ call[c] = "out" /\ exec' = exec
        /\ ended' = [ended EXCEPT ![c] = FALSE]
        /\ memory' = [v \in Values |-> "none"] /\ terminated' = "no"
        /\ IF closed \/ ~({"tokenizer", "session"} \subseteq held)
           THEN PredictReturns(c, IF closed THEN "closed" ELSE "incomplete")
           ELSE /\ call' = [call EXCEPT ![c] = "prepare"] /\ mu' = c
                /\ outcome' = [outcome EXCEPT ![c] = "none"]
    BY <1>2 DEF PredictStarts
  <2>2. exec = "idle" /\ \A d \in Callers : call[d] = "out"
    BY <1>0, <2>1, DistinctGoroutines DEF MutexOK, CallOK
  <2>3. ended' \in [Callers -> BOOLEAN]
    BY <1>0, <2>1 DEF TypeOK
  <2>4. CASE closed \/ ~({"tokenizer", "session"} \subseteq held)
    <3>1. PICK result \in {"closed", "incomplete"} : PredictReturns(c, result)
      BY <2>1, <2>4
    <3>2. exec' = "idle" /\ memory' \in [Values -> {"none", "live", "freed", "lost"}]
          /\ \A v \in Values : memory'[v] # "live"
      BY <2>1, <2>2
    <3> QED BY <1>1, <2>1, <2>3, <3>1, <3>2, CallEnds
  <2>5. CASE ~(closed \/ ~({"tokenizer", "session"} \subseteq held))
    <3>1. /\ call' = [call EXCEPT ![c] = "prepare"] /\ mu' = c
          /\ outcome' = [outcome EXCEPT ![c] = "none"]
      BY <2>1, <2>5
    <3>2. call'[c] = "prepare" /\ \A d \in Callers : d # c => call'[d] = "out"
      BY <1>0, <2>2, <3>1 DEF TypeOK
    <3>3. TypeOK'
      BY <1>0, <1>1, <2>1, <2>3, <3>1 DEF TypeOK
    <3>4. \A k \in Closers : close[k] = "out" /\ k # c
      BY <1>0, <2>1, DistinctGoroutines DEF MutexOK
    <3>5. phase = "open"
      BY <1>2 DEF PredictStarts
    <3>6. MutexOK'
      BY <1>1, <2>5, <3>1, <3>2, <3>4, <3>5 DEF MutexOK
    <3>7. CallOK'
      BY <2>1, <2>2, <3>1, <3>2 DEF CallOK
    <3>8. MemoryOK'
      BY <2>1, <3>1, <3>2 DEF MemoryOK
    <3>9. PhaseOK' /\ TeardownIsComplete'
      BY <1>1 DEF IInv, PhaseOK, TeardownIsComplete
    <3> QED BY <3>3, <3>6, <3>7, <3>8, <3>9 DEF IInv
  <2> QED BY <2>4, <2>5
<1>3. ASSUME call[c] # "out", mu' = mu, exec' = exec, terminated' = terminated,
             memory' = memory, outcome' = outcome, ended' = ended,
             NEW to \in {"run", "inputs"}, call' = [call EXCEPT ![c] = to],
             \/ call[c] = "prepare" /\ to = "run"
             \/ call[c] = "run" /\ to = "inputs"
      PROVE  IInv'
  <2>1. /\ MutexOK' /\ PhaseOK' /\ TeardownIsComplete'
        /\ call'[c] = to /\ \A d \in Callers : d # c => call'[d] = "out"
    BY <1>1, <1>3, RunningCall, CallGoesOn
  <2>2. TypeOK'
    BY <1>0, <1>1, <1>3 DEF TypeOK
  <2>3. CallOK'
    BY <1>0, <1>3, <2>1 DEF CallOK
  <2>4. \A v \in Values : memory[v] = "none"
    BY <1>0, <1>3 DEF MemoryOK
  <2>5. mu' \in Callers
    BY <1>3, RunningCall
  <2>6. MemoryOK'
    BY <1>3, <2>1, <2>4, <2>5, ValuesAre DEF MemoryOK, InputsInOrder, InputNames, Outputs
  <2> QED BY <2>1, <2>2, <2>3, <2>6 DEF IInv
<1>4. CASE PrepareBatch(c)
  <2>1. call[c] = "prepare" /\ UNCHANGED <<exec, memory, terminated, ended>>
    BY <1>4 DEF PrepareBatch, nativeVars
  <2>2. CASE \E result \in {"rejected", "cancelled"} : PredictReturns(c, result)
    <3>1. exec = "idle" /\ \A v \in Values : memory[v] # "live"
      BY <1>0, <2>1 DEF CallOK, MemoryOK
    <3> QED BY <1>0, <1>1, <2>1, <2>2, <3>1, RunningCall, CallEnds DEF TypeOK
  <2>3. CASE call' = [call EXCEPT ![c] = "run"] /\ UNCHANGED <<mu, outcome>>
    BY <1>3, <2>1, <2>3
  <2> QED BY <1>4, <2>2, <2>3 DEF PrepareBatch
<1>5. CASE RunStarts(c)
  <2>1. call[c] = "run" /\ UNCHANGED <<exec, memory, terminated, ended>>
    BY <1>5 DEF RunStarts, nativeVars
  <2>2. CASE PredictReturns(c, runError(c, "failed"))
    <3>1. exec = "idle" /\ \A v \in Values : memory[v] # "live"
      BY <1>0, <2>1 DEF CallOK, MemoryOK
    <3>2. \E result \in {"failed", "cancelled"} : PredictReturns(c, result)
      BY <2>2 DEF runError
    <3> QED BY <1>0, <1>1, <2>1, <3>1, <3>2, RunningCall, CallEnds DEF TypeOK
  <2>3. CASE call' = [call EXCEPT ![c] = "inputs"] /\ UNCHANGED <<mu, outcome>>
    BY <1>3, <2>1, <2>3
  <2> QED BY <1>5, <2>2, <2>3 DEF RunStarts
<1>6. CASE NewORTInput(c)
  <2>1. /\ call[c] = "inputs" /\ memory["qtype"] = "none"
        /\ memory' = [v \in Values |-> IF v \in {Inputs[nextInput]} THEN "live"
                                       ELSE memory[v]]
        /\ UNCHANGED <<mu, exec, terminated, call, ended, outcome>>
    BY <1>6 DEF NewORTInput, Allocate, callVars
  <2>2. /\ \A v \in InputNames : memory[v] \in {"none", "live"}
        /\ memory["options"] = "none" /\ InputsInOrder
        /\ \A v \in Outputs : memory[v] = "none"
    BY <1>0, <2>1 DEF MemoryOK
  <2>3. TypeOK'
    BY <1>0, <1>1, <2>1 DEF TypeOK
  <2>4. MutexOK' /\ CallOK' /\ PhaseOK' /\ TeardownIsComplete'
    BY <1>1, <2>1 DEF IInv, MutexOK, CallOK, PhaseOK, TeardownIsComplete
  <2>5. PICK n \in InputNames : n = Inputs[nextInput]
    BY <1>0, <2>1, <2>2, NextInputIsFirst DEF InputNames
  <2>6. \A v \in Values : memory'[v] = IF v = n THEN "live" ELSE memory[v]
    BY <2>1, <2>5
  <2>7. InputsInOrder'
    BY <1>0, <2>1, <2>2, <2>5, <2>6, NextInputIsFirst, ValuesAre
    DEF InputsInOrder, InputNames
  <2>8. /\ \A v \in InputNames : memory'[v] \in {"none", "live"}
        /\ memory'["options"] = "none" /\ \A v \in Outputs : memory'[v] = "none"
    BY <2>2, <2>6, ValuesAre DEF InputNames, Outputs
  <2>9. mu = c /\ \A d \in Callers : d # c => call[d] = "out"
    BY <1>0, <2>1, RunningCall DEF MutexOK
  <2>10. MemoryOK'
    BY <2>1, <2>7, <2>8, <2>9 DEF MemoryOK
  <2> QED BY <2>3, <2>4, <2>10 DEF IInv
<1>7. CASE NewRunOptions(c)
  <2>1. /\ call[c] = "inputs" /\ memory["qtype"] = "live"
        /\ memory' = [v \in Values |-> IF v \in {"options"} THEN "live" ELSE memory[v]]
        /\ call' = [call EXCEPT ![c] = "execute"]
        /\ UNCHANGED <<mu, exec, terminated, ended, outcome>>
    BY <1>7 DEF NewRunOptions, Allocate
  <2>2. /\ MutexOK' /\ PhaseOK' /\ TeardownIsComplete'
        /\ call'[c] = "execute" /\ \A d \in Callers : d # c => call'[d] = "out"
    BY <1>1, <2>1, RunningCall, CallGoesOn
  <2>3. TypeOK'
    BY <1>0, <1>1, <2>1 DEF TypeOK
  <2>4. CallOK'
    BY <1>0, <2>1, <2>2 DEF CallOK
  <2>5. /\ \A v \in InputNames : memory[v] = "live"
        /\ \A v \in Outputs : memory[v] = "none"
    BY <1>0, <2>1 DEF MemoryOK, InputsInOrder, InputNames
  <2>6. /\ \A v \in InputNames : memory'[v] = "live"
        /\ memory'["options"] = "live" /\ \A v \in Outputs : memory'[v] = "none"
    BY <2>1, <2>5, ValuesAre DEF InputNames, Outputs
  <2>7. mu' \in Callers
    BY <2>1, RunningCall
  <2>8. MemoryOK'
    BY <2>2, <2>6, <2>7 DEF MemoryOK
  <2> QED BY <2>2, <2>3, <2>4, <2>8 DEF IInv
<1>8. CASE AllocationFails(c)
  <2>1. PICK failing \in Failures : destroyORTValues(failing)
    BY <1>8 DEF AllocationFails
  <2>2. /\ call[c] = "inputs" /\ UNCHANGED <<exec, terminated, ended>>
        /\ PredictReturns(c, runError(c, "failed"))
    BY <1>8 DEF AllocationFails
  <2>3. exec = "idle" /\ runError(c, "failed") \in {"cancelled", "failed"}
    BY <1>0, <2>2 DEF CallOK, runError
  <2> QED BY <1>0, <1>1, <2>1, <2>2, <2>3, NothingLive, RunningCall, CallEnds DEF TypeOK
<1>9. CASE ExecuteStarts(c)
  <2>1. CASE ended[c]
    <3>1. PICK failing \in Failures : destroyORTValues(failing)
      BY <1>9, <2>1 DEF ExecuteStarts
    <3>2. /\ call[c] = "execute" /\ UNCHANGED <<exec, terminated, ended>>
          /\ PredictReturns(c, "cancelled")
      BY <1>9, <2>1 DEF ExecuteStarts
    <3>3. exec = "idle"
      BY <1>0, <3>2 DEF CallOK
    <3> QED BY <1>0, <1>1, <3>1, <3>2, <3>3, NothingLive, RunningCall, CallEnds DEF TypeOK
  <2>2. CASE ~ended[c]
    <3>1. /\ call[c] = "execute" /\ call' = [call EXCEPT ![c] = "select"]
          /\ exec' = "running" /\ UNCHANGED <<memory, outcome, mu, terminated, ended>>
      BY <1>9, <2>2 DEF ExecuteStarts
    <3>2. /\ MutexOK' /\ PhaseOK' /\ TeardownIsComplete'
          /\ call'[c] = "select" /\ \A d \in Callers : d # c => call'[d] = "out"
      BY <1>1, <3>1, RunningCall, CallGoesOn
    <3>3. TypeOK'
      BY <1>0, <1>1, <3>1 DEF TypeOK
    <3>4. mu' \in Callers
      BY <3>1, RunningCall
    <3>5. CallOK'
      BY <1>0, <3>1, <3>2, <3>4 DEF CallOK
    <3>6. /\ \A v \in InputNames : memory[v] = "live"
          /\ memory["options"] = "live" /\ \A v \in Outputs : memory[v] = "none"
      BY <1>0, <3>1 DEF MemoryOK
    <3>7. MemoryOK'
      BY <3>1, <3>2, <3>4, <3>6 DEF MemoryOK
    <3> QED BY <3>2, <3>3, <3>5, <3>7 DEF IInv
  <2> QED BY <2>1, <2>2
<1>10. CASE ReceiveResult(c)
  <2>1. PICK failing \in Failures :
          destroyORTValues(failing) /\ PredictReturns(c, runError(c, callError(failing)))
    BY <1>10 DEF ReceiveResult
  <2>2. /\ call[c] = "select" /\ exec \in {"ok", "invalid", "failed"}
        /\ exec' = "idle" /\ UNCHANGED <<terminated, ended>>
    BY <1>10 DEF ReceiveResult
  <2>3. runError(c, callError(failing)) \in {"cancelled", "failed", "invalid", "ok"}
    BY <2>2 DEF runError, callError
  <2> QED BY <1>0, <1>1, <2>1, <2>2, <2>3, NothingLive, RunningCall, CallEnds DEF TypeOK
<1>11. CASE TerminateCall(c)
  <2>1. /\ call[c] = "select" /\ ended[c] /\ call' = [call EXCEPT ![c] = "drain"]
        /\ terminated' \in {"yes", "failed"}
        /\ UNCHANGED <<mu, exec, memory, ended, outcome>>
    BY <1>11 DEF TerminateCall
  <2>2. /\ MutexOK' /\ PhaseOK' /\ TeardownIsComplete'
        /\ call'[c] = "drain" /\ \A d \in Callers : d # c => call'[d] = "out"
    BY <1>1, <2>1, RunningCall, CallGoesOn
  <2>3. TypeOK'
    BY <1>0, <1>1, <2>1 DEF TypeOK
  <2>4. CallOK'
    BY <1>0, <2>1, <2>2 DEF CallOK
  <2>5. mu' \in Callers
    BY <2>1, RunningCall
  <2>6. MemoryOK'
    BY <1>0, <2>1, <2>2, <2>5 DEF MemoryOK
  <2> QED BY <2>2, <2>3, <2>4, <2>6 DEF IInv
<1>12. CASE DrainResult(c)
  <2>1. PICK failing \in Failures : destroyORTValues(failing)
    BY <1>12 DEF DrainResult
  <2>2. /\ call[c] = "drain" /\ exec' = "idle" /\ UNCHANGED <<terminated, ended>>
        /\ PredictReturns(c, "cancelled")
    BY <1>12 DEF DrainResult
  <2> QED BY <1>0, <1>1, <2>1, <2>2, NothingLive, RunningCall, CallEnds DEF TypeOK
<1>13. CASE ContextEnds(c)
  <2>1. /\ ended' = [ended EXCEPT ![c] = TRUE]
        /\ UNCHANGED <<mu, exec, memory, terminated, call, outcome>>
    BY <1>13 DEF ContextEnds, nativeVars
  <2>2. TypeOK'
    BY <1>0, <1>1, <2>1 DEF TypeOK
  <2>3. CallOK'
    BY <1>0, <2>1 DEF CallOK, TypeOK
  <2>4. MutexOK' /\ PhaseOK' /\ TeardownIsComplete'
    BY <1>1, <2>1 DEF IInv, MutexOK, PhaseOK, TeardownIsComplete
  <2>5. MemoryOK'
    BY <1>0, <2>1 DEF MemoryOK, InputsInOrder
  <2> QED BY <2>2, <2>3, <2>4, <2>5 DEF IInv
<1> QED BY <1>2, <1>4, <1>5, <1>6, <1>7, <1>8, <1>9, <1>10, <1>11, <1>12, <1>13
     DEF CallerStep

(* The native run ends, whatever its result, while a Predict waits for it. *)
LEMMA ExecuteInv ==
  ASSUME IInv, ExecuteReturns
  PROVE  IInv'
<1>0. TypeOK /\ MutexOK /\ CallOK /\ MemoryOK
  BY DEF IInv
<1>1. /\ exec = "running"
      /\ UNCHANGED <<phase, real, held, closeFailed, closed, mu, terminated, call,
                     ended, outcome, close, ret>>
  BY DEF ExecuteReturns, resourceVars, callVars, closeVars
<1>2. PICK c \in Callers : mu = c
  BY <1>0, <1>1 DEF CallOK
<1>3. /\ call[c] \in {"select", "drain"}
      /\ \A d \in Callers : d # c => call[d] = "out"
  BY <1>0, <1>1, <1>2 DEF CallOK, MutexOK
<1>4. /\ \A v \in InputNames : memory[v] = "live" /\ memory["options"] = "live"
      /\ \A v \in Outputs : memory[v] = "none"
  BY <1>0, <1>1, <1>3 DEF MemoryOK, InputNames
<1>5. MutexOK' /\ PhaseOK' /\ TeardownIsComplete'
  BY <1>1 DEF IInv, MutexOK, PhaseOK, TeardownIsComplete
<1>6. \/ exec' = "failed" /\ memory' = memory
      \/ /\ exec' \in {"ok", "invalid"}
         /\ memory' = [v \in Values |-> IF v \in Outputs THEN "live" ELSE memory[v]]
  BY DEF ExecuteReturns, Allocate
<1>7. TypeOK'
  BY <1>0, <1>1, <1>6 DEF TypeOK
<1>8. CallOK'
  BY <1>0, <1>1, <1>2, <1>3, <1>6 DEF CallOK
<1>9. /\ \A v \in InputNames : memory'[v] = "live"
      /\ memory'["options"] = "live"
      /\ \A v \in Outputs :
           memory'[v] = IF exec' \in {"ok", "invalid"} THEN "live" ELSE "none"
  BY <1>4, <1>6, ValuesAre DEF InputNames, Outputs
<1>10. MemoryOK'
  BY <1>1, <1>2, <1>3, <1>9 DEF MemoryOK
<1> QED BY <1>5, <1>7, <1>8, <1>10 DEF IInv
-----------------------------------------------------------------------------
(***************************************************************************)
(* Close.                                                                  *)
(***************************************************************************)

(* Every step of a Close keeps the invariant, wherever it fails or is      *)
(* cancelled: the next one goes on with what is still held.                *)
LEMMA CloserInv ==
  ASSUME IInv, NEW k \in Closers, CloserStep(k) \/ CloseStarts(k)
  PROVE  IInv'
<1>0. TypeOK /\ MutexOK /\ PhaseOK /\ CallOK /\ MemoryOK /\ TeardownIsComplete
  BY DEF IInv
<1>1. UNCHANGED <<phase, exec, memory, terminated, call, ended, outcome>>
  BY DEF CloserStep, CloseStageFails, CloseStageSucceeds, CloseCancelled,
     CloseStarts, nativeVars, callVars
<1>2. mu = k \/ mu = "free"
  BY <1>0 DEF CloserStep, CloseStageFails, CloseStageSucceeds, CloseCancelled,
     CloseStarts, MutexOK
<1>3. phase = "open"
  BY <1>0, <1>2, DistinctGoroutines DEF CloserStep, CloseStageFails,
     CloseStageSucceeds, CloseCancelled, CloseStarts, MutexOK
<1>4. /\ mu \notin Callers /\ exec = "idle" /\ \A v \in Values : memory[v] # "live"
      /\ \A c \in Callers : call[c] = "out"
  <2>1. mu \notin Callers
    BY <1>2, DistinctGoroutines
  <2> QED BY <1>0, <2>1 DEF CallOK, MemoryOK, MutexOK
<1>5. ASSUME mu' \notin Callers PROVE CallOK' /\ MemoryOK'
  BY <1>1, <1>4, <1>5 DEF CallOK, MemoryOK
<1>6. \A j \in Closers : j # k => close[j] = "out"
  BY <1>0, <1>2, DistinctGoroutines DEF MutexOK
<1>7. /\ "free" \notin Callers /\ "free" \notin Closers /\ k \notin Callers /\ k # "free"
  BY DistinctGoroutines
<1>8. ASSUME Return(k, "error"), UNCHANGED <<real, held, closed>>,
             closeFailed' \in SUBSET Resources, close[k] = "close"
      PROVE  IInv'
  <2>1. mu' = "free" /\ close' = [close EXCEPT ![k] = "out"]
        /\ ret' = [ret EXCEPT ![k] = "error"]
    BY <1>8 DEF Return
  <2>2. \A j \in Closers : close'[j] = "out"
    BY <1>0, <1>6, <2>1 DEF TypeOK
  <2>3. TypeOK'
    BY <1>0, <1>1, <1>8, <2>1 DEF TypeOK
  <2>4. MutexOK'
    BY <1>1, <1>4, <1>7, <2>1, <2>2 DEF MutexOK
  <2>5. PhaseOK'
    BY <1>0, <1>1, <1>8 DEF PhaseOK
  <2>6. TeardownIsComplete'
    BY <1>0, <1>1, <1>3, <1>8, <2>1 DEF TeardownIsComplete, TypeOK
  <2> QED BY <1>5, <1>7, <2>1, <2>3, <2>4, <2>5, <2>6 DEF IInv
<1>9. CASE CloseStageFails(k)
  <2>1. nextToClose \in Resources
    BY DEF nextToClose, Resources
  <2>2. closeFailed' \in SUBSET Resources
    BY <1>0, <1>9, <2>1 DEF CloseStageFails, TypeOK
  <2> QED BY <1>8, <1>9, <2>2 DEF CloseStageFails
<1>10. CASE CloseCancelled(k)
  BY <1>0, <1>8, <1>10 DEF CloseCancelled, resourceVars, TypeOK
<1>11. CASE CloseStarts(k)
  <2>1. mu = "free" /\ close[k] = "out" /\ UNCHANGED <<real, held, closeFailed, closed>>
    BY <1>11 DEF CloseStarts, resourceVars
  <2>2. PhaseOK'
    BY <1>0, <1>1, <2>1 DEF PhaseOK
  <2>3. CASE closed
    <3>1. mu' = "free" /\ close' = close /\ ret' = [ret EXCEPT ![k] = "nil"]
      BY <1>11, <2>3 DEF CloseStarts, Return
    <3>2. TypeOK' /\ MutexOK'
      BY <1>0, <1>1, <2>1, <3>1 DEF TypeOK, MutexOK
    <3>3. TeardownIsComplete'
      BY <1>0, <1>1, <1>3, <2>1, <2>3, <3>1 DEF TeardownIsComplete, TypeOK
    <3> QED BY <1>5, <1>7, <2>2, <3>1, <3>2, <3>3 DEF IInv
  <2>4. CASE ~closed
    <3>1. /\ mu' = k /\ close' = [close EXCEPT ![k] = "close"]
          /\ ret' = [ret EXCEPT ![k] = "none"]
      BY <1>11, <2>4 DEF CloseStarts
    <3>2. TypeOK'
      BY <1>0, <1>1, <2>1, <3>1 DEF TypeOK
    <3>3. held # {}
      BY <1>0, <1>3, <2>4 DEF TeardownIsComplete, PhaseOK, TypeOK
    <3>4. MutexOK'
      BY <1>0, <1>1, <1>3, <1>4, <1>6, <1>7, <2>1, <2>4, <3>1, <3>3 DEF MutexOK, TypeOK
    <3>5. TeardownIsComplete'
      BY <1>0, <1>1, <1>3, <2>1, <3>1 DEF TeardownIsComplete, TypeOK
    <3> QED BY <1>5, <1>7, <2>2, <3>1, <3>2, <3>4, <3>5 DEF IInv
  <2> QED BY <2>3, <2>4
<1>12. CASE CloseStageSucceeds(k)
  <2>1. close[k] = "close" /\ mu = k /\ held # {} /\ ~closed
    BY <1>0, <1>12, <1>7 DEF CloseStageSucceeds, MutexOK
  <2>2. PICK n \in Resources : n = nextToClose
    BY DEF nextToClose, Resources
  <2>3. /\ real' = [real EXCEPT ![n] = "released"] /\ held' = held \ {n}
        /\ closeFailed' = closeFailed
    BY <1>12, <2>2 DEF CloseStageSucceeds
  <2>4. \/ n = "session" /\ "session" \in held
        \/ n = "tokenizer" /\ "tokenizer" \in held /\ "session" \notin held
        \/ n = "source" /\ "tokenizer" \notin held /\ "session" \notin held
    BY <2>2 DEF nextToClose
  <2>5. /\ held = {r \in Resources : real[r] = "open"}
        /\ \A r \in Resources : real[r] # "absent"
    BY <1>0, <1>3 DEF TeardownIsComplete, PhaseOK
  <2>6. /\ real' \in [Resources -> {"absent", "open", "released"}]
        /\ held' = {r \in Resources : real'[r] = "open"}
        /\ \A r \in Resources : real'[r] # "absent"
    BY <1>0, <2>3, <2>5 DEF TypeOK
  <2>7. /\ real'["session"] = "open" => real'["tokenizer"] = "open"
        /\ real'["tokenizer"] = "open" => real'["source"] = "open"
    BY <1>0, <1>3, <2>3, <2>4, <2>5 DEF TeardownIsComplete, TypeOK, Resources
  <2>8. held' = {} <=> \A r \in Resources : real'[r] = "released"
    BY <2>6
  <2>9. PhaseOK'
    BY <1>1, <1>3, <2>6 DEF PhaseOK, Resources
  <2>10. CASE held' = {}
    <3>1. /\ closed' = TRUE /\ mu' = "free" /\ close' = [close EXCEPT ![k] = "out"]
          /\ ret' = [ret EXCEPT ![k] = "nil"]
      BY <1>12, <2>10 DEF CloseStageSucceeds, Return
    <3>2. \A j \in Closers : close'[j] = "out"
      BY <1>0, <1>6, <3>1 DEF TypeOK
    <3>3. TypeOK'
      BY <1>0, <1>1, <2>3, <2>6, <3>1 DEF TypeOK
    <3>4. MutexOK'
      BY <1>1, <1>4, <1>7, <3>1, <3>2 DEF MutexOK
    <3>5. TeardownIsComplete'
      BY <1>1, <1>3, <2>6, <2>7, <2>8, <2>10, <3>1 DEF TeardownIsComplete
    <3> QED BY <1>5, <1>7, <2>9, <3>1, <3>3, <3>4, <3>5 DEF IInv
  <2>11. CASE held' # {}
    <3>1. UNCHANGED <<closed, close, ret, mu>>
      BY <1>12, <2>11 DEF CloseStageSucceeds
    <3>2. TypeOK'
      BY <1>0, <1>1, <2>3, <2>6, <3>1 DEF TypeOK
    <3>3. MutexOK'
      BY <1>0, <1>1, <1>4, <2>11, <3>1 DEF MutexOK
    <3>4. TeardownIsComplete'
      BY <1>0, <1>1, <1>3, <2>1, <2>6, <2>7, <2>8, <2>11, <3>1 DEF TeardownIsComplete
    <3> QED BY <1>4, <1>5, <2>9, <3>1, <3>2, <3>3, <3>4 DEF IInv
  <2> QED BY <2>10, <2>11
<1> QED BY <1>9, <1>10, <1>11, <1>12 DEF CloserStep
-----------------------------------------------------------------------------
(***************************************************************************)
(* The theorems.                                                           *)
(***************************************************************************)

(* The invariant holds in every state of every behaviour.                  *)
THEOREM Invariance == Spec => []IInv
<1>1. IInv /\ [Next]_vars => IInv'
  <2> SUFFICES ASSUME IInv, [Next]_vars PROVE IInv'
    OBVIOUS
  <2>1. CASE UNCHANGED vars
    <3>1. UNCHANGED <<phase, real, held, closeFailed, closed, mu, exec, memory,
                      terminated, call, ended, outcome, close, ret>>
      BY <2>1 DEF vars, resourceVars, nativeVars, callVars, closeVars
    <3>2. TypeOK' /\ MutexOK' /\ PhaseOK' /\ CallOK'
      BY <3>1 DEF IInv, TypeOK, MutexOK, PhaseOK, CallOK
    <3>3. MemoryOK'
      BY <3>1 DEF IInv, MemoryOK, InputsInOrder
    <3>4. TeardownIsComplete'
      BY <3>1 DEF IInv, TeardownIsComplete
    <3> QED BY <3>2, <3>3, <3>4 DEF IInv
  <2>2. CASE OpenStageSucceeds \/ OpenStageFails \/ OpenStageCancelled
    BY <2>2, OpenInv
  <2>3. CASE ExecuteReturns
    BY <2>3, ExecuteInv
  <2>4. ASSUME NEW c \in Callers, CallerStep(c) \/ PredictStarts(c) \/ ContextEnds(c)
        PROVE  IInv'
    BY <2>4, CallerInv
  <2>5. ASSUME NEW k \in Closers, CloserStep(k) \/ CloseStarts(k) PROVE IInv'
    BY <2>5, CloserInv
  <2> QED BY <2>1, <2>2, <2>3, <2>4, <2>5 DEF Next
<1> QED BY <1>1, InitInv, PTL DEF Spec

(* Native code only ever works on memory that exists, and no value of a    *)
(* call outlives its Predict (executeCancelableNativeCall, Run).           *)
THEOREM MemorySafety == Spec => []NoUseAfterFree
<1>1. IInv => NoUseAfterFree
  <2> SUFFICES ASSUME IInv PROVE NoUseAfterFree
    OBVIOUS
  <2>1. ASSUME NEW c \in Callers, call[c] \in {"select", "drain"}
        PROVE  exec # "idle" /\ Allocated(Values \ Outputs)
    <3>1. \A v \in InputNames : memory[v] = "live"
      BY <2>1 DEF IInv, MemoryOK
    <3>2. memory["options"] = "live"
      BY <2>1 DEF IInv, MemoryOK
    <3>3. Values \ Outputs = InputNames \union {"options"}
      BY ValuesAre DEF InputNames, Outputs
    <3> QED BY <2>1, <3>1, <3>2, <3>3 DEF IInv, CallOK, Allocated
  <2>2. ASSUME NEW c \in Callers, call[c] = "prepare"
        PROVE  real["tokenizer"] = "open"
    BY <2>2, RunningCall DEF Resources
  <2>3. ASSUME exec = "running"
        PROVE  Allocated(Values \ Outputs) /\ \A r \in Resources : real[r] = "open"
    <3>1. PICK c \in Callers : mu = c
      BY <2>3 DEF IInv, CallOK
    <3>2. call[c] # "out"
      BY <3>1 DEF IInv, MutexOK
    <3>3. call[c] \in {"select", "drain"}
      BY <2>3, <3>2 DEF IInv, CallOK
    <3> QED BY <2>1, <3>2, <3>3, RunningCall
  <2>4. mu \notin Callers => exec = "idle" /\ \A v \in Values : memory[v] # "live"
    BY DEF IInv, CallOK, MemoryOK
  <2> QED BY <2>1, <2>2, <2>3, <2>4 DEF NoUseAfterFree
<1> QED BY <1>1, Invariance, PTL

(* Resources are released in reverse order, none twice, none forgotten;    *)
(* Close returns nil only when all are (Close, nativeOpenFailure).         *)
THEOREM CompleteTeardown == Spec => []TeardownIsComplete
<1>1. IInv => TeardownIsComplete
  BY DEF IInv
<1> QED BY <1>1, Invariance, PTL

(* Every return of Predict reports what happened: cancellation exactly     *)
(* when the context has ended, a result only for a clean run (runError).   *)
THEOREM TruthfulOutcome == Spec => OutcomeIsTruthful
<1> DEFINE Truthful ==
      \A c \in Callers :
        call[c] \notin {"out", "prepare"} /\ call'[c] = "out" =>
          /\ outcome'[c] = "cancelled" <=> ended[c]
          /\ terminated # "no" => outcome'[c] = "cancelled"
          /\ outcome'[c] = "ok" =>
               exec = "ok" /\ \A v \in Values : memory'[v] = "freed"
<1>1. ASSUME IInv, [Next]_vars PROVE [Truthful]_vars
  <2> SUFFICES ASSUME NEW c \in Callers, call[c] \notin {"out", "prepare"},
                      call'[c] = "out"
               PROVE  /\ outcome'[c] = "cancelled" <=> ended[c]
                      /\ terminated # "no" => outcome'[c] = "cancelled"
                      /\ outcome'[c] = "ok" =>
                           exec = "ok" /\ \A v \in Values : memory'[v] = "freed"
    OBVIOUS
  <2>0. TypeOK /\ MutexOK /\ CallOK /\ MemoryOK
    BY <1>1 DEF IInv
  <2>1. call' # call
    BY <2>0
  <2>2. mu = c
    BY <2>0 DEF MutexOK
  <2>3. \A d \in Callers : d # c => call[d] = "out"
    BY <2>0, <2>2 DEF MutexOK
  <2>4. CallerStep(c)
    <3>1. ~UNCHANGED vars
      BY <2>1 DEF vars, callVars
    <3>2. ASSUME OpenStageSucceeds \/ OpenStageFails \/ OpenStageCancelled \/ ExecuteReturns
          PROVE  FALSE
      BY <2>1, <3>2 DEF OpenStageSucceeds, OpenStageFails, OpenStageCancelled,
         ExecuteReturns, callVars
    <3>3. ASSUME NEW k \in Closers, CloserStep(k) \/ CloseStarts(k) PROVE FALSE
      BY <2>1, <3>3 DEF CloserStep, CloseStageFails, CloseStageSucceeds,
         CloseCancelled, CloseStarts, callVars
    <3>4. ASSUME NEW d \in Callers, PredictStarts(d) \/ ContextEnds(d) PROVE FALSE
      <4>1. mu # "free"
        BY <2>2, DistinctGoroutines
      <4> QED BY <2>1, <3>4, <4>1 DEF PredictStarts, ContextEnds
    <3>5. ASSUME NEW d \in Callers, CallerStep(d), d # c PROVE FALSE
      BY <2>3, <3>5 DEF CallerStep, PrepareBatch, RunStarts, NewORTInput,
         NewRunOptions, AllocationFails, ExecuteStarts, ReceiveResult,
         TerminateCall, DrainResult, GoCall
    <3> QED BY <1>1, <3>1, <3>2, <3>3, <3>4, <3>5 DEF Next
  <2>5. ASSUME NEW result, PredictReturns(c, result) PROVE outcome'[c] = result
    BY <2>0, <2>5 DEF PredictReturns, TypeOK
  <2>6. call[c] # "drain" => terminated = "no"
    BY <2>0 DEF CallOK
  <2> USE DEF GoCall
  <2>7. CASE RunStarts(c)
    <3>1. call[c] = "run" /\ PredictReturns(c, runError(c, "failed"))
      BY <2>0, <2>7 DEF RunStarts, TypeOK
    <3>2. outcome'[c] = IF ended[c] THEN "cancelled" ELSE "failed"
      BY <2>5, <3>1 DEF runError
    <3> QED BY <2>6, <3>1, <3>2
  <2>8. CASE AllocationFails(c)
    <3>1. call[c] = "inputs" /\ PredictReturns(c, runError(c, "failed"))
      BY <2>8 DEF AllocationFails
    <3>2. outcome'[c] = IF ended[c] THEN "cancelled" ELSE "failed"
      BY <2>5, <3>1 DEF runError
    <3> QED BY <2>6, <3>1, <3>2
  <2>9. CASE ExecuteStarts(c)
    <3>1. call[c] = "execute" /\ ended[c] /\ PredictReturns(c, "cancelled")
      BY <2>0, <2>9 DEF ExecuteStarts, TypeOK
    <3> QED BY <2>5, <3>1
  <2>10. CASE DrainResult(c)
    <3>1. call[c] = "drain" /\ PredictReturns(c, "cancelled")
      BY <2>10 DEF DrainResult
    <3>2. ended[c]
      BY <2>0, <3>1 DEF CallOK
    <3> QED BY <2>5, <3>1, <3>2
  <2>11. CASE ReceiveResult(c)
    <3>1. PICK failing \in Failures :
            destroyORTValues(failing) /\ PredictReturns(c, runError(c, callError(failing)))
      BY <2>11 DEF ReceiveResult
    <3>2. call[c] = "select" /\ exec \in {"ok", "invalid", "failed"}
      BY <2>11 DEF ReceiveResult
    <3>3. outcome'[c] = IF ended[c] THEN "cancelled" ELSE callError(failing)
      BY <2>5, <3>1 DEF runError
    <3>4. callError(failing) # "cancelled" /\
            (callError(failing) = "ok" => exec = "ok" /\ failing = {})
      BY <3>2 DEF callError
    <3>5. ASSUME outcome'[c] = "ok"
          PROVE  exec = "ok" /\ \A v \in Values : memory'[v] = "freed"
      <4>1. exec = "ok" /\ failing = {}
        BY <3>3, <3>4, <3>5
      <4>2. \A v \in Values : memory[v] = "live"
        BY <2>0, <3>2, <4>1, ValuesAre DEF MemoryOK, Outputs, InputNames
      <4> QED BY <3>1, <4>1, <4>2 DEF destroyORTValues
    <3> QED BY <2>6, <3>2, <3>3, <3>4, <3>5
  <2>12. CASE PrepareBatch(c) \/ NewORTInput(c) \/ NewRunOptions(c) \/ TerminateCall(c)
    BY <2>0, <2>12 DEF PrepareBatch, NewORTInput, NewRunOptions, TerminateCall,
       callVars, TypeOK
  <2> QED BY <2>4, <2>7, <2>8, <2>9, <2>10, <2>11, <2>12 DEF CallerStep
<1> QED BY <1>1, Invariance, PTL DEF Spec, OutcomeIsTruthful
=============================================================================
