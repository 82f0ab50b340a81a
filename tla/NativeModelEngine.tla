-------------------------- MODULE NativeModelEngine --------------------------
(***************************************************************************)
(* The engine of one model over native resources: how openVerified builds  *)
(* it and unwinds a failure, how Predict runs a native call that can be    *)
(* cancelled, and how Close releases the resources in reverse order and    *)
(* resumes after a failure (native_lifecycle.go, native_run.go, the native *)
(* call of native_backend_enabled.go).                                     *)
(*                                                                         *)
(* Predict and Close hold e.mu from start to end; here callers and closers *)
(* come in any order, without the admission of module Model in front.      *)
(***************************************************************************)
EXTENDS Integers, Sequences, FiniteSets

CONSTANTS Callers,   \* goroutines that call Predict
          Closers    \* goroutines that call Close

ASSUME DistinctGoroutines ==
  Callers \intersect Closers = {} /\ "free" \notin Callers \union Closers

Resources == {"source", "tokenizer", "session"}

(* What a native call allocates in ONNX Runtime: five input tensors in     *)
(* this order, the run options, and two outputs, made by the run itself.   *)
Inputs == <<"input_ids", "attention_mask", "marker_pos", "marker_mask", "qtype">>
Outputs == {"logits", "action_logits"}
Values == {Inputs[i] : i \in DOMAIN Inputs} \union {"options"} \union Outputs

VARIABLES
  phase,        \* of openVerified: next resource to open, "open" or "failed"
  real,         \* each resource in the library: absent, open, released
  held,         \* the engine (or openVerified) has a reference to it
  closeFailed,  \* a Close of the resource has failed at least once
  closed,       \* e.closed
  mu,           \* the goroutine that holds e.mu, or "free"
  exec,         \* call.Execute: idle, running, or its result
  memory,       \* each value of the last call: none, live, freed, or lost
                \* because its Destroy failed
  terminated,   \* run options' Terminate: not called, effective or failed
  call, ended,  \* each Predict, and whether its context has ended
  outcome,      \* what each Predict returned last
  close, ret    \* each Close, and what it returned

resourceVars == <<real, held, closeFailed, closed>>
nativeVars == <<exec, memory, terminated>>
callVars == <<call, ended, outcome>>
closeVars == <<close, ret>>
vars == <<phase, resourceVars, mu, nativeVars, callVars, closeVars>>

Init ==
  /\ phase = "calibration"
  /\ real = [r \in Resources |-> IF r = "source" THEN "open" ELSE "absent"]
  /\ held = {"source"}
  /\ closeFailed = {}
  /\ closed = FALSE
  /\ mu = "free"
  /\ exec = "idle"
  /\ memory = [v \in Values |-> "none"]
  /\ terminated = "no"
  /\ call = [c \in Callers |-> "out"]
  /\ ended = [c \in Callers |-> FALSE]
  /\ outcome = [c \in Callers |-> "none"]
  /\ close = [k \in Closers |-> "out"]
  /\ ret = [k \in Closers |-> "none"]
-----------------------------------------------------------------------------
(***************************************************************************)
(* openVerified and nativeOpenFailure.                                     *)
(***************************************************************************)

(* nativeOpenFailure closes what has been opened, session first, whatever  *)
(* the result, and drops every reference; got is what was opened.          *)
nativeOpenFailure_KeepsLast(got) ==
  \E failing \in SUBSET got :
    /\ real' = [r \in Resources |->
                  IF r \in (got \ failing) \ {"session"} THEN "released"
                  ELSE IF r \in got THEN "open" ELSE real[r]]
    /\ closeFailed' = closeFailed \union failing
    /\ held' = {}
    /\ phase' = "failed"

nativeOpenFailure(got) ==
  \E failing \in SUBSET got :
    /\ real' = [r \in Resources |->
                  IF r \in got \ failing THEN "released"
                  ELSE IF r \in got THEN "open" ELSE real[r]]
    /\ closeFailed' = closeFailed \union failing
    /\ held' = {}
    /\ phase' = "failed"

(* The stages of openVerified: the calibration is read and parsed; the     *)
(* tokenizer and then the session are resolved and opened, with a look at  *)
(* the context after each.                                                 *)
NextPhase == [calibration |-> "tokenizer", tokenizer |-> "session",
              session |-> "open"]

OpenStageFails ==
  /\ phase \in DOMAIN NextPhase
  /\ nativeOpenFailure(held)
  /\ UNCHANGED <<closed, mu, nativeVars, callVars, closeVars>>

OpenStageSucceeds ==
  /\ phase \in DOMAIN NextPhase
  /\ real' = [r \in Resources |-> IF r = phase THEN "open" ELSE real[r]]
  /\ held' = held \union ({phase} \intersect Resources)
  /\ phase' = NextPhase[phase]
  /\ UNCHANGED <<closeFailed, closed, mu, nativeVars, callVars, closeVars>>

(* The resource is open, but the context has ended meanwhile.              *)
OpenStageCancelled ==
  /\ phase \in DOMAIN NextPhase \intersect Resources
  /\ nativeOpenFailure(held \union {phase})
  /\ UNCHANGED <<closed, mu, nativeVars, callVars, closeVars>>
-----------------------------------------------------------------------------
(***************************************************************************)
(* The values of a native call.                                            *)
(***************************************************************************)

(* Destroy is called on every value that is there, last first, whatever    *)
(* the others returned, and the reference is dropped; the call's error     *)
(* joins the failures. Bound: at most one Destroy of a call fails.         *)
Failures == {{}} \union {{v} : v \in {u \in Values : memory[u] = "live"}}

destroyORTValues(failing) ==
  memory' = [v \in Values |->
               IF memory[v] # "live" THEN memory[v]
               ELSE IF v \in failing THEN "lost" ELSE "freed"]

Allocate(values) ==
  memory' = [v \in Values |-> IF v \in values THEN "live" ELSE memory[v]]

Allocated(values) == \A v \in values : memory[v] = "live"
-----------------------------------------------------------------------------
(***************************************************************************)
(* nativeModelEngine.Predict, localSessionResource.Run and                 *)
(* executeCancelableNativeCall.                                            *)
(***************************************************************************)
GoCall(c, from, to) == call[c] = from /\ call' = [call EXCEPT ![c] = to]

PredictReturns(c, result) ==
  /\ call' = [call EXCEPT ![c] = "out"]
  /\ outcome' = [outcome EXCEPT ![c] = result]
  /\ mu' = "free"

(* Predict takes e.mu and finds the engine closed, without the resources   *)
(* an unfinished Close has released, or ready.                             *)
PredictStarts(c) ==
  /\ phase = "open" /\ mu = "free" /\ call[c] = "out"
  /\ ended' = [ended EXCEPT ![c] = FALSE]
  /\ memory' = [v \in Values |-> "none"] /\ terminated' = "no"
  /\ IF closed \/ ~({"tokenizer", "session"} \subseteq held)
     THEN PredictReturns(c, IF closed THEN "closed" ELSE "incomplete")
     ELSE /\ GoCall(c, "out", "prepare")
          /\ mu' = c
          /\ outcome' = [outcome EXCEPT ![c] = "none"]
  /\ UNCHANGED <<phase, resourceVars, exec, closeVars>>

(* prepareInferenceBatch encodes the texts with the tokenizer and may      *)
(* refuse them; then Predict looks at the context.                         *)
PrepareBatch(c) ==
  /\ \/ call[c] = "prepare" /\ PredictReturns(c, "rejected")
     \/ call[c] = "prepare" /\ ended[c] /\ PredictReturns(c, "cancelled")
     \/ ~ended[c] /\ GoCall(c, "prepare", "run") /\ UNCHANGED <<mu, outcome>>
  /\ UNCHANGED <<phase, resourceVars, nativeVars, ended, closeVars>>

(* How Predict reports an error of Run: as the context's if it has ended,  *)
(* as invalid output if that is in the chain, as a native failure if not.  *)
runError_Verbatim(c, err) == err

runError(c, err) == IF ended[c] THEN "cancelled" ELSE err

(* Run refuses a batch that is not rectangular (any may be, for this       *)
(* model), looks at the context once more and allocates the inputs.        *)
RunStarts(c) ==
  /\ \/ call[c] = "run" /\ PredictReturns(c, runError(c, "failed"))
     \/ ~ended[c] /\ GoCall(c, "run", "inputs") /\ UNCHANGED <<mu, outcome>>
  /\ UNCHANGED <<phase, resourceVars, nativeVars, ended, closeVars>>

nextInput == CHOOSE i \in DOMAIN Inputs :
  memory[Inputs[i]] = "none" /\ \A j \in 1..i-1 : memory[Inputs[j]] # "none"

NewORTInput(c) ==
  /\ call[c] = "inputs" /\ memory["qtype"] = "none"
  /\ Allocate({Inputs[nextInput]})
  /\ UNCHANGED <<phase, resourceVars, mu, exec, terminated, callVars, closeVars>>

NewRunOptions(c) ==
  /\ memory["qtype"] = "live"
  /\ GoCall(c, "inputs", "execute")
  /\ Allocate({"options"})
  /\ UNCHANGED <<phase, resourceVars, mu, exec, terminated, ended, outcome,
                 closeVars>>

(* An input or the run options cannot be allocated: what has been          *)
(* allocated is destroyed.                                                 *)
AllocationFails(c) ==
  /\ call[c] = "inputs"
  /\ \E failing \in Failures : destroyORTValues(failing)
  /\ PredictReturns(c, runError(c, "failed"))
  /\ UNCHANGED <<phase, resourceVars, exec, terminated, ended, closeVars>>

(* executeCancelableNativeCall looks at the context a last time and starts *)
(* Execute in a goroutine.                                                 *)
ExecuteStarts(c) ==
  /\ IF ended[c]
     THEN /\ call[c] = "execute"
          /\ \E failing \in Failures : destroyORTValues(failing)
          /\ PredictReturns(c, "cancelled")
          /\ UNCHANGED exec
     ELSE /\ GoCall(c, "execute", "select")
          /\ exec' = "running"
          /\ UNCHANGED <<memory, outcome, mu>>
  /\ UNCHANGED <<phase, resourceVars, terminated, ended, closeVars>>

(* The native run ends; a successful one has made the outputs, which       *)
(* copyORTOutputs may find of the wrong type or shape.                     *)
ExecuteReturns ==
  /\ exec = "running"
  /\ \/ exec' = "failed" /\ UNCHANGED memory
     \/ exec' \in {"ok", "invalid"} /\ Allocate(Outputs)
  /\ UNCHANGED <<phase, resourceVars, mu, terminated, callVars, closeVars>>

(* The result arrives first: the call's values are destroyed, and Predict  *)
(* returns the result, unless the context has ended meanwhile or a Destroy *)
(* has failed.                                                             *)
callError(failing) == IF exec = "ok" /\ failing # {} THEN "failed" ELSE exec

ReceiveResult(c) ==
  /\ exec \in {"ok", "invalid", "failed"}
  /\ call[c] = "select"
  /\ \E failing \in Failures :
       /\ destroyORTValues(failing)
       /\ PredictReturns(c, runError(c, callError(failing)))
  /\ exec' = "idle"
  /\ UNCHANGED <<phase, resourceVars, terminated, ended, closeVars>>

(* The context ends first, or as well: the run is told to terminate ...    *)
TerminateCall_Forgotten(c) ==
  /\ ended[c]
  /\ GoCall(c, "select", "drain")
  /\ UNCHANGED <<phase, resourceVars, mu, nativeVars, ended, outcome, closeVars>>

TerminateCall(c) ==
  /\ ended[c]
  /\ GoCall(c, "select", "drain")
  /\ terminated' \in {"yes", "failed"}
  /\ UNCHANGED <<phase, resourceVars, mu, exec, memory, ended, outcome, closeVars>>

(* ... and its values are destroyed only when it has returned.             *)
DrainResult_FreesEarly(c) ==
  /\ call[c] = "drain" /\ Allocated({"options"})
  /\ destroyORTValues({})
  /\ UNCHANGED <<phase, resourceVars, mu, exec, terminated, callVars, closeVars>>

DrainResult(c) ==
  /\ exec \in {"ok", "invalid", "failed"}
  /\ call[c] = "drain"
  /\ \E failing \in Failures : destroyORTValues(failing)
  /\ PredictReturns(c, "cancelled")
  /\ exec' = "idle"
  /\ UNCHANGED <<phase, resourceVars, terminated, ended, closeVars>>

ContextEnds(c) ==
  /\ call[c] # "out" /\ ~ended[c]
  /\ ended' = [ended EXCEPT ![c] = TRUE]
  /\ UNCHANGED <<phase, resourceVars, mu, nativeVars, call, outcome, closeVars>>
-----------------------------------------------------------------------------
(***************************************************************************)
(* nativeModelEngine.Close.                                                *)
(***************************************************************************)
Return(k, value) ==
  /\ close' = [close EXCEPT ![k] = "out"]
  /\ ret' = [ret EXCEPT ![k] = value]
  /\ mu' = "free"

(* Close takes e.mu; a closed engine has nothing left to do.               *)
CloseStarts(k) ==
  /\ phase = "open" /\ mu = "free" /\ close[k] = "out"
  /\ IF closed THEN Return(k, "nil") /\ UNCHANGED close
     ELSE /\ mu' = k
          /\ close' = [close EXCEPT ![k] = "close"]
          /\ ret' = [ret EXCEPT ![k] = "none"]
  /\ UNCHANGED <<phase, resourceVars, nativeVars, callVars>>

(* The first reference that is not nil, in the order of Close.             *)
nextToClose_Forward ==
  IF "source" \in held THEN "source"
  ELSE IF "tokenizer" \in held THEN "tokenizer" ELSE "session"

nextToClose ==
  IF "session" \in held THEN "session"
  ELSE IF "tokenizer" \in held THEN "tokenizer" ELSE "source"

(* A failed close keeps the reference, for the next Close to try again.    *)
CloseStageFails_Forgets(k) ==
  /\ close[k] = "close"
  /\ closeFailed' = closeFailed \union {nextToClose}
  /\ held' = held \ {nextToClose}
  /\ closed' = (held' = {})
  /\ Return(k, "error")
  /\ UNCHANGED <<phase, real, nativeVars, callVars>>

CloseStageFails(k) ==
  /\ close[k] = "close"
  /\ closeFailed' = closeFailed \union {nextToClose}
  /\ Return(k, "error")
  /\ UNCHANGED <<phase, real, held, closed, nativeVars, callVars>>

CloseStageSucceeds(k) ==
  /\ close[k] = "close"
  /\ real' = [real EXCEPT ![nextToClose] = "released"]
  /\ held' = held \ {nextToClose}
  /\ IF held' = {} THEN closed' = TRUE /\ Return(k, "nil")
                   ELSE UNCHANGED <<closed, close, ret, mu>>
  /\ UNCHANGED <<phase, closeFailed, nativeVars, callVars>>

(* The looks at the context, before the tokenizer and before the source.   *)
CloseCancelled(k) ==
  /\ close[k] = "close" /\ "session" \notin held
  /\ Return(k, "error")
  /\ UNCHANGED <<phase, resourceVars, nativeVars, callVars>>
-----------------------------------------------------------------------------
CallerStep(c) ==
  \/ PrepareBatch(c) \/ RunStarts(c)
  \/ NewORTInput(c) \/ NewRunOptions(c) \/ AllocationFails(c)
  \/ ExecuteStarts(c)
  \/ ReceiveResult(c) \/ TerminateCall(c) \/ DrainResult(c)

CloserStep(k) == CloseStageFails(k) \/ CloseStageSucceeds(k) \/ CloseCancelled(k)

Next ==
  \/ OpenStageSucceeds \/ OpenStageFails \/ OpenStageCancelled
  \/ ExecuteReturns
  \/ \E c \in Callers : CallerStep(c) \/ PredictStarts(c) \/ ContextEnds(c)
  \/ \E k \in Closers : CloserStep(k) \/ CloseStarts(k)

Spec == Init /\ [][Next]_vars

(* Runnable goroutines run. A native run may take for ever, but one that   *)
(* was terminated returns: that is what ONNX Runtime's terminate flag      *)
(* promises.                                                               *)
FairSpec ==
  /\ Spec
  /\ \A c \in Callers : WF_vars(CallerStep(c))
  /\ \A k \in Closers : WF_vars(CloserStep(k))
  /\ WF_vars(ExecuteReturns /\ terminated = "yes")
-----------------------------------------------------------------------------
(***************************************************************************)
(* Properties.                                                             *)
(***************************************************************************)

(* Native code runs only on memory that exists: while Execute runs, its    *)
(* inputs and run options are allocated and the session, the tokenizer and *)
(* the source files are open, and a batch is encoded by an open tokenizer. *)
(* No call outlives its Predict: on every way out, however far it came,    *)
(* each value it had allocated has been destroyed or its Destroy has       *)
(* failed (newORTInputs, Run and the wait for the result after Terminate). *)
NoUseAfterFree ==
  /\ exec = "running" =>
       Allocated(Values \ Outputs) /\ \A r \in Resources : real[r] = "open"
  /\ \A c \in Callers :
       /\ call[c] = "prepare" => real["tokenizer"] = "open"
       /\ call[c] \in {"select", "drain"} =>
            exec # "idle" /\ Allocated(Values \ Outputs)
  /\ mu \notin Callers => exec = "idle" /\ \A v \in Values : memory[v] # "live"

(* What Predict reports is what happened: a call whose context has ended,  *)
(* with or without a terminated run, reports the cancellation and never    *)
(* its result or a native failure; one whose context is alive never        *)
(* reports a cancellation; and a result is reported only for a run that    *)
(* succeeded, was not terminated and could be cleaned up.                  *)
OutcomeIsTruthful ==
  [][\A c \in Callers :
       call[c] \notin {"out", "prepare"} /\ call'[c] = "out" =>
         /\ outcome'[c] = "cancelled" <=> ended[c]
         /\ terminated # "no" => outcome'[c] = "cancelled"
         /\ outcome'[c] = "ok" =>
              exec = "ok" /\ \A v \in Values : memory'[v] = "freed"]_vars

(* Resources are released in the reverse of the order they were opened in, *)
(* over however many calls of Close that takes; an engine has a reference  *)
(* to exactly the ones that are open, so none is closed twice or lost; it  *)
(* is closed exactly when everything it opened is released, and Close      *)
(* returns nil only then. A failed open leaves nothing open that it did    *)
(* not at least try to close (Close, nativeOpenFailure).                   *)
TeardownIsComplete ==
  /\ phase # "failed" =>
       /\ real["session"] = "open" => real["tokenizer"] = "open"
       /\ real["tokenizer"] = "open" => real["source"] = "open"
       /\ held = {r \in Resources : real[r] = "open"}
  /\ closed <=> phase = "open" /\ \A r \in Resources : real[r] = "released"
  /\ \A k \in Closers : ret[k] = "nil" => closed
  /\ phase = "failed" =>
       \A r \in Resources : real[r] = "open" => r \in closeFailed

(* A Predict whose context ends returns, unless the library refuses to     *)
(* terminate the run.                                                      *)
CancelledCallReturns ==
  \A c \in Callers :
    (call[c] # "out" /\ ended[c]) ~> (call[c] = "out" \/ terminated = "failed")
=============================================================================
