------------------------------- MODULE Runtime -------------------------------
(***************************************************************************)
(* The Runtimes of a process (runtime.go), each over a native engine       *)
(* (native_lifecycle.go: nativeRuntimeEngine) that leases the process-wide *)
(* environment of NativeCoordinator, with the models opened and closed     *)
(* meanwhile.                                                              *)
(*                                                                         *)
(* An opener is a goroutine that opens one model and later closes it, seen *)
(* through what the Runtime does with it: the details of Model.Close are   *)
(* module Model's. Contexts may end at any moment, and the first check     *)
(* that sees it ends the call, so every check may fail.                    *)
(***************************************************************************)
EXTENDS NativeCoordinator

CONSTANTS Runtimes,   \* Runtime values of the process
          Openers,    \* goroutines that open a model, use it and close it
          Closers     \* goroutines that call Runtime.Close

ASSUME RuntimesAssumption == "none" \notin Runtimes

VARIABLES
  coordinator,        \* processNativeCoordinator and the library
  lease,              \* each engine's unreleased lease: its key, or "none"
  (* The fields of each Runtime.                                           *)
  state,              \* absent before NewRuntime; runtimeOpen, ...
  models, opening, closeInProgress,
  (* The goroutines: where each stands, and with which Runtime.            *)
  open, openOf,
  abandoned,          \* Runtimes of which a failed open has left a session
                      \* in the library
  close, closeOf, doneClosed

runtimeVars == <<state, models, opening, closeInProgress>>
openerVars == <<open, openOf, abandoned>>
closerVars == <<close, closeOf, doneClosed>>
vars == <<coordinator, lease, runtimeVars, openerVars, closerVars>>

Init ==
  /\ coordinator = NoEnvironment
  /\ lease = [r \in Runtimes |-> "none"]
  /\ state = [r \in Runtimes |-> "absent"]
  /\ models = [r \in Runtimes |-> {}]
  /\ opening = [r \in Runtimes |-> 0]
  /\ closeInProgress = [r \in Runtimes |-> FALSE]
  /\ open = [g \in Openers |-> "out"]
  /\ openOf = [g \in Openers |-> "none"]
  /\ abandoned = {}
  /\ close = [k \in Closers |-> "out"]
  /\ closeOf = [k \in Closers |-> "none"]
  /\ doneClosed = [k \in Closers |-> FALSE]

(* The model of this opener, or its open, owns a native session in the     *)
(* library.                                                                *)
HasSession(g) == open[g] \in {"opened", "live"}
Cleaning(k) == close[k] \in {"engine", "finishNil", "finishError"}
-----------------------------------------------------------------------------
(***************************************************************************)
(* NewRuntime: newNativeRuntimeEngine resolves the library and acquires a  *)
(* lease, newRuntime wraps the engine. A Runtime that is closed and that   *)
(* nobody uses any more stands for a new one.                              *)
(***************************************************************************)
NewRuntime(r) ==
  /\ state[r] \in {"absent", "Closed"}
  /\ \A k \in Closers : closeOf[k] # r
  /\ \A g \in Openers : openOf[g] # r
  /\ \E s \in Surroundings : LET key == resolveNativeEnvironmentKey(s) IN
       \E o \in IF key = "none" THEN {Outcome(FALSE, coordinator)}
                ELSE acquire(coordinator, key) :
       /\ coordinator' = o.c
       /\ lease' = [lease EXCEPT ![r] = IF o.ok THEN key ELSE @]
       /\ state' = [state EXCEPT ![r] = IF o.ok THEN "Open" ELSE "absent"]
  /\ abandoned' = abandoned \ {r} \* it stands for a new Runtime
  /\ UNCHANGED <<models, opening, closeInProgress, open, openOf, closerVars>>
-----------------------------------------------------------------------------
(***************************************************************************)
(* OpenModelDir, OpenModelFS and, later, the close of the model.           *)
(***************************************************************************)
GoOpen(g, from, to) == open[g] = from /\ open' = [open EXCEPT ![g] = to]
LeaveRuntime(g) == openOf' = [openOf EXCEPT ![g] = "none"]

(* beginOpen; a Runtime that is not open refuses, and nothing changes.     *)
BeginOpen(g) ==
  /\ GoOpen(g, "out", "open")
  /\ \E r \in Runtimes :
       /\ state[r] = "Open"
       /\ opening' = [opening EXCEPT ![r] = @ + 1]
       /\ openOf' = [openOf EXCEPT ![g] = r]
  /\ UNCHANGED <<coordinator, lease, state, models, closeInProgress, abandoned,
                 closerVars>>

(* The engine opens the model's resources, or fails and unwinds them; a    *)
(* closed engine refuses. When the context has ended after OpenSession and *)
(* nativeOpenFailure cannot close the session, it stays in the library and *)
(* belongs to nobody.                                                      *)
EngineOpen(g) ==
  /\ \/ /\ GoOpen(g, "open", "opened") /\ lease[openOf[g]] # "none"
        /\ UNCHANGED abandoned
     \/ GoOpen(g, "open", "failed") /\ UNCHANGED abandoned
     \/ /\ GoOpen(g, "open", "failed") /\ lease[openOf[g]] # "none"
        /\ abandoned' = abandoned \union {openOf[g]}
  /\ UNCHANGED <<coordinator, lease, runtimeVars, openOf, closerVars>>

(* finishOpen registers the model, unless the open failed; when the        *)
(* Runtime has stopped meanwhile, the model's engine is dropped unclosed.  *)
FinishOpen(g) ==
  LET r == openOf[g]
      isOpen == state[r] = "Open"
  IN
  /\ open[g] \in {"opened", "failed"}
  /\ opening' = [opening EXCEPT ![r] = @ - 1]
  /\ \/ /\ GoOpen(g, "opened", IF isOpen THEN "live" ELSE "dropped")
        /\ models' = [models EXCEPT ![r] = IF isOpen THEN @ \union {g} ELSE @]
        /\ UNCHANGED openOf
     \/ /\ GoOpen(g, "failed", "out") /\ LeaveRuntime(g)
        /\ UNCHANGED models
  /\ UNCHANGED <<coordinator, lease, state, closeInProgress, abandoned, closerVars>>

(* Mutant: the Runtime lets go before the model's engine is closed.        *)
ModelEngineClosed_UnregistersFirst(g) ==
  /\ GoOpen(g, "live", "live")
  /\ models' = [models EXCEPT ![openOf[g]] = @ \ {g}]
  /\ UNCHANGED <<coordinator, lease, state, opening, closeInProgress, openOf,
                 abandoned, closerVars>>

(* Model.Close: engine.Close succeeds, and then the Runtime lets go.       *)
ModelEngineClosed(g) ==
  /\ GoOpen(g, "live", "unregister")
  /\ UNCHANGED <<coordinator, lease, runtimeVars, openOf, abandoned, closerVars>>

unregister(g) ==
  /\ GoOpen(g, "unregister", "out") /\ LeaveRuntime(g)
  /\ models' = [models EXCEPT ![openOf[g]] = @ \ {g}]
  /\ UNCHANGED <<coordinator, lease, state, opening, closeInProgress, abandoned,
                 closerVars>>
-----------------------------------------------------------------------------
(***************************************************************************)
(* Runtime.Close.                                                          *)
(***************************************************************************)
GoClose(k, from, to) == close[k] = from /\ close' = [close EXCEPT ![k] = to]
LeaveClose(k) == closeOf' = [closeOf EXCEPT ![k] = "none"]

Close(k) ==
  /\ GoClose(k, "out", "enter")
  /\ \E r \in Runtimes :
       state[r] # "absent" /\ closeOf' = [closeOf EXCEPT ![k] = r]
  /\ UNCHANGED <<coordinator, lease, runtimeVars, openerVars, doneClosed>>

(* The head of the loop returns: nil when closed, the context's error, or  *)
(* ErrModelsOpen, which leaves the Runtime open.                           *)
CloseReturnsAtOnce(k) ==
  /\ GoClose(k, "enter", "out") /\ LeaveClose(k)
  /\ UNCHANGED <<coordinator, lease, runtimeVars, openerVars, doneClosed>>

(* It goes on, when no model is open or being opened: to wait for the      *)
(* cleanup another Close has begun, or to begin it.                        *)
CloseEnters_IgnoresOpening(k) ==
  LET r == closeOf[k] IN
  /\ close[k] = "enter"
  /\ \/ state[r] = "Open" /\ models[r] = {}
     \/ state[r] = "Closing"
  /\ state' = [state EXCEPT ![r] = "Closing"]
  /\ \/ /\ closeInProgress[r] /\ GoClose(k, "enter", "doneWait")
        /\ doneClosed' = [doneClosed EXCEPT ![k] = FALSE]
        /\ UNCHANGED closeInProgress
     \/ /\ ~closeInProgress[r] /\ GoClose(k, "enter", "engine")
        /\ closeInProgress' = [closeInProgress EXCEPT ![r] = TRUE]
        /\ UNCHANGED doneClosed
  /\ UNCHANGED <<coordinator, lease, models, opening, openerVars, closeOf>>

CloseEnters(k) ==
  LET r == closeOf[k] IN
  /\ close[k] = "enter"
  /\ \/ state[r] = "Open" /\ opening[r] = 0 /\ models[r] = {}
     \/ state[r] = "Closing"
  /\ state' = [state EXCEPT ![r] = "Closing"]
  /\ \/ /\ closeInProgress[r] /\ GoClose(k, "enter", "doneWait")
        /\ doneClosed' = [doneClosed EXCEPT ![k] = FALSE]
        /\ UNCHANGED closeInProgress
     \/ /\ ~closeInProgress[r] /\ GoClose(k, "enter", "engine")
        /\ closeInProgress' = [closeInProgress EXCEPT ![r] = TRUE]
        /\ UNCHANGED doneClosed
  /\ UNCHANGED <<coordinator, lease, models, opening, openerVars, closeOf>>

CloseWakes(k) ==
  /\ doneClosed[k] /\ GoClose(k, "doneWait", "enter")
  /\ UNCHANGED <<coordinator, lease, runtimeVars, openerVars, closeOf, doneClosed>>

CloseGivesUp(k) ==
  /\ GoClose(k, "doneWait", "out") /\ LeaveClose(k)
  /\ UNCHANGED <<coordinator, lease, runtimeVars, openerVars, doneClosed>>

(* nativeRuntimeEngine.Close: a context that has ended stops it before the *)
(* lease is touched; an engine that is already closed returns nil.         *)
EngineCloseCancelled(k) ==
  /\ GoClose(k, "engine", "finishError")
  /\ UNCHANGED <<coordinator, lease, runtimeVars, openerVars, closeOf, doneClosed>>

EngineClose(k) ==
  LET r == closeOf[k] IN
  /\ close[k] = "engine"
  /\ \E o \in IF lease[r] = "none" THEN {Outcome(TRUE, coordinator)}
               ELSE closeLease(coordinator) :
       /\ coordinator' = o.c
       /\ lease' = [lease EXCEPT ![r] = IF o.ok THEN "none" ELSE @]
       /\ GoClose(k, "engine", IF o.ok THEN "finishNil" ELSE "finishError")
  /\ UNCHANGED <<runtimeVars, openerVars, closeOf, doneClosed>>

CloseFinishes_WakesNobody(k) ==
  LET r == closeOf[k] IN
  /\ \/ /\ GoClose(k, "finishNil", "out")
        /\ state' = [state EXCEPT ![r] = "Closed"]
        /\ doneClosed' = [j \in Closers |-> doneClosed[j] \/
                            (close[j] = "doneWait" /\ closeOf[j] = r)]
     \/ GoClose(k, "finishError", "out") /\ UNCHANGED <<state, doneClosed>>
  /\ LeaveClose(k)
  /\ closeInProgress' = [closeInProgress EXCEPT ![r] = FALSE]
  /\ UNCHANGED <<coordinator, lease, models, opening, openerVars>>

CloseFinishes(k) ==
  LET r == closeOf[k] IN
  /\ \/ /\ GoClose(k, "finishNil", "out")
        /\ state' = [state EXCEPT ![r] = "Closed"]
     \/ GoClose(k, "finishError", "out") /\ UNCHANGED state
  /\ LeaveClose(k)
  /\ closeInProgress' = [closeInProgress EXCEPT ![r] = FALSE]
  /\ doneClosed' = [j \in Closers |-> doneClosed[j] \/
                      (close[j] = "doneWait" /\ closeOf[j] = r)]
  /\ UNCHANGED <<coordinator, lease, models, opening, openerVars>>
-----------------------------------------------------------------------------
CloserStep(k) ==
  \/ CloseReturnsAtOnce(k) \/ CloseEnters(k) \/ CloseWakes(k)
  \/ EngineClose(k) \/ EngineCloseCancelled(k) \/ CloseFinishes(k)

OpenerStep(g) == EngineOpen(g) \/ FinishOpen(g) \/ unregister(g)

Next ==
  \/ \E r \in Runtimes : NewRuntime(r)
  \/ \E g \in Openers : OpenerStep(g) \/ BeginOpen(g) \/ ModelEngineClosed(g)
  \/ \E k \in Closers : CloserStep(k) \/ Close(k) \/ CloseGivesUp(k)

Spec == Init /\ [][Next]_vars

(* Runnable goroutines run, and engine calls return.                       *)
FairSpec ==
  /\ Spec
  /\ \A g \in Openers : WF_vars(OpenerStep(g))
  /\ \A k \in Closers : WF_vars(CloserStep(k))
-----------------------------------------------------------------------------
(***************************************************************************)
(* Properties.                                                             *)
(***************************************************************************)

(* The library's environment outlives every native session that a model,   *)
(* or an open in progress, of whichever Runtime owns, and is the one that  *)
(* its Runtime leased: nothing destroys or replaces it under a live model  *)
(* (Runtime.Close, acquire, lease.close). A session that a failed open has *)
(* left in the library, which nobody can close any more, has it as long as *)
(* its Runtime is open, and no longer: Runtime.Close knows nothing of it.  *)
SessionsHaveEnvironment ==
  /\ \A g \in Openers :
       HasSession(g) => /\ coordinator.ort # "none"
                        /\ coordinator.ort = lease[openOf[g]]
  /\ \A r \in Runtimes :
       r \in abandoned /\ state[r] = "Open" => /\ coordinator.ort # "none"
                                              /\ coordinator.ort = lease[r]

(* The Runtimes whose lease is not given back, and the opens of a Runtime  *)
(* that have begun and not ended.                                          *)
Leased == {r \in Runtimes : lease[r] # "none"}
OpensOf(r) == {g \in Openers :
                 open[g] \in {"open", "opened", "failed"} /\ openOf[g] = r}

(* The lease count is the number of unreleased leases, and they all lease  *)
(* the environment that exists.                                            *)
LeasesAreCounted ==
  /\ coordinator.leases = Cardinality(Leased)
  /\ \A r \in Runtimes :
       lease[r] # "none" => lease[r] = coordinator.key /\ lease[r] = coordinator.ort

(* A Runtime that has begun to close has no model and none in the making,  *)
(* so finishOpen never has to drop a model's engine unclosed; the count of *)
(* opens in progress it decides by is exact (beginOpen and finishOpen).    *)
NoModelInStoppedRuntime ==
  /\ \A g \in Openers : open[g] # "dropped"
  /\ \A r \in Runtimes :
       /\ state[r] # "Open" =>
            /\ models[r] = {}
            /\ \A g \in Openers : openOf[g] # r
       /\ opening[r] = Cardinality(OpensOf(r))

(* An environment that exists is leased or waits for its destruction to be *)
(* retried, and someone can retry it: it has no lease, and the next        *)
(* acquire does, or its only lease belongs to a Runtime that is closing,   *)
(* whose next Close does. The one exception is the environment whose       *)
(* telemetry could be switched off no more than it could be destroyed:     *)
(* nobody remembers it, and nobody ever gets a lease on it.                *)
PendingCleanupHasOwner ==
  /\ coordinator.cleanupPending =>
       /\ coordinator.ort = coordinator.key /\ coordinator.ort # "none"
       /\ \/ coordinator.leases = 0
          \/ /\ coordinator.leases = 1
             /\ \E r \in Runtimes : lease[r] # "none" /\ state[r] = "Closing"
  /\ coordinator.ort # "none" =>
       coordinator.orphaned <=> coordinator.leases = 0 /\ ~coordinator.cleanupPending
  /\ coordinator.orphaned => \A r \in Runtimes : lease[r] = "none"

(* One Close at a time runs the engine's cleanup, a Runtime is Closed      *)
(* exactly when its lease is given back, and a Close that waits for        *)
(* another's cleanup is woken by it.                                       *)
CleanupIsExclusive ==
  /\ \A j, k \in Closers :
       Cleaning(j) /\ Cleaning(k) /\ closeOf[j] = closeOf[k] => j = k
  /\ \A k \in Closers :
       close[k] = "doneWait" /\ ~doneClosed[k] => closeInProgress[closeOf[k]]
  /\ \A r \in Runtimes :
       /\ state[r] = "Open" => lease[r] # "none"
       /\ state[r] = "Closed" => lease[r] = "none"

(* If cleanups do not keep failing, every Close of a Runtime returns.      *)
CloseReturns ==
  <>[][\A k \in Closers : close[k] # "finishError"]_vars =>
    \A k \in Closers : close[k] # "out" ~> close[k] = "out"
=============================================================================
