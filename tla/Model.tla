-------------------------------- MODULE Model --------------------------------
(***************************************************************************)
(* One opened Model (model.go): bounded FIFO admission of Predict calls to *)
(* the single engine slot, and Close, which stops admission, waits until   *)
(* the admitted calls have left and then releases the engine, retrying     *)
(* after a failure.                                                        *)
(*                                                                         *)
(* Every action is one critical section of m.mu, one receive of a select   *)
(* or one return of an engine call, so the goroutines interleave exactly   *)
(* where the code lets them. The engine is seen through its interface      *)
(* modelEngine: Predict takes a while, Close returns nil or an error.      *)
(***************************************************************************)
EXTENDS SequencesExt

CONSTANTS Callers,        \* goroutines that call Predict (Choice, Score, Noul)
          Closers,        \* goroutines that call Close
          QueueCapacity,  \* ModelOptions.QueueCapacity
          MaxQueueWait    \* ModelOptions.MaxQueueWait, 0 for no timer

(* ModelOptions.validate admits no negative value; and no caller is the    *)
(* value that stands for a free slot in the refinement mapping.            *)
ASSUME OptionsAssumption == QueueCapacity \in Nat /\ MaxQueueWait \in Nat
ASSUME CallersAssumption == "no one" \notin Callers

VARIABLES
  (* The fields of Model.                                                  *)
  state,            \* modelOpen, modelClosing, modelClosed
  active,           \* the slot is taken
  waiters,          \* the callers whose admissionWaiter is queued
  granted,          \* admissionWaiter.granted (and its ready is closed)
  idleSet,          \* the channel idle is closed
  closeInProgress,
  (* What the calls of the Model change outside it.                        *)
  engineClosed,     \* engine.Close has returned nil
  registered,       \* the Model is in its Runtime's models
  (* The goroutines: where each stands, and whether its context has ended. *)
  call, callCtx,
  close, closeCtx,
  doneClosed,       \* the closeDone channel this Close waits on is closed
  ret               \* what this goroutine's last Close returned

modelVars  == <<state, active, waiters, granted, idleSet, closeInProgress>>
callerVars == <<call, callCtx>>
closerVars == <<close, closeCtx, doneClosed, ret>>
vars == <<modelVars, engineClosed, registered, callerVars, closerVars>>

CallStates  == {"out", "acquire", "wait", "cancel", "predict", "release"}
CloseStates == {"out", "enter", "idleWait", "doneWait", "engine",
                "unregister", "finishNil", "finishError"}

(* The goroutine whose engine.Close is under way.                          *)
Cleaning(k) == close[k] \in {"engine", "unregister", "finishNil", "finishError"}

Init ==
  /\ state = "Open"
  /\ active = FALSE
  /\ waiters = << >>
  /\ granted = [c \in Callers |-> FALSE]
  /\ idleSet = FALSE
  /\ closeInProgress = FALSE
  /\ engineClosed = FALSE
  /\ registered = TRUE
  /\ call = [c \in Callers |-> "out"]
  /\ callCtx = [c \in Callers |-> FALSE]
  /\ close = [k \in Closers |-> "out"]
  /\ closeCtx = [k \in Closers |-> FALSE]
  /\ doneClosed = [k \in Closers |-> FALSE]
  /\ ret = [k \in Closers |-> "none"]
-----------------------------------------------------------------------------
(***************************************************************************)
(* Helpers that run with m.mu held.                                        *)
(***************************************************************************)

signalIdleLocked_IgnoresQueue(s, a, q) ==
  idleSet' = (idleSet \/ s = "Closing")

(* signalIdleLocked, called when the state, the slot and the queue are     *)
(* already s, a and q.                                                     *)
signalIdleLocked(s, a, q) ==
  idleSet' = (idleSet \/ (s = "Closing" /\ ~a /\ q = << >>))

(* Mutants: the newest waiter is served first; the slot is freed although  *)
(* callers wait; the last one to leave does not signal.                    *)
releaseLocked_NewestFirst(g) ==
  IF waiters # << >>
  THEN /\ waiters' = Front(waiters)
       /\ granted' = [g EXCEPT ![Last(waiters)] = TRUE]
       /\ UNCHANGED <<active, idleSet>>
  ELSE /\ active' = FALSE
       /\ granted' = g
       /\ signalIdleLocked(state, FALSE, waiters)
       /\ UNCHANGED waiters

releaseLocked_NoHandover(g) ==
  /\ active' = FALSE
  /\ granted' = g
  /\ signalIdleLocked(state, FALSE, waiters)
  /\ UNCHANGED waiters

(* releaseLocked hands the slot to the oldest waiter, or frees it; g is    *)
(* the granted flags at that moment.                                       *)
releaseLocked(g) ==
  IF waiters # << >>
  THEN /\ waiters' = RemoveAt(waiters, 1)
       /\ granted' = [g EXCEPT ![waiters[1]] = TRUE]
       /\ UNCHANGED <<active, idleSet>>
  ELSE /\ active' = FALSE
       /\ granted' = g
       /\ signalIdleLocked(state, FALSE, waiters)
       /\ UNCHANGED waiters
-----------------------------------------------------------------------------
(***************************************************************************)
(* Predict, acquire, cancelWaiter, release.                                *)
(***************************************************************************)

GoCall(c, from, to) == call[c] = from /\ call' = [call EXCEPT ![c] = to]

(* The queue has no room for one more waiter.                              *)
queueFull_OffByOne == Len(waiters) > QueueCapacity
queueFull == Len(waiters) >= QueueCapacity

(* A call that passes validation goes on to acquire; its context has not   *)
(* ended yet. A refused call leaves no trace.                              *)
Predict(c) ==
  /\ GoCall(c, "out", "acquire")
  /\ callCtx' = [callCtx EXCEPT ![c] = FALSE]
  /\ UNCHANGED <<modelVars, engineClosed, registered, closerVars>>

(* ErrModelClosed, or QueueError{QueueFull}.                               *)
AcquireRefused(c) ==
  /\ state # "Open" \/ (active /\ queueFull)
  /\ GoCall(c, "acquire", "out")
  /\ UNCHANGED <<modelVars, engineClosed, registered, callCtx, closerVars>>

AcquireFree(c) ==
  /\ state = "Open" /\ ~active
  /\ active' = TRUE
  /\ GoCall(c, "acquire", "predict")
  /\ UNCHANGED <<state, waiters, granted, idleSet, closeInProgress,
                 engineClosed, registered, callCtx, closerVars>>

AcquireQueued_IgnoresClosing(c) ==
  /\ active /\ ~queueFull
  /\ waiters' = Append(waiters, c)
  /\ GoCall(c, "acquire", "wait")
  /\ UNCHANGED <<state, active, granted, idleSet, closeInProgress,
                 engineClosed, registered, callCtx, closerVars>>

AcquireQueued(c) ==
  /\ state = "Open" /\ active /\ ~queueFull
  /\ waiters' = Append(waiters, c)
  /\ GoCall(c, "acquire", "wait")
  /\ UNCHANGED <<state, active, granted, idleSet, closeInProgress,
                 engineClosed, registered, callCtx, closerVars>>

(* The select of acquire receives from waiter.ready ...                    *)
WaiterReady(c) ==
  /\ granted[c]
  /\ GoCall(c, "wait", "predict")
  /\ granted' = [granted EXCEPT ![c] = FALSE]
  /\ UNCHANGED <<state, active, waiters, idleSet, closeInProgress,
                 engineClosed, registered, callCtx, closerVars>>

(* ... or from ctx.Done() or the timer, even when ready is closed too.     *)
WaiterGivesUp(c) ==
  /\ callCtx[c] \/ MaxQueueWait > 0
  /\ GoCall(c, "wait", "cancel")
  /\ UNCHANGED <<modelVars, engineClosed, registered, callCtx, closerVars>>

CancelWaiter_DropsGrant(c) ==
  /\ GoCall(c, "cancel", "out")
  /\ IF c \in Range(waiters)
     THEN waiters' = SelectSeq(waiters, LAMBDA w : w # c) /\ UNCHANGED granted
     ELSE granted' = [granted EXCEPT ![c] = FALSE] /\ UNCHANGED waiters
  /\ signalIdleLocked(state, active, waiters')
  /\ UNCHANGED <<state, active, closeInProgress, engineClosed, registered,
                 callCtx, closerVars>>

CancelWaiter_StaysQueued(c) ==
  /\ GoCall(c, "cancel", "out")
  /\ IF granted[c] THEN releaseLocked([granted EXCEPT ![c] = FALSE])
     ELSE UNCHANGED <<active, waiters, granted, idleSet>>
  /\ UNCHANGED <<state, closeInProgress, engineClosed, registered, callCtx,
                 closerVars>>

(* cancelWaiter: the grant may have come in the meantime.                  *)
CancelWaiter(c) ==
  /\ GoCall(c, "cancel", "out")
  /\ \/ /\ granted[c]
        /\ releaseLocked([granted EXCEPT ![c] = FALSE])
     \/ /\ ~granted[c]
        /\ \E i \in DOMAIN waiters :
             /\ waiters[i] = c
             /\ waiters' = RemoveAt(waiters, i)
        /\ signalIdleLocked(state, active, waiters')
        /\ UNCHANGED <<active, granted>>
  /\ UNCHANGED <<state, closeInProgress, engineClosed, registered, callCtx,
                 closerVars>>

(* engine.Predict returns, with a prediction or with an error.             *)
EnginePredictReturns(c) ==
  /\ GoCall(c, "predict", "release")
  /\ UNCHANGED <<modelVars, engineClosed, registered, callCtx, closerVars>>

Release(c) ==
  /\ GoCall(c, "release", "out")
  /\ releaseLocked(granted)
  /\ UNCHANGED <<state, closeInProgress, engineClosed, registered, callCtx,
                 closerVars>>

CallContextEnds(c) ==
  /\ call[c] # "out" /\ ~callCtx[c]
  /\ callCtx' = [callCtx EXCEPT ![c] = TRUE]
  /\ UNCHANGED <<modelVars, engineClosed, registered, call, closerVars>>
-----------------------------------------------------------------------------
(***************************************************************************)
(* Close.                                                                  *)
(***************************************************************************)

GoClose(k, from, to) == close[k] = from /\ close' = [close EXCEPT ![k] = to]
Return(k, value) == ret' = [ret EXCEPT ![k] = value]

(* A Close may start with a context that has already ended.                *)
Close(k) ==
  /\ GoClose(k, "out", "enter")
  /\ \E ended \in BOOLEAN : closeCtx' = [closeCtx EXCEPT ![k] = ended]
  /\ Return(k, "none")
  /\ UNCHANGED <<modelVars, engineClosed, registered, callerVars, doneClosed>>

(* The critical section at the head of the loop returns at once ...        *)
CloseReturnsAtOnce(k) ==
  /\ GoClose(k, "enter", "out")
  /\ \/ state = "Closed" /\ Return(k, "nil")
     \/ state # "Closed" /\ closeCtx[k] /\ Return(k, "error")
  /\ UNCHANGED <<modelVars, engineClosed, registered, callerVars, closeCtx,
                 doneClosed>>

CloseEnters_IgnoresCleanup(k) ==
  /\ state # "Closed" /\ ~closeCtx[k]
  /\ state' = "Closing"
  /\ IF state = "Open" THEN signalIdleLocked("Closing", active, waiters)
                       ELSE UNCHANGED idleSet
  /\ \/ /\ active \/ waiters # << >>
        /\ GoClose(k, "enter", "idleWait")
        /\ UNCHANGED closeInProgress
     \/ /\ ~active /\ waiters = << >>
        /\ GoClose(k, "enter", "engine")
        /\ closeInProgress' = TRUE
  /\ UNCHANGED <<active, waiters, granted, engineClosed, registered,
                 callerVars, closeCtx, doneClosed, ret>>

(* ... or puts the Model in Closing and waits for the admitted calls, or   *)
(* for the cleanup another Close has begun, or begins the cleanup itself.  *)
CloseEnters(k) ==
  /\ state # "Closed" /\ ~closeCtx[k]
  /\ state' = "Closing"
  /\ IF state = "Open" THEN signalIdleLocked("Closing", active, waiters)
                       ELSE UNCHANGED idleSet
  /\ \/ /\ active \/ waiters # << >>
        /\ GoClose(k, "enter", "idleWait")
        /\ UNCHANGED <<closeInProgress, doneClosed>>
     \/ /\ ~active /\ waiters = << >> /\ closeInProgress
        /\ GoClose(k, "enter", "doneWait")
        /\ doneClosed' = [doneClosed EXCEPT ![k] = FALSE]
        /\ UNCHANGED closeInProgress
     \/ /\ ~active /\ waiters = << >> /\ ~closeInProgress
        /\ GoClose(k, "enter", "engine")
        /\ closeInProgress' = TRUE
        /\ UNCHANGED doneClosed
  /\ UNCHANGED <<active, waiters, granted, engineClosed, registered,
                 callerVars, closeCtx, ret>>

CloseWakes(k) ==
  /\ \/ idleSet /\ GoClose(k, "idleWait", "enter")
     \/ doneClosed[k] /\ GoClose(k, "doneWait", "enter")
  /\ UNCHANGED <<modelVars, engineClosed, registered, callerVars, closeCtx,
                 doneClosed, ret>>

CloseGivesUp(k) ==
  /\ closeCtx[k]
  /\ GoClose(k, "idleWait", "out") \/ GoClose(k, "doneWait", "out")
  /\ Return(k, "error")
  /\ UNCHANGED <<modelVars, engineClosed, registered, callerVars, closeCtx,
                 doneClosed>>

EngineCloseSucceeds(k) ==
  /\ GoClose(k, "engine", "unregister")
  /\ engineClosed' = TRUE
  /\ UNCHANGED <<modelVars, registered, callerVars, closeCtx, doneClosed, ret>>

EngineCloseFails_Unregisters(k) ==
  /\ GoClose(k, "engine", "unregister")
  /\ UNCHANGED <<modelVars, engineClosed, registered, callerVars, closeCtx,
                 doneClosed, ret>>

EngineCloseFails(k) ==
  /\ GoClose(k, "engine", "finishError")
  /\ UNCHANGED <<modelVars, engineClosed, registered, callerVars, closeCtx,
                 doneClosed, ret>>

(* owner.unregister(m), a critical section of the Runtime's mutex.         *)
Unregister(k) ==
  /\ GoClose(k, "unregister", "finishNil")
  /\ registered' = FALSE
  /\ UNCHANGED <<modelVars, engineClosed, callerVars, closeCtx, doneClosed, ret>>

CloseFinishes_ErrorWakesNobody(k) ==
  /\ \/ /\ GoClose(k, "finishNil", "out") /\ state' = "Closed" /\ Return(k, "nil")
        /\ doneClosed' = [j \in Closers |-> doneClosed[j] \/ close[j] = "doneWait"]
     \/ /\ GoClose(k, "finishError", "out") /\ Return(k, "error")
        /\ UNCHANGED <<state, doneClosed>>
  /\ closeInProgress' = FALSE
  /\ UNCHANGED <<active, waiters, granted, idleSet, engineClosed, registered,
                 callerVars, closeCtx>>

(* The last critical section, whose close(done) wakes every Close that     *)
(* captured this channel.                                                  *)
CloseFinishes(k) ==
  /\ \/ GoClose(k, "finishNil", "out") /\ state' = "Closed" /\ Return(k, "nil")
     \/ /\ GoClose(k, "finishError", "out") /\ Return(k, "error")
        /\ UNCHANGED state
  /\ closeInProgress' = FALSE
  /\ doneClosed' = [j \in Closers |-> doneClosed[j] \/ close[j] = "doneWait"]
  /\ UNCHANGED <<active, waiters, granted, idleSet, engineClosed, registered,
                 callerVars, closeCtx>>

CloseContextEnds(k) ==
  /\ close[k] # "out" /\ ~closeCtx[k]
  /\ closeCtx' = [closeCtx EXCEPT ![k] = TRUE]
  /\ UNCHANGED <<modelVars, engineClosed, registered, callerVars, close,
                 doneClosed, ret>>
-----------------------------------------------------------------------------
(* The steps a goroutine takes once its call is under way.                 *)
CallerStep(c) ==
  \/ AcquireRefused(c) \/ AcquireFree(c) \/ AcquireQueued(c)
  \/ WaiterReady(c) \/ CancelWaiter(c)
  \/ EnginePredictReturns(c) \/ Release(c)

CloserStep(k) ==
  \/ CloseReturnsAtOnce(k) \/ CloseEnters(k) \/ CloseWakes(k)
  \/ EngineCloseSucceeds(k) \/ EngineCloseFails(k)
  \/ Unregister(k) \/ CloseFinishes(k)

Next ==
  \/ \E c \in Callers :
       CallerStep(c) \/ Predict(c) \/ WaiterGivesUp(c) \/ CallContextEnds(c)
  \/ \E k \in Closers :
       CloserStep(k) \/ Close(k) \/ CloseGivesUp(k) \/ CloseContextEnds(k)

Spec == Init /\ [][Next]_vars

(* The Go scheduler runs every runnable goroutine, and the engine returns  *)
(* from Predict and from Close. Nobody has to call, to cancel or to wait   *)
(* longer than a timer.                                                    *)
Fairness ==
  /\ \A c \in Callers : WF_vars(CallerStep(c))
  /\ \A k \in Closers : WF_vars(CloserStep(k))

FairSpec == Spec /\ Fairness
-----------------------------------------------------------------------------
(***************************************************************************)
(* Properties.                                                             *)
(***************************************************************************)

(* The Model's fields and the goroutines have their types; the queue never *)
(* holds more than QueueCapacity callers (the check in acquire).           *)
TypeOK ==
  /\ state \in {"Open", "Closing", "Closed"}
  /\ active \in BOOLEAN
  /\ waiters \in Seq(Callers) /\ Len(waiters) <= QueueCapacity
  /\ granted \in [Callers -> BOOLEAN]
  /\ idleSet \in BOOLEAN /\ closeInProgress \in BOOLEAN
  /\ engineClosed \in BOOLEAN /\ registered \in BOOLEAN
  /\ call \in [Callers -> CallStates] /\ callCtx \in [Callers -> BOOLEAN]
  /\ close \in [Closers -> CloseStates] /\ closeCtx \in [Closers -> BOOLEAN]
  /\ doneClosed \in [Closers -> BOOLEAN]
  /\ ret \in [Closers -> {"none", "nil", "error"}]

(* The caller that answers for the slot: it runs, is about to release, or  *)
(* was granted the slot and has not noticed.                               *)
Owns(c) == call[c] \in {"predict", "release"} \/ granted[c]
Waits(c) == call[c] \in {"wait", "cancel"} /\ ~granted[c]

(* The slot is taken exactly when one caller answers for it: a grant that  *)
(* races a cancellation or a timeout neither leaks the slot nor doubles it *)
(* (acquire's select against releaseLocked and cancelWaiter).              *)
SlotHasOneOwner ==
  /\ \A c, d \in Callers : Owns(c) /\ Owns(d) => c = d
  /\ active <=> \E c \in Callers : Owns(c)
  /\ \A c \in Callers : granted[c] => call[c] \in {"wait", "cancel"}

(* The queue is exactly the callers that wait, once each, and no caller    *)
(* waits in front of a free slot (acquire, cancelWaiter, releaseLocked).   *)
QueueIsExact ==
  /\ Range(waiters) = {c \in Callers : Waits(c)}
  /\ IsInjective(waiters)
  /\ waiters # << >> => active

(* Slot and queue together account for every caller exactly once, through  *)
(* any race of grants, cancellations, timeouts and releases.               *)
AdmissionIsExact == SlotHasOneOwner /\ QueueIsExact

(* The idle channel is closed exactly when a Close has begun and nobody is *)
(* admitted any more: no Close proceeds early, none waits for a signal     *)
(* that has been missed (signalIdleLocked and its three call sites).       *)
IdleExactlyWhenDrained ==
  idleSet <=> (state # "Open" /\ ~active /\ waiters = << >>)

(* At most one Close runs engine.Close, none after it has succeeded, and   *)
(* no call is admitted meanwhile or afterwards (closeInProgress in Close). *)
CleanupIsExclusive ==
  /\ \A j, k \in Closers : Cleaning(j) /\ Cleaning(k) => j = k
  /\ closeInProgress <=> \E k \in Closers : Cleaning(k)
  /\ \A k \in Closers : close[k] = "engine" => ~engineClosed
  /\ closeInProgress \/ engineClosed =>
       \A c \in Callers : ~Owns(c) /\ ~Waits(c)

(* A Close that waits for another's cleanup waits for one that is really   *)
(* under way: close(done) reaches every channel that was handed out.       *)
DoneIsNeverMissed ==
  \A k \in Closers :
    close[k] = "doneWait" /\ ~doneClosed[k] => closeInProgress

(* Several Closes share one cleanup: one of them does it, alone, and the   *)
(* others are told how it ended, also when it failed (Close).              *)
CleanupIsShared == CleanupIsExclusive /\ DoneIsNeverMissed

(* The Runtime owns the Model until its engine is released, and Close      *)
(* returns nil only once it is released and given up by the Runtime.       *)
OwnedUntilReleased ==
  /\ ~registered => engineClosed
  /\ state = "Closed" => ~registered
  /\ \A k \in Closers : ret[k] = "nil" => state = "Closed"

(* After a Close has begun the Model never opens again and admits nobody   *)
(* new: the slot only passes to callers that were already queued.          *)
NoAdmissionAfterClose ==
  [][state # "Open" =>
       /\ state' # "Open" /\ (state = "Closed" => state' = "Closed")
       /\ Range(waiters') \subseteq Range(waiters)
       /\ \A c \in Callers : Owns(c)' => Owns(c) \/ Waits(c)]_vars

(* Every queued call leaves the queue: by admission, or by giving up.      *)
QueuedCallLeaves ==
  \A c \in Callers : call[c] = "wait" ~> call[c] # "wait"

(* If engine.Close does not keep failing, every Close returns.             *)
CloseReturns ==
  <>[][\A k \in Closers : ~EngineCloseFails(k)]_vars =>
    \A k \in Closers : close[k] # "out" ~> close[k] = "out"

(* The abstract specification, seen through the fields of the Model.       *)
Holder == IF active THEN CHOOSE c \in Callers : Owns(c) ELSE "no one"

A == INSTANCE Admission WITH
       Capacity <- QueueCapacity, NoOne <- "no one",
       open <- state = "Open", holder <- Holder, queue <- waiters,
       released <- engineClosed

(* The Model implements Admission: bounded first-come-first-served         *)
(* admission to one slot, in which every holder eventually leaves, and     *)
(* release of the engine only after the last admitted call has left.       *)
ImplementsAdmission == A!Spec
=============================================================================
