----------------------------- MODULE Materialize -----------------------------
(***************************************************************************)
(* Materialization of a bundle below a WorkDir that several processes      *)
(* share (internal/source/materialize.go, lock_linux.go, stage.go): each   *)
(* call of Materialize makes or finds the namespace directory, takes its   *)
(* advisory lock, removes abandoned stages, and returns the publication of *)
(* its bundle, which it stages, verifies and renames into place when there *)
(* is none.                                                                *)
(*                                                                         *)
(* A step may fail (an I/O error, or a context that has ended), a process  *)
(* may die, the machine may lose power, and the source may change while it *)
(* is read; MaxFaults bounds how often. A power loss keeps what has been   *)
(* synchronised and may lose any part of the rest.                         *)
(*                                                                         *)
(* A RemoveAll is one step. One that fails, or is cut short, leaves any    *)
(* part of what it had to remove.                                          *)
(***************************************************************************)
EXTENDS Naturals, FiniteSets

CONSTANTS Processes,          \* each makes one call of Materialize at a time
          Bundles,            \* bundle identities
          StageNames,         \* random names: enough that one is always free
          namespaceRetries,   \* bound: rounds of ensureNamespace
          MaxFaults,          \* bound: faults in a behaviour
          Fresh,              \* TRUE: the WorkDir starts without a namespace
          NamespaceSyncFails  \* TRUE: the last sync of initializeNamespace may fail

ASSUME BoundsAssumption ==
  /\ namespaceRetries \in Nat \ {0}
  /\ MaxFaults \in Nat
  /\ Fresh \in BOOLEAN
  /\ NamespaceSyncFails \in BOOLEAN
  /\ Cardinality(StageNames) > MaxFaults  \* a fault abandons one stage at most

ASSUME NamesAssumption == "none" \notin Processes \union StageNames

VARIABLES
  (* The WorkDir.                                                          *)
  namespace,          \* .laya-go: absent, bare (no marker), marked, synced,
                      \* or durable (an old one, its entry on the disk too);
                      \* broken when a removal has left the marker without
                      \* the lock file or a directory
  lock,               \* who holds the flock on materialize.lock
  stages,             \* staging/
  published,          \* bundles/
  (* The processes.                                                        *)
  pc, want, attempt,
  mine,               \* the stage a call has to remove: stageOwned
  handle,             \* the call has opened its result
  stale,              \* holders of a namespace that has been removed
  unread,             \* history: the marked stages that the last recovery
                      \* passed over because it could not look at them
  faults

diskVars == <<namespace, lock, stages, published>>
callVars == <<pc, want, attempt, mine, handle, stale, unread>>
vars == <<diskVars, callVars, faults>>

(* content is what the bundle directory holds: nothing, part of a bundle,  *)
(* or a complete bundle. durable: the directory tree is synchronised;      *)
(* kept: the entry of the publication in bundles/ is.                      *)
NoStage == [exists |-> FALSE, marked |-> FALSE, content |-> "none", durable |-> FALSE]
NewStage == [NoStage EXCEPT !.exists = TRUE]
NoPublication == [content |-> "none", durable |-> FALSE, kept |-> FALSE]

Locked == {"recover", "exists", "createStage", "stageMarker", "copy", "copying",
           "syncStage", "verifyStage", "publish", "syncPublication",
           "removeStage", "open"}
Unwinding == {"cleanup", "unlock"}

Init ==
  /\ namespace = IF Fresh THEN "absent" ELSE "durable"
  /\ lock = "none"
  /\ stages = [s \in StageNames |-> NoStage]
  /\ published = [b \in Bundles |-> NoPublication]
  /\ pc = [p \in Processes |-> "out"]
  /\ want = [p \in Processes |-> "none"]
  /\ attempt = [p \in Processes |-> 0]
  /\ mine = [p \in Processes |-> "none"]
  /\ handle = [p \in Processes |-> FALSE]
  /\ stale = {}
  /\ unread = {}
  /\ faults = 0

Goto(p, next) == pc' = [pc EXCEPT ![p] = next]
AFault == faults < MaxFaults /\ faults' = faults + 1

(* What a RemoveAll of a stage, or of a publication, that fails half-way   *)
(* may leave behind.                                                       *)
PartsOf(stage) ==
  LET left == IF stage.content = "none" THEN {"none"}
              ELSE {"none", "partial", stage.content} IN
  {[stage EXCEPT !.content = c] : c \in left}
    \union {[stage EXCEPT !.marked = FALSE, !.content = c] : c \in left}
PartsOfPublication(publication) ==
  IF publication.content = "none" THEN {publication}
  ELSE {NoPublication, publication, [publication EXCEPT !.content = "partial"]}
-----------------------------------------------------------------------------
(***************************************************************************)
(* The call, and ensureNamespace.                                          *)
(***************************************************************************)

(* bundle.Verify reads the source: the identity found there names the      *)
(* publication.                                                            *)
Materialize(p) ==
  /\ pc[p] = "out"
  /\ \E b \in Bundles : want' = [want EXCEPT ![p] = b]
  /\ attempt' = [attempt EXCEPT ![p] = 0]
  /\ Goto(p, "lstat")
  /\ UNCHANGED <<diskVars, mine, handle, stale, unread, faults>>

roundsLeft(p) == attempt[p] < namespaceRetries

(* A round of ensureNamespace: it gives up after the last one.             *)
ensureNamespace(p) ==
  /\ pc[p] = "lstat"
  /\ Goto(p, IF ~roundsLeft(p) THEN "out"
             ELSE IF namespace = "absent" THEN "create" ELSE "validate")
  /\ UNCHANGED <<diskVars, want, attempt, mine, handle, stale, unread, faults>>

NextRound(p) ==
  /\ Goto(p, "lstat")
  /\ attempt' = [attempt EXCEPT ![p] = @ + 1]
  /\ stale' = stale \ {p}
  /\ UNCHANGED <<want, mine, handle, unread>>

validateNamespace_AcceptsBare(p) ==
  /\ pc[p] = "validate"
  /\ IF p \in stale
     THEN NextRound(p)
     ELSE Goto(p, "lock") /\ UNCHANGED <<want, attempt, mine, handle, stale, unread>>
  /\ UNCHANGED <<diskVars, faults>>

(* Only a namespace with its marker, which is written last, is used: until *)
(* then the directory is not looked at and a later round tries again. A    *)
(* directory removed since Lstat fails to open, or has no marker; one with *)
(* its marker but not its four entries ends the call.                      *)
validateNamespace(p) ==
  /\ pc[p] = "validate"
  /\ IF p \in stale \/ namespace = "bare"
     THEN NextRound(p)
     ELSE /\ Goto(p, IF namespace = "broken" THEN "out" ELSE "lock")
          /\ UNCHANGED <<want, attempt, mine, handle, stale, unread>>
  /\ UNCHANGED <<diskVars, faults>>

(* initializeNamespace: Mkdir decides who initialises; who comes second    *)
(* starts another round.                                                   *)
CreateNamespace(p) ==
  /\ pc[p] = "create"
  /\ IF namespace = "absent"
     THEN /\ namespace' = "bare"
          /\ Goto(p, "mark")
          /\ UNCHANGED <<want, attempt, mine, handle, stale, unread>>
     ELSE namespace' = namespace /\ NextRound(p)
  /\ UNCHANGED <<lock, stages, published, faults>>

(* The marker, written under another name, is renamed: everyone sees the   *)
(* namespace.                                                              *)
writeNamespaceMarker(p) ==
  /\ pc[p] = "mark"
  /\ namespace' = "marked"
  /\ Goto(p, "syncNamespace")
  /\ UNCHANGED <<lock, stages, published, want, attempt, mine, handle, stale, unread, faults>>

SyncNamespace(p) ==
  /\ pc[p] = "syncNamespace"
  /\ namespace' = "synced"
  /\ NextRound(p)
  /\ UNCHANGED <<lock, stages, published, faults>>

(* initializeNamespace fails after its Mkdir: it removes the namespace     *)
(* with all that is in it, and others that hold it are left with a         *)
(* directory that is gone. When the removal fails as well any part of the  *)
(* namespace is left, and who holds it goes on with that part.             *)
InitializeFails(p) ==
  /\ \/ pc[p] = "mark"
     \/ pc[p] = "syncNamespace" /\ NamespaceSyncFails
  /\ \/ /\ AFault
        /\ namespace' = "absent"
        /\ lock' = "none"
        /\ stages' = [s \in StageNames |-> NoStage]
        /\ published' = [b \in Bundles |-> NoPublication]
        /\ stale' = stale \union
                      {q \in Processes \ {p} :
                         pc[q] \in {"validate", "lock"} \union Locked \union Unwinding}
     \/ /\ faults + 2 <= MaxFaults \* the removal fails as well
        /\ faults' = faults + 2
        /\ namespace' \in IF pc[p] = "mark" THEN {"bare"} ELSE {"marked", "broken", "bare"}
        /\ stages' \in [StageNames -> UNION {PartsOf(stages[s]) \union {NoStage} : s \in StageNames}]
        /\ \A s \in StageNames : stages'[s] \in PartsOf(stages[s]) \union {NoStage}
        /\ published' \in [Bundles -> UNION {PartsOfPublication(published[b]) : b \in Bundles}]
        /\ \A b \in Bundles : published'[b] \in PartsOfPublication(published[b])
        /\ UNCHANGED <<lock, stale>>
  /\ Goto(p, "out")
  /\ UNCHANGED <<want, attempt, mine, handle, unread>>
-----------------------------------------------------------------------------
(***************************************************************************)
(* Under the lock.                                                         *)
(***************************************************************************)

acquireAdvisoryLock_Shared(p) ==
  /\ pc[p] = "lock"
  /\ p \notin stale
  /\ lock' = p
  /\ Goto(p, "recover")
  /\ UNCHANGED <<namespace, stages, published, want, attempt, mine, handle, stale, unread, faults>>

(* flock is tried until it is free.                                        *)
acquireAdvisoryLock(p) ==
  /\ pc[p] = "lock"
  /\ p \notin stale
  /\ lock = "none"
  /\ lock' = p
  /\ Goto(p, "recover")
  /\ UNCHANGED <<namespace, stages, published, want, attempt, mine, handle, stale, unread, faults>>

(* The stage a call fills is there: only a half-failed removal of the      *)
(* namespace takes it away.                                                *)
HasStage(p) == stages[mine[p]].exists

(* A step under the lock: it needs the namespace it opened.                *)
Step(p, from, to) ==
  /\ pc[p] = from
  /\ p \notin stale
  /\ Goto(p, to)
  /\ UNCHANGED <<namespace, lock, want, attempt, stale, unread, faults>>

recoverStages_RejectsUnmarked(p) ==
  /\ \A s \in StageNames : stages[s].exists => stages[s].marked
  /\ Step(p, "recover", "exists")
  /\ stages' = [s \in StageNames |-> NoStage]
  /\ UNCHANGED <<published, mine, handle>>

recoverStages_IgnoresFailure(p) ==
  /\ Step(p, "recover", "exists")
  /\ \E S \in SUBSET StageNames :
       stages' = [s \in StageNames |-> IF s \in S THEN NoStage ELSE stages[s]]
  /\ UNCHANGED <<published, mine, handle>>

(* Every stage with its marker is removed; the rest is not the library's.  *)
(* A stage that cannot be opened, whose marker cannot be read or whose     *)
(* directory fails to close is taken for one of the rest, without an error *)
(* (a fault here, for one stage or several).                               *)
recoverStages(p) ==
  /\ pc[p] = "recover"
  /\ p \notin stale
  /\ \E passed \in SUBSET {s \in StageNames : stages[s].marked} :
       /\ IF passed = {} THEN faults' = faults ELSE AFault
       /\ stages' = [s \in StageNames |->
                       IF stages[s].marked /\ s \notin passed THEN NoStage ELSE stages[s]]
       /\ unread' = passed
  /\ Goto(p, "exists")
  /\ UNCHANGED <<namespace, lock, published, want, attempt, mine, handle, stale>>

rootEntryExists(p) ==
  /\ Step(p, "exists", IF published[want[p]].content # "none" THEN "open" ELSE "createStage")
  /\ UNCHANGED <<stages, published, mine, handle>>

CreateStage(p) ==
  /\ Step(p, "createStage", "stageMarker")
  /\ \E s \in StageNames :
       /\ ~stages[s].exists
       /\ stages' = [stages EXCEPT ![s] = NewStage]
       /\ mine' = [mine EXCEPT ![p] = s]
  /\ UNCHANGED <<published, handle>>

WriteStageMarker(p) ==
  /\ Step(p, "stageMarker", "copy")
  /\ HasStage(p)
  /\ stages' = [stages EXCEPT ![mine[p]].marked = TRUE]
  /\ UNCHANGED <<published, mine, handle>>

(* Stage verifies the source again and copies it file by file ...          *)
StageStarts(p) ==
  /\ Step(p, "copy", "copying")
  /\ HasStage(p)
  /\ stages' = [stages EXCEPT ![mine[p]].content = "partial"]
  /\ UNCHANGED <<published, mine, handle>>

(* ... and what it has copied is verified: the bundle it found, which is   *)
(* the one the call is for unless the source has changed.                  *)
StageEnds(p) ==
  /\ Step(p, "copying", "syncStage")
  /\ HasStage(p)
  /\ stages' = [stages EXCEPT ![mine[p]].content = want[p]]
  /\ UNCHANGED <<published, mine, handle>>

SourceChanged(p) ==
  /\ pc[p] = "copying"
  /\ p \notin stale
  /\ HasStage(p)
  /\ AFault
  /\ \E b \in Bundles \ {want[p]} :
       stages' = [stages EXCEPT ![mine[p]].content = b]
  /\ Goto(p, "cleanup")
  /\ UNCHANGED <<namespace, lock, published, want, attempt, mine, handle, stale, unread>>

syncTree_Skipped(p) ==
  /\ Step(p, "syncStage", "verifyStage")
  /\ UNCHANGED <<stages, published, mine, handle>>

syncTree(p) ==
  /\ Step(p, "syncStage", "verifyStage")
  /\ HasStage(p)
  /\ stages' = [stages EXCEPT ![mine[p]].durable = TRUE]
  /\ UNCHANGED <<published, mine, handle>>

VerifyStage(p) ==
  /\ Step(p, "verifyStage", IF stages[mine[p]].content = want[p] THEN "publish" ELSE "cleanup")
  /\ HasStage(p)
  /\ UNCHANGED <<stages, published, mine, handle>>

(* renameNoReplace: when somebody has published meanwhile, that            *)
(* publication is opened and the stage is removed on the way out.          *)
renameNoReplace(p) ==
  LET free == published[want[p]].content = "none" IN
  /\ Step(p, "publish", IF free THEN "syncPublication" ELSE "open")
  /\ HasStage(p)
  /\ IF free
     THEN /\ published' = [published EXCEPT ![want[p]] =
                             [content |-> stages[mine[p]].content,
                              durable |-> stages[mine[p]].durable,
                              kept |-> FALSE]]
          /\ stages' = [stages EXCEPT ![mine[p]].content = "none"]
     ELSE UNCHANGED <<published, stages>>
  /\ UNCHANGED <<mine, handle>>

SyncPublication(p) ==
  /\ Step(p, "syncPublication", "removeStage")
  /\ published' = [published EXCEPT ![want[p]].kept = TRUE]
  /\ UNCHANGED <<stages, mine, handle>>

(* With the sync of staging/, whose failure is one of the next step.       *)
RemovePublishedStage(p) ==
  /\ Step(p, "removeStage", "open")
  /\ stages' = [stages EXCEPT ![mine[p]] = NoStage]
  /\ mine' = [mine EXCEPT ![p] = "none"]
  /\ UNCHANGED <<published, handle>>

(* OpenDirectory of the publication by its path, and the look at its       *)
(* identity.                                                               *)
OpenPublication(p) ==
  /\ pc[p] = "open"
  /\ handle' = [handle EXCEPT ![p] = published[want[p]].content = want[p]]
  /\ Goto(p, "cleanup")
  /\ UNCHANGED <<diskVars, want, attempt, mine, stale, unread, faults>>
-----------------------------------------------------------------------------
(***************************************************************************)
(* Failures, and the deferred calls.                                       *)
(***************************************************************************)

(* A step fails and the call returns through its deferred functions. One   *)
(* whose namespace, or part of it, is gone fails by itself. A failed       *)
(* recovery has removed some of the stages, a failed removal part of one.  *)
PartsMissing(p) ==
  \/ p \in stale
  \/ pc[p] \in {"lock"} \union Locked /\ namespace \in {"bare", "broken"}
  \/ mine[p] # "none" /\ ~HasStage(p)

StepFails(p) ==
  /\ \/ /\ pc[p] \in {"lstat", "create", "validate", "lock"}
        /\ Goto(p, "out")
        /\ stale' = stale \ {p}
        /\ UNCHANGED stages
     \/ /\ pc[p] \in Locked
        /\ Goto(p, "cleanup")
        /\ UNCHANGED stale
        /\ \/ UNCHANGED stages
           \/ \E s \in StageNames :
                /\ p \notin stale
                /\ \/ pc[p] = "recover" /\ stages[s].marked
                   \/ pc[p] = "removeStage" /\ s = mine[p]
                /\ \E part \in PartsOf(stages[s]) \union {NoStage} :
                     stages' = [stages EXCEPT ![s] = part]
  /\ IF PartsMissing(p) THEN faults' = faults ELSE AFault
  /\ UNCHANGED <<namespace, lock, published, want, attempt, mine, handle, unread>>

(* The stage the deferred function removes. It goes through the namespace  *)
(* directory the call has opened: when that one is gone, so is the stage.  *)
Owned(p) == IF p \in stale THEN "none" ELSE mine[p]

CleanupStage_ErrorSkipsUnlock(p) ==
  /\ pc[p] = "cleanup"
  /\ \/ /\ Goto(p, "unlock")
        /\ stages' = [s \in StageNames |-> IF s = Owned(p) THEN NoStage ELSE stages[s]]
        /\ UNCHANGED <<handle, faults>>
     \/ /\ Owned(p) # "none"
        /\ AFault
        /\ Goto(p, "out")
        /\ handle' = [handle EXCEPT ![p] = FALSE]
        /\ UNCHANGED stages
  /\ mine' = [mine EXCEPT ![p] = "none"]
  /\ UNCHANGED <<namespace, lock, published, want, attempt, stale, unread>>

CleanupStage_RollsBack(p) ==
  /\ pc[p] = "cleanup"
  /\ Goto(p, "unlock")
  /\ stages' = [s \in StageNames |-> IF s = Owned(p) THEN NoStage ELSE stages[s]]
  /\ published' = IF Owned(p) = "none" THEN published
                  ELSE [published EXCEPT ![want[p]] = NoPublication]
  /\ mine' = [mine EXCEPT ![p] = "none"]
  /\ UNCHANGED <<namespace, lock, want, attempt, handle, stale, unread, faults>>

(* The stage that is still owned is removed. When that fails, the opened   *)
(* result is closed and the call returns an error.                         *)
CleanupStage(p) ==
  /\ pc[p] = "cleanup"
  /\ Goto(p, "unlock")
  /\ \/ /\ stages' = [s \in StageNames |-> IF s = Owned(p) THEN NoStage ELSE stages[s]]
        /\ UNCHANGED <<handle, faults>>
     \/ /\ Owned(p) # "none"
        /\ AFault
        /\ \E part \in PartsOf(stages[mine[p]]) :
             stages' = [stages EXCEPT ![mine[p]] = part]
        /\ handle' = [handle EXCEPT ![p] = FALSE]
  /\ mine' = [mine EXCEPT ![p] = "none"]
  /\ UNCHANGED <<namespace, lock, published, want, attempt, stale, unread>>

(* The lock file is unlocked and closed, either of which frees it, and the *)
(* directories are closed; a failure takes the result back.                *)
CloseLock(p) ==
  /\ pc[p] = "unlock"
  /\ lock' = IF p \in stale THEN lock ELSE "none"
  /\ stale' = stale \ {p}
  /\ \/ /\ Goto(p, IF handle[p] THEN "ready" ELSE "out")
        /\ UNCHANGED <<handle, faults>>
     \/ /\ handle[p]
        /\ AFault
        /\ Goto(p, "out")
        /\ handle' = [handle EXCEPT ![p] = FALSE]
  /\ UNCHANGED <<namespace, stages, published, want, attempt, mine, unread>>

(* The caller closes the Bundle; the publication stays.                    *)
CloseBundle(p) ==
  /\ pc[p] = "ready"
  /\ Goto(p, "out")
  /\ handle' = [handle EXCEPT ![p] = FALSE]
  /\ UNCHANGED <<diskVars, want, attempt, mine, stale, unread, faults>>

(* The process dies; the kernel frees its lock.                            *)
Crash(p) ==
  /\ pc[p] # "out"
  /\ AFault
  /\ Goto(p, "out")
  /\ lock' = IF lock = p THEN "none" ELSE lock
  /\ mine' = [mine EXCEPT ![p] = "none"]
  /\ handle' = [handle EXCEPT ![p] = FALSE]
  /\ stale' = stale \ {p}
  /\ UNCHANGED <<namespace, stages, published, want, attempt, unread>>

(* What a power loss may leave of a stage, a publication and the           *)
(* namespace. staging/ is synchronised only when a stage has gone, and the *)
(* WorkDir, with its entry of .laya-go, never by the library.              *)
StageAfterPowerLoss(stage) ==
  {NoStage, stage} \union IF stage.durable THEN {} ELSE PartsOf(stage)
PublicationAfterPowerLoss(publication) ==
  (IF publication.kept THEN {} ELSE {NoPublication})
    \union (IF publication.durable \/ publication.content = "none" THEN {publication}
            ELSE {publication, [publication EXCEPT !.content = "partial"]})
NamespaceAfterPowerLoss ==
  CASE namespace = "durable" -> {"durable"}
    [] namespace = "marked" -> {"absent", "bare", "marked"}
    [] OTHER -> {"absent", namespace}

PowerLoss ==
  /\ AFault
  /\ namespace' \in NamespaceAfterPowerLoss
  /\ IF namespace' # namespace
     THEN /\ stages' = [s \in StageNames |-> NoStage]
          /\ published' = [b \in Bundles |-> NoPublication]
     ELSE /\ stages' \in [StageNames -> UNION {StageAfterPowerLoss(stages[s]) : s \in StageNames}]
          /\ \A s \in StageNames : stages'[s] \in StageAfterPowerLoss(stages[s])
          /\ published' \in [Bundles -> UNION {PublicationAfterPowerLoss(published[b]) : b \in Bundles}]
          /\ \A b \in Bundles : published'[b] \in PublicationAfterPowerLoss(published[b])
  /\ lock' = "none"
  /\ pc' = [p \in Processes |-> "out"]
  /\ mine' = [p \in Processes |-> "none"]
  /\ handle' = [p \in Processes |-> FALSE]
  /\ stale' = {}
  /\ UNCHANGED <<want, attempt, unread>>
-----------------------------------------------------------------------------
(* The steps of a call that nothing disturbs.                              *)
Progress(p) ==
  \/ ensureNamespace(p) \/ validateNamespace(p) \/ CreateNamespace(p)
  \/ writeNamespaceMarker(p) \/ SyncNamespace(p)
  \/ acquireAdvisoryLock(p) \/ recoverStages(p) \/ rootEntryExists(p)
  \/ CreateStage(p) \/ WriteStageMarker(p) \/ StageStarts(p) \/ StageEnds(p)
  \/ syncTree(p) \/ VerifyStage(p) \/ renameNoReplace(p)
  \/ SyncPublication(p) \/ RemovePublishedStage(p) \/ OpenPublication(p)
  \/ CleanupStage(p) \/ CloseLock(p)

Disturbance(p) ==
  \/ InitializeFails(p) \/ SourceChanged(p) \/ StepFails(p) \/ Crash(p)

Next ==
  \/ \E p \in Processes :
       Materialize(p) \/ Progress(p) \/ CloseBundle(p) \/ Disturbance(p)
  \/ PowerLoss

Spec == Init /\ [][Next]_vars

(* Processes run, and an application whose open failed tries again. No     *)
(* process is sure to win the lock against the others' polling.            *)
FairSpec ==
  /\ Spec
  /\ \A p \in Processes :
       WF_vars(Progress(p)) /\ WF_vars(Materialize(p) /\ ~\E q \in Processes : handle[q])
-----------------------------------------------------------------------------
(***************************************************************************)
(* Properties.                                                             *)
(***************************************************************************)

(* "A reader sees a complete publication or no publication, never a        *)
(* partial ready tree": whatever happened to whoever staged it, and after  *)
(* any power loss, a publication is the complete bundle it is named after. *)
PublicationIsComplete ==
  \A b \in Bundles : published[b].content \in {"none", b}

(* Nobody but its owner touches a stage that is being filled: recovery     *)
(* takes marked stages for abandoned, which they are only because every    *)
(* live owner holds the lock that recovery has to take.                    *)
StageBelongsToItsCall ==
  \A p \in Processes : mine[p] # "none" /\ pc[p] # "cleanup" =>
    /\ lock = p
    /\ stages[mine[p]].exists
    /\ pc[p] # "stageMarker" => stages[mine[p]].marked
    /\ pc[p] \in {"verifyStage", "publish"} => stages[mine[p]].content = want[p]

(* Recovery leaves a marked stage only when it could not look at it: until *)
(* the call that holds the lock lets it go, every other marked stage is    *)
(* its own. A removal that failed, or a stage some other call has made or  *)
(* lost meanwhile, is never silently left behind.                          *)
RecoveryIsComplete ==
  \A p \in Processes :
    lock = p /\ pc[p] \in Locked \ {"recover"} =>
      \A s \in StageNames : stages[s].marked => s = mine[p] \/ s \in unread

(* The namespace a call has validated is not removed under it, although a  *)
(* failing initializeNamespace removes the whole directory: the marker     *)
(* comes after all that can fail but the last sync (NamespaceSyncFails).   *)
NamespaceIsKept ==
  \A p \in Processes : pc[p] \in {"lock"} \union Locked \union Unwinding => p \notin stale

(* "Published bundles are immutable and retained": no step of any call,    *)
(* and no crash, removes or changes a publication; only a power loss may,  *)
(* before it is synchronised.                                              *)
PublicationIsKept ==
  [][\A b \in Bundles :
       published[b].content = "none" \/ published'[b].content = published[b].content
         \/ PowerLoss]_vars

(* Whoever has the lock gives it back, whatever fails on the way out.      *)
LockIsReleased == \A p \in Processes : lock = p ~> lock # p

(* "Interrupted materialization: retry the same open": faults being        *)
(* finitely many, applications that retry get their bundle, whatever the   *)
(* faults have left in the WorkDir.                                        *)
RetryEventuallySucceeds == []<>(\E p \in Processes : handle[p])
=============================================================================
