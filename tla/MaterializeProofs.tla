-------------------------- MODULE MaterializeProofs --------------------------
(***************************************************************************)
(* What Materialize guarantees for any number of processes, bundles, stage *)
(* names, rounds and faults, unless the last sync of initializeNamespace   *)
(* fails (NamespaceSyncFails): publications are complete and kept, a stage *)
(* belongs to the call that fills it, recovery leaves no marked stage that *)
(* it could read, and nobody loses the namespace it works in.              *)
(*                                                                         *)
(* The proof rests on who may change what: only the holder of the lock     *)
(* changes a stage or a publication, and only who made the namespace       *)
(* removes it, before any call has used it.                                *)
(***************************************************************************)
EXTENDS Materialize, TLAPS

(* Without broken: that is left by a removal after the marker only.        *)
Namespaces == {"absent", "bare", "marked", "synced", "durable"}
Creating == {"mark", "syncNamespace"}
Inside == {"lock"} \union Locked \union Unwinding
Owning == {"stageMarker", "copy", "copying", "syncStage", "verifyStage",
           "publish", "syncPublication", "removeStage"}
Contents == Bundles \union {"none", "partial"}
PCs == {"out", "lstat", "create", "validate", "ready"} \union Creating \union Inside

Stages == [exists : BOOLEAN, marked : BOOLEAN, content : Contents, durable : BOOLEAN]
Publications == [content : Contents, durable : BOOLEAN, kept : BOOLEAN]

TypeOK ==
  /\ namespace \in Namespaces
  /\ lock \in Processes \union {"none"}
  /\ stages \in [StageNames -> Stages]
  /\ published \in [Bundles -> Publications]
  /\ pc \in [Processes -> PCs]
  /\ want \in [Processes -> Bundles \union {"none"}]
  /\ mine \in [Processes -> StageNames \union {"none"}]
  /\ handle \in [Processes -> BOOLEAN]
  /\ stale \subseteq Processes

(* A call knows the bundle it is for until it returns.                     *)
WantOK == \A p \in Processes : pc[p] # "out" => want[p] \in Bundles

(* The flock is held exactly by the call that is under it, unless the      *)
(* namespace with the lock file has been removed.                          *)
LockOK ==
  \A p \in Processes : lock = p <=> pc[p] \in Locked \union Unwinding /\ p \notin stale

(* One call at most initialises the namespace, and nobody else changes it  *)
(* meanwhile; a call that is past validateNamespace has one with a marker; *)
(* without the marker there is no publication.                             *)
NamespaceOK ==
  /\ \A p \in Processes :
       /\ pc[p] = "mark" => namespace = "bare"
       /\ pc[p] = "syncNamespace" => namespace = "marked"
       /\ pc[p] = "validate" /\ p \notin stale => namespace # "absent"
       /\ pc[p] \in Inside /\ p \notin stale => namespace \notin {"absent", "bare"}
  /\ \A p, q \in Processes : pc[p] \in Creating /\ pc[q] \in Creating => p = q
  /\ namespace \in {"absent", "bare"} => \A b \in Bundles : published[b] = NoPublication

(* stageOwned: from the Mkdir of the stage to its removal.                 *)
OwnerOf(p) ==
  /\ pc[p] \in Owning => mine[p] # "none"
  /\ mine[p] # "none" => pc[p] \in Owning \union {"open", "cleanup"}

(* The stage of a call that is filling it.                                 *)
StageOf(p) ==
  mine[p] # "none" /\ pc[p] # "cleanup" /\ p \notin stale =>
    /\ stages[mine[p]].exists
    /\ pc[p] # "stageMarker" => stages[mine[p]].marked
    /\ pc[p] \in {"syncStage", "verifyStage", "publish"} => stages[mine[p]].content = want[p]
    /\ pc[p] \in {"verifyStage", "publish"} => stages[mine[p]].durable

(* Past recovery, the holder of the lock has the only marked stage that it *)
(* could read.                                                             *)
RecoveredBy(p) ==
  lock = p /\ pc[p] \in Locked \ {"recover"} =>
    \A s \in StageNames : stages[s].marked => s = mine[p] \/ s \in unread

(* What is published was complete and synchronised before the rename, so   *)
(* that no power loss can leave part of it.                                *)
PublishedOK ==
  \A b \in Bundles : published[b].content \in {"none", b}
    /\ (published[b].content # "none" => published[b].durable)

IInv ==
  /\ TypeOK /\ WantOK /\ LockOK /\ NamespaceOK /\ PublishedOK /\ NamespaceIsKept
  /\ \A p \in Processes : OwnerOf(p) /\ StageOf(p) /\ RecoveredBy(p)
-----------------------------------------------------------------------------
(***************************************************************************)
(* Frames: what is left to show for a step of one process.                 *)
(***************************************************************************)

(* Of two calls under the lock, one has lost its namespace.                *)
LEMMA OneHolder ==
  ASSUME LockOK, NEW p \in Processes, NEW q \in Processes, p # q,
         pc[p] \in Locked \union Unwinding, p \notin stale,
         pc[q] \in Locked \union Unwinding
  PROVE  q \in stale
BY DEF LockOK

(* A call that is not under the lock has no stage.                         *)
LEMMA NoStageOutside ==
  ASSUME NEW p \in Processes, OwnerOf(p), pc[p] \notin Locked \union Unwinding
  PROVE  mine[p] = "none"
BY DEF OwnerOf, Owning, Locked, Unwinding

(* A step of the holder of the lock, which stays under it: only its own    *)
(* stage and the publications are at stake.                                *)
LEMMA HolderInv ==
  ASSUME IInv, TypeOK', NEW p \in Processes, p \notin stale,
         pc[p] \in Locked \union Unwinding,
         NEW to \in Locked \union Unwinding, pc' = [pc EXCEPT ![p] = to],
         UNCHANGED <<namespace, lock, want, stale>>,
         \A q \in Processes \ {p} : mine'[q] = mine[q],
         OwnerOf(p)', StageOf(p)', RecoveredBy(p)', PublishedOK'
  PROVE  IInv'
<1>. USE DEF TypeOK
<1>1. /\ pc'[p] = to
      /\ \A q \in Processes \ {p} : pc'[q] = pc[q]
      /\ lock = p
  BY DEF IInv, LockOK
<1>2. WantOK'
  BY <1>1 DEF IInv, WantOK, Locked, Unwinding
<1>3. LockOK'
  BY <1>1 DEF IInv, LockOK
<1>4. NamespaceOK'
  <2>1. to \notin Creating \union {"validate"} /\ to \in Inside /\ pc[p] \in Inside
    BY DEF Locked, Unwinding, Creating, Inside
  <2>2. namespace \notin {"absent", "bare"}
    BY <2>1 DEF IInv, NamespaceOK
  <2>. QED BY <1>1, <2>1, <2>2 DEF IInv, NamespaceOK, Creating
<1>5. NamespaceIsKept'
  BY <1>1 DEF IInv, NamespaceIsKept
<1>6. ASSUME NEW q \in Processes
      PROVE  (OwnerOf(q) /\ StageOf(q) /\ RecoveredBy(q))'
  <2>1. CASE q = p
    BY <2>1
  <2>2. CASE q # p
    <3>1. pc'[q] = pc[q] /\ mine'[q] = mine[q]
      BY <1>1, <2>2
    <3>2. OwnerOf(q)'
      BY <3>1 DEF IInv, OwnerOf
    <3>3. mine[q] # "none" => pc[q] \in Locked \union Unwinding
      BY NoStageOutside DEF IInv
    <3>4. StageOf(q)'
      BY <3>1, <3>3, <2>2, OneHolder DEF IInv, StageOf
    <3>5. RecoveredBy(q)'
      BY <1>1, <2>2 DEF RecoveredBy
    <3>. QED BY <3>2, <3>4, <3>5
  <2>. QED BY <2>1, <2>2
<1>. QED BY <1>2, <1>3, <1>4, <1>5, <1>6 DEF IInv

(* A step of a call that is not under the lock, before and after: only the *)
(* namespace is at stake.                                                  *)
LEMMA OutsideInv ==
  ASSUME IInv, TypeOK', NEW p \in Processes,
         pc[p] \notin Locked \union Unwinding,
         NEW to \in PCs \ (Locked \union Unwinding), pc' = [pc EXCEPT ![p] = to],
         UNCHANGED <<lock, stages, published, mine, unread>>,
         \A q \in Processes \ {p} : (q \in stale' <=> q \in stale) /\ want'[q] = want[q],
         to # "out" => want'[p] \in Bundles,
         NamespaceOK', NamespaceIsKept'
  PROVE  IInv'
<1>. USE DEF TypeOK
<1>1. /\ pc'[p] = to
      /\ \A q \in Processes \ {p} : pc'[q] = pc[q]
      /\ lock # p
  BY DEF IInv, LockOK
<1>2. WantOK'
  BY <1>1 DEF IInv, WantOK
<1>3. LockOK'
  BY <1>1 DEF IInv, LockOK
<1>4. PublishedOK'
  BY DEF IInv, PublishedOK
<1>5. ASSUME NEW q \in Processes
      PROVE  (OwnerOf(q) /\ StageOf(q) /\ RecoveredBy(q))'
  <2>1. CASE q = p
    <3>1. mine'[p] = "none"
      BY NoStageOutside DEF IInv
    <3>2. pc'[p] \notin Owning \union Locked
      BY <1>1 DEF Owning, Locked
    <3>. QED BY <2>1, <3>1, <3>2 DEF OwnerOf, StageOf, RecoveredBy
  <2>2. CASE q # p
    <3>1. pc'[q] = pc[q] /\ mine'[q] = mine[q] /\ (q \in stale' <=> q \in stale)
          /\ want'[q] = want[q]
      BY <1>1, <2>2
    <3>. QED BY <3>1 DEF IInv, OwnerOf, StageOf, RecoveredBy
  <2>. QED BY <2>1, <2>2
<1>. QED BY <1>2, <1>3, <1>4, <1>5 DEF IInv
-----------------------------------------------------------------------------
(***************************************************************************)
(* Initial states, and the steps of a call before it has the lock.         *)
(***************************************************************************)

(* A WorkDir that is fresh, or has an empty namespace.                     *)
LEMMA InitInv ==
  ASSUME Init
  PROVE  IInv
<1>. USE DEF Init
<1>1. TypeOK
  BY DEF TypeOK, NoStage, NoPublication, Namespaces, Stages, Publications, Contents, PCs
<1>2. LockOK
  BY NamesAssumption DEF LockOK, Locked, Unwinding
<1>3. NamespaceOK
  BY DEF NamespaceOK, Creating, Inside, Locked, Unwinding, NoPublication
<1>4. WantOK /\ PublishedOK /\ NamespaceIsKept
  BY DEF WantOK, PublishedOK, NamespaceIsKept, NoPublication
<1>5. ASSUME NEW p \in Processes
      PROVE  OwnerOf(p) /\ StageOf(p) /\ RecoveredBy(p)
  BY DEF OwnerOf, StageOf, RecoveredBy, Owning, Locked
<1>. QED BY <1>1, <1>2, <1>3, <1>4, <1>5 DEF IInv

(* A call begins a round, or ends, without touching the namespace.         *)
LEMMA ReturnInv ==
  ASSUME IInv, TypeOK', NEW p \in Processes, NEW to \in {"out", "lstat", "create"},
         pc[p] \notin Locked \union Unwinding, pc' = [pc EXCEPT ![p] = to],
         UNCHANGED <<diskVars, mine, unread>>, stale' \in {stale, stale \ {p}},
         \A q \in Processes \ {p} : want'[q] = want[q],
         to # "out" => want'[p] \in Bundles
  PROVE  IInv'
<1>. USE DEF TypeOK, diskVars
<1>1. to \in PCs \ (Locked \union Unwinding)
  BY DEF PCs, Locked, Unwinding
<1>2. \A q \in Processes : pc'[q] = IF q = p THEN to ELSE pc[q]
  BY DEF IInv
<1>3. to \notin Inside \union Creating \union {"validate"}
  BY DEF Inside, Locked, Unwinding, Creating
<1>4. \A q \in Processes \ {p} : q \in stale' <=> q \in stale
  OBVIOUS
<1>5. NamespaceOK'
  BY <1>2, <1>3, <1>4 DEF IInv, NamespaceOK, Creating
<1>6. NamespaceIsKept'
  BY <1>2, <1>3, <1>4 DEF IInv, NamespaceIsKept, Inside
<1>. QED BY <1>1, <1>4, <1>5, <1>6, OutsideInv

(* ensureNamespace with initializeNamespace: only the call that made the   *)
(* directory is between Mkdir and the last sync.                           *)
LEMMA EnsureNamespaceInv ==
  ASSUME IInv, NEW p \in Processes,
         \/ Materialize(p) \/ CloseBundle(p) \/ ensureNamespace(p)
         \/ validateNamespace(p) \/ CreateNamespace(p)
         \/ writeNamespaceMarker(p) \/ SyncNamespace(p)
  PROVE  IInv'
<1>. USE DEF Goto, diskVars, TypeOK
<1>a. PICK to \in {"out", "lstat", "create", "validate", "lock"} \union Creating :
        pc' = [pc EXCEPT ![p] = to]
  BY DEF Materialize, CloseBundle, ensureNamespace, validateNamespace,
         CreateNamespace, writeNamespaceMarker, SyncNamespace, NextRound, Creating
<1>b. pc[p] \notin Locked \union Unwinding
  BY DEF Materialize, CloseBundle, ensureNamespace, validateNamespace,
         CreateNamespace, writeNamespaceMarker, SyncNamespace, Locked, Unwinding
<1>0. /\ pc[p] \notin Locked \union Unwinding
      /\ pc[p] # "out" => want[p] \in Bundles
      /\ pc' = [pc EXCEPT ![p] = pc'[p]]
      /\ \A q \in Processes : pc'[q] = IF q = p THEN pc'[p] ELSE pc[q]
  BY <1>a, <1>b DEF IInv, WantOK
<1>c. /\ lock' = lock /\ stages' = stages /\ published' = published /\ mine' = mine
      /\ unread' = unread
      /\ stale' \in {stale, stale \ {p}}
      /\ handle' \in {handle, [handle EXCEPT ![p] = FALSE]}
      /\ namespace' \in {namespace, "bare", "marked", "synced"}
  BY DEF Materialize, CloseBundle, ensureNamespace, validateNamespace,
         CreateNamespace, writeNamespaceMarker, SyncNamespace, NextRound
<1>d. want' = want \/ \E b \in Bundles : want' = [want EXCEPT ![p] = b]
  BY DEF Materialize, CloseBundle, ensureNamespace, validateNamespace,
         CreateNamespace, writeNamespaceMarker, SyncNamespace, NextRound
<1>1. TypeOK'
  <2>1. pc' \in [Processes -> PCs]
    BY <1>a DEF IInv, PCs, Inside
  <2>2. want' \in [Processes -> Bundles \union {"none"}]
    <3>1. want \in [Processes -> Bundles \union {"none"}]
      BY DEF IInv
    <3>. QED BY <1>d, <3>1
  <2>4. handle' \in [Processes -> BOOLEAN]
    <3>1. handle \in [Processes -> BOOLEAN]
      BY DEF IInv
    <3>. QED BY <1>c, <3>1, Zenon
  <2>3. namespace' \in Namespaces /\ stale' \subseteq Processes
    BY <1>c DEF IInv, Namespaces
  <2>. QED BY <1>c, <2>1, <2>2, <2>3, <2>4 DEF IInv
<1>2. CASE Materialize(p)
  <2>1. PICK b \in Bundles : want' = [want EXCEPT ![p] = b]
    BY <1>2 DEF Materialize
  <2>2. want'[p] \in Bundles /\ \A q \in Processes \ {p} : want'[q] = want[q]
    BY <2>1 DEF IInv
  <2>. QED BY <1>0, <1>1, <1>2, <2>2, ReturnInv DEF Materialize
<1>3. CASE CloseBundle(p)
  BY <1>0, <1>1, <1>3, ReturnInv DEF IInv, CloseBundle
<1>4. CASE ensureNamespace(p)
  <2>1. CASE ~roundsLeft(p) \/ namespace = "absent"
    BY <1>0, <1>1, <1>4, <2>1, ReturnInv DEF IInv, ensureNamespace
  <2>2. CASE roundsLeft(p) /\ namespace # "absent"
    <3>1. /\ pc' = [pc EXCEPT ![p] = "validate"]
          /\ UNCHANGED <<diskVars, want, mine, stale, unread>>
          /\ want[p] \in Bundles
      BY <1>0, <1>4, <2>2 DEF ensureNamespace
    <3>2. "validate" \in PCs \ (Inside \union Creating)
      BY DEF PCs, Inside, Locked, Unwinding, Creating
    <3>3. NamespaceOK'
      BY <1>0, <2>2, <3>1, <3>2 DEF IInv, NamespaceOK
    <3>4. NamespaceIsKept'
      BY <1>0, <3>1, <3>2 DEF IInv, NamespaceIsKept, Inside
    <3>. QED BY <1>0, <1>1, <3>1, <3>2, <3>3, <3>4, OutsideInv DEF Inside
  <2>. QED BY <2>1, <2>2
<1>5. CASE validateNamespace(p)
  <2>1. CASE p \in stale \/ namespace = "bare"
    BY <1>0, <1>1, <1>5, <2>1, ReturnInv DEF IInv, validateNamespace, NextRound
  <2>2. CASE p \notin stale /\ namespace # "bare"
    <3>1. /\ pc' = [pc EXCEPT ![p] = "lock"]
          /\ UNCHANGED <<diskVars, want, mine, stale, unread>>
          /\ want[p] \in Bundles
          /\ namespace \notin {"absent", "bare"}
      BY <1>0, <1>5, <2>2 DEF IInv, NamespaceOK, Namespaces, validateNamespace
    <3>2. "lock" \in PCs \ (Locked \union Unwinding \union Creating)
      BY DEF PCs, Inside, Locked, Unwinding, Creating
    <3>3. NamespaceOK'
      BY <1>0, <3>1, <3>2 DEF IInv, NamespaceOK
    <3>4. NamespaceIsKept'
      BY <1>0, <2>2, <3>1, <3>2 DEF IInv, NamespaceIsKept
    <3>. QED BY <1>0, <1>1, <3>1, <3>2, <3>3, <3>4, OutsideInv
  <2>. QED BY <2>1, <2>2
<1>6. CASE CreateNamespace(p)
  <2>1. CASE namespace # "absent"
    BY <1>0, <1>1, <1>6, <2>1, ReturnInv DEF IInv, CreateNamespace, NextRound
  <2>2. CASE namespace = "absent"
    <3>1. /\ pc' = [pc EXCEPT ![p] = "mark"]
          /\ namespace' = "bare"
          /\ UNCHANGED <<lock, stages, published, want, mine, stale, unread>>
          /\ want[p] \in Bundles
      BY <1>0, <1>6, <2>2 DEF CreateNamespace
    <3>2. "mark" \in PCs \ Inside
      BY DEF PCs, Inside, Locked, Unwinding, Creating
    <3>3. \A q \in Processes : pc[q] \notin Creating
      BY <2>2 DEF IInv, NamespaceOK, Creating
    <3>4. NamespaceOK'
      BY <1>0, <2>2, <3>1, <3>2, <3>3 DEF IInv, NamespaceOK, Creating
    <3>5. NamespaceIsKept'
      BY <1>0, <3>1, <3>2 DEF IInv, NamespaceIsKept, Inside
    <3>. QED BY <1>0, <1>1, <3>1, <3>2, <3>4, <3>5, OutsideInv DEF Inside
  <2>. QED BY <2>1, <2>2
<1>7. CASE writeNamespaceMarker(p)
  <2>1. /\ pc' = [pc EXCEPT ![p] = "syncNamespace"] /\ pc[p] \in Creating
        /\ namespace' = "marked"
        /\ UNCHANGED <<lock, stages, published, want, mine, stale, unread>>
        /\ want[p] \in Bundles
    BY <1>0, <1>7 DEF writeNamespaceMarker, Creating
  <2>2. "syncNamespace" \in PCs \ Inside
    BY DEF PCs, Inside, Locked, Unwinding, Creating
  <2>3. NamespaceOK'
    BY <1>0, <2>1, <2>2 DEF IInv, NamespaceOK, Creating
  <2>4. NamespaceIsKept'
    BY <1>0, <2>1, <2>2 DEF IInv, NamespaceIsKept, Inside
  <2>. QED BY <1>0, <1>1, <2>1, <2>2, <2>3, <2>4, OutsideInv DEF Inside
<1>8. CASE SyncNamespace(p)
  <2>1. /\ pc' = [pc EXCEPT ![p] = "lstat"] /\ pc[p] \in Creating
        /\ namespace' = "synced"
        /\ UNCHANGED <<lock, stages, published, want, mine, unread>>
        /\ stale' = stale \ {p}
        /\ want[p] \in Bundles
    BY <1>0, <1>8 DEF SyncNamespace, NextRound, Creating
  <2>2. "lstat" \in PCs \ (Inside \union Creating)
    BY DEF PCs, Inside, Locked, Unwinding, Creating
  <2>3. NamespaceOK'
    BY <1>0, <2>1, <2>2 DEF IInv, NamespaceOK, Creating
  <2>4. NamespaceIsKept'
    BY <1>0, <2>1, <2>2 DEF IInv, NamespaceIsKept, Inside
  <2>. QED BY <1>0, <1>1, <2>1, <2>2, <2>3, <2>4, OutsideInv DEF Inside
<1>. QED BY <1>2, <1>3, <1>4, <1>5, <1>6, <1>7, <1>8
-----------------------------------------------------------------------------
(***************************************************************************)
(* The steps under the lock.                                               *)
(***************************************************************************)

(* The flock is taken when nobody has it.                                  *)
LEMMA AcquireInv ==
  ASSUME IInv, NEW p \in Processes, acquireAdvisoryLock(p)
  PROVE  IInv'
<1>. USE DEF acquireAdvisoryLock, Goto
<1>0. "recover" \in Inside /\ "recover" \in Locked \ Creating
  BY DEF Inside, Locked, Creating
<1>1. TypeOK'
  BY <1>0 DEF IInv, TypeOK, PCs
<1>2. /\ pc'[p] = "recover" /\ pc[p] = "lock"
      /\ \A q \in Processes \ {p} : pc'[q] = pc[q]
  BY DEF IInv, TypeOK
<1>3. \A q \in Processes : ~(pc[q] \in Locked \union Unwinding /\ q \notin stale)
  BY NamesAssumption DEF IInv, LockOK
<1>4. LockOK'
  BY <1>0, <1>2, <1>3 DEF LockOK
<1>5. WantOK' /\ PublishedOK'
  BY <1>2 DEF IInv, WantOK, PublishedOK
<1>6. NamespaceOK'
  BY <1>0, <1>2 DEF IInv, NamespaceOK, Inside
<1>7. NamespaceIsKept'
  BY <1>2 DEF IInv, NamespaceIsKept
<1>8. ASSUME NEW q \in Processes
      PROVE  (OwnerOf(q) /\ StageOf(q) /\ RecoveredBy(q))'
  <2>1. CASE q = p
    <3>1. mine'[p] = "none"
      BY <1>2 DEF IInv, OwnerOf, Owning
    <3>. QED BY <1>2, <2>1, <3>1 DEF OwnerOf, StageOf, RecoveredBy, Owning
  <2>2. CASE q # p
    BY <1>2, <2>2 DEF IInv, OwnerOf, StageOf, RecoveredBy
  <2>. QED BY <2>1, <2>2
<1>. QED BY <1>1, <1>4, <1>5, <1>6, <1>7, <1>8 DEF IInv

(* What the holder of the lock knows of its stage.                         *)
LEMMA HolderFacts ==
  ASSUME IInv, NEW p \in Processes, pc[p] \in Locked, p \notin stale
  PROVE  /\ lock = p
         /\ want[p] \in Bundles
         /\ pc[p] \in Owning => mine[p] \in StageNames
         /\ pc[p] \notin Owning \union {"open"} => mine[p] = "none"
         /\ pc[p] # "recover" =>
              \A s \in StageNames : stages[s].marked => s = mine[p] \/ s \in unread
<1>1. pc[p] # "out" /\ pc[p] # "cleanup"
  BY DEF Locked
<1>2. lock = p /\ want[p] \in Bundles
  BY <1>1 DEF IInv, LockOK, WantOK
<1>3. OwnerOf(p) /\ RecoveredBy(p) /\ mine[p] \in StageNames \union {"none"}
  BY DEF IInv, TypeOK
<1>. QED BY <1>1, <1>2, <1>3 DEF OwnerOf, RecoveredBy

(* A step of the holder of the lock that publishes nothing.                *)
LEMMA StepInv ==
  ASSUME IInv, NEW p \in Processes, p \notin stale,
         pc[p] \in Locked \union Unwinding,
         NEW to \in Locked \union Unwinding, pc' = [pc EXCEPT ![p] = to],
         UNCHANGED <<namespace, lock, published, want, stale>>,
         stages' \in [StageNames -> Stages],
         \/ mine' = mine
         \/ \E s \in StageNames \union {"none"} : mine' = [mine EXCEPT ![p] = s],
         handle' \in [Processes -> BOOLEAN],
         to \in Owning => mine'[p] # "none",
         mine'[p] # "none" => to \in Owning \union {"open", "cleanup"},
         mine'[p] # "none" /\ to # "cleanup" =>
           /\ stages'[mine'[p]].exists
           /\ to # "stageMarker" => stages'[mine'[p]].marked
           /\ to \in {"syncStage", "verifyStage", "publish"} =>
                stages'[mine'[p]].content = want[p]
           /\ to \in {"verifyStage", "publish"} => stages'[mine'[p]].durable,
         to \in Locked =>
           \A s \in StageNames : stages'[s].marked => s = mine'[p] \/ s \in unread'
  PROVE  IInv'
<1>1. pc'[p] = to
  BY DEF IInv, TypeOK
<1>2. TypeOK'
  <2>1. pc' \in [Processes -> PCs]
    BY DEF IInv, TypeOK, PCs, Inside
  <2>2. mine' \in [Processes -> StageNames \union {"none"}]
    <3>1. mine \in [Processes -> StageNames \union {"none"}]
      BY DEF IInv, TypeOK
    <3>. QED BY <3>1
  <2>. QED BY <2>1, <2>2 DEF IInv, TypeOK
<1>3. \A q \in Processes \ {p} : mine'[q] = mine[q]
  BY DEF IInv, TypeOK
<1>4. OwnerOf(p)' /\ StageOf(p)' /\ RecoveredBy(p)'
  BY <1>1 DEF OwnerOf, StageOf, RecoveredBy
<1>5. PublishedOK'
  BY DEF IInv, PublishedOK
<1>. QED BY <1>2, <1>3, <1>4, <1>5, HolderInv

(* recoverStages: no marked stage belongs to a live call, as the lock is   *)
(* taken.                                                                  *)
LEMMA RecoverInv ==
  ASSUME IInv, NEW p \in Processes, recoverStages(p) \/ rootEntryExists(p)
  PROVE  IInv'
<1>. USE DEF Step, Goto, Locked, Owning
<1>1. pc[p] \in Locked /\ p \notin stale /\ mine' = mine /\ handle' = handle
      /\ pc[p] \notin Owning \union {"open"}
  BY DEF recoverStages, rootEntryExists
<1>2. mine[p] = "none" /\ handle' \in [Processes -> BOOLEAN]
  BY <1>1, HolderFacts DEF IInv, TypeOK
<1>3. CASE recoverStages(p)
  <2>1. stages' \in [StageNames -> Stages]
    BY <1>3 DEF recoverStages, IInv, TypeOK, NoStage, Stages, Contents
  <2>2. \A s \in StageNames : stages'[s].marked => s \in unread'
    BY <1>3 DEF recoverStages, NoStage, IInv, TypeOK, Stages
  <2>3. pc' = [pc EXCEPT ![p] = "exists"]
        /\ UNCHANGED <<namespace, lock, published, want, stale>>
    BY <1>3 DEF recoverStages
  <2>. QED BY <1>1, <1>2, <2>1, <2>2, <2>3, StepInv
<1>4. CASE rootEntryExists(p)
  <2>1. PICK to \in {"open", "createStage"} : pc' = [pc EXCEPT ![p] = to]
    BY <1>4 DEF rootEntryExists
  <2>2. stages' \in [StageNames -> Stages]
        /\ UNCHANGED <<namespace, lock, stages, published, want, stale, unread>>
    BY <1>4 DEF rootEntryExists, IInv, TypeOK
  <2>3. \A s \in StageNames : stages[s].marked => s = mine[p] \/ s \in unread
    BY <1>1, <1>4, HolderFacts DEF rootEntryExists
  <2>. QED BY <1>1, <1>2, <2>1, <2>2, <2>3, StepInv
<1>. QED BY <1>3, <1>4

(* The new stage has a name no entry of staging/ has.                      *)
LEMMA CreateStageInv ==
  ASSUME IInv, NEW p \in Processes, CreateStage(p)
  PROVE  IInv'
<1>. USE DEF Step, Goto
<1>1. PICK s \in StageNames : stages' = [stages EXCEPT ![s] = NewStage]
                              /\ mine' = [mine EXCEPT ![p] = s]
  BY DEF CreateStage
<1>2. /\ pc[p] \in Locked \ (Owning \union {"open", "recover"}) /\ p \notin stale
      /\ pc' = [pc EXCEPT ![p] = "stageMarker"]
      /\ UNCHANGED <<namespace, lock, published, want, stale, unread>>
      /\ handle' = handle
  BY DEF CreateStage, Locked, Owning
<1>3. mine[p] = "none" /\ \A t \in StageNames : stages[t].marked => t \in unread
  BY <1>2, HolderFacts, NamesAssumption
<1>4. stages' \in [StageNames -> Stages] /\ handle' \in [Processes -> BOOLEAN]
  BY <1>1, <1>2 DEF IInv, TypeOK, NewStage, NoStage, Stages, Contents
<1>5. mine'[p] = s /\ stages'[s].exists
      /\ \A t \in StageNames : stages'[t].marked => t \in unread'
  BY <1>1, <1>2, <1>3 DEF IInv, TypeOK, NewStage, NoStage
<1>6. s # "none" /\ "stageMarker" \in Locked /\ "stageMarker" \in Owning
  BY NamesAssumption DEF Locked, Owning
<1>. QED BY <1>1, <1>2, <1>4, <1>5, <1>6, StepInv

(* The steps that fill the stage, one after the other.                     *)
LEMMA FillStageInv ==
  ASSUME IInv, NEW p \in Processes,
         \/ WriteStageMarker(p) \/ StageStarts(p) \/ StageEnds(p)
         \/ SourceChanged(p) \/ syncTree(p) \/ VerifyStage(p)
  PROVE  IInv'
<1>. USE DEF Step, Goto
<1>1. /\ pc[p] \in Locked /\ pc[p] \in Owning /\ pc[p] \notin {"open", "recover"}
      /\ p \notin stale /\ mine' = mine /\ handle' = handle
      /\ UNCHANGED <<namespace, lock, published, want, stale, unread>>
  BY DEF WriteStageMarker, StageStarts, StageEnds, SourceChanged, syncTree,
         VerifyStage, Locked, Owning
<1>2. /\ mine[p] \in StageNames /\ mine[p] # "none"
      /\ want[p] \in Bundles
      /\ \A s \in StageNames : stages[s].marked => s = mine[p] \/ s \in unread
      /\ StageOf(p)
  BY <1>1, HolderFacts, NamesAssumption DEF IInv
<1>3. stages \in [StageNames -> Stages] /\ handle' \in [Processes -> BOOLEAN]
  BY <1>1 DEF IInv, TypeOK
<1>4. stages[mine[p]].exists /\ (pc[p] # "stageMarker" => stages[mine[p]].marked)
  BY <1>1, <1>2 DEF StageOf, Locked
<1>. DEFINE From(to) == stages' \in [StageNames -> Stages]
                        /\ pc' = [pc EXCEPT ![p] = to]
                        /\ stages'[mine[p]].exists /\ stages'[mine[p]].marked
                        /\ (\A s \in StageNames : stages'[s].marked => s = mine[p] \/ s \in unread)
<1>5. ASSUME NEW to \in {"copy", "copying", "syncStage", "verifyStage", "publish", "cleanup"},
             From(to),
             to \in {"syncStage", "verifyStage", "publish"} =>
               stages'[mine[p]].content = want[p],
             to \in {"verifyStage", "publish"} => stages'[mine[p]].durable
      PROVE  IInv'
  <2>1. to \in Locked \union Unwinding /\ to \in Owning \union {"cleanup"} /\ to # "stageMarker"
    BY DEF Locked, Unwinding, Owning
  <2>. QED BY <1>1, <1>2, <1>3, <1>5, <2>1, StepInv
<1>6. CASE WriteStageMarker(p)
  <2>1. From("copy")
    BY <1>2, <1>3, <1>4, <1>6 DEF WriteStageMarker, Stages
  <2>. QED BY <1>5, <2>1
<1>7. CASE StageStarts(p)
  <2>1. From("copying")
    BY <1>2, <1>3, <1>4, <1>7 DEF StageStarts, Stages, Contents
  <2>. QED BY <1>5, <2>1
<1>8. CASE StageEnds(p)
  <2>1. From("syncStage")
    BY <1>2, <1>3, <1>4, <1>8 DEF StageEnds, Stages, Contents
  <2>2. stages'[mine[p]].content = want[p]
    BY <1>2, <1>3, <1>8 DEF StageEnds, Stages
  <2>. QED BY <1>5, <2>1, <2>2
<1>9. CASE SourceChanged(p)
  <2>1. PICK b \in Bundles : stages' = [stages EXCEPT ![mine[p]].content = b]
    BY <1>9 DEF SourceChanged
  <2>2. From("cleanup")
    BY <1>2, <1>3, <1>4, <1>9, <2>1 DEF SourceChanged, Stages, Contents
  <2>. QED BY <1>5, <2>2
<1>10. CASE syncTree(p)
  <2>0. stages' = [stages EXCEPT ![mine[p]].durable = TRUE]
        /\ pc[p] = "syncStage" /\ pc' = [pc EXCEPT ![p] = "verifyStage"]
    BY <1>10 DEF syncTree
  <2>a. stages' \in [StageNames -> Stages]
    BY <1>2, <1>3, <2>0 DEF Stages
  <2>b. \A s \in StageNames : (stages'[s].marked <=> stages[s].marked)
                              /\ (stages'[s].exists <=> stages[s].exists)
    BY <1>2, <1>3, <2>0 DEF Stages
  <2>1. From("verifyStage")
    BY <1>2, <1>4, <2>0, <2>a, <2>b
  <2>2. stages[mine[p]].content = want[p]
    BY <1>2, <1>10 DEF syncTree, StageOf
  <2>3. stages'[mine[p]].content = want[p] /\ stages'[mine[p]].durable
    BY <1>2, <1>3, <1>10, <2>2 DEF syncTree, Stages
  <2>. QED BY <1>5, <2>1, <2>3
<1>11. CASE VerifyStage(p)
  <2>1. stages[mine[p]].content = want[p] /\ stages[mine[p]].durable
    BY <1>2, <1>11 DEF VerifyStage, StageOf
  <2>2. From("publish") /\ stages' = stages
    BY <1>2, <1>3, <1>4, <1>11, <2>1 DEF VerifyStage
  <2>. QED BY <1>5, <2>1, <2>2
<1>. QED BY <1>6, <1>7, <1>8, <1>9, <1>10, <1>11

(* What is left of the stage is removed after its content is published.    *)
LEMMA RemovePublishedStageInv ==
  ASSUME IInv, NEW p \in Processes, RemovePublishedStage(p)
  PROVE  IInv'
<1>. USE DEF Step, Goto
<1>1. /\ pc[p] \in Locked \ {"recover"} /\ pc[p] \in Owning /\ p \notin stale
      /\ pc' = [pc EXCEPT ![p] = "open"]
      /\ UNCHANGED <<namespace, lock, published, want, stale, unread>>
      /\ handle' = handle
      /\ stages' = [stages EXCEPT ![mine[p]] = NoStage]
      /\ mine' = [mine EXCEPT ![p] = "none"]
  BY DEF RemovePublishedStage, Locked, Owning
<1>2. /\ mine[p] \in StageNames
      /\ \A s \in StageNames : stages[s].marked => s = mine[p] \/ s \in unread
  BY <1>1, HolderFacts
<1>3. stages' \in [StageNames -> Stages] /\ handle' \in [Processes -> BOOLEAN]
  BY <1>1, <1>2 DEF IInv, TypeOK, NoStage, Stages, Contents
<1>4. mine'[p] = "none" /\ \A s \in StageNames : stages'[s].marked => s \in unread'
  BY <1>1, <1>2 DEF IInv, TypeOK, NoStage
<1>5. "open" \in Locked \ Owning
  BY DEF Locked, Owning
<1>. QED BY <1>1, <1>3, <1>4, <1>5, StepInv

(* The rename publishes a stage that is complete and synchronised.         *)
LEMMA PublishInv ==
  ASSUME IInv, NEW p \in Processes, renameNoReplace(p) \/ SyncPublication(p)
  PROVE  IInv'
<1>. USE DEF Step, Goto
<1>1. /\ pc[p] \in Locked /\ pc[p] \in Owning /\ pc[p] \notin {"open", "recover"}
      /\ p \notin stale /\ mine' = mine /\ handle' = handle
      /\ UNCHANGED <<namespace, lock, want, stale, unread>>
  BY DEF renameNoReplace, SyncPublication, Locked, Owning
<1>2. /\ mine[p] \in StageNames /\ mine[p] # "none"
      /\ want[p] \in Bundles
      /\ \A s \in StageNames : stages[s].marked => s = mine[p] \/ s \in unread
      /\ StageOf(p) /\ PublishedOK
  BY <1>1, HolderFacts, NamesAssumption DEF IInv
<1>3. /\ stages \in [StageNames -> Stages] /\ handle' \in [Processes -> BOOLEAN]
      /\ published \in [Bundles -> Publications]
      /\ pc \in [Processes -> PCs]
  BY <1>1 DEF IInv, TypeOK
<1>4. stages[mine[p]].exists /\ stages[mine[p]].marked
  BY <1>1, <1>2 DEF StageOf, Locked, renameNoReplace, SyncPublication
<1>5. CASE renameNoReplace(p) /\ published[want[p]].content = "none"
  <2>1. stages[mine[p]].content = want[p] /\ stages[mine[p]].durable = TRUE
    <3>1. pc[p] = "publish"
      BY <1>5 DEF renameNoReplace
    <3>2. stages[mine[p]].content = want[p] /\ stages[mine[p]].durable
      BY <1>1, <1>2, <3>1 DEF StageOf
    <3>. QED BY <1>2, <1>3, <3>2 DEF Stages
  <2>2. /\ published' = [published EXCEPT ![want[p]] =
                           [content |-> want[p], durable |-> TRUE, kept |-> FALSE]]
        /\ stages' = [stages EXCEPT ![mine[p]].content = "none"]
        /\ pc' = [pc EXCEPT ![p] = "syncPublication"]
    BY <1>5, <2>1 DEF renameNoReplace
  <2>3. stages' \in [StageNames -> Stages] /\ published' \in [Bundles -> Publications]
    BY <1>2, <1>3, <2>2 DEF Stages, Publications, Contents
  <2>4. TypeOK'
    BY <1>1, <1>3, <2>2, <2>3 DEF IInv, TypeOK, PCs, Inside, Locked
  <2>5. PublishedOK'
    BY <1>2, <1>3, <2>2 DEF PublishedOK
  <2>6. /\ pc'[p] = "syncPublication"
        /\ stages'[mine[p]].exists /\ stages'[mine[p]].marked
        /\ \A s \in StageNames : stages'[s].marked => s = mine[p] \/ s \in unread
    BY <1>2, <1>3, <1>4, <2>2 DEF Stages
  <2>7. "syncPublication" \in Locked /\ "syncPublication" \in Owning
    BY DEF Locked, Owning
  <2>8. OwnerOf(p)' /\ StageOf(p)' /\ RecoveredBy(p)'
    BY <1>1, <1>2, <2>6, <2>7 DEF OwnerOf, StageOf, RecoveredBy
  <2>. QED BY <1>1, <2>2, <2>4, <2>5, <2>7, <2>8, HolderInv
<1>6. CASE renameNoReplace(p) /\ published[want[p]].content # "none"
  <2>1. pc' = [pc EXCEPT ![p] = "open"] /\ stages' = stages /\ published' = published
    BY <1>6 DEF renameNoReplace
  <2>2. "open" \in Locked \ Owning
    BY DEF Locked, Owning
  <2>. QED BY <1>1, <1>2, <1>3, <1>4, <2>1, <2>2, StepInv
<1>7. CASE SyncPublication(p)
  <2>1. /\ published' = [published EXCEPT ![want[p]].kept = TRUE]
        /\ stages' = stages
        /\ pc' = [pc EXCEPT ![p] = "removeStage"]
    BY <1>7 DEF SyncPublication
  <2>2. published' \in [Bundles -> Publications]
    BY <1>2, <1>3, <2>1 DEF Publications
  <2>3. TypeOK'
    BY <1>1, <1>3, <2>1, <2>2 DEF IInv, TypeOK, PCs, Inside, Locked
  <2>4. PublishedOK'
    BY <1>2, <1>3, <2>1 DEF PublishedOK, Publications
  <2>5. pc'[p] = "removeStage" /\ "removeStage" \in Locked /\ "removeStage" \in Owning
    BY <1>3, <2>1 DEF Locked, Owning
  <2>6. OwnerOf(p)' /\ StageOf(p)' /\ RecoveredBy(p)'
    BY <1>1, <1>2, <1>4, <2>1, <2>5 DEF OwnerOf, StageOf, RecoveredBy
  <2>. QED BY <1>1, <2>1, <2>3, <2>4, <2>5, <2>6, HolderInv
<1>. QED BY <1>5, <1>6, <1>7
-----------------------------------------------------------------------------
(***************************************************************************)
(* The way out, and failures.                                              *)
(***************************************************************************)

(* A removal that fails half-way leaves a stage, and writes no marker.     *)
LEMMA PartsAreStages ==
  ASSUME NEW stage \in Stages, NEW part \in PartsOf(stage) \union {NoStage}
  PROVE  part \in Stages /\ (part.marked => stage.marked)
<1>1. CASE part = NoStage
  BY <1>1 DEF NoStage, Stages, Contents
<1>2. CASE part \in PartsOf(stage)
  BY <1>2 DEF PartsOf, Stages, Contents
<1>. QED BY <1>1, <1>2

(* The publication is opened; the deferred cleanup follows.                *)
LEMMA OpenInv ==
  ASSUME IInv, NEW p \in Processes, OpenPublication(p)
  PROVE  IInv'
<1>1. /\ pc[p] \in Locked /\ pc[p] \notin Owning \union {"recover"}
      /\ pc' = [pc EXCEPT ![p] = "cleanup"]
      /\ UNCHANGED <<namespace, lock, stages, published, want, mine, stale>>
      /\ handle' = [handle EXCEPT ![p] = published[want[p]].content = want[p]]
      /\ "cleanup" \in Unwinding \ (Owning \union Locked)
  BY DEF OpenPublication, Goto, diskVars, Locked, Unwinding, Owning
<1>2. handle' \in [Processes -> BOOLEAN] /\ stages' \in [StageNames -> Stages]
  BY <1>1 DEF IInv, TypeOK
<1>3. p \notin stale
  BY <1>1 DEF IInv, NamespaceIsKept
<1>. QED BY <1>1, <1>2, <1>3, StepInv

(* An error or an ended context, at any step of a call.                    *)
LEMMA StepFailsInv ==
  ASSUME IInv, NEW p \in Processes, StepFails(p)
  PROVE  IInv'
<1>. USE DEF Goto
<1>0. /\ UNCHANGED <<namespace, lock, published, want, mine, handle, unread>>
      /\ handle' \in [Processes -> BOOLEAN]
  BY DEF StepFails, IInv, TypeOK
<1>1. CASE pc[p] \in {"lstat", "create", "validate", "lock"}
  <2>1. pc[p] \notin Locked \union Unwinding
    BY <1>1 DEF Locked, Unwinding
  <2>2. pc' = [pc EXCEPT ![p] = "out"] /\ stale' = stale \ {p} /\ stages' = stages
    BY <1>1, <2>1 DEF StepFails
  <2>3. TypeOK'
    BY <1>0, <2>2 DEF IInv, TypeOK, PCs
  <2>. QED BY <1>0, <2>1, <2>2, <2>3, ReturnInv DEF diskVars
<1>2. CASE pc[p] \in Locked
  <2>1. /\ pc' = [pc EXCEPT ![p] = "cleanup"] /\ stale' = stale
        /\ \/ stages' = stages
           \/ \E s \in StageNames :
                \E part \in PartsOf(stages[s]) \union {NoStage} :
                  stages' = [stages EXCEPT ![s] = part]
        /\ "cleanup" \in Unwinding \ (Owning \union Locked)
    BY <1>2 DEF StepFails, Locked, Unwinding, Owning
  <2>2. p \notin stale
    BY <1>2 DEF IInv, NamespaceIsKept
  <2>3. stages \in [StageNames -> Stages]
    BY DEF IInv, TypeOK
  <2>4. stages' \in [StageNames -> Stages]
    BY <2>1, <2>3, PartsAreStages
  <2>. QED BY <1>0, <1>2, <2>1, <2>2, <2>4, StepInv
<1>. QED BY <1>1, <1>2 DEF StepFails

(* The deferred removal of the stage, which may fail half-way.             *)
LEMMA CleanupStageInv ==
  ASSUME IInv, NEW p \in Processes, CleanupStage(p)
  PROVE  IInv'
<1>. USE DEF Goto
<1>0. stages \in [StageNames -> Stages] /\ mine[p] \in StageNames \union {"none"}
      /\ handle \in [Processes -> BOOLEAN]
  BY DEF IInv, TypeOK
<1>1. /\ pc[p] = "cleanup" /\ pc[p] \in Unwinding
      /\ pc' = [pc EXCEPT ![p] = "unlock"]
      /\ UNCHANGED <<namespace, lock, published, want, stale>>
      /\ mine' = [mine EXCEPT ![p] = "none"]
      /\ "unlock" \in Unwinding \ (Owning \union Locked)
  BY DEF CleanupStage, Locked, Unwinding, Owning
<1>2. handle' \in [Processes -> BOOLEAN]
  <2>1. handle' = handle \/ handle' = [handle EXCEPT ![p] = FALSE]
    BY DEF CleanupStage
  <2>. QED BY <1>0, <2>1
<1>3. p \notin stale
  BY <1>1 DEF IInv, NamespaceIsKept
<1>4. \/ stages' = [s \in StageNames |-> IF s = mine[p] THEN NoStage ELSE stages[s]]
      \/ mine[p] # "none" /\ \E part \in PartsOf(stages[mine[p]]) :
           stages' = [stages EXCEPT ![mine[p]] = part]
  BY <1>3 DEF CleanupStage, Owned
<1>5. stages' \in [StageNames -> Stages]
  <2>1. NoStage \in Stages
    BY DEF NoStage, Stages, Contents
  <2>. QED BY <1>0, <1>4, <2>1, PartsAreStages
<1>6. mine'[p] = "none"
  BY <1>1 DEF IInv, TypeOK
<1>. QED BY <1>1, <1>2, <1>3, <1>5, <1>6, StepInv

(* A call ends: its lock is free and it owns nothing.                      *)
LEMMA LeaveInv ==
  ASSUME IInv, NEW p \in Processes, pc[p] # "out",
         NEW to \in {"ready", "out"}, pc' = [pc EXCEPT ![p] = to],
         lock' = IF lock = p THEN "none" ELSE lock,
         mine' = [mine EXCEPT ![p] = "none"], stale' = stale \ {p},
         handle' \in [Processes -> BOOLEAN],
         UNCHANGED <<namespace, stages, published, want, unread>>
  PROVE  IInv'
<1>1. TypeOK'
  BY DEF IInv, TypeOK, PCs
<1>2. /\ pc'[p] = to /\ mine'[p] = "none"
      /\ \A q \in Processes \ {p} : /\ pc'[q] = pc[q] /\ mine'[q] = mine[q]
                                    /\ q \in stale' <=> q \in stale
  BY DEF IInv, TypeOK
<1>3. to \notin Inside \union Creating \union Owning \union {"validate"}
  BY DEF Inside, Locked, Unwinding, Creating, Owning
<1>4. WantOK' /\ PublishedOK'
  BY <1>2 DEF IInv, WantOK, PublishedOK
<1>5. LockOK'
  BY <1>2, <1>3, NamesAssumption DEF IInv, LockOK, Inside
<1>6. NamespaceOK'
  BY <1>2, <1>3 DEF IInv, NamespaceOK, Creating
<1>7. NamespaceIsKept'
  BY <1>2, <1>3 DEF IInv, NamespaceIsKept, Inside
<1>8. ASSUME NEW q \in Processes
      PROVE  (OwnerOf(q) /\ StageOf(q) /\ RecoveredBy(q))'
  <2>1. CASE q = p
    BY <1>2, <1>3, <2>1 DEF OwnerOf, StageOf, RecoveredBy, Inside
  <2>2. CASE q # p
    BY <1>2, <2>2, NamesAssumption DEF IInv, OwnerOf, StageOf, RecoveredBy
  <2>. QED BY <2>1, <2>2
<1>. QED BY <1>1, <1>4, <1>5, <1>6, <1>7, <1>8 DEF IInv

(* The lock file is closed.                                                *)
LEMMA CloseLockInv ==
  ASSUME IInv, NEW p \in Processes, CloseLock(p)
  PROVE  IInv'
<1>. USE DEF CloseLock, Goto
<1>1. pc[p] = "unlock" /\ lock = p <=> p \notin stale
  BY DEF IInv, LockOK, Unwinding
<1>2. mine' = [mine EXCEPT ![p] = "none"]
  <2>1. mine[p] = "none" /\ mine \in [Processes -> StageNames \union {"none"}]
    BY DEF IInv, OwnerOf, Owning, TypeOK
  <2>. QED BY <2>1
<1>3. handle' \in [Processes -> BOOLEAN]
  <2>1. handle \in [Processes -> BOOLEAN]
    BY DEF IInv, TypeOK
  <2>2. handle' = handle \/ handle' = [handle EXCEPT ![p] = FALSE]
    OBVIOUS
  <2>. QED BY <2>1, <2>2
<1>4. PICK to \in {"ready", "out"} : pc' = [pc EXCEPT ![p] = to]
  OBVIOUS
<1>5. lock' = IF lock = p THEN "none" ELSE lock
  BY <1>1
<1>. QED BY <1>2, <1>3, <1>4, <1>5, LeaveInv

(* A process dies: its flock is gone, its stage stays behind.              *)
LEMMA CrashInv ==
  ASSUME IInv, NEW p \in Processes, Crash(p)
  PROVE  IInv'
<1>. USE DEF Crash, Goto
<1>1. handle' \in [Processes -> BOOLEAN]
  BY DEF IInv, TypeOK
<1>. QED BY <1>1, LeaveInv

(* A half-failed removal makes no publication where there was none.        *)
LEMMA NothingLeft == PartsOfPublication(NoPublication) = {NoPublication}
BY DEF PartsOfPublication, NoPublication

(* initializeNamespace removes what it made, or fails to: as only the      *)
(* steps before the marker can fail, nobody is past validateNamespace and  *)
(* there is nothing in the namespace.                                      *)
LEMMA InitializeFailsInv ==
  ASSUME ~NamespaceSyncFails, IInv, NEW p \in Processes, InitializeFails(p)
  PROVE  IInv'
<1>. USE DEF Goto, diskVars
<1>0. /\ pc[p] \in Creating /\ pc[p] \notin Inside \union {"validate"}
      /\ pc[p] = "mark" /\ namespace = "bare"
      /\ pc' = [pc EXCEPT ![p] = "out"]
      /\ UNCHANGED <<want, mine, handle, unread>>
  BY DEF InitializeFails, Creating, Inside, Locked, Unwinding, IInv, NamespaceOK
<1>1. /\ \A q \in Processes : pc[q] \notin Inside /\ mine[q] = "none"
      /\ lock = "none"
  <2>1. \A q \in Processes : pc[q] \notin Inside
    BY <1>0 DEF IInv, NamespaceOK, NamespaceIsKept, Inside
  <2>. QED BY <2>1, NoStageOutside DEF IInv, LockOK, TypeOK, Inside
<1>2. /\ pc'[p] = "out"
      /\ \A q \in Processes \ {p} : pc'[q] = pc[q] /\ pc[q] \notin Creating
      /\ "out" \notin Inside \union Creating \union Owning \union {"validate"}
  BY <1>0 DEF IInv, TypeOK, NamespaceOK, Inside, Locked, Unwinding, Creating, Owning
<1>3. /\ namespace' \in {"absent", "bare"} /\ lock' = "none"
      /\ stages' \in [StageNames -> Stages]
      /\ published' = [b \in Bundles |-> NoPublication]
      /\ stale' \subseteq Processes
      /\ namespace' = "absent" =>
           \A q \in Processes : pc'[q] = "validate" => q \in stale'
  <2>1. CASE /\ namespace' = "absent"
             /\ lock' = "none"
             /\ stages' = [s \in StageNames |-> NoStage]
             /\ published' = [b \in Bundles |-> NoPublication]
             /\ stale' = stale \union {q \in Processes \ {p} :
                           pc[q] \in {"validate", "lock"} \union Locked \union Unwinding}
    BY <1>2, <2>1 DEF IInv, TypeOK, NoStage, Stages, Contents
  <2>2. CASE /\ namespace' = "bare"
             /\ stages' = [s \in StageNames |-> stages'[s]]
             /\ \A s \in StageNames : stages'[s] \in PartsOf(stages[s]) \union {NoStage}
             /\ published' = [b \in Bundles |-> published'[b]]
             /\ \A b \in Bundles : published'[b] \in PartsOfPublication(published[b])
             /\ UNCHANGED <<lock, stale>>
    <3>1. \A s \in StageNames : stages'[s] \in Stages
      BY <2>2, PartsAreStages DEF IInv, TypeOK
    <3>2. \A b \in Bundles : published[b] = NoPublication
      BY <1>0 DEF IInv, NamespaceOK
    <3>3. \A b \in Bundles : published'[b] = NoPublication
      BY <2>2, <3>2, NothingLeft
    <3>. QED BY <1>1, <2>2, <3>1, <3>3 DEF IInv, TypeOK
  <2>. QED BY <1>0, <2>1, <2>2 DEF InitializeFails
<1>4. TypeOK'
  BY <1>0, <1>3 DEF IInv, TypeOK, NoPublication, Namespaces, Publications, Contents, PCs
<1>5. WantOK' /\ PublishedOK'
  BY <1>0, <1>2, <1>3 DEF IInv, WantOK, PublishedOK, NoPublication
<1>6. LockOK' /\ NamespaceIsKept'
  BY <1>1, <1>2, <1>3, NamesAssumption DEF LockOK, NamespaceIsKept, Inside
<1>7. NamespaceOK'
  BY <1>1, <1>2, <1>3 DEF NamespaceOK, Creating, NoPublication
<1>8. ASSUME NEW q \in Processes
      PROVE  (OwnerOf(q) /\ StageOf(q) /\ RecoveredBy(q))'
  <2>1. mine'[q] = "none" /\ pc'[q] \notin Owning
    BY <1>0, <1>1, <1>2 DEF Inside, Locked, Owning
  <2>. QED BY <1>3, <2>1, NamesAssumption DEF OwnerOf, StageOf, RecoveredBy
<1>. QED BY <1>4, <1>5, <1>6, <1>7, <1>8 DEF IInv

(* A power loss may take a publication, but leaves none of it or all.      *)
LEMMA PowerLossInv ==
  ASSUME IInv, PowerLoss
  PROVE  IInv'
<1>0. /\ pc' = [p \in Processes |-> "out"] /\ lock' = "none" /\ stale' = {}
      /\ mine' = [p \in Processes |-> "none"]
      /\ handle' = [p \in Processes |-> FALSE] /\ want' = want
  BY DEF PowerLoss
<1>1. /\ namespace' \in Namespaces
      /\ namespace' \in {"absent", "bare"} \/ namespace' = namespace
  BY DEF PowerLoss, NamespaceAfterPowerLoss, IInv, TypeOK, Namespaces
<1>2. ASSUME NEW s \in StageNames
      PROVE  stages'[s] \in Stages
  <2>1. stages'[s] \in StageAfterPowerLoss(stages[s]) \union {NoStage}
    BY DEF PowerLoss
  <2>2. stages[s] \in Stages
    BY DEF IInv, TypeOK
  <2>3. stages'[s] \in PartsOf(stages[s]) \union {NoStage} \/ stages'[s] = stages[s]
    BY <2>1 DEF StageAfterPowerLoss
  <2>. QED BY <2>2, <2>3, PartsAreStages
<1>3. ASSUME NEW b \in Bundles
      PROVE  /\ published'[b] \in {NoPublication, published[b]}
             /\ published'[b] \in Publications
             /\ namespace' \in {"absent", "bare"} => published'[b] = NoPublication
  <2>1. /\ published'[b] \in PublicationAfterPowerLoss(published[b]) \union {NoPublication}
        /\ namespace' \in {"absent", "bare"} => published'[b] = NoPublication
    <3>1. CASE namespace' # namespace
      BY <3>1 DEF PowerLoss
    <3>2. CASE namespace' = namespace
      <4>1. published'[b] \in PublicationAfterPowerLoss(published[b])
        BY <3>2 DEF PowerLoss
      <4>2. namespace' \in {"absent", "bare"} => published[b] = NoPublication
        BY <3>2 DEF IInv, NamespaceOK
      <4>3. PublicationAfterPowerLoss(NoPublication) = {NoPublication}
        BY DEF PublicationAfterPowerLoss, NoPublication
      <4>. QED BY <4>1, <4>2, <4>3
    <3>. QED BY <3>1, <3>2
  <2>2. published[b].durable \/ published[b].content = "none"
    BY DEF IInv, PublishedOK
  <2>3. published'[b] \in {NoPublication, published[b]}
    BY <2>1, <2>2 DEF PublicationAfterPowerLoss
  <2>4. NoPublication \in Publications /\ published[b] \in Publications
    BY DEF NoPublication, Publications, Contents, IInv, TypeOK
  <2>. QED BY <2>1, <2>3, <2>4
<1>4. TypeOK'
  <2>1. stages' \in [StageNames -> Stages]
    <3>1. stages' = [s \in StageNames |-> stages'[s]]
      BY DEF PowerLoss
    <3>. QED BY <1>2, <3>1
  <2>2. published' \in [Bundles -> Publications]
    <3>1. published' = [b \in Bundles |-> published'[b]]
      BY DEF PowerLoss
    <3>. QED BY <1>3, <3>1
  <2>. QED BY <1>0, <1>1, <2>1, <2>2 DEF IInv, TypeOK, PCs
<1>5. "out" \notin Inside \union Creating \union Owning \union {"validate"}
  BY DEF Inside, Locked, Unwinding, Creating, Owning
<1>6. WantOK' /\ LockOK' /\ NamespaceIsKept'
  BY <1>0, <1>5, NamesAssumption DEF WantOK, LockOK, NamespaceIsKept, Inside
<1>7. PublishedOK'
  BY <1>3 DEF IInv, PublishedOK, NoPublication
<1>8. NamespaceOK'
  BY <1>0, <1>3, <1>5 DEF NamespaceOK, Creating, NoPublication
<1>9. ASSUME NEW p \in Processes
      PROVE  (OwnerOf(p) /\ StageOf(p) /\ RecoveredBy(p))'
  BY <1>0, <1>5, NamesAssumption DEF OwnerOf, StageOf, RecoveredBy
<1>. QED BY <1>4, <1>6, <1>7, <1>8, <1>9 DEF IInv
-----------------------------------------------------------------------------
(* Every step keeps the invariant.                                         *)
LEMMA NextInv ==
  ASSUME ~NamespaceSyncFails, IInv, [Next]_vars
  PROVE  IInv'
<1>1. CASE UNCHANGED vars
  <2>. USE <1>1 DEF vars, diskVars, callVars
  <2>1. TypeOK' /\ WantOK' /\ LockOK' /\ PublishedOK' /\ NamespaceIsKept'
    BY DEF IInv, TypeOK, WantOK, LockOK, PublishedOK, NamespaceIsKept
  <2>2. NamespaceOK'
    BY DEF IInv, NamespaceOK
  <2>3. ASSUME NEW p \in Processes
        PROVE  (OwnerOf(p) /\ StageOf(p) /\ RecoveredBy(p))'
    BY DEF IInv, OwnerOf, StageOf, RecoveredBy
  <2>. QED BY <2>1, <2>2, <2>3 DEF IInv
<1>2. ASSUME NEW p \in Processes, Progress(p)
      PROVE  IInv'
  BY <1>2, EnsureNamespaceInv, AcquireInv, RecoverInv, CreateStageInv, FillStageInv,
     PublishInv, RemovePublishedStageInv, OpenInv, CleanupStageInv, CloseLockInv
     DEF Progress
<1>3. ASSUME NEW p \in Processes, Disturbance(p)
      PROVE  IInv'
  BY <1>3, InitializeFailsInv, FillStageInv, StepFailsInv, CrashInv DEF Disturbance
<1>. QED BY <1>1, <1>2, <1>3, EnsureNamespaceInv, PowerLossInv DEF Next

(* IInv is an invariant of every behaviour of any number of calls, with    *)
(* any failures, crashes and power losses between their steps, but for a   *)
(* failing last sync of initializeNamespace.                               *)
THEOREM Invariance == ~NamespaceSyncFails => (Spec => []IInv)
<1>. SUFFICES ASSUME ~NamespaceSyncFails
              PROVE  Spec => []IInv
  OBVIOUS
<1>1. Init => IInv
  BY InitInv
<1>2. IInv /\ [Next]_vars => IInv'
  BY NextInv
<1>. QED BY <1>1, <1>2, PTL DEF Spec

(* materialize publishes by the rename of a stage that it has filled,      *)
(* synchronised and verified under the lock: whoever looks finds the       *)
(* complete bundle or nothing, whatever failed and after any power loss.   *)
(* A failing last sync of initializeNamespace is excluded: the RemoveAll   *)
(* that follows may remove part of a publication.                          *)
THEOREM CompletePublication == ~NamespaceSyncFails => (Spec => []PublicationIsComplete)
<1>. SUFFICES ASSUME ~NamespaceSyncFails
              PROVE  Spec => []PublicationIsComplete
  OBVIOUS
<1>1. IInv => PublicationIsComplete
  BY DEF IInv, PublishedOK, PublicationIsComplete, NoPublication
<1>. QED BY <1>1, Invariance, PTL

(* recoverStages never takes the stage of a live call for an abandoned     *)
(* one: a call that fills a stage holds the lock until it has let it go.   *)
(* A failing last sync of initializeNamespace is excluded: the RemoveAll   *)
(* that follows may remove the stage of a live call.                       *)
THEOREM StageOwnership == ~NamespaceSyncFails => (Spec => []StageBelongsToItsCall)
<1>. SUFFICES ASSUME ~NamespaceSyncFails
              PROVE  Spec => []StageBelongsToItsCall
  OBVIOUS
<1>1. IInv => StageBelongsToItsCall
  <2>. SUFFICES ASSUME IInv, NEW p \in Processes,
                       mine[p] # "none", pc[p] # "cleanup"
                PROVE  /\ lock = p
                       /\ p \notin stale /\ StageOf(p)
    BY DEF StageBelongsToItsCall, StageOf
  <2>1. pc[p] \in Locked
    BY DEF IInv, OwnerOf, Owning, Locked
  <2>2. p \notin stale
    BY <2>1 DEF IInv, NamespaceIsKept
  <2>. QED BY <2>1, <2>2, HolderFacts DEF IInv
<1>. QED BY <1>1, Invariance, PTL

(* Every call that has the lock removes, before it makes a stage, what     *)
(* others have abandoned, but for the stages recoverStages could not open  *)
(* or read: a marked stage that is left is its own or one of those.        *)
THEOREM CompleteRecovery == ~NamespaceSyncFails => (Spec => []RecoveryIsComplete)
<1>. SUFFICES ASSUME ~NamespaceSyncFails
              PROVE  Spec => []RecoveryIsComplete
  OBVIOUS
<1>1. IInv => RecoveryIsComplete
  BY DEF IInv, RecoveredBy, RecoveryIsComplete
<1>. QED BY <1>1, Invariance, PTL

(* initializeNamespace writes the marker after all that can fail but its   *)
(* last sync: when that does not fail, no call that is past                *)
(* validateNamespace loses the directory it works in.                      *)
THEOREM KeptNamespace == ~NamespaceSyncFails => (Spec => []NamespaceIsKept)
<1>. SUFFICES ASSUME ~NamespaceSyncFails
              PROVE  Spec => []NamespaceIsKept
  OBVIOUS
<1>1. IInv => NamespaceIsKept
  BY DEF IInv, NamespaceIsKept
<1>. QED BY <1>1, Invariance, PTL

(* "Published bundles are immutable and retained": unless that last sync   *)
(* fails, no step of any call and no crash removes or changes one.         *)
THEOREM KeptPublications == ~NamespaceSyncFails => (Spec => PublicationIsKept)
<1>. SUFFICES ASSUME ~NamespaceSyncFails
              PROVE  Spec => PublicationIsKept
  OBVIOUS
<1>1. ASSUME IInv, Next, NEW b \in Bundles, published[b].content # "none", ~PowerLoss
      PROVE  published'[b].content = published[b].content
  <2>1. CASE published' = published
    BY <2>1
  <2>2. ASSUME NEW p \in Processes, InitializeFails(p)
        PROVE  published' = published
    <3>1. pc[p] = "mark"
      BY <2>2 DEF InitializeFails
    <3>2. published[b].content = "none"
      BY <1>1, <3>1 DEF IInv, NamespaceOK, NoPublication
    <3>. QED BY <1>1, <3>2
  <2>3. ASSUME NEW p \in Processes, renameNoReplace(p)
        PROVE  published'[b].content = published[b].content
    <3>1. published' = published \/ (published[want[p]].content = "none"
                                     /\ \E x : published' = [published EXCEPT ![want[p]] = x])
      BY <2>3 DEF renameNoReplace
    <3>. QED BY <1>1, <3>1 DEF IInv, TypeOK
  <2>4. ASSUME NEW p \in Processes, SyncPublication(p)
        PROVE  published'[b].content = published[b].content
    <3>1. published' = [published EXCEPT ![want[p]].kept = TRUE]
      BY <2>4 DEF SyncPublication
    <3>. QED BY <1>1, <3>1 DEF IInv, TypeOK, Publications
  <2>5. ASSUME NEW p \in Processes,
               Materialize(p) \/ Progress(p) \/ CloseBundle(p) \/ Disturbance(p),
               ~InitializeFails(p), ~renameNoReplace(p), ~SyncPublication(p)
        PROVE  published' = published
    <3>. USE DEF diskVars, Step
    <3>1. CASE Materialize(p) \/ CloseBundle(p)
      BY <3>1 DEF Materialize, CloseBundle
    <3>2. CASE Disturbance(p)
      BY <2>5, <3>2 DEF Disturbance, SourceChanged, StepFails, Crash
    <3>3. CASE Progress(p)
      BY <2>5, <3>3 DEF Progress, ensureNamespace, validateNamespace, CreateNamespace,
         writeNamespaceMarker, SyncNamespace, acquireAdvisoryLock, recoverStages,
         rootEntryExists, CreateStage, WriteStageMarker, StageStarts, StageEnds,
         syncTree, VerifyStage, RemovePublishedStage, OpenPublication, CleanupStage,
         CloseLock
    <3>. QED BY <2>5, <3>1, <3>2, <3>3
  <2>. QED BY <1>1, <2>1, <2>2, <2>3, <2>4, <2>5 DEF Next
<1>2. IInv /\ [Next]_vars =>
        [\A b \in Bundles :
           published[b].content = "none" \/ published'[b].content = published[b].content
             \/ PowerLoss]_vars
  BY <1>1
<1>. QED BY <1>2, Invariance, PTL DEF Spec, PublicationIsKept
=============================================================================
