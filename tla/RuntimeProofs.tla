---------------------------- MODULE RuntimeProofs ----------------------------
(***************************************************************************)
(* Proofs about module Runtime, for every set of libraries, Runtimes and   *)
(* goroutines: an inductive invariant and the safety properties that       *)
(* follow from it. None of the sets is assumed finite: that only finitely  *)
(* many leases and opens exist at a time is part of the invariant.         *)
(***************************************************************************)
EXTENDS Runtime, FiniteSetTheorems, TLAPS

(***************************************************************************)
(* The coordinator by itself.                                              *)
(***************************************************************************)
Coordinators == [ort : Keys \union {"none"}, orphaned : BOOLEAN,
                 key : Keys \union {"none"}, leases : Nat,
                 cleanupPending : BOOLEAN]

(* What acquire and close of a lease keep true of it: an environment that  *)
(* is leased, or waits for its destruction, is the one the key names, and  *)
(* every other one that exists is orphaned.                                *)
CoordinatorOK(c) ==
  /\ c.leases > 0 => c.ort = c.key /\ c.ort # "none"
  /\ c.cleanupPending => c.ort = c.key /\ c.ort # "none" /\ c.leases <= 1
  /\ c.orphaned => c.ort # "none"
  /\ c.ort # "none" => (c.orphaned <=> c.leases = 0 /\ ~c.cleanupPending)

(* What an acquire that succeeds leaves behind: one more lease, of the     *)
(* library it asked for, with no cleanup pending.                          *)
Acquired(c, key, d) ==
  /\ d.ort = key /\ d.key = key /\ d.leases = c.leases + 1
  /\ ~d.cleanupPending /\ ~d.orphaned
  /\ c.leases > 0 => c.key = key

(* An acquire that fails leaves the leases, and a leased environment,      *)
(* exactly as they were.                                                   *)
NotAcquired(c, d) ==
  d.leases = c.leases /\ (c.leases > 0 => d = c)

AcquireResult(c, key, o) ==
  /\ o.c \in Coordinators /\ CoordinatorOK(o.c)
  /\ \/ o.ok = TRUE /\ Acquired(c, key, o.c)
     \/ o.ok = FALSE /\ NotAcquired(c, o.c)

(* An acquire with no cleanup pending yields a lease of the library it     *)
(* asks for or changes no lease, and keeps the coordinator consistent.     *)
LEMMA AcquireCleanOutcomes ==
  ASSUME NEW c \in Coordinators, CoordinatorOK(c), NEW key \in Keys,
         ~c.cleanupPending, NEW o \in acquireClean(c, key)
  PROVE  AcquireResult(c, key, o)
<1>0. key # "none" /\ key \in Keys \union {"none"}
  BY KeysAssumption
<1>1. CASE c.leases > 0
  <2>1. CASE c.key # key
    <3>1. o.ok = FALSE /\ o.c = c
      BY <1>1, <2>1 DEF acquireClean, Outcome
    <3> QED BY <3>1 DEF AcquireResult, NotAcquired
  <2>2. CASE c.key = key
    <3>1. o.ok = TRUE /\ o.c = [c EXCEPT !.leases = @ + 1]
      BY <1>1, <2>2 DEF acquireClean, Outcome
    <3>2. /\ o.c \in Coordinators /\ o.c.leases = c.leases + 1
          /\ o.c.ort = c.ort /\ o.c.key = c.key /\ o.c.orphaned = c.orphaned
          /\ o.c.cleanupPending = c.cleanupPending
      BY <3>1 DEF Coordinators
    <3>3. c.leases \in Nat
      BY DEF Coordinators
    <3>4. CoordinatorOK(o.c) /\ Acquired(c, key, o.c)
      BY <1>1, <2>2, <3>2, <3>3 DEF CoordinatorOK, Acquired
    <3> QED BY <3>1, <3>2, <3>4 DEF AcquireResult
  <2> QED BY <2>1, <2>2
<1>2. CASE ~(c.leases > 0)
  <2>0. c.leases = 0
    BY <1>2 DEF Coordinators
  <2>1. PICK i \in Initialize(c, key) :
          o \in IF i.ok THEN validateVersion(i.c, key) ELSE {i}
    BY <1>2 DEF acquireClean
  <2>2. \/ i.ok = FALSE /\ i.c = c
        \/ /\ c.ort = "none" /\ i.ok = TRUE /\ i.c = [c EXCEPT !.ort = key]
        \/ /\ c.ort = "none" /\ i.ok = FALSE
           /\ i.c = [c EXCEPT !.ort = key, !.orphaned = TRUE]
    BY <2>1 DEF Initialize, Outcome
  <2>3. CASE i.ok = FALSE /\ i.c = c
    <3>1. o = i
      BY <2>1, <2>3
    <3> QED BY <2>3, <3>1, <2>0 DEF AcquireResult, NotAcquired
  <2>4. CASE /\ c.ort = "none" /\ i.ok = FALSE
             /\ i.c = [c EXCEPT !.ort = key, !.orphaned = TRUE]
    <3>1. o = i
      BY <2>1, <2>4
    <3>2. /\ o.c \in Coordinators /\ o.c.leases = 0 /\ o.c.ort = key
          /\ o.c.orphaned = TRUE /\ o.c.cleanupPending = c.cleanupPending
      BY <2>4, <3>1, <2>0, <1>0 DEF Coordinators
    <3>3. CoordinatorOK(o.c) /\ NotAcquired(c, o.c)
      BY <3>2, <2>0, <1>0 DEF CoordinatorOK, NotAcquired
    <3> QED BY <2>4, <3>1, <3>2, <3>3 DEF AcquireResult
  <2>5. CASE c.ort = "none" /\ i.ok = TRUE /\ i.c = [c EXCEPT !.ort = key]
    <3>0. ~c.orphaned
      BY <2>5 DEF CoordinatorOK
    <3>1. /\ i.c \in Coordinators /\ i.c.ort = key /\ i.c.leases = 0
          /\ ~i.c.orphaned /\ ~i.c.cleanupPending
      BY <2>5, <2>0, <1>0, <3>0 DEF Coordinators
    <3>2. o \in validateVersion(i.c, key)
      BY <2>1, <2>5
    <3>3. CASE key \notin WrongVersion
      <4>1. o.ok = TRUE /\ o.c = [i.c EXCEPT !.key = key, !.leases = 1]
        BY <3>2, <3>3 DEF validateVersion, Outcome
      <4>2. /\ o.c \in Coordinators /\ o.c.leases = 1 /\ o.c.ort = i.c.ort
            /\ o.c.key = key /\ o.c.orphaned = i.c.orphaned
            /\ o.c.cleanupPending = i.c.cleanupPending
        <5>1. i.c \in Coordinators
          BY <3>1
        <5> DEFINE e == [i.c EXCEPT !.key = key]
        <5>2. /\ e \in Coordinators /\ e.key = key /\ e.ort = i.c.ort
              /\ e.orphaned = i.c.orphaned /\ e.cleanupPending = i.c.cleanupPending
          BY <5>1, <1>0 DEF Coordinators
        <5>3. o.c = [e EXCEPT !.leases = 1]
          BY <4>1, <5>1 DEF Coordinators
        <5> HIDE DEF e
        <5> QED BY <5>2, <5>3 DEF Coordinators
      <4>3. CoordinatorOK(o.c) /\ Acquired(c, key, o.c)
        BY <4>2, <3>1, <2>0, <1>0 DEF CoordinatorOK, Acquired
      <4> QED BY <4>1, <4>2, <4>3 DEF AcquireResult
    <3>4. CASE key \in WrongVersion
      <4>1. PICK d \in Destroy(i.c) :
              o = Outcome(FALSE, IF d.ok THEN d.c
                     ELSE [d.c EXCEPT !.key = key, !.cleanupPending = TRUE])
        BY <3>2, <3>4 DEF validateVersion
      <4>2. \/ d.ok = TRUE /\ d.c = [i.c EXCEPT !.ort = "none"]
            \/ d.ok = FALSE /\ d.c = i.c
        BY <4>1 DEF Destroy, Outcome
      <4>3. /\ o.ok = FALSE
            /\ \/ o.c = [i.c EXCEPT !.ort = "none"]
               \/ o.c = [i.c EXCEPT !.key = key, !.cleanupPending = TRUE]
        BY <4>1, <4>2 DEF Outcome
      <4>4. CASE o.c = [i.c EXCEPT !.ort = "none"]
        <5>1. /\ o.c \in Coordinators /\ o.c.leases = 0 /\ o.c.ort = "none"
              /\ ~o.c.orphaned /\ ~o.c.cleanupPending
          BY <4>4, <3>1 DEF Coordinators
        <5>2. CoordinatorOK(o.c) /\ NotAcquired(c, o.c)
          BY <5>1, <2>0 DEF CoordinatorOK, NotAcquired
        <5> QED BY <4>3, <5>1, <5>2 DEF AcquireResult
      <4>5. CASE o.c = [i.c EXCEPT !.key = key, !.cleanupPending = TRUE]
        <5>1. /\ o.c \in Coordinators /\ o.c.leases = 0 /\ o.c.ort = key
              /\ o.c.key = key /\ ~o.c.orphaned /\ o.c.cleanupPending
          BY <4>5, <3>1, <1>0 DEF Coordinators
        <5>2. CoordinatorOK(o.c) /\ NotAcquired(c, o.c)
          BY <5>1, <2>0, <1>0 DEF CoordinatorOK, NotAcquired
        <5> QED BY <4>3, <5>1, <5>2 DEF AcquireResult
      <4> QED BY <4>3, <4>4, <4>5
    <3> QED BY <3>3, <3>4
  <2> QED BY <2>2, <2>3, <2>4, <2>5
<1> QED BY <1>1, <1>2

(* Likewise when the cleanup an earlier call left has to be retried first. *)
LEMMA AcquireOutcomes ==
  ASSUME NEW c \in Coordinators, CoordinatorOK(c), NEW key \in Keys,
         NEW o \in acquire(c, key)
  PROVE  AcquireResult(c, key, o)
<1>1. CASE ~c.cleanupPending
  BY <1>1, AcquireCleanOutcomes DEF acquire
<1>2. CASE c.cleanupPending /\ c.leases > 0
  <2>1. o.ok = FALSE /\ o.c = c
    BY <1>2 DEF acquire, Outcome
  <2> QED BY <2>1 DEF AcquireResult, NotAcquired
<1>3. CASE c.cleanupPending /\ ~(c.leases > 0)
  <2>0. c.leases = 0
    BY <1>3 DEF Coordinators
  <2>1. PICK d \in retryCleanup(c) :
          o \in IF d.ok THEN acquireClean(d.c, key) ELSE {d}
    BY <1>3 DEF acquire
  <2>2. PICK e \in Destroy(c) :
          d = Outcome(e.ok, IF e.ok THEN [e.c EXCEPT !.key = "none",
                                                     !.cleanupPending = FALSE]
                            ELSE e.c)
    BY <2>1 DEF retryCleanup
  <2>3. \/ e.ok = TRUE /\ e.c = [c EXCEPT !.ort = "none"]
        \/ e.ok = FALSE /\ e.c = c
    BY <2>2 DEF Destroy, Outcome
  <2>4. CASE e.ok = FALSE /\ e.c = c
    <3>1. d.ok = FALSE /\ d.c = c
      BY <2>2, <2>4 DEF Outcome
    <3>2. o = d
      BY <2>1, <3>1
    <3> QED BY <3>1, <3>2 DEF AcquireResult, NotAcquired
  <2>5. CASE e.ok = TRUE /\ e.c = [c EXCEPT !.ort = "none"]
    <3>1. d.ok = TRUE /\ d.c = [e.c EXCEPT !.key = "none", !.cleanupPending = FALSE]
      BY <2>2, <2>5 DEF Outcome
    <3>2. e.c \in Coordinators /\ e.c.leases = 0 /\ e.c.ort = "none"
          /\ e.c.orphaned = c.orphaned
      BY <2>5, <2>0 DEF Coordinators
    <3>3. /\ d.c \in Coordinators /\ d.c.leases = 0 /\ d.c.ort = "none"
          /\ d.c.orphaned = c.orphaned /\ ~d.c.cleanupPending
      BY <3>1, <3>2 DEF Coordinators
    <3>4. ~c.orphaned
      BY <1>3, <2>0 DEF CoordinatorOK
    <3>5. CoordinatorOK(d.c)
      BY <3>3, <3>4 DEF CoordinatorOK
    <3>6. AcquireResult(d.c, key, o)
      BY <2>1, <3>1, <3>3, <3>5, AcquireCleanOutcomes
    <3> QED BY <3>3, <3>6, <2>0 DEF AcquireResult, Acquired, NotAcquired
  <2> QED BY <2>3, <2>4, <2>5
<1> QED BY <1>1, <1>2, <1>3

(* What closing one of c's leases leaves: one lease less; or, for the      *)
(* last one, no environment; or, when it could not be destroyed, the       *)
(* lease and a cleanup to be retried.                                      *)
CloseResult(c, o) ==
  /\ o.c \in Coordinators /\ CoordinatorOK(o.c)
  /\ \/ /\ o.ok = TRUE /\ c.leases > 1 /\ o.c.leases = c.leases - 1
        /\ o.c.key = c.key /\ o.c.ort = c.ort /\ ~o.c.cleanupPending
     \/ /\ o.ok = TRUE /\ c.leases = 1 /\ o.c = NoEnvironment
     \/ /\ o.ok = FALSE /\ c.leases = 1 /\ o.c.leases = 1
        /\ o.c.key = c.key /\ o.c.ort = c.ort

(* lease.close destroys the environment with the last lease, and only then.*)
LEMMA CloseLeaseOutcomes ==
  ASSUME NEW c \in Coordinators, CoordinatorOK(c), c.leases > 0,
         NEW o \in closeLease(c)
  PROVE  CloseResult(c, o)
<1>0. c.leases \in Nat
  BY DEF Coordinators
<1>1. CASE c.leases > 1
  <2>1. o.ok = TRUE /\ o.c = [c EXCEPT !.leases = @ - 1]
    BY <1>0, <1>1 DEF closeLease, Outcome
  <2>2. /\ o.c \in Coordinators /\ o.c.leases = c.leases - 1
        /\ o.c.ort = c.ort /\ o.c.key = c.key /\ o.c.orphaned = c.orphaned
        /\ o.c.cleanupPending = c.cleanupPending
    BY <1>1, <2>1 DEF Coordinators
  <2>3. ~c.cleanupPending /\ ~c.orphaned /\ c.ort = c.key /\ c.ort # "none"
    BY <1>0, <1>1 DEF CoordinatorOK
  <2>4. CoordinatorOK(o.c)
    BY <1>0, <1>1, <2>2, <2>3 DEF CoordinatorOK
  <2> QED BY <1>1, <2>1, <2>2, <2>3, <2>4 DEF CloseResult
<1>2. CASE ~(c.leases > 1)
  <2>0. c.leases = 1
    BY <1>0, <1>2
  <2>1. PICK d \in Destroy(c) :
          o = IF d.ok THEN Outcome(TRUE, NoEnvironment)
              ELSE Outcome(FALSE, [d.c EXCEPT !.cleanupPending = TRUE])
    <3>1. o \in {IF d.ok THEN Outcome(TRUE, NoEnvironment)
                 ELSE Outcome(FALSE, [d.c EXCEPT !.cleanupPending = TRUE])
                   : d \in Destroy(c)}
      <4>1. ~(c.leases <= 0) /\ ~(c.leases > 1)
        BY <2>0
      <4> QED BY <4>1, Zenon DEF closeLease
    <3> QED BY <3>1
  <2>2. \/ d.ok = TRUE
        \/ d.ok = FALSE /\ d.c = c
    BY <2>1 DEF Destroy, Outcome
  <2>3. CASE d.ok = TRUE
    <3>1. o.ok = TRUE /\ o.c = NoEnvironment
      BY <2>1, <2>3 DEF Outcome
    <3>2. o.c \in Coordinators /\ CoordinatorOK(o.c)
      BY <3>1 DEF NoEnvironment, Coordinators, CoordinatorOK
    <3> QED BY <2>0, <3>1, <3>2 DEF CloseResult
  <2>4. CASE d.ok = FALSE /\ d.c = c
    <3>1. o.ok = FALSE /\ o.c = [c EXCEPT !.cleanupPending = TRUE]
      BY <2>1, <2>4 DEF Outcome
    <3>2. /\ o.c \in Coordinators /\ o.c.leases = c.leases
          /\ o.c.ort = c.ort /\ o.c.key = c.key /\ o.c.orphaned = c.orphaned
          /\ o.c.cleanupPending = TRUE
      BY <3>1 DEF Coordinators
    <3>3. CoordinatorOK(o.c)
      BY <2>0, <3>2 DEF CoordinatorOK
    <3> QED BY <2>0, <3>1, <3>2, <3>3 DEF CloseResult
  <2> QED BY <2>2, <2>3, <2>4
<1> QED BY <1>1, <1>2
-----------------------------------------------------------------------------
(***************************************************************************)
(* The inductive invariant.                                                *)
(***************************************************************************)
TypeOK ==
  /\ coordinator \in Coordinators
  /\ lease \in [Runtimes -> Keys \union {"none"}]
  /\ state \in [Runtimes -> {"absent", "Open", "Closing", "Closed"}]
  /\ models \in [Runtimes -> SUBSET Openers]
  /\ opening \in [Runtimes -> Nat]
  /\ closeInProgress \in [Runtimes -> BOOLEAN]
  /\ open \in [Openers -> {"out", "open", "opened", "failed", "live",
                           "dropped", "unregister"}]
  /\ openOf \in [Openers -> Runtimes \union {"none"}]
  /\ close \in [Closers -> {"out", "enter", "doneWait", "engine", "finishNil",
                            "finishError"}]
  /\ closeOf \in [Closers -> Runtimes \union {"none"}]
  /\ doneClosed \in [Closers -> BOOLEAN]

(* A goroutine has a Runtime exactly while it is in one of its calls, or   *)
(* holds a model of it; the one a Close works on exists.                   *)
Attached ==
  /\ \A g \in Openers : openOf[g] = "none" <=> open[g] = "out"
  /\ \A k \in Closers : closeOf[k] = "none" <=> close[k] = "out"
  /\ \A k \in Closers : close[k] # "out" => state[closeOf[k]] # "absent"

(* The models a Runtime knows are the ones that are open.                  *)
ModelsAreOpen ==
  \A r \in Runtimes :
    models[r] = {g \in Openers : openOf[g] = r /\ open[g] \in {"live", "unregister"}}

(* closeInProgress is the flag of the one Close that cleans up, of a       *)
(* Runtime that is Closing; the lease is gone once that has succeeded.     *)
CleanupFlag ==
  /\ \A r \in Runtimes :
       closeInProgress[r] <=> \E k \in Closers : Cleaning(k) /\ closeOf[k] = r
  /\ \A k \in Closers : Cleaning(k) => state[closeOf[k]] = "Closing"
  /\ \A k \in Closers : close[k] = "finishNil" => lease[closeOf[k]] = "none"
  /\ \A r \in Runtimes : state[r] = "absent" => lease[r] = "none"

(* Finitely many leases and opens exist at a time.                         *)
Finiteness ==
  IsFiniteSet(Leased) /\ \A r \in Runtimes : IsFiniteSet(OpensOf(r))

(* A pending cleanup that still has its lease belongs to a Runtime that    *)
(* is closing.                                                             *)
PendingIsClosing ==
  coordinator.cleanupPending /\ coordinator.leases > 0 =>
    \E r \in Runtimes : lease[r] # "none" /\ state[r] = "Closing"

IInv ==
  /\ TypeOK /\ Attached /\ ModelsAreOpen /\ Finiteness
  /\ CoordinatorOK(coordinator) /\ LeasesAreCounted /\ PendingIsClosing
  /\ NoModelInStoppedRuntime
  /\ CleanupFlag /\ CleanupIsExclusive

(* The process starts with the invariant.                                  *)
LEMMA InitInv == Init => IInv
<1> SUFFICES ASSUME Init PROVE IInv
  OBVIOUS
<1> USE DEF Init
<1>1. TypeOK
  <2>1. coordinator \in Coordinators
    BY DEF NoEnvironment, Coordinators
  <2> QED BY <2>1 DEF TypeOK
<1>2. Attached /\ ModelsAreOpen /\ CleanupFlag
  BY RuntimesAssumption DEF Attached, ModelsAreOpen, CleanupFlag, Cleaning
<1>3. Leased = {} /\ \A r \in Runtimes : OpensOf(r) = {}
  BY DEF Leased, OpensOf
<1>4. Finiteness
  BY <1>3, FS_EmptySet DEF Finiteness
<1>5. CoordinatorOK(coordinator) /\ PendingIsClosing
  BY DEF NoEnvironment, CoordinatorOK, PendingIsClosing
<1>6. LeasesAreCounted
  <2>1. coordinator.leases = 0
    BY DEF NoEnvironment
  <2> QED BY <1>3, <2>1, FS_EmptySet DEF LeasesAreCounted
<1>7. NoModelInStoppedRuntime
  <2>1. \A r \in Runtimes : opening[r] = Cardinality(OpensOf(r))
    BY <1>3, FS_EmptySet
  <2> QED BY <2>1, RuntimesAssumption DEF NoModelInStoppedRuntime
<1>8. CleanupIsExclusive
  BY DEF CleanupIsExclusive, Cleaning
<1> QED BY <1>1, <1>2, <1>4, <1>5, <1>6, <1>7, <1>8 DEF IInv

(* Every step of a goroutine that opens, uses and closes a model keeps the *)
(* invariant: it touches neither the lease nor the Close of any Runtime.   *)
LEMMA OpenerInv ==
  ASSUME IInv, NEW g \in Openers,
         OpenerStep(g) \/ BeginOpen(g) \/ ModelEngineClosed(g)
  PROVE  IInv'
<1>0. TypeOK /\ Attached /\ ModelsAreOpen /\ Finiteness /\ NoModelInStoppedRuntime
  BY DEF IInv
<1> USE DEF GoOpen, LeaveRuntime
<1>1. UNCHANGED <<coordinator, lease, state, closeInProgress, close, closeOf,
                  doneClosed>>
  BY DEF OpenerStep, BeginOpen, EngineOpen, FinishOpen, ModelEngineClosed,
     unregister, runtimeVars, closerVars
<1>2. /\ CoordinatorOK(coordinator)' /\ LeasesAreCounted' /\ PendingIsClosing'
      /\ CleanupFlag' /\ CleanupIsExclusive' /\ Leased' = Leased
  BY <1>1 DEF IInv, LeasesAreCounted, PendingIsClosing, CleanupFlag,
     CleanupIsExclusive, Cleaning, Leased
<1>3. SUFFICES /\ TypeOK' /\ \A h \in Openers : openOf'[h] = "none" <=> open'[h] = "out"
               /\ ModelsAreOpen' /\ NoModelInStoppedRuntime'
               /\ \A r \in Runtimes : IsFiniteSet(OpensOf(r)')
  BY <1>0, <1>1, <1>2, <1>3 DEF IInv, Attached, Finiteness
<1>4. \A r \in Runtimes :
        /\ IsFiniteSet(OpensOf(r)) /\ opening[r] = Cardinality(OpensOf(r))
        /\ opening[r] \in Nat
  BY <1>0 DEF Finiteness, NoModelInStoppedRuntime, TypeOK
<1>5. \A h \in Openers : openOf[h] \in Runtimes => state[openOf[h]] = "Open"
  BY <1>0 DEF NoModelInStoppedRuntime
<1>6. CASE BeginOpen(g)
  <2>1. PICK r \in Runtimes :
          /\ state[r] = "Open"
          /\ opening' = [opening EXCEPT ![r] = @ + 1]
          /\ openOf' = [openOf EXCEPT ![g] = r]
    BY <1>6 DEF BeginOpen
  <2>2. /\ open[g] = "out" /\ open' = [open EXCEPT ![g] = "open"]
        /\ openOf[g] = "none" /\ models' = models
    BY <1>0, <1>6 DEF BeginOpen, Attached
  <2>3. TypeOK'
    BY <1>0, <1>1, <2>1, <2>2 DEF TypeOK
  <2>4. ModelsAreOpen'
    BY <1>0, <2>1, <2>2 DEF ModelsAreOpen, TypeOK
  <2>5. /\ OpensOf(r)' = OpensOf(r) \union {g} /\ g \notin OpensOf(r)
        /\ \A q \in Runtimes : q # r => OpensOf(q)' = OpensOf(q)
    BY <1>0, <2>1, <2>2, RuntimesAssumption DEF OpensOf, TypeOK
  <2>6. IsFiniteSet(OpensOf(r)') /\ Cardinality(OpensOf(r)') = opening[r] + 1
    BY <1>4, <2>5, FS_AddElement
  <2>7. \A q \in Runtimes :
          IsFiniteSet(OpensOf(q)') /\ opening'[q] = Cardinality(OpensOf(q)')
    BY <1>0, <1>4, <2>1, <2>5, <2>6 DEF TypeOK
  <2>8. NoModelInStoppedRuntime'
    BY <1>0, <1>1, <2>1, <2>2, <2>7 DEF NoModelInStoppedRuntime, TypeOK
  <2>9. \A h \in Openers : openOf'[h] = "none" <=> open'[h] = "out"
    BY <1>0, <2>1, <2>2, RuntimesAssumption DEF TypeOK, Attached
  <2> QED BY <2>3, <2>4, <2>7, <2>8, <2>9
<1>7. CASE EngineOpen(g)
  <2>1. PICK to \in {"opened", "failed"} :
          open[g] = "open" /\ open' = [open EXCEPT ![g] = to]
    BY <1>7 DEF EngineOpen
  <2>2. UNCHANGED <<models, opening, openOf>>
    BY <1>7 DEF EngineOpen, runtimeVars
  <2>3. \A r \in Runtimes : OpensOf(r)' = OpensOf(r)
    BY <1>0, <2>1, <2>2 DEF OpensOf, TypeOK
  <2>4. TypeOK' /\ \A h \in Openers : openOf'[h] = "none" <=> open'[h] = "out"
    BY <1>0, <1>1, <2>1, <2>2 DEF TypeOK, Attached
  <2>5. ModelsAreOpen'
    BY <1>0, <2>1, <2>2 DEF ModelsAreOpen, TypeOK
  <2>6. NoModelInStoppedRuntime'
    BY <1>0, <1>1, <2>1, <2>2, <2>3 DEF NoModelInStoppedRuntime, TypeOK
  <2> QED BY <1>4, <2>3, <2>4, <2>5, <2>6
<1>8. CASE FinishOpen(g)
  <2>0. PICK r \in Runtimes :
          open[g] \in {"opened", "failed"} /\ r = openOf[g] /\ state[r] = "Open"
    BY <1>0, <1>5, <1>8 DEF FinishOpen, Attached, TypeOK
  <2>1. opening' = [opening EXCEPT ![r] = @ - 1]
    BY <1>8, <2>0 DEF FinishOpen
  <2>2. \/ /\ open[g] = "opened" /\ open' = [open EXCEPT ![g] = "live"]
           /\ models' = [models EXCEPT ![r] = @ \union {g}] /\ openOf' = openOf
        \/ /\ open[g] = "failed" /\ open' = [open EXCEPT ![g] = "out"]
           /\ openOf' = [openOf EXCEPT ![g] = "none"] /\ models' = models
    BY <1>8, <2>0 DEF FinishOpen
  <2>3. /\ OpensOf(r)' = OpensOf(r) \ {g} /\ g \in OpensOf(r)
        /\ \A q \in Runtimes : q # r => OpensOf(q)' = OpensOf(q)
    BY <1>0, <2>0, <2>2, RuntimesAssumption DEF OpensOf, TypeOK
  <2>4. IsFiniteSet(OpensOf(r)') /\ Cardinality(OpensOf(r)') = opening[r] - 1
    BY <1>4, <2>0, <2>3, FS_RemoveElement
  <2>5. opening[r] - 1 \in Nat
    BY <2>4, FS_CardinalityType
  <2>6. \A q \in Runtimes :
          IsFiniteSet(OpensOf(q)') /\ opening'[q] = Cardinality(OpensOf(q)')
    <3>1. opening'[r] = opening[r] - 1 /\ \A q \in Runtimes : q # r => opening'[q] = opening[q]
      BY <1>0, <2>0, <2>1 DEF TypeOK
    <3> QED BY <1>4, <2>3, <2>4, <3>1
  <2>7. TypeOK'
    BY <1>0, <1>1, <2>0, <2>1, <2>2, <2>5 DEF TypeOK
  <2>8. ModelsAreOpen'
    <3>1. CASE open[g] = "opened"
      BY <1>0, <2>0, <2>2, <3>1 DEF ModelsAreOpen, TypeOK
    <3>2. CASE open[g] = "failed"
      BY <1>0, <2>0, <2>2, <3>2, RuntimesAssumption DEF ModelsAreOpen, TypeOK
    <3> QED BY <2>0, <3>1, <3>2
  <2>9. NoModelInStoppedRuntime'
    BY <1>0, <1>1, <2>0, <2>2, <2>6, RuntimesAssumption
    DEF NoModelInStoppedRuntime, TypeOK
  <2>10. \A h \in Openers : openOf'[h] = "none" <=> open'[h] = "out"
    BY <1>0, <2>0, <2>2, RuntimesAssumption DEF TypeOK, Attached
  <2> QED BY <2>6, <2>7, <2>8, <2>9, <2>10
<1>9. CASE ModelEngineClosed(g)
  <2>1. /\ open[g] = "live" /\ open' = [open EXCEPT ![g] = "unregister"]
        /\ UNCHANGED <<models, opening, openOf>>
    BY <1>9 DEF ModelEngineClosed, runtimeVars
  <2>2. \A r \in Runtimes : OpensOf(r)' = OpensOf(r)
    BY <1>0, <2>1 DEF OpensOf, TypeOK
  <2>3. TypeOK' /\ \A h \in Openers : openOf'[h] = "none" <=> open'[h] = "out"
    BY <1>0, <1>1, <2>1 DEF TypeOK, Attached
  <2>4. ModelsAreOpen'
    BY <1>0, <2>1 DEF ModelsAreOpen, TypeOK
  <2>5. NoModelInStoppedRuntime'
    BY <1>0, <1>1, <2>1, <2>2 DEF NoModelInStoppedRuntime, TypeOK
  <2> QED BY <1>4, <2>2, <2>3, <2>4, <2>5
<1>10. CASE unregister(g)
  <2>1. /\ open[g] = "unregister" /\ open' = [open EXCEPT ![g] = "out"]
        /\ openOf' = [openOf EXCEPT ![g] = "none"] /\ opening' = opening
        /\ models' = [models EXCEPT ![openOf[g]] = @ \ {g}]
    BY <1>10 DEF unregister
  <2>2. \A r \in Runtimes : OpensOf(r)' = OpensOf(r)
    BY <1>0, <2>1, RuntimesAssumption DEF OpensOf, TypeOK
  <2>3. TypeOK' /\ \A h \in Openers : openOf'[h] = "none" <=> open'[h] = "out"
    BY <1>0, <1>1, <2>1 DEF TypeOK, Attached
  <2>4. ModelsAreOpen'
    <3>1. openOf[g] \in Runtimes
      BY <1>0, <2>1 DEF Attached, TypeOK
    <3> QED BY <1>0, <2>1, <3>1, RuntimesAssumption DEF ModelsAreOpen, TypeOK
  <2>5. NoModelInStoppedRuntime'
    BY <1>0, <1>1, <2>1, <2>2, RuntimesAssumption DEF NoModelInStoppedRuntime, TypeOK
  <2> QED BY <1>4, <2>2, <2>3, <2>4, <2>5
<1> QED BY <1>6, <1>7, <1>8, <1>9, <1>10 DEF OpenerStep

(* NewRuntime keeps the invariant, whether it gets a lease or not.         *)
LEMMA NewRuntimeInv ==
  ASSUME IInv, NEW r \in Runtimes, NewRuntime(r)
  PROVE  IInv'
<1>0. /\ TypeOK /\ Attached /\ ModelsAreOpen /\ Finiteness /\ CleanupFlag
      /\ CoordinatorOK(coordinator) /\ LeasesAreCounted /\ PendingIsClosing
      /\ NoModelInStoppedRuntime /\ CleanupIsExclusive
  BY DEF IInv
<1>1. /\ state[r] \in {"absent", "Closed"} /\ lease[r] = "none"
      /\ \A k \in Closers : closeOf[k] # r
      /\ \A g \in Openers : openOf[g] # r
  BY <1>0 DEF NewRuntime, CleanupFlag, CleanupIsExclusive
<1>2. UNCHANGED <<models, opening, closeInProgress, open, openOf, close, closeOf,
                  doneClosed>>
  BY DEF NewRuntime, openerVars, closerVars
<1>3. PICK s \in Surroundings :
        \E o \in IF resolveNativeEnvironmentKey(s) = "none"
                 THEN {Outcome(FALSE, coordinator)}
                 ELSE acquire(coordinator, resolveNativeEnvironmentKey(s)) :
          /\ coordinator' = o.c
          /\ lease' = [lease EXCEPT ![r] =
                         IF o.ok THEN resolveNativeEnvironmentKey(s) ELSE @]
          /\ state' = [state EXCEPT ![r] = IF o.ok THEN "Open" ELSE "absent"]
  BY DEF NewRuntime
<1> DEFINE key == resolveNativeEnvironmentKey(s)
<1>4. key \in Keys \/ key = "none"
  BY DEF resolveNativeEnvironmentKey
<1> HIDE DEF key
<1>5. PICK o \in IF key = "none" THEN {Outcome(FALSE, coordinator)}
                 ELSE acquire(coordinator, key) :
          /\ coordinator' = o.c
          /\ lease' = [lease EXCEPT ![r] = IF o.ok THEN key ELSE @]
          /\ state' = [state EXCEPT ![r] = IF o.ok THEN "Open" ELSE "absent"]
  BY <1>3 DEF key
<1>6. /\ coordinator' \in Coordinators /\ CoordinatorOK(coordinator')
      /\ \/ /\ o.ok = TRUE /\ key \in Keys
            /\ Acquired(coordinator, key, coordinator')
         \/ o.ok = FALSE /\ NotAcquired(coordinator, coordinator')
  <2>1. CASE key = "none"
    <3>1. o.ok = FALSE /\ o.c = coordinator
      BY <1>5, <2>1 DEF Outcome
    <3> QED BY <1>0, <1>5, <3>1 DEF TypeOK, NotAcquired
  <2>2. CASE key # "none"
    <3>1. AcquireResult(coordinator, key, o)
      BY <1>0, <1>4, <1>5, <2>2, AcquireOutcomes DEF TypeOK
    <3> QED BY <1>4, <1>5, <2>2, <3>1 DEF AcquireResult
  <2> QED BY <2>1, <2>2
<1>7. \/ /\ o.ok = TRUE /\ key \in Keys /\ Acquired(coordinator, key, coordinator')
         /\ lease' = [lease EXCEPT ![r] = key]
         /\ state' = [state EXCEPT ![r] = "Open"]
      \/ /\ o.ok = FALSE /\ NotAcquired(coordinator, coordinator')
         /\ lease' = lease
         /\ state' = [state EXCEPT ![r] = "absent"]
  BY <1>0, <1>5, <1>6 DEF TypeOK
<1>8. TypeOK'
  BY <1>0, <1>2, <1>6, <1>7 DEF TypeOK
<1>9. \A q \in Runtimes : q # r => state'[q] = state[q] /\ lease'[q] = lease[q]
  BY <1>0, <1>7 DEF TypeOK
<1>10. \/ state'[r] = "Open" /\ lease'[r] # "none"
       \/ state'[r] = "absent" /\ lease'[r] = "none"
  <2>1. CASE o.ok = TRUE
    BY <1>0, <1>7, <2>1, KeysAssumption DEF TypeOK
  <2>2. CASE o.ok = FALSE
    BY <1>0, <1>1, <1>7, <2>2 DEF TypeOK
  <2> QED BY <1>7, <2>1, <2>2
<1>11. Attached' /\ ModelsAreOpen'
  BY <1>0, <1>1, <1>2, <1>9, RuntimesAssumption DEF Attached, ModelsAreOpen, TypeOK
<1>12. \A q \in Runtimes : OpensOf(q)' = OpensOf(q)
  BY <1>2 DEF OpensOf
<1>13. NoModelInStoppedRuntime'
  <2>1. models[r] = {}
    BY <1>0, <1>1 DEF ModelsAreOpen
  <2> QED BY <1>0, <1>1, <1>2, <1>9, <1>12, <2>1 DEF NoModelInStoppedRuntime
<1>14. CleanupFlag' /\ CleanupIsExclusive'
  <2>1. \A k \in Closers : closeOf[k] \in Runtimes \/ close[k] = "out"
    BY <1>0 DEF TypeOK, Attached
  <2> QED BY <1>0, <1>1, <1>2, <1>9, <1>10, <2>1 DEF CleanupFlag, CleanupIsExclusive, Cleaning
<1>15. CASE o.ok = TRUE
  <2>1. /\ key \in Keys /\ key # "none" /\ Acquired(coordinator, key, coordinator')
        /\ lease' = [lease EXCEPT ![r] = key]
    BY <1>7, <1>15, KeysAssumption
  <2>2. Leased' = Leased \union {r} /\ r \notin Leased
    BY <1>0, <1>1, <2>1 DEF Leased, TypeOK
  <2>3. IsFiniteSet(Leased') /\ Cardinality(Leased') = Cardinality(Leased) + 1
    BY <1>0, <2>2, FS_AddElement DEF Finiteness
  <2>4. \A q \in Leased : lease[q] = key /\ coordinator.leases > 0
    <3> SUFFICES ASSUME NEW q \in Leased PROVE lease[q] = key /\ coordinator.leases > 0
      OBVIOUS
    <3>1. Leased # {} /\ Cardinality(Leased) \in Nat /\ Cardinality(Leased) # 0
      BY <1>0, FS_CardinalityType, FS_EmptySet DEF Finiteness
    <3>2. coordinator.leases > 0
      BY <1>0, <3>1 DEF LeasesAreCounted
    <3>3. lease[q] = coordinator.key
      BY <1>0 DEF LeasesAreCounted, Leased
    <3> QED BY <2>1, <3>2, <3>3 DEF Acquired
  <2>5. LeasesAreCounted'
    <3>1. coordinator'.leases = Cardinality(Leased')
      BY <1>0, <2>1, <2>3 DEF Acquired, LeasesAreCounted
    <3>2. \A q \in Runtimes : lease'[q] # "none" => lease'[q] = key
      BY <1>0, <1>9, <2>1, <2>4 DEF Leased, TypeOK
    <3> QED BY <2>1, <3>1, <3>2 DEF LeasesAreCounted, Acquired
  <2>6. PendingIsClosing'
    BY <2>1 DEF PendingIsClosing, Acquired
  <2>7. Finiteness'
    BY <1>0, <1>12, <2>3 DEF Finiteness
  <2> QED BY <1>6, <1>8, <1>11, <1>13, <1>14, <2>5, <2>6, <2>7 DEF IInv
<1>16. CASE o.ok = FALSE
  <2>1. NotAcquired(coordinator, coordinator') /\ lease' = lease
    BY <1>7, <1>16
  <2>2. Leased' = Leased
    BY <2>1 DEF Leased
  <2>3. Finiteness'
    BY <1>0, <1>12, <2>2 DEF Finiteness
  <2>4. ASSUME NEW q \in Runtimes, lease[q] # "none" PROVE coordinator' = coordinator
    <3>1. q \in Leased
      BY <2>4 DEF Leased
    <3>2. Leased # {} /\ Cardinality(Leased) \in Nat /\ Cardinality(Leased) # 0
      BY <1>0, <3>1, FS_CardinalityType, FS_EmptySet DEF Finiteness
    <3>3. coordinator.leases > 0
      BY <1>0, <3>2 DEF LeasesAreCounted
    <3> QED BY <2>1, <3>3 DEF NotAcquired
  <2>5. LeasesAreCounted'
    <3>1. coordinator'.leases = Cardinality(Leased')
      BY <1>0, <2>1, <2>2 DEF NotAcquired, LeasesAreCounted
    <3> QED BY <1>0, <2>1, <2>4, <3>1 DEF LeasesAreCounted
  <2>6. PendingIsClosing'
    <3> SUFFICES ASSUME coordinator'.cleanupPending, coordinator'.leases > 0
                 PROVE  \E q \in Runtimes : lease'[q] # "none" /\ state'[q] = "Closing"
      BY DEF PendingIsClosing
    <3>1. coordinator' = coordinator
      BY <2>1 DEF NotAcquired
    <3>2. PICK q \in Runtimes : lease[q] # "none" /\ state[q] = "Closing"
      BY <1>0, <3>1 DEF PendingIsClosing
    <3>3. q # r
      BY <1>1, <3>2
    <3> QED BY <1>9, <3>2, <3>3
  <2> QED BY <1>6, <1>8, <1>11, <1>13, <1>14, <2>3, <2>5, <2>6 DEF IInv
<1> QED BY <1>6, <1>15, <1>16

(* The steps of a Runtime.Close other than the engine's close keep the     *)
(* invariant.                                                              *)
LEMMA CloserInv ==
  ASSUME IInv, NEW k \in Closers,
         \/ Close(k) \/ CloseReturnsAtOnce(k) \/ CloseEnters(k) \/ CloseWakes(k)
         \/ CloseGivesUp(k) \/ EngineCloseCancelled(k) \/ CloseFinishes(k)
  PROVE  IInv'
<1>0. /\ TypeOK /\ Attached /\ ModelsAreOpen /\ Finiteness /\ CleanupFlag
      /\ CoordinatorOK(coordinator) /\ LeasesAreCounted /\ PendingIsClosing
      /\ NoModelInStoppedRuntime /\ CleanupIsExclusive
  BY DEF IInv
<1> USE DEF GoClose, LeaveClose
<1>1. UNCHANGED <<coordinator, lease, models, opening, open, openOf>>
  BY DEF Close, CloseReturnsAtOnce, CloseEnters, CloseWakes, CloseGivesUp,
     EngineCloseCancelled, CloseFinishes, runtimeVars, openerVars
<1>2. Leased' = Leased /\ \A r \in Runtimes : OpensOf(r)' = OpensOf(r)
  BY <1>1 DEF Leased, OpensOf
<1>3. Finiteness' /\ LeasesAreCounted' /\ CoordinatorOK(coordinator)' /\ ModelsAreOpen'
  BY <1>0, <1>1, <1>2 DEF Finiteness, LeasesAreCounted, ModelsAreOpen
<1>4. SUFFICES /\ TypeOK' /\ Attached' /\ PendingIsClosing' /\ NoModelInStoppedRuntime'
               /\ CleanupFlag' /\ CleanupIsExclusive'
  BY <1>3, <1>4 DEF IInv
<1>5. ASSUME state' = state
      PROVE  PendingIsClosing' /\ NoModelInStoppedRuntime'
  BY <1>0, <1>1, <1>2, <1>5 DEF PendingIsClosing, NoModelInStoppedRuntime
<1>6. CASE Close(k)
  <2>1. PICK r \in Runtimes :
          state[r] # "absent" /\ closeOf' = [closeOf EXCEPT ![k] = r]
    BY <1>6 DEF Close
  <2>2. /\ close[k] = "out" /\ close' = [close EXCEPT ![k] = "enter"]
        /\ UNCHANGED <<state, closeInProgress, doneClosed>>
    BY <1>6 DEF Close, runtimeVars
  <2>3. TypeOK' /\ Attached'
    BY <1>0, <1>1, <2>1, <2>2, RuntimesAssumption DEF TypeOK, Attached
  <2>4. CleanupFlag' /\ CleanupIsExclusive'
    BY <1>0, <1>1, <2>1, <2>2 DEF TypeOK, CleanupFlag, CleanupIsExclusive, Cleaning
  <2> QED BY <1>5, <2>2, <2>3, <2>4
<1>7. CASE CloseReturnsAtOnce(k) \/ CloseGivesUp(k)
  <2>1. /\ close[k] \in {"enter", "doneWait"} /\ close' = [close EXCEPT ![k] = "out"]
        /\ closeOf' = [closeOf EXCEPT ![k] = "none"]
        /\ UNCHANGED <<state, closeInProgress, doneClosed>>
    BY <1>7 DEF CloseReturnsAtOnce, CloseGivesUp, runtimeVars
  <2>2. TypeOK' /\ Attached'
    BY <1>0, <1>1, <2>1 DEF TypeOK, Attached
  <2>3. CleanupFlag' /\ CleanupIsExclusive'
    BY <1>0, <1>1, <2>1 DEF TypeOK, CleanupFlag, CleanupIsExclusive, Cleaning
  <2> QED BY <1>5, <2>1, <2>2, <2>3
<1>8. CASE CloseWakes(k)
  <2>1. /\ close[k] = "doneWait" /\ close' = [close EXCEPT ![k] = "enter"]
        /\ UNCHANGED <<state, closeInProgress, closeOf, doneClosed>>
    BY <1>8 DEF CloseWakes, runtimeVars
  <2>2. TypeOK' /\ Attached'
    BY <1>0, <1>1, <2>1 DEF TypeOK, Attached
  <2>3. CleanupFlag' /\ CleanupIsExclusive'
    BY <1>0, <1>1, <2>1 DEF TypeOK, CleanupFlag, CleanupIsExclusive, Cleaning
  <2> QED BY <1>5, <2>1, <2>2, <2>3
<1>9. CASE EngineCloseCancelled(k)
  <2>1. /\ close[k] = "engine" /\ close' = [close EXCEPT ![k] = "finishError"]
        /\ UNCHANGED <<state, closeInProgress, closeOf, doneClosed>>
    BY <1>9 DEF EngineCloseCancelled, runtimeVars
  <2>2. TypeOK' /\ Attached' /\ \A j \in Closers : Cleaning(j)' <=> Cleaning(j)
    BY <1>0, <1>1, <2>1 DEF TypeOK, Attached, Cleaning
  <2>3. CleanupFlag' /\ CleanupIsExclusive'
    BY <1>0, <1>1, <2>1, <2>2 DEF TypeOK, CleanupFlag, CleanupIsExclusive
  <2> QED BY <1>5, <2>1, <2>2, <2>3
<1>10. CASE CloseEnters(k)
  <2>1. PICK r \in Runtimes : r = closeOf[k]
    BY <1>0, <1>10 DEF CloseEnters, Attached, TypeOK
  <2>2. /\ close[k] = "enter" /\ closeOf' = closeOf
        /\ \/ state[r] = "Open" /\ opening[r] = 0 /\ models[r] = {}
           \/ state[r] = "Closing"
        /\ state' = [state EXCEPT ![r] = "Closing"]
    BY <1>10, <2>1 DEF CloseEnters
  <2>3. \/ /\ closeInProgress[r] /\ close' = [close EXCEPT ![k] = "doneWait"]
           /\ doneClosed' = [doneClosed EXCEPT ![k] = FALSE]
           /\ closeInProgress' = closeInProgress
        \/ /\ ~closeInProgress[r] /\ close' = [close EXCEPT ![k] = "engine"]
           /\ closeInProgress' = [closeInProgress EXCEPT ![r] = TRUE]
           /\ doneClosed' = doneClosed
    BY <1>10, <2>1 DEF CloseEnters
  <2>4. TypeOK'
    BY <1>0, <1>1, <2>2, <2>3 DEF TypeOK
  <2>5. Attached'
    BY <1>0, <1>1, <2>1, <2>2, <2>3 DEF TypeOK, Attached
  <2>6. \A q \in Runtimes : /\ q # r => state'[q] = state[q]
                            /\ state'[r] = "Closing"
    BY <1>0, <2>2 DEF TypeOK
  <2>7. PendingIsClosing'
    BY <1>0, <1>1, <2>6 DEF PendingIsClosing
  <2>8. NoModelInStoppedRuntime'
    <3>1. CASE state[r] = "Closing"
      BY <1>0, <1>1, <1>2, <2>6, <3>1 DEF NoModelInStoppedRuntime
    <3>2. CASE opening[r] = 0 /\ models[r] = {}
      <4>1. OpensOf(r) = {}
        BY <1>0, <3>2, FS_EmptySet DEF NoModelInStoppedRuntime, Finiteness
      <4>2. \A g \in Openers : openOf[g] # r
        BY <1>0, <3>2, <4>1, RuntimesAssumption
        DEF OpensOf, ModelsAreOpen, Attached, NoModelInStoppedRuntime, TypeOK
      <4> QED BY <1>0, <1>1, <1>2, <2>6, <3>2, <4>2 DEF NoModelInStoppedRuntime
    <3> QED BY <2>2, <3>1, <3>2
  <2>9. CASE closeInProgress[r]
    <3>1. /\ close' = [close EXCEPT ![k] = "doneWait"]
          /\ doneClosed' = [doneClosed EXCEPT ![k] = FALSE]
          /\ closeInProgress' = closeInProgress
      BY <2>3, <2>9
    <3>2. \A j \in Closers : Cleaning(j)' <=> Cleaning(j)
      BY <1>0, <2>2, <3>1 DEF Cleaning, TypeOK
    <3>3. CleanupFlag'
      BY <1>0, <1>1, <2>1, <2>2, <2>6, <3>1, <3>2 DEF CleanupFlag, TypeOK, Attached, Cleaning
    <3>4. CleanupIsExclusive'
      BY <1>0, <1>1, <2>1, <2>2, <2>6, <2>9, <3>1, <3>2 DEF CleanupIsExclusive, TypeOK
    <3> QED BY <2>4, <2>5, <2>7, <2>8, <3>3, <3>4
  <2>10. CASE ~closeInProgress[r]
    <3>1. /\ close' = [close EXCEPT ![k] = "engine"]
          /\ closeInProgress' = [closeInProgress EXCEPT ![r] = TRUE]
          /\ doneClosed' = doneClosed
      BY <2>3, <2>10
    <3>2. \A j \in Closers : Cleaning(j)' <=> Cleaning(j) \/ j = k
      BY <1>0, <2>2, <3>1 DEF Cleaning, TypeOK
    <3>3. \A j \in Closers : Cleaning(j) => closeOf[j] # r
      BY <1>0, <2>10 DEF CleanupFlag
    <3>4. CleanupFlag'
      BY <1>0, <1>1, <2>1, <2>2, <2>6, <3>1, <3>2, <3>3
      DEF CleanupFlag, TypeOK, Attached, Cleaning
    <3>5. CleanupIsExclusive'
      BY <1>0, <1>1, <2>1, <2>2, <2>6, <3>1, <3>2, <3>3 DEF CleanupIsExclusive, TypeOK
    <3> QED BY <2>4, <2>5, <2>7, <2>8, <3>4, <3>5
  <2> QED BY <2>9, <2>10
<1>11. CASE CloseFinishes(k)
  <2>1. PICK r \in Runtimes : r = closeOf[k]
    BY <1>0, <1>11 DEF CloseFinishes, Attached, TypeOK
  <2>2. /\ close[k] \in {"finishNil", "finishError"}
        /\ close' = [close EXCEPT ![k] = "out"]
        /\ closeOf' = [closeOf EXCEPT ![k] = "none"]
        /\ closeInProgress' = [closeInProgress EXCEPT ![r] = FALSE]
        /\ doneClosed' = [j \in Closers |-> doneClosed[j] \/
                             (close[j] = "doneWait" /\ closeOf[j] = r)]
        /\ \/ close[k] = "finishNil" /\ state' = [state EXCEPT ![r] = "Closed"]
           \/ close[k] = "finishError" /\ state' = state
    BY <1>11, <2>1 DEF CloseFinishes
  <2>3. state[r] = "Closing" /\ (close[k] = "finishNil" => lease[r] = "none")
    BY <1>0, <2>1, <2>2 DEF CleanupFlag, Cleaning
  <2>4. TypeOK'
    <3>1. doneClosed' \in [Closers -> BOOLEAN]
      BY <2>2
    <3> QED BY <1>0, <1>1, <2>2, <3>1 DEF TypeOK
  <2>5. /\ \A q \in Runtimes : q # r => state'[q] = state[q]
        /\ state'[r] \in {"Closing", "Closed"}
        /\ state'[r] = "Closed" => lease[r] = "none"
    BY <1>0, <2>2, <2>3 DEF TypeOK
  <2>6. Attached'
    BY <1>0, <1>1, <2>2, <2>5, RuntimesAssumption DEF TypeOK, Attached
  <2>7. PendingIsClosing'
    BY <1>0, <1>1, <2>5 DEF PendingIsClosing
  <2>8. NoModelInStoppedRuntime'
    BY <1>0, <1>1, <1>2, <2>3, <2>5 DEF NoModelInStoppedRuntime
  <2>9. /\ \A j \in Closers : Cleaning(j)' <=> Cleaning(j) /\ j # k
        /\ \A j \in Closers : Cleaning(j)' => closeOf[j] # r /\ closeOf'[j] = closeOf[j]
    BY <1>0, <2>1, <2>2 DEF TypeOK, Cleaning, CleanupIsExclusive
  <2>10. CleanupFlag'
    <3>1. \A q \in Runtimes :
            closeInProgress'[q] <=> \E j \in Closers : Cleaning(j)' /\ closeOf'[j] = q
      BY <1>0, <2>1, <2>2, <2>9, RuntimesAssumption DEF CleanupFlag, TypeOK
    <3>2. \A j \in Closers : Cleaning(j)' => state'[closeOf'[j]] = "Closing"
      BY <1>0, <2>5, <2>9 DEF CleanupFlag, TypeOK, Attached, Cleaning
    <3>3. \A j \in Closers : close'[j] = "finishNil" => lease'[closeOf'[j]] = "none"
      BY <1>0, <1>1, <2>2 DEF CleanupFlag, TypeOK
    <3>4. \A q \in Runtimes : state'[q] = "absent" => lease'[q] = "none"
      BY <1>0, <1>1, <2>5 DEF CleanupFlag
    <3> QED BY <3>1, <3>2, <3>3, <3>4 DEF CleanupFlag
  <2>11. CleanupIsExclusive'
    <3>1. \A i, j \in Closers :
            Cleaning(i)' /\ Cleaning(j)' /\ closeOf'[i] = closeOf'[j] => i = j
      BY <1>0, <2>9 DEF CleanupIsExclusive
    <3>2. \A j \in Closers :
            close'[j] = "doneWait" /\ ~doneClosed'[j] => closeInProgress'[closeOf'[j]]
      BY <1>0, <2>1, <2>2 DEF CleanupIsExclusive, TypeOK, Attached
    <3>3. \A q \in Runtimes : /\ state'[q] = "Open" => lease'[q] # "none"
                              /\ state'[q] = "Closed" => lease'[q] = "none"
      BY <1>0, <1>1, <2>5 DEF CleanupIsExclusive
    <3> QED BY <3>1, <3>2, <3>3 DEF CleanupIsExclusive
  <2> QED BY <2>4, <2>6, <2>7, <2>8, <2>10, <2>11
<1> QED BY <1>6, <1>7, <1>8, <1>9, <1>10, <1>11

(* A Runtime that has a lease is one of those the coordinator counts.      *)
LEMMA LeaseIsCounted ==
  ASSUME Finiteness, LeasesAreCounted, NEW r \in Runtimes, lease[r] # "none"
  PROVE  /\ coordinator.leases \in Nat /\ coordinator.leases > 0
         /\ coordinator.leases = 1 => Leased = {r}
<1>1. r \in Leased /\ IsFiniteSet(Leased) /\ Cardinality(Leased) = coordinator.leases
  BY DEF Leased, Finiteness, LeasesAreCounted
<1>2. Cardinality(Leased) \in Nat /\ Cardinality(Leased) # 0
  BY <1>1, FS_CardinalityType, FS_EmptySet
<1>3. ASSUME Cardinality(Leased) = 1 PROVE Leased = {r}
  <2>1. PICK x : Leased = {x}
    BY <1>1, <1>3, FS_Singleton
  <2> QED BY <1>1, <2>1
<1> QED BY <1>1, <1>2, <1>3

(* The engine's close keeps the invariant, whichever of its outcomes:      *)
(* it was closed already, another lease remains, the environment is        *)
(* destroyed, or its destruction fails and stays pending.                  *)
LEMMA EngineCloseInv ==
  ASSUME IInv, NEW k \in Closers, EngineClose(k)
  PROVE  IInv'
<1>0. /\ TypeOK /\ Attached /\ ModelsAreOpen /\ Finiteness /\ CleanupFlag
      /\ CoordinatorOK(coordinator) /\ LeasesAreCounted /\ PendingIsClosing
      /\ NoModelInStoppedRuntime /\ CleanupIsExclusive
  BY DEF IInv
<1>1. /\ UNCHANGED <<state, models, opening, closeInProgress, open, openOf,
                     closeOf, doneClosed>>
      /\ close[k] = "engine"
  BY DEF EngineClose, runtimeVars, openerVars
<1>2. PICK r \in Runtimes : r = closeOf[k] /\ state[r] = "Closing"
  BY <1>0, <1>1 DEF Attached, TypeOK, CleanupFlag, Cleaning
<1>3. PICK o \in IF lease[r] = "none" THEN {Outcome(TRUE, coordinator)}
                 ELSE closeLease(coordinator) :
        /\ coordinator' = o.c
        /\ lease' = [lease EXCEPT ![r] = IF o.ok THEN "none" ELSE @]
        /\ close' = [close EXCEPT ![k] = IF o.ok THEN "finishNil" ELSE "finishError"]
  BY <1>2 DEF EngineClose, GoClose
<1>4. \/ lease[r] = "none" /\ o.ok = TRUE /\ coordinator' = coordinator
      \/ lease[r] # "none" /\ CloseResult(coordinator, o)
  <2>1. CASE lease[r] = "none"
    BY <1>3, <2>1 DEF Outcome
  <2>2. CASE lease[r] # "none"
    BY <1>0, <1>3, <2>2, LeaseIsCounted, CloseLeaseOutcomes DEF TypeOK
  <2> QED BY <2>1, <2>2
<1>5. o.ok \in BOOLEAN
  BY <1>4 DEF CloseResult
<1>6. coordinator' \in Coordinators /\ CoordinatorOK(coordinator')
  BY <1>0, <1>3, <1>4 DEF CloseResult, TypeOK
<1>7. /\ \A q \in Runtimes : q # r => lease'[q] = lease[q]
      /\ o.ok => lease'[r] = "none"
      /\ ~o.ok => lease' = lease
  BY <1>0, <1>3, <1>5 DEF TypeOK
<1>8. TypeOK'
  <2>1. lease' \in [Runtimes -> Keys \union {"none"}]
    BY <1>0, <1>3, <1>5 DEF TypeOK
  <2>2. close' \in [Closers -> {"out", "enter", "doneWait", "engine", "finishNil",
                               "finishError"}]
    BY <1>0, <1>3, <1>5 DEF TypeOK
  <2> QED BY <1>0, <1>1, <1>6, <2>1, <2>2 DEF TypeOK
<1>9. /\ \A j \in Closers : j # k => close'[j] = close[j]
      /\ close'[k] = IF o.ok THEN "finishNil" ELSE "finishError"
      /\ \A j \in Closers : Cleaning(j)' <=> Cleaning(j)
  BY <1>0, <1>1, <1>3, <1>5 DEF TypeOK, Cleaning
<1>10. Attached' /\ ModelsAreOpen'
  BY <1>0, <1>1, <1>9 DEF Attached, ModelsAreOpen
<1>11. \A q \in Runtimes : OpensOf(q)' = OpensOf(q)
  BY <1>1 DEF OpensOf
<1>12. NoModelInStoppedRuntime'
  BY <1>0, <1>1, <1>11 DEF NoModelInStoppedRuntime
<1>13. CleanupFlag'
  <2>1. \A j \in Closers : close'[j] = "finishNil" => lease'[closeOf'[j]] = "none"
    BY <1>0, <1>1, <1>2, <1>5, <1>7, <1>9 DEF CleanupFlag, Attached, TypeOK
  <2>2. \A q \in Runtimes : state'[q] = "absent" => lease'[q] = "none"
    BY <1>0, <1>1, <1>2, <1>7 DEF CleanupFlag
  <2> QED BY <1>0, <1>1, <1>9, <2>1, <2>2 DEF CleanupFlag
<1>14. CleanupIsExclusive'
  <2>1. \A q \in Runtimes : /\ state'[q] = "Open" => lease'[q] # "none"
                            /\ state'[q] = "Closed" => lease'[q] = "none"
    BY <1>0, <1>1, <1>2, <1>7 DEF CleanupIsExclusive
  <2>2. \A j \in Closers :
          close'[j] = "doneWait" /\ ~doneClosed'[j] => closeInProgress'[closeOf'[j]]
    BY <1>0, <1>1, <1>9 DEF CleanupIsExclusive
  <2> QED BY <1>0, <1>1, <1>9, <2>1, <2>2 DEF CleanupIsExclusive
<1>15. SUFFICES Finiteness' /\ LeasesAreCounted' /\ PendingIsClosing'
  BY <1>6, <1>8, <1>10, <1>12, <1>13, <1>14, <1>15 DEF IInv
<1>16. \A q \in Runtimes : IsFiniteSet(OpensOf(q)')
  BY <1>0, <1>11 DEF Finiteness
<1>17. CASE lease[r] = "none"
  <2>1. lease' = lease /\ coordinator' = coordinator /\ Leased' = Leased
    <3>1. o.ok = TRUE /\ coordinator' = coordinator
      BY <1>4, <1>17
    <3>2. lease' = lease
      BY <1>0, <1>3, <1>17, <3>1 DEF TypeOK
    <3> QED BY <3>1, <3>2 DEF Leased
  <2> QED BY <1>0, <1>1, <1>16, <2>1 DEF Finiteness, LeasesAreCounted, PendingIsClosing
<1>18. CASE lease[r] # "none" /\ o.ok = TRUE
  <2>1. CloseResult(coordinator, o) /\ coordinator' = o.c
    BY <1>3, <1>4, <1>18
  <2>2. Leased' = Leased \ {r} /\ r \in Leased
    BY <1>7, <1>18 DEF Leased
  <2>3. /\ IsFiniteSet(Leased')
        /\ Cardinality(Leased') = Cardinality(Leased) - 1
    BY <1>0, <2>2, FS_RemoveElement DEF Finiteness
  <2>4. Finiteness'
    BY <1>16, <2>3 DEF Finiteness
  <2>5. CASE coordinator.leases > 1
    <3>1. /\ coordinator'.leases = coordinator.leases - 1
          /\ coordinator'.key = coordinator.key /\ coordinator'.ort = coordinator.ort
          /\ ~coordinator'.cleanupPending
      BY <1>18, <2>1, <2>5 DEF CloseResult
    <3>2. \A q \in Runtimes : lease'[q] # "none" => lease'[q] = lease[q]
      BY <1>7, <1>18
    <3>3. LeasesAreCounted'
      BY <1>0, <2>3, <3>1, <3>2 DEF LeasesAreCounted
    <3> QED BY <2>4, <3>1, <3>3 DEF PendingIsClosing
  <2>6. CASE ~(coordinator.leases > 1)
    <3>1. coordinator.leases = 1 /\ Leased = {r}
      BY <1>0, <1>18, <2>6, LeaseIsCounted
    <3>2. coordinator' = NoEnvironment
      BY <1>18, <2>1, <3>1 DEF CloseResult
    <3>3. coordinator'.leases = 0 /\ ~coordinator'.cleanupPending
      BY <3>2 DEF NoEnvironment
    <3>4. Leased' = {}
      BY <2>2, <3>1
    <3>5. LeasesAreCounted'
      BY <3>3, <3>4, FS_EmptySet DEF LeasesAreCounted, Leased
    <3> QED BY <2>4, <3>3, <3>5 DEF PendingIsClosing
  <2> QED BY <2>5, <2>6
<1>19. CASE lease[r] # "none" /\ o.ok = FALSE
  <2>1. /\ coordinator'.leases = coordinator.leases
        /\ coordinator'.key = coordinator.key /\ coordinator'.ort = coordinator.ort
    BY <1>3, <1>4, <1>19 DEF CloseResult
  <2>2. lease' = lease /\ Leased' = Leased
    BY <1>7, <1>19 DEF Leased
  <2>3. Finiteness' /\ LeasesAreCounted'
    BY <1>0, <1>16, <2>1, <2>2 DEF Finiteness, LeasesAreCounted
  <2>4. PendingIsClosing'
    BY <1>1, <1>2, <1>19, <2>2 DEF PendingIsClosing
  <2> QED BY <2>3, <2>4
<1> QED BY <1>5, <1>17, <1>18, <1>19

(* The invariant holds in every state of every behaviour.                  *)
THEOREM Invariance == Spec => []IInv
<1>1. IInv /\ [Next]_vars => IInv'
  <2> SUFFICES ASSUME IInv, [Next]_vars PROVE IInv'
    OBVIOUS
  <2>1. CASE UNCHANGED vars
    <3>1. UNCHANGED <<coordinator, lease, state, models, opening, closeInProgress,
                      open, openOf, close, closeOf, doneClosed>>
      BY <2>1 DEF vars, runtimeVars, openerVars, closerVars
    <3>2. TypeOK' /\ Attached' /\ ModelsAreOpen' /\ PendingIsClosing'
      BY <3>1 DEF IInv, TypeOK, Attached, ModelsAreOpen, PendingIsClosing
    <3>3. CleanupFlag' /\ CleanupIsExclusive'
      BY <3>1 DEF IInv, CleanupFlag, CleanupIsExclusive, Cleaning
    <3>4. Leased' = Leased /\ \A r \in Runtimes : OpensOf(r)' = OpensOf(r)
      BY <3>1 DEF Leased, OpensOf
    <3>5. Finiteness' /\ NoModelInStoppedRuntime' /\ LeasesAreCounted'
      BY <3>1, <3>4 DEF IInv, Finiteness, NoModelInStoppedRuntime, LeasesAreCounted
    <3>6. CoordinatorOK(coordinator)'
      BY <3>1 DEF IInv
    <3> QED BY <3>2, <3>3, <3>5, <3>6 DEF IInv
  <2>2. ASSUME NEW r \in Runtimes, NewRuntime(r) PROVE IInv'
    BY <2>2, NewRuntimeInv
  <2>3. ASSUME NEW g \in Openers,
               OpenerStep(g) \/ BeginOpen(g) \/ ModelEngineClosed(g)
        PROVE  IInv'
    BY <2>3, OpenerInv
  <2>4. ASSUME NEW k \in Closers, CloserStep(k) \/ Close(k) \/ CloseGivesUp(k)
        PROVE  IInv'
    BY <2>4, CloserInv, EngineCloseInv DEF CloserStep
  <2> QED BY <2>1, <2>2, <2>3, <2>4 DEF Next
<1> QED BY <1>1, InitInv, PTL DEF Spec

(* The coordinator's lease count is exact, and every lease is of the       *)
(* environment that exists (acquire, lease.close).                         *)
THEOREM ExactLeases == Spec => []LeasesAreCounted
<1>1. IInv => LeasesAreCounted
  BY DEF IInv
<1> QED BY <1>1, Invariance, PTL

(* No environment is destroyed or replaced under a native session that a   *)
(* model or an open in progress owns, nor under one that a failed open has *)
(* left, before its Runtime has begun to close.                            *)
THEOREM SessionSafety == Spec => []SessionsHaveEnvironment
<1>1. IInv => SessionsHaveEnvironment
  <2> SUFFICES ASSUME IInv
               PROVE  SessionsHaveEnvironment
    OBVIOUS
  <2>1. ASSUME NEW r \in Runtimes, state[r] = "Open"
        PROVE  coordinator.ort # "none" /\ coordinator.ort = lease[r]
    <3>1. lease[r] # "none"
      BY <2>1 DEF IInv, CleanupIsExclusive
    <3> QED BY <3>1 DEF IInv, LeasesAreCounted
  <2>2. ASSUME NEW g \in Openers, HasSession(g)
        PROVE  openOf[g] \in Runtimes /\ state[openOf[g]] = "Open"
    <3>1. openOf[g] \in Runtimes
      BY <2>2 DEF IInv, TypeOK, Attached, HasSession
    <3> QED BY <3>1 DEF IInv, NoModelInStoppedRuntime
  <2> QED BY <2>1, <2>2 DEF SessionsHaveEnvironment
<1> QED BY <1>1, Invariance, PTL

(* A Runtime that has begun to close has no model and none in the making,  *)
(* and its count of opens in progress is exact (beginOpen, finishOpen).    *)
THEOREM StoppedRuntime == Spec => []NoModelInStoppedRuntime
<1>1. IInv => NoModelInStoppedRuntime
  BY DEF IInv
<1> QED BY <1>1, Invariance, PTL

(* A cleanup that failed always has someone who retries it.                *)
THEOREM CleanupOwner == Spec => []PendingCleanupHasOwner
<1>1. IInv => PendingCleanupHasOwner
  <2> SUFFICES ASSUME IInv PROVE PendingCleanupHasOwner
    OBVIOUS
  <2>1. coordinator.leases \in Nat
    BY DEF IInv, TypeOK, Coordinators
  <2>2. ASSUME coordinator.cleanupPending
        PROVE  /\ coordinator.ort = coordinator.key /\ coordinator.ort # "none"
               /\ \/ coordinator.leases = 0
                  \/ /\ coordinator.leases = 1
                     /\ \E r \in Runtimes : lease[r] # "none" /\ state[r] = "Closing"
    BY <2>1, <2>2 DEF IInv, CoordinatorOK, PendingIsClosing
  <2>3. ASSUME coordinator.orphaned, NEW r \in Runtimes, lease[r] # "none"
        PROVE  FALSE
    <3>1. coordinator.leases > 0
      BY <2>3, LeaseIsCounted DEF IInv
    <3> QED BY <2>1, <2>3, <3>1 DEF IInv, CoordinatorOK
  <2>4. coordinator.ort # "none" =>
          (coordinator.orphaned <=> coordinator.leases = 0 /\ ~coordinator.cleanupPending)
    BY DEF IInv, CoordinatorOK
  <2> QED BY <2>2, <2>3, <2>4 DEF PendingCleanupHasOwner
<1> QED BY <1>1, Invariance, PTL

(* One Close at a time cleans a Runtime up, and whoever waits is woken.    *)
THEOREM ExclusiveCleanup == Spec => []CleanupIsExclusive
<1>1. IInv => CleanupIsExclusive
  BY DEF IInv
<1> QED BY <1>1, Invariance, PTL
=============================================================================
