----------------------------- MODULE ModelProofs -----------------------------
(***************************************************************************)
(* Proofs about module Model, for every set of callers and closers and     *)
(* every queue capacity: an inductive invariant, the safety properties     *)
(* that follow from it, and the refinement of Admission.                   *)
(***************************************************************************)
EXTENDS Model, SequenceTheorems, TLAPS

(* Removing one entry of a queue without repetitions removes that caller   *)
(* from it and nobody else (the splice of waiters in cancelWaiter).        *)
LEMMA RemoveAtElements ==
  ASSUME NEW S, NEW s \in Seq(S), NEW i \in 1..Len(s)
  PROVE  /\ RemoveAt(s, i) \in Seq(S)
         /\ Len(RemoveAt(s, i)) = Len(s) - 1
         /\ \A j \in 1..(Len(s) - 1) :
              RemoveAt(s, i)[j] = IF j < i THEN s[j] ELSE s[j + 1]
<1> DEFINE a == SubSeq(s, 1, i - 1)
           b == SubSeq(s, i + 1, Len(s))
<1>1. Len(s) \in Nat /\ \A j \in 1..Len(s) : s[j] \in S
  BY LenProperties, ElementOfSeq
<1>2. /\ a \in Seq(S) /\ Len(a) = i - 1
      /\ \A j \in 1..(i - 1) : a[j] = s[j]
  <2>1. \A j \in 1..(i - 1) : s[j] \in S
    BY <1>1
  <2>2. /\ a \in Seq(S) /\ Len(a) = IF 1 <= i - 1 THEN i - 1 - 1 + 1 ELSE 0
        /\ \A j \in 1..(i - 1 - 1 + 1) : a[j] = s[1 + j - 1]
    BY <2>1, <1>1, SubSeqProperties
  <2> QED BY <2>2, <1>1
<1>3. /\ b \in Seq(S) /\ Len(b) = Len(s) - i
      /\ \A j \in 1..(Len(s) - i) : b[j] = s[i + j]
  <2>1. \A j \in (i + 1)..Len(s) : s[j] \in S
    BY <1>1
  <2>2. /\ b \in Seq(S)
        /\ Len(b) = IF i + 1 <= Len(s) THEN Len(s) - (i + 1) + 1 ELSE 0
        /\ \A j \in 1..(Len(s) - (i + 1) + 1) : b[j] = s[i + 1 + j - 1]
    BY <2>1, <1>1, SubSeqProperties
  <2> QED BY <2>2, <1>1
<1> HIDE DEF a, b
<1>4. /\ a \o b \in Seq(S) /\ Len(a \o b) = Len(a) + Len(b)
      /\ \A j \in 1..(Len(a) + Len(b)) :
           (a \o b)[j] = IF j <= Len(a) THEN a[j] ELSE b[j - Len(a)]
  BY <1>2, <1>3, ConcatProperties
<1>5. \A j \in 1..(Len(s) - 1) : (a \o b)[j] = IF j < i THEN s[j] ELSE s[j + 1]
  <2> SUFFICES ASSUME NEW j \in 1..(Len(s) - 1)
               PROVE  (a \o b)[j] = IF j < i THEN s[j] ELSE s[j + 1]
    OBVIOUS
  <2>1. (a \o b)[j] = IF j <= i - 1 THEN a[j] ELSE b[j - (i - 1)]
    BY <1>1, <1>2, <1>3, <1>4
  <2>2. CASE j < i
    BY <2>1, <2>2, <1>1, <1>2
  <2>3. CASE ~(j < i)
    <3>1. j - (i - 1) \in 1..(Len(s) - i) /\ i + (j - (i - 1)) = j + 1
      BY <2>3, <1>1
    <3>2. b[j - (i - 1)] = s[j + 1]
      BY <3>1, <1>3
    <3> QED BY <3>2, <2>1, <2>3, <1>1
  <2> QED BY <2>2, <2>3
<1>6. RemoveAt(s, i) = a \o b
  BY DEF RemoveAt, a, b
<1>7. Len(a \o b) = Len(s) - 1
  BY <1>1, <1>2, <1>3, <1>4
<1> QED BY <1>4, <1>5, <1>6, <1>7

(* ... and leaves a queue without repetitions.                             *)
LEMMA RemoveAtInjective ==
  ASSUME NEW S, NEW s \in Seq(S), NEW i \in 1..Len(s), IsInjective(s)
  PROVE  /\ IsInjective(RemoveAt(s, i))
         /\ Range(RemoveAt(s, i)) = Range(s) \ {s[i]}
<1> DEFINE r == RemoveAt(s, i)
<1>1. /\ r \in Seq(S)
      /\ Len(r) = Len(s) - 1
      /\ \A j \in 1..(Len(s) - 1) : r[j] = IF j < i THEN s[j] ELSE s[j + 1]
  BY RemoveAtElements
<1>2. DOMAIN r = 1..(Len(s) - 1) /\ DOMAIN s = 1..Len(s) /\ Len(s) \in Nat
  BY <1>1, LenProperties
<1>0. \A j, k \in 1..Len(s) : s[j] = s[k] => j = k
  BY <1>2 DEF IsInjective
<1> HIDE DEF r
<1>3. IsInjective(r)
  <2> SUFFICES ASSUME NEW j \in 1..(Len(s) - 1), NEW k \in 1..(Len(s) - 1),
                      r[j] = r[k]
               PROVE  j = k
    BY <1>2 DEF IsInjective
  <2>1. /\ j \in 1..Len(s) /\ j + 1 \in 1..Len(s)
        /\ k \in 1..Len(s) /\ k + 1 \in 1..Len(s)
    BY <1>2
  <2>2. /\ r[j] = IF j < i THEN s[j] ELSE s[j + 1]
        /\ r[k] = IF k < i THEN s[k] ELSE s[k + 1]
    BY <1>1
  <2>3. CASE j < i /\ k < i
    BY <2>1, <2>2, <2>3, <1>0
  <2>4. CASE j < i /\ ~(k < i)
    <3>1. s[j] = s[k + 1]
      BY <2>2, <2>4
    <3>2. j # k + 1
      BY <2>4, <1>2
    <3> QED BY <3>1, <3>2, <2>1, <1>0
  <2>5. CASE ~(j < i) /\ k < i
    <3>1. s[j + 1] = s[k]
      BY <2>2, <2>5
    <3>2. j + 1 # k
      BY <2>5, <1>2
    <3> QED BY <3>1, <3>2, <2>1, <1>0
  <2>6. CASE ~(j < i) /\ ~(k < i)
    <3>1. j + 1 = k + 1
      BY <2>1, <2>2, <2>6, <1>0
    <3> QED BY <3>1
  <2> QED BY <2>3, <2>4, <2>5, <2>6
<1>4. ASSUME NEW x \in Range(r) PROVE x \in Range(s) /\ x # s[i]
  <2>1. PICK j \in 1..(Len(s) - 1) : r[j] = x
    BY <1>2 DEF Range
  <2>2. PICK k \in 1..Len(s) : x = s[k] /\ k # i
    <3>1. CASE j < i
      <4>1. j \in 1..Len(s) /\ j # i
        BY <3>1, <1>2
      <4>2. r[j] = s[j]
        BY <3>1, <1>1
      <4> QED BY <4>1, <4>2, <2>1
    <3>2. CASE ~(j < i)
      <4>1. j + 1 \in 1..Len(s) /\ j + 1 # i
        BY <3>2, <1>2
      <4>2. r[j] = s[j + 1]
        BY <3>2, <1>1
      <4> QED BY <4>1, <4>2, <2>1
    <3> QED BY <3>1, <3>2
  <2> QED BY <2>2, <1>0, <1>2 DEF Range
<1>5. ASSUME NEW x \in Range(s), x # s[i] PROVE x \in Range(r)
  <2>1. PICK j \in 1..Len(s) : s[j] = x
    BY <1>2 DEF Range
  <2>2. CASE j < i
    <3>1. j \in 1..(Len(s) - 1)
      BY <2>2, <1>2
    <3> QED BY <3>1, <2>1, <2>2, <1>1, <1>2 DEF Range
  <2>3. CASE j > i
    <3>1. j - 1 \in 1..(Len(s) - 1) /\ ~(j - 1 < i) /\ j - 1 + 1 = j
      BY <2>3, <1>2
    <3>2. r[j - 1] = x
      BY <3>1, <2>1, <1>1
    <3> QED BY <3>1, <3>2, <1>2 DEF Range
  <2> QED BY <2>1, <2>2, <2>3, <1>5, <1>2
<1> QED BY <1>3, <1>4, <1>5 DEF r

(* Removing the first entry leaves the tail (waiters[1:] in releaseLocked). *)
LEMMA RemoveFirstIsTail ==
  ASSUME NEW S, NEW s \in Seq(S), s # << >>
  PROVE  RemoveAt(s, 1) = Tail(s)
<1>1. Len(s) \in Nat /\ Len(s) # 0 /\ 1 \in 1..Len(s)
  BY EmptySeq, LenProperties
<1>2. /\ RemoveAt(s, 1) \in Seq(S) /\ Len(RemoveAt(s, 1)) = Len(s) - 1
      /\ \A j \in 1..(Len(s) - 1) : RemoveAt(s, 1)[j] = s[j + 1]
  <2>1. \A j \in 1..(Len(s) - 1) :
          RemoveAt(s, 1)[j] = IF j < 1 THEN s[j] ELSE s[j + 1]
    BY <1>1, RemoveAtElements
  <2> QED BY <1>1, <2>1, RemoveAtElements
<1>3. /\ Tail(s) \in Seq(S) /\ Len(Tail(s)) = Len(s) - 1
      /\ \A j \in 1..(Len(s) - 1) : Tail(s)[j] = s[j + 1]
  BY HeadTailProperties
<1> QED BY <1>1, <1>2, <1>3, SeqEqual

(* A caller that is not in the queue joins it at the end, once (the append *)
(* to waiters in acquire).                                                 *)
LEMMA AppendInjectiveRange ==
  ASSUME NEW S, NEW s \in Seq(S), NEW x \in S, IsInjective(s), x \notin Range(s)
  PROVE  /\ Append(s, x) \in Seq(S) /\ Len(Append(s, x)) = Len(s) + 1
         /\ IsInjective(Append(s, x))
         /\ Range(Append(s, x)) = Range(s) \union {x}
<1> DEFINE r == Append(s, x)
<1>1. /\ r \in Seq(S) /\ Len(r) = Len(s) + 1 /\ DOMAIN r = 1..(Len(s) + 1)
      /\ DOMAIN s = 1..Len(s) /\ Len(s) \in Nat
      /\ \A j \in 1..Len(s) : r[j] = s[j]
      /\ r[Len(s) + 1] = x
  BY AppendProperties, LenProperties
<1> HIDE DEF r
<1>2. \A j \in 1..Len(s) : s[j] # x
  BY <1>1 DEF Range
<1>3. IsInjective(r)
  BY <1>1, <1>2 DEF IsInjective
<1>4. Range(r) = Range(s) \union {x}
  BY <1>1 DEF Range
<1> QED BY <1>1, <1>3, <1>4 DEF r

(* Only the empty queue has nobody in it (len(m.waiters) == 0).            *)
LEMMA EmptyRange ==
  ASSUME NEW S, NEW s \in Seq(S)
  PROVE  s = << >> <=> Range(s) = {}
<1>1. DOMAIN s = 1..Len(s) /\ Len(s) \in Nat
  BY LenProperties
<1>2. s = << >> <=> Len(s) = 0
  BY EmptySeq
<1>3. Len(s) # 0 => s[1] \in Range(s)
  BY <1>1 DEF Range
<1>4. Len(s) = 0 => Range(s) = {}
  BY <1>1 DEF Range
<1> QED BY <1>2, <1>3, <1>4
-----------------------------------------------------------------------------
(***************************************************************************)
(* The inductive invariant: the safety properties of Model, and how far    *)
(* the cleanup has got.                                                    *)
(***************************************************************************)
CleanupProgress ==
  /\ \A k \in Closers :
       /\ close[k] \in {"unregister", "finishNil"} => engineClosed
       /\ close[k] = "finishError" => ~engineClosed
       /\ close[k] = "finishNil" => ~registered
  /\ engineClosed /\ state # "Closed" =>
       \E k \in Closers : close[k] \in {"unregister", "finishNil"}
  /\ closeInProgress => state = "Closing"
  /\ engineClosed => state # "Open"
  /\ state = "Closed" => engineClosed

IInv ==
  /\ TypeOK
  /\ SlotHasOneOwner
  /\ QueueIsExact
  /\ IdleExactlyWhenDrained
  /\ CleanupIsExclusive
  /\ DoneIsNeverMissed
  /\ OwnedUntilReleased
  /\ CleanupProgress

(* What releaseLocked does to the queue, as a set.                         *)
LEMMA ReleaseLockedEffect ==
  ASSUME TypeOK, QueueIsExact, NEW g, releaseLocked(g)
  PROVE  \/ /\ waiters # << >> /\ active' = active /\ idleSet' = idleSet
            /\ waiters' \in Seq(Callers) /\ Len(waiters') <= QueueCapacity
            /\ IsInjective(waiters')
            /\ \E w \in Range(waiters) :
                 /\ Range(waiters') = Range(waiters) \ {w}
                 /\ granted' = [g EXCEPT ![w] = TRUE]
         \/ /\ waiters = << >> /\ waiters' = waiters /\ granted' = g
            /\ active' = FALSE
            /\ idleSet' = (idleSet \/ state = "Closing")
<1>1. CASE waiters = << >>
  BY <1>1 DEF releaseLocked, signalIdleLocked
<1>2. CASE waiters # << >>
  <2>1. waiters \in Seq(Callers) /\ Len(waiters) \in Nat /\ Len(waiters) # 0
    BY <1>2, EmptySeq, LenProperties DEF TypeOK
  <2>2. 1 \in 1..Len(waiters) /\ DOMAIN waiters = 1..Len(waiters)
    BY <2>1, LenProperties
  <2>3. /\ RemoveAt(waiters, 1) \in Seq(Callers)
        /\ Len(RemoveAt(waiters, 1)) = Len(waiters) - 1
    BY <2>1, <2>2, RemoveAtElements
  <2>4. /\ IsInjective(RemoveAt(waiters, 1))
        /\ Range(RemoveAt(waiters, 1)) = Range(waiters) \ {waiters[1]}
    BY <2>1, <2>2, RemoveAtInjective DEF QueueIsExact
  <2>5. waiters[1] \in Range(waiters)
    BY <2>2 DEF Range
  <2>6. Len(waiters) - 1 <= QueueCapacity
    BY <2>1, OptionsAssumption DEF TypeOK
  <2>7. /\ waiters' = RemoveAt(waiters, 1)
        /\ granted' = [g EXCEPT ![waiters[1]] = TRUE]
        /\ active' = active /\ idleSet' = idleSet
    BY <1>2 DEF releaseLocked
  <2> QED BY <1>2, <2>3, <2>4, <2>5, <2>6, <2>7
<1> QED BY <1>1, <1>2

(* Init and stuttering.                                                    *)
LEMMA InitInv == Init => IInv
<1> SUFFICES ASSUME Init PROVE IInv
  OBVIOUS
<1>0. waiters \in Seq(Callers) /\ Len(waiters) <= QueueCapacity
  <2>1. waiters = << >>
    BY DEF Init
  <2>2. waiters \in Seq(Callers) /\ Len(waiters) = 0
    BY <2>1, EmptySeq
  <2> QED BY <2>2, OptionsAssumption
<1>1. TypeOK
  BY <1>0 DEF Init, TypeOK, CallStates, CloseStates
<1>2. Range(waiters) = {} /\ IsInjective(waiters)
  BY DEF Init, Range, IsInjective
<1>3. QueueIsExact
  BY <1>2 DEF Init, QueueIsExact, Waits
<1> QED
  BY <1>1, <1>3 DEF Init, IInv, SlotHasOneOwner, IdleExactlyWhenDrained,
     CleanupIsExclusive, DoneIsNeverMissed, OwnedUntilReleased,
     CleanupProgress, Owns, Waits, Cleaning

(* The owner of the slot leaves: the oldest waiter owns it next, or nobody *)
(* does and a Close that waits for idle hears of it.                       *)
LEMMA SlotPasses ==
  ASSUME IInv, NEW c \in Callers, Owns(c),
         call' = [call EXCEPT ![c] = "out"],
         releaseLocked([granted EXCEPT ![c] = FALSE]),
         UNCHANGED <<state, closeInProgress, engineClosed, registered, callCtx,
                     closerVars>>
  PROVE  IInv'
<1> USE DEF CallStates, CloseStates, closerVars
<1>1. /\ TypeOK /\ SlotHasOneOwner /\ QueueIsExact /\ IdleExactlyWhenDrained
      /\ CleanupIsExclusive /\ DoneIsNeverMissed /\ OwnedUntilReleased
      /\ CleanupProgress
  BY DEF IInv
<1>2. active /\ ~idleSet /\ ~closeInProgress /\ ~engineClosed /\ ~Waits(c)
  BY <1>1 DEF SlotHasOneOwner, IdleExactlyWhenDrained, CleanupIsExclusive,
     Waits, Owns, TypeOK
<1>3. CASE waiters = << >>
  <2>1. /\ waiters' = waiters /\ granted' = [granted EXCEPT ![c] = FALSE]
        /\ active' = FALSE /\ idleSet' = (state = "Closing")
    BY <1>1, <1>2, <1>3, ReleaseLockedEffect DEF TypeOK
  <2>2. TypeOK'
    BY <1>1, <2>1 DEF TypeOK
  <2>3. \A d \in Callers : ~Owns(d)' /\ ~Waits(d)'
    BY <1>1, <1>3, <2>1, EmptyRange
    DEF SlotHasOneOwner, QueueIsExact, Owns, Waits, TypeOK
  <2>4. SlotHasOneOwner' /\ QueueIsExact'
    BY <1>1, <1>3, <2>1, <2>3, EmptyRange
    DEF SlotHasOneOwner, QueueIsExact, TypeOK, Owns
  <2>5. IdleExactlyWhenDrained'
    BY <1>1, <1>2, <1>3, <2>1
    DEF IdleExactlyWhenDrained, TypeOK, CleanupProgress
  <2>6. CleanupIsExclusive' /\ DoneIsNeverMissed' /\ OwnedUntilReleased'
        /\ CleanupProgress'
    BY <1>1, <2>3 DEF CleanupIsExclusive, DoneIsNeverMissed,
       OwnedUntilReleased, CleanupProgress, Cleaning
  <2> QED BY <2>2, <2>4, <2>5, <2>6 DEF IInv
<1>4. CASE waiters # << >>
  <2>1. PICK w \in Range(waiters) :
          /\ waiters' \in Seq(Callers) /\ Len(waiters') <= QueueCapacity
          /\ IsInjective(waiters') /\ Range(waiters') = Range(waiters) \ {w}
          /\ granted' = [granted EXCEPT ![c] = FALSE, ![w] = TRUE]
          /\ active' = active /\ idleSet' = idleSet
    BY <1>1, <1>4, ReleaseLockedEffect
  <2>2. w \in Callers /\ Waits(w) /\ w # c
    BY <1>1, <1>2 DEF QueueIsExact
  <2>3. TypeOK'
    BY <1>1, <2>1, <2>2 DEF TypeOK
  <2>4. \A d \in Callers : /\ Owns(d)' <=> d = w
                           /\ Waits(d)' <=> Waits(d) /\ d # w
    BY <1>1, <1>2, <2>1, <2>2 DEF SlotHasOneOwner, Owns, Waits, TypeOK
  <2>5. SlotHasOneOwner'
    BY <1>1, <1>2, <2>1, <2>2, <2>4 DEF SlotHasOneOwner, TypeOK, Waits, Owns
  <2>6. QueueIsExact'
    BY <1>1, <1>2, <2>1, <2>4 DEF QueueIsExact
  <2>7. IdleExactlyWhenDrained'
    BY <1>2, <2>1 DEF IdleExactlyWhenDrained
  <2>8. CleanupIsExclusive' /\ DoneIsNeverMissed' /\ OwnedUntilReleased'
        /\ CleanupProgress'
    BY <1>1, <1>2 DEF CleanupIsExclusive, DoneIsNeverMissed,
       OwnedUntilReleased, CleanupProgress, Cleaning
  <2> QED BY <2>3, <2>5, <2>6, <2>7, <2>8 DEF IInv
<1> QED BY <1>3, <1>4

(* Every step of a caller, through acquire, the wait, cancelWaiter and     *)
(* release, keeps the invariant.                                           *)
LEMMA CallerInv ==
  ASSUME IInv, NEW c \in Callers,
         CallerStep(c) \/ Predict(c) \/ WaiterGivesUp(c) \/ CallContextEnds(c)
  PROVE  IInv'
<1> USE DEF IInv, TypeOK, SlotHasOneOwner, QueueIsExact, IdleExactlyWhenDrained,
  CleanupIsExclusive, DoneIsNeverMissed, OwnedUntilReleased, CleanupProgress,
  Owns, Waits, Cleaning, CallStates, CloseStates,
  GoCall, GoClose, Return, modelVars, callerVars, closerVars
<1>1. CASE Predict(c)
  BY <1>1 DEF Predict
<1>2. CASE AcquireRefused(c)
  BY <1>2 DEF AcquireRefused
<1>3. CASE AcquireFree(c)
  BY <1>3 DEF AcquireFree
<1>4. CASE AcquireQueued(c)
  <2>1. c \notin Range(waiters) /\ waiters \in Seq(Callers) /\ IsInjective(waiters)
    BY <1>4 DEF AcquireQueued
  <2>2. /\ waiters' \in Seq(Callers) /\ Len(waiters') = Len(waiters) + 1
        /\ IsInjective(waiters') /\ Range(waiters') = Range(waiters) \union {c}
    BY <2>1, <1>4, AppendInjectiveRange DEF AcquireQueued
  <2>3. Len(waiters') <= QueueCapacity
    BY <2>1, <2>2, <1>4, LenProperties, OptionsAssumption
    DEF AcquireQueued, queueFull
  <2>4. waiters' # << >>
    BY <2>2, EmptyRange
  <2> QED BY <2>2, <2>3, <2>4, <1>4 DEF AcquireQueued
<1>5. CASE WaiterReady(c)
  BY <1>5 DEF WaiterReady
<1>6. CASE WaiterGivesUp(c)
  BY <1>6 DEF WaiterGivesUp
<1>7. CASE CancelWaiter(c)
  <2>1. CASE granted[c]
    BY <1>7, <2>1, SlotPasses DEF CancelWaiter
  <2>2. CASE ~granted[c]
    <3>1. PICK i \in 1..Len(waiters) :
            waiters[i] = c /\ waiters' = RemoveAt(waiters, i)
      BY <2>2, <1>7, LenProperties DEF CancelWaiter
    <3>2. /\ waiters' \in Seq(Callers) /\ Len(waiters') = Len(waiters) - 1
          /\ IsInjective(waiters') /\ Range(waiters') = Range(waiters) \ {c}
      BY <3>1, RemoveAtElements, RemoveAtInjective
    <3>3. Len(waiters') <= QueueCapacity
      BY <3>2, LenProperties, OptionsAssumption
    <3>4. waiters # << >>
      BY <2>2, <1>7, EmptyRange DEF CancelWaiter
    <3>5. idleSet' = idleSet /\ active
      BY <2>2, <1>7, <3>4 DEF CancelWaiter, signalIdleLocked
    <3>6. TypeOK'
      BY <2>2, <1>7, <3>2, <3>3, <3>5 DEF CancelWaiter
    <3>7. QueueIsExact' /\ SlotHasOneOwner' /\ IdleExactlyWhenDrained'
      <4>1. \A d \in Callers : /\ Owns(d)' <=> Owns(d)
                               /\ Waits(d)' <=> Waits(d) /\ d # c
        BY <2>2, <1>7 DEF CancelWaiter
      <4>2. SlotHasOneOwner'
        BY <4>1, <2>2, <1>7 DEF CancelWaiter
      <4>3. QueueIsExact'
        <5>1. Range(waiters') = {d \in Callers : Waits(d)}'
          <6> HIDE DEF Waits
          <6>1. Range(waiters) = {d \in Callers : Waits(d)}
            OBVIOUS
          <6> QED BY <6>1, <4>1, <3>2
        <5>2. active'
          BY <3>5, <2>2, <1>7 DEF CancelWaiter
        <5> QED BY <5>1, <5>2, <3>2
      <4>4. IdleExactlyWhenDrained'
        BY <3>5, <2>2, <1>7 DEF CancelWaiter
      <4> QED BY <4>2, <4>3, <4>4
    <3>8. CleanupIsExclusive' /\ DoneIsNeverMissed' /\ OwnedUntilReleased'
          /\ CleanupProgress'
      BY <2>2, <1>7 DEF CancelWaiter
    <3> QED BY <3>6, <3>7, <3>8
  <2> QED BY <2>1, <2>2
<1>8. CASE EnginePredictReturns(c)
  BY <1>8 DEF EnginePredictReturns
<1>9. CASE Release(c)
  <2>1. granted = [granted EXCEPT ![c] = FALSE]
    BY <1>9 DEF Release
  <2>2. releaseLocked([granted EXCEPT ![c] = FALSE])
    BY <1>9, <2>1 DEF Release
  <2>3. IInv /\ Owns(c) /\ call' = [call EXCEPT ![c] = "out"]
    BY <1>9 DEF Release
  <2>4. UNCHANGED <<state, closeInProgress, engineClosed, registered, callCtx,
                    closerVars>>
    BY <1>9 DEF Release
  <2> HIDE DEF IInv, Owns, closerVars
  <2> QED BY <2>2, <2>3, <2>4, SlotPasses
<1>10. CASE CallContextEnds(c)
  BY <1>10 DEF CallContextEnds
<1> QED BY <1>1, <1>2, <1>3, <1>4, <1>5, <1>6, <1>7, <1>8, <1>9, <1>10 DEF CallerStep

(* Every step of a Close, on each of its ways through model.go, keeps the  *)
(* invariant.                                                              *)
LEMMA CloserInv ==
  ASSUME IInv, NEW k \in Closers,
         CloserStep(k) \/ Close(k) \/ CloseGivesUp(k) \/ CloseContextEnds(k)
  PROVE  IInv'
<1> USE DEF IInv, TypeOK, SlotHasOneOwner, QueueIsExact, IdleExactlyWhenDrained,
  CleanupIsExclusive, DoneIsNeverMissed, OwnedUntilReleased, CleanupProgress,
  Owns, Waits, Cleaning, CallStates, CloseStates,
  GoCall, GoClose, Return, modelVars, callerVars, closerVars
<1>1. CASE Close(k)
  BY <1>1 DEF Close
<1>2. CASE CloseReturnsAtOnce(k)
  BY <1>2 DEF CloseReturnsAtOnce
<1>3. CASE CloseEnters(k)
  <2>1. TypeOK'
    BY <1>3 DEF CloseEnters, signalIdleLocked
  <2>2. SlotHasOneOwner' /\ QueueIsExact'
    BY <1>3 DEF CloseEnters
  <2>3. IdleExactlyWhenDrained'
    <3>1. CASE state = "Open"
      BY <1>3, <3>1 DEF CloseEnters, signalIdleLocked
    <3>2. CASE state = "Closing"
      BY <1>3, <3>2 DEF CloseEnters
    <3> QED BY <1>3, <3>1, <3>2 DEF CloseEnters
  <2>4. CASE active \/ waiters # << >>
    BY <1>3, <2>1, <2>2, <2>3, <2>4 DEF CloseEnters
  <2>5. CASE ~active /\ waiters = << >> /\ closeInProgress
    <3>1. /\ close' = [close EXCEPT ![k] = "doneWait"]
          /\ closeInProgress' = closeInProgress
          /\ state = "Closing" /\ state' = "Closing"
      BY <1>3, <2>5 DEF CloseEnters
    <3>2. CleanupIsExclusive'
      BY <1>3, <3>1 DEF CloseEnters
    <3>3. DoneIsNeverMissed'
      BY <2>5, <3>1
    <3>4. OwnedUntilReleased' /\ CleanupProgress'
      BY <1>3, <3>1 DEF CloseEnters
    <3> QED BY <2>1, <2>2, <2>3, <3>2, <3>3, <3>4
  <2>6. CASE ~active /\ waiters = << >> /\ ~closeInProgress
    <3>1. \A c \in Callers : ~Owns(c)' /\ ~Waits(c)'
      BY <1>3, <2>6, EmptyRange DEF CloseEnters
    <3>2. ~engineClosed
      BY <1>3, <2>6 DEF CloseEnters
    <3>3. close' = [close EXCEPT ![k] = "engine"] /\ closeInProgress'
      BY <1>3, <2>6 DEF CloseEnters
    <3>4. CleanupIsExclusive'
      BY <1>3, <2>6, <3>1, <3>2, <3>3 DEF CloseEnters
    <3>5. DoneIsNeverMissed' /\ OwnedUntilReleased' /\ CleanupProgress'
      BY <1>3, <2>6, <3>2, <3>3 DEF CloseEnters
    <3> QED BY <2>1, <2>2, <2>3, <3>4, <3>5
  <2> QED BY <2>4, <2>5, <2>6
<1>4. CASE CloseWakes(k)
  BY <1>4 DEF CloseWakes
<1>5. CASE CloseGivesUp(k)
  BY <1>5 DEF CloseGivesUp
<1>6. CASE EngineCloseSucceeds(k)
  <2>1. /\ close[k] = "engine" /\ close' = [close EXCEPT ![k] = "unregister"]
        /\ engineClosed' = TRUE
        /\ UNCHANGED <<state, active, waiters, granted, idleSet, closeInProgress,
                       registered, call, callCtx, closeCtx, doneClosed, ret>>
    BY <1>6 DEF EngineCloseSucceeds
  <2>2. /\ TypeOK' /\ SlotHasOneOwner' /\ QueueIsExact' /\ IdleExactlyWhenDrained'
        /\ OwnedUntilReleased' /\ DoneIsNeverMissed'
    BY <2>1
  <2>3. CleanupIsExclusive'
    BY <2>1
  <2>4. CleanupProgress'
    BY <2>1
  <2> QED BY <2>2, <2>3, <2>4
<1>7. CASE EngineCloseFails(k)
  BY <1>7 DEF EngineCloseFails
<1>8. CASE Unregister(k)
  <2>1. /\ close[k] = "unregister" /\ close' = [close EXCEPT ![k] = "finishNil"]
        /\ registered' = FALSE
        /\ UNCHANGED <<state, active, waiters, granted, idleSet, closeInProgress,
                       engineClosed, call, callCtx, closeCtx, doneClosed, ret>>
    BY <1>8 DEF Unregister
  <2>2. /\ TypeOK' /\ SlotHasOneOwner' /\ QueueIsExact' /\ IdleExactlyWhenDrained'
        /\ DoneIsNeverMissed'
    BY <2>1
  <2>3. CleanupIsExclusive'
    BY <2>1
  <2>4. OwnedUntilReleased' /\ CleanupProgress'
    BY <2>1
  <2> QED BY <2>2, <2>3, <2>4
<1>9. CASE CloseFinishes(k)
  <2>1. TypeOK'
    BY <1>9 DEF CloseFinishes
  <2>2. SlotHasOneOwner' /\ QueueIsExact'
    BY <1>9 DEF CloseFinishes
  <2>3. IdleExactlyWhenDrained'
    BY <1>9 DEF CloseFinishes
  <2>4. \A j \in Closers : ~Cleaning(j)'
    BY <1>9 DEF CloseFinishes
  <2>5. CleanupIsExclusive'
    BY <1>9, <2>4 DEF CloseFinishes
  <2>6. DoneIsNeverMissed'
    BY <1>9 DEF CloseFinishes
  <2>7. CleanupProgress' /\ OwnedUntilReleased'
    BY <1>9, <2>4 DEF CloseFinishes
  <2> QED BY <2>1, <2>2, <2>3, <2>5, <2>6, <2>7
<1>10. CASE CloseContextEnds(k)
  BY <1>10 DEF CloseContextEnds
<1> QED BY <1>1, <1>2, <1>3, <1>4, <1>5, <1>6, <1>7, <1>8, <1>9, <1>10 DEF CloserStep

(* Every step of the Model, of whichever goroutine, keeps the invariant.   *)
LEMMA NextInv == IInv /\ [Next]_vars => IInv'
<1> SUFFICES ASSUME IInv, [Next]_vars PROVE IInv'
  OBVIOUS
<1>1. CASE UNCHANGED vars
  BY <1>1 DEF vars, modelVars, callerVars, closerVars, IInv, TypeOK,
     SlotHasOneOwner, QueueIsExact, IdleExactlyWhenDrained,
     CleanupIsExclusive, DoneIsNeverMissed, OwnedUntilReleased,
     CleanupProgress, Owns, Waits, Cleaning
<1>2. CASE Next
  BY <1>2, CallerInv, CloserInv DEF Next
<1> QED BY <1>1, <1>2

(* The inductive invariant holds throughout (model.go as a whole).         *)
THEOREM Invariance == Spec => []IInv
<1>1. Spec => [](IInv)
  BY InitInv, NextInv, PTL DEF Spec
<1> QED BY <1>1

(* For every set of callers and closers and every queue capacity, the      *)
(* fields of the Model keep their types and the queue its bound (acquire). *)
THEOREM TypeCorrect == Spec => []TypeOK
<1>1. IInv => TypeOK
  BY DEF IInv
<1> QED BY <1>1, Invariance, PTL

(* A grant that races a cancellation or a timeout never leaks the slot and *)
(* never admits two callers at once (acquire, cancelWaiter, releaseLocked).*)
THEOREM MutualExclusion == Spec => []AdmissionIsExact
<1>1. IInv => AdmissionIsExact
  BY DEF IInv, AdmissionIsExact
<1> QED BY <1>1, Invariance, PTL

(* The idle signal is neither early nor missed (signalIdleLocked).         *)
THEOREM IdleSignal == Spec => []IdleExactlyWhenDrained
<1>1. IInv => IdleExactlyWhenDrained
  BY DEF IInv
<1> QED BY <1>1, Invariance, PTL

(* The engine is closed by one Close at a time, never again after success, *)
(* never while a call is admitted, and a Close that waits for another one  *)
(* is woken by it (closeInProgress and closeDone in Close).                *)
THEOREM ExclusiveCleanup == Spec => []CleanupIsShared
<1>1. IInv => CleanupIsShared
  BY DEF IInv, CleanupIsShared
<1> QED BY <1>1, Invariance, PTL

(* The Runtime owns the Model until its engine is released, and nil from   *)
(* Close means that it is (the order of unregister and modelClosed).       *)
THEOREM Ownership == Spec => []OwnedUntilReleased
<1>1. IInv => OwnedUntilReleased
  BY DEF IInv
<1> QED BY <1>1, Invariance, PTL
-----------------------------------------------------------------------------
(***************************************************************************)
(* Action property and refinement.                                         *)
(***************************************************************************)

(* Once a Close has begun nobody new is admitted, and the Model never      *)
(* opens again (acquire's first check against Close's assignments).        *)
THEOREM AdmissionStops == Spec => NoAdmissionAfterClose
<1> DEFINE NoNew ==
      state # "Open" =>
        /\ state' # "Open" /\ (state = "Closed" => state' = "Closed")
        /\ Range(waiters') \subseteq Range(waiters)
        /\ \A c \in Callers : Owns(c)' => Owns(c) \/ Waits(c)
<1>1. ASSUME IInv, IInv', [Next]_vars PROVE [NoNew]_vars
  <2> SUFFICES ASSUME Next, state # "Open" PROVE NoNew
    BY <1>1
  <2>0. /\ TypeOK /\ SlotHasOneOwner /\ QueueIsExact /\ CleanupProgress
        /\ CleanupIsExclusive /\ QueueIsExact' /\ TypeOK'
    BY <1>1 DEF IInv
  <2>1. ASSUME NEW c \in Callers,
               CallerStep(c) \/ Predict(c) \/ WaiterGivesUp(c) \/ CallContextEnds(c)
        PROVE  NoNew
    <3>1. state' = state
      BY <2>1 DEF CallerStep, AcquireRefused, AcquireFree, AcquireQueued,
         WaiterReady, CancelWaiter, EnginePredictReturns, Release, Predict,
         WaiterGivesUp, CallContextEnds, modelVars
    <3>2. /\ \A d \in Callers : Waits(d)' => Waits(d)
          /\ \A d \in Callers : Owns(d)' => Owns(d) \/ Waits(d)
      <4> USE <2>0 DEF Waits, Owns, TypeOK, GoCall, SlotHasOneOwner, modelVars,
                       CallStates
      <4>1. CASE AcquireRefused(c) \/ AcquireFree(c) \/ AcquireQueued(c)
        BY <4>1 DEF AcquireRefused, AcquireFree, AcquireQueued
      <4>2. CASE WaiterReady(c)
        BY <4>2 DEF WaiterReady
      <4>3. CASE (CancelWaiter(c) /\ granted[c]) \/ Release(c)
        <5> DEFINE g == [granted EXCEPT ![c] = FALSE]
        <5>1. releaseLocked(g) /\ call' = [call EXCEPT ![c] = "out"]
          <6>1. CASE CancelWaiter(c) /\ granted[c]
            BY <6>1 DEF CancelWaiter
          <6>2. CASE Release(c)
            <7>1. g = granted
              BY <6>2 DEF Release
            <7> QED BY <6>2, <7>1 DEF Release
          <6> QED BY <4>3, <6>1, <6>2
        <5>2. \/ granted' = g
              \/ \E w \in Callers : Waits(w) /\ granted' = [g EXCEPT ![w] = TRUE]
          BY <5>1, ReleaseLockedEffect, <2>0 DEF QueueIsExact
        <5> QED BY <5>1, <5>2
      <4>4. CASE CancelWaiter(c) /\ ~granted[c]
        BY <4>4 DEF CancelWaiter
      <4>5. CASE EnginePredictReturns(c) \/ Predict(c)
        BY <4>5 DEF EnginePredictReturns, Predict
      <4>6. CASE WaiterGivesUp(c) \/ CallContextEnds(c)
        BY <4>6 DEF WaiterGivesUp, CallContextEnds
      <4> QED BY <2>1, <4>1, <4>2, <4>3, <4>4, <4>5, <4>6 DEF CallerStep
    <3> QED BY <3>1, <3>2, <2>0 DEF QueueIsExact
  <2>2. ASSUME NEW k \in Closers,
               CloserStep(k) \/ Close(k) \/ CloseGivesUp(k) \/ CloseContextEnds(k)
        PROVE  NoNew
    <3>1. UNCHANGED <<waiters, granted, call>>
      BY <2>2 DEF CloserStep, CloseReturnsAtOnce, CloseEnters, CloseWakes,
         EngineCloseSucceeds, EngineCloseFails, Unregister, CloseFinishes,
         Close, CloseGivesUp, CloseContextEnds, modelVars, callerVars
    <3>2. state' # "Open" /\ (state = "Closed" => state' = "Closed")
      BY <2>2, <2>0 DEF CloserStep, CloseReturnsAtOnce, CloseEnters, CloseWakes,
         EngineCloseSucceeds, EngineCloseFails, Unregister, CloseFinishes,
         Close, CloseGivesUp, CloseContextEnds, modelVars, TypeOK
    <3> QED BY <3>1, <3>2 DEF Owns, Waits
  <2> QED BY <2>1, <2>2 DEF Next
<1> QED BY <1>1, Invariance, PTL DEF Spec, NoAdmissionAfterClose

(* The holder of the abstract slot is the caller that owns the real one.   *)
HolderOwns ==
  /\ \A c \in Callers : Owns(c) <=> Holder = c
  /\ active => Holder \in Callers
  /\ ~active => Holder = "no one"

(* The abstract holder is the caller that owns the slot, when one does.    *)
LEMMA HolderIsOwner == IInv => HolderOwns
<1> SUFFICES ASSUME IInv PROVE HolderOwns
  OBVIOUS
<1>1. CASE active
  <2>1. Holder \in Callers /\ Owns(Holder)
    BY <1>1 DEF SlotHasOneOwner, Holder, IInv
  <2> QED BY <1>1, <2>1 DEF SlotHasOneOwner, HolderOwns, IInv
<1>2. CASE ~active
  BY <1>2, CallersAssumption DEF SlotHasOneOwner, Holder, IInv, HolderOwns
<1> QED BY <1>1, <1>2 DEF TypeOK, IInv

(* A step that changes neither the slot nor who owns it keeps its holder.   *)
LEMMA SameHolder ==
  ASSUME HolderOwns, HolderOwns', active' = active,
         \A d \in Callers : Owns(d)' <=> Owns(d)
  PROVE  Holder' = Holder
<1>1. CASE active
  <2>1. Holder \in Callers /\ Owns(Holder)
    BY <1>1 DEF HolderOwns
  <2>2. PICK d \in Callers : d = Holder
    BY <2>1
  <2>3. Owns(d)'
    BY <2>1, <2>2
  <2> QED BY <2>2, <2>3 DEF HolderOwns
<1>2. CASE ~active
  BY <1>2 DEF HolderOwns
<1> QED BY <1>1, <1>2

(* Every step of a caller is a step of the abstract admission, or none.    *)
LEMMA CallerRefines ==
  ASSUME IInv, IInv', NEW c \in Callers,
         CallerStep(c) \/ Predict(c) \/ WaiterGivesUp(c) \/ CallContextEnds(c)
  PROVE  [A!Next]_A!vars
<1>0. /\ TypeOK /\ SlotHasOneOwner /\ QueueIsExact
      /\ TypeOK' /\ SlotHasOneOwner' /\ QueueIsExact'
  BY DEF IInv
<1>1. HolderOwns /\ HolderOwns'
  BY HolderIsOwner, PTL
<1>2. ASSUME UNCHANGED <<state, waiters, engineClosed, active>>,
             \A d \in Callers : Owns(d)' <=> Owns(d)
      PROVE  UNCHANGED A!vars
  BY <1>1, <1>2 DEF A!vars, HolderOwns
<1> USE DEF GoCall, modelVars
<1>3. CASE AcquireRefused(c) \/ Predict(c) \/ WaiterGivesUp(c) \/ CallContextEnds(c)
  BY <1>0, <1>2, <1>3 DEF AcquireRefused, Predict, WaiterGivesUp,
     CallContextEnds, Owns, TypeOK
<1>4. CASE WaiterReady(c) \/ EnginePredictReturns(c)
  BY <1>0, <1>2, <1>4 DEF WaiterReady, EnginePredictReturns, Owns, TypeOK
<1>5. CASE AcquireFree(c)
  <2>1. Holder = "no one" /\ Holder' = c
    BY <1>0, <1>1, <1>5 DEF AcquireFree, HolderOwns, Owns, TypeOK
  <2>2. A!Enter(c)
    BY <2>1, <1>5 DEF AcquireFree, A!Enter
  <2> QED BY <2>2 DEF A!Next
<1>6. CASE AcquireQueued(c)
  <2>1. Holder \in Callers /\ Holder # c /\ Holder # "no one"
    <3>1. active /\ ~Owns(c)
      BY <1>0, <1>6 DEF AcquireQueued, Owns, SlotHasOneOwner
    <3>2. Holder \in Callers /\ Holder # c
      BY <3>1, <1>1 DEF HolderOwns
    <3> QED BY <3>2, CallersAssumption
  <2>2. Holder' = Holder
    <3>1. active' = active /\ \A d \in Callers : Owns(d)' <=> Owns(d)
      BY <1>0, <1>6 DEF AcquireQueued, Owns, TypeOK
    <3> QED BY <3>1, <1>1, SameHolder
  <2>3. c \notin Range(waiters) /\ Len(waiters) < QueueCapacity
    BY <1>0, <1>6, LenProperties, OptionsAssumption
    DEF AcquireQueued, QueueIsExact, Waits, queueFull, TypeOK
  <2>4. A!Join(c)
    BY <2>1, <2>2, <2>3, <1>6 DEF AcquireQueued, A!Join, A!Range, Range
  <2> QED BY <2>4 DEF A!Next
<1>7. CASE (CancelWaiter(c) /\ granted[c]) \/ Release(c)
  <2> DEFINE g == [granted EXCEPT ![c] = FALSE]
  <2>1. /\ releaseLocked(g) /\ call' = [call EXCEPT ![c] = "out"]
        /\ UNCHANGED <<state, engineClosed>>
    <3>1. CASE CancelWaiter(c) /\ granted[c]
      BY <3>1 DEF CancelWaiter
    <3>2. CASE Release(c)
      <4>1. g = granted
        BY <1>0, <3>2 DEF Release, TypeOK, SlotHasOneOwner
      <4> QED BY <3>2, <4>1 DEF Release
    <3> QED BY <1>7, <3>1, <3>2
  <2>2. Owns(c) /\ Holder = c /\ active
    BY <1>0, <1>1, <1>7 DEF CancelWaiter, Release, Owns, HolderOwns, SlotHasOneOwner
  <2>3. CASE waiters = << >>
    <3>1. waiters' = waiters /\ active' = FALSE
      BY <2>1, <2>3 DEF releaseLocked
    <3>2. A!Leave(c)
      BY <3>1, <2>1, <2>2, <2>3, <1>1 DEF A!Leave, HolderOwns
    <3> QED BY <3>2 DEF A!Next
  <2>4. CASE waiters # << >>
    <3>1. /\ waiters' = RemoveAt(waiters, 1)
          /\ granted' = [g EXCEPT ![waiters[1]] = TRUE]
      BY <2>1, <2>4 DEF releaseLocked
    <3>2. waiters[1] \in Callers /\ Head(waiters) = waiters[1]
      BY <1>0, <2>4 DEF TypeOK
    <3>3. Holder' = Head(waiters)
      BY <1>0, <1>1, <3>1, <3>2 DEF HolderOwns, Owns, TypeOK
    <3>4. RemoveAt(waiters, 1) = Tail(waiters)
      BY <1>0, <2>4, RemoveFirstIsTail DEF TypeOK
    <3>5. A!Leave(c)
      BY <3>1, <3>3, <3>4, <2>1, <2>2, <2>4 DEF A!Leave
    <3> QED BY <3>5 DEF A!Next
  <2> QED BY <2>3, <2>4
<1>8. CASE CancelWaiter(c) /\ ~granted[c]
  <2>1. Holder' = Holder
    <3>1. active' = active /\ \A d \in Callers : Owns(d)' <=> Owns(d)
      BY <1>0, <1>8 DEF CancelWaiter, Owns, TypeOK
    <3> QED BY <3>1, <1>1, SameHolder
  <2>2. A!GiveUp(c)
    BY <2>1, <1>8 DEF CancelWaiter, A!GiveUp, A!RemoveAt, RemoveAt
  <2> QED BY <2>2 DEF A!Next
<1> QED BY <1>3, <1>4, <1>5, <1>6, <1>7, <1>8 DEF CallerStep

(* Every step of a Close is a step of the abstract admission, or none:     *)
(* Close begins (Shut) and the engine is released (Release).               *)
LEMMA CloserRefines ==
  ASSUME IInv, IInv', NEW k \in Closers,
         CloserStep(k) \/ Close(k) \/ CloseGivesUp(k) \/ CloseContextEnds(k)
  PROVE  [A!Next]_A!vars
<1>0. /\ TypeOK /\ IdleExactlyWhenDrained /\ CleanupIsExclusive
      /\ CleanupProgress /\ SlotHasOneOwner /\ QueueIsExact
  BY DEF IInv
<1>1. UNCHANGED <<active, waiters, granted, call>>
  BY DEF CloserStep, CloseReturnsAtOnce, CloseEnters, CloseWakes,
     EngineCloseSucceeds, EngineCloseFails, Unregister, CloseFinishes,
     Close, CloseGivesUp, CloseContextEnds, modelVars, callerVars
<1>2. UNCHANGED Holder
  BY <1>1 DEF Holder, Owns
<1>3. CASE CloseEnters(k)
  <2>1. CASE state = "Open"
    BY <1>1, <1>2, <1>3, <2>1 DEF CloseEnters, A!Next, A!Shut
  <2>2. CASE state # "Open"
    BY <1>1, <1>2, <1>3, <2>2 DEF CloseEnters, A!vars
  <2> QED BY <2>1, <2>2
<1>4. CASE EngineCloseSucceeds(k)
  <2>1. closeInProgress /\ state = "Closing" /\ ~engineClosed
    BY <1>0, <1>4 DEF EngineCloseSucceeds, GoClose, CleanupIsExclusive,
       CleanupProgress, Cleaning
  <2>2. ~active /\ waiters = << >>
    BY <1>0, <2>1, EmptyRange
    DEF CleanupIsExclusive, SlotHasOneOwner, QueueIsExact, TypeOK
  <2>3. A!Release
    BY <1>0, <1>2, <1>4, <2>1, <2>2
    DEF EngineCloseSucceeds, A!Release, modelVars, Holder
  <2> QED BY <2>3 DEF A!Next
<1>5. CASE CloseFinishes(k)
  <2>1. state = "Closing" /\ state' # "Open"
    BY <1>0, <1>5 DEF CloseFinishes, GoClose, CleanupIsExclusive,
       CleanupProgress, Cleaning
  <2> QED BY <1>1, <1>2, <1>5, <2>1 DEF CloseFinishes, A!vars
<1>6. CASE UNCHANGED <<state, engineClosed>>
  BY <1>1, <1>2, <1>6 DEF A!vars
<1> QED
  BY <1>3, <1>4, <1>5, <1>6 DEF CloserStep, CloseReturnsAtOnce, CloseWakes,
     EngineCloseFails, Unregister, Close, CloseGivesUp, CloseContextEnds,
     modelVars

(* Every behaviour of the Model is one of the abstract bounded FIFO slot:  *)
(* no overtaking, no second holder, no admission after Close has begun, no *)
(* release of the engine before the last admitted call has left.           *)
THEOREM Refinement == Spec => A!Safety
<1>1. Init => A!Init
  BY DEF Init, A!Init, Holder
<1>2. ASSUME IInv, IInv', [Next]_vars PROVE [A!Next]_A!vars
  <2>1. CASE UNCHANGED vars
    BY <2>1 DEF vars, modelVars, callerVars, A!vars, Holder, Owns
  <2>2. CASE Next
    BY <2>2, <1>2, CallerRefines, CloserRefines DEF Next
  <2> QED BY <1>2, <2>1, <2>2
<1> QED BY <1>1, <1>2, Invariance, PTL DEF Spec, A!Safety
=============================================================================
