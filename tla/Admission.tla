------------------------------ MODULE Admission ------------------------------
(***************************************************************************)
(* What a Model promises its callers, independent of how it is built: one  *)
(* slot, a bounded first-come-first-served queue in front of it, an        *)
(* admission switch that is turned off once, and a resource (the engine)   *)
(* that is released only after everyone admitted has left.                 *)
(* Module Model is shown to implement this specification.                  *)
(***************************************************************************)
EXTENDS SequencesExt

CONSTANTS Callers,    \* the goroutines that call Predict, Choice, Score, Noul
          Capacity,   \* how many callers may wait
          NoOne       \* the holder of a free slot

VARIABLES open,       \* admission is on
          holder,     \* the caller that owns the slot, or NoOne
          queue,      \* the callers that wait, oldest first
          released    \* the resource behind the slot is gone

vars == <<open, holder, queue, released>>

Init ==
  /\ open = TRUE
  /\ holder = NoOne
  /\ queue = << >>
  /\ released = FALSE

(* A caller takes the free slot at once.                                   *)
Enter(c) ==
  /\ open /\ holder = NoOne
  /\ holder' = c
  /\ UNCHANGED <<open, queue, released>>

(* A caller that finds the slot taken joins the end of the queue.          *)
Join(c) ==
  /\ open /\ holder \notin {NoOne, c}
  /\ c \notin Range(queue)
  /\ Len(queue) < Capacity
  /\ queue' = Append(queue, c)
  /\ UNCHANGED <<open, holder, released>>

(* The holder leaves, and the slot goes to the oldest waiter.              *)
Leave(c) ==
  /\ holder = c
  /\ holder' = IF queue = << >> THEN NoOne ELSE Head(queue)
  /\ queue' = IF queue = << >> THEN queue ELSE Tail(queue)
  /\ UNCHANGED <<open, released>>

(* A waiter gives up, from any place of the queue.                         *)
GiveUp(c) ==
  \E i \in DOMAIN queue :
    /\ queue[i] = c
    /\ queue' = RemoveAt(queue, i)
    /\ UNCHANGED <<open, holder, released>>

Shut ==
  /\ open /\ open' = FALSE
  /\ UNCHANGED <<holder, queue, released>>

Release ==
  /\ ~open /\ holder = NoOne /\ queue = << >>
  /\ ~released /\ released' = TRUE
  /\ UNCHANGED <<open, holder, queue>>

Next ==
  \/ \E c \in Callers : Enter(c) \/ Join(c) \/ Leave(c) \/ GiveUp(c)
  \/ Shut
  \/ Release

Safety == Init /\ [][Next]_vars

(* Whoever holds the slot eventually leaves it.                            *)
Spec == Safety /\ \A c \in Callers : WF_vars(Leave(c))
=============================================================================
