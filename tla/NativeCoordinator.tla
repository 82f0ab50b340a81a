-------------------------- MODULE NativeCoordinator --------------------------
(***************************************************************************)
(* The process-wide owner of the ONNX Runtime environment                  *)
(* (native_lifecycle.go: nativeCoordinator and nativeLease). Runtimes      *)
(* lease one shared environment; the last lease to close destroys it, and  *)
(* a failed destruction stays pending until it is retried.                 *)
(*                                                                         *)
(* Each operation holds the coordinator's mutex from its first test to its *)
(* return, calls into the library included, so it is a function from the   *)
(* state it finds to the set of its outcomes [ok, c]: whether it returns   *)
(* without an error, and the state it leaves. Module Runtime takes them as *)
(* steps.                                                                  *)
(***************************************************************************)
EXTENDS Integers, FiniteSets

CONSTANTS Keys,          \* nativeEnvironmentKey: path and digest of a library
          WrongVersion   \* the keys whose library reports another version

ASSUME KeysAssumption == WrongVersion \subseteq Keys /\ "none" \notin Keys

(* ort is the environment that exists in the library, orphaned that it was *)
(* left behind by an Initialize that failed; the other fields are the      *)
(* coordinator's.                                                          *)
NoEnvironment == [ort |-> "none", orphaned |-> FALSE, key |-> "none",
                  leases |-> 0, cleanupPending |-> FALSE]

Outcome(ok, c) == [ok |-> ok, c |-> c]

(* What resolveNativeEnvironmentKey finds: the variable that disables      *)
(* telemetry, the path in the other variable, and the file there. A key    *)
(* comes of an absolute path to a regular file with the pinned size and    *)
(* digest; anything else, or the end of the context, is an error.          *)
Surroundings == [telemetryDisabled : BOOLEAN, path : Keys \union {"unset", "relative"},
                 pinned : BOOLEAN]

resolveNativeEnvironmentKey(s) ==
  IF s.telemetryDisabled /\ s.path \in Keys /\ s.pinned THEN s.path ELSE "none"
-----------------------------------------------------------------------------
(***************************************************************************)
(* onnxRuntimeEnvironment, over the library.                               *)
(***************************************************************************)

(* The library refuses a second environment, and may fail. When telemetry  *)
(* cannot be switched off the new environment is destroyed, and that may   *)
(* fail as well: an error is returned and the environment stays.           *)
Initialize(c, key) ==
  IF c.ort # "none" THEN {Outcome(FALSE, c)}
  ELSE {Outcome(TRUE, [c EXCEPT !.ort = key]), Outcome(FALSE, c),
        Outcome(FALSE, [c EXCEPT !.ort = key, !.orphaned = TRUE])}

(* A library that is not initialized counts as destroyed.                  *)
Destroy(c) ==
  {Outcome(TRUE, [c EXCEPT !.ort = "none"])}
    \union IF c.ort = "none" THEN {} ELSE {Outcome(FALSE, c)}
-----------------------------------------------------------------------------
(***************************************************************************)
(* nativeCoordinator.acquire.                                              *)
(***************************************************************************)

(* The cleanup an earlier acquire could not finish is retried first.       *)
retryCleanup(c) ==
  {Outcome(d.ok, IF d.ok THEN [d.c EXCEPT !.key = "none", !.cleanupPending = FALSE]
                 ELSE d.c) : d \in Destroy(c)}

(* The initialized library is kept if its version is the pinned one, and   *)
(* destroyed if not; a failed destruction is left pending, without lease.  *)
validateVersion_Forgets(c, key) ==
  IF key \notin WrongVersion
  THEN {Outcome(TRUE, [c EXCEPT !.key = key, !.leases = 1])}
  ELSE {Outcome(FALSE, d.c) : d \in Destroy(c)}

validateVersion(c, key) ==
  IF key \notin WrongVersion
  THEN {Outcome(TRUE, [c EXCEPT !.key = key, !.leases = 1])}
  ELSE {Outcome(FALSE, IF d.ok THEN d.c
                       ELSE [d.c EXCEPT !.key = key, !.cleanupPending = TRUE])
          : d \in Destroy(c)}

acquireClean_AnyKey(c, key) ==
  IF c.leases > 0
  THEN {Outcome(TRUE, [c EXCEPT !.leases = @ + 1])}
  ELSE UNION {IF i.ok THEN validateVersion(i.c, key) ELSE {i}
                : i \in Initialize(c, key)}

acquireClean(c, key) ==
  IF c.leases > 0
  THEN IF c.key # key THEN {Outcome(FALSE, c)}
       ELSE {Outcome(TRUE, [c EXCEPT !.leases = @ + 1])}
  ELSE UNION {IF i.ok THEN validateVersion(i.c, key) ELSE {i}
                : i \in Initialize(c, key)}

(* While a pending cleanup still has its lease, only that lease's owner    *)
(* may retry it.                                                           *)
acquire(c, key) ==
  IF ~c.cleanupPending THEN acquireClean(c, key)
  ELSE IF c.leases > 0 THEN {Outcome(FALSE, c)}
  ELSE UNION {IF d.ok THEN acquireClean(d.c, key) ELSE {d} : d \in retryCleanup(c)}
-----------------------------------------------------------------------------
(***************************************************************************)
(* nativeLease.close, for a lease that is not released.                    *)
(***************************************************************************)
closeLease_DestroysEarly(c) ==
  {IF d.ok THEN Outcome(TRUE, [d.c EXCEPT !.key = "none", !.leases = @ - 1,
                                          !.cleanupPending = FALSE])
   ELSE Outcome(FALSE, [d.c EXCEPT !.cleanupPending = TRUE]) : d \in Destroy(c)}

closeLease_ReleasesOnFailure(c) ==
  IF c.leases > 1 THEN {Outcome(TRUE, [c EXCEPT !.leases = @ - 1])}
  ELSE {Outcome(d.ok, [d.c EXCEPT !.key = "none", !.leases = 0,
                                  !.cleanupPending = ~d.ok]) : d \in Destroy(c)}

closeLease(c) ==
  IF c.leases <= 0 THEN {Outcome(FALSE, c)}
  ELSE IF c.leases > 1 THEN {Outcome(TRUE, [c EXCEPT !.leases = @ - 1])}
  ELSE {IF d.ok THEN Outcome(TRUE, NoEnvironment)
        ELSE Outcome(FALSE, [d.c EXCEPT !.cleanupPending = TRUE]) : d \in Destroy(c)}
=============================================================================
