--------------------------- MODULE MCSessionLock ---------------------------
(***************************************************************************)
(* What comments in the code claim of SessionLock and its bounded          *)
(* instances refute.                                                       *)
(***************************************************************************)
EXTENDS SessionLock

(* controller.rs: "the release names its acquisition", so that a session    *)
(* locked anew is not opened by the password that answered an earlier lock. *)
ReleaseNamesItsLock ==
  [][Released => \E grant \in answered : grant >= comp.since]_vars

(* state.rs: "a respawn must still retake a lock that was asked for and    *)
(* not yet confirmed", which leaves no bare session without a debt.        *)
EveryRespawnRetakes == (up /\ Bare) => Owed
=============================================================================
