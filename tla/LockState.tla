----------------------------- MODULE LockState -----------------------------
(***************************************************************************)
(* The Supervisor's record of the session lock and the pure transition     *)
(* table that moves it (supervisor/src/capabilities/lock/state.rs).        *)
(*                                                                         *)
(* PAM outcomes keep only the three classes the table tells apart:         *)
(* "success", "rejected" (AuthFailed, MaxTries) and "broken" (StartFailed, *)
(* PamError).  The drawable error keeps only who wrote it.                 *)
(***************************************************************************)
EXTENDS Naturals

PamOutcomes  == {"success", "rejected", "broken"}
LockOutcomes == {"locked", "refused", "finished", "unlocked"}
Errors       == {"none", "pam", "refused"}

LockStates ==
  [active: BOOLEAN, authenticating: BOOLEAN, attempts: Nat, error: Errors,
   unlocking: BOOLEAN, requested: BOOLEAN, acquisition: Nat]

DefaultLock ==
  [active |-> FALSE, authenticating |-> FALSE, attempts |-> 0,
   error |-> "none", unlocking |-> FALSE, requested |-> FALSE,
   acquisition |-> 0]

(* Deliberately wrong variants, each of one operator below: a mistake one  *)
(* edit away from the code, there to show which property notices it.       *)
LockRequestedUnrecorded(s) == [s EXCEPT !.error = "none"]

AuthenticatedKeepsLatch(s, outcome) ==
  IF outcome = "broken" THEN [s EXCEPT !.error = "pam"]
  ELSE [s EXCEPT !.authenticating = FALSE, !.unlocking = outcome = "success"]

ReportedEndedKeepsConversation(s) ==
  [s EXCEPT !.active = FALSE, !.requested = FALSE, !.error = "none",
            !.unlocking = FALSE]

RendererLostKeepsActive(s) ==
  [s EXCEPT !.requested = FALSE, !.authenticating = FALSE,
            !.unlocking = FALSE]

ReleasesAnyLock(s, acquisition) == s.active

ReleasesBackwards(s, acquisition) ==
  s.acquisition = acquisition /\ ~s.unlocking

MarkerAfterNeverSet(marker, outcome) == outcome = "refused" /\ marker

(* One operator per arm of apply. *)
LockRequested(s) ==
  [s EXCEPT !.requested = TRUE, !.error = "none"]

AuthenticationStarted(s) ==
  [s EXCEPT !.authenticating = TRUE]

Authenticated(s, outcome) ==
  IF outcome = "success"
  THEN [s EXCEPT !.authenticating = FALSE, !.error = "none",
                 !.unlocking = TRUE]
  ELSE [s EXCEPT !.authenticating = FALSE, !.error = "pam",
                 !.attempts = IF outcome = "rejected" THEN @ + 1 ELSE @]

ReportedLocked(s) ==
  [s EXCEPT !.active = TRUE, !.requested = FALSE, !.authenticating = FALSE,
            !.attempts = 0, !.error = "none", !.unlocking = FALSE,
            !.acquisition = @ + 1]

ReportedRefused(s) ==
  [s EXCEPT !.requested = FALSE, !.authenticating = FALSE,
            !.error = "refused"]

ReportedEnded(s) ==
  [s EXCEPT !.active = FALSE, !.requested = FALSE, !.authenticating = FALSE,
            !.error = "none", !.unlocking = FALSE]

Reported(s, outcome) ==
  CASE outcome = "locked"                   -> ReportedLocked(s)
    [] outcome = "refused"                  -> ReportedRefused(s)
    [] outcome \in {"finished", "unlocked"} -> ReportedEnded(s)

RendererLost(s) ==
  [s EXCEPT !.active = FALSE, !.requested = FALSE, !.authenticating = FALSE,
            !.unlocking = FALSE]

(* Whether a release scheduled for an acquisition still applies. *)
Releases(s, acquisition) == s.acquisition = acquisition /\ s.unlocking

MayAuthenticate(s) == s.active /\ ~s.authenticating

AcceptsOutcome(s, acquisition) == s.active /\ s.acquisition = acquisition

(* compositor_lock_change composed with SessionLockedFlag::apply: what the *)
(* marker file holds after a report.                                       *)
MarkerAfter(marker, outcome) ==
  CASE outcome = "locked"                   -> TRUE
    [] outcome \in {"finished", "unlocked"} -> FALSE
    [] outcome = "refused"                  -> marker
=============================================================================
