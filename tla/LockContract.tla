---------------------------- MODULE LockContract ----------------------------
(***************************************************************************)
(* What the session lock promises the person in front of it: once the      *)
(* session is locked, it opens only through a lock screen, after PAM       *)
(* accepted a password given since it was locked.  A lock screen may be    *)
(* lost and another put up in its place; neither opens the session, and    *)
(* an accepted password survives both.                                     *)
(***************************************************************************)

VARIABLES
  glass,      (* what is on the glass: the desktop, a lock screen, nothing  *)
  entitled    (* PAM accepted a password given since the session was locked *)

contractVars == <<glass, entitled>>

ContractInit == glass = "open" /\ ~entitled

Lock        == glass = "open" /\ glass' = "covered" /\ ~entitled'
LoseScreen  == glass = "covered" /\ glass' = "bare" /\ UNCHANGED entitled
RegainScreen == glass = "bare" /\ glass' = "covered" /\ UNCHANGED entitled
Accept      == glass # "open" /\ entitled' /\ UNCHANGED glass
Open        == glass = "covered" /\ entitled /\ glass' = "open" /\ ~entitled'

ContractNext == Lock \/ LoseScreen \/ RegainScreen \/ Accept \/ Open

ContractSpec == ContractInit /\ [][ContractNext]_contractVars
=============================================================================
