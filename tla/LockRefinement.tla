--------------------------- MODULE LockRefinement ---------------------------
(***************************************************************************)
(* SessionLock implements LockContract wherever lock requests do not       *)
(* overlap and the compositor ends no lock of its own accord.              *)
(***************************************************************************)
EXTENDS SessionLock

GlassNow ==
  IF ~comp.locked THEN "open" ELSE IF Bare THEN "bare" ELSE "covered"

Contract == INSTANCE LockContract WITH
  glass <- GlassNow,
  entitled <- comp.locked /\ \E grant \in answered : grant >= comp.since

(* Every step of the four parties is a step the person in front of the     *)
(* lock was promised, or changes nothing they can see, until a lock is     *)
(* asked for while another is on its way: the commands that follow say     *)
(* which way and never which lock, and nothing is promised any more        *)
(* (controller.rs: lock, release; wayland/lock.rs).                        *)
KeepsTheContract ==
  /\ Contract!ContractInit
  /\ [][Contract!ContractNext \/ overlapped']_(Contract!contractVars)
=============================================================================
