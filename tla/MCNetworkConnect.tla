--------------------------- MODULE MCNetworkConnect ---------------------------
(***************************************************************************)
(* NetworkConnect against one of its comments.                              *)
(***************************************************************************)
EXTENDS NetworkConnect

(* A typed key joins the network whose prompt it was typed under           *)
(* (take_prompted_intent: connect.rs:65-67 has the prompt name the intent  *)
(* so that a newer click's network does not get it).                       *)
KeyIsForItsNetwork ==
  \A t \in Tasks : tasks[t].typed \in {NoNetwork, tasks[t].intent}
=============================================================================
