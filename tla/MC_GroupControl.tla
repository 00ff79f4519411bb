--------------------------- MODULE MC_GroupControl ---------------------------
(***************************************************************************)
(* Three operations over up to three epochs: a query, a PREEMPT and a      *)
(* retry, or a failed query and a second one, with the object graph able   *)
(* to change twice, and a journal that the operations can fill.            *)
(***************************************************************************)
EXTENDS GroupControl
=============================================================================
