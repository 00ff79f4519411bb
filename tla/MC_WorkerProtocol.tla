--------------------------- MODULE MC_WorkerProtocol ---------------------------
(***************************************************************************)
(* Every mode that has an owner.  Two trials, one signal, one process      *)
(* killed.                                                                 *)
(***************************************************************************)
EXTENDS WorkerProtocol
=============================================================================
