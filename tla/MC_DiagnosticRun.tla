---------------------------- MODULE MC_DiagnosticRun ----------------------------
(***************************************************************************)
(* One D0 and two D1 invocations that name it, at once or one after the    *)
(* other; one interrupt of one of them, and a crash of each at any step.   *)
(***************************************************************************)
EXTENDS DiagnosticRun
=============================================================================
