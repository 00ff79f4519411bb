---------------------------- MODULE MC_StrictControl ----------------------------
(***************************************************************************)
(* The process of MC_BindingSnapshot with each licence it can run under:   *)
(* group snapshots in the group stages, strict controls in the others.     *)
(***************************************************************************)
EXTENDS StrictControl, MC_BindingSnapshot

(* The full licence, each way to miss one part of it, and a group stage.      *)
MCLicences ==
    [stage : {"active"}, authorized : {TRUE}, reviewed : BOOLEAN]
        \cup [stage : {"active"}, authorized : {FALSE}, reviewed : {TRUE}]
        \cup [stage : {"group"}, authorized : {FALSE}, reviewed : {FALSE}]

MCStrictInit ==
    /\ MCInit
    /\ ControlInit
    /\ licence \in MCLicences

MCStrictSpec == MCStrictInit /\ [][ControlNext]_strictVars
=============================================================================
