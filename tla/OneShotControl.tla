---------------------------- MODULE OneShotControl ----------------------------
(***************************************************************************)
(* What a process promises about its group controls, whatever the order of *)
(* calls, failures and topology changes: it asks about one group once, and *)
(* only if the answer was good it acts, once, on that very group.          *)
(***************************************************************************)
EXTENDS Integers

CONSTANTS Targets, NoTarget

VARIABLES
    phase,    \* "unasked", "asked", "refused", "verified"
    target,   \* the group asked about
    applied,  \* the group acted on
    uses      \* how often

contractVars == <<phase, target, applied, uses>>

Init == phase = "unasked" /\ target = NoTarget /\ applied = NoTarget /\ uses = 0

Ask(t) ==
    /\ phase = "unasked"
    /\ phase' = "asked" /\ target' = t
    /\ UNCHANGED <<applied, uses>>

Answer(ok) ==
    /\ phase = "asked"
    /\ phase' = IF ok THEN "verified" ELSE "refused"
    /\ UNCHANGED <<target, applied, uses>>

Use ==
    /\ phase = "verified" /\ uses = 0
    /\ applied' = target /\ uses' = 1
    /\ UNCHANGED <<phase, target>>

Next == (\E t \in Targets : Ask(t)) \/ (\E ok \in BOOLEAN : Answer(ok)) \/ Use

Spec == Init /\ [][Next]_contractVars
=============================================================================
