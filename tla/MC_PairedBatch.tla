---------------------------- MODULE MC_PairedBatch ----------------------------
(***************************************************************************)
(* Two pairs in the two orders of the schedule, a budget of one slot per   *)
(* treatment run as in the plan, and two invocations: at once, or one      *)
(* after the other has ended or crashed.                                   *)
(***************************************************************************)
EXTENDS PairedBatch

OnePair == <<"control", "treatment">>
TwoPairs == <<"control", "treatment", "treatment", "control">>
=============================================================================
