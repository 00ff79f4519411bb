------------------------------ MODULE MC_Analysis ------------------------------
(* The analyses over small samples, clocks, batches and captures.             *)
EXTENDS Analyses

MCValues == {-2, -1, 0, 3}
MCSlopes == {2}
MCOffsets == {1}
MCStamps == {0, 1, 3}
MCSlacks == {0, 1}
MCOrders == <<"CT", "TC">>
MCTimes == 0 .. 2
=============================================================================
