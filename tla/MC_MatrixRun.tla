----------------------------- MODULE MC_MatrixRun -----------------------------
(* Two campaigns: one climbs from smoke to statistics and graphs, the other   *)
(* runs several modes in one invocation and pairs a group run.                *)
EXTENDS MatrixRun

Ask(modes, trials) ==
    [modes |-> modes, trials |-> trials, graph |-> FALSE, diagnostic |-> FALSE,
     confirmed |-> TRUE, extended |-> FALSE, reviewed |-> FALSE, config |-> "plain",
     int |-> 0, bg |-> 0, smoke |-> NoEvidence, primitive |-> NoEvidence, paired |-> NoEvidence]

OnGraph(r) == [r EXCEPT !.graph = TRUE, !.reviewed = TRUE]
WithWork(r, n) == [r EXCEPT !.int = n, !.bg = n]

MCIterations == {1, 2}

LadderRequests ==
    {Ask(<<"preempt-wait">>, n) : n \in {1, 10}}
    \cup {WithWork(Ask(<<"preempt-wait">>, 11), n) : n \in {1, 2}}
    \cup {OnGraph(Ask(<<mode>>, 1)) : mode \in {"preempt-wait", "realtime-restart"}}
    \cup {[Ask(<<"preempt-wait">>, 10) EXCEPT !.config = "forced", !.extended = TRUE]}

MatrixRequests ==
    {Ask(<<"none">>, 1), Ask(<<"int-only">>, 10), Ask(<<"none", "none">>, 1),
     Ask(<<"int-only", "none", "preempt-wait">>, 1), Ask(<<"group-preempt-wait">>, 1),
     [Ask(<<"int-only">>, 1) EXCEPT !.confirmed = FALSE],
     [WithWork(Ask(<<"group-bound-none">>, 1), 1) EXCEPT !.confirmed = FALSE]}

MCCampaigns ==
    {[requests |-> LadderRequests, invocations |-> 3],
     [requests |-> MatrixRequests, invocations |-> 2]}
=============================================================================
