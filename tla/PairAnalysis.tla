----------------------------- MODULE PairAnalysis -----------------------------
(***************************************************************************)
(* The analysis of a paired batch, analyze_pairs.py, run at any moment of  *)
(* the batch: the executor runs it when it ends, an operator at any time,  *)
(* also beside a worker that outlived its executor.                        *)
(*                                                                         *)
(* The variables are the files the analysis reads; the executor and the    *)
(* workers behind them are those of PairedBatch, seen from these files.    *)
(* The analysis itself is a set of operators over them.                    *)
(***************************************************************************)
EXTENDS Integers, Sequences, FiniteSets, Descriptions

CONSTANTS
    Orders,  \* the order of each pair of the plan: "CT" or "TC"
    Trigger, \* T_cpu_trigger of a run, its clock begins anew
    Times    \* what the observer may note for entry and end of the graph

VARIABLES
    ledger,         \* attempts.json: the state of each run, in the order of the plan
    configuration,  \* per run: configuration.json, "none", "planned" or "other"
    raw             \* per run: raw.csv

vars == <<ledger, configuration, raw>>

Pairs == DOMAIN Orders
Runs == 1 .. 2 * Len(Orders)
Conditions == {"control", "treatment"}
Metrics == {"entry", "done"}

RunOf(pair, condition) ==
    IF (Orders[pair] = "CT") = (condition = "control") THEN 2 * pair - 1 ELSE 2 * pair

Unknown == -1
Known(x) == x # Unknown
NoRow == [trigger |-> Unknown, entry |-> Unknown, done |-> Unknown,
          correct |-> FALSE, complete |-> FALSE]

Init ==
    /\ ledger = <<>>
    /\ configuration = [i \in Runs |-> "none"]
    /\ raw = [i \in Runs |-> NoRow]

-----------------------------------------------------------------------------
(* The batch: external to the analysis.  A raw.csv that cannot be read, or    *)
(* has only its header, is one without a row.                                 *)
current == Len(ledger)

Reserve ==
    /\ current < Len(Orders) * 2
    /\ current # 0 => ledger[current] = "COMPLETE"
    /\ ledger' = Append(ledger, "RESERVED_OUTCOME_UNKNOWN")
    /\ UNCHANGED <<configuration, raw>>

Configure ==
    /\ current # 0 /\ configuration[current] = "none"
    /\ \E c \in {"planned", "other"} : configuration' = [configuration EXCEPT ![current] = c]
    /\ UNCHANGED <<ledger, raw>>

Row == [trigger : {Trigger, Unknown}, entry : Times \cup {Unknown}, done : Times \cup {Unknown},
        correct : BOOLEAN, complete : BOOLEAN]

WriteRow ==
    /\ current # 0 /\ configuration[current] # "none" /\ raw[current] = NoRow
    /\ \E row \in Row : raw' = [raw EXCEPT ![current] = row]
    /\ UNCHANGED <<ledger, configuration>>

\* application_valid of the worker (trial_record.h).
ApplicationValid(row) ==
    Known(row.trigger) /\ Known(row.entry) /\ row.trigger <= row.entry /\ row.entry <= row.done

\* validate_configuration() and validate_run() accept the run.
CompleteRun ==
    /\ current # 0 /\ ledger[current] = "RESERVED_OUTCOME_UNKNOWN"
    /\ configuration[current] = "planned"
    /\ raw[current].complete /\ raw[current].correct /\ ApplicationValid(raw[current])
    /\ ledger' = [ledger EXCEPT ![current] = "COMPLETE"]
    /\ UNCHANGED <<configuration, raw>>

Stop ==
    /\ current # 0 /\ ledger[current] = "RESERVED_OUTCOME_UNKNOWN"
    /\ ledger' = [ledger EXCEPT ![current] = "STOPPED_NO_RETRY"]
    /\ UNCHANGED <<configuration, raw>>

Next == Reserve \/ Configure \/ WriteRow \/ CompleteRun \/ Stop

Spec == Init /\ [][Next]_vars

-----------------------------------------------------------------------------
(* analyze(): one observation for each planned run, one entry for each pair.  *)
\* difference_ns()
Difference(end, begin) ==
    IF Known(end) /\ Known(begin) /\ end >= begin THEN end - begin ELSE Unknown

RunState(i) == IF i \in DOMAIN ledger THEN ledger[i] ELSE "NOT_STARTED"

\* Variant: the observations of a run that failed are left out.
IntervalIfNotStopped(i, metric) ==
    IF RunState(i) = "STOPPED_NO_RETRY" THEN Unknown
    ELSE Difference(raw[i][metric], raw[i].trigger)

\* entry_ns, done_ns of the observation, whatever became of the run.
Interval(i, metric) == Difference(raw[i][metric], raw[i].trigger)

Observed(pair, condition, metric) == Interval(RunOf(pair, condition), metric)

ConfigurationMatch(pair) ==
    \A c \in Conditions : configuration[RunOf(pair, c)] = "planned"

CompleteCorrect(pair) ==
    /\ ConfigurationMatch(pair)
    /\ \A c \in Conditions :
        LET i == RunOf(pair, c) IN RunState(i) = "COMPLETE" /\ raw[i].correct

Compared(pair, metric) ==
    /\ ConfigurationMatch(pair)
    /\ \A c \in Conditions : Known(Observed(pair, c, metric))

\* delta_entry_ns, delta_done_ns of pairs.csv.
Delta(pair, metric) ==
    IF Compared(pair, metric)
    THEN [known |-> TRUE,
          ns |-> Observed(pair, "control", metric) - Observed(pair, "treatment", metric)]
    ELSE [known |-> FALSE]

KnownOf(values) == SelectSeq(values, Known)
InOrder(pairs) ==
    CHOOSE s \in [1 .. Cardinality(pairs) -> pairs] :
        \A i, j \in 1 .. Cardinality(pairs) : i < j => s[i] < s[j]

ValuesOf(condition, metric) ==
    KnownOf([p \in Pairs |-> Observed(p, condition, metric)])

\* Variant: the known values of the two conditions are subtracted by position.
DifferencesByPosition(pairs, metric) ==
    LET c == KnownOf([i \in DOMAIN InOrder(pairs) |-> Observed(InOrder(pairs)[i], "control", metric)])
        t == KnownOf([i \in DOMAIN InOrder(pairs) |-> Observed(InOrder(pairs)[i], "treatment", metric)])
    IN  [i \in 1 .. (IF Len(c) < Len(t) THEN Len(c) ELSE Len(t)) |-> c[i] - t[i]]

\* paired_differences()
PairedDifferences(pairs, metric) ==
    LET compared == InOrder({p \in pairs : Compared(p, metric)})
    IN  [i \in DOMAIN compared |->
            Observed(compared[i], "control", metric) - Observed(compared[i], "treatment", metric)]

\* metrics[metric] of paired_analysis.json.
MetricOf(metric) ==
    LET deltas == PairedDifferences(Pairs, metric)
    IN  [control |-> Describe(ValuesOf("control", metric)),
         treatment |-> Describe(ValuesOf("treatment", metric)),
         delta |-> Describe(deltas),
         improved |-> Cardinality({i \in DOMAIN deltas : deltas[i] > 0}),
         worse |-> Cardinality({i \in DOMAIN deltas : deltas[i] < 0}),
         equal |-> Cardinality({i \in DOMAIN deltas : deltas[i] = 0}),
         by_order |-> [order \in {"CT", "TC"} |->
             Describe(PairedDifferences({p \in Pairs : Orders[p] = order}, metric))],
         complete_correct |-> Describe(PairedDifferences({p \in Pairs : CompleteCorrect(p)}, metric))]

-----------------------------------------------------------------------------
(* Properties.                                                                *)
\* A pair that is called complete and correct can be compared: the verdict comes
\* from the ledger, the comparison from the stamps (analyze(), lines 72 to 75).
CompletePairsCompared ==
    \A p \in Pairs, metric \in Metrics : CompleteCorrect(p) => Delta(p, metric).known

\* The statistics are those of the pairs: the differences of the summary are
\* the known ones of pairs.csv in order, which other code computes; the two
\* orders divide them, the three outcomes count them, and the complete subset
\* is as large as the set of complete pairs.
StatisticsOfThePairs ==
    \A metric \in Metrics :
        LET m == MetricOf(metric)
            listed == InOrder({p \in Pairs : Delta(p, metric).known})
        IN  /\ m.delta.values = [i \in DOMAIN listed |-> Delta(listed[i], metric).ns]
            /\ m.delta.n = m.by_order["CT"].n + m.by_order["TC"].n
            /\ m.delta.n = m.improved + m.worse + m.equal
            /\ m.complete_correct.n = Cardinality({p \in Pairs : CompleteCorrect(p)})

\* "All known application intervals are retained": as the batch goes on, fails
\* or is stopped, no interval and no difference reported once is lost or changed
\* in a later analysis.
ReportOnlyGrows ==
    [][/\ \A i \in Runs, metric \in Metrics :
            Known(Interval(i, metric)) => Interval(i, metric)' = Interval(i, metric)
       /\ \A p \in Pairs, metric \in Metrics :
            Delta(p, metric).known => Delta(p, metric)' = Delta(p, metric)]_vars
=============================================================================
