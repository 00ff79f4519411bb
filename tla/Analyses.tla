------------------------------- MODULE Analyses -------------------------------
(***************************************************************************)
(* The three analyses and the statistics they share, over every input a    *)
(* behaviour can build.  A behaviour builds the input of one subject only: *)
(* the analyses share no state, and what the others would read stays as it *)
(* was.  The properties are those of the modules, stated there; where one  *)
(* is costly it is evaluated for the behaviours of its subject only.       *)
(***************************************************************************)
EXTENDS Descriptions, FiniteSets

CONSTANTS
    Values, MaxLength,                               \* bounds of a sample
    Slopes, Offsets, Stamps, Slacks, Margin, MaxPings,
    Orders, Trigger, Times,
    MaxSwitches, MaxFaults

VARIABLES
    subject,  \* the analysis whose input is built
    sample, clock, before, after, row, ledger, configuration, raw,
    now, resident, switches, marks, ran, export

rowsVars == <<clock, before, after, row>>
batchVars == <<ledger, configuration, raw>>
captureVars == <<now, resident, switches, marks, ran, export>>

Rows == INSTANCE Summary
Batch == INSTANCE PairAnalysis
Capture == INSTANCE DiagnosticAnalysis

ASSUME AnalysisAssumption ==
    /\ Values \subseteq Int /\ MaxLength \in Nat
    /\ Slopes \subseteq Nat \ {0} /\ Offsets \subseteq Nat
    /\ Stamps \subseteq Nat /\ Slacks \subseteq Nat
    /\ Margin \in Nat /\ MaxPings \in Nat \ {0}
    /\ Orders \in Seq({"CT", "TC"}) /\ Orders # <<>>
    /\ Trigger \in Nat /\ Times \subseteq Nat
    /\ MaxSwitches \in Nat /\ MaxFaults \in Nat

Init ==
    /\ subject \in {"sample", "rows", "batch", "capture"}
    /\ sample = <<>>
    /\ Rows!Init /\ Batch!Init /\ Capture!Init
    /\ subject # "capture" => resident = Capture!Work("other")

AddValue(v) ==
    /\ subject = "sample" /\ Len(sample) < MaxLength
    /\ sample' = Append(sample, v)
    /\ UNCHANGED <<rowsVars, batchVars, captureVars>>

RowsStep == subject = "rows" /\ Rows!Next /\ UNCHANGED <<sample, batchVars, captureVars>>
BatchStep == subject = "batch" /\ Batch!Next /\ UNCHANGED <<sample, rowsVars, captureVars>>
CaptureStep == subject = "capture" /\ Capture!Next /\ UNCHANGED <<sample, rowsVars, batchVars>>

Next ==
    /\ \/ \E v \in Values : AddValue(v)
       \/ RowsStep \/ BatchStep \/ CaptureStep
    /\ UNCHANGED subject

vars == <<subject, sample, rowsVars, batchVars, captureVars>>

Spec == Init /\ [][Next]_vars

-----------------------------------------------------------------------------
(* Properties.                                                                *)
NotAbove(x) == Cardinality({i \in DOMAIN sample : 100 * sample[i] <= x})
NotBelow(x) == Cardinality({i \in DOMAIN sample : 100 * sample[i] >= x})

\* The quantiles are in order, never outside the sample, and split it in the
\* proportion they are named for (quantiles(), summarize.py); the p50 is the median
\* that the pair analysis computes with other code.
QuantilesTrue ==
    sample # <<>> =>
        LET q == Quantiles100(sample)
            m == Describe(sample).median
        IN
        /\ 100 * Describe(sample).smallest <= q.p50 /\ q.p50 <= q.p95
        /\ q.p95 <= q.p99 /\ q.p99 <= q.largest
        /\ q.p50 * m.den = 100 * m.num
        /\ \A percent \in {50, 95, 99} :
            LET x == Quantile100(sample, percent)
                rank == (Len(sample) - 1) * percent
            IN  /\ NotAbove(x) * 100 > rank
                /\ NotBelow(x) * 100 > (Len(sample) - 1) * 100 - rank

\* What is said of the order of an entry and the RM call is true: its real time is in
\* the interval of the clock model, the order stated is the real one, the model only
\* decides what was ambiguous without it, and an eligible row was requested, accepted,
\* and entered after the call (Summary).
RowsTrue ==
    subject = "rows" =>
        /\ Rows!TruthInInterval /\ Rows!OrderingTrue /\ Rows!ModelOnlyDecides
        /\ Rows!EligibleIsEarned

\* A pair called complete and correct can be compared, and the statistics of a report
\* are those of its pairs (PairAnalysis).
PairsTrue == subject = "batch" => Batch!CompletePairsCompared /\ Batch!StatisticsOfThePairs

\* No interval or difference reported once is lost or changed later (PairAnalysis).
ReportOnlyGrows == Batch!ReportOnlyGrows

\* A ready capture is that of a whole, valid run, has every switch between its first
\* and its last record, and attributes them to the right owner (DiagnosticAnalysis).
CaptureTrue ==
    Capture!ReadyIsWholeRun /\ Capture!NothingLostInside /\ Capture!AssociationSound
=============================================================================
