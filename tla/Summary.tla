------------------------------- MODULE Summary -------------------------------
(***************************************************************************)
(* The summary of a run, summarize.py: where the entry of the interactive  *)
(* graph lies relative to the begin of the RM call, and which rows count   *)
(* for what.                                                               *)
(*                                                                         *)
(* The clocks are here as they really are, which the program never sees:   *)
(* the GPU stamp g is the CPU time slope * g + offset.  The worker leaves  *)
(* pings before and after the trial (the CPU sends, the GPU stamps, the    *)
(* CPU observes) and one row.  The opt-in model of the summary assumes     *)
(* just this: an offset that is affine between the pings, and a margin for *)
(* the stamp of the entry.  Fractions are multiplied out by Span.          *)
(***************************************************************************)
EXTENDS Integers, Sequences

CONSTANTS
    Slopes, Offsets,  \* of the real relation between the clocks
    Stamps,           \* GPU stamps
    Slacks,           \* how long a ping may take on either side of its stamp
    Margin,           \* --calibration-margin-ns
    MaxPings          \* bound, per file

VARIABLES
    clock,   \* the real relation
    before,  \* int_calibration_before.csv
    after,   \* int_calibration_after.csv
    row      \* the row of raw.csv, with the real time of the entry

vars == <<clock, before, after, row>>

Unknown == -1
Known(x) == x # Unknown
NoRow == [status |-> "none"]
ACCEPTED == "CONTROL_ACCEPTED_EFFECT_UNVERIFIED"

Real(g) == clock.slope * g + clock.offset
Latest(pings) == pings[Len(pings)].seen

Init ==
    /\ clock \in [slope : Slopes, offset : Offsets]
    /\ before = <<>> /\ after = <<>> /\ row = NoRow

-----------------------------------------------------------------------------
(* The worker: external.                                                      *)
Pings == {[send |-> Real(g) - down, gpu |-> g, seen |-> Real(g) + up] :
            g \in Stamps, down \in Slacks, up \in Slacks}

\* A ping is sent when the one before was observed.
Pinged(pings, from) == {Append(pings, p) : p \in {q \in Pings : q.send >= from}}

CalibrateBefore ==
    /\ row = NoRow /\ Len(before) < MaxPings
    /\ before' \in Pinged(before, IF before = <<>> THEN -9 ELSE Latest(before))
    /\ UNCHANGED <<clock, after, row>>

\* The entry stamp is off by at most the margin; it is observed after the entry.
\* "ok": both the syscall and RM returned 0.  "sound": the trial is complete and
\* correct, its work overlapped, and no check found the BG work done already.
Measured(g, off, lag, rm) ==
    [entry : {Real(g) + off}, observed : {Real(g) + off + lag, Unknown}, gpu : {g, Unknown},
     rm : {rm}, ok : IF Known(rm) THEN BOOLEAN ELSE {FALSE}, sound : BOOLEAN,
     status : IF Known(rm) THEN {ACCEPTED, "CONTROL_FAILED"}
              ELSE {"CONTROL_RESULT_UNAVAILABLE", "SKIPPED_BY_DESIGN"}]

Trial ==
    /\ row = NoRow /\ before # <<>>
    /\ \E g \in Stamps, off \in -Margin .. Margin, lag \in Slacks :
        /\ Real(g) + off >= Latest(before)
        /\ \E rm \in {Unknown} \cup Latest(before) .. Real(g) + off + lag + 1 :
            row' \in Measured(g, off, lag, rm)
    /\ UNCHANGED <<clock, before, after>>

CalibrateAfter ==
    /\ row # NoRow /\ Len(after) < MaxPings
    /\ after' \in Pinged(after, IF after = <<>> THEN row.entry ELSE Latest(after))
    /\ UNCHANGED <<clock, before, row>>

Next == CalibrateBefore \/ Trial \/ CalibrateAfter

Spec == Init /\ [][Next]_vars

-----------------------------------------------------------------------------
(* CalibrationModel.                                                          *)
\* The bracket of the offset at one end: that of the ping with the least RTT.
Endpoint(pings) ==
    LET rtt(i) == pings[i].seen - pings[i].send
        best == CHOOSE i \in DOMAIN pings : \A j \in DOMAIN pings :
                    rtt(i) < rtt(j) \/ (rtt(i) = rtt(j) /\ i <= j)
        p == pings[best]
    IN  [gpu |-> p.gpu, low |-> p.send - p.gpu, high |-> p.seen - p.gpu]

Start == Endpoint(before)
End == Endpoint(after)
Span == End.gpu - Start.gpu

\* Without it the summary with a margin is refused.
HasModel == before # <<>> /\ after # <<>> /\ Start.gpu < End.gpu

Covered(g) == Start.gpu <= g /\ g <= End.gpu

\* Variant: each end is weighted by its own distance.
LowSwapped(g) ==
    g * Span + Start.low * (g - Start.gpu) + End.low * (End.gpu - g) - Margin * Span

\* interval(), times Span.
Low(g) ==
    g * Span + Start.low * (End.gpu - g) + End.low * (g - Start.gpu) - Margin * Span

High(g) ==
    g * Span + Start.high * (End.gpu - g) + End.high * (g - Start.gpu) + Margin * Span

-----------------------------------------------------------------------------
(* ordering() and the subsets of the rows.                                    *)
Ordering(r, model) ==
    IF ~ Known(r.rm)
    THEN IF r.status = "CONTROL_RESULT_UNAVAILABLE" THEN "ordering_ambiguous" ELSE "not_applicable"
    ELSE IF Known(r.observed) /\ r.observed < r.rm THEN "before_rm"
    ELSE IF model /\ Known(r.gpu) /\ Covered(r.gpu) /\ Low(r.gpu) > r.rm * Span THEN "after_rm"
    ELSE "ordering_ambiguous"

Status(r) == IF r.status = ACCEPTED /\ ~ r.ok THEN "INCONSISTENT_CONTROL_RECORD" ELSE r.status

Eligible(r, model) ==
    /\ Known(r.observed) /\ r.sound
    /\ Status(r) = ACCEPTED
    /\ Ordering(r, model) = "after_rm"

-----------------------------------------------------------------------------
(* Properties.                                                                *)
\* Under the assumption the model states, the real time of the entry lies in
\* the interval it computes, whatever the pings took (CalibrationModel).
TruthInInterval ==
    row # NoRow /\ HasModel /\ Known(row.gpu) /\ Covered(row.gpu) =>
        /\ Low(row.gpu) <= row.entry * Span
        /\ row.entry * Span <= High(row.gpu)

\* An order that is stated is the real one: "before_rm" from an observation, and
\* "after_rm" from the model, even where both could be derived (ordering()).
OrderingTrue ==
    row # NoRow => \A model \in {FALSE, HasModel} :
        /\ Ordering(row, model) = "before_rm" => row.entry < row.rm
        /\ Ordering(row, model) = "after_rm" => row.entry > row.rm

\* The model only ever decides what was ambiguous without it, and without it
\* nothing is called after the RM call (measurement.md, timing).
ModelOnlyDecides ==
    row # NoRow /\ HasModel =>
        \/ Ordering(row, TRUE) = Ordering(row, FALSE)
        \/ Ordering(row, FALSE) = "ordering_ambiguous" /\ Ordering(row, TRUE) = "after_rm"

\* A row that is eligible for the timing of the mechanism was requested, both
\* results were 0 and the graph was really entered after the call began.
EligibleIsEarned ==
    row # NoRow => \A model \in {FALSE, HasModel} :
        Eligible(row, model) => row.ok /\ Known(row.rm) /\ row.entry > row.rm
=============================================================================
