-------------------------- MODULE PairedBatch_proofs --------------------------
(***************************************************************************)
(* The batch, for every plan, every budget and any number of executors that*)
(* are started, interrupted and killed: the ledger on disk is true of the  *)
(* workers.  Only one executor ever passes the marker; it writes the disk  *)
(* before it spawns, so that its own copy is at most one reservation ahead *)
(* of the disk; and a run is called COMPLETE only after its group is gone, *)
(* when nothing can change what was counted.                               *)
(***************************************************************************)
EXTENDS PairedBatch, SequenceTheorems, FiniteSetTheorems, TLAPS

Between == {"preflight", "check", "reserve"}
InGroup == {"wait", "grace", "group", "term"}
Running == {"spawn", "record", "validate"} \cup InGroup
Synced == Between \cup Running
Leaving == {"except", "finally"}
Busy == InTry \cup Leaving
Past == Busy \cup {"marked"}

Treatments(n) == {i \in 1 .. n : i \in Runs /\ Plan[i] = "treatment"}

\* A ledger that reserve() and its caller may have made.
Orderly(l) ==
    /\ Len(l.runs) <= Len(Plan)
    /\ l.slots <= MaxAttempts
    /\ Cardinality(Treatments(Len(l.runs))) <= l.slots
    /\ \A i \in 1 .. Len(l.runs) - 1 : l.runs[i].state = "COMPLETE"

AllComplete(l) == \A i \in DOMAIN l.runs : l.runs[i].state = "COMPLETE"

\* The disk l misses at most what the copy m has reserved since.
Behind(l, m) ==
    /\ l.slots <= m.slots /\ Len(l.runs) <= Len(m.runs)
    /\ l.stopped => m.stopped
    /\ \A i \in DOMAIN l.runs : m.runs[i] = l.runs[i]
    /\ \A i \in DOMAIN m.runs : m.runs[i].state = "COMPLETE" => i \in DOMAIN l.runs

\* One executor is past the marker, and before it nothing was written.
Admission ==
    /\ ~ ledger.started => ledger = EmptyLedger /\ spawned = <<>>
    /\ ~ marker => ~ ledger.started
    /\ \A e \in Executors :
        /\ pc[e] \in Past => marker
        /\ pc[e] \in {"loaded", "marked"} => mem[e] = EmptyLedger
        /\ pc[e] = "marked" => ~ ledger.started
    /\ \A d, e \in Executors : pc[d] \in Past /\ pc[e] \in Past => d = e

\* What an executor at p, with copy m, record c and outcome ok, knows of the disk and
\* of the workers.
Position(p, m, c, ok) ==
    /\ ledger.started /\ m.started
    /\ Orderly(m)
    /\ p \in InTry => ~ m.stopped
    /\ p \in Synced => ledger = m
    /\ p \in Between \cup {"persist"} =>
        AllComplete(ledger) /\ Len(spawned) = Len(ledger.runs)
    /\ p \in Leaving \cup {"persist"} => Behind(ledger, m)
    /\ p \in Running \cup {"persist"} =>
        c = Len(m.runs) /\ c \in Runs /\ m.runs[c].state = "RESERVED"
    /\ p = "persist" => Len(ledger.runs) = c - 1
    /\ p = "spawn" => Len(spawned) = c - 1
    /\ p \in InGroup => Len(spawned) = c
    /\ p \in {"record", "validate"} /\ ok => Len(spawned) = c /\ ~ GroupAlive(c)
    /\ p = "validate" /\ ok /\ m.runs[c].known => m.runs[c].attempts = actual[c]

Positions ==
    \A e \in Executors : pc[e] \in Busy => Position(pc[e], mem[e], current[e], clean[e])

\* Only the last run spawned may be alive, only a treatment that published makes a
\* request.
Workers ==
    /\ Len(spawned) <= Len(ledger.runs)
    /\ spawned = [k \in 1 .. Len(spawned) |-> k]
    /\ \A i \in Runs :
        /\ GroupAlive(i) => i = Len(spawned)
        /\ i > Len(spawned) => journal[i].preempt = "none"
        /\ journal[i].preempt = "none" => actual[i] = 0
        /\ journal[i].preempt # "none" => Plan[i] = "treatment"

BInv ==
    /\ BatchTypeOK /\ Admission /\ Positions /\ Workers
    /\ Orderly(ledger) /\ CompleteIsExact

-----------------------------------------------------------------------------
(* The runs of the plan are numbered from 1.                                  *)
LEMMA RunsAreNumbers ==
    /\ Len(Plan) \in Nat /\ Runs = 1 .. Len(Plan)
    /\ \A i \in Runs : Plan[i] \in {"control", "treatment"}
BY BatchAssumption DEF BatchAssumption, Runs

(* The treatments among the first n runs are a finite set, and one run more   *)
(* adds at most itself.                                                       *)
LEMMA TreatmentsFinite ==
    ASSUME NEW n \in Nat
    PROVE  IsFiniteSet(Treatments(n)) /\ Cardinality(Treatments(n)) \in Nat
<1>1. IsFiniteSet(1 .. n)
  BY FS_Interval
<1>2. Treatments(n) \subseteq 1 .. n
  BY DEF Treatments
<1>3. IsFiniteSet(Treatments(n))
  BY <1>1, <1>2, FS_Subset
<1> QED BY <1>3, FS_CardinalityType

LEMMA TreatmentsNext ==
    ASSUME NEW n \in Nat, n + 1 \in Runs
    PROVE  Cardinality(Treatments(n + 1)) =
              IF Plan[n + 1] = "treatment" THEN Cardinality(Treatments(n)) + 1
                                           ELSE Cardinality(Treatments(n))
<1>1. CASE Plan[n + 1] = "treatment"
  <2>1. Treatments(n + 1) = Treatments(n) \cup {n + 1} /\ n + 1 \notin Treatments(n)
    BY <1>1 DEF Treatments
  <2> QED BY <1>1, <2>1, TreatmentsFinite, FS_AddElement
<1>2. CASE Plan[n + 1] # "treatment"
  <2>1. Treatments(n + 1) = Treatments(n)
    BY <1>2 DEF Treatments
  <2> QED BY <1>2, <2>1
<1> QED BY <1>1, <1>2

(* Nothing was done before the first executor passed the marker.              *)
LEMMA InitEstablishes == Init => BInv
<1> SUFFICES ASSUME Init PROVE BInv
  OBVIOUS
<1>1. ledger = EmptyLedger /\ spawned = <<>> /\ marker = FALSE
  BY DEF Init
<1>2. EmptyLedger \in Ledgers /\ Len(EmptyLedger.runs) = 0 /\ EmptyLedger.slots = 0
      /\ ~ EmptyLedger.started /\ DOMAIN EmptyLedger.runs = {}
  BY DEF EmptyLedger, Ledgers
<1>3. BatchTypeOK
  <2>1. /\ marker \in BOOLEAN /\ dirs \subseteq Runs /\ spawned \in Seq(Runs)
        /\ ledger \in Ledgers /\ Len(ledger.runs) <= Len(Plan)
    <3>1. Len(ledger.runs) = 0 /\ ledger \in Ledgers
      BY <1>1, <1>2
    <3>2. dirs = {} /\ <<>> \in Seq(Runs)
      BY DEF Init
    <3>3. marker \in BOOLEAN
      BY <1>1, Zenon
    <3>4. Len(ledger.runs) <= Len(Plan)
      BY <3>1, RunsAreNumbers
    <3>5. spawned \in Seq(Runs) /\ dirs \subseteq Runs
      BY <1>1, <3>2
    <3> QED BY <3>1, <3>3, <3>4, <3>5, Zenon
  <2>2. /\ pc \in [Executors -> PCs] /\ mem \in [Executors -> Ledgers]
        /\ \A e \in Executors : Len(mem[e].runs) <= Len(Plan)
    BY <1>2, RunsAreNumbers DEF Init, PCs
  <2>3. /\ current \in [Executors -> 0 .. Len(Plan)]
        /\ interrupts \in [Executors -> 0 .. MaxInterrupts]
    BY RunsAreNumbers, BatchAssumption DEF Init, BatchAssumption
  <2>4. clean \in [Executors -> BOOLEAN]
    BY DEF Init
  <2>5. /\ leader \in [Runs -> {"none", "alive", "ok", "failed"}]
        /\ bg \in [Runs -> BOOLEAN] /\ actual \in [Runs -> 0 .. 1]
        /\ journal \in [Runs -> [owners : SUBSET Owners,
                                 preempt : {"none", "issued", "returned"}]]
    BY DEF Init
  <2> QED BY <2>1, <2>2, <2>3, <2>4, <2>5 DEF BatchTypeOK
<1>4. \A e \in Executors : pc[e] = "idle" /\ mem[e] = EmptyLedger
  BY DEF Init
<1>5. Admission /\ Positions
  BY <1>1, <1>2, <1>4 DEF Admission, Positions, Past, Busy, InTry, Leaving
<1>6. Workers
  BY <1>1, <1>2, RunsAreNumbers DEF Init, Workers, GroupAlive
<1>7. Orderly(ledger)
  <2>1. Treatments(0) = {}
    BY DEF Treatments
  <2>2. MaxAttempts \in Nat /\ Cardinality({}) = 0
    BY FS_EmptySet, BatchAssumption DEF BatchAssumption
  <2>3. Len(ledger.runs) = 0 /\ ledger.slots = 0
    BY <1>1, <1>2
  <2>4. Cardinality(Treatments(Len(ledger.runs))) = 0
    BY <2>1, <2>2, <2>3
  <2>5. 1 .. Len(ledger.runs) - 1 = {}
    BY <2>3
  <2>6. Len(ledger.runs) <= Len(Plan) /\ ledger.slots <= MaxAttempts
    BY <2>2, <2>3, RunsAreNumbers
  <2> QED BY <2>3, <2>4, <2>5, <2>6 DEF Orderly
<1>8. CompleteIsExact
  BY <1>1, <1>2 DEF CompleteIsExact
<1> QED BY <1>3, <1>5, <1>6, <1>7, <1>8 DEF BInv

-----------------------------------------------------------------------------
(* The executors.  Past the marker one acts alone: the positions of the       *)
(* others say nothing.                                                        *)
LEMMA ActsAlone ==
    ASSUME BInv, NEW e \in Executors, pc[e] \in Past,
           NEW w \in Busy \cup Finished, pc' = [pc EXCEPT ![e] = w],
           marker' = marker, \A d \in Executors \ {e} : mem'[d] = mem[d],
           ledger.started => ledger'.started,
           ~ ledger'.started => ledger' = ledger /\ spawned' = spawned,
           w \in Busy => Position(w, mem[e], current[e], clean[e])'
    PROVE  Admission' /\ Positions'
<1>1. \A d \in Executors \ {e} : pc'[d] = pc[d] /\ pc[d] \notin Past
  BY DEF BInv, BatchTypeOK, Admission
<1>2. pc'[e] = w /\ marker
  BY DEF BInv, BatchTypeOK, Admission
<1>3. w \notin {"loaded", "marked"} /\ "marked" \in Past /\ Busy \subseteq Past
  BY DEF Busy, InTry, Leaving, Finished, Past
<1>4. Admission'
  BY <1>1, <1>2, <1>3 DEF BInv, Admission
<1>5. Positions'
  BY <1>1, <1>2, <1>3 DEF Positions
<1> QED BY <1>4, <1>5

(* A step that only moves an executor on, and perhaps settles its outcome.    *)
LEMMA Moves ==
    ASSUME BInv, NEW e \in Executors, pc[e] \in Past,
           NEW w \in Busy \cup Finished, pc' = [pc EXCEPT ![e] = w],
           NEW ok \in BOOLEAN, clean' = [clean EXCEPT ![e] = ok],
           interrupts' \in [Executors -> 0 .. MaxInterrupts],
           UNCHANGED <<disk, mem, current, groups, spawned>>,
           w \in Busy => Position(w, mem[e], current[e], ok)
    PROVE  BInv'
<1>1. UNCHANGED <<marker, ledger, dirs, leader, bg, journal, actual>>
  BY DEF disk, groups
<1>2. BatchTypeOK'
  <2>1. w \in PCs
    BY DEF PCs, Busy, Leaving
  <2> QED BY <1>1, <2>1 DEF BInv, BatchTypeOK
<1>3. Workers' /\ Orderly(ledger)' /\ CompleteIsExact'
  BY <1>1 DEF BInv, Workers, GroupAlive, Orderly, CompleteIsExact
<1>4. w \in Busy => Position(w, mem[e], current[e], clean[e])'
  <2>1. clean'[e] = ok
    BY DEF BInv, BatchTypeOK
  <2> QED BY <1>1, <2>1 DEF Position, Orderly, AllComplete, Behind, GroupAlive
<1>5. Admission' /\ Positions'
  BY <1>1, <1>4, ActsAlone
<1> QED BY <1>2, <1>3, <1>5 DEF BInv

(* What the invariant says of an executor past the start.                     *)
LEMMA AtWork ==
    ASSUME BInv, NEW e \in Executors, pc[e] \in Busy
    PROVE  /\ Position(pc[e], mem[e], current[e], clean[e])
           /\ pc[e] \in Past
           /\ mem[e] \in Ledgers /\ clean[e] \in BOOLEAN
           /\ [pc EXCEPT ![e] = pc[e]] = pc /\ [clean EXCEPT ![e] = clean[e]] = clean
<1>1. mem[e] \in Ledgers /\ Position(pc[e], mem[e], current[e], clean[e]) /\ pc[e] \in Past
  BY DEF BInv, BatchTypeOK, Positions, Past
<1>2. clean \in [Executors -> BOOLEAN] /\ pc \in [Executors -> PCs]
  BY DEF BInv, BatchTypeOK
<1>3. clean[e] \in BOOLEAN /\ [clean EXCEPT ![e] = clean[e]] = clean
  BY <1>2
<1>4. [pc EXCEPT ![e] = pc[e]] = pc
  BY <1>2
<1> QED BY <1>1, <1>3, <1>4

(* A copy that was just written is not ahead of the disk.                     *)
LEMMA BehindSelf ==
    ASSUME NEW m \in Ledgers
    PROVE  Behind(m, m)
BY DEF Behind, Ledgers

(* The handler and finally are reached from anywhere in the try.              *)
LEMMA LeavesTry ==
    ASSUME NEW p \in InTry, NEW m \in Ledgers, NEW c, NEW ok, NEW other, NEW w \in Leaving,
           Position(p, m, c, ok)
    PROVE  Position(w, m, c, other)
<1>1. p \in Synced \/ p = "persist"
  BY DEF InTry, Synced, Between, Running, InGroup
<1>2. Behind(ledger, m)
  BY <1>1, BehindSelf DEF Position
<1>3. /\ w \notin InTry /\ w \notin Synced /\ w \notin Between \cup {"persist"}
      /\ w \notin Running \cup {"persist"} /\ w \notin InGroup
      /\ w \notin {"persist", "spawn", "record", "validate"}
  BY DEF Leaving, InTry, Synced, Between, Running, InGroup
<1> QED BY <1>2, <1>3 DEF Position

-----------------------------------------------------------------------------
LEMMA PreflightPreserves ==
    ASSUME BInv, NEW e \in Executors, Preflight(e)
    PROVE  BInv'
<1>1. pc[e] = "preflight" /\ pc' = [pc EXCEPT ![e] = "check"]
  BY DEF Preflight, Goto
<1>2. Position("preflight", mem[e], current[e], clean[e]) /\ pc[e] \in Past
      /\ clean[e] \in BOOLEAN /\ [clean EXCEPT ![e] = clean[e]] = clean
  BY <1>1, AtWork DEF Busy, InTry
<1>3. Position("check", mem[e], current[e], clean[e])
  BY <1>2 DEF Position, InTry, Leaving, Synced, Between, Running, InGroup
<1>4. "check" \in Busy \cup Finished /\ interrupts' \in [Executors -> 0 .. MaxInterrupts]
  BY DEF Preflight, BInv, BatchTypeOK, Busy, InTry
<1> QED BY <1>1, <1>2, <1>3, <1>4, Moves DEF Preflight

LEMMA SpawnFailsPreserves ==
    ASSUME BInv, NEW e \in Executors, SpawnFails(e)
    PROVE  BInv'
<1>1. pc[e] = "spawn" /\ pc' = [pc EXCEPT ![e] = "record"] /\ clean' = [clean EXCEPT ![e] = FALSE]
  BY DEF SpawnFails, Goto
<1>2. Position("spawn", mem[e], current[e], clean[e]) /\ pc[e] \in Past
  BY <1>1, AtWork DEF Busy, InTry
<1>3. Position("record", mem[e], current[e], FALSE)
  BY <1>2 DEF Position, InTry, Leaving, Synced, Between, Running, InGroup
<1>4. "record" \in Busy \cup Finished /\ interrupts' \in [Executors -> 0 .. MaxInterrupts]
  BY DEF SpawnFails, BInv, BatchTypeOK, Busy, InTry
<1> QED BY <1>1, <1>2, <1>3, <1>4, Moves DEF SpawnFails

(* The waits of run_process_group.                                            *)
LEMMA WaitEnds ==
    ASSUME BInv, NEW e \in Executors, pc[e] \in InGroup,
           NEW w \in InGroup, pc' = [pc EXCEPT ![e] = w],
           NEW ok \in BOOLEAN, clean' = [clean EXCEPT ![e] = ok],
           interrupts' \in [Executors -> 0 .. MaxInterrupts],
           UNCHANGED <<disk, mem, current, groups, spawned>>
    PROVE  BInv'
<1>1. pc[e] \in Busy /\ w \in Busy
  BY DEF Busy, InTry, InGroup
<1>2. Position(pc[e], mem[e], current[e], clean[e]) /\ pc[e] \in Past
  BY <1>1, AtWork
<1>3. Position(w, mem[e], current[e], ok)
  BY <1>2 DEF Position, InTry, Leaving, Synced, Between, Running, InGroup
<1> QED BY <1>1, <1>2, <1>3, Moves

LEMMA LeaderExitedPreserves ==
    ASSUME BInv, NEW e \in Executors, LeaderExited(e)
    PROVE  BInv'
<1>1. (leader[current[e]] = "ok") \in BOOLEAN
  OBVIOUS
<1>2. interrupts' \in [Executors -> 0 .. MaxInterrupts]
  BY DEF LeaderExited, BInv, BatchTypeOK
<1> QED BY <1>1, <1>2, WaitEnds DEF LeaderExited, Goto, InGroup

LEMMA WaitTimeoutPreserves ==
    ASSUME BInv, NEW e \in Executors, WaitTimeout(e)
    PROVE  BInv'
<1>1. interrupts' \in [Executors -> 0 .. MaxInterrupts]
  BY DEF WaitTimeout, BInv, BatchTypeOK
<1> QED BY <1>1, WaitEnds DEF WaitTimeout, Goto, InGroup

LEMMA GraceOverPreserves ==
    ASSUME BInv, NEW e \in Executors, GraceOver(e)
    PROVE  BInv'
<1>1. interrupts' \in [Executors -> 0 .. MaxInterrupts]
  BY DEF GraceOver, BInv, BatchTypeOK
<1>2. clean[e] \in BOOLEAN /\ clean' = [clean EXCEPT ![e] = clean[e]]
  BY AtWork DEF GraceOver, Busy, InTry
<1> QED BY <1>1, <1>2, WaitEnds DEF GraceOver, Goto, InGroup

LEMMA DescendantsRemainPreserves ==
    ASSUME BInv, NEW e \in Executors, DescendantsRemain(e)
    PROVE  BInv'
<1>1. interrupts' \in [Executors -> 0 .. MaxInterrupts]
  BY DEF DescendantsRemain, BInv, BatchTypeOK
<1> QED BY <1>1, WaitEnds DEF DescendantsRemain, Goto, InGroup

(* A signal that is received once more stays within the bound.                *)
LEMMA SignalledTyped ==
    ASSUME BInv, NEW e \in Executors, Signalled(e)
    PROVE  interrupts' \in [Executors -> 0 .. MaxInterrupts]
<1>1. interrupts[e] \in 0 .. MaxInterrupts /\ interrupts[e] < MaxInterrupts /\ MaxInterrupts \in Nat
  BY BatchAssumption DEF BInv, BatchTypeOK, Signalled, BatchAssumption
<1>2. interrupts[e] + 1 \in 0 .. MaxInterrupts
  BY <1>1
<1> QED BY <1>2 DEF BInv, BatchTypeOK, Signalled

LEMMA InterruptWaitPreserves ==
    ASSUME BInv, NEW e \in Executors, InterruptWait(e)
    PROVE  BInv'
<1>1. interrupts' \in [Executors -> 0 .. MaxInterrupts]
  BY SignalledTyped DEF InterruptWait
<1> QED BY <1>1, WaitEnds DEF InterruptWait, Goto, InGroup

(* The group is gone when the wait reports so.                                *)
LEMMA NoDescendantsPreserves ==
    ASSUME BInv, NEW e \in Executors, NoDescendants(e)
    PROVE  BInv'
<1>1. pc[e] = "group" /\ pc' = [pc EXCEPT ![e] = "record"] /\ ~ GroupAlive(current[e])
  BY DEF NoDescendants, Goto
<1>2. Position("group", mem[e], current[e], clean[e]) /\ pc[e] \in Past
      /\ clean[e] \in BOOLEAN /\ [clean EXCEPT ![e] = clean[e]] = clean
  BY <1>1, AtWork DEF Busy, InTry
<1>3. Position("record", mem[e], current[e], clean[e])
  BY <1>1, <1>2 DEF Position, InTry, Leaving, Synced, Between, Running, InGroup
<1>4. "record" \in Busy \cup Finished /\ interrupts' \in [Executors -> 0 .. MaxInterrupts]
  BY DEF NoDescendants, BInv, BatchTypeOK, Busy, InTry
<1> QED BY <1>1, <1>2, <1>3, <1>4, Moves DEF NoDescendants

LEMMA FailsPreserves ==
    ASSUME BInv, NEW e \in Executors, Fails(e)
    PROVE  BInv'
<1>1. pc[e] \in InTry /\ pc' = [pc EXCEPT ![e] = "except"] /\ pc[e] \in Busy
  BY DEF Fails, Goto, InTry, Busy
<1>2. /\ Position(pc[e], mem[e], current[e], clean[e]) /\ pc[e] \in Past
      /\ mem[e] \in Ledgers
      /\ clean[e] \in BOOLEAN /\ [clean EXCEPT ![e] = clean[e]] = clean
  BY <1>1, AtWork
<1>3. "except" \in Leaving /\ "except" \in Busy \cup Finished
  BY DEF Leaving, Busy
<1>4. Position("except", mem[e], current[e], clean[e])
  BY <1>1, <1>2, <1>3, LeavesTry
<1>5. interrupts' \in [Executors -> 0 .. MaxInterrupts]
  BY DEF Fails, BInv, BatchTypeOK
<1> QED BY <1>1, <1>2, <1>3, <1>4, <1>5, Moves DEF Fails

LEMMA InterruptPreserves ==
    ASSUME BInv, NEW e \in Executors, Interrupt(e)
    PROVE  BInv'
<1>1. pc[e] \in Busy
  BY DEF Interrupt, Busy, Leaving
<1>2. /\ Position(pc[e], mem[e], current[e], clean[e]) /\ pc[e] \in Past
      /\ mem[e] \in Ledgers
      /\ clean[e] \in BOOLEAN /\ [clean EXCEPT ![e] = clean[e]] = clean
  BY <1>1, AtWork
<1>3. interrupts' \in [Executors -> 0 .. MaxInterrupts]
  BY SignalledTyped DEF Interrupt
<1>4. UNCHANGED <<disk, mem, current, clean, groups, spawned>>
  BY DEF Interrupt
<1>5. CASE pc[e] \in InTry /\ pc' = [pc EXCEPT ![e] = "except"]
  <2>1. "except" \in Leaving /\ "except" \in Busy \cup Finished
    BY DEF Leaving, Busy
  <2>2. Position("except", mem[e], current[e], clean[e])
    BY <1>2, <1>5, <2>1, LeavesTry
  <2> QED BY <1>2, <1>3, <1>4, <1>5, <2>1, <2>2, Moves
<1>6. CASE pc[e] = "except" /\ pc' = [pc EXCEPT ![e] = "finally"]
  <2>1. "finally" \in Busy \cup Finished
    BY DEF Leaving, Busy
  <2>2. Position("finally", mem[e], current[e], clean[e])
    BY <1>2, <1>6 DEF Position, InTry, Leaving, Synced, Between, Running, InGroup
  <2> QED BY <1>2, <1>3, <1>4, <1>6, <2>1, <2>2, Moves
<1>7. CASE pc[e] = "finally" /\ pc' = [pc EXCEPT ![e] = "ended"]
  <2>1. "ended" \in Busy \cup Finished /\ "ended" \notin Busy
    BY DEF Leaving, Busy, InTry, Finished
  <2> QED BY <1>2, <1>3, <1>4, <1>7, <2>1, Moves
<1> QED BY <1>5, <1>6, <1>7 DEF Interrupt, Goto

LEMMA InterruptProbePreserves ==
    ASSUME BInv, NEW e \in Executors, InterruptProbe(e)
    PROVE  BInv'
<1>1. pc[e] \in Busy /\ pc' = pc
  BY DEF InterruptProbe, Busy, InTry
<1>2. /\ Position(pc[e], mem[e], current[e], clean[e]) /\ pc[e] \in Past
      /\ clean[e] \in BOOLEAN /\ [clean EXCEPT ![e] = clean[e]] = clean
      /\ [pc EXCEPT ![e] = pc[e]] = pc
  BY <1>1, AtWork
<1>3. interrupts' \in [Executors -> 0 .. MaxInterrupts]
  BY SignalledTyped DEF InterruptProbe
<1> QED BY <1>1, <1>2, <1>3, Moves DEF InterruptProbe

-----------------------------------------------------------------------------
(* Executors that have not passed the marker, and the step that passes it.    *)
LEMMA OutsidePreserves ==
    ASSUME BInv, NEW e \in Executors, pc[e] \in {"idle", "loaded"},
           NEW w \in {"loaded"} \cup Finished, pc' = [pc EXCEPT ![e] = w],
           NEW m \in Ledgers, Len(m.runs) <= Len(Plan), mem' = [mem EXCEPT ![e] = m],
           w = "loaded" => m = EmptyLedger,
           UNCHANGED <<disk, current, clean, interrupts, groups, spawned>>
    PROVE  BInv'
<1>1. UNCHANGED <<marker, ledger, dirs, leader, bg, journal, actual>>
  BY DEF disk, groups
<1>2. w \notin Past /\ w \in PCs /\ w # "marked" /\ Busy \subseteq Past /\ pc[e] \notin Past
  BY DEF Past, Busy, InTry, Leaving, Finished, PCs
<1>3. BatchTypeOK'
  BY <1>1, <1>2 DEF BInv, BatchTypeOK
<1>4. /\ pc'[e] = w /\ mem'[e] = m
      /\ \A d \in Executors \ {e} : pc'[d] = pc[d] /\ mem'[d] = mem[d]
  BY DEF BInv, BatchTypeOK
<1>5. Admission'
  BY <1>1, <1>2, <1>4 DEF BInv, Admission, Finished
<1>6. Positions'
  BY <1>1, <1>2, <1>4 DEF BInv, Positions, Position, Orderly, AllComplete, Behind, GroupAlive
<1>7. Workers' /\ Orderly(ledger)' /\ CompleteIsExact'
  BY <1>1 DEF BInv, Workers, GroupAlive, Orderly, CompleteIsExact
<1> QED BY <1>3, <1>5, <1>6, <1>7 DEF BInv

LEMMA LoadPreserves ==
    ASSUME BInv, NEW e \in Executors, Load(e) \/ LoadRefused(e) \/ MarkRefused(e)
    PROVE  BInv'
<1>1. CASE Load(e)
  <2>1. ledger = EmptyLedger /\ ledger \in Ledgers /\ Len(ledger.runs) <= Len(Plan)
    BY <1>1 DEF Load, BInv, Admission, BatchTypeOK
  <2> QED BY <1>1, <2>1, OutsidePreserves DEF Load, Goto
<1>2. CASE LoadRefused(e) \/ MarkRefused(e)
  <2>1. mem' = [mem EXCEPT ![e] = mem[e]] /\ mem[e] \in Ledgers /\ Len(mem[e].runs) <= Len(Plan)
    BY <1>2 DEF LoadRefused, MarkRefused, BInv, BatchTypeOK
  <2>2. /\ pc[e] \in {"idle", "loaded"} /\ pc' = [pc EXCEPT ![e] = "ended"]
        /\ UNCHANGED <<disk, current, clean, interrupts, groups, spawned>>
    BY <1>2 DEF LoadRefused, MarkRefused, Goto
  <2>3. "ended" \in {"loaded"} \cup Finished /\ ~ ("ended" = "loaded")
    BY DEF Finished
  <2> QED BY <2>1, <2>2, <2>3, OutsidePreserves
<1> QED BY <1>1, <1>2

LEMMA CrashPreserves ==
    ASSUME BInv, NEW e \in Executors, Crash(e)
    PROVE  BInv'
<1>1. /\ pc' = [pc EXCEPT ![e] = "crashed"]
      /\ UNCHANGED <<disk, mem, current, clean, interrupts, groups, spawned>>
      /\ pc[e] \in Past \/ pc[e] = "loaded"
  BY DEF Crash, Goto, BInv, BatchTypeOK, PCs, Past, Busy, Leaving, Finished
<1>2. CASE pc[e] = "loaded"
  <2>1. mem' = [mem EXCEPT ![e] = mem[e]] /\ mem[e] \in Ledgers /\ Len(mem[e].runs) <= Len(Plan)
    BY <1>1 DEF BInv, BatchTypeOK
  <2>2. "crashed" \in {"loaded"} \cup Finished /\ ~ ("crashed" = "loaded")
    BY DEF Finished
  <2>3. pc[e] \in {"idle", "loaded"}
    BY <1>2
  <2> QED BY <1>1, <2>1, <2>2, <2>3, OutsidePreserves
<1>3. CASE pc[e] \in Past
  <2>1. clean' = [clean EXCEPT ![e] = clean[e]] /\ clean[e] \in BOOLEAN
    <3>1. clean \in [Executors -> BOOLEAN]
      BY DEF BInv, BatchTypeOK
    <3> QED BY <1>1, <3>1
  <2>2. interrupts' \in [Executors -> 0 .. MaxInterrupts]
    BY <1>1 DEF BInv, BatchTypeOK
  <2>3. "crashed" \in Busy \cup Finished /\ "crashed" \notin Busy
    BY DEF Finished, Busy, InTry, Leaving
  <2> QED BY <1>1, <1>3, <2>1, <2>2, <2>3, Moves
<1> QED BY <1>1, <1>2, <1>3

(* The exclusive marker: nobody is past it while it does not exist.           *)
LEMMA MarkPreserves ==
    ASSUME BInv, NEW e \in Executors, Mark(e)
    PROVE  BInv'
<1>1. /\ pc[e] = "loaded" /\ marker = FALSE /\ marker' = TRUE /\ pc' = [pc EXCEPT ![e] = "marked"]
      /\ UNCHANGED <<ledger, dirs, mem, current, clean, interrupts, leader, bg, journal,
                     actual, spawned>>
  <2>1. marker = FALSE /\ marker' = TRUE
    BY Zenon DEF Mark, BInv, BatchTypeOK
  <2> QED BY <2>1 DEF Mark, Goto, groups
<1>2. "marked" \notin Busy /\ "marked" \in PCs /\ "marked" \in Past /\ Busy \subseteq Past
  BY DEF Past, Busy, InTry, Leaving, PCs
<1>3. BatchTypeOK'
  <2>1. marker' \in BOOLEAN
    BY <1>1, Zenon
  <2> QED BY <1>1, <1>2, <2>1 DEF BInv, BatchTypeOK
<1>4. /\ pc'[e] = "marked"
      /\ \A d \in Executors \ {e} : pc'[d] = pc[d] /\ pc[d] \notin Past
  BY <1>1 DEF BInv, BatchTypeOK, Admission
<1>5. ~ ledger.started
  BY <1>1 DEF BInv, Admission
<1>6. Admission'
  BY <1>1, <1>2, <1>4, <1>5 DEF BInv, Admission
<1>7. Positions'
  BY <1>2, <1>4 DEF Positions
<1>8. Workers' /\ Orderly(ledger)' /\ CompleteIsExact'
  BY <1>1 DEF BInv, Workers, GroupAlive, Orderly, CompleteIsExact
<1> QED BY <1>3, <1>6, <1>7, <1>8 DEF BInv

-----------------------------------------------------------------------------
(* Steps that change the copy of the executor, and perhaps write it.          *)
Exact(l) ==
    \A i \in DOMAIN l.runs :
        l.runs[i].state = "COMPLETE" =>
            ~ GroupAlive(i) /\ l.runs[i].known /\ l.runs[i].attempts = actual[i]

LEMMA Writes ==
    ASSUME BInv, NEW e \in Executors, pc[e] \in Past,
           NEW w \in Busy \cup Finished, pc' = [pc EXCEPT ![e] = w],
           NEW m \in Ledgers, mem' = [mem EXCEPT ![e] = m], Orderly(m),
           \/ ledger' = ledger
           \/ ledger' = m /\ m.started /\ Exact(m) /\ Len(ledger.runs) <= Len(m.runs),
           NEW c \in 0 .. Len(Plan), current' = [current EXCEPT ![e] = c],
           interrupts' \in [Executors -> 0 .. MaxInterrupts], dirs' \subseteq Runs,
           UNCHANGED <<marker, clean, groups, spawned>>,
           w \in Busy => Position(w, mem[e], current[e], clean[e])'
    PROVE  BInv'
<1>1. UNCHANGED <<leader, bg, journal, actual>>
  BY DEF groups
<1>2. mem'[e] = m /\ current'[e] = c /\ \A d \in Executors \ {e} : mem'[d] = mem[d]
  BY DEF BInv, BatchTypeOK
<1>3. BatchTypeOK'
  <2>1. w \in PCs /\ Len(m.runs) <= Len(Plan)
    BY DEF PCs, Busy, Leaving, Orderly
  <2>2. ledger' \in Ledgers /\ Len(ledger'.runs) <= Len(Plan)
    BY <2>1 DEF BInv, BatchTypeOK
  <2>3. marker' \in BOOLEAN
    BY Zenon DEF BInv, BatchTypeOK
  <2> QED BY <1>1, <1>2, <2>1, <2>2, <2>3 DEF BInv, BatchTypeOK
<1>5. Admission' /\ Positions'
  BY <1>2, ActsAlone
<1>6. Len(ledger.runs) <= Len(ledger'.runs) /\ Len(ledger.runs) \in Nat /\ Len(ledger'.runs) \in Nat
      /\ Len(spawned) \in Nat
  BY DEF BInv, BatchTypeOK, Ledgers
<1>7. Workers'
  BY <1>1, <1>6 DEF BInv, Workers, GroupAlive
<1>8. Orderly(ledger)'
  BY DEF BInv, Orderly
<1>9. CompleteIsExact'
  BY <1>1 DEF BInv, CompleteIsExact, Exact, GroupAlive
<1> QED BY <1>3, <1>5, <1>7, <1>8, <1>9 DEF BInv

(* The batch starts: the first write to the ledger.                           *)
LEMMA BeginPreserves ==
    ASSUME BInv, NEW e \in Executors, Begin(e)
    PROVE  BInv'
<1> DEFINE m == [EmptyLedger EXCEPT !.started = TRUE]
<1>1. pc[e] = "marked" /\ pc[e] \in Past
  BY DEF Begin, Past
<1>2. mem[e] = EmptyLedger /\ ledger = EmptyLedger /\ spawned = <<>>
  BY <1>1 DEF BInv, Admission
<1>3. /\ m \in Ledgers /\ m.started /\ ~ m.stopped /\ m.slots = 0 /\ m.runs = <<>>
      /\ DOMAIN m.runs = {} /\ Len(m.runs) = 0
  <2>1. /\ EmptyLedger \in Ledgers /\ EmptyLedger.slots = 0 /\ EmptyLedger.runs = <<>>
        /\ ~ EmptyLedger.stopped
    BY DEF EmptyLedger, Ledgers
  <2>2. m \in Ledgers
    BY <2>1 DEF Ledgers
  <2>3. m.slots = 0 /\ m.runs = <<>> /\ ~ m.stopped
    BY <2>1 DEF Ledgers
  <2>4. m.started
    BY <2>1 DEF Ledgers
  <2>5. DOMAIN m.runs = {} /\ Len(m.runs) = 0
    BY <2>3
  <2> QED BY <2>2, <2>3, <2>4, <2>5
<1>4. /\ mem' = [mem EXCEPT ![e] = m] /\ ledger' = m /\ pc' = [pc EXCEPT ![e] = "preflight"]
      /\ UNCHANGED <<marker, dirs, current, clean, interrupts, groups, spawned>>
  <2>1. mem' = [mem EXCEPT ![e].started = TRUE] /\ ledger' = mem'[e]
    BY DEF Begin
  <2>2. mem' = [mem EXCEPT ![e] = m]
    BY <1>2, <2>1 DEF BInv, BatchTypeOK
  <2>3. mem'[e] = m
    BY <2>2 DEF BInv, BatchTypeOK
  <2> QED BY <2>1, <2>2, <2>3 DEF Begin, Goto
<1>5. Orderly(m)
  BY <1>2, <1>3 DEF BInv, Orderly, EmptyLedger
<1>6. Exact(m) /\ Len(ledger.runs) <= Len(m.runs)
  BY <1>2, <1>3 DEF Exact, EmptyLedger
<1>7. /\ current[e] \in 0 .. Len(Plan) /\ current' = [current EXCEPT ![e] = current[e]]
      /\ interrupts' \in [Executors -> 0 .. MaxInterrupts] /\ dirs' \subseteq Runs
  BY <1>4 DEF BInv, BatchTypeOK
<1> HIDE DEF m
<1>8. Position("preflight", mem[e], current[e], clean[e])'
  <2>1. spawned' = <<>> /\ ledger' = m /\ mem'[e] = m
    BY <1>2, <1>3, <1>4 DEF BInv, BatchTypeOK
  <2>2. Orderly(mem[e])' /\ AllComplete(ledger)' /\ Len(spawned') = 0
    BY <1>3, <1>5, <2>1 DEF AllComplete, Orderly
  <2> QED BY <1>3, <2>1, <2>2 DEF Position, InTry, Leaving, Synced, Between, Running, InGroup
<1>9. "preflight" \in Busy \cup Finished
  BY DEF Busy, InTry
<1> QED BY <1>1, <1>3, <1>4, <1>5, <1>6, <1>7, <1>8, <1>9, Writes

LEMMA CheckRunPreserves ==
    ASSUME BInv, NEW e \in Executors, CheckRun(e)
    PROVE  BInv'
<1>1. /\ pc[e] = "check" /\ pc' = [pc EXCEPT ![e] = "reserve"]
      /\ current' = [current EXCEPT ![e] = 0] /\ dirs' \subseteq Runs
      /\ UNCHANGED <<marker, ledger, mem, clean, interrupts, groups, spawned>>
  BY DEF CheckRun, Goto, BInv, BatchTypeOK
<1>2. Position("check", mem[e], current[e], clean[e]) /\ pc[e] \in Past /\ mem[e] \in Ledgers
  BY <1>1, AtWork DEF Busy, InTry
<1>3. Orderly(mem[e]) /\ mem' = [mem EXCEPT ![e] = mem[e]]
  BY <1>1, <1>2 DEF Position, BInv, BatchTypeOK
<1>4. Position("reserve", mem[e], current[e], clean[e])'
  <2>1. mem'[e] = mem[e] /\ clean'[e] = clean[e] /\ current'[e] = 0
    BY <1>1 DEF BInv, BatchTypeOK
  <2>2. Position("reserve", mem[e], 0, clean[e])
    BY <1>2 DEF Position, InTry, Leaving, Synced, Between, Running, InGroup
  <2> QED BY <1>1, <2>1, <2>2
      DEF Position, Orderly, AllComplete, Behind, GroupAlive, groups
<1>5. "reserve" \in Busy \cup Finished /\ interrupts' \in [Executors -> 0 .. MaxInterrupts]
      /\ 0 \in 0 .. Len(Plan)
  BY <1>1, RunsAreNumbers DEF BInv, BatchTypeOK, Busy, InTry
<1> QED BY <1>1, <1>2, <1>3, <1>4, <1>5, Writes

LEMMA AllRunsDonePreserves ==
    ASSUME BInv, NEW e \in Executors, AllRunsDone(e)
    PROVE  BInv'
<1> DEFINE m == [mem[e] EXCEPT !.completed = TRUE]
<1>1. /\ pc[e] = "check" /\ pc' = [pc EXCEPT ![e] = "finally"]
      /\ UNCHANGED <<disk, current, clean, interrupts, groups, spawned>>
  BY DEF AllRunsDone, Goto
<1>2. Position("check", mem[e], current[e], clean[e]) /\ pc[e] \in Past /\ mem[e] \in Ledgers
  BY <1>1, AtWork DEF Busy, InTry
<1>3. mem' = [mem EXCEPT ![e] = m]
  BY DEF AllRunsDone, BInv, BatchTypeOK
<1>4. /\ m \in Ledgers /\ m.started = mem[e].started /\ m.slots = mem[e].slots
      /\ m.runs = mem[e].runs /\ m.stopped = mem[e].stopped
  BY <1>2 DEF Ledgers
<1> HIDE DEF m
<1>5. Orderly(m) /\ m.started /\ ledger.started
  BY <1>2, <1>4 DEF Position, Orderly
<1>6. Behind(ledger, m)
  <2>1. ledger = mem[e]
    BY <1>2 DEF Position, Synced, Between
  <2> QED BY <1>2, <1>4, <2>1, BehindSelf DEF Behind
<1>7. Position("finally", mem[e], current[e], clean[e])'
  <2>1. ledger' = ledger /\ mem'[e] = m
    BY <1>1, <1>3 DEF disk, BInv, BatchTypeOK
  <2>2. Orderly(mem[e])' /\ Behind(ledger, mem[e])'
    BY <1>5, <1>6, <2>1 DEF Orderly, Behind
  <2> QED BY <1>5, <2>1, <2>2 DEF Position, InTry, Leaving, Synced, Between, Running, InGroup
<1>8. /\ "finally" \in Busy \cup Finished /\ interrupts' \in [Executors -> 0 .. MaxInterrupts]
      /\ dirs' \subseteq Runs /\ ledger' = ledger /\ UNCHANGED <<marker, clean, groups, spawned>>
      /\ current[e] \in 0 .. Len(Plan) /\ current' = [current EXCEPT ![e] = current[e]]
  BY <1>1 DEF BInv, BatchTypeOK, Busy, Leaving, disk
<1> QED BY <1>1, <1>2, <1>3, <1>4, <1>5, <1>7, <1>8, Writes

(* What a permitted reservation leaves in the copy.                           *)
LEMMA ReservedSlots ==
    ASSUME BInv, NEW e \in Executors, pc[e] = "reserve", MayReserve(e)
    PROVE  /\ SlotsAfter(e) \in Nat /\ mem[e].slots <= SlotsAfter(e) /\ SlotsAfter(e) <= MaxAttempts
           /\ Len(mem[e].runs) + 1 \in Runs
           /\ Cardinality(Treatments(Len(mem[e].runs) + 1)) <= SlotsAfter(e)
<1>1. Position("reserve", mem[e], current[e], clean[e]) /\ mem[e] \in Ledgers
  BY AtWork DEF Busy, InTry
<1>2. mem[e].slots \in Nat /\ Len(mem[e].runs) \in Nat
  BY <1>1 DEF Ledgers
<1>3. Cardinality(Treatments(Len(mem[e].runs))) <= mem[e].slots
  BY <1>1 DEF Position, Orderly
<1>4. Cardinality(Treatments(Len(mem[e].runs))) \in Nat
  BY <1>2, TreatmentsFinite
<1>5. Len(mem[e].runs) + 1 \in Runs /\ SlotsAfter(e) <= MaxAttempts
  BY DEF MayReserve, NextRun
<1> QED BY <1>2, <1>3, <1>4, <1>5, TreatmentsNext DEF SlotsAfter, NextRun

(* The copy after a completed reserve().                                      *)
LEMMA ReservedCopy ==
    ASSUME BInv, NEW e \in Executors, pc[e] = "reserve", MayReserve(e), NEW m,
           m = [mem[e] EXCEPT !.slots = SlotsAfter(e), !.runs = Append(@, Reservation(e))]
    PROVE  /\ m \in Ledgers /\ m.started = mem[e].started /\ m.stopped = mem[e].stopped
           /\ Len(m.runs) = Len(mem[e].runs) + 1 /\ m.runs[Len(m.runs)].state = "RESERVED"
           /\ Orderly(m) /\ Behind(ledger, m)
<1> DEFINE n == Len(mem[e].runs)
<1>1. Position("reserve", mem[e], current[e], clean[e]) /\ pc[e] \in Past /\ mem[e] \in Ledgers
  BY AtWork DEF Busy, InTry
<1>2. /\ SlotsAfter(e) \in Nat /\ mem[e].slots <= SlotsAfter(e) /\ SlotsAfter(e) <= MaxAttempts
      /\ n + 1 \in Runs /\ Cardinality(Treatments(n + 1)) <= SlotsAfter(e)
  BY ReservedSlots
<1>3. Reservation(e) \in Record /\ Reservation(e).state = "RESERVED"
  BY DEF Reservation, Record
<1>4. mem[e].runs \in Seq(Record) /\ n \in Nat
  BY <1>1 DEF Ledgers
<1>5. /\ Append(mem[e].runs, Reservation(e)) \in Seq(Record)
      /\ Len(Append(mem[e].runs, Reservation(e))) = n + 1
      /\ \A i \in 1 .. n : Append(mem[e].runs, Reservation(e))[i] = mem[e].runs[i]
      /\ Append(mem[e].runs, Reservation(e))[n + 1] = Reservation(e)
  BY <1>3, <1>4
<1>6. /\ m \in Ledgers /\ m.started = mem[e].started /\ m.slots = SlotsAfter(e)
      /\ m.stopped = mem[e].stopped /\ m.runs = Append(mem[e].runs, Reservation(e))
  BY <1>1, <1>2, <1>5 DEF Ledgers
<1>7. ledger = mem[e] /\ AllComplete(ledger)
  BY <1>1 DEF Position, Synced, Between
<1>8. DOMAIN ledger.runs = 1 .. n /\ DOMAIN m.runs = 1 .. n + 1 /\ Len(m.runs) = n + 1
  BY <1>4, <1>5, <1>6, <1>7
<1>9. Orderly(m)
  <2>1. n + 1 <= Len(Plan)
    BY <1>2, RunsAreNumbers
  <2>2. \A i \in 1 .. n : m.runs[i].state = "COMPLETE"
    BY <1>5, <1>6, <1>7, <1>8 DEF AllComplete
  <2> QED BY <1>2, <1>4, <1>6, <1>8, <2>1, <2>2 DEF Orderly
<1>10. Behind(ledger, m)
  <2>1. ledger.slots <= m.slots /\ Len(ledger.runs) <= Len(m.runs)
    BY <1>2, <1>4, <1>6, <1>7, <1>8
  <2>2. \A i \in DOMAIN ledger.runs : m.runs[i] = ledger.runs[i]
    BY <1>5, <1>6, <1>7, <1>8
  <2>3. \A i \in DOMAIN m.runs : m.runs[i].state = "COMPLETE" => i \in DOMAIN ledger.runs
    BY <1>3, <1>4, <1>5, <1>6, <1>8
  <2> QED BY <1>6, <1>7, <2>1, <2>2, <2>3 DEF Behind
<1> QED BY <1>3, <1>5, <1>6, <1>8, <1>9, <1>10

LEMMA ReservePreserves ==
    ASSUME BInv, NEW e \in Executors, Reserve(e)
    PROVE  BInv'
<1> DEFINE m == [mem[e] EXCEPT !.slots = SlotsAfter(e), !.runs = Append(@, Reservation(e))]
           n == Len(mem[e].runs)
<1>1. /\ pc[e] = "reserve" /\ pc' = [pc EXCEPT ![e] = "persist"] /\ MayReserve(e)
      /\ current' = [current EXCEPT ![e] = n + 1]
      /\ UNCHANGED <<disk, clean, interrupts, groups, spawned>>
  BY DEF Reserve, Goto, NextRun
<1>2. Position("reserve", mem[e], current[e], clean[e]) /\ pc[e] \in Past /\ mem[e] \in Ledgers
  BY <1>1, AtWork DEF Busy, InTry
<1>3. n + 1 \in Runs /\ n \in Nat
  BY <1>1, <1>2, ReservedSlots DEF Ledgers
<1>4. mem' = [mem EXCEPT ![e] = m]
  BY DEF Reserve, BInv, BatchTypeOK
<1>5. /\ m \in Ledgers /\ m.started = mem[e].started /\ m.stopped = mem[e].stopped
      /\ Len(m.runs) = n + 1 /\ m.runs[n + 1].state = "RESERVED"
      /\ Orderly(m) /\ Behind(ledger, m)
  BY <1>1, ReservedCopy
<1> HIDE DEF m
<1>6. ledger = mem[e] /\ AllComplete(ledger)
  BY <1>2 DEF Position, Synced, Between
<1>7. Position("persist", mem[e], current[e], clean[e])'
  <2>1. /\ ledger' = ledger /\ spawned' = spawned /\ mem'[e] = m /\ current'[e] = n + 1
    BY <1>1, <1>4 DEF disk, BInv, BatchTypeOK
  <2>2. ledger.started /\ m.started /\ ~ m.stopped /\ Len(spawned) = Len(ledger.runs)
    BY <1>2, <1>5 DEF Position, InTry, Between
  <2>3. Orderly(mem[e])' /\ Behind(ledger, mem[e])' /\ AllComplete(ledger)'
    BY <1>5, <1>6, <2>1 DEF Orderly, Behind, AllComplete
  <2>4. n + 1 = Len(m.runs) /\ m.runs[n + 1].state = "RESERVED" /\ Len(ledger.runs) = (n + 1) - 1
    BY <1>3, <1>5, <1>6
  <2> QED BY <1>3, <2>1, <2>2, <2>3, <2>4
      DEF Position, InTry, Leaving, Synced, Between, Running, InGroup
<1>8. /\ "persist" \in Busy \cup Finished /\ interrupts' \in [Executors -> 0 .. MaxInterrupts]
      /\ dirs' \subseteq Runs /\ ledger' = ledger /\ UNCHANGED <<marker, clean, groups, spawned>>
      /\ n + 1 \in 0 .. Len(Plan)
  BY <1>1, <1>3, RunsAreNumbers DEF BInv, BatchTypeOK, Busy, InTry, disk
<1> HIDE DEF n
<1> QED BY <1>1, <1>2, <1>4, <1>5, <1>7, <1>8, Writes

(* The copy of a reserve() that counted the slot and was then interrupted.    *)
LEMMA SlotCounted ==
    ASSUME BInv, NEW e \in Executors, pc[e] = "reserve", MayReserve(e), NEW m,
           m = [mem[e] EXCEPT !.slots = SlotsAfter(e)]
    PROVE  m \in Ledgers /\ m.started = mem[e].started /\ Orderly(m) /\ Behind(ledger, m)
<1>1. Position("reserve", mem[e], current[e], clean[e]) /\ mem[e] \in Ledgers
  BY AtWork DEF Busy, InTry
<1>2. SlotsAfter(e) \in Nat /\ mem[e].slots <= SlotsAfter(e) /\ SlotsAfter(e) <= MaxAttempts
  BY ReservedSlots
<1>3. /\ m \in Ledgers /\ m.started = mem[e].started /\ m.slots = SlotsAfter(e)
      /\ m.stopped = mem[e].stopped /\ m.runs = mem[e].runs
      /\ mem[e].slots \in Nat /\ Len(mem[e].runs) \in Nat
  BY <1>1, <1>2 DEF Ledgers
<1>4. Orderly(m)
  <2>1. Cardinality(Treatments(Len(mem[e].runs))) \in Nat
    BY <1>3, TreatmentsFinite
  <2> QED BY <1>1, <1>2, <1>3, <2>1 DEF Position, Orderly
<1>5. Behind(ledger, m)
  <2>1. ledger = mem[e]
    BY <1>1 DEF Position, Synced, Between
  <2> QED BY <1>1, <1>2, <1>3, <2>1, BehindSelf DEF Behind
<1> QED BY <1>3, <1>4, <1>5

LEMMA InterruptReservePreserves ==
    ASSUME BInv, NEW e \in Executors, InterruptReserve(e)
    PROVE  BInv'
<1>1. /\ pc[e] = "reserve" /\ pc' = [pc EXCEPT ![e] = "except"] /\ MayReserve(e)
      /\ UNCHANGED <<disk, current, clean, groups, spawned>> /\ Signalled(e)
  BY DEF InterruptReserve, Goto
<1>2. Position("reserve", mem[e], current[e], clean[e]) /\ pc[e] \in Past
  BY <1>1, AtWork DEF Busy, InTry
<1>3. PICK m : /\ mem' = [mem EXCEPT ![e] = m]
               /\ m \in Ledgers /\ m.started = mem[e].started /\ Orderly(m) /\ Behind(ledger, m)
  <2>1. CASE mem' = [mem EXCEPT ![e].slots = SlotsAfter(e)]
    <3> DEFINE m == [mem[e] EXCEPT !.slots = SlotsAfter(e)]
    <3>1. mem' = [mem EXCEPT ![e] = m]
      BY <2>1 DEF BInv, BatchTypeOK
    <3>2. m \in Ledgers /\ m.started = mem[e].started /\ Orderly(m) /\ Behind(ledger, m)
      BY <1>1, SlotCounted
    <3> HIDE DEF m
    <3> QED BY <3>1, <3>2
  <2>2. CASE mem' = [mem EXCEPT ![e].slots = SlotsAfter(e),
                                ![e].runs = Append(@, Reservation(e))]
    <3> DEFINE m == [mem[e] EXCEPT !.slots = SlotsAfter(e), !.runs = Append(@, Reservation(e))]
    <3>1. mem' = [mem EXCEPT ![e] = m]
      BY <2>2 DEF BInv, BatchTypeOK
    <3>2. m \in Ledgers /\ m.started = mem[e].started /\ Orderly(m) /\ Behind(ledger, m)
      BY <1>1, ReservedCopy
    <3> HIDE DEF m
    <3> QED BY <3>1, <3>2
  <2> QED BY <2>1, <2>2 DEF InterruptReserve
<1>4. m.started /\ ledger.started
  BY <1>2, <1>3 DEF Position
<1>5. Position("except", mem[e], current[e], clean[e])'
  <2>1. ledger' = ledger /\ mem'[e] = m
    BY <1>1, <1>3 DEF disk, BInv, BatchTypeOK
  <2>2. Orderly(mem[e])' /\ Behind(ledger, mem[e])'
    BY <1>3, <2>1 DEF Orderly, Behind
  <2> QED BY <1>4, <2>1, <2>2 DEF Position, InTry, Leaving, Synced, Between, Running, InGroup
<1>6. /\ "except" \in Busy \cup Finished /\ interrupts' \in [Executors -> 0 .. MaxInterrupts]
      /\ dirs' \subseteq Runs /\ ledger' = ledger /\ UNCHANGED <<marker, clean, groups, spawned>>
      /\ current[e] \in 0 .. Len(Plan) /\ current' = [current EXCEPT ![e] = current[e]]
  BY <1>1, SignalledTyped DEF BInv, BatchTypeOK, Busy, Leaving, disk
<1> QED BY <1>1, <1>2, <1>3, <1>4, <1>5, <1>6, Writes

(* What the copy says of COMPLETE runs was on the disk already.               *)
LEMMA BehindExact ==
    ASSUME BInv, NEW m \in Ledgers, Behind(ledger, m)
    PROVE  Exact(m) /\ Len(ledger.runs) <= Len(m.runs)
BY DEF BInv, CompleteIsExact, Behind, Exact

LEMMA PersistPreserves ==
    ASSUME BInv, NEW e \in Executors, Persist(e)
    PROVE  BInv'
<1>1. /\ pc[e] = "persist" /\ pc' = [pc EXCEPT ![e] = "spawn"] /\ ledger' = mem[e]
      /\ UNCHANGED <<marker, dirs, mem, current, clean, interrupts, groups, spawned>>
  BY DEF Persist, Goto
<1>2. Position("persist", mem[e], current[e], clean[e]) /\ pc[e] \in Past /\ mem[e] \in Ledgers
  BY <1>1, AtWork DEF Busy, InTry
<1>3. Orderly(mem[e]) /\ mem[e].started /\ Behind(ledger, mem[e])
  BY <1>2 DEF Position
<1>4. Exact(mem[e]) /\ Len(ledger.runs) <= Len(mem[e].runs)
  BY <1>2, <1>3, BehindExact
<1>5. Position("spawn", mem[e], current[e], clean[e])'
  <2>1. Orderly(mem[e])'
    BY <1>1, <1>3 DEF Orderly
  <2> QED BY <1>1, <1>2, <2>1
      DEF Position, InTry, Leaving, Synced, Between, Running, InGroup
<1>6. /\ mem' = [mem EXCEPT ![e] = mem[e]] /\ current' = [current EXCEPT ![e] = current[e]]
      /\ current[e] \in 0 .. Len(Plan) /\ interrupts' \in [Executors -> 0 .. MaxInterrupts]
      /\ dirs' \subseteq Runs /\ "spawn" \in Busy \cup Finished
  BY <1>1 DEF BInv, BatchTypeOK, Busy, InTry
<1> QED BY <1>1, <1>2, <1>3, <1>4, <1>5, <1>6, Writes

LEMMA FinallyPreserves ==
    ASSUME BInv, NEW e \in Executors, Finally(e)
    PROVE  BInv'
<1>1. /\ pc[e] = "finally" /\ pc' = [pc EXCEPT ![e] = "ended"] /\ ledger' = mem[e]
      /\ UNCHANGED <<marker, dirs, mem, current, clean, interrupts, groups, spawned>>
  BY DEF Finally, Goto
<1>2. Position("finally", mem[e], current[e], clean[e]) /\ pc[e] \in Past /\ mem[e] \in Ledgers
  BY <1>1, AtWork DEF Busy, Leaving
<1>3. Orderly(mem[e]) /\ mem[e].started /\ Behind(ledger, mem[e])
  BY <1>2 DEF Position, Leaving
<1>4. Exact(mem[e]) /\ Len(ledger.runs) <= Len(mem[e].runs)
  BY <1>2, <1>3, BehindExact
<1>5. /\ mem' = [mem EXCEPT ![e] = mem[e]] /\ current' = [current EXCEPT ![e] = current[e]]
      /\ current[e] \in 0 .. Len(Plan) /\ interrupts' \in [Executors -> 0 .. MaxInterrupts]
      /\ dirs' \subseteq Runs /\ "ended" \in Busy \cup Finished /\ "ended" \notin Busy
  BY <1>1 DEF BInv, BatchTypeOK, Busy, InTry, Leaving, Finished
<1> QED BY <1>1, <1>2, <1>3, <1>4, <1>5, Writes

(* Stopping touches at most the record of the run that was not COMPLETE.      *)
LEMMA StopRecordKeeps ==
    ASSUME NEW e, mem[e] \in Ledgers
    PROVE  /\ StopRecord(e) \in Ledgers
           /\ StopRecord(e).started = mem[e].started /\ StopRecord(e).slots = mem[e].slots
           /\ Len(StopRecord(e).runs) = Len(mem[e].runs)
           /\ DOMAIN StopRecord(e).runs = DOMAIN mem[e].runs
           /\ \A i \in DOMAIN mem[e].runs :
                 /\ mem[e].runs[i].state = "COMPLETE" =>
                       StopRecord(e).runs[i] = mem[e].runs[i]
                 /\ StopRecord(e).runs[i].state = "COMPLETE" =>
                       mem[e].runs[i].state = "COMPLETE"
                 /\ mem[e].runs[i].state # "RESERVED" =>
                       StopRecord(e).runs[i].state = mem[e].runs[i].state
<1> DEFINE r == mem[e].runs
           stop == [i \in DOMAIN r |->
                      IF i = current[e] /\ r[i].state # "COMPLETE"
                      THEN [r[i] EXCEPT !.state = "STOPPED"] ELSE r[i]]
<1>1. r \in Seq(Record) /\ Len(r) \in Nat /\ DOMAIN r = 1 .. Len(r)
  BY DEF Ledgers
<1>2. \A i \in DOMAIN r :
        /\ r[i] \in Record /\ stop[i] \in Record
        /\ r[i].state = "COMPLETE" => stop[i] = r[i]
        /\ stop[i].state = "COMPLETE" => r[i].state = "COMPLETE"
        /\ r[i].state # "RESERVED" => stop[i].state = r[i].state
  <2> SUFFICES ASSUME NEW i \in DOMAIN r
               PROVE  /\ r[i] \in Record /\ stop[i] \in Record
                      /\ r[i].state = "COMPLETE" => stop[i] = r[i]
                      /\ stop[i].state = "COMPLETE" => r[i].state = "COMPLETE"
                      /\ r[i].state # "RESERVED" => stop[i].state = r[i].state
    OBVIOUS
  <2>1. r[i] \in Record
    BY <1>1
  <2>2. /\ [r[i] EXCEPT !.state = "STOPPED"] \in Record
        /\ [r[i] EXCEPT !.state = "STOPPED"].state = "STOPPED"
    BY <2>1 DEF Record
  <2>3. r[i].state \in {"RESERVED", "COMPLETE", "STOPPED"}
    BY <2>1 DEF Record
  <2>4. stop[i] = IF i = current[e] /\ r[i].state # "COMPLETE"
                  THEN [r[i] EXCEPT !.state = "STOPPED"] ELSE r[i]
    OBVIOUS
  <2> HIDE DEF stop, r
  <2> QED BY <2>1, <2>2, <2>3, <2>4
<1>3. DOMAIN stop = 1 .. Len(r)
  BY <1>1
<1>4. stop \in Seq(Record) /\ Len(stop) = Len(r)
  <2>1. stop \in [1 .. Len(r) -> Record]
    BY <1>1, <1>2, <1>3
  <2> HIDE DEF stop
  <2>2. stop \in Seq(Record)
    BY <1>1, <2>1, SeqDef
  <2> QED BY <1>1, <1>3, <2>2
<1>5. StopRecord(e) = [mem[e] EXCEPT !.stopped = TRUE, !.runs = stop]
  BY DEF StopRecord
<1> HIDE DEF stop
<1>6. /\ StopRecord(e) \in Ledgers /\ StopRecord(e).runs = stop
      /\ StopRecord(e).started = mem[e].started /\ StopRecord(e).slots = mem[e].slots
  BY <1>4, <1>5 DEF Ledgers
<1> QED BY <1>1, <1>2, <1>3, <1>4, <1>6

LEMMA ExceptPreserves ==
    ASSUME BInv, NEW e \in Executors, Except(e)
    PROVE  BInv'
<1>1. /\ pc[e] = "except" /\ pc' = [pc EXCEPT ![e] = "finally"]
      /\ UNCHANGED <<marker, dirs, current, clean, interrupts, groups, spawned>>
  BY DEF Except, Goto
<1>2. Position("except", mem[e], current[e], clean[e]) /\ pc[e] \in Past /\ mem[e] \in Ledgers
  BY <1>1, AtWork DEF Busy, Leaving
<1>3. Orderly(mem[e]) /\ mem[e].started /\ Behind(ledger, mem[e]) /\ ledger.started
  BY <1>2 DEF Position, Leaving
<1>4. Exact(mem[e]) /\ Len(ledger.runs) <= Len(mem[e].runs)
  BY <1>2, <1>3, BehindExact
<1>5. PICK m \in Ledgers :
        /\ m = StopRecord(e)
        /\ m.started = mem[e].started /\ m.slots = mem[e].slots
        /\ Len(m.runs) = Len(mem[e].runs) /\ DOMAIN m.runs = DOMAIN mem[e].runs
        /\ \A i \in DOMAIN mem[e].runs :
              /\ mem[e].runs[i].state = "COMPLETE" => m.runs[i] = mem[e].runs[i]
              /\ m.runs[i].state = "COMPLETE" => mem[e].runs[i].state = "COMPLETE"
  BY <1>2, StopRecordKeeps
<1>6. mem' = [mem EXCEPT ![e] = m] /\ mem'[e] = m /\ ledger' = m
  BY <1>5 DEF Except, BInv, BatchTypeOK
<1>7. Orderly(m) /\ m.started
  <2>1. DOMAIN mem[e].runs = 1 .. Len(mem[e].runs) /\ Len(mem[e].runs) \in Nat
    BY <1>2 DEF Ledgers
  <2> QED BY <1>3, <1>5, <2>1 DEF Orderly
<1>8. Exact(m) /\ Len(ledger.runs) <= Len(m.runs)
  BY <1>4, <1>5 DEF Exact
<1>9. Position("finally", mem[e], current[e], clean[e])'
  <2>1. Orderly(mem[e])'
    BY <1>6, <1>7 DEF Orderly
  <2>2. Behind(ledger, mem[e])'
    BY <1>6, BehindSelf DEF Behind
  <2> QED BY <1>6, <1>7, <2>1, <2>2
      DEF Position, InTry, Leaving, Synced, Between, Running, InGroup
<1>10. /\ current' = [current EXCEPT ![e] = current[e]]
       /\ current[e] \in 0 .. Len(Plan) /\ interrupts' \in [Executors -> 0 .. MaxInterrupts]
       /\ dirs' \subseteq Runs /\ "finally" \in Busy \cup Finished
  BY <1>1 DEF BInv, BatchTypeOK, Busy, Leaving
<1> QED BY <1>1, <1>2, <1>6, <1>7, <1>8, <1>9, <1>10, Writes

(* A record of the copy that is settled.                                      *)
Settled(l, i, r) == [l EXCEPT !.runs = [@ EXCEPT ![i] = r]]

LEMMA RecordChanged ==
    ASSUME NEW l \in Ledgers, NEW i \in 1 .. Len(l.runs), NEW r \in Record,
           NEW m \in {Settled(l, i, r)}
    PROVE  /\ m \in Ledgers
           /\ m.started = l.started /\ m.slots = l.slots /\ m.stopped = l.stopped
           /\ Len(m.runs) = Len(l.runs) /\ DOMAIN m.runs = 1 .. Len(l.runs)
           /\ m.runs[i] = r /\ \A j \in 1 .. Len(l.runs) : j # i => m.runs[j] = l.runs[j]
<1> DEFINE s == [l.runs EXCEPT ![i] = r]
<1>1. l.runs \in Seq(Record)
  BY DEF Ledgers
<1>2. /\ s \in Seq(Record) /\ Len(s) = Len(l.runs)
      /\ \A j \in 1 .. Len(l.runs) : s[j] = IF j = i THEN r ELSE l.runs[j]
  BY <1>1, ExceptSeq
<1>3. DOMAIN s = 1 .. Len(l.runs)
  BY <1>2, LenProperties
<1>4. m = [l EXCEPT !.runs = s]
  BY DEF Settled
<1> HIDE DEF s
<1>5. /\ m \in Ledgers /\ m.runs = s
      /\ m.started = l.started /\ m.slots = l.slots /\ m.stopped = l.stopped
  BY <1>2, <1>4 DEF Ledgers
<1> QED BY <1>2, <1>3, <1>5

(* Settling the last record of a copy that is on the disk.                    *)
LEMMA Settles ==
    ASSUME BInv, NEW e \in Executors, pc[e] \in {"record", "validate"},
           NEW r \in Record, NEW m \in {Settled(mem[e], current[e], r)},
           r.state = "COMPLETE" =>
              ~ GroupAlive(current[e]) /\ r.known /\ r.attempts = actual[current[e]]
    PROVE  /\ m \in Ledgers /\ m.started /\ ~ m.stopped /\ ledger = mem[e]
           /\ current[e] \in Runs /\ Len(m.runs) = current[e] /\ m.runs[current[e]] = r
           /\ DOMAIN m.runs = 1 .. current[e]
           /\ \A j \in 1 .. current[e] - 1 : m.runs[j].state = "COMPLETE"
           /\ Orderly(m) /\ Exact(m) /\ Len(ledger.runs) <= Len(m.runs)
<1>1. Position(pc[e], mem[e], current[e], clean[e]) /\ mem[e] \in Ledgers
  BY AtWork DEF Busy, InTry
<1>2. /\ mem[e].started /\ ~ mem[e].stopped /\ ledger = mem[e] /\ Orderly(mem[e])
      /\ current[e] = Len(mem[e].runs) /\ current[e] \in Runs
  BY <1>1 DEF Position, InTry, Synced, Running
<1>3. current[e] \in 1 .. Len(mem[e].runs) /\ Len(mem[e].runs) \in Nat
  BY <1>1, <1>2, RunsAreNumbers DEF Ledgers
<1>4. /\ m \in Ledgers
      /\ m.started = mem[e].started /\ m.slots = mem[e].slots /\ m.stopped = mem[e].stopped
      /\ Len(m.runs) = Len(mem[e].runs) /\ DOMAIN m.runs = 1 .. Len(mem[e].runs)
      /\ m.runs[current[e]] = r
      /\ \A j \in 1 .. Len(mem[e].runs) : j # current[e] => m.runs[j] = mem[e].runs[j]
  BY <1>1, <1>3, RecordChanged
<1>5. \A j \in 1 .. current[e] - 1 : m.runs[j].state = "COMPLETE"
  BY <1>2, <1>3, <1>4 DEF Orderly
<1>6. Orderly(m)
  BY <1>2, <1>4, <1>5 DEF Orderly
<1>7. Exact(m)
  <2>1. Exact(mem[e])
    BY <1>2 DEF BInv, CompleteIsExact, Exact
  <2>2. DOMAIN mem[e].runs = 1 .. Len(mem[e].runs)
    BY <1>1 DEF Ledgers
  <2> QED BY <1>4, <2>1, <2>2 DEF Exact
<1> QED BY <1>2, <1>3, <1>4, <1>5, <1>6, <1>7

LEMMA ValidatePreserves ==
    ASSUME BInv, NEW e \in Executors, Validate(e)
    PROVE  BInv'
<1> DEFINE c == current[e]
           r == [mem[e].runs[c] EXCEPT !.state = "COMPLETE"]
           m == Settled(mem[e], c, r)
<1>1. /\ pc[e] = "validate" /\ pc' = [pc EXCEPT ![e] = "check"] /\ clean[e]
      /\ mem[e].runs[c].known
      /\ UNCHANGED <<marker, dirs, current, clean, interrupts, groups, spawned>>
  BY DEF Validate, Goto
<1>2. Position("validate", mem[e], c, clean[e]) /\ pc[e] \in Past /\ mem[e] \in Ledgers
  BY <1>1, AtWork DEF Busy, InTry
<1>3. /\ c = Len(mem[e].runs) /\ c \in Runs /\ c \in Nat /\ mem[e].runs[c] \in Record
      /\ Len(spawned) = c /\ ~ GroupAlive(c) /\ mem[e].runs[c].attempts = actual[c]
  BY <1>1, <1>2, RunsAreNumbers DEF Position, Running, Ledgers
<1>4. /\ r \in Record /\ r.known = mem[e].runs[c].known
      /\ r.attempts = mem[e].runs[c].attempts /\ r.state = "COMPLETE"
  BY <1>3 DEF Record
<1>5. mem' = [mem EXCEPT ![e] = m] /\ mem'[e] = m /\ ledger' = m
  BY <1>2 DEF Validate, BInv, BatchTypeOK, Ledgers, Settled
<1>6. r.known /\ r.attempts = actual[c]
  BY <1>1, <1>3, <1>4
<1>7. /\ pc[e] \in {"record", "validate"}
      /\ ~ GroupAlive(current[e]) /\ r.known /\ r.attempts = actual[current[e]]
      /\ m \in {Settled(mem[e], current[e], r)}
  BY <1>1, <1>3, <1>6
<1> HIDE DEF r, m
<1>8. /\ m \in Ledgers /\ m.started /\ ~ m.stopped
      /\ Len(m.runs) = c /\ m.runs[c] = r /\ DOMAIN m.runs = 1 .. c
      /\ \A j \in 1 .. c - 1 : m.runs[j].state = "COMPLETE"
      /\ Orderly(m) /\ Exact(m) /\ Len(ledger.runs) <= Len(m.runs)
  BY <1>4, <1>7, Settles
<1>9. Position("check", mem[e], current[e], clean[e])'
  <2>1. Orderly(mem[e])'
    BY <1>5, <1>8 DEF Orderly
  <2>2. AllComplete(ledger)'
    BY <1>3, <1>4, <1>5, <1>8 DEF AllComplete
  <2>3. Len(spawned') = Len(ledger'.runs)
    BY <1>1, <1>3, <1>5, <1>8
  <2> QED BY <1>5, <1>8, <2>1, <2>2, <2>3
      DEF Position, InTry, Leaving, Synced, Between, Running, InGroup
<1>10. /\ current' = [current EXCEPT ![e] = c] /\ c \in 0 .. Len(Plan)
       /\ interrupts' \in [Executors -> 0 .. MaxInterrupts]
       /\ dirs' \subseteq Runs /\ "check" \in Busy \cup Finished
  BY <1>1 DEF BInv, BatchTypeOK, Busy, InTry
<1> HIDE DEF c
<1> QED BY <1>1, <1>2, <1>5, <1>8, <1>9, <1>10, Writes

(* Counting is exact unless it is said to be unknown.                         *)
LEMMA CountIsExact ==
    ASSUME BInv, NEW i \in Runs, ~ OutcomeUnknown(i)
    PROVE  Attempts(i) = actual[i] /\ Attempts(i) \in 0 .. 1
<1>1. /\ journal[i].preempt \in {"none", "issued", "returned"} /\ actual[i] \in 0 .. 1
      /\ journal[i].preempt = "none" => actual[i] = 0
      /\ journal[i].preempt # "none" => Plan[i] = "treatment"
  BY DEF BInv, BatchTypeOK, Workers
<1> QED BY <1>1 DEF OutcomeUnknown, Attempts

LEMMA RecordOutcomePreserves ==
    ASSUME BInv, NEW e \in Executors, RecordOutcome(e)
    PROVE  BInv'
<1> DEFINE c == current[e]
           k == ~ OutcomeUnknown(c)
           a == IF OutcomeUnknown(c) THEN 0 ELSE Attempts(c)
           r == [mem[e].runs[c] EXCEPT !.known = k, !.attempts = a]
           m == Settled(mem[e], c, r)
<1>1. /\ pc[e] = "record" /\ pc' = [pc EXCEPT ![e] = "validate"]
      /\ UNCHANGED <<marker, dirs, current, clean, interrupts, groups, spawned>>
  BY DEF RecordOutcome, Goto
<1>2. Position("record", mem[e], c, clean[e]) /\ pc[e] \in Past /\ mem[e] \in Ledgers
  BY <1>1, AtWork DEF Busy, InTry
<1>3. /\ c = Len(mem[e].runs) /\ c \in Runs /\ c \in Nat /\ mem[e].runs[c] \in Record
      /\ mem[e].runs[c].state = "RESERVED"
      /\ clean[e] => Len(spawned) = c /\ ~ GroupAlive(c)
  BY <1>2, RunsAreNumbers DEF Position, Running, Ledgers
<1>4. a \in 0 .. 1 /\ k \in BOOLEAN /\ (k => a = actual[c])
  BY <1>3, CountIsExact
<1>5. mem' = [mem EXCEPT ![e] = m] /\ mem'[e] = m /\ ledger' = m
  BY <1>2 DEF RecordOutcome, BInv, BatchTypeOK, Ledgers, Settled
<1> HIDE DEF k, a
<1>6. r \in Record /\ r.known = k /\ r.attempts = a /\ r.state = "RESERVED"
  BY <1>3, <1>4 DEF Record
<1>7. /\ pc[e] \in {"record", "validate"} /\ ~ (r.state = "COMPLETE")
      /\ m \in {Settled(mem[e], current[e], r)}
  BY <1>1, <1>6
<1> HIDE DEF r, m
<1>8. /\ m \in Ledgers /\ m.started /\ ~ m.stopped
      /\ Len(m.runs) = c /\ m.runs[c] = r /\ Orderly(m) /\ Exact(m)
      /\ Len(ledger.runs) <= Len(m.runs)
  BY <1>6, <1>7, Settles
<1>9. Position("validate", mem[e], current[e], clean[e])'
  <2>1. Orderly(mem[e])'
    BY <1>5, <1>8 DEF Orderly
  <2>2. UNCHANGED <<leader, bg, actual, current, clean, spawned>>
    BY <1>1 DEF groups
  <2>3. clean'[e] => Len(spawned') = c /\ ~ GroupAlive(c)'
    BY <1>3, <2>2 DEF GroupAlive
  <2>4. mem'[e].runs[c].known => mem'[e].runs[c].attempts = actual'[c]
    BY <1>4, <1>5, <1>6, <1>8, <2>2
  <2>5. c = Len(mem'[e].runs) /\ mem'[e].runs[c].state = "RESERVED" /\ current'[e] = c
    BY <1>5, <1>6, <1>8, <2>2
  <2>6. GroupAlive(current[e])' = GroupAlive(c)'
    BY <2>5 DEF GroupAlive
  <2> QED BY <1>3, <1>5, <1>8, <2>1, <2>3, <2>4, <2>5, <2>6
      DEF Position, InTry, Leaving, Synced, Between, Running, InGroup
<1>10. /\ current' = [current EXCEPT ![e] = c] /\ c \in 0 .. Len(Plan)
       /\ interrupts' \in [Executors -> 0 .. MaxInterrupts]
       /\ dirs' \subseteq Runs /\ "validate" \in Busy \cup Finished
  BY <1>1 DEF BInv, BatchTypeOK, Busy, InTry
<1> HIDE DEF c
<1> QED BY <1>1, <1>2, <1>5, <1>8, <1>9, <1>10, Writes

-----------------------------------------------------------------------------
(* The worker groups.                                                         *)
LEMMA OneMore ==
    ASSUME NEW s \in Seq(Runs), NEW c \in Runs, Len(s) = c - 1,
           \A k \in 1 .. c - 1 : s[k] = k
    PROVE  /\ Append(s, c) \in Seq(Runs) /\ Len(Append(s, c)) = c
           /\ Append(s, c) = [k \in 1 .. c |-> k]
<1>1. c \in Nat /\ c > 0
  BY RunsAreNumbers
<1>2. Append(s, c) \in Seq(Runs) /\ Len(Append(s, c)) = Len(s) + 1
  BY AppendProperties
<1>3. Len(Append(s, c)) = c
  BY <1>1, <1>2
<1>4. \A k \in 1 .. c : Append(s, c)[k] = k
  <2>1. \A k \in 1 .. Len(s) + 1 : Append(s, c)[k] = IF k <= Len(s) THEN s[k] ELSE c
    BY AppendProperties
  <2> QED BY <1>1, <2>1
<1>5. Append(s, c) \in [1 .. c -> Runs]
  BY <1>2, <1>3, LenProperties
<1> QED BY <1>2, <1>3, <1>4, <1>5

(* A group is started for the last run on record, after all others are over.  *)
LEMMA StartPreserves ==
    ASSUME BInv, NEW e \in Executors, pc[e] = "spawn", StartGroup(current[e]),
           NEW w \in {"wait", "record"}, pc' = [pc EXCEPT ![e] = w],
           NEW ok \in BOOLEAN, clean' = [clean EXCEPT ![e] = ok], w = "record" => ~ ok,
           interrupts' \in [Executors -> 0 .. MaxInterrupts],
           UNCHANGED <<disk, mem, current>>
    PROVE  BInv'
<1> DEFINE c == current[e]
<1>1. /\ leader' = [leader EXCEPT ![c] = "alive"] /\ bg' = [bg EXCEPT ![c] = TRUE]
      /\ spawned' = Append(spawned, c)
      /\ UNCHANGED <<journal, actual, marker, ledger, dirs, mem, current>>
  BY DEF StartGroup, disk
<1>2. Position("spawn", mem[e], c, clean[e]) /\ pc[e] \in Past /\ mem[e] \in Ledgers
  BY AtWork DEF Busy, InTry
<1>3. /\ c \in Runs /\ c = Len(ledger.runs) /\ c \in Nat /\ Len(spawned) = c - 1
      /\ ledger = mem[e] /\ ledger.runs[c].state = "RESERVED" /\ ledger.started
      /\ Orderly(ledger)
  BY <1>2, RunsAreNumbers DEF Position, Running, Synced
<1>4. spawned \in Seq(Runs) /\ \A k \in 1 .. c - 1 : spawned[k] = k
  BY <1>3 DEF BInv, BatchTypeOK, Workers
<1>5. /\ spawned' \in Seq(Runs) /\ Len(spawned') = c
      /\ spawned' = [k \in 1 .. c |-> k]
  BY <1>1, <1>3, <1>4, OneMore
<1>6. BatchTypeOK'
  <2>1. w \in PCs /\ marker' \in BOOLEAN
    <3>1. marker' \in BOOLEAN
      BY <1>1, Zenon DEF BInv, BatchTypeOK
    <3> QED BY <3>1 DEF PCs, InTry
  <2>2. bg' \in [Runs -> BOOLEAN]
    BY <1>1 DEF BInv, BatchTypeOK
  <2> QED BY <1>1, <1>3, <1>5, <2>1, <2>2 DEF BInv, BatchTypeOK
<1>7. \A i \in Runs \ {c} : ~ GroupAlive(i)' /\ (GroupAlive(i)' <=> GroupAlive(i))
  <2> SUFFICES ASSUME NEW i \in Runs, i # c PROVE ~ GroupAlive(i)' /\ ~ GroupAlive(i)
    OBVIOUS
  <2>1. leader'[i] = leader[i] /\ bg'[i] = bg[i]
    BY <1>1 DEF BInv, BatchTypeOK
  <2>2. ~ GroupAlive(i)
    <3>1. GroupAlive(i) => i = c - 1
      BY <1>3 DEF BInv, Workers
    <3>2. i = c - 1 => ledger.runs[i].state = "COMPLETE" /\ i \in DOMAIN ledger.runs
      BY <1>2, <1>3, RunsAreNumbers DEF Orderly, Ledgers
    <3>3. i = c - 1 => ~ GroupAlive(i)
      BY <3>2 DEF BInv, CompleteIsExact
    <3> QED BY <3>1, <3>3
  <2> QED BY <2>1, <2>2 DEF GroupAlive
<1>8. Workers'
  <2>1. Len(spawned') <= Len(ledger'.runs)
    BY <1>1, <1>3, <1>5
  <2>2. ASSUME NEW i \in Runs
        PROVE  /\ GroupAlive(i)' => i = Len(spawned')
               /\ i > Len(spawned') => journal'[i].preempt = "none"
               /\ journal'[i].preempt = "none" => actual'[i] = 0
               /\ journal'[i].preempt # "none" => Plan[i] = "treatment"
    <3>1. i > Len(spawned') => i > Len(spawned)
      BY <1>3, <1>5, RunsAreNumbers
    <3>2. GroupAlive(i)' => i = Len(spawned')
      BY <1>5, <1>7
    <3> QED BY <1>1, <3>1, <3>2 DEF BInv, Workers
  <2> QED BY <1>5, <2>1, <2>2 DEF Workers
<1>9. Orderly(ledger)'
  BY <1>1, <1>3 DEF Orderly
<1>10. CompleteIsExact'
  <2> SUFFICES ASSUME NEW i \in DOMAIN ledger.runs, ledger.runs[i].state = "COMPLETE"
               PROVE  /\ ~ GroupAlive(i)'
                      /\ ledger.runs[i].known /\ ledger.runs[i].attempts = actual[i]
    BY <1>1 DEF CompleteIsExact
  <2>1. i \in Runs /\ i # c
    BY <1>2, <1>3, RunsAreNumbers DEF Ledgers, BInv, BatchTypeOK
  <2> QED BY <1>7, <2>1 DEF BInv, CompleteIsExact
<1>11. Position(w, mem[e], current[e], clean[e])'
  <2>1. clean'[e] = ok
    BY DEF BInv, BatchTypeOK
  <2>2. Orderly(mem[e])'
    BY <1>1, <1>3 DEF Orderly
  <2>3. CASE w = "wait"
    BY <1>1, <1>2, <1>3, <1>5, <2>1, <2>2, <2>3
      DEF Position, InTry, Leaving, Synced, Between, Running, InGroup
  <2>4. CASE w = "record"
    BY <1>1, <1>2, <1>3, <1>5, <2>1, <2>2, <2>4
      DEF Position, InTry, Leaving, Synced, Between, Running, InGroup
  <2> QED BY <2>3, <2>4
<1>12. Admission' /\ Positions'
  <2>1. w \in Busy \cup Finished
    BY DEF Busy, InTry
  <2> QED BY <1>1, <1>2, <1>3, <1>11, <2>1, ActsAlone
<1> QED BY <1>6, <1>8, <1>9, <1>10, <1>12 DEF BInv

LEMMA SpawnPreserves ==
    ASSUME BInv, NEW e \in Executors, Spawn(e) \/ InterruptPopen(e)
    PROVE  BInv'
<1>1. CASE Spawn(e)
  <2>1. interrupts' \in [Executors -> 0 .. MaxInterrupts]
    BY <1>1 DEF Spawn, BInv, BatchTypeOK
  <2> QED BY <1>1, <2>1, StartPreserves DEF Spawn, Goto
<1>2. CASE InterruptPopen(e)
  <2>1. interrupts' \in [Executors -> 0 .. MaxInterrupts]
    BY <1>2, SignalledTyped DEF InterruptPopen
  <2> QED BY <1>2, <2>1, StartPreserves DEF InterruptPopen, Goto
<1> QED BY <1>1, <1>2

LEMMA KillGroupPreserves ==
    ASSUME BInv, NEW e \in Executors, KillGroup(e)
    PROVE  BInv'
<1> DEFINE c == current[e]
<1>1. /\ pc[e] = "term" /\ pc' = [pc EXCEPT ![e] = "record"]
      /\ leader' = [leader EXCEPT ![c] = IF @ = "alive" THEN "failed" ELSE @]
      /\ bg' = [bg EXCEPT ![c] = FALSE]
      /\ UNCHANGED <<marker, ledger, dirs, mem, current, clean, interrupts, journal, actual,
                     spawned>>
  BY DEF KillGroup, Goto, disk
<1>2. Position("term", mem[e], c, clean[e]) /\ pc[e] \in Past /\ c \in Runs
  BY <1>1, AtWork DEF Busy, InTry, Position, Running, InGroup
<1>3. \A i \in Runs : GroupAlive(i)' => GroupAlive(i) /\ i # c
  BY <1>1, <1>2 DEF BInv, BatchTypeOK, GroupAlive
<1>4. BatchTypeOK'
  <2>1. "record" \in PCs
    BY DEF PCs, InTry
  <2>2. marker' \in BOOLEAN
    BY <1>1, Zenon DEF BInv, BatchTypeOK
  <2>3. leader' \in [Runs -> {"none", "alive", "ok", "failed"}]
    BY <1>1 DEF BInv, BatchTypeOK
  <2>4. bg' \in [Runs -> BOOLEAN]
    BY <1>1 DEF BInv, BatchTypeOK
  <2> QED BY <1>1, <2>1, <2>2, <2>3, <2>4 DEF BInv, BatchTypeOK
<1>5. Workers'
  BY <1>1, <1>3 DEF BInv, Workers
<1>6. Orderly(ledger)'
  BY <1>1 DEF BInv, Orderly
<1>7. CompleteIsExact'
  <2>1. DOMAIN ledger.runs \subseteq Runs
    BY RunsAreNumbers DEF BInv, BatchTypeOK, Ledgers
  <2> QED BY <1>1, <1>3, <2>1 DEF BInv, CompleteIsExact
<1>8. Position("record", mem[e], current[e], clean[e])'
  <2>1. Orderly(mem[e])'
    BY <1>1, <1>2 DEF Orderly, Position
  <2>2. ~ GroupAlive(current[e])'
    BY <1>1, <1>2, <1>3 DEF GroupAlive
  <2> QED BY <1>1, <1>2, <2>1, <2>2
      DEF Position, InTry, Leaving, Synced, Between, Running, InGroup
<1>9. Admission' /\ Positions'
  <2>1. "record" \in Busy \cup Finished
    BY DEF Busy, InTry
  <2> QED BY <1>1, <1>2, <1>8, <2>1, ActsAlone
<1> QED BY <1>4, <1>5, <1>6, <1>7, <1>9 DEF BInv

(* A live group changes nothing that was settled before.                      *)
LEMMA WorkerKeeps ==
    ASSUME BInv, NEW i \in Runs, GroupAlive(i),
           UNCHANGED <<disk, executors, spawned>>,
           leader' \in [Runs -> {"none", "alive", "ok", "failed"}],
           bg' \in [Runs -> BOOLEAN], actual' \in [Runs -> 0 .. 1],
           journal' \in [Runs -> [owners : SUBSET Owners,
                                  preempt : {"none", "issued", "returned"}]],
           \A j \in Runs : GroupAlive(j)' => GroupAlive(j),
           \A j \in Runs \ {i} : actual'[j] = actual[j] /\ journal'[j] = journal[j],
           journal'[i].preempt = "none" => actual'[i] = 0,
           journal'[i].preempt # "none" => Plan[i] = "treatment"
    PROVE  BInv'
<1>1. UNCHANGED <<marker, ledger, dirs, pc, mem, current, clean, interrupts>>
  BY DEF disk, executors
<1>2. i = Len(spawned)
  BY DEF BInv, Workers
<1>3. BatchTypeOK'
  <2>1. marker' \in BOOLEAN
    BY <1>1, Zenon DEF BInv, BatchTypeOK
  <2> QED BY <1>1, <2>1 DEF BInv, BatchTypeOK
<1>4. Workers'
  <2>1. ASSUME NEW j \in Runs
        PROVE  /\ GroupAlive(j)' => j = Len(spawned')
               /\ j > Len(spawned') => journal'[j].preempt = "none"
               /\ journal'[j].preempt = "none" => actual'[j] = 0
               /\ journal'[j].preempt # "none" => Plan[j] = "treatment"
    <3>1. j > Len(spawned') => j # i
      BY <1>2, RunsAreNumbers
    <3> QED BY <3>1 DEF BInv, Workers
  <2> QED BY <1>1, <2>1 DEF BInv, Workers
<1>5. Orderly(ledger)' /\ Admission'
  BY <1>1 DEF BInv, Orderly, Admission
<1>6. DOMAIN ledger.runs \subseteq Runs
  BY RunsAreNumbers DEF BInv, BatchTypeOK, Ledgers
<1>7. CompleteIsExact'
  BY <1>1, <1>6 DEF BInv, CompleteIsExact
<1>8. Positions'
  <2> SUFFICES ASSUME NEW e \in Executors, pc[e] \in Busy
               PROVE  Position(pc[e], mem[e], current[e], clean[e])'
    BY <1>1 DEF Positions
  <2>1. Position(pc[e], mem[e], current[e], clean[e])
    BY AtWork
  <2>2. \A c \in Runs : ~ GroupAlive(c) => actual'[c] = actual[c] /\ ~ GroupAlive(c)'
    OBVIOUS
  <2>3. /\ Orderly(mem[e])' /\ (Behind(ledger, mem[e])' <=> Behind(ledger, mem[e]))
        /\ (AllComplete(ledger)' <=> AllComplete(ledger))
    BY <1>1, <2>1 DEF Position, Orderly, Behind, AllComplete
  <2>4. GroupAlive(current[e])' <=> (leader'[current[e]] = "alive" \/ bg'[current[e]])
    BY <1>1 DEF GroupAlive
  <2>5. \A c \in Runs : GroupAlive(c)' <=> (leader'[c] = "alive" \/ bg'[c])
    BY DEF GroupAlive
  <2>6. pc[e] \in {"record", "validate"} =>
          /\ current[e] \in Runs
          /\ clean[e] => /\ ~ GroupAlive(current[e])' /\ actual'[current[e]] = actual[current[e]]
    BY <2>1, <2>2, <2>4, <2>5 DEF Position, Running
  <2> QED BY <1>1, <2>1, <2>3, <2>6 DEF Position
<1> QED BY <1>3, <1>4, <1>5, <1>7, <1>8 DEF BInv

LEMMA WorkerStepPreserves ==
    ASSUME BInv, NEW i \in Runs, WorkerStep(i)
    PROVE  BInv'
<1>1. /\ leader \in [Runs -> {"none", "alive", "ok", "failed"}] /\ bg \in [Runs -> BOOLEAN]
      /\ actual \in [Runs -> 0 .. 1]
      /\ journal \in [Runs -> [owners : SUBSET Owners, preempt : {"none", "issued", "returned"}]]
      /\ journal[i].preempt = "none" => actual[i] = 0
      /\ journal[i].preempt # "none" => Plan[i] = "treatment"
  BY DEF BInv, BatchTypeOK, Workers
<1>2. CASE \E owner \in Owners : OpenJournal(i, owner)
  <2>1. PICK owner \in Owners : OpenJournal(i, owner)
    BY <1>2
  <2>2. /\ journal' = [journal EXCEPT ![i].owners = @ \cup {owner}]
        /\ UNCHANGED <<disk, executors, leader, bg, actual, spawned>> /\ GroupAlive(i)
    BY <2>1 DEF OpenJournal, GroupAlive
  <2>3. /\ journal' \in [Runs -> [owners : SUBSET Owners,
                                  preempt : {"none", "issued", "returned"}]]
        /\ journal'[i].preempt = journal[i].preempt
        /\ \A j \in Runs \ {i} : journal'[j] = journal[j]
    BY <1>1, <2>2
  <2>4. \A j \in Runs : GroupAlive(j)' => GroupAlive(j)
    BY <2>2 DEF GroupAlive
  <2> QED BY <1>1, <2>2, <2>3, <2>4, WorkerKeeps
<1>3. CASE PublishPreempt(i)
  <2>1. /\ journal' = [journal EXCEPT ![i].preempt = "issued"] /\ Plan[i] = "treatment"
        /\ UNCHANGED <<disk, executors, leader, bg, actual, spawned>> /\ GroupAlive(i)
    BY <1>3 DEF PublishPreempt, GroupAlive
  <2>2. /\ journal' \in [Runs -> [owners : SUBSET Owners,
                                  preempt : {"none", "issued", "returned"}]]
        /\ journal'[i].preempt = "issued"
        /\ \A j \in Runs \ {i} : journal'[j] = journal[j]
    BY <1>1, <2>1
  <2>3. \A j \in Runs : GroupAlive(j)' => GroupAlive(j)
    BY <2>1 DEF GroupAlive
  <2> QED BY <1>1, <2>1, <2>2, <2>3, WorkerKeeps
<1>4. CASE SendPreempt(i)
  <2>1. /\ actual' = [actual EXCEPT ![i] = 1] /\ journal[i].preempt = "issued"
        /\ UNCHANGED <<disk, executors, leader, bg, journal, spawned>> /\ GroupAlive(i)
    BY <1>4 DEF SendPreempt, GroupAlive
  <2>2. \A j \in Runs : GroupAlive(j)' => GroupAlive(j)
    BY <2>1 DEF GroupAlive
  <2> QED BY <1>1, <2>1, <2>2, WorkerKeeps
<1>5. CASE CompletePreempt(i)
  <2>1. /\ journal' = [journal EXCEPT ![i].preempt = "returned"] /\ journal[i].preempt = "issued"
        /\ UNCHANGED <<disk, executors, leader, bg, actual, spawned>> /\ GroupAlive(i)
    BY <1>5 DEF CompletePreempt, GroupAlive
  <2>2. /\ journal' \in [Runs -> [owners : SUBSET Owners,
                                  preempt : {"none", "issued", "returned"}]]
        /\ journal'[i].preempt = "returned"
        /\ \A j \in Runs \ {i} : journal'[j] = journal[j]
    BY <1>1, <2>1
  <2>3. \A j \in Runs : GroupAlive(j)' => GroupAlive(j)
    BY <2>1 DEF GroupAlive
  <2> QED BY <1>1, <2>1, <2>2, <2>3, WorkerKeeps
<1>6. CASE BgExits(i)
  <2>1. /\ bg' = [bg EXCEPT ![i] = FALSE]
        /\ UNCHANGED <<disk, executors, leader, journal, actual, spawned>> /\ GroupAlive(i)
    BY <1>6 DEF BgExits, GroupAlive
  <2>2. bg' \in [Runs -> BOOLEAN]
    BY <1>1, <2>1
  <2>3. \A j \in Runs : GroupAlive(j)' => GroupAlive(j)
    BY <1>1, <2>1 DEF GroupAlive
  <2> QED BY <1>1, <2>1, <2>2, <2>3, WorkerKeeps
<1>7. CASE IntExits(i)
  <2>1. /\ leader' \in [Runs -> {"none", "alive", "ok", "failed"}]
        /\ \A j \in Runs : leader'[j] = "alive" => leader[j] = "alive"
        /\ UNCHANGED <<disk, executors, bg, journal, actual, spawned>> /\ GroupAlive(i)
    BY <1>1, <1>7 DEF IntExits, GroupAlive
  <2>2. \A j \in Runs : GroupAlive(j)' => GroupAlive(j)
    BY <2>1 DEF GroupAlive
  <2> QED BY <1>1, <2>1, <2>2, WorkerKeeps
<1> QED BY <1>2, <1>3, <1>4, <1>5, <1>6, <1>7 DEF WorkerStep

-----------------------------------------------------------------------------
(* The invariant holds for ever.                                              *)
LEMMA ExecutorPreserves ==
    ASSUME BInv, NEW e \in Executors, ExecutorStep(e) \/ SignalStep(e)
    PROVE  BInv'
BY LoadPreserves, MarkPreserves, BeginPreserves, PreflightPreserves, CheckRunPreserves,
   AllRunsDonePreserves, ReservePreserves, PersistPreserves, SpawnPreserves,
   SpawnFailsPreserves, LeaderExitedPreserves, WaitTimeoutPreserves, GraceOverPreserves,
   NoDescendantsPreserves, DescendantsRemainPreserves, KillGroupPreserves,
   RecordOutcomePreserves, ValidatePreserves, FailsPreserves, ExceptPreserves,
   FinallyPreserves, InterruptPreserves, InterruptReservePreserves,
   InterruptProbePreserves, InterruptWaitPreserves, CrashPreserves
   DEF ExecutorStep, SignalStep

LEMMA StutterPreserves ==
    ASSUME BInv, UNCHANGED vars
    PROVE  BInv'
<1>1. UNCHANGED <<ledger, dirs, pc, mem, current, clean, interrupts, leader, bg,
                  journal, actual, spawned>> /\ marker' = marker
  BY DEF vars, disk, executors, groups
<1>2. BatchTypeOK'
  <2>1. marker' \in BOOLEAN
    BY <1>1, Zenon DEF BInv, BatchTypeOK
  <2> QED BY <1>1, <2>1 DEF BInv, BatchTypeOK
<1>3. Admission'
  BY <1>1 DEF BInv, Admission
<1>4. Positions'
  BY <1>1 DEF BInv, Positions, Position, Orderly, AllComplete, Behind, GroupAlive
<1>5. Workers' /\ Orderly(ledger)' /\ CompleteIsExact'
  BY <1>1 DEF BInv, Workers, GroupAlive, Orderly, CompleteIsExact
<1> QED BY <1>2, <1>3, <1>4, <1>5 DEF BInv

LEMMA Invariance == Spec => []BInv
<1>1. BInv /\ [Next]_vars => BInv'
  BY ExecutorPreserves, WorkerStepPreserves, StutterPreserves DEF Next
<1> QED BY InitEstablishes, <1>1, PTL DEF Spec

-----------------------------------------------------------------------------
(* The files, the executors and the groups keep their types (BatchTypeOK).    *)
THEOREM BatchTypeCorrect == Spec => []BatchTypeOK
<1>1. BInv => BatchTypeOK
  BY DEF BInv
<1> QED BY Invariance, <1>1, PTL

(* The ledger on disk is true of the workers for any plan and budget: every   *)
(* request that was sent has a slot, the slots keep within the budget, and    *)
(* what is COMPLETE has been counted exactly (LedgerTrue).                    *)
LEMMA SlotsCover ==
    ASSUME BInv
    PROVE  BudgetHeld
<1> DEFINE n == Len(ledger.runs)
<1>1. n \in Nat /\ DOMAIN ledger.runs = 1 .. n /\ ledger.slots \in Nat
  BY DEF BInv, BatchTypeOK, Ledgers
<1>2. Preempted \subseteq Treatments(n)
  <2> SUFFICES ASSUME NEW i \in Runs, actual[i] = 1 PROVE i \in Treatments(n)
    BY DEF Preempted
  <2>1. journal[i].preempt # "none"
    BY DEF BInv, Workers
  <2>2. ~ (i > Len(spawned)) /\ Len(spawned) <= n /\ Plan[i] = "treatment" /\ Len(spawned) \in Nat
    BY <2>1 DEF BInv, BatchTypeOK, Workers
  <2> QED BY <1>1, <2>2, RunsAreNumbers DEF Treatments
<1>3. Cardinality(Preempted) <= Cardinality(Treatments(n)) /\ IsFiniteSet(Preempted)
  BY <1>1, <1>2, TreatmentsFinite, FS_Subset
<1>4. Cardinality(Preempted) \in Nat /\ Cardinality(Treatments(n)) \in Nat
  BY <1>1, <1>3, TreatmentsFinite, FS_CardinalityType
<1>5. Cardinality(Treatments(n)) <= ledger.slots /\ ledger.slots <= MaxAttempts
  BY DEF BInv, Orderly
<1>6. Treatments(n) \subseteq DOMAIN ledger.runs
  BY <1>1 DEF Treatments
<1> HIDE DEF n
<1> QED BY <1>1, <1>2, <1>3, <1>4, <1>5, <1>6 DEF BudgetHeld

THEOREM LedgerIsTrue == Spec => []LedgerTrue
<1>1. BInv => LedgerTrue
  BY SlotsCover DEF BInv, LedgerTrue
<1> QED BY Invariance, <1>1, PTL

(* However many executors are started, interrupted and killed, two runs are   *)
(* never on the GPU at once (OneGroupAtATime).                                *)
THEOREM GroupsNeverOverlap == Spec => []OneGroupAtATime
<1>1. BInv => OneGroupAtATime
  BY DEF BInv, Workers, OneGroupAtATime
<1> QED BY Invariance, <1>1, PTL

(* A group is spawned only by the two steps that start one, at the position   *)
(* "spawn".                                                                   *)
LEMMA SpawnedByStart ==
    ASSUME [Next]_vars, spawned' # spawned
    PROVE  \E e \in Executors : pc[e] = "spawn" /\ StartGroup(current[e])
<1>1. ASSUME UNCHANGED vars PROVE FALSE
  BY <1>1 DEF vars
<1>2. ASSUME NEW i \in Runs, WorkerStep(i) PROVE FALSE
  BY <1>2 DEF WorkerStep, OpenJournal, PublishPreempt, SendPreempt, CompletePreempt,
              BgExits, IntExits
<1>3. ASSUME NEW e \in Executors, ExecutorStep(e)
      PROVE  pc[e] = "spawn" /\ StartGroup(current[e])
  BY <1>3 DEF ExecutorStep, Load, LoadRefused, Mark, MarkRefused, Begin, Preflight,
              CheckRun, AllRunsDone, Reserve, Persist, Spawn, SpawnFails, LeaderExited,
              WaitTimeout, GraceOver, NoDescendants, DescendantsRemain, KillGroup,
              RecordOutcome, Validate, Fails, Except, Finally
<1>4. ASSUME NEW e \in Executors, SignalStep(e)
      PROVE  pc[e] = "spawn" /\ StartGroup(current[e])
  BY <1>4 DEF SignalStep, Interrupt, InterruptReserve, InterruptProbe, InterruptPopen,
              InterruptWait, Crash
<1> QED BY <1>1, <1>2, <1>3, <1>4 DEF Next

(* Every spawn has the licence of the ledger that is on disk at that moment,  *)
(* and no run is ever spawned twice (SpawnLicensed).                          *)
THEOREM EverySpawnIsLicensed == Spec => SpawnLicensed
<1> DEFINE Licence ==
      spawned' # spawned =>
          LET n == Len(ledger.runs) IN
          /\ spawned' = Append(spawned, n) /\ spawned = [k \in 1 .. n - 1 |-> k]
          /\ ~ledger.stopped /\ ledger.runs[n].state = "RESERVED"
          /\ \A i \in 1 .. n - 1 : ledger.runs[i].state = "COMPLETE"
<1>1. ASSUME BInv, [Next]_vars PROVE Licence
  <2> SUFFICES ASSUME spawned' # spawned
               PROVE  LET n == Len(ledger.runs) IN
                      /\ spawned' = Append(spawned, n) /\ spawned = [k \in 1 .. n - 1 |-> k]
                      /\ ~ledger.stopped /\ ledger.runs[n].state = "RESERVED"
                      /\ \A i \in 1 .. n - 1 : ledger.runs[i].state = "COMPLETE"
    OBVIOUS
  <2>1. PICK e \in Executors : pc[e] = "spawn" /\ StartGroup(current[e])
    BY <1>1, SpawnedByStart
  <2>2. Position("spawn", mem[e], current[e], clean[e])
    BY <1>1, <2>1, AtWork DEF Busy, InTry
  <2>3. /\ ledger = mem[e] /\ ~ mem[e].stopped /\ Orderly(mem[e])
        /\ current[e] = Len(ledger.runs) /\ Len(spawned) = current[e] - 1
        /\ ledger.runs[current[e]].state = "RESERVED"
    BY <2>2 DEF Position, Synced, Running, InTry
  <2>4. spawned = [k \in 1 .. current[e] - 1 |-> k]
    BY <1>1, <2>3 DEF BInv, Workers
  <2>5. spawned' = Append(spawned, current[e])
    BY <2>1 DEF StartGroup
  <2> QED BY <2>3, <2>4, <2>5 DEF Orderly
<1>2. Licence => [Licence]_vars
  OBVIOUS
<1> QED BY Invariance, <1>1, PTL DEF Spec, SpawnLicensed

(* What no write of the ledger may take back.                                 *)
Grows(l, m) ==
    /\ l.started => m.started
    /\ l.stopped => m.stopped
    /\ l.slots <= m.slots
    /\ Len(l.runs) <= Len(m.runs)
    /\ \A i \in DOMAIN l.runs :
          l.runs[i].state # "RESERVED" => m.runs[i].state = l.runs[i].state

LEMMA WritesGrow ==
    ASSUME BInv, [Next]_vars
    PROVE  Grows(ledger, ledger')
<1>0. ledger \in Ledgers
  BY DEF BInv, BatchTypeOK
<1>1. CASE ledger' = ledger
  BY <1>0, <1>1 DEF Grows, Ledgers
<1>2. ASSUME NEW e \in Executors,
             ExecutorStep(e), ledger' # ledger
      PROVE  Grows(ledger, ledger')
  <2>1. \/ Begin(e) \/ Persist(e) \/ RecordOutcome(e) \/ Validate(e) \/ Except(e) \/ Finally(e)
    BY <1>2 DEF ExecutorStep, Load, LoadRefused, Mark, MarkRefused, Preflight,
              CheckRun, AllRunsDone, Reserve, Spawn, SpawnFails, LeaderExited,
              WaitTimeout, GraceOver, NoDescendants, DescendantsRemain, KillGroup, Fails, disk
  <2>2. mem \in [Executors -> Ledgers] /\ mem[e] \in Ledgers
    BY DEF BInv, BatchTypeOK
  <2>3. CASE Begin(e)
    <3>1. ledger = EmptyLedger /\ mem[e] = EmptyLedger
      BY <2>3 DEF Begin, BInv, Admission
    <3>2. ledger' = [mem[e] EXCEPT !.started = TRUE]
      BY <2>2, <2>3 DEF Begin
    <3>3. /\ ledger'.slots = ledger.slots /\ ledger'.runs = ledger.runs
          /\ ~ ledger.stopped /\ ~ ledger.started
      BY <2>2, <3>1, <3>2 DEF Ledgers, EmptyLedger
    <3> QED BY <1>0, <3>3 DEF Grows, Ledgers
  <2>4. CASE Persist(e) \/ Finally(e)
    <3>1. ledger' = mem[e] /\ pc[e] \in {"persist", "finally"}
      BY <2>4 DEF Persist, Finally
    <3>2. Behind(ledger, mem[e]) /\ mem[e].started
      BY <3>1, AtWork DEF Busy, InTry, Leaving, Position
    <3> QED BY <3>1, <3>2 DEF Grows, Behind
  <2>5. CASE Except(e)
    <3>1. ledger' = StopRecord(e) /\ pc[e] = "except"
      BY <2>2, <2>5 DEF Except
    <3>2. Behind(ledger, mem[e]) /\ mem[e].started
      BY <3>1, AtWork DEF Busy, Leaving, Position
    <3>3. StopRecord(e).stopped
      BY <2>2 DEF StopRecord, Ledgers
    <3>4. DOMAIN ledger.runs \subseteq DOMAIN mem[e].runs
      BY <1>0, <2>2, <3>2 DEF Behind, Ledgers
    <3> QED BY <2>2, <3>1, <3>2, <3>3, <3>4, StopRecordKeeps DEF Grows, Behind
  <2>6. CASE RecordOutcome(e) \/ Validate(e)
    <3> DEFINE c == current[e]
    <3>1. pc[e] \in {"record", "validate"}
      BY <2>6 DEF RecordOutcome, Validate
    <3>2. /\ ledger = mem[e] /\ ledger.runs[c].state = "RESERVED" /\ c \in Runs
          /\ c = Len(mem[e].runs)
      BY <3>1, AtWork DEF Busy, InTry, Position, Synced, Running
    <3>3. \E r : ledger' = Settled(mem[e], c, r) /\ r \in Record
      <4>1. mem[e].runs[c] \in Record
        BY <2>2, <3>2, RunsAreNumbers DEF Ledgers
      <4>2. CASE Validate(e)
        <5>1. ledger' = Settled(mem[e], c, [mem[e].runs[c] EXCEPT !.state = "COMPLETE"])
          BY <2>2, <4>2 DEF Validate, Settled, Ledgers
        <5>2. [mem[e].runs[c] EXCEPT !.state = "COMPLETE"] \in Record
          BY <4>1 DEF Record
        <5> QED BY <5>1, <5>2
      <4>3. CASE RecordOutcome(e)
        <5> DEFINE k == ~ OutcomeUnknown(c)
                   a == IF OutcomeUnknown(c) THEN 0 ELSE Attempts(c)
        <5>1. ledger' = Settled(mem[e], c, [mem[e].runs[c] EXCEPT !.known = k, !.attempts = a])
          BY <2>2, <4>3 DEF RecordOutcome, Settled, Ledgers
        <5>2. a \in 0 .. 1 /\ k \in BOOLEAN
          BY <3>2, CountIsExact
        <5> HIDE DEF k, a
        <5>3. [mem[e].runs[c] EXCEPT !.known = k, !.attempts = a] \in Record
          BY <4>1, <5>2 DEF Record
        <5> QED BY <5>1, <5>3
      <4> QED BY <2>6, <4>2, <4>3
    <3>4. PICK r \in Record : ledger' = Settled(mem[e], c, r)
      BY <3>3
    <3>5. c \in 1 .. Len(mem[e].runs)
      BY <2>2, <3>2, RunsAreNumbers DEF Ledgers
    <3>6. /\ ledger'.started = mem[e].started /\ ledger'.slots = mem[e].slots
          /\ ledger'.stopped = mem[e].stopped /\ Len(ledger'.runs) = Len(mem[e].runs)
          /\ \A j \in 1 .. Len(mem[e].runs) : j # c => ledger'.runs[j] = mem[e].runs[j]
      BY <2>2, <3>4, <3>5, RecordChanged
    <3>7. mem[e].slots \in Nat /\ Len(mem[e].runs) \in Nat
          /\ DOMAIN mem[e].runs = 1 .. Len(mem[e].runs)
      BY <2>2 DEF Ledgers
    <3> HIDE DEF c
    <3> QED BY <3>2, <3>6, <3>7 DEF Grows
  <2> QED BY <2>1, <2>3, <2>4, <2>5, <2>6
<1>3. ASSUME NEW e \in Executors, SignalStep(e) PROVE ledger' = ledger
  BY <1>3 DEF SignalStep, Interrupt, InterruptReserve, InterruptProbe, InterruptPopen,
              InterruptWait, Crash, disk
<1>4. ASSUME NEW i \in Runs, WorkerStep(i) PROVE ledger' = ledger
  BY <1>4 DEF WorkerStep, OpenJournal, PublishPreempt, SendPreempt, CompletePreempt,
              BgExits, IntExits, disk
<1>5. ASSUME UNCHANGED vars PROVE ledger' = ledger
  BY <1>5 DEF vars, disk
<1> QED BY <1>1, <1>2, <1>3, <1>4, <1>5 DEF Next

(* No write of any executor takes back a slot, a record or the outcome of a   *)
(* run (LedgerNeverForgets).                                                  *)
THEOREM WritesNeverForget == Spec => LedgerNeverForgets
<1> DEFINE Kept ==
      /\ ledger.started => ledger'.started
      /\ ledger.stopped => ledger'.stopped
      /\ ledger.slots <= ledger'.slots
      /\ Len(ledger.runs) <= Len(ledger'.runs)
      /\ \A i \in DOMAIN ledger.runs :
            ledger.runs[i].state # "RESERVED" =>
                ledger'.runs[i].state = ledger.runs[i].state
<1>1. ASSUME BInv, [Next]_vars PROVE Kept
  BY <1>1, WritesGrow DEF Grows
<1> QED BY Invariance, <1>1, PTL DEF Spec, LedgerNeverForgets
=============================================================================
