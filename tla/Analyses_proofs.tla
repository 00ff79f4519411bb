----------------------------- MODULE Analyses_proofs -----------------------------
(***************************************************************************)
(* The four invariants and the action property of Analyses, for every      *)
(* value of the constants: samples of any length, any clocks, pings and    *)
(* delays, batches of any number of pairs, captures with any number of     *)
(* switches and exports with any number of faults.                         *)
(*                                                                         *)
(* Each part of the state has an inductive invariant of its own: SampleInv,*)
(* RowsInv (the pings and the row are of the real clock), BatchInv (a run  *)
(* is COMPLETE only with the planned configuration and a valid row) and    *)
(* CaptureInv (records counted from 1 in the order of time, the last one   *)
(* says who is on the engine, and a kernel that ran has left a trace of    *)
(* its context in its trial, or the context never left).                   *)
(*                                                                         *)
(* Statements about all naturals or all finite sets come from SetInduction,*)
(* an induction over a set instead of a predicate, and from the well-      *)
(* foundedness of < that the library states as a fact.                     *)
(***************************************************************************)
EXTENDS Analyses, SequenceTheorems, FiniteSetTheorems, WellFoundedInduction, TLAPS

-----------------------------------------------------------------------------
(* Least elements, and induction over the naturals: the statement about sets  *)
(* that the well-foundedness of < gives.                                      *)
Less == {ss \in Nat \X Nat : ss[1] < ss[2]}

LEMMA LessIsWellFounded == IsWellFoundedOn(Less, Nat)
BY NatLessThanWellFounded DEF OpToRel, Less

LEMMA LeastNatural ==
    ASSUME NEW T \in SUBSET Nat, T # {} PROVE \E x \in T : \A y \in T : x <= y
<1>1. PICK x \in T : \A y \in T : ~ (<<y, x>> \in Less)
  BY LessIsWellFounded, WFMin
<1>2. ASSUME NEW y \in T, ~ (x <= y) PROVE FALSE
  <2>1. x \in Nat /\ y \in Nat /\ y < x
    BY <1>2
  <2>2. <<y, x>> \in Less
    BY <2>1 DEF Less
  <2> QED BY <1>1, <2>2
<1> QED BY <1>2

LEMMA SetInduction ==
    ASSUME NEW T \in SUBSET Nat, 0 \in T, \A n \in T : n + 1 \in T PROVE T = Nat
<1> SUFFICES ASSUME Nat \ T # {} PROVE FALSE
  OBVIOUS
<1>1. PICK x \in Nat \ T : \A y \in Nat \ T : x <= y
  BY LeastNatural
<1>2. x # 0 /\ x - 1 \in Nat /\ ~ (x <= x - 1)
  BY <1>1
<1>3. x - 1 \in T
  BY <1>1, <1>2
<1>4. x \in T
  BY <1>1, <1>3
<1> QED BY <1>4

-----------------------------------------------------------------------------
(* The rows of a run (Summary).                                               *)
\* The pings are pings of the real clock, and the row is one the worker can leave.
RowsInv ==
    /\ clock \in [slope : Slopes, offset : Offsets]
    /\ before \in Seq(Rows!Pings) /\ after \in Seq(Rows!Pings)
    /\ row # Rows!NoRow =>
        \E g \in Stamps, off \in -Margin .. Margin, lag \in Slacks, rm \in Int :
            row \in Rows!Measured(g, off, lag, rm)

LEMMA RowsInvInit == ASSUME Init PROVE RowsInv
BY DEF Init, Rows!Init, RowsInv

LEMMA RowsTyped ==
    ASSUME RowsInv
    PROVE  /\ clock.slope \in Nat /\ clock.offset \in Nat
           /\ \A g \in Nat : Rows!Real(g) \in Nat
           /\ \A p \in Rows!Pings : /\ p.gpu \in Nat /\ p.send \in Int /\ p.seen \in Int
                                    /\ p.send <= Rows!Real(p.gpu) /\ Rows!Real(p.gpu) <= p.seen
<1>1. clock.slope \in Nat /\ clock.offset \in Nat
  BY AnalysisAssumption DEF AnalysisAssumption, RowsInv
<1>2. \A g \in Nat : Rows!Real(g) \in Nat
  BY <1>1 DEF Rows!Real
<1>3. ASSUME NEW p \in Rows!Pings
      PROVE  /\ p.gpu \in Nat /\ p.send \in Int /\ p.seen \in Int
             /\ p.send <= Rows!Real(p.gpu) /\ Rows!Real(p.gpu) <= p.seen
  <2>1. PICK g \in Stamps, down \in Slacks, up \in Slacks :
            p = [send |-> Rows!Real(g) - down, gpu |-> g, seen |-> Rows!Real(g) + up]
    BY DEF Rows!Pings
  <2>2. g \in Nat /\ down \in Nat /\ up \in Nat
    BY AnalysisAssumption DEF AnalysisAssumption
  <2>3. p.gpu = g /\ p.send = Rows!Real(g) - down /\ p.seen = Rows!Real(g) + up
    BY <2>1
  <2> QED BY <1>2, <2>2, <2>3
<1> QED BY <1>1, <1>2, <1>3

LEMMA RowsInvStep == ASSUME RowsInv, [Next]_vars PROVE RowsInv'
<1>1. CASE UNCHANGED rowsVars
  <2>1. Rows!Pings' = Rows!Pings
    BY <1>1 DEF rowsVars, Rows!Pings, Rows!Real
  <2>2. ASSUME NEW g, NEW off, NEW lag, NEW rm
        PROVE  Rows!Measured(g, off, lag, rm)' = Rows!Measured(g, off, lag, rm)
    BY <1>1 DEF rowsVars, Rows!Measured, Rows!Real
  <2> QED BY <1>1, <2>1, <2>2 DEF RowsInv, rowsVars
<1>2. CASE Rows!Next
  <2>1. clock' = clock /\ Rows!Pings' = Rows!Pings /\ UNCHANGED Rows!NoRow
    BY <1>2 DEF Rows!Next, Rows!CalibrateBefore, Rows!Trial, Rows!CalibrateAfter, Rows!Pings, Rows!Real
  <2>2. ASSUME NEW g, NEW off, NEW lag, NEW rm
        PROVE  Rows!Measured(g, off, lag, rm)' = Rows!Measured(g, off, lag, rm)
    BY <2>1 DEF Rows!Measured, Rows!Real
  <2>3. CASE Rows!CalibrateBefore
    <3>1. before' \in Seq(Rows!Pings)
      BY <2>3 DEF Rows!CalibrateBefore, Rows!Pinged, RowsInv
    <3> QED BY <2>1, <2>2, <2>3, <3>1 DEF Rows!CalibrateBefore, RowsInv
  <2>4. CASE Rows!CalibrateAfter
    <3>1. after' \in Seq(Rows!Pings)
      BY <2>4 DEF Rows!CalibrateAfter, Rows!Pinged, RowsInv
    <3> QED BY <2>1, <2>2, <2>4, <3>1 DEF Rows!CalibrateAfter, RowsInv
  <2>5. CASE Rows!Trial
    <3>1. PICK g \in Stamps, off \in -Margin .. Margin, lag \in Slacks :
              \E rm \in {Rows!Unknown} \cup Rows!Latest(before) .. Rows!Real(g) + off + lag + 1 :
                row' \in Rows!Measured(g, off, lag, rm)
      BY <2>5 DEF Rows!Trial
    <3>2. PICK rm \in Int : row' \in Rows!Measured(g, off, lag, rm)
      BY <3>1 DEF Rows!Unknown
    <3> QED BY <2>1, <2>2, <2>5, <3>2 DEF Rows!Trial, RowsInv
  <2> QED BY <1>2, <2>3, <2>4, <2>5 DEF Rows!Next
<1> QED BY <1>1, <1>2 DEF Next, vars, AddValue, RowsStep, BatchStep, CaptureStep

-----------------------------------------------------------------------------
(* A finite set in the order of a key.                                        *)
LEMMA LeastKey ==
    ASSUME NEW S, IsFiniteSet(S), S # {}, NEW k \in [S -> Int]
    PROVE  \E x \in S : \A y \in S : k[x] <= k[y]
<1> DEFINE HasLeast(A) == A # {} => \E x \in A : \A y \in A : k[x] <= k[y]
           T == {n \in Nat : \A A \in SUBSET S : Cardinality(A) = n => HasLeast(A)}
<1>1. T \in SUBSET Nat
  OBVIOUS
<1>2. 0 \in T
  BY FS_EmptySet, FS_Subset
<1>3. ASSUME NEW n \in T PROVE n + 1 \in T
  <2> SUFFICES ASSUME NEW A \in SUBSET S, Cardinality(A) = n + 1, A # {}
               PROVE  \E x \in A : \A y \in A : k[x] <= k[y]
    BY <1>3
  <2>1. PICK a \in A : TRUE
    OBVIOUS
  <2>2. Cardinality(A \ {a}) = n
    <3>1. n \in Nat /\ IsFiniteSet(A)
      BY <1>3, FS_Subset
    <3>2. Cardinality(A \ {a}) = (n + 1) - 1
      BY <2>1, <3>1, FS_RemoveElement
    <3> QED BY <3>1, <3>2
  <2>3. HasLeast(A \ {a})
    BY <2>2, <1>3
  <2>4. CASE A \ {a} = {}
    <3>1. \A y \in A : y = a
      BY <2>4
    <3>2. k[a] <= k[a]
      BY <2>1
    <3> QED BY <2>1, <3>1, <3>2
  <2>5. CASE A \ {a} # {}
    <3>1. PICK x \in A \ {a} : \A y \in A \ {a} : k[x] <= k[y]
      BY <2>3, <2>5
    <3>2. k[x] \in Int /\ k[a] \in Int
      BY <2>1
    <3>3. CASE k[x] <= k[a]
      <4>1. \A y \in A : k[x] <= k[y]
        BY <3>1, <3>3
      <4> QED BY <4>1
    <3>4. CASE ~ (k[x] <= k[a])
      <4>1. ASSUME NEW y \in A PROVE k[a] <= k[y]
        <5>1. CASE y = a
          BY <3>2, <5>1
        <5>2. CASE y # a
          <6>1. k[y] \in Int /\ k[x] <= k[y]
            BY <3>1, <5>2
          <6> QED BY <3>2, <3>4, <6>1
        <5> QED BY <5>1, <5>2
      <4> QED BY <2>1, <4>1
    <3> QED BY <3>3, <3>4
  <2> QED BY <2>4, <2>5
<1>4. T = Nat
  <2> HIDE DEF T
  <2> QED BY <1>1, <1>2, <1>3, SetInduction
<1>5. Cardinality(S) \in T
  BY <1>4, FS_CardinalityType
<1> QED BY <1>5

LEMMA SortedEnumeration ==
    ASSUME NEW S, IsFiniteSet(S), NEW k \in [S -> Int]
    PROVE  \E e \in Bijection(1 .. Cardinality(S), S) :
             \A i, j \in 1 .. Cardinality(S) : i < j => k[e[i]] <= k[e[j]]
<1> DEFINE InOrder(A, e, n) == /\ e \in [1 .. n -> A]
                               /\ \A x \in A : \E i \in 1 .. n : e[i] = x
                               /\ \A i, j \in 1 .. n : i < j => e[i] # e[j] /\ k[e[i]] <= k[e[j]]
           T == {n \in Nat : \A A \in SUBSET S : Cardinality(A) = n => \E e : InOrder(A, e, n)}
<1>1. T \in SUBSET Nat
  OBVIOUS
<1>2. 0 \in T
  <2> SUFFICES ASSUME NEW A \in SUBSET S, Cardinality(A) = 0
               PROVE  \E e : InOrder(A, e, 0)
    OBVIOUS
  <2>1. A = {}
    BY FS_Subset, FS_EmptySet
  <2> DEFINE e0 == [i \in 1 .. 0 |-> i]
  <2>2. InOrder(A, e0, 0)
    BY <2>1
  <2> QED BY <2>2
<1>3. ASSUME NEW n \in T PROVE n + 1 \in T
  <2> SUFFICES ASSUME NEW A \in SUBSET S, Cardinality(A) = n + 1
               PROVE  \E e : InOrder(A, e, n + 1)
    <3> HIDE DEF InOrder
    <3>1. n + 1 \in Nat
      BY <1>3
    <3> QED BY <3>1
  <2>1. n \in Nat /\ IsFiniteSet(A) /\ A # {}
    BY <1>3, FS_Subset, FS_EmptySet
  <2>2. PICK a \in A : \A y \in A : k[a] <= k[y]
    <3>1. [x \in A |-> k[x]] \in [A -> Int]
      OBVIOUS
    <3>2. \E x \in A : \A y \in A : [z \in A |-> k[z]][x] <= [z \in A |-> k[z]][y]
      BY <2>1, <3>1, LeastKey
    <3> QED BY <3>2
  <2>3. Cardinality(A \ {a}) = n
    <3>1. Cardinality(A \ {a}) = (n + 1) - 1
      BY <2>1, FS_RemoveElement
    <3> QED BY <2>1, <3>1
  <2>4. PICK r : InOrder(A \ {a}, r, n)
    BY <1>3, <2>3
  <2> DEFINE e == [i \in 1 .. n + 1 |-> IF i = 1 THEN a ELSE r[i - 1]]
  <2>5. \A i \in 1 .. n + 1 : i # 1 => i - 1 \in 1 .. n /\ e[i] = r[i - 1] /\ e[i] \in A \ {a}
    BY <2>1, <2>4
  <2>6. e[1] = a /\ 1 \in 1 .. n + 1
    BY <2>1
  <2>7. e \in [1 .. n + 1 -> A]
    BY <2>5, <2>6
  <2>8. ASSUME NEW x \in A PROVE \E i \in 1 .. n + 1 : e[i] = x
    <3>1. CASE x = a
      BY <2>6, <3>1
    <3>2. CASE x # a
      <4>1. PICK i \in 1 .. n : r[i] = x
        BY <2>4, <3>2
      <4>2. i + 1 \in 1 .. n + 1 /\ i + 1 # 1 /\ (i + 1) - 1 = i
        BY <2>1
      <4>3. e[i + 1] = x
        BY <2>5, <4>1, <4>2
      <4> QED BY <4>2, <4>3
    <3> QED BY <3>1, <3>2
  <2>9. ASSUME NEW i \in 1 .. n + 1, NEW j \in 1 .. n + 1, i < j
        PROVE  e[i] # e[j] /\ k[e[i]] <= k[e[j]]
    <3>1. j # 1
      BY <2>9, <2>1
    <3>2. CASE i = 1
      BY <2>2, <2>5, <2>6, <3>1, <3>2
    <3>3. CASE i # 1
      <4>1. i - 1 \in 1 .. n /\ j - 1 \in 1 .. n /\ i - 1 < j - 1
        BY <2>1, <2>9, <3>1, <3>3
      <4>2. e[i] = r[i - 1] /\ e[j] = r[j - 1]
        BY <2>5, <3>1, <3>3
      <4> QED BY <2>4, <4>1, <4>2
    <3> QED BY <3>2, <3>3
  <2> HIDE DEF e
  <2> QED BY <2>7, <2>8, <2>9
<1>4. T = Nat
  <2> HIDE DEF T
  <2> QED BY <1>1, <1>2, <1>3, SetInduction
<1> DEFINE c == Cardinality(S)
<1>5. c \in Nat /\ c \in T
  BY <1>4, FS_CardinalityType
<1>6. PICK e : InOrder(S, e, c)
  BY <1>5
<1>7. ASSUME NEW i \in 1 .. c, NEW j \in 1 .. c, e[i] = e[j] PROVE i = j
  <2>1. ~ (i < j) /\ ~ (j < i)
    BY <1>6, <1>7
  <2> QED BY <1>5, <2>1
<1>8. e \in Bijection(1 .. c, S)
  BY <1>6, <1>7 DEF Bijection, Injection, Surjection, IsInjective
<1> QED BY <1>6, <1>8

\* Two or three parts of a finite set have its members between them.
LEMMA TwoParts ==
    ASSUME NEW S, NEW A, NEW B, IsFiniteSet(S), S = A \cup B, A \cap B = {}
    PROVE  /\ Cardinality(S) = Cardinality(A) + Cardinality(B)
           /\ Cardinality(A) \in Nat /\ Cardinality(B) \in Nat
<1>1. IsFiniteSet(A) /\ IsFiniteSet(B)
  BY FS_Subset
<1>2. Cardinality(A) \in Nat /\ Cardinality(B) \in Nat /\ Cardinality({}) = 0
  BY <1>1, FS_CardinalityType, FS_EmptySet
<1>3. Cardinality(A \cup B) = Cardinality(A) + Cardinality(B) - Cardinality(A \cap B)
  BY <1>1, FS_Union
<1>4. Cardinality(A \cup B) = Cardinality(S) /\ Cardinality(A \cap B) = Cardinality({})
  OBVIOUS
<1> QED BY <1>2, <1>3, <1>4

LEMMA ThreeParts ==
    ASSUME NEW S, NEW A, NEW B, NEW C, IsFiniteSet(S), S = A \cup B \cup C,
           A \cap B = {}, A \cap C = {}, B \cap C = {}
    PROVE  Cardinality(S) = Cardinality(A) + Cardinality(B) + Cardinality(C)
<1>1. IsFiniteSet(A \cup B) /\ (A \cup B) \cap C = {}
  BY FS_Subset
<1>2. /\ Cardinality(S) = Cardinality(A \cup B) + Cardinality(C)
      /\ Cardinality(A \cup B) = Cardinality(A) + Cardinality(B)
  BY <1>1, TwoParts
<1> QED BY <1>2

-----------------------------------------------------------------------------
(* Arithmetic.                                                                *)
LEMMA Weighted ==
    ASSUME NEW x \in Int, NEW y \in Int, NEW w \in Nat, x <= y PROVE x * w <= y * w
BY SMT

LEMMA Hundreds ==
    ASSUME NEW x \in Nat
    PROVE  /\ x \div 100 \in Nat /\ x % 100 \in 0 .. 99
           /\ x = 100 * (x \div 100) + (x % 100)
BY SMT

-----------------------------------------------------------------------------
(* Samples and their quantiles (Descriptions).                                *)
SampleInv == sample \in Seq(Int)

LEMMA SampleInvInit == ASSUME Init PROVE SampleInv
BY DEF Init, SampleInv

LEMMA SampleInvStep == ASSUME SampleInv, [Next]_vars PROVE SampleInv'
<1>1. CASE UNCHANGED sample
  BY <1>1 DEF SampleInv
<1>2. ASSUME NEW v \in Values, AddValue(v) PROVE SampleInv'
  <2>1. v \in Int
    BY AnalysisAssumption DEF AnalysisAssumption
  <2> QED BY <1>2, <2>1 DEF AddValue, SampleInv
<1> QED BY <1>1, <1>2 DEF Next, vars, RowsStep, BatchStep, CaptureStep

Lesser(values, v) == {j \in DOMAIN values : values[j] < v}
NotGreater(values, v) == {j \in DOMAIN values : values[j] <= v}

LEMMA Positions ==
    ASSUME NEW values \in Seq(Int)
    PROVE  /\ Len(values) \in Nat /\ DOMAIN values = 1 .. Len(values)
           /\ IsFiniteSet(DOMAIN values) /\ Cardinality(DOMAIN values) = Len(values)
           /\ values \in [1 .. Len(values) -> Int]
           /\ \A A \in SUBSET DOMAIN values : IsFiniteSet(A) /\ Cardinality(A) \in Nat
<1>1. Len(values) \in Nat /\ DOMAIN values = 1 .. Len(values) /\ values \in [1 .. Len(values) -> Int]
  OBVIOUS
<1>2. IsFiniteSet(DOMAIN values) /\ Cardinality(DOMAIN values) = Len(values)
  BY <1>1, FS_Interval
<1> QED BY <1>1, <1>2, FS_Subset, FS_CardinalityType

FirstOf(e, i) == {e[j] : j \in 1 .. i}

\* What is counted through an injection is at least, or at most, as much.
LEMMA ImageOfInterval ==
    ASSUME NEW n \in Nat, NEW e, NEW S, e \in Bijection(1 .. n, S), NEW i \in 0 .. n
    PROVE  IsFiniteSet(FirstOf(e, i)) /\ Cardinality(FirstOf(e, i)) = i
<1> USE DEF FirstOf
<1> DEFINE A == FirstOf(e, i)
           f == [j \in 1 .. i |-> e[j]]
<1>1. /\ e \in [1 .. n -> S] /\ \A a, b \in 1 .. n : e[a] = e[b] => a = b
  BY DEF Bijection, Injection, IsInjective
<1>2. 1 .. i \subseteq 1 .. n
  OBVIOUS
<1>3. f \in Bijection(1 .. i, A)
  <2>1. f \in [1 .. i -> A] /\ \A a \in A : \E j \in 1 .. i : f[j] = a
    OBVIOUS
  <2>2. \A a, b \in 1 .. i : f[a] = f[b] => a = b
    BY <1>1, <1>2
  <2> QED BY <2>1, <2>2 DEF Bijection, Injection, Surjection, IsInjective
<1>4. IsFiniteSet(1 .. i) /\ Cardinality(1 .. i) = i
  BY FS_Interval
<1>5. ExistsBijection(1 .. i, A)
  BY <1>3 DEF ExistsBijection
<1> QED BY <1>4, <1>5, FS_Bijection

LEMMA SortedExists ==
    ASSUME NEW values \in Seq(Int), NEW i \in DOMAIN values
    PROVE  \E v \in Range(values) : /\ Cardinality(Lesser(values, v)) < i
                                    /\ Cardinality(NotGreater(values, v)) >= i
<1> DEFINE n == Len(values)
           D == DOMAIN values
<1>1. /\ n \in Nat /\ D = 1 .. n /\ IsFiniteSet(D) /\ Cardinality(D) = n
      /\ values \in [D -> Int]
      /\ \A A \in SUBSET D : IsFiniteSet(A) /\ Cardinality(A) \in Nat
  BY Positions
<1>2. PICK e \in Bijection(1 .. n, D) :
        \A a, b \in 1 .. n : a < b => values[e[a]] <= values[e[b]]
  BY <1>1, SortedEnumeration
<1>3. e \in [1 .. n -> D] /\ \A x \in D : \E a \in 1 .. n : e[a] = x
  BY <1>2 DEF Bijection, Surjection
<1> DEFINE v == values[e[i]]
<1>4. i \in 1 .. n /\ e[i] \in D /\ v \in Int /\ v \in Range(values)
  BY <1>1, <1>3 DEF Range
<1>5. Cardinality(Lesser(values, v)) < i
  <2> DEFINE A == FirstOf(e, i - 1)
  <2>1. IsFiniteSet(A) /\ Cardinality(A) = i - 1
    <3>1. i - 1 \in 0 .. n
      BY <1>1, <1>4
    <3> HIDE DEF n, D
    <3> QED BY <1>1, <1>2, <3>1, ImageOfInterval
  <2>2. Lesser(values, v) \subseteq A
    <3> SUFFICES ASSUME NEW x \in Lesser(values, v) PROVE x \in A
      OBVIOUS
    <3>1. x \in D /\ values[x] < v
      BY DEF Lesser
    <3>2. PICK a \in 1 .. n : e[a] = x
      BY <1>3, <3>1
    <3>3. ~ (i < a) /\ a # i
      <4>1. values[x] \in Int
        BY <1>1, <3>1
      <4>2. ~ (v <= values[x])
        BY <1>4, <3>1, <4>1
      <4> QED BY <1>2, <1>4, <3>1, <3>2, <4>1, <4>2
    <3>4. a \in 1 .. i - 1
      BY <1>1, <1>4, <3>3
    <3> QED BY <3>2, <3>4 DEF FirstOf
  <2>3. Cardinality(Lesser(values, v)) <= i - 1
    BY <2>1, <2>2, FS_Subset
  <2>4. Cardinality(Lesser(values, v)) \in Nat
    BY <1>1 DEF Lesser
  <2> QED BY <1>4, <2>3, <2>4
<1>6. Cardinality(NotGreater(values, v)) >= i
  <2> DEFINE A == FirstOf(e, i)
             G == NotGreater(values, v)
  <2>1. IsFiniteSet(A) /\ Cardinality(A) = i
    <3>1. i \in 0 .. n
      BY <1>1, <1>4
    <3> HIDE DEF n, D
    <3> QED BY <1>1, <1>2, <3>1, ImageOfInterval
  <2>2. A \subseteq G
    <3> SUFFICES ASSUME NEW a \in 1 .. i PROVE e[a] \in G
      BY DEF FirstOf
    <3>1. a \in 1 .. n
      BY <1>1, <1>4
    <3>2. e[a] \in D
      BY <1>3, <3>1
    <3>3. a < i \/ a = i
      BY <1>1, <1>4
    <3>4. values[e[a]] <= v
      BY <1>2, <1>4, <3>1, <3>3
    <3> QED BY <3>2, <3>4 DEF NotGreater
  <2>3. IsFiniteSet(G) /\ Cardinality(G) \in Nat
    BY <1>1 DEF NotGreater
  <2>4. Cardinality(A) <= Cardinality(G)
    BY <2>2, <2>3, FS_Subset
  <2> QED BY <1>4, <2>1, <2>3, <2>4
<1> QED BY <1>4, <1>5, <1>6

\* The sorted sample, as its two counts say it.
LEMMA SortedCounts ==
    ASSUME NEW values \in Seq(Int)
    PROVE  /\ Sorted(values) \in [1 .. Len(values) -> Int]
           /\ \A i \in 1 .. Len(values) : /\ Cardinality(Lesser(values, Sorted(values)[i])) < i
                                          /\ Cardinality(NotGreater(values, Sorted(values)[i])) >= i
<1> DEFINE P(i, v) == /\ Cardinality(Lesser(values, v)) < i
                      /\ Cardinality(NotGreater(values, v)) >= i
<1>1. DOMAIN values = 1 .. Len(values) /\ Range(values) \subseteq Int
  BY Positions DEF Range
<1>2. \A i \in DOMAIN values : Sorted(values)[i] = CHOOSE v \in Range(values) : P(i, v)
  BY DEF Sorted, Lesser, NotGreater
<1>3. \A i \in DOMAIN values : \E v \in Range(values) : P(i, v)
  BY SortedExists
<1> HIDE DEF P
<1>4. \A i \in DOMAIN values : Sorted(values)[i] \in Range(values) /\ P(i, Sorted(values)[i])
  BY <1>2, <1>3
<1>5. Sorted(values) = [i \in DOMAIN values |-> CHOOSE v \in Range(values) : P(i, v)]
  BY DEF Sorted, P, Lesser, NotGreater
<1> QED BY <1>1, <1>2, <1>4, <1>5 DEF P

LEMMA SortedAscends ==
    ASSUME NEW values \in Seq(Int), NEW i \in 1 .. Len(values), NEW j \in 1 .. Len(values), i <= j
    PROVE  Sorted(values)[i] <= Sorted(values)[j]
<1> DEFINE x == Sorted(values)[i]
           y == Sorted(values)[j]
<1>1. x \in Int /\ y \in Int /\ Len(values) \in Nat
  BY SortedCounts, Positions
<1> SUFFICES ASSUME y < x PROVE FALSE
  BY <1>1
<1>2. NotGreater(values, y) \subseteq Lesser(values, x)
  <2> SUFFICES ASSUME NEW k \in DOMAIN values, values[k] <= y PROVE values[k] < x
    BY DEF NotGreater, Lesser
  <2>1. values[k] \in Int
    BY Positions
  <2> HIDE DEF x, y
  <2> QED BY <1>1, <2>1
<1>3. /\ IsFiniteSet(Lesser(values, x)) /\ Cardinality(Lesser(values, x)) \in Nat
      /\ Cardinality(NotGreater(values, y)) \in Nat
  BY Positions DEF Lesser, NotGreater
<1>4. Cardinality(NotGreater(values, y)) <= Cardinality(Lesser(values, x))
  BY <1>2, <1>3, FS_Subset
<1>5. Cardinality(Lesser(values, x)) < i /\ Cardinality(NotGreater(values, y)) >= j
  BY SortedCounts
<1> HIDE DEF x, y
<1> QED BY <1>1, <1>3, <1>4, <1>5

\* At least i values are not above the i-th of the sorted sample, and at least
\* n - i + 1 are not below it.
LEMMA CountedAround ==
    ASSUME SampleInv, NEW i \in 1 .. Len(sample), NEW x \in Int
    PROVE  /\ NotAbove(x) \in Nat /\ NotBelow(x) \in Nat
           /\ 100 * Sorted(sample)[i] <= x => NotAbove(x) >= i
           /\ x <= 100 * Sorted(sample)[i] => NotBelow(x) >= Len(sample) - i + 1
<1> DEFINE n == Len(sample)
           D == DOMAIN sample
           s == Sorted(sample)[i]
           Up == {j \in D : 100 * sample[j] <= x}
           Down == {j \in D : 100 * sample[j] >= x}
           L == Lesser(sample, s)
           G == NotGreater(sample, s)
<1>1. /\ n \in Nat /\ IsFiniteSet(D) /\ Cardinality(D) = n /\ sample \in [D -> Int]
      /\ \A A \in SUBSET D : IsFiniteSet(A) /\ Cardinality(A) \in Nat
  BY Positions DEF SampleInv
<1>2. s \in Int /\ Cardinality(L) < i /\ Cardinality(G) >= i
  BY SortedCounts DEF SampleInv
<1>3. Up \in SUBSET D /\ Down \in SUBSET D /\ L \in SUBSET D /\ G \in SUBSET D
  BY DEF Lesser, NotGreater
<1>4. NotAbove(x) = Cardinality(Up) /\ NotBelow(x) = Cardinality(Down)
  BY DEF NotAbove, NotBelow
<1>5. ASSUME 100 * s <= x PROVE NotAbove(x) >= i
  <2>1. G \subseteq Up
    <3> SUFFICES ASSUME NEW j \in D, sample[j] <= s PROVE 100 * sample[j] <= x
      BY DEF NotGreater
    <3>1. sample[j] \in Int
      BY <1>1
    <3> HIDE DEF s
    <3> QED BY <1>2, <1>5, <3>1
  <2>2. Cardinality(G) <= Cardinality(Up)
    BY <1>1, <1>3, <2>1, FS_Subset
  <2>3. Cardinality(G) \in Nat /\ Cardinality(Up) \in Nat
    BY <1>1, <1>3
  <2> HIDE DEF G, Up
  <2> QED BY <1>2, <1>4, <2>2, <2>3
<1>6. ASSUME x <= 100 * s PROVE NotBelow(x) >= n - i + 1
  <2>1. D \ L \subseteq Down
    <3> SUFFICES ASSUME NEW j \in D, ~ (sample[j] < s) PROVE 100 * sample[j] >= x
      BY DEF Lesser
    <3>1. sample[j] \in Int
      BY <1>1
    <3> HIDE DEF s
    <3> QED BY <1>2, <1>6, <3>1
  <2>2. Cardinality(D \ L) <= Cardinality(Down)
    BY <1>1, <1>3, <2>1, FS_Subset
  <2>3. Cardinality(D \ L) = n - Cardinality(L)
    <3>1. D = L \cup (D \ L) /\ L \cap (D \ L) = {}
      BY <1>3
    <3>2. /\ Cardinality(D) = Cardinality(L) + Cardinality(D \ L)
          /\ Cardinality(L) \in Nat /\ Cardinality(D \ L) \in Nat
      BY <1>1, <3>1, TwoParts
    <3> HIDE DEF D, L
    <3> QED BY <1>1, <3>2
  <2>4. Cardinality(L) \in Nat /\ Cardinality(Down) \in Nat
    BY <1>1, <1>3
  <2> HIDE DEF D, L, Down, n
  <2> QED BY <1>1, <1>2, <1>4, <2>2, <2>3, <2>4
<1>7. NotAbove(x) \in Nat /\ NotBelow(x) \in Nat
  BY <1>1, <1>3, <1>4
<1> QED BY <1>5, <1>6, <1>7

\* Where a quantile is in a sorted sample, in hundredths of a place.
Rank(values, percent) == (Len(values) - 1) * percent
Left(values, percent) == Rank(values, percent) \div 100 + 1
Rest(values, percent) == Rank(values, percent) % 100
Right(values, percent) ==
    IF Left(values, percent) + 1 \in 1 .. Len(values)
    THEN Left(values, percent) + 1 ELSE Left(values, percent)

\* Between two neighbours of the sorted sample, and at one when nothing is left over.
Interpolates(values, percent) ==
    LET rank == Rank(values, percent)
        a == Left(values, percent)
        b == Right(values, percent)
        r == Rest(values, percent)
        s == Sorted(values)
        x == Quantile100(values, percent)
    IN  /\ rank \in Nat /\ a \in 1 .. Len(values) /\ r \in 0 .. 99
        /\ rank = 100 * (a - 1) + r
        /\ s[a] \in Int /\ s[b] \in Int /\ s[a] <= s[b] /\ b \in 1 .. Len(values)
        /\ x = 100 * s[a] + (s[b] - s[a]) * r /\ x \in Int
        /\ 100 * s[a] <= x /\ x <= 100 * s[b]
        /\ r = 0 => x = 100 * s[a]
        /\ r # 0 => b = a + 1

LEMMA QuantileBetween ==
    ASSUME NEW values \in Seq(Int), values # <<>>, NEW percent \in 0 .. 99
    PROVE  Interpolates(values, percent)
<1> DEFINE n == Len(values)
           rank == (n - 1) * percent
           a == rank \div 100 + 1
           r == rank % 100
           s == Sorted(values)
           b == IF a + 1 \in 1 .. n THEN a + 1 ELSE a
           x == Quantile100(values, percent)
<1>1. n \in Nat /\ n >= 1
  BY EmptySeq
<1>2. rank \in Nat /\ rank <= (n - 1) * 99
  <2>1. n - 1 \in Nat /\ percent \in Nat /\ 99 \in Int /\ percent <= 99 /\ 0 <= percent
    BY <1>1
  <2>2. 0 * (n - 1) <= percent * (n - 1) /\ percent * (n - 1) <= 99 * (n - 1)
    BY <2>1, Weighted
  <2>3. percent * (n - 1) = (n - 1) * percent /\ percent * (n - 1) \in Int
    BY <2>1
  <2> HIDE DEF n
  <2> QED BY <1>1, <2>2, <2>3
<1>3. a - 1 \in Nat /\ r \in 0 .. 99 /\ rank = 100 * (a - 1) + r
  <2> HIDE DEF rank
  <2>1. rank \div 100 \in Nat /\ rank % 100 \in 0 .. 99 /\ rank = 100 * (rank \div 100) + (rank % 100)
    BY <1>2, Hundreds
  <2> QED BY <2>1
<1>4. a \in Int
  <2>1. rank \div 100 \in Nat
    BY <1>2, Hundreds
  <2> QED BY <2>1
<1> HIDE DEF rank, a, r, n
<1>5. a \in 1 .. n /\ (r # 0 => a + 1 \in 1 .. n)
  BY <1>1, <1>2, <1>3, <1>4
<1>6. b \in 1 .. n /\ a <= b /\ (r # 0 => b = a + 1)
  BY <1>5
<1>7. s[a] \in Int /\ s[b] \in Int /\ s[a] <= s[b] /\ DOMAIN s = 1 .. n
  <2>1. s \in [1 .. n -> Int]
    BY SortedCounts DEF n
  <2>2. s[a] <= s[b]
    BY <1>5, <1>6, SortedAscends DEF n
  <2> HIDE DEF s, b
  <2> QED BY <1>5, <1>6, <2>1, <2>2
<1>8. x = 100 * s[a] + (s[b] - s[a]) * r
  <2>1. x = 100 * s[a] + (Neighbour(s, a) - s[a]) * r
    BY DEF Quantile100, rank, a, r, n
  <2>2. Neighbour(s, a) = s[b]
    BY <1>7 DEF Neighbour
  <2> HIDE DEF s, b, x
  <2> QED BY <2>1, <2>2
<1> HIDE DEF s, b, x
<1>9. /\ (s[b] - s[a]) * r \in Int /\ 0 <= (s[b] - s[a]) * r
      /\ (s[b] - s[a]) * r <= 100 * (s[b] - s[a])
      /\ r = 0 => (s[b] - s[a]) * r = 0
  <2> DEFINE low == s[a]
             high == s[b]
             gap == s[b] - s[a]
  <2>1. gap \in Nat /\ r \in Nat /\ 100 \in Int /\ 0 \in Int /\ 0 <= r /\ r <= 100
    <3>1. low \in Int /\ high \in Int /\ low <= high /\ gap = high - low
      BY <1>7
    <3>2. r \in 0 .. 99
      BY <1>3
    <3> HIDE DEF low, high, gap
    <3> QED BY <3>1, <3>2
  <2> HIDE DEF gap
  <2>2. 0 * gap <= r * gap /\ r * gap <= 100 * gap
    BY <2>1, Weighted
  <2>3. r * gap = gap * r /\ gap * r \in Int /\ 0 * gap = 0 /\ (r = 0 => gap * r = 0)
    BY <2>1
  <2>4. 0 <= gap * r /\ gap * r <= 100 * gap
    BY <2>2, <2>3
  <2> QED BY <2>3, <2>4 DEF gap
<1>10. /\ x \in Int /\ 100 * s[a] <= x /\ x <= 100 * s[b]
       /\ r = 0 => x = 100 * s[a]
  <2> DEFINE low == s[a]
             high == s[b]
             part == (s[b] - s[a]) * r
  <2>1. low \in Int /\ high \in Int
    BY <1>7
  <2>2. part \in Int /\ 0 <= part /\ part <= 100 * (high - low) /\ (r = 0 => part = 0)
    BY <1>9
  <2>3. x = 100 * low + part
    BY <1>8
  <2> HIDE DEF low, high, part
  <2>4. x \in Int /\ 100 * low <= x /\ x <= 100 * high /\ (r = 0 => x = 100 * low)
    BY <2>1, <2>2, <2>3
  <2> QED BY <2>4 DEF low, high
<1>11. /\ rank = Rank(values, percent) /\ a = Left(values, percent)
       /\ r = Rest(values, percent) /\ b = Right(values, percent)
  BY DEF rank, a, r, b, n, Rank, Left, Rest, Right
<1> QED BY <1>2, <1>3, <1>5, <1>6, <1>7, <1>8, <1>10, <1>11 DEF n, s, x, Interpolates

LEMMA QuantilesAscend ==
    ASSUME NEW values \in Seq(Int), values # <<>>, NEW p \in 0 .. 99, NEW q \in 0 .. 99, p <= q
    PROVE  Quantile100(values, p) <= Quantile100(values, q)
<1> DEFINE n == Len(values)
           s == Sorted(values)
           x == Quantile100(values, p)
           y == Quantile100(values, q)
           a == Left(values, p)
           b == Right(values, p)
           r == Rest(values, p)
           c == Left(values, q)
           d == Right(values, q)
           t == Rest(values, q)
<1>1. n \in Nat /\ n >= 1
  BY EmptySeq
<1>2. /\ Rank(values, p) \in Nat /\ a \in 1 .. n /\ r \in 0 .. 99 /\ Rank(values, p) = 100 * (a - 1) + r
      /\ s[a] \in Int /\ s[b] \in Int /\ s[a] <= s[b] /\ b \in 1 .. n
      /\ x = 100 * s[a] + (s[b] - s[a]) * r /\ x \in Int /\ x <= 100 * s[b]
  <2>1. Interpolates(values, p)
    BY QuantileBetween
  <2> QED BY <2>1 DEF Interpolates
<1>3. /\ Rank(values, q) \in Nat /\ c \in 1 .. n /\ t \in 0 .. 99 /\ Rank(values, q) = 100 * (c - 1) + t
      /\ s[c] \in Int /\ y = 100 * s[c] + (s[d] - s[c]) * t /\ y \in Int /\ 100 * s[c] <= y
  <2>1. Interpolates(values, q)
    BY QuantileBetween
  <2> QED BY <2>1 DEF Interpolates
<1>4. Rank(values, p) <= Rank(values, q)
  <2>1. n - 1 \in Nat /\ p \in Int /\ q \in Int
    BY <1>1
  <2> HIDE DEF n
  <2>2. p * (n - 1) <= q * (n - 1)
    BY <2>1, Weighted
  <2>3. p * (n - 1) = (n - 1) * p /\ q * (n - 1) = (n - 1) * q
    BY <2>1
  <2> QED BY <2>2, <2>3 DEF Rank, n
<1>5. (a = c => b = d) /\ (b = a \/ b = a + 1)
  BY DEF Right
<1> HIDE DEF n, s, x, y, a, b, r, c, d, t
<1>6. /\ a \in Int /\ c \in Int /\ r \in Int /\ t \in Int
      /\ a <= c /\ (a = c => r <= t)
  <2>1. a \in Int /\ c \in Int /\ r \in 0 .. 99 /\ t \in 0 .. 99
    BY <1>1, <1>2, <1>3
  <2>2. 100 * (a - 1) + r <= 100 * (c - 1) + t
    BY <1>2, <1>3, <1>4
  <2> QED BY <2>1, <2>2
<1>7. CASE a = c
  <2> DEFINE gap == s[b] - s[a]
  <2>1. r \in Int /\ t \in Int /\ r <= t /\ gap \in Nat
    <3>1. s[a] \in Int /\ s[b] \in Int /\ s[a] <= s[b]
      BY <1>2
    <3>2. gap \in Nat
      BY <3>1
    <3> QED BY <1>7, <1>6, <3>2
  <2>2. x = 100 * s[a] + gap * r /\ y = 100 * s[a] + gap * t /\ s[a] \in Int
    BY <1>2, <1>3, <1>5, <1>7
  <2> HIDE DEF gap
  <2>3. r * gap <= t * gap
    BY <2>1, Weighted
  <2>4. gap * r \in Int /\ gap * t \in Int /\ gap * r <= gap * t
    BY <2>1, <2>3
  <2>5. x <= y
    BY <2>2, <2>4
  <2> QED BY <2>5 DEF x, y
<1>8. CASE a # c
  <2>1. a < c
    BY <1>8, <1>6
  <2>2. b \in 1 .. n /\ c \in 1 .. n /\ b <= c
    BY <1>1, <1>2, <1>3, <1>5, <2>1
  <2>3. s[b] <= s[c]
    BY <2>2, SortedAscends DEF s, n
  <2>4. /\ x \in Int /\ y \in Int /\ s[b] \in Int /\ s[c] \in Int
        /\ x <= 100 * s[b] /\ 100 * s[c] <= y
    BY <1>2, <1>3
  <2>5. x <= y
    BY <2>3, <2>4
  <2> QED BY <2>5 DEF x, y
<1> QED BY <1>7, <1>8

LEMMA QuantileSplits ==
    ASSUME SampleInv, sample # <<>>, NEW percent \in 0 .. 99
    PROVE  LET x == Quantile100(sample, percent)
           IN  /\ NotAbove(x) * 100 > Rank(sample, percent)
               /\ NotBelow(x) * 100 > (Len(sample) - 1) * 100 - Rank(sample, percent)
<1> DEFINE n == Len(sample)
           s == Sorted(sample)
           rank == Rank(sample, percent)
           a == Left(sample, percent)
           r == Rest(sample, percent)
           b == Right(sample, percent)
           x == Quantile100(sample, percent)
<1>1. /\ rank \in Nat /\ a \in 1 .. n /\ r \in 0 .. 99 /\ rank = 100 * (a - 1) + r
      /\ s[a] \in Int /\ s[b] \in Int /\ b \in 1 .. n /\ x \in Int
      /\ 100 * s[a] <= x /\ x <= 100 * s[b]
      /\ r = 0 => x = 100 * s[a]
      /\ r # 0 => b = a + 1
  <2>1. sample \in Seq(Int)
    BY DEF SampleInv
  <2>2. Interpolates(sample, percent)
    BY <2>1, QuantileBetween
  <2> QED BY <2>2 DEF Interpolates
<1>2. n \in Nat
  BY DEF SampleInv
<1>3. \A i \in 1 .. n : /\ NotAbove(x) \in Nat /\ NotBelow(x) \in Nat
                        /\ 100 * s[i] <= x => NotAbove(x) >= i
                        /\ x <= 100 * s[i] => NotBelow(x) >= n - i + 1
  BY <1>1, CountedAround
<1> HIDE DEF n, s, rank, a, r, b, x
<1>4. NotAbove(x) \in Nat /\ NotBelow(x) \in Nat /\ NotAbove(x) >= a
  BY <1>1, <1>3
<1>5. NotAbove(x) * 100 > rank
  BY <1>1, <1>2, <1>4
<1>6. NotBelow(x) * 100 > (n - 1) * 100 - rank
  <2>1. CASE r = 0
    <3>1. NotBelow(x) >= n - a + 1
      BY <1>1, <1>3, <2>1
    <3> QED BY <1>1, <1>2, <1>4, <2>1, <3>1
  <2>2. CASE r # 0
    <3>1. NotBelow(x) >= n - (a + 1) + 1
      BY <1>1, <1>3, <2>2
    <3> QED BY <1>1, <1>2, <1>4, <2>2, <3>1
  <2> QED BY <2>1, <2>2
<1> QED BY <1>5, <1>6 DEF n, rank, x

\* Two programs compute the middle of a sample: numpy's rule and statistics.median().
LEMMA MedianIsP50 ==
    ASSUME NEW values \in Seq(Int), values # <<>>
    PROVE  Quantile100(values, 50) * Median(values).den = 100 * Median(values).num
<1> DEFINE n == Len(values)
           h == n \div 2
           s == Sorted(values)
           rank == Rank(values, 50)
           a == Left(values, 50)
           r == Rest(values, 50)
           b == Right(values, 50)
           x == Quantile100(values, 50)
<1>1. /\ rank \in Nat /\ a \in 1 .. n /\ r \in 0 .. 99 /\ rank = 100 * (a - 1) + r
      /\ s[a] \in Int /\ s[b] \in Int
      /\ x = 100 * s[a] + (s[b] - s[a]) * r
      /\ r = 0 => x = 100 * s[a]
      /\ r # 0 => b = a + 1
  <2>1. Interpolates(values, 50)
    BY QuantileBetween
  <2> QED BY <2>1 DEF Interpolates
<1>2. n \in Nat /\ n >= 1 /\ h \in Nat /\ n % 2 \in {0, 1} /\ n = 2 * h + (n % 2)
  <2>1. n \in Nat /\ n >= 1
    BY EmptySeq
  <2> HIDE DEF n
  <2> QED BY <2>1
<1>3. /\ n % 2 = 1 => Median(values) = [num |-> s[h + 1], den |-> 1]
      /\ n % 2 # 1 => Median(values) = [num |-> s[h] + s[h + 1], den |-> 2]
  BY DEF Median
<1>4. (n - 1) * 50 = rank
  BY DEF Rank
<1> HIDE DEF n, h, s, rank, a, r, b, x
<1>5. CASE n % 2 = 1
  <2>1. h + 1 = a /\ r = 0
    <3>1. n = 2 * h + 1
      BY <1>2, <1>5
    <3>2. 100 * h = 100 * (a - 1) + r /\ a \in Int /\ h \in Int
      BY <1>1, <1>2, <1>4, <3>1
    <3>3. r \in 0 .. 99
      BY <1>1
    <3> QED BY <3>2, <3>3
  <2>2. Median(values).num = s[a] /\ Median(values).den = 1
    BY <1>3, <1>5, <2>1
  <2> QED BY <1>1, <2>1, <2>2 DEF x
<1>6. CASE n % 2 # 1
  <2>1. h = a /\ r = 50
    <3>1. n = 2 * h
      BY <1>2, <1>6
    <3>2. 100 * h - 50 = 100 * (a - 1) + r /\ a \in Int /\ h \in Int
      BY <1>1, <1>2, <1>4, <3>1
    <3>3. r \in 0 .. 99
      BY <1>1
    <3> QED BY <3>2, <3>3
  <2>2. Median(values).num = s[a] + s[b] /\ Median(values).den = 2
    BY <1>1, <1>3, <1>6, <2>1
  <2>3. x * 2 = 100 * (s[a] + s[b])
    <3> DEFINE low == s[a]
               high == s[b]
    <3>1. low \in Int /\ high \in Int /\ x = 100 * low + (high - low) * 50
      BY <1>1, <2>1
    <3> HIDE DEF low, high
    <3>2. x * 2 = 100 * (low + high)
      BY <3>1
    <3> QED BY <3>2 DEF low, high
  <2> QED BY <2>2, <2>3 DEF x
<1> QED BY <1>5, <1>6

LEMMA SampleInvImplies == ASSUME SampleInv PROVE QuantilesTrue
<1> SUFFICES ASSUME sample # <<>>
             PROVE  LET q == Quantiles100(sample)
                        m == Describe(sample).median
                    IN  /\ 100 * Describe(sample).smallest <= q.p50 /\ q.p50 <= q.p95
                        /\ q.p95 <= q.p99 /\ q.p99 <= q.largest
                        /\ q.p50 * m.den = 100 * m.num
                        /\ \A percent \in {50, 95, 99} :
                            LET x == Quantile100(sample, percent)
                                rank == (Len(sample) - 1) * percent
                            IN  /\ NotAbove(x) * 100 > rank
                                /\ NotBelow(x) * 100 > (Len(sample) - 1) * 100 - rank
  BY DEF QuantilesTrue
<1> DEFINE n == Len(sample)
           s == Sorted(sample)
           q == Quantiles100(sample)
           Q(c) == Quantile100(sample, c)
<1>1. sample \in Seq(Int) /\ n \in Nat /\ n >= 1
  BY EmptySeq DEF SampleInv
<1>2. /\ q.p50 = Q(50) /\ q.p95 = Q(95) /\ q.p99 = Q(99) /\ q.largest = 100 * s[n]
      /\ Describe(sample).smallest = s[1] /\ Describe(sample).median = Median(sample)
  <2>1. Len(s) = n
    BY <1>1, SortedCounts
  <2> QED BY <2>1 DEF Quantiles100, Describe, Last
<1>3. Q(50) <= Q(95) /\ Q(95) <= Q(99)
  <2>1. 50 \in 0 .. 99 /\ 95 \in 0 .. 99 /\ 99 \in 0 .. 99 /\ 50 <= 95 /\ 95 <= 99
    OBVIOUS
  <2>2. \A p \in 0 .. 99, q1 \in 0 .. 99 :
            p <= q1 => Quantile100(sample, p) <= Quantile100(sample, q1)
    BY <1>1, QuantilesAscend
  <2> QED BY <2>1, <2>2
<1>4. ASSUME NEW c \in {50, 99}
      PROVE  /\ Left(sample, c) \in 1 .. n /\ Right(sample, c) \in 1 .. n /\ Q(c) \in Int
             /\ 100 * s[Left(sample, c)] <= Q(c) /\ Q(c) <= 100 * s[Right(sample, c)]
  <2>1. c \in 0 .. 99
    OBVIOUS
  <2>2. Interpolates(sample, c)
    BY <1>1, <2>1, QuantileBetween
  <2> QED BY <2>2 DEF Interpolates
<1>5. s[1] \in Int /\ s[n] \in Int /\ \A i \in 1 .. n : s[i] \in Int /\ s[1] <= s[i] /\ s[i] <= s[n]
  <2>1. 1 \in 1 .. n /\ n \in 1 .. n /\ \A i \in 1 .. n : 1 <= i /\ i <= n /\ s[i] \in Int
    BY <1>1, SortedCounts
  <2> QED BY <1>1, <2>1, SortedAscends
<1> HIDE DEF s, n, Q
<1>6. 100 * s[1] <= Q(50)
  <2> DEFINE v == s[Left(sample, 50)]
  <2>1. v \in Int /\ s[1] \in Int /\ s[1] <= v /\ 100 * v <= Q(50) /\ Q(50) \in Int
    BY <1>4, <1>5
  <2> HIDE DEF v
  <2> QED BY <2>1
<1>7. Q(99) <= 100 * s[n]
  <2> DEFINE v == s[Right(sample, 99)]
  <2>1. v \in Int /\ s[n] \in Int /\ v <= s[n] /\ Q(99) <= 100 * v /\ Q(99) \in Int
    BY <1>4, <1>5
  <2> HIDE DEF v
  <2> QED BY <2>1
<1>8. Q(50) * Median(sample).den = 100 * Median(sample).num
  BY <1>1, MedianIsP50 DEF Q
<1> QED BY <1>2, <1>3, <1>6, <1>7, <1>8, QuantileSplits DEF Q, Rank

\* The quantiles of a sample of any length and any values are in order, within its least
\* and its greatest value, and split it in the proportion they are named for; the p50 of
\* summarize.py is the median of analyze_pairs.py (quantiles(), describe()).
THEOREM QuantilesAreTrue == Spec => []QuantilesTrue
<1>1. Spec => []SampleInv
  BY SampleInvInit, SampleInvStep, PTL DEF Spec
<1> QED BY <1>1, SampleInvImplies, PTL

(* The best ping of a calibration is one of its pings.                        *)
LEMMA EndpointIsPing ==
    ASSUME RowsInv, NEW pings \in Seq(Rows!Pings), pings # <<>>
    PROVE  \E p \in Rows!Pings :
             Rows!Endpoint(pings) = [gpu |-> p.gpu, low |-> p.send - p.gpu, high |-> p.seen - p.gpu]
<1> DEFINE rtt(i) == pings[i].seen - pings[i].send
           Best(i) == \A j \in DOMAIN pings : rtt(i) < rtt(j) \/ (rtt(i) = rtt(j) /\ i <= j)
           best == CHOOSE i \in DOMAIN pings : Best(i)
<1>1. DOMAIN pings \in SUBSET Nat /\ DOMAIN pings # {} /\ \A i \in DOMAIN pings : pings[i] \in Rows!Pings
  <2>1. Len(pings) \in Nat /\ Len(pings) # 0 /\ DOMAIN pings = 1 .. Len(pings)
    BY EmptySeq
  <2>2. 1 \in DOMAIN pings
    BY <2>1
  <2> QED BY <2>1, <2>2
<1>2. \A i \in DOMAIN pings : rtt(i) \in Nat
  <2> SUFFICES ASSUME NEW i \in DOMAIN pings PROVE rtt(i) \in Nat
    OBVIOUS
  <2> DEFINE p == pings[i]
  <2>1. /\ p.gpu \in Nat /\ p.send \in Int /\ p.seen \in Int /\ Rows!Real(p.gpu) \in Nat
        /\ p.send <= Rows!Real(p.gpu) /\ Rows!Real(p.gpu) <= p.seen
    BY <1>1, RowsTyped
  <2> QED BY <2>1
<1>3. \E i \in DOMAIN pings : Best(i)
  <2> DEFINE Rtts == {rtt(i) : i \in DOMAIN pings}
  <2>1. PICK m \in Rtts : \A y \in Rtts : m <= y
    <3>1. Rtts \in SUBSET Nat /\ Rtts # {}
      BY <1>1, <1>2
    <3> HIDE DEF Rtts
    <3> QED BY <3>1, LeastNatural
  <2> DEFINE Least == {i \in DOMAIN pings : rtt(i) = m}
  <2>2. PICK i \in Least : \A j \in Least : i <= j
    <3>1. Least \in SUBSET Nat /\ Least # {}
      BY <1>1, <2>1
    <3> HIDE DEF Least
    <3> QED BY <3>1, LeastNatural
  <2>3. i \in DOMAIN pings /\ rtt(i) = m
    BY <2>2
  <2>4. ASSUME NEW j \in DOMAIN pings PROVE rtt(i) < rtt(j) \/ (rtt(i) = rtt(j) /\ i <= j)
    <3>1. m <= rtt(j) /\ rtt(j) \in Nat /\ m \in Nat
      BY <1>2, <2>1, <2>3
    <3>2. rtt(j) = m => i <= j
      BY <2>2
    <3> HIDE DEF rtt
    <3> QED BY <2>3, <3>1, <3>2
  <2> QED BY <2>3, <2>4
<1>4. best \in DOMAIN pings
  BY <1>3
<1>5. Rows!Endpoint(pings) = [gpu |-> pings[best].gpu, low |-> pings[best].send - pings[best].gpu,
                              high |-> pings[best].seen - pings[best].gpu]
  BY DEF Rows!Endpoint
<1> HIDE DEF best
<1> QED BY <1>1, <1>4, <1>5

(* A line between two points, in integers: what an interval is computed from. *)
LEMMA Interpolated ==
    ASSUME NEW s \in Nat, NEW o \in Nat, NEW a \in Nat, NEW b \in Nat, NEW g \in Nat
    PROVE  (s * a + o - a) * (b - g) + (s * b + o - b) * (g - a) = (s * g + o - g) * (b - a)
BY SMT

\* Multiplied by the span, the real time is on the line between the two ends.
LEMMA IntervalHasTruth ==
    ASSUME RowsInv, Rows!HasModel, NEW g \in Nat, Rows!Covered(g),
           NEW off \in -Margin .. Margin
    PROVE  /\ Rows!Span \in Nat \ {0}
           /\ Rows!Low(g) \in Int /\ Rows!High(g) \in Int
           /\ Rows!Low(g) <= (Rows!Real(g) + off) * Rows!Span
           /\ (Rows!Real(g) + off) * Rows!Span <= Rows!High(g)
<1> DEFINE s == clock.slope
           o == clock.offset
<1>1. s \in Nat /\ o \in Nat /\ Margin \in Nat
  BY RowsTyped, AnalysisAssumption DEF AnalysisAssumption
<1>2. PICK p \in Rows!Pings :
        Rows!Start = [gpu |-> p.gpu, low |-> p.send - p.gpu, high |-> p.seen - p.gpu]
  BY EndpointIsPing DEF RowsInv, Rows!HasModel, Rows!Start
<1>3. PICK q \in Rows!Pings :
        Rows!End = [gpu |-> q.gpu, low |-> q.send - q.gpu, high |-> q.seen - q.gpu]
  BY EndpointIsPing DEF RowsInv, Rows!HasModel, Rows!End
<1> DEFINE a == p.gpu
           b == q.gpu
<1>4. /\ a \in Nat /\ b \in Nat /\ a < b /\ a <= g /\ g <= b /\ Rows!Span = b - a
      /\ p.send \in Int /\ p.seen \in Int /\ q.send \in Int /\ q.seen \in Int
      /\ p.send <= s * a + o /\ s * a + o <= p.seen
      /\ q.send <= s * b + o /\ s * b + o <= q.seen
  BY <1>2, <1>3, RowsTyped DEF Rows!HasModel, Rows!Covered, Rows!Span, Rows!Real
<1>5. /\ Rows!Low(g) = g * (b - a) + (p.send - a) * (b - g) + (q.send - b) * (g - a) - Margin * (b - a)
      /\ Rows!High(g) = g * (b - a) + (p.seen - a) * (b - g) + (q.seen - b) * (g - a) + Margin * (b - a)
  BY <1>2, <1>3, <1>4 DEF Rows!Low, Rows!High
<1> DEFINE ra == s * a + o
           rb == s * b + o
           rg == s * g + o
<1>6. ra \in Int /\ rb \in Int /\ rg \in Int
  BY <1>1, <1>4
<1>7. (ra - a) * (b - g) + (rb - b) * (g - a) = (rg - g) * (b - a)
  BY <1>1, <1>4, Interpolated
<1>8. Rows!Real(g) = rg
  BY DEF Rows!Real
<1> HIDE DEF s, o, a, b, ra, rb, rg
<1>9. /\ (p.send - a) * (b - g) <= (ra - a) * (b - g) /\ (ra - a) * (b - g) <= (p.seen - a) * (b - g)
      /\ (q.send - b) * (g - a) <= (rb - b) * (g - a) /\ (rb - b) * (g - a) <= (q.seen - b) * (g - a)
  <2>1. /\ b - g \in Nat /\ g - a \in Nat
        /\ p.send - a \in Int /\ p.seen - a \in Int /\ q.send - b \in Int /\ q.seen - b \in Int
        /\ ra - a \in Int /\ rb - b \in Int
        /\ p.send - a <= ra - a /\ ra - a <= p.seen - a
        /\ q.send - b <= rb - b /\ rb - b <= q.seen - b
    BY <1>4, <1>6 DEF ra, rb
  <2> QED BY <2>1, Weighted
<1>10. /\ off \in Int /\ b - a \in Nat /\ - Margin \in Int
       /\ (- Margin) * (b - a) <= off * (b - a) /\ off * (b - a) <= Margin * (b - a)
  <2>1. off \in Int /\ b - a \in Nat /\ - Margin \in Int /\ - Margin <= off /\ off <= Margin
    BY <1>1, <1>4
  <2> QED BY <1>1, <2>1, Weighted
<1>11. (rg + off) * (b - a) = g * (b - a) + (rg - g) * (b - a) + off * (b - a)
  BY <1>4, <1>6, <1>10
<1> QED BY <1>1, <1>4, <1>5, <1>6, <1>7, <1>8, <1>9, <1>10, <1>11

\* What a row says of itself: an entry whose stamps, where known, are those of one
\* real event.
LEMMA RowIsMeasured ==
    ASSUME RowsInv, row # Rows!NoRow
    PROVE  \E g \in Nat, off \in -Margin .. Margin :
             /\ row.entry = Rows!Real(g) + off /\ row.entry \in Int /\ row.rm \in Int
             /\ Rows!Known(row.gpu) => row.gpu = g
             /\ Rows!Known(row.observed) => row.observed \in Int /\ row.entry <= row.observed
             /\ row.ok \in BOOLEAN
             /\ row.status \in {Rows!ACCEPTED, "CONTROL_FAILED", "CONTROL_RESULT_UNAVAILABLE",
                                "SKIPPED_BY_DESIGN"}
<1>1. PICK g \in Stamps, off \in -Margin .. Margin, lag \in Slacks, rm \in Int :
        row \in Rows!Measured(g, off, lag, rm)
  BY DEF RowsInv
<1>2. /\ row.entry = Rows!Real(g) + off
      /\ row.observed \in {Rows!Real(g) + off + lag, Rows!Unknown}
      /\ row.gpu \in {g, Rows!Unknown}
      /\ row.rm = rm /\ row.ok \in BOOLEAN
      /\ row.status \in {Rows!ACCEPTED, "CONTROL_FAILED", "CONTROL_RESULT_UNAVAILABLE",
                         "SKIPPED_BY_DESIGN"}
  BY <1>1 DEF Rows!Measured
<1>3. g \in Nat /\ lag \in Nat /\ off \in Int /\ Rows!Real(g) \in Nat
  BY RowsTyped, AnalysisAssumption DEF AnalysisAssumption
<1> QED BY <1>2, <1>3 DEF Rows!Known

LEMMA RowTruthInInterval == ASSUME RowsInv PROVE Rows!TruthInInterval
<1> SUFFICES ASSUME row # Rows!NoRow, Rows!HasModel, Rows!Known(row.gpu), Rows!Covered(row.gpu)
             PROVE  /\ Rows!Low(row.gpu) <= row.entry * Rows!Span
                    /\ row.entry * Rows!Span <= Rows!High(row.gpu)
  BY DEF Rows!TruthInInterval
<1> QED BY RowIsMeasured, IntervalHasTruth

LEMMA RowOrderingTrue == ASSUME RowsInv PROVE Rows!OrderingTrue
<1> SUFFICES ASSUME row # Rows!NoRow, NEW model \in {FALSE, Rows!HasModel}
             PROVE  /\ Rows!Ordering(row, model) = "before_rm" => row.entry < row.rm
                    /\ Rows!Ordering(row, model) = "after_rm" => row.entry > row.rm
  BY DEF Rows!OrderingTrue
<1>1. /\ row.entry \in Int /\ row.rm \in Int
      /\ Rows!Known(row.observed) => row.observed \in Int /\ row.entry <= row.observed
  BY RowIsMeasured
<1>2. ASSUME Rows!Ordering(row, model) = "before_rm" PROVE row.entry < row.rm
  <2>1. Rows!Known(row.observed) /\ row.observed < row.rm
    BY <1>2 DEF Rows!Ordering
  <2> QED BY <1>1, <2>1
<1>3. ASSUME Rows!Ordering(row, model) = "after_rm" PROVE row.entry > row.rm
  <2>1. /\ model /\ Rows!Known(row.gpu) /\ Rows!Covered(row.gpu)
        /\ Rows!Low(row.gpu) > row.rm * Rows!Span
    BY <1>3 DEF Rows!Ordering
  <2>2. Rows!HasModel
    BY <2>1
  <2>3. /\ Rows!Span \in Nat \ {0} /\ Rows!Low(row.gpu) \in Int
        /\ Rows!Low(row.gpu) <= row.entry * Rows!Span
    BY <2>1, <2>2, RowIsMeasured, IntervalHasTruth
  <2>4. ~ (row.entry * Rows!Span <= row.rm * Rows!Span)
    BY <1>1, <2>1, <2>3
  <2> QED BY <1>1, <2>3, <2>4, Weighted
<1> QED BY <1>2, <1>3

\* The model is asked last: with it an order stated without it stays the same.
LEMMA RowModelOnlyDecides == Rows!ModelOnlyDecides
BY DEF Rows!ModelOnlyDecides, Rows!Ordering

LEMMA RowEligibleIsEarned == ASSUME RowsInv PROVE Rows!EligibleIsEarned
<1> SUFFICES ASSUME row # Rows!NoRow, NEW model \in {FALSE, Rows!HasModel}, Rows!Eligible(row, model)
             PROVE  row.ok /\ Rows!Known(row.rm) /\ row.entry > row.rm
  BY DEF Rows!EligibleIsEarned
<1>1. Rows!Status(row) = Rows!ACCEPTED /\ Rows!Ordering(row, model) = "after_rm"
  BY DEF Rows!Eligible
<1>2. row.ok
  BY <1>1 DEF Rows!Status, Rows!ACCEPTED
<1>3. Rows!Known(row.rm)
  BY <1>1 DEF Rows!Ordering
<1> QED BY <1>1, <1>2, <1>3, RowOrderingTrue DEF Rows!OrderingTrue

LEMMA RowsInvImplies == ASSUME RowsInv PROVE RowsTrue
BY RowTruthInInterval, RowOrderingTrue, RowModelOnlyDecides, RowEligibleIsEarned DEF RowsTrue

\* What the summary says of the order of an entry and the RM call is true, whatever the
\* slope and the offset of the clocks, the pings and the delays: the interval holds the
\* real time, a stated order is the real one, the model overrules no observation, and an
\* eligible row was accepted and entered after the call began (summarize.py).
THEOREM StatedOrderIsReal == Spec => []RowsTrue
<1>1. Spec => []RowsInv
  BY RowsInvInit, RowsInvStep, PTL DEF Spec
<1> QED BY <1>1, RowsInvImplies, PTL

-----------------------------------------------------------------------------
(* The analysis of a batch (PairAnalysis).                                    *)
States == {"RESERVED_OUTCOME_UNKNOWN", "COMPLETE", "STOPPED_NO_RETRY"}

\* A run is COMPLETE only with the planned configuration and a valid row, and a row
\* or a configuration that is there is not written again.
BatchInv ==
    /\ ledger \in Seq(States)
    /\ configuration \in [Batch!Runs -> {"none", "planned", "other"}]
    /\ raw \in [Batch!Runs -> Batch!Row]
    /\ \A i \in DOMAIN ledger : ledger[i] = "COMPLETE" =>
        configuration[i] = "planned" /\ raw[i].correct /\ Batch!ApplicationValid(raw[i])

LEMMA NoRowIsRow == Batch!NoRow \in Batch!Row /\ ~ Batch!ApplicationValid(Batch!NoRow)
BY DEF Batch!NoRow, Batch!Row, Batch!ApplicationValid, Batch!Known, Batch!Unknown

LEMMA BatchInvInit == ASSUME Init PROVE BatchInv
BY NoRowIsRow DEF Init, Batch!Init, BatchInv

LEMMA LedgerSet ==
    ASSUME NEW s \in Seq(States), NEW i, NEW x \in States
    PROVE  [s EXCEPT ![i] = x] \in Seq(States) /\ DOMAIN [s EXCEPT ![i] = x] = DOMAIN s
<1>1. Len(s) \in Nat /\ s \in [1 .. Len(s) -> States]
  OBVIOUS
<1>2. [s EXCEPT ![i] = x] \in [1 .. Len(s) -> States]
  BY <1>1
<1>3. [s EXCEPT ![i] = x] \in Seq(States)
  BY <1>1, <1>2
<1> QED BY <1>1, <1>2, <1>3

LEMMA BatchInvStep == ASSUME BatchInv, [Next]_vars PROVE BatchInv'
<1> USE DEF BatchInv
<1>1. CASE UNCHANGED batchVars
  BY <1>1 DEF batchVars, Batch!ApplicationValid
<1>2. CASE Batch!Reserve
  <2>1. ledger' = Append(ledger, "RESERVED_OUTCOME_UNKNOWN") /\ UNCHANGED <<configuration, raw>>
    BY <1>2 DEF Batch!Reserve
  <2>2. ledger' \in Seq(States)
    BY <2>1 DEF States
  <2>3. ASSUME NEW i \in DOMAIN ledger', ledger'[i] = "COMPLETE"
        PROVE  i \in DOMAIN ledger /\ ledger[i] = "COMPLETE"
    BY <2>1, <2>3
  <2> QED BY <2>1, <2>2, <2>3 DEF Batch!ApplicationValid
<1>3. CASE Batch!Configure
  <2>1. PICK c \in {"planned", "other"} :
          /\ configuration' = [configuration EXCEPT ![Batch!current] = c]
          /\ configuration[Batch!current] = "none" /\ UNCHANGED <<ledger, raw>>
    BY <1>3 DEF Batch!Configure
  <2>2. \A i \in DOMAIN ledger : configuration[i] = "planned" => configuration'[i] = "planned"
    BY <2>1
  <2> QED BY <2>1, <2>2 DEF Batch!ApplicationValid
<1>4. CASE Batch!WriteRow
  <2>1. PICK r \in Batch!Row :
          /\ raw' = [raw EXCEPT ![Batch!current] = r]
          /\ raw[Batch!current] = Batch!NoRow /\ UNCHANGED <<ledger, configuration>>
    BY <1>4 DEF Batch!WriteRow
  <2>2. ASSUME NEW i \in DOMAIN ledger, Batch!ApplicationValid(raw[i]) PROVE raw'[i] = raw[i]
    BY <2>1, <2>2, NoRowIsRow
  <2> QED BY <2>1, <2>2 DEF Batch!ApplicationValid
<1>5. CASE Batch!CompleteRun
  <2>1. /\ ledger' = [ledger EXCEPT ![Batch!current] = "COMPLETE"]
        /\ UNCHANGED <<configuration, raw>>
        /\ configuration[Batch!current] = "planned" /\ raw[Batch!current].correct
        /\ Batch!ApplicationValid(raw[Batch!current])
    BY <1>5 DEF Batch!CompleteRun
  <2>2. ledger' \in Seq(States) /\ DOMAIN ledger' = DOMAIN ledger
    BY <2>1, LedgerSet DEF States
  <2>3. \A i \in DOMAIN ledger : i # Batch!current => ledger'[i] = ledger[i]
    BY <2>1
  <2> QED BY <2>1, <2>2, <2>3 DEF Batch!ApplicationValid
<1>6. CASE Batch!Stop
  <2>1. /\ ledger' = [ledger EXCEPT ![Batch!current] = "STOPPED_NO_RETRY"]
        /\ UNCHANGED <<configuration, raw>>
    BY <1>6 DEF Batch!Stop
  <2>2. ledger' \in Seq(States) /\ DOMAIN ledger' = DOMAIN ledger
    BY <2>1, LedgerSet DEF States
  <2>3. \A i \in DOMAIN ledger : ledger'[i] = "COMPLETE" => ledger[i] = "COMPLETE"
    BY <2>1
  <2> QED BY <2>1, <2>2, <2>3 DEF Batch!ApplicationValid
<1> QED BY <1>1, <1>2, <1>3, <1>4, <1>5, <1>6
        DEF Next, vars, AddValue, RowsStep, BatchStep, CaptureStep, Batch!Next

LEMMA RunsOfPair ==
    ASSUME NEW p \in Batch!Pairs, NEW c PROVE p \in Nat /\ Batch!RunOf(p, c) \in Batch!Runs
<1>1. Len(Orders) \in Nat /\ p \in 1 .. Len(Orders)
  BY AnalysisAssumption DEF AnalysisAssumption, Batch!Pairs
<1> QED BY <1>1 DEF Batch!RunOf, Batch!Runs

LEMMA RowTyped ==
    ASSUME NEW r \in Batch!Row, NEW metric \in Batch!Metrics
    PROVE  /\ r.trigger \in Int /\ r[metric] \in Int
           /\ r.trigger # Batch!Unknown => r.trigger \in Nat
           /\ r[metric] # Batch!Unknown => r[metric] \in Nat
<1>1. Trigger \in Nat /\ Times \subseteq Nat
  BY AnalysisAssumption DEF AnalysisAssumption
<1>2. /\ r.trigger \in {Trigger, Batch!Unknown}
      /\ r.entry \in Times \cup {Batch!Unknown} /\ r.done \in Times \cup {Batch!Unknown}
  BY DEF Batch!Row
<1>3. r[metric] \in Times \cup {Batch!Unknown}
  BY <1>2 DEF Batch!Metrics
<1>4. Batch!Unknown = -1
  BY DEF Batch!Unknown
<1>5. r.trigger # Batch!Unknown => r.trigger \in Nat
  BY <1>1, <1>2
<1>6. r[metric] # Batch!Unknown => r[metric] \in Nat
  BY <1>1, <1>3
<1> QED BY <1>4, <1>5, <1>6

\* A known interval is that of two known stamps in order.
LEMMA IntervalKnown ==
    ASSUME BatchInv, NEW i \in Batch!Runs, NEW metric \in Batch!Metrics
    PROVE  /\ Batch!Interval(i, metric) \in Int
           /\ Batch!Known(Batch!Interval(i, metric)) <=>
                /\ Batch!Known(raw[i].trigger) /\ Batch!Known(raw[i][metric])
                /\ raw[i][metric] >= raw[i].trigger
<1>1. /\ raw[i].trigger \in Int /\ raw[i][metric] \in Int
  BY RowTyped DEF BatchInv
<1> QED BY <1>1 DEF Batch!Interval, Batch!Difference, Batch!Known, Batch!Unknown

LEMMA IntervalKept ==
    ASSUME BatchInv, [Batch!Next]_batchVars, NEW i \in Batch!Runs, NEW metric \in Batch!Metrics,
           Batch!Known(Batch!Interval(i, metric))
    PROVE  Batch!Interval(i, metric)' = Batch!Interval(i, metric)
<1>1. raw[i].trigger # Batch!Unknown
  BY IntervalKnown DEF Batch!Known
<1>2. raw[i] # Batch!NoRow
  BY <1>1 DEF Batch!NoRow
<1>3. raw'[i] = raw[i]
  <2>1. CASE Batch!WriteRow
    BY <1>2, <2>1 DEF Batch!WriteRow, BatchInv
  <2>2. CASE UNCHANGED raw
    BY <2>2
  <2> QED BY <2>1, <2>2 DEF Batch!Next, Batch!Reserve, Batch!Configure, Batch!CompleteRun,
                            Batch!Stop, batchVars
<1> QED BY <1>3 DEF Batch!Interval

LEMMA DeltaKnown ==
    ASSUME NEW p, NEW metric
    PROVE  /\ Batch!Delta(p, metric).known <=> Batch!Compared(p, metric)
           /\ Batch!Compared(p, metric) => Batch!Delta(p, metric).ns =
                Batch!Observed(p, "control", metric) - Batch!Observed(p, "treatment", metric)
BY DEF Batch!Delta

LEMMA DeltaKept ==
    ASSUME BatchInv, [Batch!Next]_batchVars, NEW p \in Batch!Pairs, NEW metric \in Batch!Metrics,
           Batch!Delta(p, metric).known
    PROVE  Batch!Delta(p, metric)' = Batch!Delta(p, metric)
<1>1. Batch!Compared(p, metric)
  BY DeltaKnown
<1>2. \A c \in Batch!Conditions : Batch!Observed(p, c, metric)' = Batch!Observed(p, c, metric)
  BY <1>1, RunsOfPair, IntervalKept DEF Batch!Compared, Batch!Observed
<1>3. ASSUME NEW c \in Batch!Conditions
      PROVE  configuration'[Batch!RunOf(p, c)] = "planned"
  <2>1. configuration[Batch!RunOf(p, c)] = "planned" /\ Batch!RunOf(p, c) \in Batch!Runs
    BY <1>1, RunsOfPair DEF Batch!Compared, Batch!ConfigurationMatch
  <2>2. CASE Batch!Configure
    BY <2>1, <2>2 DEF Batch!Configure, BatchInv
  <2>3. CASE UNCHANGED configuration
    BY <2>1, <2>3
  <2> QED BY <2>2, <2>3 DEF Batch!Next, Batch!Reserve, Batch!WriteRow, Batch!CompleteRun,
                            Batch!Stop, batchVars
<1>4. Batch!Compared(p, metric)'
  BY <1>1, <1>2, <1>3 DEF Batch!Compared, Batch!ConfigurationMatch
<1> QED BY <1>1, <1>2, <1>4 DEF Batch!Delta, Batch!Conditions

\* "All known application intervals are retained": no step of a batch, its failures and
\* its stops included, changes an interval or a difference that an earlier analysis could
\* have reported, however many pairs the plan has (analyze_pairs.py).
THEOREM ReportsOnlyGrow == Spec => ReportOnlyGrows
<1> DEFINE Kept ==
       /\ \A i \in Batch!Runs, metric \in Batch!Metrics :
            Batch!Known(Batch!Interval(i, metric)) =>
                Batch!Interval(i, metric)' = Batch!Interval(i, metric)
       /\ \A p \in Batch!Pairs, metric \in Batch!Metrics :
            Batch!Delta(p, metric).known => Batch!Delta(p, metric)' = Batch!Delta(p, metric)
<1>1. ASSUME BatchInv, [Next]_vars PROVE [Kept]_Batch!vars
  <2>1. [Batch!Next]_batchVars
    BY <1>1 DEF Next, vars, AddValue, RowsStep, BatchStep, CaptureStep, batchVars
  <2> QED BY <1>1, <2>1, IntervalKept, DeltaKept
<1>2. Spec => []BatchInv
  BY BatchInvInit, BatchInvStep, PTL DEF Spec
<1> QED BY <1>1, <1>2, PTL DEF Spec, ReportOnlyGrows, Batch!ReportOnlyGrows

-----------------------------------------------------------------------------
(* The statistics of a report.                                                *)
LEMMA CompleteIsCompared == ASSUME BatchInv PROVE Batch!CompletePairsCompared
<1> SUFFICES ASSUME NEW p \in Batch!Pairs, NEW metric \in Batch!Metrics, Batch!CompleteCorrect(p)
             PROVE  Batch!Compared(p, metric)
  BY DeltaKnown DEF Batch!CompletePairsCompared
<1>1. ASSUME NEW c \in Batch!Conditions PROVE Batch!Known(Batch!Observed(p, c, metric))
  <2> DEFINE i == Batch!RunOf(p, c)
  <2>1. i \in Batch!Runs /\ i \in DOMAIN ledger /\ ledger[i] = "COMPLETE"
    BY RunsOfPair DEF Batch!CompleteCorrect, Batch!RunState
  <2>2. Batch!ApplicationValid(raw[i])
    BY <2>1 DEF BatchInv
  <2>3. raw[i] \in Batch!Row
    BY <2>1 DEF BatchInv
  <2>4. \A m \in Batch!Metrics : raw[i][m] \in Int /\ raw[i].trigger \in Int
    BY <2>3, RowTyped
  <2>5. /\ raw[i].trigger \in Nat /\ raw[i].entry \in Int /\ raw[i].done \in Int
        /\ Batch!Known(raw[i].trigger)
        /\ raw[i].trigger <= raw[i].entry /\ raw[i].entry <= raw[i].done
    BY <2>2, <2>3, <2>4, RowTyped DEF Batch!ApplicationValid, Batch!Known, Batch!Metrics
  <2>6. raw[i][metric] \in Int /\ raw[i][metric] >= raw[i].trigger /\ Batch!Known(raw[i][metric])
    BY <2>5 DEF Batch!Metrics, Batch!Known, Batch!Unknown
  <2> QED BY <2>1, <2>5, <2>6, IntervalKnown DEF Batch!Observed
<1> QED BY <1>1 DEF Batch!Compared, Batch!CompleteCorrect

\* An instance has its own copy of the library's operators.
LEMMA BatchCardinality == ASSUME NEW S PROVE Batch!Cardinality(S) = Cardinality(S)
BY DEF Batch!Cardinality, Cardinality

\* The pairs in the order of the plan, each once.
LEMMA InOrderEnumerates ==
    ASSUME NEW S \in SUBSET Batch!Pairs
    PROVE  /\ IsFiniteSet(S) /\ Cardinality(S) \in Nat
           /\ Batch!InOrder(S) \in [1 .. Cardinality(S) -> S]
<1> DEFINE n == Cardinality(S)
           Ascending(s) == \A i, j \in 1 .. n : i < j => s[i] < s[j]
           key == [p \in S |-> p]
<1>1. Len(Orders) \in Nat /\ Batch!Pairs = 1 .. Len(Orders)
  BY AnalysisAssumption DEF AnalysisAssumption, Batch!Pairs
<1>2. IsFiniteSet(S) /\ n \in Nat
  <2>1. IsFiniteSet(Batch!Pairs)
    BY <1>1, FS_Interval
  <2>2. IsFiniteSet(S)
    BY <2>1, FS_Subset
  <2> QED BY <2>2, FS_CardinalityType
<1>3. S \subseteq Int /\ key \in [S -> Int]
  BY <1>1
<1>4. PICK e \in Bijection(1 .. n, S) : \A i, j \in 1 .. n : i < j => key[e[i]] <= key[e[j]]
  BY <1>2, <1>3, SortedEnumeration
<1>5. e \in [1 .. n -> S] /\ \A i, j \in 1 .. n : e[i] = e[j] => i = j
  BY <1>4 DEF Bijection, Injection, IsInjective
<1>6. Ascending(e)
  <2> SUFFICES ASSUME NEW i \in 1 .. n, NEW j \in 1 .. n, i < j PROVE e[i] < e[j]
    OBVIOUS
  <2>1. e[i] \in S /\ e[j] \in S
    BY <1>5
  <2>2. key[e[i]] = e[i] /\ key[e[j]] = e[j]
    BY <2>1
  <2>3. key[e[i]] <= key[e[j]]
    BY <1>4
  <2>4. e[i] # e[j]
    <3>1. i # j
      BY <1>2
    <3> QED BY <1>5, <3>1
  <2>5. e[i] \in Int /\ e[j] \in Int
    BY <1>3, <2>1
  <2> HIDE DEF key
  <2> QED BY <2>2, <2>3, <2>4, <2>5
<1> DEFINE m == Batch!Cardinality(S)
<1>7. m = n
  BY BatchCardinality
<1>8. \E s \in [1 .. m -> S] : \A i, j \in 1 .. m : i < j => s[i] < s[j]
  BY <1>5, <1>6, <1>7
<1>9. Batch!InOrder(S) \in [1 .. m -> S]
  BY <1>8 DEF Batch!InOrder
<1> QED BY <1>2, <1>7, <1>9

LEMMA Differences ==
    ASSUME BatchInv, NEW S \in SUBSET Batch!Pairs, NEW metric \in Batch!Metrics
    PROVE  LET C == {p \in S : Batch!Compared(p, metric)}
               d == Batch!PairedDifferences(S, metric)
           IN  /\ d \in [1 .. Cardinality(C) -> Int] /\ IsFiniteSet(C) /\ Cardinality(C) \in Nat
               /\ Batch!Describe(d).n = Cardinality(C) /\ Batch!Describe(d).values = d
<1> DEFINE C == {p \in S : Batch!Compared(p, metric)}
           d == Batch!PairedDifferences(S, metric)
           s == Batch!InOrder(C)
           n == Cardinality(C)
<1>1. IsFiniteSet(C) /\ Cardinality(C) \in Nat /\ s \in [1 .. Cardinality(C) -> C]
  BY InOrderEnumerates
<1>2. d = [i \in 1 .. n |->
            Batch!Observed(s[i], "control", metric) - Batch!Observed(s[i], "treatment", metric)]
  BY <1>1 DEF Batch!PairedDifferences
<1>3. ASSUME NEW i \in 1 .. n, NEW c PROVE Batch!Observed(s[i], c, metric) \in Int
  <2>1. s[i] \in Batch!Pairs
    BY <1>1
  <2> QED BY <2>1, RunsOfPair, IntervalKnown DEF Batch!Observed
<1>4. n \in Nat
  BY <1>1
<1> HIDE DEF C, s, n, d
<1>5. d \in [1 .. n -> Int]
  <2>1. \A i \in 1 .. n :
          Batch!Observed(s[i], "control", metric) - Batch!Observed(s[i], "treatment", metric) \in Int
    <3> SUFFICES ASSUME NEW i \in 1 .. n
                 PROVE  Batch!Observed(s[i], "control", metric)
                          - Batch!Observed(s[i], "treatment", metric) \in Int
      OBVIOUS
    <3>1. Batch!Observed(s[i], "control", metric) \in Int
      BY <1>3
    <3>2. Batch!Observed(s[i], "treatment", metric) \in Int
      BY <1>3
    <3> QED BY <3>1, <3>2
  <2> QED BY <1>2, <2>1
<1>6. d \in Seq(Int) /\ Len(d) = n
  BY <1>4, <1>5
<1>7. Batch!Describe(d).n = Len(d) /\ Batch!Describe(d).values = d
  BY <1>6, EmptySeq DEF Batch!Describe
<1> QED BY <1>1, <1>5, <1>6, <1>7 DEF C, d, n

LEMMA StatisticsAreOfPairs == ASSUME BatchInv PROVE Batch!StatisticsOfThePairs
<1> SUFFICES
      ASSUME NEW metric \in Batch!Metrics
      PROVE  LET m == Batch!MetricOf(metric)
                 listed == Batch!InOrder({p \in Batch!Pairs : Batch!Delta(p, metric).known})
             IN  /\ m.delta.values = [i \in DOMAIN listed |-> Batch!Delta(listed[i], metric).ns]
                 /\ m.delta.n = m.by_order["CT"].n + m.by_order["TC"].n
                 /\ m.delta.n = m.improved + m.worse + m.equal
                 /\ m.complete_correct.n =
                        Batch!Cardinality({p \in Batch!Pairs : Batch!CompleteCorrect(p)})
  BY DEF Batch!StatisticsOfThePairs
<1> DEFINE m == Batch!MetricOf(metric)
           Of(S) == {p \in S : Batch!Compared(p, metric)}
           Ordered(o) == {p \in Batch!Pairs : Orders[p] = o}
           Complete == {p \in Batch!Pairs : Batch!CompleteCorrect(p)}
           d == Batch!PairedDifferences(Batch!Pairs, metric)
           n == Cardinality(Of(Batch!Pairs))
           listed == Batch!InOrder({p \in Batch!Pairs : Batch!Delta(p, metric).known})
           s == Batch!InOrder(Of(Batch!Pairs))
<1>1. /\ m.delta = Batch!Describe(d)
      /\ m.by_order["CT"] = Batch!Describe(Batch!PairedDifferences(Ordered("CT"), metric))
      /\ m.by_order["TC"] = Batch!Describe(Batch!PairedDifferences(Ordered("TC"), metric))
      /\ m.complete_correct = Batch!Describe(Batch!PairedDifferences(Complete, metric))
      /\ m.improved = Batch!Cardinality({i \in DOMAIN d : d[i] > 0})
      /\ m.worse = Batch!Cardinality({i \in DOMAIN d : d[i] < 0})
      /\ m.equal = Batch!Cardinality({i \in DOMAIN d : d[i] = 0})
  BY DEF Batch!MetricOf
<1>2. /\ d \in [1 .. n -> Int] /\ IsFiniteSet(Of(Batch!Pairs)) /\ n \in Nat
      /\ m.delta.n = n /\ m.delta.values = d
  BY <1>1, Differences
<1>3. /\ m.by_order["CT"].n = Cardinality(Of(Ordered("CT")))
      /\ m.by_order["TC"].n = Cardinality(Of(Ordered("TC")))
  <2>1. Ordered("CT") \in SUBSET Batch!Pairs /\ Ordered("TC") \in SUBSET Batch!Pairs
    OBVIOUS
  <2> HIDE DEF m, Ordered
  <2> QED BY <1>1, <2>1, Differences
<1>4. m.complete_correct.n = Cardinality(Of(Complete))
  BY <1>1, Differences
<1> HIDE DEF m
<1>5. m.delta.values = [i \in DOMAIN listed |-> Batch!Delta(listed[i], metric).ns]
  <2>1. listed = s
    <3>1. {p \in Batch!Pairs : Batch!Delta(p, metric).known} = Of(Batch!Pairs)
      BY DeltaKnown
    <3> QED BY <3>1
  <2>2. s \in [1 .. n -> Of(Batch!Pairs)]
    BY InOrderEnumerates
  <2>3. d = [i \in 1 .. n |->
             Batch!Observed(s[i], "control", metric) - Batch!Observed(s[i], "treatment", metric)]
    BY <2>2 DEF Batch!PairedDifferences
  <2>4. \A i \in 1 .. n : Batch!Delta(s[i], metric).ns =
          Batch!Observed(s[i], "control", metric) - Batch!Observed(s[i], "treatment", metric)
    BY <2>2, DeltaKnown
  <2> HIDE DEF s, listed, n, d
  <2> QED BY <1>2, <2>1, <2>2, <2>3, <2>4
<1>6. m.delta.n = m.by_order["CT"].n + m.by_order["TC"].n
  <2>1. \A p \in Batch!Pairs : Orders[p] \in {"CT", "TC"}
    BY AnalysisAssumption DEF AnalysisAssumption, Batch!Pairs
  <2>2. /\ Of(Batch!Pairs) = Of(Ordered("CT")) \cup Of(Ordered("TC"))
        /\ Of(Ordered("CT")) \cap Of(Ordered("TC")) = {}
    BY <2>1
  <2> HIDE DEF Of
  <2> QED BY <1>2, <1>3, <2>2, TwoParts
<1>7. m.delta.n = m.improved + m.worse + m.equal
  <2> DEFINE D == 1 .. n
             P == {i \in D : d[i] > 0}
             N == {i \in D : d[i] < 0}
             Z == {i \in D : d[i] = 0}
  <2>1. IsFiniteSet(D) /\ Cardinality(D) = n
    BY <1>2, FS_Interval
  <2>2. D = P \cup N \cup Z /\ P \cap N = {} /\ P \cap Z = {} /\ N \cap Z = {}
    BY <1>2
  <2>3. m.improved = Cardinality(P) /\ m.worse = Cardinality(N) /\ m.equal = Cardinality(Z)
    BY <1>1, <1>2, BatchCardinality DEF m
  <2> HIDE DEF P, N, Z, D, n
  <2> QED BY <1>2, <2>1, <2>2, <2>3, ThreeParts
<1>8. m.complete_correct.n = Batch!Cardinality(Complete)
  <2>1. Of(Complete) = Complete
    BY CompleteIsCompared, DeltaKnown DEF Batch!CompletePairsCompared
  <2> QED BY <1>4, <2>1, BatchCardinality
<1> QED BY <1>5, <1>6, <1>7, <1>8 DEF m

LEMMA BatchInvImplies == ASSUME BatchInv PROVE PairsTrue
BY CompleteIsCompared, StatisticsAreOfPairs DEF PairsTrue

\* A pair called complete and correct can be compared, and the statistics of a report are
\* those of its pairs, at any moment of a batch of any length and for any stamps: the
\* differences listed are those of pairs.csv in the order of the plan, the two orders
\* divide them, the three outcomes count them and the complete subset is whole
\* (analyze_pairs.py).
THEOREM StatisticsAreTrue == Spec => []PairsTrue
<1>1. Spec => []BatchInv
  BY BatchInvInit, BatchInvStep, PTL DEF Spec
<1> QED BY <1>1, BatchInvImplies, PTL

-----------------------------------------------------------------------------
(* The capture of a diagnostic run (DiagnosticAnalysis).                      *)
Record == [seqNo : Nat, contextId : Capture!Contexts, timestamp : Nat]

\* Between the submission of a role and the end of the trial, if it has come.
InTrial(t, role) ==
    /\ marks[Capture!Submit(role)] <= t
    /\ Capture!Marked("trial_end") => t <= marks["trial_end"]

\* The records count from 1, in the order of time, and the last one says who is there.
SwitchesOK ==
    /\ switches \in Seq(Record)
    /\ \A i \in DOMAIN switches : switches[i].seqNo = i /\ switches[i].timestamp < now
    /\ switches # <<>> =>
        /\ switches[Len(switches)].contextId = resident
        /\ \A i \in DOMAIN switches : switches[i].timestamp <= switches[Len(switches)].timestamp

\* The request comes after the INT submission, and nothing after the end of the trial.
MarksOK ==
    /\ marks \in [Capture!Names -> Nat] /\ now \in Nat /\ now # 0
    /\ \A n \in Capture!Names : marks[n] < now
    /\ Capture!Marked("trial_end") => \A n \in Capture!Names : marks[n] <= marks["trial_end"]
    /\ Capture!Marked("preempt_ioctl_envelope") =>
        /\ Capture!Marked("int_submit")
        /\ marks["int_submit"] <= marks["preempt_ioctl_envelope"]

\* A kernel that ran left a record of its context in the trial, or the context
\* was there for all of it.
Witnessed(role) ==
    \/ \E i \in DOMAIN switches :
        InTrial(switches[i].timestamp, role) /\ switches[i].contextId = Capture!Work(role)
    \/ /\ \A i \in DOMAIN switches : ~ InTrial(switches[i].timestamp, role)
       /\ ~ Capture!Marked("trial_end") => resident = Capture!Work(role)

RanOK ==
    /\ ran \subseteq Capture!Roles
    /\ \A role \in ran : Capture!Marked(Capture!Submit(role)) /\ Witnessed(role)

\* Once there is an export the capture is over.
ExportOK == export = Capture!NoExport \/ \E faults : export = Capture!ExportWith(faults)

CaptureInv ==
    /\ resident \in Capture!Contexts
    /\ SwitchesOK /\ MarksOK /\ RanOK /\ ExportOK

LEMMA CaptureInvInit == ASSUME Init PROVE CaptureInv
<1>1. Capture!Init
  BY DEF Init
<1>2. \A n \in Capture!Names : marks[n] = 0
  BY <1>1 DEF Capture!Init, Capture!Never
<1>3. "trial_end" \in Capture!Names /\ "preempt_ioctl_envelope" \in Capture!Names
  BY DEF Capture!Names
<1>4. MarksOK
  BY <1>1, <1>2, <1>3 DEF MarksOK, Capture!Init, Capture!Marked, Capture!Never
<1> QED BY <1>1, <1>4 DEF Capture!Init, CaptureInv, SwitchesOK, RanOK, ExportOK

LEMMA TwoAppended ==
    ASSUME NEW R, NEW s \in Seq(R), NEW a \in R, NEW b \in R
    PROVE  LET t == s \o <<a, b>>
           IN  /\ t \in Seq(R) /\ Len(t) = Len(s) + 2 /\ DOMAIN t = 1 .. Len(s) + 2
               /\ \A i \in DOMAIN s : t[i] = s[i]
               /\ t[Len(s) + 1] = a /\ t[Len(s) + 2] = b
               /\ \A i \in DOMAIN t : i \in DOMAIN s \/ i = Len(s) + 1 \/ i = Len(s) + 2
OBVIOUS

LEMMA MarkNames ==
    /\ {"trial", "bg_submit", "int_submit", "preempt_ioctl_envelope", "trial_end"} = Capture!Names
    /\ \A role \in Capture!Roles : Capture!Submit(role) \in {"bg_submit", "int_submit"}
BY DEF Capture!Names, Capture!Roles, Capture!Submit

LEMMA SwitchesTyped ==
    ASSUME CaptureInv
    PROVE  /\ switches \in Seq(Record) /\ Len(switches) \in Nat /\ DOMAIN switches = 1 .. Len(switches)
           /\ \A i \in DOMAIN switches :
                /\ switches[i] \in Record /\ switches[i].seqNo = i
                /\ switches[i].timestamp < now /\ switches[i].timestamp \in Nat
           /\ resident \in Capture!Contexts /\ now \in Nat /\ now # 0
<1>1. /\ switches \in Seq(Record)
      /\ \A i \in DOMAIN switches : switches[i].seqNo = i /\ switches[i].timestamp < now
      /\ resident \in Capture!Contexts /\ now \in Nat /\ now # 0
  BY DEF CaptureInv, SwitchesOK, MarksOK
<1>2. /\ Len(switches) \in Nat /\ DOMAIN switches = 1 .. Len(switches)
      /\ \A i \in DOMAIN switches : switches[i] \in Record
  BY <1>1
<1>3. \A r \in Record : r.timestamp \in Nat
  BY DEF Record
<1> QED BY <1>1, <1>2, <1>3

LEMMA SwitchKeepsInv ==
    ASSUME CaptureInv, NEW to \in Capture!Contexts, Capture!Switch(to)
    PROVE  CaptureInv'
<1> DEFINE n == Len(switches)
           left == [seqNo |-> n + 1, contextId |-> resident, timestamp |-> now]
           came == [seqNo |-> n + 2, contextId |-> to, timestamp |-> now]
<1>1. /\ switches \in Seq(Record) /\ n \in Nat /\ DOMAIN switches = 1 .. n
      /\ \A i \in DOMAIN switches : switches[i].seqNo = i /\ switches[i].timestamp < now
                                    /\ switches[i].timestamp \in Nat
      /\ resident \in Capture!Contexts /\ now \in Nat /\ now # 0
  BY SwitchesTyped
<1>2. /\ ~ export.there /\ now' = now + 1 /\ resident' = to
      /\ switches' = switches \o <<left, came>>
      /\ UNCHANGED <<marks, ran, export>>
  BY DEF Capture!Switch, Capture!Capturing
<1>3. left \in Record /\ came \in Record
  BY <1>1 DEF Record
<1> HIDE DEF left, came, n
<1>4. /\ switches' \in Seq(Record) /\ Len(switches') = n + 2 /\ DOMAIN switches' = 1 .. n + 2
      /\ \A i \in DOMAIN switches : switches'[i] = switches[i]
      /\ switches'[n + 1] = left /\ switches'[n + 2] = came
      /\ \A i \in DOMAIN switches' : i \in DOMAIN switches \/ i = n + 1 \/ i = n + 2
  BY <1>1, <1>2, <1>3, TwoAppended DEF n
<1>5. /\ left.seqNo = n + 1 /\ left.contextId = resident /\ left.timestamp = now
      /\ came.seqNo = n + 2 /\ came.contextId = to /\ came.timestamp = now
  BY DEF left, came
<1>6. ASSUME NEW i \in DOMAIN switches'
      PROVE  /\ switches'[i].seqNo = i /\ switches'[i].timestamp < now'
             /\ switches'[i].timestamp <= now
  <2>1. CASE i \in DOMAIN switches
    BY <1>1, <1>2, <1>4, <2>1
  <2>2. CASE i = n + 1 \/ i = n + 2
    BY <1>1, <1>2, <1>4, <1>5, <2>2
  <2> QED BY <1>4, <2>1, <2>2
<1>7. SwitchesOK'
  <2>1. switches'[Len(switches')].contextId = resident' /\ switches'[Len(switches')].timestamp = now
    BY <1>2, <1>4, <1>5
  <2> QED BY <1>4, <1>6, <2>1 DEF SwitchesOK, Record, Capture!Contexts, Capture!Roles
<1>8. MarksOK'
  BY <1>2 DEF CaptureInv, MarksOK, Capture!Marked, Capture!Never, Capture!Names
<1>9. ASSUME NEW role \in ran PROVE Witnessed(role)'
  <2>1. \A i : InTrial(switches[i].timestamp, role)' <=> InTrial(switches'[i].timestamp, role)
    BY <1>2 DEF InTrial, Capture!Marked, Capture!Never, Capture!Submit
  <2>2. Capture!Marked("trial_end")' <=> Capture!Marked("trial_end")
    BY <1>2 DEF Capture!Marked, Capture!Never
  <2>3. Witnessed(role) /\ Capture!Submit(role) \in Capture!Names
    BY MarkNames DEF CaptureInv, RanOK
  <2>4. CASE \E i \in DOMAIN switches :
              InTrial(switches[i].timestamp, role) /\ switches[i].contextId = Capture!Work(role)
    <3>1. PICK i \in DOMAIN switches :
            InTrial(switches[i].timestamp, role) /\ switches[i].contextId = Capture!Work(role)
      BY <2>4
    <3>2. i \in DOMAIN switches' /\ switches'[i] = switches[i]
      BY <1>1, <1>4
    <3>3. (InTrial(switches[i].timestamp, role) /\ switches[i].contextId = Capture!Work(role))'
      BY <2>1, <3>1, <3>2 DEF Capture!Work
    <3> QED BY <3>2, <3>3 DEF Witnessed
  <2>5. CASE /\ \A i \in DOMAIN switches : ~ InTrial(switches[i].timestamp, role)
             /\ ~ Capture!Marked("trial_end") => resident = Capture!Work(role)
    <3>1. marks[Capture!Submit(role)] < now
      BY <2>3 DEF CaptureInv, MarksOK
    <3>2. marks[Capture!Submit(role)] \in Nat
      BY <2>3 DEF CaptureInv, MarksOK
    <3>3. CASE ~ Capture!Marked("trial_end")
      <4>1. InTrial(now, role)
        BY <1>1, <3>1, <3>2, <3>3 DEF InTrial
      <4>2. n + 1 \in DOMAIN switches' /\ switches'[n + 1].timestamp = now
            /\ switches'[n + 1].contextId = Capture!Work(role)
        BY <1>1, <1>4, <1>5, <2>5, <3>3
      <4>3. InTrial(switches'[n + 1].timestamp, role) /\ Capture!Work(role)' = Capture!Work(role)
        BY <2>1, <4>1, <4>2 DEF Capture!Work
      <4> QED BY <2>1, <4>2, <4>3 DEF Witnessed
    <3>4. CASE Capture!Marked("trial_end")
      <4>1. ~ InTrial(now, role)
        <5>1. marks["trial_end"] < now /\ marks["trial_end"] \in Nat
          BY DEF CaptureInv, MarksOK, Capture!Names
        <5> QED BY <1>1, <3>4, <5>1 DEF InTrial
      <4>2. ASSUME NEW i \in DOMAIN switches' PROVE ~ InTrial(switches[i].timestamp, role)'
        <5>1. CASE i \in DOMAIN switches
          BY <1>4, <2>1, <2>5, <5>1
        <5>2. CASE i = n + 1 \/ i = n + 2
          BY <1>4, <1>5, <2>1, <4>1, <5>2
        <5> QED BY <1>4, <5>1, <5>2
      <4> QED BY <2>2, <3>4, <4>2 DEF Witnessed
    <3> QED BY <3>3, <3>4
  <2> QED BY <2>3, <2>4, <2>5 DEF Witnessed
<1>10. RanOK'
  BY <1>2, <1>9 DEF CaptureInv, RanOK, Capture!Roles, Capture!Marked, Capture!Submit, Capture!Never
<1>11. ExportOK'
  <2>1. export = Capture!NoExport
    BY <1>2 DEF CaptureInv, ExportOK, Capture!ExportWith
  <2> QED BY <1>2, <2>1 DEF ExportOK, Capture!NoExport
<1> QED BY <1>2, <1>7, <1>8, <1>10, <1>11 DEF CaptureInv, Capture!Contexts, Capture!Roles

\* A step of the capture that adds no record and lets no trial end keeps what the
\* kernels have left.
LEMMA WitnessKept ==
    ASSUME NEW role \in Capture!Roles, Witnessed(role), UNCHANGED <<switches, resident, marks>>
    PROVE  Witnessed(role)'
<1>1. /\ \A i : InTrial(switches[i].timestamp, role)' <=> InTrial(switches[i].timestamp, role)
      /\ Capture!Marked("trial_end")' <=> Capture!Marked("trial_end")
      /\ Capture!Work(role)' = Capture!Work(role)
  BY DEF InTrial, Capture!Marked, Capture!Never, Capture!Submit, Capture!Work
<1> QED BY <1>1 DEF Witnessed

LEMMA MarkKeepsInv ==
    ASSUME CaptureInv, NEW name \in Capture!Names, Capture!Mark(name)
    PROVE  CaptureInv'
<1>1. /\ ~ export.there /\ now' = now + 1 /\ marks' = [marks EXCEPT ![name] = now]
      /\ ~ Capture!Marked(name) /\ ~ Capture!Marked("trial_end")
      /\ name = "preempt_ioctl_envelope" => Capture!Marked("int_submit")
      /\ UNCHANGED <<resident, switches, ran, export>>
  BY DEF Capture!Mark, Capture!Capturing
<1>2. /\ marks \in [Capture!Names -> Nat] /\ now \in Nat /\ now # 0
      /\ \A m \in Capture!Names : marks[m] < now
  BY DEF CaptureInv, MarksOK
<1>3. /\ \A m \in Capture!Names : marks'[m] = IF m = name THEN now ELSE marks[m]
      /\ \A m : Capture!Marked(m)' <=> marks'[m] # 0
      /\ \A m : Capture!Marked(m) <=> marks[m] # 0
      /\ Capture!Names' = Capture!Names
  BY <1>1, <1>2 DEF Capture!Marked, Capture!Never, Capture!Names
<1>4. MarksOK'
  <2>1. marks' \in [Capture!Names -> Nat] /\ now' \in Nat /\ now' # 0
    BY <1>1, <1>2
  <2>2. \A m \in Capture!Names : marks'[m] < now' /\ marks'[m] <= now
    BY <1>1, <1>2, <1>3
  <2>3. Capture!Marked("trial_end")' => \A m \in Capture!Names : marks'[m] <= marks'["trial_end"]
    <3>1. Capture!Marked("trial_end")' => marks'["trial_end"] = now
      BY <1>1, <1>3, MarkNames
    <3> QED BY <2>2, <3>1
  <2>4. Capture!Marked("preempt_ioctl_envelope")' =>
          /\ Capture!Marked("int_submit")'
          /\ marks'["int_submit"] <= marks'["preempt_ioctl_envelope"]
    <3> SUFFICES ASSUME marks'["preempt_ioctl_envelope"] # 0
                 PROVE  /\ marks'["int_submit"] # 0
                        /\ marks'["int_submit"] <= marks'["preempt_ioctl_envelope"]
      BY <1>3
    <3>1. CASE name = "preempt_ioctl_envelope"
      BY <1>1, <1>2, <1>3, <2>2, <3>1, MarkNames
    <3>2. CASE name # "preempt_ioctl_envelope"
      <4>1. Capture!Marked("preempt_ioctl_envelope")
        BY <1>3, <3>2, MarkNames
      <4>2. Capture!Marked("int_submit") /\ marks["int_submit"] <= marks["preempt_ioctl_envelope"]
        BY <4>1 DEF CaptureInv, MarksOK
      <4>3. name # "int_submit"
        BY <1>1, <4>2
      <4> QED BY <1>3, <3>2, <4>2, <4>3, MarkNames
    <3> QED BY <3>1, <3>2
  <2> QED BY <1>3, <2>1, <2>2, <2>3, <2>4 DEF MarksOK
<1>5. SwitchesOK'
  <2>1. \A i \in DOMAIN switches : switches[i].timestamp < now => switches[i].timestamp < now'
    <3>1. \A i \in DOMAIN switches : switches[i].timestamp \in Nat
      BY SwitchesTyped
    <3> QED BY <1>1, <1>2, <3>1
  <2> QED BY <1>1, <2>1 DEF CaptureInv, SwitchesOK, Record, Capture!Contexts, Capture!Roles
<1>6. ASSUME NEW role \in ran PROVE Capture!Marked(Capture!Submit(role))' /\ Witnessed(role)'
  <2>1. role \in Capture!Roles /\ Capture!Marked(Capture!Submit(role)) /\ Witnessed(role)
    BY DEF CaptureInv, RanOK
  <2> DEFINE submit == Capture!Submit(role)
  <2>2. submit \in Capture!Names /\ submit # name /\ submit' = submit
    BY <1>1, <2>1, MarkNames DEF Capture!Submit
  <2>3. marks'[submit] = marks[submit] /\ marks[submit] # 0 /\ submit # "trial_end"
    BY <1>3, <2>1, <2>2, MarkNames
  <2>4. ASSUME NEW i \in DOMAIN switches
        PROVE  InTrial(switches[i].timestamp, role)' <=> InTrial(switches[i].timestamp, role)
    <3>1. switches[i].timestamp < now /\ switches[i].timestamp \in Nat
      BY SwitchesTyped
    <3>2. Capture!Marked("trial_end")' => marks'["trial_end"] = now
      BY <1>1, <1>3, MarkNames
    <3>3. InTrial(switches[i].timestamp, role) <=> marks[submit] <= switches[i].timestamp
      BY <1>1 DEF InTrial
    <3>4. InTrial(switches[i].timestamp, role)' <=> marks[submit] <= switches[i].timestamp
      BY <1>1, <1>2, <2>2, <2>3, <3>1, <3>2 DEF InTrial
    <3> QED BY <3>3, <3>4
  <2>5. ~ Capture!Marked("trial_end")
    BY <1>1
  <2>6. Capture!Work(role)' = Capture!Work(role)
    BY DEF Capture!Work
  <2>7. Witnessed(role)'
    BY <1>1, <2>1, <2>4, <2>5, <2>6 DEF Witnessed
  <2>8. Capture!Marked(submit)'
    BY <1>3, <2>2, <2>3
  <2> QED BY <2>7, <2>8
<1>7. RanOK'
  BY <1>1, <1>6 DEF CaptureInv, RanOK, Capture!Roles
<1>8. ExportOK'
  <2>1. export = Capture!NoExport
    BY <1>1 DEF CaptureInv, ExportOK, Capture!ExportWith
  <2> QED BY <1>1, <2>1 DEF ExportOK, Capture!NoExport
<1> QED BY <1>1, <1>4, <1>5, <1>7, <1>8 DEF CaptureInv, Capture!Contexts, Capture!Roles

LEMMA RunKeepsInv ==
    ASSUME CaptureInv, NEW role \in Capture!Roles, Capture!Run(role)
    PROVE  CaptureInv'
<1>1. /\ ~ export.there /\ now' = now + 1 /\ ran' = ran \cup {role}
      /\ Capture!Marked(Capture!Submit(role)) /\ ~ Capture!Marked("trial_end")
      /\ resident = Capture!Work(role)
      /\ UNCHANGED <<resident, switches, marks, export>>
  BY DEF Capture!Run, Capture!Capturing
<1>2. MarksOK'
  BY <1>1 DEF CaptureInv, MarksOK, Capture!Marked, Capture!Never, Capture!Names
<1>3. SwitchesOK'
  <2>1. \A i \in DOMAIN switches : switches[i].timestamp < now'
    BY <1>1, SwitchesTyped
  <2> QED BY <1>1, <2>1 DEF CaptureInv, SwitchesOK, Record, Capture!Contexts, Capture!Roles
<1>4. Witnessed(role)
  <2> DEFINE n == Len(switches)
             submit == marks[Capture!Submit(role)]
  <2>1. CASE \E i \in DOMAIN switches : InTrial(switches[i].timestamp, role)
    <3>1. PICK i \in DOMAIN switches : submit <= switches[i].timestamp
      BY <2>1 DEF InTrial
    <3>2. n \in DOMAIN switches /\ switches # <<>>
      <4>1. n \in Nat /\ DOMAIN switches = 1 .. n
        BY SwitchesTyped
      <4>2. n # 0
        BY <4>1
      <4> QED BY <4>1, <4>2
    <3>3. /\ switches[n].contextId = Capture!Work(role)
          /\ switches[i].timestamp <= switches[n].timestamp
      BY <1>1, <3>2 DEF CaptureInv, SwitchesOK
    <3>4. switches[i].timestamp \in Nat /\ switches[n].timestamp \in Nat /\ submit \in Nat
      BY <3>2, SwitchesTyped, MarkNames DEF CaptureInv, MarksOK
    <3>5. submit <= switches[n].timestamp
      BY <3>1, <3>3, <3>4
    <3> QED BY <1>1, <3>2, <3>3, <3>5 DEF Witnessed, InTrial
  <2>2. CASE \A i \in DOMAIN switches : ~ InTrial(switches[i].timestamp, role)
    BY <1>1, <2>2 DEF Witnessed
  <2> QED BY <2>1, <2>2
<1>5. RanOK'
  <2>1. \A other \in ran' : /\ other \in Capture!Roles /\ Witnessed(other)
                            /\ Capture!Marked(Capture!Submit(other))
    BY <1>1, <1>4 DEF CaptureInv, RanOK
  <2>2. \A other \in ran' : Witnessed(other)' /\ Capture!Marked(Capture!Submit(other))'
    BY <1>1, <2>1, WitnessKept DEF Capture!Marked, Capture!Never, Capture!Submit
  <2> QED BY <2>1, <2>2 DEF RanOK, Capture!Roles
<1>6. ExportOK'
  <2>1. export = Capture!NoExport
    BY <1>1 DEF CaptureInv, ExportOK, Capture!ExportWith
  <2> QED BY <1>1, <2>1 DEF ExportOK, Capture!NoExport
<1> QED BY <1>1, <1>2, <1>3, <1>5, <1>6 DEF CaptureInv, Capture!Contexts, Capture!Roles

LEMMA ExportUnchanged ==
    ASSUME UNCHANGED <<switches, marks, ran>>, NEW faults
    PROVE  Capture!ExportWith(faults)' = Capture!ExportWith(faults)
BY DEF Capture!ExportWith, Capture!Marked, Capture!Never, Capture!Names, Capture!Range,
       Capture!Roles

LEMMA ExportKeepsInv == ASSUME CaptureInv, Capture!Export PROVE CaptureInv'
<1>1. PICK faults : export' = Capture!ExportWith(faults)
  BY DEF Capture!Export
<1>2. now' = now + 1 /\ UNCHANGED <<resident, switches, marks, ran>>
  BY DEF Capture!Export, Capture!Capturing
<1>3. MarksOK'
  BY <1>2 DEF CaptureInv, MarksOK, Capture!Marked, Capture!Never, Capture!Names
<1>4. SwitchesOK'
  <2>1. \A i \in DOMAIN switches : switches[i].timestamp < now'
    BY <1>2, SwitchesTyped
  <2> QED BY <1>2, <2>1 DEF CaptureInv, SwitchesOK, Record, Capture!Contexts, Capture!Roles
<1>5. RanOK'
  <2>1. \A role \in ran : /\ role \in Capture!Roles /\ Witnessed(role)
                          /\ Capture!Marked(Capture!Submit(role))
    BY DEF CaptureInv, RanOK
  <2>2. \A role \in ran : Witnessed(role)' /\ Capture!Marked(Capture!Submit(role))'
    BY <1>2, <2>1, WitnessKept DEF Capture!Marked, Capture!Never, Capture!Submit
  <2> QED BY <1>2, <2>1, <2>2 DEF RanOK, Capture!Roles
<1>6. ExportOK'
  <2>1. export' = Capture!ExportWith(faults)'
    BY <1>1, <1>2, ExportUnchanged
  <2> QED BY <2>1 DEF ExportOK
<1> QED BY <1>2, <1>3, <1>4, <1>5, <1>6 DEF CaptureInv, Capture!Contexts, Capture!Roles

LEMMA CaptureInvStep == ASSUME CaptureInv, [Next]_vars PROVE CaptureInv'
<1>1. CASE UNCHANGED captureVars
  <2>1. UNCHANGED <<now, resident, switches, marks, ran, export>>
    BY <1>1 DEF captureVars
  <2>2. SwitchesOK'
    BY <2>1 DEF CaptureInv, SwitchesOK, Record, Capture!Contexts, Capture!Roles
  <2>3. MarksOK'
    BY <2>1 DEF CaptureInv, MarksOK, Capture!Marked, Capture!Never, Capture!Names
  <2>4. RanOK'
    <3>1. \A role \in ran : /\ role \in Capture!Roles /\ Witnessed(role)
                            /\ Capture!Marked(Capture!Submit(role))
      BY DEF CaptureInv, RanOK
    <3>2. \A role \in ran : Witnessed(role)' /\ Capture!Marked(Capture!Submit(role))'
      BY <2>1, <3>1, WitnessKept DEF Capture!Marked, Capture!Never, Capture!Submit
    <3> QED BY <2>1, <3>1, <3>2 DEF RanOK, Capture!Roles
  <2>5. ExportOK'
    BY <2>1, ExportUnchanged DEF CaptureInv, ExportOK, Capture!NoExport
  <2> QED BY <2>1, <2>2, <2>3, <2>4, <2>5 DEF CaptureInv, Capture!Contexts, Capture!Roles
<1>2. CASE Capture!Next
  BY <1>2, SwitchKeepsInv, MarkKeepsInv, RunKeepsInv, ExportKeepsInv DEF Capture!Next
<1> QED BY <1>1, <1>2 DEF Next, vars, AddValue, RowsStep, BatchStep, CaptureStep

-----------------------------------------------------------------------------
(* What a ready capture is.                                                   *)
LEMMA CaptureCardinality == ASSUME NEW S PROVE Capture!Cardinality(S) = Cardinality(S)
BY DEF Capture!Cardinality, Cardinality

Needed == {"trial", "bg_submit", "int_submit", "trial_end"}

LEMMA ReadyExport ==
    ASSUME CaptureInv, Capture!Ready
    PROVE  /\ export.collected /\ export.complete /\ ran = Capture!Roles
           /\ export.mapped = Capture!Roles /\ Capture!Marked("trial_end")
           /\ \A n \in Needed : export.marks[n] = marks[n] /\ marks[n] # 0
           /\ Capture!Marked("preempt_ioctl_envelope") =>
                export.marks["preempt_ioctl_envelope"] = marks["preempt_ioctl_envelope"]
           /\ export.switches \subseteq Range(switches)
           /\ ~ Capture!SeqGap /\ ~ Capture!AmbiguousContext
<1>1. PICK faults : export = Capture!ExportWith(faults)
  BY DEF CaptureInv, ExportOK, Capture!Ready, Capture!NoExport
<1>2. /\ export.complete = (/\ ran = Capture!Roles /\ Capture!Marked("trial_end")
                            /\ <<"invalid", 0>> \notin faults)
      /\ export.marks = [n \in Capture!Names |->
                            IF <<"unseen", n>> \in faults THEN Capture!Never ELSE marks[n]]
      /\ export.switches = {r \in Capture!Range(switches) : <<"lost", r.seqNo>> \notin faults}
  BY <1>1 DEF Capture!ExportWith
<1>3. /\ ~ Capture!MarkerMissing /\ export.complete
      /\ export.collected /\ export.mapped = Capture!Roles
      /\ ~ Capture!AmbiguousContext /\ ~ Capture!SeqGap /\ ~ Capture!RequestUnmarked
  BY DEF Capture!Ready, Capture!Raises, Capture!Problems, Capture!CollectionFailed, Capture!Unmapped
<1>4. ASSUME NEW n \in Capture!Names, Capture!Seen(n)
      PROVE  export.marks[n] = marks[n] /\ marks[n] # 0
  BY <1>2, <1>4 DEF Capture!Seen, Capture!Never
<1>5. \A n \in Needed : n \in Capture!Names /\ Capture!Seen(n)
  BY <1>3, MarkNames DEF Capture!MarkerMissing, Needed
<1>6. Capture!Marked("preempt_ioctl_envelope") => Capture!Seen("preempt_ioctl_envelope")
  BY <1>3 DEF Capture!RequestUnmarked
<1>7. export.switches \subseteq Range(switches)
  BY <1>2 DEF Capture!Range, Range
<1> QED BY <1>2, <1>3, <1>4, <1>5, <1>6, <1>7, MarkNames

LEMMA ReadyWhole == ASSUME CaptureInv PROVE Capture!ReadyIsWholeRun
<1> SUFFICES ASSUME Capture!Ready
             PROVE  /\ export.collected /\ export.complete /\ ran = Capture!Roles
                    /\ Capture!Marked("preempt_ioctl_envelope") =>
                        export.marks["preempt_ioctl_envelope"] \in Capture!Window("INT")
  BY DEF Capture!ReadyIsWholeRun
<1>1. ASSUME Capture!Marked("preempt_ioctl_envelope")
      PROVE  export.marks["preempt_ioctl_envelope"] \in Capture!Window("INT")
  <2>1. /\ marks["int_submit"] <= marks["preempt_ioctl_envelope"]
        /\ marks["preempt_ioctl_envelope"] <= marks["trial_end"]
    BY <1>1, ReadyExport, MarkNames DEF CaptureInv, MarksOK
  <2>2. \A n \in {"int_submit", "preempt_ioctl_envelope", "trial_end"} :
          export.marks[n] = marks[n] /\ marks[n] \in Nat
    BY <1>1, ReadyExport, MarkNames DEF CaptureInv, MarksOK, Needed
  <2>3. Capture!Submit("INT") = "int_submit"
    BY DEF Capture!Submit
  <2> QED BY <2>1, <2>2, <2>3 DEF Capture!Window
<1> QED BY <1>1, ReadyExport

LEMMA ReadyLosesNothing == ASSUME CaptureInv PROVE Capture!NothingLostInside
<1> SUFFICES ASSUME Capture!Ready, NEW k \in DOMAIN switches,
                    NEW first \in export.switches, NEW last \in export.switches,
                    first.seqNo <= k, k <= last.seqNo
             PROVE  switches[k] \in export.switches
  <2>1. \A k \in DOMAIN switches : switches[k].seqNo = k
    BY SwitchesTyped
  <2> QED BY <2>1 DEF Capture!NothingLostInside, Capture!Range
<1> DEFINE Kept(i) == \E r \in export.switches : r.seqNo = i
           from == first.seqNo
           T == {n \in Nat : from + n <= last.seqNo => Kept(from + n)}
<1>1. ASSUME NEW r \in export.switches
      PROVE  /\ r.seqNo \in DOMAIN switches /\ r.seqNo \in Nat /\ r = switches[r.seqNo]
  <2>1. PICK i \in DOMAIN switches : r = switches[i]
    BY ReadyExport DEF Range
  <2> QED BY <2>1, SwitchesTyped
<1>2. from \in Nat /\ last.seqNo \in Nat /\ k \in Nat
  BY <1>1, SwitchesTyped
<1>3. Kept(from)
  OBVIOUS
<1>4. ASSUME NEW i \in Nat, Kept(i), i + 1 <= last.seqNo PROVE Kept(i + 1)
  <2>1. PICK r \in export.switches : r.seqNo = i
    BY <1>4
  <2>2. last.seqNo > r.seqNo
    BY <1>2, <1>4, <2>1
  <2>3. ~ \A next \in export.switches : next.seqNo # r.seqNo + 1
    BY <2>2, ReadyExport DEF Capture!SeqGap
  <2> QED BY <2>1, <2>3
<1> HIDE DEF Kept, from
<1>5. T = Nat
  <2>1. 0 \in T
    BY <1>2, <1>3
  <2>2. ASSUME NEW n \in T PROVE n + 1 \in T
    <3> SUFFICES ASSUME from + (n + 1) <= last.seqNo PROVE Kept(from + (n + 1))
      OBVIOUS
    <3>1. from + n \in Nat /\ from + n <= last.seqNo /\ (from + n) + 1 = from + (n + 1)
      BY <1>2
    <3>2. Kept(from + n)
      BY <3>1
    <3> QED BY <1>4, <3>1, <3>2
  <2>3. T \in SUBSET Nat
    OBVIOUS
  <2> HIDE DEF T
  <2> QED BY <2>1, <2>2, <2>3, SetInduction
<1>6. k - from \in Nat /\ from + (k - from) = k
  BY <1>2 DEF from
<1>7. Kept(k)
  <2>1. k - from \in T
    BY <1>5, <1>6
  <2>2. from + (k - from) <= last.seqNo => Kept(from + (k - from))
    BY <2>1
  <2> QED BY <1>6, <2>2
<1> QED BY <1>1, <1>7 DEF Kept

\* With its first and its last record, a capture without a gap is all there.
LEMMA AllExported ==
    ASSUME CaptureInv, Capture!Ready, Capture!HeadKept, Capture!TailKept
    PROVE  export.switches = Range(switches)
<1> DEFINE n == Len(switches)
<1>1. n \in Nat /\ DOMAIN switches = 1 .. n /\ \A i \in DOMAIN switches : switches[i].seqNo = i
  BY SwitchesTyped
<1>2. ASSUME NEW k \in DOMAIN switches PROVE switches[k] \in export.switches
  <2>1. switches # <<>> /\ 1 \in DOMAIN switches /\ n \in DOMAIN switches /\ 1 <= k /\ k <= n
    BY <1>1, <1>2
  <2>2. switches[1] \in export.switches /\ switches[n] \in export.switches
    BY <2>1 DEF Capture!HeadKept, Capture!TailKept
  <2>3. switches[1].seqNo <= switches[k].seqNo /\ switches[k].seqNo <= switches[n].seqNo
    BY <1>1, <2>1
  <2>4. Capture!NothingLostInside /\ switches[k] \in Capture!Range(switches)
    BY <1>2, ReadyLosesNothing DEF Capture!Range
  <2> QED BY <2>2, <2>3, <2>4 DEF Capture!NothingLostInside
<1> QED BY <1>2, ReadyExport DEF Range

LEMMA ReadyAssociates == ASSUME CaptureInv PROVE Capture!AssociationSound
<1> SUFFICES ASSUME Capture!Ready, Capture!TailKept, Capture!HeadKept, NEW role \in Capture!Roles
             PROVE  /\ \E r \in export.switches : Capture!AssociatedWith(r, role)
                    /\ \A r \in export.switches :
                        Capture!AssociatedWith(r, role) => r.contextId = Capture!Work(role)
  BY DEF Capture!AssociationSound
<1> DEFINE Inside(r) == r.timestamp \in Capture!Window(role)
           contexts == Capture!TrialContexts(role)
<1>1. export.switches = Range(switches)
  BY AllExported
<1>2. contexts = {r.contextId : r \in {s \in export.switches :
                     Capture!Pid(s.contextId) = role /\ Inside(s)}}
  BY DEF Capture!TrialContexts, Capture!OwnSwitches
<1>3. PICK c : contexts = {c}
  <2>1. Capture!Cardinality(contexts) = 1
    BY ReadyExport DEF Capture!AmbiguousContext
  <2>2. IsFiniteSet(contexts)
    <3>1. contexts \subseteq {<<role, "init">>, <<role, "work">>}
      <4>1. \A r \in export.switches : r.contextId \in Capture!Contexts
        BY <1>1, SwitchesTyped DEF Range, Record
      <4> QED BY <1>2, <4>1 DEF Capture!Contexts, Capture!Roles, Capture!Pid
    <3>2. IsFiniteSet({<<role, "init">>, <<role, "work">>})
      <4>1. {<<role, "init">>, <<role, "work">>} = {<<role, "init">>} \cup {<<role, "work">>}
        OBVIOUS
      <4>2. IsFiniteSet({<<role, "init">>}) /\ IsFiniteSet({<<role, "work">>})
        BY FS_Singleton
      <4>3. IsFiniteSet({<<role, "init">>} \cup {<<role, "work">>})
        BY <4>2, FS_Union
      <4> QED BY <4>1, <4>3
    <3> QED BY <3>1, <3>2, FS_Subset
  <2> QED BY <2>1, <2>2, CaptureCardinality, FS_Singleton
<1>4. ASSUME NEW r \in export.switches
      PROVE  InTrial(r.timestamp, role) <=> Inside(r)
  <2>1. r.timestamp \in Nat
    BY <1>1, SwitchesTyped DEF Range
  <2>2. \A n \in Needed : export.marks[n] = marks[n] /\ marks[n] \in Nat
    BY ReadyExport, MarkNames DEF CaptureInv, MarksOK, Needed
  <2>3. Capture!Submit(role) \in Needed /\ "trial_end" \in Needed /\ Capture!Marked("trial_end")
    BY ReadyExport, MarkNames DEF Needed
  <2> QED BY <2>1, <2>2, <2>3 DEF InTrial, Capture!Window
<1>5. \E r \in export.switches : InTrial(r.timestamp, role) /\ r.contextId = Capture!Work(role)
  <2>1. Witnessed(role)
    BY ReadyExport DEF CaptureInv, RanOK
  <2>2. PICK r \in export.switches : Inside(r)
    BY <1>2, <1>3
  <2>3. PICK i \in DOMAIN switches : r = switches[i]
    BY <1>1 DEF Range
  <2>4. InTrial(switches[i].timestamp, role)
    BY <1>4, <2>2, <2>3
  <2>5. PICK j \in DOMAIN switches :
          InTrial(switches[j].timestamp, role) /\ switches[j].contextId = Capture!Work(role)
    BY <2>1, <2>4 DEF Witnessed
  <2> QED BY <1>1, <2>5 DEF Range
<1>6. c = Capture!Work(role)
  <2>1. Capture!Pid(Capture!Work(role)) = role
    BY DEF Capture!Pid, Capture!Work
  <2> QED BY <1>2, <1>3, <1>4, <1>5, <2>1
<1>7. \A r \in export.switches : Capture!AssociatedWith(r, role) => r.contextId = Capture!Work(role)
  BY <1>3, <1>6 DEF Capture!AssociatedWith
<1>8. \E r \in export.switches : Capture!AssociatedWith(r, role)
  <2>1. PICK r \in export.switches : InTrial(r.timestamp, role) /\ r.contextId = Capture!Work(role)
    BY <1>5
  <2>2. Capture!Pid(r.contextId) = role
    BY <2>1 DEF Capture!Pid, Capture!Work
  <2>3. Inside(r) /\ contexts = {r.contextId} /\ role \in export.mapped
    BY <1>3, <1>4, <1>6, <2>1, ReadyExport
  <2> QED BY <2>2, <2>3 DEF Capture!AssociatedWith
<1> QED BY <1>7, <1>8

LEMMA CaptureInvImplies == ASSUME CaptureInv PROVE CaptureTrue
BY ReadyWhole, ReadyLosesNothing, ReadyAssociates DEF CaptureTrue

\* A capture that may license an active follow-up is that of a whole, valid run, has every
\* switch between its first and its last record, and attributes to each owner records of
\* its workload's context only: whatever the order of switches, annotations and kernels,
\* and however many records and annotations the export has lost (analyze_diagnostic.py).
THEOREM ReadyCaptureIsTrue == Spec => []CaptureTrue
<1>1. Spec => []CaptureInv
  BY CaptureInvInit, CaptureInvStep, PTL DEF Spec
<1> QED BY <1>1, CaptureInvImplies, PTL
=============================================================================
