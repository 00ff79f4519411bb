----------------------------- MODULE Registry_proofs -----------------------------
(***************************************************************************)
(* The registry, the bindings kept on it and the strict controls that use  *)
(* them, for every set of handles, every capacity, journal and settings    *)
(* and every sequence of events.                                           *)
(*                                                                         *)
(* The registry (ObjectRegistry).  The five invariants are proved          *)
(* together: a bind keeps parent tokens live only because no node is its   *)
(* own parent, and ancestry stays well-founded only because a new node has *)
(* no child, which follows from the generations.  The lemmas speak of a    *)
(* graph g and of the next generation n, so that they apply to the graph   *)
(* in the middle of an allocation as well.                                 *)
(*                                                                         *)
(* The bindings (BindingSnapshot).  Both answers about a kept one are      *)
(* exact.  Effects says what one event does to what a snapshot describes:  *)
(* a node or a client that changes gets a generation nobody had, a child   *)
(* of a rebound node a parent generation nobody had, and the two revisions *)
(* move exactly when a member or a compute object does.  A difference of   *)
(* this kind is never undone (Superseded); as long as there is none, the   *)
(* snapshot is what a new search would return (Fresh).  The strict binding *)
(* has no revisions, only tokens.  A generation stands for one life, and a *)
(* life keeps its class and its parent (StrictRecorded), so the tokens     *)
(* that are current pin the whole path from device to channel and the walk *)
(* sees what a search would see.                                           *)
(*                                                                         *)
(* The controls (StrictControl).  What reaches the driver names verified   *)
(* objects and the whole group, and what was changed and not restored has  *)
(* its flag.                                                               *)
(***************************************************************************)
EXTENDS StrictControl, FiniteSetTheorems, TLAPS

-----------------------------------------------------------------------------
(* The registry.                                                              *)
WellTyped(g, n) ==
    /\ g \in [Keys -> Node]
    /\ \A k \in Keys : g[k].gen < n /\ g[k].pgen < n
    /\ \A k \in Keys : g[k].gen # 0 <=> g[k].cls # NoClass

TokensLive(g) ==
    \A k \in LiveIn(g) : g[k].pgen # 0 => ChildOf(g, k, ParentKey(g, k))

Unique(g) ==
    \A a, b \in LiveIn(g) : g[a].gen = g[b].gen => a = b

WellFounded(g) ==
    \A S \in (SUBSET LiveIn(g)) \ {{}} : \E k \in S : ~ HasParentIn(g, k, S)

Sound(g, n) == WellTyped(g, n) /\ TokensLive(g) /\ Unique(g) /\ WellFounded(g)

-----------------------------------------------------------------------------
(* The parent of a key is a key: handles do not leave their client.           *)
LEMMA ParentKeyIsKey ==
    ASSUME NEW g \in [Keys -> Node], NEW k \in Keys
    PROVE  ParentKey(g, k) \in Keys /\ ParentKey(g, k)[1] = k[1]
BY DEF ParentKey, Keys, Node

(* The value that stands for a missing map entry is well typed.               *)
LEMMA NoNodeIsNode ==
    ASSUME NEW k \in Keys
    PROVE  NoNode(k) \in Node /\ NoNode(k).gen = 0 /\ NoNode(k).cls = NoClass
           /\ NoNode(k).pgen = 0
BY DEF NoNode, Node, Keys

(* erase_tree collects a set that holds the root and every current child of   *)
(* its members, whatever the shape of the graph.                              *)
LEMMA DoomedIsClosed ==
    ASSUME NEW g, NEW root \in LiveIn(g)
    PROVE  /\ Doomed(g, root) \subseteq LiveIn(g)
           /\ root \in Doomed(g, root)
           /\ ClosedDownward(g, Doomed(g, root))
           /\ \A T \in SUBSET Doomed(g, root) :
                  root \in T /\ ClosedDownward(g, T) => T = Doomed(g, root)
<1> DEFINE
      Candidates == {T \cup {root} : T \in SUBSET (LiveIn(g) \ {root})}
      Closed == {S \in Candidates : ClosedDownward(g, S)}
      Least == {k \in LiveIn(g) : \A S \in Closed : k \in S}
      Minimal(S) == /\ ClosedDownward(g, S)
                    /\ \A T \in SUBSET S : root \in T /\ ClosedDownward(g, T) => T = S
<1>1. \A S : S \in Candidates <=> root \in S /\ S \subseteq LiveIn(g)
  <2>1. ASSUME NEW S, root \in S, S \subseteq LiveIn(g)
        PROVE  S \in Candidates
    <3>1. S \ {root} \in SUBSET (LiveIn(g) \ {root}) /\ S = (S \ {root}) \cup {root}
      BY <2>1
    <3> QED BY <3>1
  <2> QED BY <2>1
<1>2. root \in Least /\ Least \subseteq LiveIn(g)
  BY <1>1
<1>3. ClosedDownward(g, Least)
  <2> SUFFICES ASSUME NEW a \in LiveIn(g) \ Least, HasParentIn(g, a, Least)
               PROVE  FALSE
    BY DEF ClosedDownward
  <2>1. PICK S \in Closed : a \notin S
    OBVIOUS
  <2>2. HasParentIn(g, a, S)
    BY DEF HasParentIn
  <2> QED BY <2>1, <2>2 DEF ClosedDownward
<1>4. Least \in Candidates /\ Minimal(Least)
  <2>1. ASSUME NEW T \in SUBSET Least, root \in T, ClosedDownward(g, T)
        PROVE  T = Least
    BY <1>1, <1>2, <2>1
  <2> QED BY <1>1, <1>2, <1>3, <2>1
<1>5. Doomed(g, root) = CHOOSE S \in Candidates : Minimal(S)
  BY DEF Doomed
<1>6. Doomed(g, root) \in Candidates /\ Minimal(Doomed(g, root))
  <2> HIDE DEF Candidates, Minimal
  <2> QED BY <1>4, <1>5
<1> QED BY <1>1, <1>6

(* It is the least such set.                                                  *)
LEMMA DoomedIsLeast ==
    ASSUME NEW g, NEW root \in LiveIn(g), NEW S, root \in S, ClosedDownward(g, S)
    PROVE  Doomed(g, root) \subseteq S
<1> DEFINE T == Doomed(g, root) \cap S
<1>1. root \in T /\ T \in SUBSET Doomed(g, root)
  BY DoomedIsClosed
<1>2. ClosedDownward(g, T)
  <2> SUFFICES ASSUME NEW a \in LiveIn(g) \ T, HasParentIn(g, a, T) PROVE FALSE
    BY DEF ClosedDownward
  <2>1. HasParentIn(g, a, Doomed(g, root)) /\ HasParentIn(g, a, S)
    BY DEF HasParentIn
  <2> QED BY <2>1, DoomedIsClosed DEF ClosedDownward
<1>3. T = Doomed(g, root)
  BY <1>1, <1>2, DoomedIsClosed
<1> QED BY <1>3

(* Erasing a set that is closed downward keeps a graph sound: what is left    *)
(* never refers to what is gone.                                              *)
LEMMA ErasedIsSound ==
    ASSUME NEW g, NEW n \in Nat \ {0}, Sound(g, n),
           NEW D \in SUBSET LiveIn(g), ClosedDownward(g, D)
    PROVE  Sound(Erased(g, D), n) /\ LiveIn(Erased(g, D)) = LiveIn(g) \ D
<1> DEFINE h == Erased(g, D)
<1>1. h \in [Keys -> Node]
  <2>1. \A k \in Keys : NoNode(k) \in Node
    BY NoNodeIsNode
  <2> QED BY <2>1 DEF Erased, Sound, WellTyped
<1>2. \A k \in Keys : k \notin D => h[k] = g[k]
  BY DEF Erased
<1>3. \A k \in D : h[k].gen = 0 /\ h[k].cls = NoClass /\ h[k].pgen = 0
  BY NoNodeIsNode DEF Erased, LiveIn
<1>4. LiveIn(h) = LiveIn(g) \ D
  BY <1>2, <1>3 DEF LiveIn
<1>5. WellTyped(h, n)
  <2>1. \A k \in Keys : h[k].gen < n /\ h[k].pgen < n
    BY <1>2, <1>3 DEF Sound, WellTyped
  <2>2. \A k \in Keys : h[k].gen # 0 <=> h[k].cls # NoClass
    BY <1>2, <1>3 DEF Sound, WellTyped
  <2> QED BY <1>1, <2>1, <2>2 DEF WellTyped
<1>6. TokensLive(h)
  <2> SUFFICES ASSUME NEW k \in LiveIn(g) \ D, h[k].pgen # 0
               PROVE  ChildOf(h, k, ParentKey(h, k))
    BY <1>4 DEF TokensLive
  <2>1. k \in Keys /\ h[k] = g[k] /\ ParentKey(h, k) = ParentKey(g, k)
    BY <1>2 DEF LiveIn, ParentKey
  <2>2. ChildOf(g, k, ParentKey(g, k))
    BY <2>1 DEF Sound, TokensLive
  <2>3. ParentKey(g, k) \in Keys
    BY <2>1, ParentKeyIsKey DEF Sound, WellTyped
  <2>4. ParentKey(g, k) \notin D
    BY <2>2 DEF ClosedDownward, HasParentIn
  <2> QED BY <1>2, <2>1, <2>2, <2>3, <2>4 DEF ChildOf, ParentKey
<1>7. Unique(h)
  <2> SUFFICES ASSUME NEW a \in LiveIn(g) \ D, NEW b \in LiveIn(g) \ D,
                      h[a].gen = h[b].gen
               PROVE  a = b
    BY <1>4 DEF Unique
  <2> QED BY <1>2 DEF LiveIn, Sound, Unique
<1>8. WellFounded(h)
  <2> SUFFICES ASSUME NEW S \in SUBSET (LiveIn(g) \ D), S # {}
               PROVE  \E k \in S : ~ HasParentIn(h, k, S)
    BY <1>4 DEF WellFounded
  <2>1. PICK k \in S : ~ HasParentIn(g, k, S)
    BY DEF Sound, WellFounded
  <2>2. \A a \in S : a \in Keys /\ h[a] = g[a]
    BY <1>2 DEF LiveIn
  <2>3. ~ HasParentIn(h, k, S)
    BY <2>1, <2>2 DEF HasParentIn, ChildOf, ParentKey
  <2> QED BY <2>3
<1> QED BY <1>4, <1>5, <1>6, <1>7, <1>8 DEF Sound

(* A node inserted under a key that was free has no child: no parent token    *)
(* carries a generation that was not handed out yet.                          *)
LEMMA InsertedIsSound ==
    ASSUME NEW g, next \in Nat \ {0}, Sound(g, next),
           NEW k \in Keys \ LiveIn(g), NEW p \in Handles, NEW cls \in Classes
    PROVE  /\ Sound(Inserted(g, k, p, cls), next + 1)
           /\ LiveIn(Inserted(g, k, p, cls)) = LiveIn(g) \cup {k}
           /\ \A a \in Keys \ {k} : Inserted(g, k, p, cls)[a] = g[a]
           /\ Inserted(g, k, p, cls)[k].gen = next
           /\ Inserted(g, k, p, cls)[k].cls = cls
<1> DEFINE h == Inserted(g, k, p, cls)
<1>1. /\ <<k[1], p>> \in Keys
      /\ g[<<k[1], p>>].gen \in Nat /\ g[<<k[1], p>>].gen < next
  BY DEF Keys, Sound, WellTyped, Node
<1>2. /\ h \in [Keys -> Node]
      /\ h[k] = [cls |-> cls, gen |-> next, parent |-> p, pgen |-> g[<<k[1], p>>].gen]
      /\ \A a \in Keys \ {k} : h[a] = g[a]
  BY <1>1 DEF Inserted, Sound, WellTyped, Node, Keys
<1>3. LiveIn(h) = LiveIn(g) \cup {k}
  BY <1>2 DEF LiveIn
<1>4. cls # NoClass
  BY DEF Classes, NoClass
<1>5. WellTyped(h, next + 1)
  <2>1. \A a \in Keys : h[a].gen < next + 1 /\ h[a].pgen < next + 1
    <3> SUFFICES ASSUME NEW a \in Keys PROVE h[a].gen < next + 1 /\ h[a].pgen < next + 1
      OBVIOUS
    <3>1. CASE a = k
      BY <1>1, <1>2, <3>1
    <3>2. CASE a # k
      <4>1. /\ g[a].gen \in Nat /\ g[a].gen < next
            /\ g[a].pgen \in Nat /\ g[a].pgen < next
        BY DEF Sound, WellTyped, Node
      <4> QED BY <1>2, <3>2, <4>1
    <3> QED BY <3>1, <3>2
  <2>2. \A a \in Keys : h[a].gen # 0 <=> h[a].cls # NoClass
    BY <1>2, <1>4 DEF Sound, WellTyped
  <2> QED BY <1>2, <2>1, <2>2 DEF WellTyped
<1>6. \A a \in LiveIn(g) : a # k /\ h[a] = g[a]
  BY <1>2 DEF LiveIn
<1>7. \A a \in LiveIn(h) : \A S : HasParentIn(h, a, S) => ParentKey(h, a) # k
  <2> SUFFICES ASSUME NEW a \in LiveIn(h), ChildOf(h, a, k) PROVE FALSE
    BY DEF HasParentIn, ChildOf
  <2>1. h[a].pgen = next
    BY <1>2 DEF ChildOf
  <2>2. CASE a = k
    BY <1>1, <1>2, <2>1, <2>2
  <2>3. CASE a # k
    BY <1>2, <2>1, <2>3 DEF LiveIn, Sound, WellTyped, Node
  <2> QED BY <2>2, <2>3
<1>8. TokensLive(h)
  <2> SUFFICES ASSUME NEW a \in LiveIn(h), h[a].pgen # 0
               PROVE  ChildOf(h, a, ParentKey(h, a))
    BY DEF TokensLive
  <2>1. CASE a = k
    <3>1. ParentKey(h, k) = <<k[1], p>> /\ <<k[1], p>> \in LiveIn(g)
      BY <1>1, <1>2, <2>1 DEF ParentKey, LiveIn
    <3> QED BY <1>2, <1>3, <1>6, <2>1, <3>1 DEF ChildOf, LiveIn
  <2>2. CASE a # k
    <3>1. a \in LiveIn(g) /\ h[a] = g[a] /\ ParentKey(h, a) = ParentKey(g, a)
      BY <1>3, <1>6, <2>2 DEF ParentKey
    <3>2. ChildOf(g, a, ParentKey(g, a))
      BY <3>1 DEF Sound, TokensLive
    <3>3. ParentKey(g, a) \in LiveIn(g)
      BY <3>1, <3>2, ParentKeyIsKey DEF ChildOf, LiveIn, Sound, WellTyped
    <3> QED BY <1>6, <3>1, <3>2, <3>3 DEF ChildOf
  <2> QED BY <2>1, <2>2
<1>9. Unique(h)
  <2> SUFFICES ASSUME NEW a \in LiveIn(h), NEW b \in LiveIn(h), h[a].gen = h[b].gen
               PROVE  a = b
    BY DEF Unique
  <2>1. \A c \in LiveIn(g) : g[c].gen \in Nat /\ g[c].gen < next
    BY DEF LiveIn, Sound, WellTyped, Node
  <2> QED BY <1>2, <1>3, <1>6, <2>1 DEF Sound, Unique
<1>10. WellFounded(h)
  <2> SUFFICES ASSUME NEW S \in SUBSET LiveIn(h), S # {}
               PROVE  \E a \in S : ~ HasParentIn(h, a, S)
    BY DEF WellFounded
  <2>1. CASE S = {k}
    BY <1>7, <2>1 DEF HasParentIn
  <2>2. CASE S # {k}
    <3>1. S \ {k} \in SUBSET LiveIn(g) /\ S \ {k} # {}
      BY <1>3, <2>2
    <3>2. PICK a \in S \ {k} : ~ HasParentIn(g, a, S \ {k})
      BY <3>1 DEF Sound, WellFounded
    <3>3. ASSUME HasParentIn(h, a, S) PROVE FALSE
      <4>1. ParentKey(h, a) # k /\ ParentKey(h, a) \in S \ {k}
        BY <1>7, <3>3 DEF HasParentIn
      <4>2. a \in LiveIn(g) /\ ParentKey(h, a) = ParentKey(g, a) /\ ParentKey(h, a) \in LiveIn(g)
        BY <1>6, <3>1, <4>1 DEF ParentKey
      <4> QED BY <1>6, <3>2, <3>3, <4>1, <4>2 DEF HasParentIn, ChildOf
    <3> QED BY <3>3
  <2> QED BY <2>1, <2>2
<1> QED BY <1>2, <1>3, <1>5, <1>8, <1>9, <1>10 DEF Sound

(* bind() moves a node to a new generation and its children with it: who is   *)
(* whose child does not change.                                               *)
LEMMA ReboundIsSound ==
    ASSUME next \in Nat \ {0}, Sound(current, next), NEW k \in LiveIn(current)
    PROVE  /\ Sound(Rebound(k), next + 1)
           /\ LiveIn(Rebound(k)) = LiveIn(current)
           /\ \A a \in Keys : Rebound(k)[a].cls = current[a].cls
           /\ Rebound(k)[k].gen = next
           /\ \A a \in Keys \ {k} : Rebound(k)[a].gen = current[a].gen
<1> DEFINE h == Rebound(k)
<1>1. k \in Keys /\ current[k].gen # 0
  BY DEF LiveIn
<1>2. \A a \in Keys : /\ current[a] \in Node
                      /\ current[a].gen \in Nat /\ current[a].gen < next
                      /\ current[a].pgen \in Nat /\ current[a].pgen < next
  BY DEF Sound, WellTyped, Node
<1>3. /\ h \in [Keys -> Node]
      /\ h[k] = [current[k] EXCEPT !.gen = next]
      /\ \A a \in Keys \ {k} : ChildOf(current, a, k) =>
            h[a] = [current[a] EXCEPT !.pgen = next]
      /\ \A a \in Keys \ {k} : ~ ChildOf(current, a, k) => h[a] = current[a]
  BY <1>1, <1>2 DEF Rebound, Node
<1>4. \A a \in Keys : /\ h[a].cls = current[a].cls
                      /\ ParentKey(h, a) = ParentKey(current, a)
                      /\ a # k => h[a].gen = current[a].gen
                      /\ a = k => h[a].gen = next /\ h[a].pgen = current[a].pgen
  BY <1>1, <1>2, <1>3 DEF ParentKey, Node
<1>5. LiveIn(h) = LiveIn(current)
  BY <1>1, <1>4 DEF LiveIn
<1>6. WellTyped(h, next + 1)
  <2>1. \A a \in Keys : h[a].pgen = next \/ h[a].pgen = current[a].pgen
    BY <1>2, <1>3, <1>4 DEF Node
  <2>2. \A a \in Keys : h[a].gen < next + 1 /\ h[a].pgen < next + 1
    BY <1>2, <1>4, <2>1
  <2>3. \A a \in Keys : h[a].gen # 0 <=> h[a].cls # NoClass
    BY <1>1, <1>4 DEF Sound, WellTyped
  <2> QED BY <1>3, <2>2, <2>3 DEF WellTyped
<1>7. ~ ChildOf(current, k, k)
  <2>1. {k} \in (SUBSET LiveIn(current)) \ {{}}
    OBVIOUS
  <2>2. ~ HasParentIn(current, k, {k})
    BY <2>1 DEF Sound, WellFounded
  <2> QED BY <2>2 DEF HasParentIn, ChildOf
<1>8. \A a, p \in Keys : ChildOf(h, a, p) <=> ChildOf(current, a, p)
  <2> SUFFICES ASSUME NEW a \in Keys, NEW p \in Keys
               PROVE  ChildOf(h, a, p) <=> ChildOf(current, a, p)
    OBVIOUS
  <2>1. CASE a = k /\ p = k
    BY <1>2, <1>4, <1>7, <2>1 DEF ChildOf
  <2>2. CASE a = k /\ p # k
    BY <1>1, <1>4, <2>2 DEF ChildOf
  <2>3. CASE a # k /\ p = k
    <3>1. CASE ChildOf(current, a, k)
      <4>1. h[a].pgen = next /\ h[a].gen = current[a].gen
        BY <1>2, <1>3, <2>3, <3>1 DEF Node
      <4> QED BY <1>1, <1>4, <2>3, <3>1, <4>1 DEF ChildOf
    <3>2. CASE ~ ChildOf(current, a, k)
      BY <1>2, <1>3, <1>4, <2>3, <3>2 DEF ChildOf
    <3> QED BY <3>1, <3>2
  <2>4. CASE a # k /\ p # k
    <3>1. CASE ChildOf(current, a, k)
      BY <1>4, <2>4, <3>1 DEF ChildOf
    <3>2. CASE ~ ChildOf(current, a, k)
      BY <1>3, <1>4, <2>4, <3>2 DEF ChildOf
    <3> QED BY <3>1, <3>2
  <2> QED BY <2>1, <2>2, <2>3, <2>4
<1>9. TokensLive(h)
  <2> SUFFICES ASSUME NEW a \in LiveIn(current), h[a].pgen # 0
               PROVE  ChildOf(h, a, ParentKey(h, a))
    BY <1>5 DEF TokensLive
  <2>1. a \in Keys /\ ParentKey(h, a) = ParentKey(current, a) /\ ParentKey(current, a) \in Keys
    BY <1>4, ParentKeyIsKey DEF LiveIn, Sound, WellTyped
  <2>2. ChildOf(current, a, ParentKey(current, a))
    <3>1. CASE current[a].pgen # 0
      BY <3>1 DEF Sound, TokensLive
    <3>2. CASE current[a].pgen = 0
      <4>1. a # k /\ ChildOf(current, a, k)
        BY <1>3, <1>4, <2>1, <3>2
      <4> QED BY <4>1 DEF ChildOf
    <3> QED BY <3>1, <3>2
  <2> QED BY <1>8, <2>1, <2>2
<1>10. Unique(h)
  <2> SUFFICES ASSUME NEW a \in LiveIn(current), NEW b \in LiveIn(current), h[a].gen = h[b].gen
               PROVE  a = b
    BY <1>5 DEF Unique
  <2>1. a \in Keys /\ b \in Keys
    BY DEF LiveIn
  <2> QED BY <1>2, <1>4, <2>1 DEF Sound, Unique
<1>11. WellFounded(h)
  <2> SUFFICES ASSUME NEW S \in SUBSET LiveIn(current), S # {}
               PROVE  \E a \in S : ~ HasParentIn(h, a, S)
    BY <1>5 DEF WellFounded
  <2>1. PICK a \in S : ~ HasParentIn(current, a, S)
    BY DEF Sound, WellFounded
  <2>2. a \in Keys /\ \A p \in S : p \in Keys
    BY DEF LiveIn
  <2>3. ~ HasParentIn(h, a, S)
    BY <1>4, <1>8, <2>1, <2>2 DEF HasParentIn
  <2> QED BY <2>3
<1> QED BY <1>4, <1>5, <1>6, <1>9, <1>10, <1>11, <1>1 DEF Sound

-----------------------------------------------------------------------------
(* The inductive invariant, in the parts the steps are proved by.             *)
ClientsOK ==
    /\ clients \in [Clients -> [fd : Fds \cup {NoFd}, gen : Nat]]
    /\ \A c \in Clients : /\ clients[c].gen < next
                          /\ clients[c].fd = NoFd <=> clients[c].gen = 0

EventsOK == incomplete \in BOOLEAN /\ hist \in 0 .. HistoryCapacity

RevisionsOK ==
    /\ revision \in [Keys -> Nat] /\ candidates \in Nat /\ nextTopology \in Nat \ {0}
    /\ \A k \in Keys : revision[k] < nextTopology
    /\ candidates < nextTopology
    /\ \A k \in Keys : revision[k] # 0 => current[k].cls = "group"

OwnersOK ==
    /\ \A c \in Clients, k \in LiveIn(current) : clients[c].gen # current[k].gen
    /\ \A k \in LiveIn(current) : clients[k[1]].gen # 0

GraphOK == next \in Nat \ {0} /\ Sound(current, next)

RInv == GraphOK /\ ClientsOK /\ EventsOK /\ RevisionsOK /\ OwnersOK

(* The inductive invariant says what the five checked invariants say.         *)
LEMMA InvariantParts ==
    RInv <=> /\ TypeOK /\ ParentTokensLive /\ GenerationsUnique
             /\ AncestryWellFounded /\ NoOrphanClient
<1>1. ParentTokensLive <=> TokensLive(current)
  BY DEF ParentTokensLive, TokensLive
<1>2. AncestryWellFounded <=> WellFounded(current)
  BY DEF AncestryWellFounded, WellFounded
<1>3. GenerationsUnique /\ NoOrphanClient <=> Unique(current) /\ OwnersOK
  BY DEF GenerationsUnique, NoOrphanClient, Unique, OwnersOK, HasClient
<1>4. TypeOK <=> /\ next \in Nat \ {0} /\ WellTyped(current, next)
                 /\ ClientsOK /\ EventsOK /\ RevisionsOK
  BY DEF TypeOK, WellTyped, ClientsOK, EventsOK, RevisionsOK, Live
<1> QED BY <1>1, <1>2, <1>3, <1>4 DEF RInv, GraphOK, Sound

(* The bound on recorded events is a number.                                  *)
LEMMA HistoryCapacityType == HistoryCapacity \in Nat
BY RegistryAssumption DEF HistoryCapacity, RegistryAssumption

(* The constructor leaves the invariant true.                                 *)
LEMMA InitEstablishes == Init => RInv
<1> SUFFICES ASSUME Init PROVE RInv
  OBVIOUS
<1>1. \A k \in Keys : current[k] = NoNode(k) /\ current[k] \in Node
                      /\ current[k].gen = 0 /\ current[k].pgen = 0 /\ current[k].cls = NoClass
  BY NoNodeIsNode DEF Init
<1>2. LiveIn(current) = {}
  BY <1>1 DEF LiveIn
<1>3. GraphOK
  <2>1. WellTyped(current, next)
    BY <1>1 DEF Init, WellTyped
  <2> QED BY <1>2, <2>1 DEF GraphOK, Sound, TokensLive, Unique, WellFounded, Init
<1>4. ClientsOK
  BY DEF Init, ClientsOK, NoFd
<1>5. EventsOK
  <2>1. incomplete \in BOOLEAN
    BY Zenon DEF Init
  <2>2. hist \in 0 .. HistoryCapacity
    BY HistoryCapacityType DEF Init
  <2> QED BY <2>1, <2>2 DEF EventsOK
<1>6. RevisionsOK
  BY DEF Init, RevisionsOK
<1>7. OwnersOK
  BY <1>2 DEF OwnersOK
<1> QED BY <1>3, <1>4, <1>5, <1>6, <1>7 DEF RInv

-----------------------------------------------------------------------------
(* Facts about the helpers of the operations.                                 *)
(* Revising groups, and dropping the slots of erased keys, keeps the revisions*)
(* in order.                                                                  *)
LEMMA RevisePreserves ==
    ASSUME NEW touched, NEW gone, NEW compute,
           revision \in [Keys -> Nat], candidates \in Nat, nextTopology \in Nat \ {0},
           \A k \in Keys : revision[k] < nextTopology,
           candidates < nextTopology,
           Revise(touched, gone, compute)
    PROVE  /\ revision' \in [Keys -> Nat] /\ candidates' \in Nat
           /\ nextTopology' \in Nat \ {0}
           /\ \A k \in Keys : revision'[k] < nextTopology'
           /\ candidates' < nextTopology'
           /\ \A k \in Keys : revision'[k] # 0 =>
                k \notin gone /\ (k \in touched \/ revision[k] # 0)
<1>1. \A k \in Keys : revision'[k] = IF k \in gone THEN 0
                                     ELSE IF k \in touched THEN nextTopology ELSE revision[k]
  BY DEF Revise
<1>2. revision' \in [Keys -> Nat]
  BY DEF Revise
<1>3. CASE compute
  BY <1>1, <1>2, <1>3 DEF Revise
<1>4. CASE ~ compute
  BY <1>1, <1>2, <1>4 DEF Revise
<1> QED BY <1>3, <1>4

(* Recording an event never takes the history past its bound.                 *)
LEMMA RecordPreserves ==
    ASSUME EventsOK, Record \/ MarkIncomplete \/ UNCHANGED <<incomplete, hist>>
    PROVE  EventsOK'
<1>1. incomplete' \in BOOLEAN
  BY Zenon DEF EventsOK, Record, MarkIncomplete
<1>2. hist' \in 0 .. HistoryCapacity
  BY HistoryCapacityType DEF EventsOK, Record, MarkIncomplete
<1> QED BY <1>1, <1>2 DEF EventsOK, HistoryCapacity

(* touch_topology only ever moves the revision of a current group.            *)
LEMMA TouchedAreGroups ==
    ASSUME NEW g, NEW T
    PROVE  \A k \in TouchedGroups(g, T) : k \in Keys /\ g[k].cls = "group"
BY DEF TouchedGroups, IsGroupMember

(* What a free or a reused handle removes holds every child of its members.   *)
LEMMA ReplacedIsClosed ==
    ASSUME NEW k \in Keys
    PROVE  /\ Replaced(k) \in SUBSET LiveIn(current)
           /\ ClosedDownward(current, Replaced(k))
           /\ k \in LiveIn(current) => k \in Replaced(k)
<1>1. CASE Live(k)
  <2>1. k \in LiveIn(current)
    BY <1>1 DEF Live, LiveIn
  <2> QED BY <1>1, <2>1, DoomedIsClosed DEF Replaced
<1>2. CASE ~ Live(k)
  BY <1>2 DEF Live, LiveIn, Replaced, ClosedDownward, HasParentIn
<1> QED BY <1>1, <1>2

(* A client's handles only ever parent its own objects.                       *)
LEMMA OwnedIsClosed ==
    ASSUME NEW c \in Clients
    PROVE  ClosedDownward(current, {k \in LiveIn(current) : k[1] = c})
BY DEF ClosedDownward, HasParentIn, ParentKey, LiveIn, Keys

-----------------------------------------------------------------------------
(* client() keeps the invariant: a fresh generation, a known descriptor.      *)
LEMMA ClientPreserves ==
    ASSUME RInv, NEW c \in Clients, NEW fd \in Fds \cup {NoFd}, Client(c, fd)
    PROVE  RInv'
<1>1. EventsOK'
  BY RecordPreserves DEF RInv, Client
<1>2. current' = current /\ LiveIn(current') = LiveIn(current) /\ Unrevised
  BY DEF Client
<1>3. RevisionsOK'
  BY <1>2 DEF RInv, RevisionsOK, Unrevised
<1>4. CASE UNCHANGED <<clients, next>>
  BY <1>1, <1>2, <1>3, <1>4 DEF RInv, GraphOK, ClientsOK, OwnersOK
<1>5. CASE /\ ~ HasClient(c) /\ fd # NoFd
           /\ clients' = [clients EXCEPT ![c] = [fd |-> fd, gen |-> next]]
           /\ next' = next + 1
  <2>1. GraphOK'
    <3>1. WellTyped(current, next + 1)
      BY DEF RInv, GraphOK, Sound, WellTyped, Node
    <3> QED BY <1>2, <1>5, <3>1 DEF RInv, GraphOK, Sound
  <2>2. ClientsOK'
    BY <1>5 DEF RInv, GraphOK, ClientsOK
  <2>3. OwnersOK'
    <3>1. \A k \in LiveIn(current) : k[1] \in Clients /\ current[k].gen < next
      BY DEF LiveIn, Keys, RInv, GraphOK, Sound, WellTyped
    <3>2. \A d \in Clients : clients'[d] = IF d = c THEN [fd |-> fd, gen |-> next] ELSE clients[d]
      BY <1>5 DEF RInv, ClientsOK
    <3>3. next # 0 /\ next \in Nat
      BY DEF RInv, GraphOK
    <3> QED BY <1>2, <3>1, <3>2, <3>3 DEF RInv, OwnersOK
  <2> QED BY <1>1, <1>3, <2>1, <2>2, <2>3 DEF RInv
<1> QED BY <1>4, <1>5 DEF Client

(* A step that only erases a downward closed set and revises what it touched. *)
LEMMA ErasingPreserves ==
    ASSUME RInv, NEW D \in SUBSET LiveIn(current), ClosedDownward(current, D),
           NEW gone, \A k \in D : k \in gone,
           NEW compute, Revise(TouchedGroups(current, D), gone, compute),
           current' = Erased(current, D), next' = next
    PROVE  /\ GraphOK' /\ RevisionsOK'
           /\ LiveIn(current') = LiveIn(current) \ D
           /\ \A k \in LiveIn(current') : current'[k] = current[k]
<1>1. Sound(current', next') /\ LiveIn(current') = LiveIn(current) \ D
  BY ErasedIsSound DEF RInv, GraphOK
<1>2. \A k \in Keys : k \notin D => current'[k] = current[k]
  BY DEF Erased
<1>3. RevisionsOK'
  <2>1. /\ revision' \in [Keys -> Nat] /\ candidates' \in Nat
        /\ nextTopology' \in Nat \ {0}
        /\ \A k \in Keys : revision'[k] < nextTopology'
        /\ candidates' < nextTopology'
        /\ \A k \in Keys : revision'[k] # 0 =>
             k \notin gone /\ (k \in TouchedGroups(current, D) \/ revision[k] # 0)
    BY RevisePreserves DEF RInv, RevisionsOK
  <2>2. ASSUME NEW k \in Keys, revision'[k] # 0
        PROVE  current'[k].cls = "group"
    BY <1>2, <2>1, <2>2, TouchedAreGroups DEF RInv, RevisionsOK
  <2> QED BY <2>1, <2>2 DEF RevisionsOK
<1>4. \A k \in LiveIn(current') : current'[k] = current[k]
  BY <1>1, <1>2 DEF LiveIn
<1> QED BY <1>1, <1>3, <1>4 DEF RInv, GraphOK

(* allocate() keeps the invariant, in each of its three outcomes.             *)
LEMMA AllocatePreserves ==
    ASSUME RInv, NEW c \in Clients, NEW h \in Handles, NEW p \in Handles,
           NEW cls \in Classes, Allocate(c, h, p, cls)
    PROVE  RInv'
<1> DEFINE k == <<c, h>>
           old == Replaced(k)
           g == Erased(current, old)
           new == Inserted(g, k, p, cls)
<1>1. k \in Keys /\ k[1] = c
  BY DEF Keys
<1>2. EventsOK'
  BY RecordPreserves DEF RInv, Allocate
<1>3. CASE UNCHANGED <<current, clients, next>> /\ Unrevised
  BY <1>2, <1>3 DEF RInv, GraphOK, ClientsOK, OwnersOK, RevisionsOK, Unrevised
<1>4. /\ old \in SUBSET LiveIn(current) /\ ClosedDownward(current, old)
      /\ k \in LiveIn(current) => k \in old
  BY <1>1, ReplacedIsClosed
<1>5. CASE /\ current' = g
           /\ Revise(TouchedGroups(current, old), old, TouchesCompute(current, old))
           /\ UNCHANGED <<clients, next>>
  <2> HIDE DEF old, k
  <2>1. /\ GraphOK' /\ RevisionsOK' /\ LiveIn(current') = LiveIn(current) \ old
        /\ \A a \in LiveIn(current') : current'[a] = current[a]
    BY <1>4, <1>5, ErasingPreserves
  <2>2. ClientsOK' /\ OwnersOK'
    BY <1>5, <2>1 DEF RInv, ClientsOK, OwnersOK
  <2> QED BY <1>2, <2>1, <2>2 DEF RInv
<1>6. CASE /\ HasClient(c)
           /\ current' = new
           /\ next' = next + 1
           /\ Revise(TouchedGroups(current, old) \cup TouchedGroups(new, {k}), old,
                     TouchesCompute(current, old) \/ cls = "compute")
           /\ UNCHANGED clients
  <2> DEFINE touched == TouchedGroups(current, old) \cup TouchedGroups(new, {k})
             compute == TouchesCompute(current, old) \/ cls = "compute"
  <2>0. next \in Nat \ {0}
    BY DEF RInv, GraphOK
  <2>1. Sound(g, next) /\ LiveIn(g) = LiveIn(current) \ old
    BY <1>4, ErasedIsSound DEF RInv, GraphOK
  <2>2. k \in Keys \ LiveIn(g)
    BY <1>1, <1>4, <2>1
  <2>3. /\ Sound(new, next + 1) /\ LiveIn(new) = LiveIn(g) \cup {k}
        /\ \A a \in Keys \ {k} : new[a] = g[a]
        /\ new[k].gen = next
    <3> HIDE DEF g, k
    <3> QED BY <2>0, <2>1, <2>2, InsertedIsSound
  <2>4. \A a \in Keys : a \notin old => g[a] = current[a]
    BY DEF Erased
  <2>5. GraphOK'
    BY <1>6, <2>0, <2>3 DEF GraphOK
  <2>6. ClientsOK'
    BY <1>6, <2>0 DEF RInv, ClientsOK
  <2>7. OwnersOK'
    <3>1. \A a \in LiveIn(g) : a \in LiveIn(current) /\ a # k /\ a \in Keys /\ new[a] = current[a]
      BY <2>1, <2>2, <2>3, <2>4 DEF LiveIn
    <3>2. ASSUME NEW d \in Clients, NEW a \in LiveIn(current') PROVE clients[d].gen # current'[a].gen
      <4>1. CASE a = k
        BY <1>6, <2>0, <2>3, <4>1 DEF RInv, ClientsOK
      <4>2. CASE a # k
        BY <1>6, <2>3, <3>1, <4>2 DEF RInv, OwnersOK
      <4> QED BY <4>1, <4>2
    <3>3. ASSUME NEW a \in LiveIn(current') PROVE clients[a[1]].gen # 0
      <4>1. CASE a = k
        BY <1>1, <1>6, <4>1 DEF HasClient
      <4>2. CASE a # k
        BY <1>6, <2>3, <3>1, <4>2 DEF RInv, OwnersOK
      <4> QED BY <4>1, <4>2
    <3> QED BY <1>6, <3>2, <3>3 DEF OwnersOK
  <2>8. RevisionsOK'
    <3> HIDE DEF old, k, new, compute
    <3>1. /\ revision' \in [Keys -> Nat] /\ candidates' \in Nat
          /\ nextTopology' \in Nat \ {0}
          /\ \A a \in Keys : revision'[a] < nextTopology'
          /\ candidates' < nextTopology'
          /\ \A a \in Keys : revision'[a] # 0 =>
               a \notin old /\ (a \in touched \/ revision[a] # 0)
      <4>1. Revise(touched, old, compute)
        BY <1>6 DEF compute
      <4> HIDE DEF touched
      <4> QED BY <4>1, RevisePreserves DEF RInv, RevisionsOK
    <3>2. ASSUME NEW a \in Keys, revision'[a] # 0
          PROVE  current'[a].cls = "group"
      <4>1. CASE a \in TouchedGroups(new, {k})
        BY <1>6, <4>1, TouchedAreGroups
      <4>2. CASE a \notin TouchedGroups(new, {k})
        <5>1. a \notin old /\ current[a].cls = "group"
          BY <3>1, <3>2, <4>2, TouchedAreGroups DEF RInv, RevisionsOK
        <5>2. a \in LiveIn(current)
          BY <5>1 DEF LiveIn, RInv, GraphOK, Sound, WellTyped, NoClass
        <5>3. a # k
          BY <1>4, <5>1, <5>2
        <5> QED BY <1>6, <2>3, <2>4, <5>1, <5>3
      <4> QED BY <4>1, <4>2
    <3> QED BY <3>1, <3>2 DEF RevisionsOK
  <2> QED BY <1>2, <2>5, <2>6, <2>7, <2>8 DEF RInv
<1> QED BY <1>3, <1>5, <1>6 DEF Allocate

(* bind() keeps the invariant, the object known or not.                       *)
LEMMA BindPreserves ==
    ASSUME RInv, NEW c \in Clients, NEW h \in Handles, Bind(c, h)
    PROVE  RInv'
<1> DEFINE k == <<c, h>>
<1>1. k \in Keys
  BY DEF Keys
<1>2. EventsOK'
  BY RecordPreserves DEF RInv, Bind
<1>3. CASE UNCHANGED <<current, clients, next>> /\ Unrevised
  BY <1>2, <1>3 DEF RInv, GraphOK, ClientsOK, OwnersOK, RevisionsOK, Unrevised
<1>4. CASE /\ Live(k)
           /\ Revise(TouchedGroups(current, {k}), {}, TouchesCompute(current, {k}))
           /\ current' = Rebound(k)
           /\ next' = next + 1
           /\ UNCHANGED clients
  <2> HIDE DEF k
  <2>0. next \in Nat \ {0} /\ Sound(current, next)
    BY DEF RInv, GraphOK
  <2>1. k \in LiveIn(current)
    BY <1>1, <1>4 DEF Live, LiveIn
  <2>2. /\ Sound(current', next + 1)
        /\ LiveIn(current') = LiveIn(current)
        /\ \A a \in Keys : current'[a].cls = current[a].cls
        /\ current'[k].gen = next
        /\ \A a \in Keys \ {k} : current'[a].gen = current[a].gen
    BY <1>4, <2>0, <2>1, ReboundIsSound
  <2>3. GraphOK'
    BY <1>4, <2>0, <2>2 DEF GraphOK
  <2>4. ClientsOK'
    BY <1>4, <2>0 DEF RInv, ClientsOK
  <2>5. OwnersOK'
    <3>1. \A a \in LiveIn(current) : a \in Keys
      BY DEF LiveIn
    <3>2. \A d \in Clients : clients[d].gen # next
      BY <2>0 DEF RInv, ClientsOK
    <3> QED BY <1>4, <2>2, <3>1, <3>2 DEF RInv, OwnersOK
  <2>6. RevisionsOK'
    <3>1. /\ revision' \in [Keys -> Nat] /\ candidates' \in Nat
          /\ nextTopology' \in Nat \ {0}
          /\ \A a \in Keys : revision'[a] < nextTopology'
          /\ candidates' < nextTopology'
          /\ \A a \in Keys : revision'[a] # 0 =>
               a \notin {} /\ (a \in TouchedGroups(current, {k}) \/ revision[a] # 0)
      BY <1>4, RevisePreserves DEF RInv, RevisionsOK
    <3> QED BY <2>2, <3>1, TouchedAreGroups DEF RInv, RevisionsOK
  <2> QED BY <1>2, <2>3, <2>4, <2>5, <2>6 DEF RInv
<1> QED BY <1>3, <1>4 DEF Bind

(* free() of an object keeps the invariant.                                   *)
LEMMA FreeObjectPreserves ==
    ASSUME RInv, NEW c \in Clients, NEW h \in Handles, FreeObject(c, h)
    PROVE  RInv'
<1> DEFINE gone == Replaced(<<c, h>>)
<1>1. EventsOK'
  BY RecordPreserves DEF RInv, FreeObject
<1>2. gone \in SUBSET LiveIn(current) /\ ClosedDownward(current, gone)
  BY ReplacedIsClosed DEF Keys
<1>3. /\ current' = Erased(current, gone)
      /\ Revise(TouchedGroups(current, gone), gone, TouchesCompute(current, gone))
      /\ UNCHANGED <<clients, next>>
  BY DEF FreeObject
<1> HIDE DEF gone
<1>4. /\ GraphOK' /\ RevisionsOK' /\ LiveIn(current') = LiveIn(current) \ gone
      /\ \A a \in LiveIn(current') : current'[a] = current[a]
  BY <1>2, <1>3, ErasingPreserves
<1>5. ClientsOK' /\ OwnersOK'
  BY <1>3, <1>4 DEF RInv, ClientsOK, OwnersOK
<1> QED BY <1>1, <1>4, <1>5 DEF RInv

(* free() of a client keeps the invariant: nothing it owned is left.          *)
LEMMA FreeClientPreserves ==
    ASSUME RInv, NEW c \in Clients, FreeClient(c)
    PROVE  RInv'
<1> DEFINE gone == {k \in LiveIn(current) : k[1] = c}
           mine == {k \in Keys : k[1] = c}
<1>1. EventsOK'
  BY RecordPreserves DEF RInv, FreeClient
<1>2. /\ gone \in SUBSET LiveIn(current) /\ ClosedDownward(current, gone)
      /\ \A k \in gone : k \in mine
  BY OwnedIsClosed DEF LiveIn
<1>3. /\ current' = Erased(current, gone)
      /\ Revise(TouchedGroups(current, gone), mine, TouchesCompute(current, gone))
      /\ clients' = [clients EXCEPT ![c] = [fd |-> NoFd, gen |-> 0]]
      /\ next' = next
  BY DEF FreeClient
<1>4. \A k \in LiveIn(current) \ gone : k[1] # c /\ k[1] \in Clients
  BY DEF LiveIn, Keys
<1> HIDE DEF gone, mine
<1>5. /\ GraphOK' /\ RevisionsOK' /\ LiveIn(current') = LiveIn(current) \ gone
      /\ \A a \in LiveIn(current') : current'[a] = current[a]
  BY <1>2, <1>3, ErasingPreserves
<1>6. ClientsOK'
  BY <1>3 DEF RInv, ClientsOK, GraphOK, NoFd
<1>7. OwnersOK'
  BY <1>3, <1>4, <1>5 DEF RInv, OwnersOK, ClientsOK, LiveIn
<1> QED BY <1>1, <1>5, <1>6, <1>7 DEF RInv

(* Declaring the capture incomplete disturbs nothing else.                    *)
LEMMA IncompletePreserves ==
    ASSUME RInv, Incomplete
    PROVE  RInv'
<1>1. EventsOK'
  BY RecordPreserves DEF RInv, Incomplete
<1> QED BY <1>1 DEF RInv, Incomplete, GraphOK, ClientsOK, OwnersOK, RevisionsOK, Unrevised

(* Every operation, and a stutter, keeps the invariant.                       *)
LEMMA NextPreserves == RInv /\ [Next]_registryVars => RInv'
<1> SUFFICES ASSUME RInv, [Next]_registryVars PROVE RInv'
  OBVIOUS
<1>1. CASE UNCHANGED registryVars
  <2>1. EventsOK'
    BY <1>1, RecordPreserves DEF RInv, registryVars
  <2> QED BY <1>1, <2>1 DEF registryVars, RInv, GraphOK, ClientsOK, OwnersOK, RevisionsOK
<1>2. ASSUME NEW c \in Clients, NEW fd \in Fds \cup {NoFd}, Client(c, fd) PROVE RInv'
  BY <1>2, ClientPreserves
<1>3. ASSUME NEW c \in Clients, NEW shape \in AllocShapes,
             Allocate(c, shape[1], shape[2], shape[3])
      PROVE  RInv'
  <2>1. shape[1] \in Handles /\ shape[2] \in Handles /\ shape[3] \in Classes
    BY RegistryAssumption DEF RegistryAssumption
  <2> QED BY <1>3, <2>1, AllocatePreserves
<1>4. ASSUME NEW c \in Clients, NEW h \in Handles, Bind(c, h) PROVE RInv'
  BY <1>4, BindPreserves
<1>5. ASSUME NEW c \in Clients, NEW h \in Handles, FreeObject(c, h) PROVE RInv'
  BY <1>5, FreeObjectPreserves
<1>6. ASSUME NEW c \in Clients, FreeClient(c) PROVE RInv'
  BY <1>6, FreeClientPreserves
<1>7. CASE Incomplete
  BY <1>7, IncompletePreserves
<1> QED BY <1>1, <1>2, <1>3, <1>4, <1>5, <1>6, <1>7 DEF Next

-----------------------------------------------------------------------------
(* Whatever events the hook feeds it, in any order, the registry keeps its    *)
(* counters ahead of what it handed out, descriptors and generations of a     *)
(* client together, and revisions only on current groups.                     *)
THEOREM TypeCorrect == Spec => []TypeOK
<1>1. RInv => TypeOK
  BY InvariantParts
<1> QED BY <1>1, InitEstablishes, NextPreserves, PTL DEF Spec

(* Whatever the events, no parent token names a dead object or an earlier     *)
(* life of a handle, a generation identifies one life of one object or        *)
(* client, ancestry has no cycle, so the worklist of erase_tree ends, and     *)
(* every current node belongs to a client whose descriptor is retained.       *)
THEOREM GraphStaysSound == Spec => []GraphSound
<1>1. RInv => GraphSound
  BY InvariantParts DEF GraphSound
<1> QED BY <1>1, InitEstablishes, NextPreserves, PTL DEF Spec

-----------------------------------------------------------------------------
(* Kept bindings.                                                             *)
Moved(k) == current'[k] # current[k]

ComputeThen(k) == current[k].cls = "compute" \/ current'[k].cls = "compute"

MemberThen(k, grp) == IsGroupMember(current, k, grp) \/ IsGroupMember(current', k, grp)

\* The parent of k has been bound.
ParentRebound(k) ==
    /\ ChildOf(current, k, ParentKey(current, k))
    /\ current'[ParentKey(current, k)].gen = next
    /\ current'[k] = [current[k] EXCEPT !.pgen = next]

Fate(k) ==
    \/ ~ Moved(k)
    \/ current'[k].gen = 0 /\ Live(k)
    \/ current'[k].gen = next
    \/ ParentRebound(k)

GroupEffects(grp) ==
    /\ revision'[grp] \in {revision[grp], nextTopology}
    /\ revision'[grp] # nextTopology => \A k \in Keys : Moved(k) => ~ MemberThen(k, grp)
    /\ revision'[grp] = nextTopology =>
          \E k \in Keys : Moved(k) /\ (ComputeThen(k) \/ MemberThen(k, grp))

GraphEffects ==
    /\ next' \in {next, next + 1}
    /\ nextTopology' \in {nextTopology, nextTopology + 1}
    /\ candidates' \in {candidates, nextTopology}
    /\ \A k \in Keys : Fate(k)
    /\ candidates' # nextTopology =>
          \A k \in Keys : Moved(k) /\ ComputeThen(k) => ParentRebound(k)
    /\ candidates' = nextTopology => \E k \in Keys : Moved(k) /\ ComputeThen(k)
    /\ \A grp \in Keys : Live(grp) /\ ~ Moved(grp) => GroupEffects(grp)

ClientEffects ==
    \A c \in Clients : clients'[c] # clients[c] => clients'[c].gen \in {0, next}

-----------------------------------------------------------------------------
(* The events by what they do to the graph: nothing, an erasure, an insertion *)
(* or a bind.                                                                 *)
LEMMA QuietEffects ==
    ASSUME RInv, UNCHANGED current, Unrevised, next' \in {next, next + 1}
    PROVE  GraphEffects
<1>1. \A k \in Keys : ~ Moved(k)
  BY DEF Moved
<1>2. candidates' # nextTopology /\ \A k \in Keys : revision'[k] # nextTopology
  <2>1. candidates < nextTopology /\ candidates \in Nat /\ nextTopology \in Nat
    BY DEF RInv, RevisionsOK
  <2>2. \A k \in Keys : revision[k] < nextTopology /\ revision[k] \in Nat
    BY DEF RInv, RevisionsOK
  <2> QED BY <2>1, <2>2 DEF Unrevised
<1>3. /\ candidates' = candidates /\ nextTopology' = nextTopology
      /\ revision' = revision
  BY DEF Unrevised
<1> QED BY <1>1, <1>2, <1>3 DEF GraphEffects, Fate, GroupEffects

LEMMA RevisionTypes ==
    ASSUME RInv
    PROVE  /\ next \in Nat \ {0} /\ nextTopology \in Nat \ {0}
           /\ candidates \in Nat /\ candidates < nextTopology
           /\ \A k \in Keys : /\ revision[k] \in Nat /\ revision[k] < nextTopology
                              /\ current[k] \in Node /\ current[k].gen \in Nat
                              /\ current[k].pgen \in Nat
                              /\ current[k].gen < next /\ current[k].pgen < next
                              /\ Live(k) <=> current[k].cls # NoClass
BY DEF RInv, RevisionsOK, GraphOK, Sound, WellTyped, Node, Live

(* A touched group is one with a member among the touched nodes, or with a    *)
(* compute object among them.                                                 *)
LEMMA TouchedBy ==
    ASSUME NEW g, NEW T, NEW grp \in Keys
    PROVE  /\ grp \in TouchedGroups(g, T) =>
                \E k \in T : g[k].cls = "compute" \/ IsGroupMember(g, k, grp)
           /\ \A k \in T : IsGroupMember(g, k, grp) => grp \in TouchedGroups(g, T)
<1>1. ASSUME NEW k \in T, IsGroupMember(g, k, grp) PROVE grp \in TouchedGroups(g, T)
  BY <1>1 DEF TouchedGroups, IsGroupMember
<1>2. ASSUME grp \in TouchedGroups(g, T)
      PROVE  \E k \in T : g[k].cls = "compute" \/ IsGroupMember(g, k, grp)
  BY <1>2 DEF TouchedGroups
<1> QED BY <1>1, <1>2

LEMMA EraseEffects ==
    ASSUME RInv, NEW D \in SUBSET LiveIn(current), NEW gone,
           \A k \in D : k \in gone, \A k \in Keys : Live(k) /\ k \in gone => k \in D,
           current' = Erased(current, D), next' = next,
           Revise(TouchedGroups(current, D), gone, TouchesCompute(current, D))
    PROVE  GraphEffects
<1> DEFINE touched == TouchedGroups(current, D)
<1>1. \A k \in Keys : /\ k \in D => /\ current'[k].gen = 0 /\ Live(k) /\ Moved(k)
                                    /\ current'[k].cls = NoClass
                      /\ k \notin D => ~ Moved(k)
  <2> SUFFICES ASSUME NEW k \in Keys
               PROVE  /\ k \in D => /\ current'[k].gen = 0 /\ Live(k) /\ Moved(k)
                                    /\ current'[k].cls = NoClass
                      /\ k \notin D => ~ Moved(k)
    OBVIOUS
  <2>1. current'[k] = IF k \in D THEN NoNode(k) ELSE current[k]
    BY DEF Erased
  <2>2. NoNode(k).gen = 0 /\ NoNode(k).cls = NoClass
    BY DEF NoNode
  <2>3. k \in D => current[k].gen # 0
    BY DEF LiveIn
  <2> QED BY <2>1, <2>2, <2>3 DEF Live, Moved
<1>2. \A k \in Keys : Fate(k)
  BY <1>1 DEF Fate
<1>3. \A k \in Keys : Moved(k) => (ComputeThen(k) <=> current[k].cls = "compute")
  BY <1>1 DEF ComputeThen, NoClass
<1>4. candidates' # nextTopology => \A k \in Keys : Moved(k) => ~ ComputeThen(k)
  BY <1>1, <1>3 DEF Revise, TouchesCompute
<1>5. candidates' = nextTopology => \E k \in Keys : Moved(k) /\ ComputeThen(k)
  <2>1. candidates' = nextTopology => TouchesCompute(current, D)
    BY RevisionTypes DEF Revise
  <2> QED BY <1>1, <1>3, <2>1 DEF TouchesCompute, LiveIn
<1>6. ASSUME NEW grp \in Keys, Live(grp), ~ Moved(grp) PROVE GroupEffects(grp)
  <2>1. grp \notin gone
    BY <1>1, <1>6
  <2>2. revision'[grp] = IF grp \in touched THEN nextTopology ELSE revision[grp]
    BY <2>1 DEF Revise
  <2>3. revision[grp] # nextTopology
    BY RevisionTypes
  <2>4. ASSUME grp \in touched
        PROVE  \E k \in Keys : Moved(k) /\ (ComputeThen(k) \/ MemberThen(k, grp))
    <3>1. PICK k \in D : current[k].cls = "compute" \/ IsGroupMember(current, k, grp)
      BY <2>4, TouchedBy
    <3> QED BY <1>1, <3>1 DEF LiveIn, ComputeThen, MemberThen
  <2>5. ASSUME NEW k \in Keys, Moved(k), MemberThen(k, grp) PROVE grp \in touched
    <3>1. k \in D /\ ~ IsGroupMember(current', k, grp)
      BY <1>1, <2>5 DEF IsGroupMember, NoClass
    <3> QED BY <2>5, <3>1, TouchedBy DEF MemberThen
  <2> QED BY <2>2, <2>3, <2>4, <2>5 DEF GroupEffects
<1>7. /\ nextTopology' \in {nextTopology, nextTopology + 1}
      /\ candidates' \in {candidates, nextTopology}
  BY DEF Revise
<1> QED BY <1>2, <1>4, <1>5, <1>6, <1>7 DEF GraphEffects

LEMMA InsertEffects ==
    ASSUME RInv, NEW k \in Keys, NEW p \in Handles, NEW cls \in Classes,
           NEW D \in SUBSET LiveIn(current), k \in LiveIn(current) => k \in D,
           current' = Inserted(Erased(current, D), k, p, cls), next' = next + 1,
           Revise(TouchedGroups(current, D) \cup TouchedGroups(current', {k}), D,
                  TouchesCompute(current, D) \/ cls = "compute")
    PROVE  GraphEffects
<1> DEFINE touched == TouchedGroups(current, D) \cup TouchedGroups(current', {k})
<1>1. current'[k].gen = next /\ current'[k].cls = cls /\ Moved(k)
  <2>1. current'[k].gen = next /\ current'[k].cls = cls
    BY DEF Inserted, Erased
  <2> QED BY <2>1, RevisionTypes DEF Moved
<1>2. \A a \in Keys \ {k} : /\ a \in D => /\ current'[a].gen = 0 /\ Live(a) /\ Moved(a)
                                          /\ current'[a].cls = NoClass
                            /\ a \notin D => ~ Moved(a)
  <2> SUFFICES ASSUME NEW a \in Keys \ {k}
               PROVE  /\ a \in D => /\ current'[a].gen = 0 /\ Live(a) /\ Moved(a)
                                    /\ current'[a].cls = NoClass
                      /\ a \notin D => ~ Moved(a)
    OBVIOUS
  <2>1. current'[a] = IF a \in D THEN NoNode(a) ELSE current[a]
    BY DEF Inserted, Erased
  <2>2. NoNode(a).gen = 0 /\ NoNode(a).cls = NoClass
    BY DEF NoNode
  <2>3. a \in D => current[a].gen # 0
    BY DEF LiveIn
  <2> QED BY <2>1, <2>2, <2>3 DEF Live, Moved
<1>3. \A a \in Keys : Fate(a)
  BY <1>1, <1>2 DEF Fate
<1>4. current[k].cls \in {"compute", "channel"} => k \in D
  BY RevisionTypes DEF Live, LiveIn, NoClass
<1>5. ASSUME NEW a \in Keys, Moved(a), ComputeThen(a)
      PROVE  TouchesCompute(current, D) \/ cls = "compute"
  <2>1. CASE a = k
    BY <1>1, <1>4, <1>5, <2>1 DEF ComputeThen, TouchesCompute
  <2>2. CASE a # k
    BY <1>2, <1>5, <2>2 DEF ComputeThen, TouchesCompute, NoClass
  <2> QED BY <2>1, <2>2
<1>6. ASSUME TouchesCompute(current, D) \/ cls = "compute"
      PROVE  \E a \in Keys : Moved(a) /\ ComputeThen(a)
  <2>1. CASE cls = "compute"
    BY <1>1, <2>1 DEF ComputeThen
  <2>2. ASSUME NEW a \in D, current[a].cls = "compute"
        PROVE  a \in Keys /\ Moved(a) /\ ComputeThen(a)
    BY <1>1, <1>2, <2>2 DEF ComputeThen, LiveIn
  <2> QED BY <1>6, <2>1, <2>2 DEF TouchesCompute
<1>7. ASSUME NEW grp \in Keys, Live(grp), ~ Moved(grp) PROVE GroupEffects(grp)
  <2>1. grp \notin D
    BY <1>1, <1>2, <1>7
  <2>2. revision'[grp] = IF grp \in touched THEN nextTopology ELSE revision[grp]
    BY <2>1 DEF Revise
  <2>3. revision[grp] # nextTopology
    BY RevisionTypes
  <2>4. ASSUME grp \in touched
        PROVE  \E a \in Keys : Moved(a) /\ (ComputeThen(a) \/ MemberThen(a, grp))
    <3>1. CASE grp \in TouchedGroups(current, D)
      <4>1. PICK a \in D : current[a].cls = "compute" \/ IsGroupMember(current, a, grp)
        BY <3>1, TouchedBy
      <4> QED BY <1>1, <1>2, <4>1 DEF LiveIn, ComputeThen, MemberThen
    <3>2. CASE grp \in TouchedGroups(current', {k})
      <4>1. current'[k].cls = "compute" \/ IsGroupMember(current', k, grp)
        BY <3>2, TouchedBy
      <4> QED BY <1>1, <4>1 DEF ComputeThen, MemberThen
    <3> QED BY <2>4, <3>1, <3>2
  <2>5. ASSUME NEW a \in Keys, Moved(a), MemberThen(a, grp) PROVE grp \in touched
    <3>1. CASE IsGroupMember(current, a, grp)
      <4>1. a \in D
        BY <1>2, <1>4, <2>5, <3>1 DEF IsGroupMember
      <4> QED BY <3>1, <4>1, TouchedBy
    <3>2. CASE IsGroupMember(current', a, grp)
      <4>1. a = k
        BY <1>2, <2>5, <3>2 DEF IsGroupMember, NoClass
      <4> QED BY <3>2, <4>1, TouchedBy
    <3> QED BY <2>5, <3>1, <3>2 DEF MemberThen
  <2> QED BY <2>2, <2>3, <2>4, <2>5 DEF GroupEffects
<1>8. /\ nextTopology' \in {nextTopology, nextTopology + 1}
      /\ candidates' = IF TouchesCompute(current, D) \/ cls = "compute"
                       THEN nextTopology ELSE candidates
  BY DEF Revise
<1>9. candidates # nextTopology
  BY RevisionTypes
<1> QED BY <1>3, <1>5, <1>6, <1>7, <1>8, <1>9 DEF GraphEffects

LEMMA BindEffects ==
    ASSUME RInv, NEW k \in Keys, Live(k), current' = Rebound(k), next' = next + 1,
           Revise(TouchedGroups(current, {k}), {}, TouchesCompute(current, {k}))
    PROVE  GraphEffects
<1>1. \A a \in Keys : current[a] \in Node /\ current[a].gen < next
  BY RevisionTypes
<1>2. /\ current'[k] = [current[k] EXCEPT !.gen = next]
      /\ \A a \in Keys \ {k} :
            current'[a] = IF ChildOf(current, a, k) THEN [current[a] EXCEPT !.pgen = next]
                          ELSE current[a]
  BY DEF Rebound
<1>3. current'[k].gen = next /\ current'[k].cls = current[k].cls
      /\ current'[k].parent = current[k].parent /\ current'[k].pgen = current[k].pgen
      /\ Moved(k)
  BY <1>1, <1>2 DEF Node, Moved
<1>4. ASSUME NEW a \in Keys \ {k}, Moved(a)
      PROVE  /\ k = ParentKey(current, a) /\ ParentRebound(a)
             /\ current'[a].cls = current[a].cls
             /\ ParentKey(current', a) = k
  <2>1. ChildOf(current, a, k) /\ current'[a] = [current[a] EXCEPT !.pgen = next]
    BY <1>2, <1>4 DEF Moved
  <2>2. k = ParentKey(current, a)
    BY <2>1 DEF ChildOf
  <2>3. current'[a].cls = current[a].cls /\ current'[a].parent = current[a].parent
    BY <1>1, <2>1 DEF Node
  <2>4. ParentRebound(a)
    BY <1>3, <2>1, <2>2 DEF ParentRebound
  <2> QED BY <2>2, <2>3, <2>4 DEF ParentKey
<1>5. \A a \in Keys : Fate(a)
  BY <1>3, <1>4 DEF Fate
<1>6. candidates' = IF current[k].cls = "compute" THEN nextTopology ELSE candidates
  BY DEF Revise, TouchesCompute
<1>7. candidates # nextTopology
  BY RevisionTypes
<1>8. ASSUME NEW a \in Keys, Moved(a), ComputeThen(a), candidates' # nextTopology
      PROVE  ParentRebound(a)
  BY <1>3, <1>4, <1>6, <1>8 DEF ComputeThen
<1>9. candidates' = nextTopology => Moved(k) /\ ComputeThen(k)
  BY <1>3, <1>6, <1>7 DEF ComputeThen
<1>10. ASSUME NEW grp \in Keys, Live(grp), ~ Moved(grp) PROVE GroupEffects(grp)
  <2>1. grp # k
    BY <1>3, <1>10
  <2>2. revision'[grp] = IF grp \in TouchedGroups(current, {k}) THEN nextTopology
                         ELSE revision[grp]
    BY DEF Revise
  <2>3. revision[grp] # nextTopology
    BY RevisionTypes
  <2>4. grp \in TouchedGroups(current, {k}) => ComputeThen(k) \/ MemberThen(k, grp)
    BY TouchedBy DEF ComputeThen, MemberThen
  <2>5. ASSUME NEW a \in Keys, Moved(a), MemberThen(a, grp)
        PROVE  grp \in TouchedGroups(current, {k})
    <3>1. a = k
      BY <1>4, <2>1, <2>5 DEF MemberThen, IsGroupMember, ChildOf
    <3>2. IsGroupMember(current, k, grp)
      <4>1. CASE IsGroupMember(current', k, grp)
        <5>1. current'[grp] = current[grp]
          BY <1>10 DEF Moved
        <5> QED BY <1>3, <4>1, <5>1 DEF IsGroupMember, ChildOf, ParentKey, Live
      <4> QED BY <2>5, <3>1, <4>1 DEF MemberThen
    <3> QED BY <3>2, TouchedBy
  <2> QED BY <1>3, <2>2, <2>3, <2>4, <2>5 DEF GroupEffects
<1>11. nextTopology' \in {nextTopology, nextTopology + 1}
  BY DEF Revise
<1> QED BY <1>3, <1>5, <1>6, <1>8, <1>9, <1>10, <1>11 DEF GraphEffects

LEMMA AllocateEffects ==
    ASSUME RInv, NEW c \in Clients, NEW h \in Handles, NEW p \in Handles,
           NEW cls \in Classes, Allocate(c, h, p, cls)
    PROVE  GraphEffects
<1> DEFINE k == <<c, h>>
           old == Replaced(k)
<1>1. k \in Keys
  BY DEF Keys
<1>2. old \in SUBSET LiveIn(current) /\ (k \in LiveIn(current) => k \in old)
  BY <1>1, ReplacedIsClosed
<1>3. CASE UNCHANGED <<current, clients, next>> /\ Unrevised
  BY <1>3, QuietEffects
<1>4. CASE /\ current' = Erased(current, old)
           /\ Revise(TouchedGroups(current, old), old, TouchesCompute(current, old))
           /\ UNCHANGED <<clients, next>>
  <2> HIDE DEF old
  <2> QED BY <1>2, <1>4, EraseEffects
<1>5. CASE /\ current' = Inserted(Erased(current, old), k, p, cls)
           /\ next' = next + 1
           /\ Revise(TouchedGroups(current, old) \cup TouchedGroups(current', {k}), old,
                     TouchesCompute(current, old) \/ cls = "compute")
  <2> HIDE DEF old, k
  <2> QED BY <1>1, <1>2, <1>5, InsertEffects
<1>6. \/ UNCHANGED <<current, clients, next>> /\ Unrevised
      \/ /\ current' = Erased(current, old)
         /\ Revise(TouchedGroups(current, old), old, TouchesCompute(current, old))
         /\ UNCHANGED <<clients, next>>
      \/ /\ current' = Inserted(Erased(current, old), k, p, cls)
         /\ next' = next + 1
         /\ Revise(TouchedGroups(current, old)
                     \cup TouchedGroups(Inserted(Erased(current, old), k, p, cls), {k}),
                   old,
                   TouchesCompute(current, old) \/ cls = "compute")
  BY DEF Allocate
<1> QED BY <1>3, <1>4, <1>5, <1>6

LEMMA NextEffects == ASSUME RInv, Next PROVE GraphEffects /\ ClientEffects
<1>1. ASSUME NEW c \in Clients, NEW fd \in Fds \cup {NoFd}, Client(c, fd)
      PROVE  GraphEffects /\ ClientEffects
  <2>1. GraphEffects
    BY <1>1, QuietEffects DEF Client
  <2>2. \/ UNCHANGED clients
        \/ clients' = [clients EXCEPT ![c] = [fd |-> fd, gen |-> next]]
    BY <1>1 DEF Client
  <2>3. clients \in [Clients -> [fd : Fds \cup {NoFd}, gen : Nat]]
    BY DEF RInv, ClientsOK
  <2> QED BY <2>1, <2>2, <2>3 DEF ClientEffects
<1>2. ASSUME NEW c \in Clients, NEW shape \in AllocShapes,
             Allocate(c, shape[1], shape[2], shape[3])
      PROVE  GraphEffects /\ ClientEffects
  <2>1. shape[1] \in Handles /\ shape[2] \in Handles /\ shape[3] \in Classes
    BY RegistryAssumption DEF RegistryAssumption
  <2>2. UNCHANGED clients
    BY <1>2 DEF Allocate
  <2> QED BY <1>2, <2>1, <2>2, AllocateEffects DEF ClientEffects
<1>3. ASSUME NEW c \in Clients, NEW h \in Handles, Bind(c, h)
      PROVE  GraphEffects /\ ClientEffects
  <2>1. UNCHANGED clients /\ <<c, h>> \in Keys
    BY <1>3 DEF Bind, Keys
  <2>2. CASE Live(<<c, h>>)
    <3>1. /\ current' = Rebound(<<c, h>>) /\ next' = next + 1
          /\ Revise(TouchedGroups(current, {<<c, h>>}), {},
                    TouchesCompute(current, {<<c, h>>}))
      BY <1>3, <2>2 DEF Bind
    <3>2. GraphEffects
      BY <2>1, <2>2, <3>1, BindEffects
    <3> QED BY <2>1, <3>2 DEF ClientEffects
  <2>3. CASE ~ Live(<<c, h>>)
    <3>1. UNCHANGED current /\ Unrevised /\ next' = next
      BY <1>3, <2>3 DEF Bind
    <3> QED BY <2>1, <3>1, QuietEffects DEF ClientEffects
  <2> QED BY <2>2, <2>3
<1>4. ASSUME NEW c \in Clients, NEW h \in Handles, FreeObject(c, h)
      PROVE  GraphEffects /\ ClientEffects
  <2> DEFINE gone == Replaced(<<c, h>>)
  <2>1. gone \in SUBSET LiveIn(current)
    BY ReplacedIsClosed DEF Keys
  <2>2. /\ current' = Erased(current, gone) /\ next' = next /\ UNCHANGED clients
        /\ Revise(TouchedGroups(current, gone), gone, TouchesCompute(current, gone))
    BY <1>4 DEF FreeObject
  <2> HIDE DEF gone
  <2>3. GraphEffects
    BY <2>1, <2>2, EraseEffects
  <2> QED BY <2>2, <2>3 DEF ClientEffects
<1>5. ASSUME NEW c \in Clients, FreeClient(c)
      PROVE  GraphEffects /\ ClientEffects
  <2> DEFINE gone == {k \in LiveIn(current) : k[1] = c}
             mine == {k \in Keys : k[1] = c}
  <2>1. /\ gone \in SUBSET LiveIn(current) /\ \A k \in gone : k \in mine
        /\ \A k \in Keys : Live(k) /\ k \in mine => k \in gone
    BY DEF LiveIn, Live
  <2>2. /\ current' = Erased(current, gone) /\ next' = next
        /\ Revise(TouchedGroups(current, gone), mine, TouchesCompute(current, gone))
        /\ clients' = [clients EXCEPT ![c] = [fd |-> NoFd, gen |-> 0]]
    BY <1>5 DEF FreeClient
  <2> HIDE DEF gone, mine
  <2>3. GraphEffects
    BY <2>1, <2>2, EraseEffects
  <2>4. clients \in [Clients -> [fd : Fds \cup {NoFd}, gen : Nat]]
    BY DEF RInv, ClientsOK
  <2> QED BY <2>2, <2>3, <2>4 DEF ClientEffects
<1>6. CASE Incomplete
  <2>1. UNCHANGED <<current, clients, next>> /\ Unrevised
    BY <1>6 DEF Incomplete
  <2> QED BY <2>1, QuietEffects DEF ClientEffects
<1> QED BY <1>1, <1>2, <1>3, <1>4, <1>5, <1>6 DEF Next

-----------------------------------------------------------------------------
(* What a snapshot says of the members, as a function of the graph.           *)
MembersIn(g, grp) == {ch \in Keys : g[ch].cls = "channel" /\ ChildOf(g, ch, grp)}

ObjectsIn(g, ch) == {e \in Keys : g[e].cls = "compute" /\ ChildOf(g, e, ch)}

Roster(g, grp) ==
    {<<<<ch, g[ch]>>, {<<e, g[e]>> : e \in ObjectsIn(g, ch)}>> : ch \in MembersIn(g, grp)}

HasObject(g, grp) == \E ch \in MembersIn(g, grp) : ObjectsIn(g, ch) # {}

\* Every compute object of the process belongs to the group.
AllAttached(g, grp) ==
    \A e \in Keys : g[e].cls = "compute" =>
        ParentKey(g, e) \in MembersIn(g, grp) /\ ChildOf(g, e, ParentKey(g, e))

LEMMA RosterFramed ==
    ASSUME NEW g, NEW h, NEW grp \in Keys, g[grp].cls = "group", h[grp] = g[grp],
           \A k \in Keys : \/ g[k].cls = "compute" \/ h[k].cls = "compute"
                           \/ IsGroupMember(g, k, grp) \/ IsGroupMember(h, k, grp)
                           => h[k] = g[k]
    PROVE  /\ Roster(h, grp) = Roster(g, grp)
           /\ HasObject(g, grp) => HasObject(h, grp)
           /\ AllAttached(g, grp) => AllAttached(h, grp)
<1>1. ASSUME NEW ch \in Keys
      PROVE  /\ ch \in MembersIn(h, grp) <=> ch \in MembersIn(g, grp)
             /\ ch \in MembersIn(g, grp) => h[ch] = g[ch]
  <2>1. \/ ch \in MembersIn(h, grp) \/ ch \in MembersIn(g, grp) => h[ch] = g[ch]
    BY DEF MembersIn, IsGroupMember
  <2> QED BY <2>1 DEF MembersIn, ChildOf, ParentKey
<1>2. MembersIn(h, grp) = MembersIn(g, grp)
  BY <1>1 DEF MembersIn
<1>3. ASSUME NEW ch \in MembersIn(g, grp)
      PROVE  /\ h[ch] = g[ch] /\ ObjectsIn(h, ch) = ObjectsIn(g, ch)
             /\ \A e \in ObjectsIn(g, ch) : h[e] = g[e]
  <2>1. h[ch] = g[ch]
    BY <1>1, <1>3 DEF MembersIn
  <2>2. \A e \in Keys : g[e].cls = "compute" \/ h[e].cls = "compute" => h[e] = g[e]
    OBVIOUS
  <2> QED BY <2>1, <2>2 DEF ObjectsIn, ChildOf, ParentKey
<1>4. \A ch \in MembersIn(g, grp) :
        {<<e, h[e]>> : e \in ObjectsIn(h, ch)} = {<<e, g[e]>> : e \in ObjectsIn(g, ch)}
  BY <1>3
<1>5. Roster(h, grp) = Roster(g, grp)
  BY <1>2, <1>3, <1>4 DEF Roster
<1>6. HasObject(g, grp) => HasObject(h, grp)
  BY <1>2, <1>3 DEF HasObject
<1>7. ASSUME AllAttached(g, grp), NEW e \in Keys, h[e].cls = "compute"
      PROVE  ParentKey(h, e) \in MembersIn(h, grp) /\ ChildOf(h, e, ParentKey(h, e))
  <2>1. h[e] = g[e]
    BY <1>7
  <2>2. /\ ParentKey(h, e) = ParentKey(g, e)
        /\ ParentKey(g, e) \in MembersIn(g, grp) /\ ChildOf(g, e, ParentKey(g, e))
    BY <1>7, <2>1 DEF AllAttached, ParentKey
  <2>3. h[ParentKey(g, e)] = g[ParentKey(g, e)]
    BY <1>3, <2>2
  <2> QED BY <1>2, <2>1, <2>2, <2>3 DEF ChildOf, ParentKey
<1> QED BY <1>5, <1>6, <1>7 DEF AllAttached

-----------------------------------------------------------------------------
Described == {group.group, group.device} \cup group.subdevices

(* What a snapshot holds by its making, and keeps while the registry goes on: *)
(* every number in it was handed out by its counter.                          *)
Recorded ==
    /\ group.client \in Clients
    /\ group.owner.gen \in Nat \ {0} /\ group.owner.gen < next
    /\ group.revision \in Nat /\ group.revision < nextTopology
    /\ group.candidates \in Nat /\ group.candidates < nextTopology
    /\ \A s \in Described : /\ s[1] \in Keys
                            /\ s[2].gen \in Nat \ {0} /\ s[2].gen < next
                            /\ s[2].pgen \in Nat /\ s[2].pgen < next

Lost(s) == current[s[1]].gen # s[2].gen \/ current[s[1]].pgen > s[2].pgen

(* Something the snapshot describes has changed: a number has moved past it.  *)
Superseded ==
    \/ candidates > group.candidates
    \/ revision[GroupKey] > group.revision
    \/ clients[group.client] # group.owner
    \/ \E s \in Described : Lost(s)

(* Nothing it describes has changed: it is what the registry holds, but for   *)
(* subdevices it does not know of.                                            *)
Fresh ==
    /\ GroupKey \in Keys /\ Live(GroupKey) /\ current[GroupKey].cls = "group"
    /\ Device(GroupKey) \in Keys /\ UnderDevice(GroupKey)
    /\ group = [client     |-> GroupKey[1],
                owner      |-> clients[GroupKey[1]],
                revision   |-> revision[GroupKey],
                candidates |-> candidates,
                device     |-> <<Device(GroupKey), current[Device(GroupKey)]>>,
                subdevices |-> group.subdevices,
                group      |-> <<GroupKey, current[GroupKey]>>,
                members    |-> Roster(current, GroupKey)]
    /\ group.subdevices # {}
    /\ \A s \in group.subdevices :
         s = <<s[1], current[s[1]]>> /\ s[1] \in Subdevices(Device(GroupKey))
    /\ HasObject(current, GroupKey)
    /\ AllAttached(current, GroupKey)

LEMMA RecordedStays ==
    ASSUME RInv, Next, Recorded, UNCHANGED group
    PROVE  Recorded'
<1>1. /\ next \in Nat /\ nextTopology \in Nat
      /\ next' \in {next, next + 1} /\ nextTopology' \in {nextTopology, nextTopology + 1}
  BY NextEffects, RevisionTypes DEF GraphEffects
<1> QED BY <1>1 DEF Recorded, Described

(* An object a snapshot describes and that moves is lost, and stays lost.     *)
LEMMA MovedIsLost ==
    ASSUME RInv, Next, Recorded, UNCHANGED group, NEW s \in Described
    PROVE  /\ s[2] = current[s[1]] /\ Moved(s[1]) => Lost(s)'
           /\ Lost(s) => Lost(s)'
<1> DEFINE k == s[1]
<1>1. /\ k \in Keys /\ s[2].gen \in Nat \ {0} /\ s[2].gen < next
      /\ s[2].pgen \in Nat /\ s[2].pgen < next
  BY DEF Recorded
<1>2. current[k] \in Node /\ next \in Nat
  BY <1>1, RevisionTypes
<1>3. Fate(k)
  BY <1>1, NextEffects DEF GraphEffects
<1>4. Lost(s)' <=> current'[k].gen # s[2].gen \/ current'[k].pgen > s[2].pgen
  BY DEF Lost
<1>5. CASE current'[k].gen = 0 \/ current'[k].gen = next
  BY <1>1, <1>4, <1>5
<1>6. CASE ParentRebound(k)
  <2>1. current'[k].pgen = next
    BY <1>2, <1>6 DEF ParentRebound, Node
  <2> QED BY <1>1, <1>2, <1>4, <2>1
<1>7. CASE ~ Moved(k)
  BY <1>4, <1>7 DEF Moved, Lost
<1> QED BY <1>3, <1>5, <1>6, <1>7 DEF Fate

(* A difference is never undone, whatever happens to the handles.             *)
LEMMA SupersededStays ==
    ASSUME RInv, Next, Recorded, UNCHANGED group, Superseded
    PROVE  Superseded'
<1>1. GraphEffects /\ ClientEffects
  BY NextEffects
<1>2. /\ candidates \in Nat /\ next \in Nat /\ nextTopology \in Nat
      /\ group.candidates \in Nat /\ group.candidates < nextTopology
      /\ group.revision \in Nat /\ group.revision < nextTopology
      /\ GroupKey \in Keys /\ group.group \in Described
      /\ GroupKey' = GroupKey /\ Described' = Described
      /\ revision[GroupKey] \in Nat
  <2>1. group.group \in Described /\ Described' = Described /\ GroupKey' = GroupKey
    BY DEF Described, GroupKey
  <2>2. GroupKey \in Keys
    BY <2>1 DEF Recorded, GroupKey
  <2> QED BY <2>1, <2>2, RevisionTypes DEF Recorded
<1>3. CASE candidates > group.candidates
  <2>1. candidates' > group.candidates
    BY <1>1, <1>2, <1>3 DEF GraphEffects
  <2> QED BY <2>1 DEF Superseded
<1>4. ASSUME NEW s \in Described, Lost(s) PROVE Superseded'
  <2>1. Lost(s)'
    BY <1>4, MovedIsLost
  <2> QED BY <1>2, <2>1 DEF Superseded
<1>5. CASE clients[group.client] # group.owner
  <2>1. group.client \in Clients /\ group.owner.gen \in Nat \ {0} /\ group.owner.gen < next
    BY DEF Recorded
  <2>2. clients'[group.client] # group.owner
    BY <1>1, <1>2, <1>5, <2>1 DEF ClientEffects
  <2> QED BY <2>2 DEF Superseded
<1>6. CASE revision[GroupKey] > group.revision
  <2>1. CASE ~ Live(GroupKey)
    <3>1. Lost(group.group)
      BY <1>2, <2>1 DEF Recorded, Live, Lost, GroupKey
    <3> QED BY <1>2, <1>4, <3>1
  <2>2. CASE Moved(GroupKey)
    <3>1. PICK s \in Described : s = group.group
      BY <1>2
    <3>2. CASE s[2] = current[s[1]]
      <4>1. Lost(s)'
        BY <2>2, <3>1, <3>2, MovedIsLost DEF GroupKey
      <4> QED BY <1>2, <4>1 DEF Superseded
    <3>3. CASE ~ Lost(s)
      <4>1. Fate(GroupKey)
        BY <1>1, <1>2 DEF GraphEffects
      <4>2. /\ s[2].gen \in Nat \ {0} /\ s[2].gen < next /\ s[2].pgen \in Nat
            /\ s[2].pgen < next
        BY DEF Recorded
      <4>3. current[GroupKey] \in Node
        BY <1>2, RevisionTypes
      <4>4. Lost(s)' <=> current'[GroupKey].gen # s[2].gen
                         \/ current'[GroupKey].pgen > s[2].pgen
        BY <3>1 DEF Lost, GroupKey
      <4>5. ParentRebound(GroupKey) => current'[GroupKey].pgen = next
        BY <4>3 DEF ParentRebound, Node
      <4>6. Lost(s)'
        BY <1>2, <2>2, <4>1, <4>2, <4>4, <4>5 DEF Fate
      <4> QED BY <1>2, <4>6 DEF Superseded
    <3> QED BY <1>4, <3>3
  <2>3. CASE Live(GroupKey) /\ ~ Moved(GroupKey)
    <3>1. revision'[GroupKey] \in {revision[GroupKey], nextTopology}
      BY <1>1, <1>2, <2>3 DEF GraphEffects, GroupEffects
    <3>2. revision'[GroupKey] > group.revision
      BY <1>2, <1>6, <3>1
    <3> QED BY <1>2, <3>2 DEF Superseded
  <2> QED BY <2>1, <2>2, <2>3
<1> QED BY <1>3, <1>4, <1>5, <1>6 DEF Superseded

(* The first change of something the snapshot describes moves a number.       *)
LEMMA DisturbanceSupersedes ==
    ASSUME RInv, Next, Recorded, UNCHANGED group, Fresh, Disturbs
    PROVE  Superseded'
<1>1. GraphEffects /\ ClientEffects
  BY NextEffects
<1>2. /\ next \in Nat /\ nextTopology \in Nat
      /\ group.candidates \in Nat /\ group.candidates < nextTopology
      /\ group.revision \in Nat /\ group.revision < nextTopology
      /\ GroupKey \in Keys /\ Live(GroupKey)
      /\ GroupKey' = GroupKey /\ Described' = Described
  BY RevisionTypes DEF Recorded, Fresh, GroupKey, Described
<1>3. /\ group.group = <<GroupKey, current[GroupKey]>> /\ group.group \in Described
      /\ group.device = <<Device(GroupKey), current[Device(GroupKey)]>>
      /\ group.device \in Described
      /\ \A s \in group.subdevices : s \in Described /\ s[2] = current[s[1]]
      /\ group.client = GroupKey[1] /\ group.owner = clients[group.client]
  <2>1. /\ group.group = <<GroupKey, current[GroupKey]>>
        /\ group.device = <<Device(GroupKey), current[Device(GroupKey)]>>
        /\ group.client = GroupKey[1] /\ group.owner = clients[GroupKey[1]]
    BY DEF Fresh
  <2>2. \A s \in group.subdevices : s[2] = current[s[1]]
    BY DEF Fresh
  <2> QED BY <2>1, <2>2 DEF Described
<1>4. ASSUME NEW s \in Described, s[2] = current[s[1]], Moved(s[1])
      PROVE  Superseded'
  <2>1. Lost(s)'
    BY <1>4, MovedIsLost
  <2> QED BY <1>2, <2>1 DEF Superseded
<1>5. ASSUME Moved(GroupKey) PROVE Superseded'
  <2>1. PICK s \in Described : s = group.group
    BY <1>3
  <2>2. s[1] = GroupKey /\ s[2] = current[GroupKey]
    BY <1>3, <2>1
  <2> QED BY <1>4, <1>5, <2>1, <2>2
<1>6. ASSUME NEW k \in Keys, Moved(k), MemberThen(k, GroupKey) PROVE Superseded'
  <2>1. CASE ~ Moved(GroupKey)
    <3>1. revision'[GroupKey] = nextTopology
      BY <1>1, <1>2, <1>6, <2>1 DEF GraphEffects, GroupEffects
    <3> QED BY <1>2, <3>1 DEF Superseded
  <2> QED BY <1>5, <2>1
<1>7. ASSUME NEW k \in Keys, Moved(k), ComputeThen(k) PROVE Superseded'
  <2>1. CASE candidates' = nextTopology
    BY <1>2, <2>1 DEF Superseded
  <2>2. CASE ParentRebound(k)
    <3> DEFINE ch == ParentKey(current, k)
    <3>1. current[k] \in Node
      BY <1>7, RevisionTypes
    <3>2. current[k].cls = "compute"
      BY <1>7, <2>2, <3>1 DEF ComputeThen, ParentRebound, Node
    <3>3. ch \in MembersIn(current, GroupKey)
      BY <3>2 DEF Fresh, AllAttached
    <3>4. ch \in Keys /\ IsGroupMember(current, ch, GroupKey)
      BY <3>3 DEF Fresh, MembersIn, IsGroupMember
    <3>5. Moved(ch)
      BY <2>2, <3>4, RevisionTypes DEF ParentRebound, Moved
    <3> QED BY <1>6, <3>4, <3>5 DEF MemberThen
  <2> QED BY <1>1, <1>7, <2>1, <2>2 DEF GraphEffects
<1>8. ASSUME clients'[group.client] # clients[group.client] PROVE Superseded'
  <2>1. /\ group.client \in Clients
        /\ group.owner.gen \in Nat \ {0} /\ group.owner.gen < next
    BY DEF Recorded
  <2>2. clients'[group.client] # group.owner
    BY <1>1, <1>2, <1>8, <2>1 DEF ClientEffects
  <2> QED BY <2>2 DEF Superseded
<1>9. ASSUME NEW k \in Keys, Moved(k), DescribedByGroup(k) PROVE Superseded'
  <2>1. ASSUME NEW s \in group.subdevices, k = s[1] PROVE Superseded'
    BY <1>3, <1>4, <1>9, <2>1
  <2>2. CASE k = group.device[1]
    <3>1. PICK s \in Described : s = group.device
      BY <1>3
    <3>2. s[1] = k /\ s[2] = current[k]
      BY <1>3, <2>2, <3>1
    <3> QED BY <1>4, <1>9, <3>2
  <2> QED BY <1>5, <1>6, <1>7, <1>9, <2>1, <2>2 DEF DescribedByGroup, ComputeThen, MemberThen
<1> QED BY <1>8, <1>9 DEF Disturbs, Moved

(* Without such a change the snapshot still is what the registry holds.       *)
LEMMA FreshStays ==
    ASSUME RInv, Next, Recorded, UNCHANGED group, group # NoBinding, Fresh, ~ Disturbs
    PROVE  Fresh'
<1> DEFINE grp == GroupKey
           dev == Device(GroupKey)
<1>1. GraphEffects
  BY NextEffects
<1>2. /\ grp \in Keys /\ Live(grp) /\ current[grp].cls = "group"
      /\ dev \in Keys /\ UnderDevice(grp) /\ dev = ParentKey(current, grp)
      /\ group.device = <<dev, current[dev]>>
      /\ group.client = grp[1] /\ group.owner = clients[grp[1]]
      /\ group.revision = revision[grp] /\ group.candidates = candidates
      /\ group.group = <<grp, current[grp]>> /\ group.members = Roster(current, grp)
      /\ GroupKey' = GroupKey
  BY DEF Fresh, GroupKey, Device
<1>3. \A k \in Keys : DescribedByGroup(k) => current'[k] = current[k]
  BY DEF Disturbs
<1>4. current'[grp] = current[grp]
  BY <1>2, <1>3 DEF DescribedByGroup
<1>5. current'[dev] = current[dev]
  BY <1>2, <1>3 DEF DescribedByGroup
<1>6. ASSUME NEW s \in group.subdevices
      PROVE  /\ s[1] \in Keys /\ current'[s[1]] = current[s[1]]
             /\ s = <<s[1], current[s[1]]>> /\ s[1] \in Subdevices(dev)
  <2>1. s[1] \in Keys
    BY DEF Recorded, Described
  <2> QED BY <1>3, <2>1 DEF DescribedByGroup, Fresh
<1>7. /\ Roster(current', grp) = Roster(current, grp)
      /\ HasObject(current', grp) /\ AllAttached(current', grp)
  <2>1. \A k \in Keys : \/ current[k].cls = "compute" \/ current'[k].cls = "compute"
                        \/ IsGroupMember(current, k, grp) \/ IsGroupMember(current', k, grp)
                        => current'[k] = current[k]
    BY <1>3 DEF DescribedByGroup
  <2>2. HasObject(current, grp) /\ AllAttached(current, grp)
    BY DEF Fresh
  <2> QED BY <1>2, <1>4, <2>1, <2>2, RosterFramed
<1>8. Device(GroupKey)' = dev
  BY <1>2, <1>4 DEF Device, ParentKey
<1>9. UnderDevice(GroupKey)'
  BY <1>2, <1>4, <1>5, <1>8 DEF UnderDevice, ChildOf, ParentKey
<1>10. clients'[grp[1]] = clients[grp[1]]
  BY <1>2 DEF Disturbs
<1>11. \A k \in Keys : Moved(k) => ~ ComputeThen(k) /\ ~ MemberThen(k, grp)
  BY <1>3 DEF Moved, DescribedByGroup, ComputeThen, MemberThen
<1>12. candidates' = candidates
  BY <1>1, <1>11 DEF GraphEffects
<1>13. revision'[grp] = revision[grp]
  BY <1>1, <1>2, <1>4, <1>11 DEF GraphEffects, GroupEffects, Moved
<1>14. ASSUME NEW s \in group.subdevices
       PROVE  s = <<s[1], current'[s[1]]>> /\ s[1] \in Subdevices(dev)'
  <2>1. /\ s[1] \in Keys /\ current[s[1]].cls = "subdevice" /\ ChildOf(current, s[1], dev)
    BY <1>6 DEF Subdevices, Of
  <2>2. ChildOf(current', s[1], dev)
    BY <1>5, <1>6, <2>1 DEF ChildOf, ParentKey
  <2> QED BY <1>6, <1>8, <2>1, <2>2 DEF Subdevices, Of
<1> QED BY <1>2, <1>4, <1>5, <1>7, <1>8, <1>9, <1>10, <1>12, <1>13, <1>14 DEF Fresh, Live

-----------------------------------------------------------------------------
(* What the search returns, against the two conditions.                       *)
(* A search finds the same as long as the registry does not move.             *)
LEMMA SearchesReadTheRegistry ==
    ASSUME UNCHANGED registryVars
    PROVE  /\ Discoverable' = Discoverable /\ DiscoverGroup' = DiscoverGroup
           /\ StrictDiscoverable' = StrictDiscoverable /\ DiscoverStrict' = DiscoverStrict
<1>1. current' = current /\ clients' = clients /\ incomplete' = incomplete
      /\ revision' = revision /\ candidates' = candidates
  BY DEF registryVars
<1>2. \A class : Of(class)' = Of(class)
  BY <1>1 DEF Of
<1>3. \A k : /\ Members(k)' = Members(k) /\ ComputeObjects(k)' = ComputeObjects(k)
            /\ Subdevices(k)' = Subdevices(k) /\ Device(k)' = Device(k)
            /\ Snapshot(k)' = Snapshot(k) /\ Token(k)' = Token(k)
            /\ HasClient(k)' = HasClient(k)
  BY <1>1, <1>2 DEF Members, ComputeObjects, Subdevices, Device, Snapshot, Token, HasClient
<1>4. \A grp : /\ ComputeMembers(grp)' = ComputeMembers(grp)
              /\ UnderDevice(grp)' = UnderDevice(grp)
              /\ Subdevices(Device(grp))' = Subdevices(Device(grp))
              /\ Snapshot(Device(grp))' = Snapshot(Device(grp))
              /\ Token(Device(grp))' = Token(Device(grp))
  BY <1>1, <1>3 DEF ComputeMembers, UnderDevice, Device, ParentKey, Snapshot, Token
<1>5. GroupCandidates' = GroupCandidates
  BY <1>2, <1>4 DEF GroupCandidates
<1>6. Discoverable' = Discoverable
  <2>1. \A grp : OwnedDevice(grp)' = OwnedDevice(grp)
    BY <1>1, <1>3, <1>4 DEF OwnedDevice, Device, ParentKey
  <2>2. NoStrayCompute' = NoStrayCompute
    BY <1>1, <1>2, <1>3 DEF NoStrayCompute
  <2> QED BY <1>1, <1>5, <2>1, <2>2 DEF Discoverable
<1>7. DiscoverGroup' = DiscoverGroup
  <2>1. ASSUME NEW grp PROVE GroupBindingOf(grp)' = GroupBindingOf(grp)
    <3>1. {Snapshot(s) : s \in Subdevices(Device(grp))}'
            = {Snapshot(s) : s \in Subdevices(Device(grp))}
      BY <1>3, <1>4
    <3>2. \A ch : {Snapshot(e) : e \in ComputeObjects(ch)}'
                    = {Snapshot(e) : e \in ComputeObjects(ch)}
      BY <1>3
    <3>3. GroupBindingOf(grp)'.members = GroupBindingOf(grp).members
      BY <1>3, <3>2 DEF GroupBindingOf
    <3> QED BY <1>1, <1>3, <1>4, <3>1, <3>3 DEF GroupBindingOf
  <2> QED BY <1>5, <1>6, <2>1 DEF DiscoverGroup
<1>8. StrictDiscoverable' = StrictDiscoverable
  BY <1>1, <1>3, <1>4, <1>5 DEF StrictDiscoverable
<1>9. DiscoverStrict' = DiscoverStrict
  <2>1. ASSUME NEW grp PROVE StrictBindingOf(grp)' = StrictBindingOf(grp)
    <3>1. {Token(x) : x \in Members(grp)}' = {Token(x) : x \in Members(grp)}
      BY <1>3
    <3>2. \A ch : {Token(e) : e \in ComputeObjects(ch)}' = {Token(e) : e \in ComputeObjects(ch)}
      BY <1>3
    <3>3. (CHOOSE s \in Subdevices(Device(grp)) : TRUE)'
            = CHOOSE s \in Subdevices(Device(grp)) : TRUE
      BY <1>4
    <3>4. (CHOOSE x \in ComputeMembers(grp) : TRUE)' = CHOOSE x \in ComputeMembers(grp) : TRUE
      BY <1>4
    <3> QED BY <1>1, <1>3, <1>4, <3>1, <3>2, <3>3, <3>4 DEF StrictBindingOf
  <2> QED BY <1>5, <1>8, <2>1 DEF DiscoverStrict
<1> QED BY <1>6, <1>7, <1>8, <1>9

LEMMA OneCandidate ==
    ASSUME Discoverable
    PROVE  \E grp \in Keys : GroupCandidates = {grp} /\ OwnedDevice(grp)
                            /\ DiscoverGroup = GroupBindingOf(grp)
<1>1. IsFiniteSet(Keys)
  <2>1. IsFiniteSet(Clients)
    BY RegistryAssumption, FS_Subset DEF RegistryAssumption
  <2> QED BY <2>1, RegistryAssumption, FS_Product DEF RegistryAssumption, Keys
<1>2. GroupCandidates \subseteq Keys
  BY DEF GroupCandidates, Of
<1>3. IsFiniteSet(GroupCandidates)
  BY <1>1, <1>2, FS_Subset
<1>4. PICK grp : GroupCandidates = {grp}
  BY <1>3, FS_Singleton DEF Discoverable
<1>5. (CHOOSE x \in GroupCandidates : TRUE) = grp
  BY <1>4
<1>6. DiscoverGroup = GroupBindingOf(grp)
  BY <1>5 DEF DiscoverGroup
<1>7. OwnedDevice(grp) /\ grp \in Keys
  BY <1>2, <1>4 DEF Discoverable
<1> QED BY <1>4, <1>6, <1>7

LEMMA BindingRoster ==
    ASSUME NEW grp
    PROVE  /\ GroupBindingOf(grp).members = Roster(current, grp)
           /\ ComputeMembers(grp) # {} <=> HasObject(current, grp)
<1>1. Members(grp) = MembersIn(current, grp)
  BY DEF Members, MembersIn, Of
<1>2. \A ch : ComputeObjects(ch) = ObjectsIn(current, ch)
  BY DEF ComputeObjects, ObjectsIn, Of
<1>3. ComputeMembers(grp) # {} <=> HasObject(current, grp)
  BY <1>1, <1>2 DEF ComputeMembers, HasObject
<1>4. \A ch : {Snapshot(e) : e \in ComputeObjects(ch)}
                = {<<e, current[e]>> : e \in ObjectsIn(current, ch)}
  BY <1>2 DEF Snapshot
<1>5. {<<Snapshot(ch), {Snapshot(e) : e \in ComputeObjects(ch)}>> : ch \in Members(grp)}
        = Roster(current, grp)
  BY <1>1, <1>4 DEF Roster, Snapshot
<1> QED BY <1>3, <1>5 DEF GroupBindingOf

LEMMA SupersededIsRefused ==
    ASSUME RInv, group # NoBinding, Recorded, Superseded
    PROVE  ~ ValidGroup(group)
<1> SUFFICES ASSUME group = DiscoverGroup PROVE FALSE
  BY DEF ValidGroup
<1>1. Discoverable
  BY DEF DiscoverGroup
<1>2. PICK grp \in Keys : group = GroupBindingOf(grp)
  BY <1>1, OneCandidate
<1>3. /\ group.client = grp[1] /\ group.owner = clients[grp[1]]
      /\ group.revision = revision[grp] /\ group.candidates = candidates
      /\ group.group = <<grp, current[grp]>> /\ GroupKey = grp
  BY <1>2 DEF GroupBindingOf, Snapshot, GroupKey
<1>4. ASSUME NEW s \in Described PROVE ~ Lost(s)
  <2>1. \E k : s = <<k, current[k]>>
    BY <1>2 DEF Described, GroupBindingOf, Snapshot
  <2>2. s[2] = current[s[1]] /\ s[1] \in Keys
    BY <2>1 DEF Recorded
  <2> QED BY <2>2, RevisionTypes DEF Lost
<1> QED BY <1>2, <1>3, <1>4, RevisionTypes DEF Superseded

LEMMA FreshIsRediscovered ==
    ASSUME RInv, Fresh, Discoverable
    PROVE  ValidGroup(group)
<1>1. PICK grp \in Keys : /\ GroupCandidates = {grp} /\ OwnedDevice(grp)
                          /\ DiscoverGroup = GroupBindingOf(grp)
  BY OneCandidate
<1>2. GroupKey = grp
  <2>1. GroupKey \in GroupCandidates
    BY BindingRoster DEF Fresh, GroupCandidates, Of
  <2> QED BY <1>1, <2>1
<1>3. group.subdevices = {Snapshot(s) : s \in Subdevices(Device(grp))}
  <2> DEFINE subs == Subdevices(Device(grp))
  <2>1. PICK x : subs = {x}
    <3>1. IsFiniteSet(Keys)
      <4>1. IsFiniteSet(Clients)
        BY RegistryAssumption, FS_Subset DEF RegistryAssumption
      <4> QED BY <4>1, RegistryAssumption, FS_Product DEF RegistryAssumption, Keys
    <3>2. subs \subseteq Keys
      BY DEF Subdevices, Of
    <3>3. IsFiniteSet(subs)
      BY <3>1, <3>2, FS_Subset
    <3>4. Cardinality(subs) = 1
      BY <1>1 DEF OwnedDevice
    <3> QED BY <3>3, <3>4, FS_Singleton
  <2>2. \A s \in group.subdevices : s = Snapshot(x)
    BY <1>2, <2>1 DEF Fresh, Snapshot
  <2>3. group.subdevices # {}
    BY DEF Fresh
  <2>4. {Snapshot(s) : s \in subs} = {Snapshot(x)}
    BY <2>1
  <2> QED BY <2>2, <2>3, <2>4
<1>4. GroupBindingOf(grp) = [client     |-> grp[1],
                             owner      |-> clients[grp[1]],
                             revision   |-> revision[grp],
                             candidates |-> candidates,
                             device     |-> <<Device(grp), current[Device(grp)]>>,
                             subdevices |-> group.subdevices,
                             group      |-> <<grp, current[grp]>>,
                             members    |-> Roster(current, grp)]
  <2>1. {<<Snapshot(ch), {Snapshot(e) : e \in ComputeObjects(ch)}>> : ch \in Members(grp)}
          = Roster(current, grp)
    BY BindingRoster DEF GroupBindingOf
  <2> QED BY <1>3, <2>1 DEF GroupBindingOf, Snapshot
<1> QED BY <1>1, <1>2, <1>4 DEF Fresh, ValidGroup

LEMMA TakenIsFresh ==
    RInv /\ Discoverable /\ group = DiscoverGroup => Recorded /\ Fresh
<1> SUFFICES ASSUME RInv, Discoverable, group = DiscoverGroup PROVE Recorded /\ Fresh
  OBVIOUS
<1>1. PICK grp \in Keys : /\ GroupCandidates = {grp} /\ OwnedDevice(grp)
                          /\ group = GroupBindingOf(grp)
  BY OneCandidate
<1> DEFINE dev == Device(grp)
<1>2. /\ current \in [Keys -> Node]
      /\ \A c \in Clients : clients[c].gen \in Nat /\ clients[c].gen < next
  BY DEF RInv, GraphOK, Sound, WellTyped, ClientsOK
<1>3. dev \in Keys /\ grp[1] \in Clients
  BY <1>2, ParentKeyIsKey DEF Device, Keys
<1>4. /\ current[grp].cls = "group" /\ ComputeMembers(grp) # {}
  BY <1>1 DEF GroupCandidates, Of
<1>5. /\ UnderDevice(grp) /\ current[grp].gen # 0 /\ current[dev].gen # 0
      /\ HasClient(grp[1]) /\ Cardinality(Subdevices(dev)) = 1
  BY <1>1 DEF OwnedDevice, UnderDevice, ChildOf
<1>6. \A s \in Subdevices(dev) : s \in Keys /\ current[s].gen # 0
  BY DEF Subdevices, Of, ChildOf
<1>7. Subdevices(dev) # {}
  BY <1>5, FS_EmptySet
<1>8. GroupKey = grp /\ group.subdevices = {Snapshot(s) : s \in Subdevices(dev)}
  BY <1>1 DEF GroupKey, GroupBindingOf, Snapshot
<1>9. AllAttached(current, grp)
  <2> SUFFICES ASSUME NEW e \in Keys, current[e].cls = "compute"
               PROVE  /\ ParentKey(current, e) \in MembersIn(current, grp)
                      /\ ChildOf(current, e, ParentKey(current, e))
    BY DEF AllAttached
  <2>1. PICK x \in Of("group") : \E ch \in Members(x) : ChildOf(current, e, ch)
    BY DEF Discoverable, NoStrayCompute, Of
  <2>2. PICK ch \in Members(x) : ChildOf(current, e, ch)
    BY <2>1
  <2>3. ch = ParentKey(current, e)
    BY <2>2 DEF ChildOf
  <2>4. e \in ComputeObjects(ch)
    BY <2>2 DEF ComputeObjects, Of
  <2>5. x = grp
    BY <1>1, <2>2, <2>4 DEF GroupCandidates, ComputeMembers
  <2> QED BY <2>2, <2>3, <2>5 DEF Members, MembersIn, Of
<1>10. group.members = Roster(current, grp) /\ HasObject(current, grp)
  BY <1>1, <1>4, BindingRoster
<1>11. group = [client     |-> grp[1],
                owner      |-> clients[grp[1]],
                revision   |-> revision[grp],
                candidates |-> candidates,
                device     |-> <<dev, current[dev]>>,
                subdevices |-> group.subdevices,
                group      |-> <<grp, current[grp]>>,
                members    |-> Roster(current, grp)]
  <2>1. {<<Snapshot(ch), {Snapshot(e) : e \in ComputeObjects(ch)}>> : ch \in Members(grp)}
          = Roster(current, grp)
    BY BindingRoster DEF GroupBindingOf
  <2> QED BY <1>1, <1>8, <2>1 DEF GroupBindingOf, Snapshot
<1>12. /\ group.subdevices # {}
       /\ \A s \in group.subdevices : s = <<s[1], current[s[1]]>> /\ s[1] \in Subdevices(dev)
  <2>1. ASSUME NEW s \in group.subdevices
        PROVE  s = <<s[1], current[s[1]]>> /\ s[1] \in Subdevices(dev)
    <3>1. PICK x \in Subdevices(dev) : s = <<x, current[x]>>
      BY <1>8 DEF Snapshot
    <3> QED BY <3>1
  <2> QED BY <1>7, <1>8, <2>1
<1>13. Fresh
  BY <1>3, <1>4, <1>5, <1>8, <1>9, <1>10, <1>11, <1>12 DEF Fresh, Live
<1>14. Recorded
  <2>1. \A s \in Described : s[1] \in Keys /\ s[2] = current[s[1]] /\ current[s[1]].gen # 0
    <3>1. group.group = <<grp, current[grp]>> /\ group.device = <<dev, current[dev]>>
      BY <1>11
    <3> QED BY <1>3, <1>5, <1>6, <1>12, <3>1 DEF Described
  <2>2. /\ group.client \in Clients /\ group.owner = clients[group.client]
        /\ group.revision = revision[grp] /\ group.candidates = candidates
        /\ clients[group.client].gen # 0
    BY <1>3, <1>5, <1>11 DEF HasClient
  <2> QED BY <1>2, <2>1, <2>2, RevisionTypes DEF Recorded
<1> QED BY <1>13, <1>14

-----------------------------------------------------------------------------
SnapshotInv ==
    /\ RInv
    /\ group # NoBinding => /\ Recorded
                            /\ disturbed => Superseded
                            /\ ~ disturbed => Fresh

LEMMA SnapshotNextPreserves == SnapshotInv /\ [SnapshotNext]_vars => SnapshotInv'
<1> SUFFICES ASSUME SnapshotInv, [SnapshotNext]_vars PROVE SnapshotInv'
  OBVIOUS
<1>1. RInv'
  BY NextPreserves DEF SnapshotInv, SnapshotNext, RegistryStep, TakeGroup, TakeStrict, vars
<1>2. ASSUME UNCHANGED <<registryVars, group, disturbed>> PROVE SnapshotInv'
  <2>1. Recorded' = Recorded
    BY <1>2 DEF registryVars, Recorded, Described
  <2>2. Superseded' = Superseded
    BY <1>2 DEF registryVars, Superseded, Described, Lost, GroupKey
  <2>3. Fresh' = Fresh
    BY <1>2 DEF registryVars, Fresh, GroupKey, Live, Device, ParentKey, UnderDevice, ChildOf,
                Subdevices, Of
  <2> QED BY <1>1, <1>2, <2>1, <2>2, <2>3 DEF SnapshotInv
<1>3. CASE TakeGroup
  <2>1. (Discoverable /\ group = DiscoverGroup)'
    BY <1>3, SearchesReadTheRegistry DEF TakeGroup
  <2>2. (RInv /\ Discoverable /\ group = DiscoverGroup => Recorded /\ Fresh)'
    BY TakenIsFresh, PTL
  <2>3. disturbed' = FALSE
    BY <1>3 DEF TakeGroup
  <2> QED BY <1>1, <2>1, <2>2, <2>3 DEF SnapshotInv
<1>4. CASE RegistryStep
  <2>1. RInv /\ Next /\ UNCHANGED group /\ disturbed' = (disturbed \/ Disturbs)
    BY <1>4 DEF RegistryStep, SnapshotInv
  <2>2. CASE group = NoBinding
    BY <1>1, <2>1, <2>2 DEF SnapshotInv
  <2>3. CASE group # NoBinding
    <3>1. Recorded /\ (disturbed => Superseded) /\ (~ disturbed => Fresh)
      BY <2>3 DEF SnapshotInv
    <3>2. Recorded'
      BY <2>1, <3>1, RecordedStays
    <3>3. disturbed => Superseded'
      BY <2>1, <3>1, SupersededStays
    <3>4. ~ disturbed /\ Disturbs => Superseded'
      BY <2>1, <3>1, DisturbanceSupersedes
    <3>5. ~ disturbed /\ ~ Disturbs => Fresh'
      BY <2>1, <2>3, <3>1, FreshStays
    <3> QED BY <1>1, <2>1, <3>2, <3>3, <3>4, <3>5 DEF SnapshotInv
  <2> QED BY <2>2, <2>3
<1>5. CASE TakeStrict
  BY <1>2, <1>5 DEF TakeStrict
<1>6. CASE UNCHANGED vars
  BY <1>2, <1>6 DEF vars
<1> QED BY <1>3, <1>4, <1>5, <1>6 DEF SnapshotNext

(* A group snapshot is refused for good once anything it describes changed,   *)
(* and accepted whenever nothing did and there is one candidate to find: the  *)
(* comparison of valid_group (184-188) is exact for every set of handles,     *)
(* every capacity and every sequence of events.                               *)
THEOREM SnapshotsAreExact == SnapshotSpec => []GroupSnapshotExact
<1>1. SnapshotInit => SnapshotInv
  BY InitEstablishes DEF SnapshotInit, SnapshotInv
<1>2. SnapshotInv => GroupSnapshotExact
  <2> SUFFICES ASSUME SnapshotInv PROVE GroupSnapshotExact
    OBVIOUS
  <2>1. StaleGroupRefused
    BY SupersededIsRefused DEF SnapshotInv, StaleGroupRefused
  <2>2. UnrelatedKeepsGroup
    BY FreshIsRediscovered DEF SnapshotInv, UnrelatedKeepsGroup
  <2> QED BY <2>1, <2>2 DEF GroupSnapshotExact
<1> QED BY <1>1, <1>2, SnapshotNextPreserves, PTL DEF SnapshotSpec

-----------------------------------------------------------------------------
(* A generation stands for one life of one object: as long as it is current,  *)
(* the object keeps its class and its parent, and does not lose its parent    *)
(* token, though a bind of the parent may change it.                          *)
LEMMA LivesKeepTheirPlace ==
    ASSUME RInv, Next, NEW k \in Keys, current'[k].gen # 0, current'[k].gen < next
    PROVE  /\ current'[k].gen = current[k].gen
           /\ current'[k].cls = current[k].cls /\ current'[k].parent = current[k].parent
           /\ current[k].pgen # 0 => current'[k].pgen # 0
<1>1. Fate(k)
  BY NextEffects DEF GraphEffects
<1>2. current[k] \in Node /\ next \in Nat \ {0}
  BY RevisionTypes
<1>3. CASE ParentRebound(k)
  BY <1>2, <1>3 DEF ParentRebound, Node
<1> QED BY <1>1, <1>2, <1>3 DEF Fate, Moved

(* The life that token t names, while it lasts, is one of this class under    *)
(* the node of this handle.                                                   *)
Names(t, class) == \A k \in Keys : Live(k) /\ current[k].gen = t[2] => current[k].cls = class

NamesChildOf(t, p) ==
    \A k \in Keys : Live(k) /\ current[k].gen = t[2] =>
        current[k].parent = p /\ current[k].pgen # 0

StrictTokens == {strict.device, strict.subdevice, strict.group, strict.compute}

(* What a strict binding holds by its making, and keeps while the registry    *)
(* goes on.                                                                   *)
StrictRecorded ==
    /\ strict = [client   |-> strict.client,
                 owner    |-> strict.owner,
                 device   |-> strict.device,
                 subdevice |-> strict.subdevice,
                 group    |-> strict.group,
                 compute  |-> strict.compute,
                 channels |-> strict.channels,
                 objects  |-> strict.objects]
    /\ strict.client \in Clients
    /\ \A t \in StrictTokens : /\ t = <<t[1], t[2]>> /\ t[1] \in Handles
                             /\ t[2] \in Nat \ {0} /\ t[2] < next
    /\ strict.compute \in strict.channels
    /\ strict.objects # {}
    /\ Names(strict.device, "device") /\ Names(strict.subdevice, "subdevice")
    /\ NamesChildOf(strict.subdevice, strict.device[1])
    /\ NamesChildOf(strict.group, strict.device[1])

LEMMA StrictRecordedStays ==
    ASSUME RInv, Next, StrictRecorded, UNCHANGED strict
    PROVE  StrictRecorded'
<1>1. next \in Nat /\ next' \in {next, next + 1}
  BY NextEffects, RevisionTypes DEF GraphEffects
<1>2. /\ strict.device[2] < next /\ strict.subdevice[2] < next /\ strict.group[2] < next
      /\ StrictTokens' = StrictTokens
  BY DEF StrictRecorded, StrictTokens
<1>3. ASSUME NEW t, NEW class, t[2] < next, Names(t, class)
      PROVE  \A k \in Keys : current'[k].gen # 0 /\ current'[k].gen = t[2]
                                => current'[k].cls = class
  BY <1>3, LivesKeepTheirPlace DEF Names, Live
<1>4. ASSUME NEW t, NEW p, t[2] < next, NamesChildOf(t, p)
      PROVE  \A k \in Keys : current'[k].gen # 0 /\ current'[k].gen = t[2]
                                => current'[k].parent = p /\ current'[k].pgen # 0
  BY <1>4, LivesKeepTheirPlace DEF NamesChildOf, Live
<1>5. Names(strict.device, "device")' /\ Names(strict.subdevice, "subdevice")'
  <2>1. Names(strict.device, "device") /\ Names(strict.subdevice, "subdevice")
    BY DEF StrictRecorded
  <2>2. \A k \in Keys : current'[k].gen # 0 /\ current'[k].gen = strict.device[2]
                          => current'[k].cls = "device"
    BY <1>2, <1>3, <2>1
  <2>3. \A k \in Keys : current'[k].gen # 0 /\ current'[k].gen = strict.subdevice[2]
                          => current'[k].cls = "subdevice"
    BY <1>2, <1>3, <2>1
  <2> QED BY <2>2, <2>3 DEF Names, Live
<1>6. /\ NamesChildOf(strict.subdevice, strict.device[1])'
      /\ NamesChildOf(strict.group, strict.device[1])'
  <2>1. /\ NamesChildOf(strict.subdevice, strict.device[1])
        /\ NamesChildOf(strict.group, strict.device[1])
    BY DEF StrictRecorded
  <2>2. \A k \in Keys : current'[k].gen # 0 /\ current'[k].gen = strict.subdevice[2]
                => current'[k].parent = strict.device[1] /\ current'[k].pgen # 0
    BY <1>2, <1>4, <2>1
  <2>3. \A k \in Keys : current'[k].gen # 0 /\ current'[k].gen = strict.group[2]
                => current'[k].parent = strict.device[1] /\ current'[k].pgen # 0
    BY <1>2, <1>4, <2>1
  <2> QED BY <2>2, <2>3 DEF NamesChildOf, Live
<1>7. \A t \in StrictTokens' : /\ t = <<t[1], t[2]>> /\ t[1] \in Handles
                              /\ t[2] \in Nat \ {0} /\ t[2] < next'
  BY <1>1, <1>2 DEF StrictRecorded
<1> QED BY <1>5, <1>6, <1>7 DEF StrictRecorded

(* The search itself: one candidate, one compute channel, one subdevice.      *)
LEMMA OneStrictCandidate ==
    ASSUME StrictDiscoverable
    PROVE  \E grp, ch, sub \in Keys :
             /\ GroupCandidates = {grp} /\ ComputeMembers(grp) = {ch}
             /\ Subdevices(Device(grp)) = {sub}
             /\ current[grp].cls = "group" /\ UnderDevice(grp) /\ HasClient(grp[1])
             /\ DiscoverStrict = [client   |-> grp[1],
                                  owner    |-> clients[grp[1]],
                                  device   |-> Token(Device(grp)),
                                  subdevice |-> Token(sub),
                                  group    |-> Token(grp),
                                  compute  |-> Token(ch),
                                  channels |-> {Token(x) : x \in Members(grp)},
                                  objects  |-> {Token(e) : e \in ComputeObjects(ch)}]
<1>1. IsFiniteSet(Keys)
  <2>1. IsFiniteSet(Clients)
    BY RegistryAssumption, FS_Subset DEF RegistryAssumption
  <2> QED BY <2>1, RegistryAssumption, FS_Product DEF RegistryAssumption, Keys
<1>2. ASSUME NEW S \in SUBSET Keys, Cardinality(S) = 1
      PROVE  \E x \in Keys : S = {x}
  <2>1. IsFiniteSet(S)
    BY <1>1, FS_Subset
  <2> QED BY <1>2, <2>1, FS_Singleton
<1>3. PICK grp \in Keys : GroupCandidates = {grp}
  <2>1. GroupCandidates \in SUBSET Keys
    BY DEF GroupCandidates, Of
  <2> QED BY <1>2, <2>1 DEF StrictDiscoverable
<1>4. PICK ch \in Keys : ComputeMembers(grp) = {ch}
  <2>1. ComputeMembers(grp) \in SUBSET Keys
    BY DEF ComputeMembers, Members, Of
  <2> QED BY <1>2, <1>3, <2>1 DEF StrictDiscoverable
<1>5. PICK sub \in Keys : Subdevices(Device(grp)) = {sub}
  <2>1. Subdevices(Device(grp)) \in SUBSET Keys
    BY DEF Subdevices, Of
  <2> QED BY <1>2, <1>3, <2>1 DEF StrictDiscoverable
<1>6. /\ (CHOOSE x \in GroupCandidates : TRUE) = grp
      /\ (CHOOSE x \in ComputeMembers(grp) : TRUE) = ch
      /\ (CHOOSE x \in Subdevices(Device(grp)) : TRUE) = sub
  BY <1>3, <1>4, <1>5
<1>7. DiscoverStrict = StrictBindingOf(grp)
  BY <1>6 DEF DiscoverStrict
<1>8. current[grp].cls = "group" /\ UnderDevice(grp) /\ HasClient(grp[1])
  BY <1>3 DEF StrictDiscoverable, GroupCandidates, Of
<1> QED BY <1>3, <1>4, <1>5, <1>6, <1>7, <1>8 DEF StrictBindingOf

\* The compute objects of the groups, wherever they are attached.
Attached ==
    {e \in Of("compute") : \E grp \in Of("group") :
        ParentKey(current, e) \in Members(grp)
            /\ ChildOf(current, e, ParentKey(current, e))}

(* A search that finds the binding again satisfies every check of the walk.   *)
LEMMA RediscoveredIsValid ==
    ASSUME RInv, strict # NoBinding, DiscoverStrict = strict
    PROVE  ValidStrict(strict)
<1>1. StrictDiscoverable
  BY DEF DiscoverStrict
<1>2. PICK grp, ch, sub \in Keys :
             /\ GroupCandidates = {grp} /\ ComputeMembers(grp) = {ch}
             /\ Subdevices(Device(grp)) = {sub}
             /\ current[grp].cls = "group" /\ UnderDevice(grp) /\ HasClient(grp[1])
             /\ strict = [client   |-> grp[1],
                         owner    |-> clients[grp[1]],
                         device   |-> Token(Device(grp)),
                         subdevice |-> Token(sub),
                         group    |-> Token(grp),
                         compute  |-> Token(ch),
                         channels |-> {Token(x) : x \in Members(grp)},
                         objects  |-> {Token(e) : e \in ComputeObjects(ch)}]
  BY <1>1, OneStrictCandidate
<1> DEFINE c == grp[1]
           dev == Device(grp)
<1>3. current \in [Keys -> Node]
  BY DEF RInv, GraphOK, Sound, WellTyped
<1>4. /\ grp = <<c, grp[2]>> /\ dev \in Keys /\ dev = <<c, dev[2]>>
  BY <1>3, ParentKeyIsKey DEF Keys, Device
<1>5. current[grp].gen # 0 /\ current[dev].gen # 0
  BY <1>2 DEF UnderDevice, ChildOf
<1>6. /\ sub = <<c, sub[2]>> /\ current[sub].gen # 0
  <2>1. sub \in Keys /\ ChildOf(current, sub, dev)
    BY <1>2 DEF Subdevices
  <2>2. dev = <<sub[1], current[sub].parent>> /\ current[sub].gen # 0
    BY <2>1 DEF ChildOf, ParentKey
  <2>3. sub[1] = c
    BY <1>4, <2>2
  <2> QED BY <2>1, <2>2, <2>3 DEF Keys
<1>7. /\ ch = <<c, ch[2]>> /\ current[ch].gen # 0 /\ ParentKey(current, ch) = grp
      /\ ch \in Members(grp) /\ ComputeObjects(ch) # {}
  <2>1. ch \in Keys /\ ChildOf(current, ch, grp) /\ ch \in Members(grp)
        /\ ComputeObjects(ch) # {}
    BY <1>2 DEF ComputeMembers, Members
  <2>2. grp = <<ch[1], current[ch].parent>> /\ current[ch].gen # 0
    BY <2>1 DEF ChildOf, ParentKey
  <2>3. ch[1] = c
    BY <1>4, <2>2
  <2>4. ParentKey(current, ch) = grp
    BY <2>2 DEF ParentKey
  <2> QED BY <2>1, <2>2, <2>3, <2>4 DEF Keys
<1>8. \A t \in {strict.device, strict.subdevice, strict.group, strict.compute} :
        IsCurrent(strict.client, t)
  <2>1. ASSUME NEW k \in Keys, k = <<c, k[2]>>, current[k].gen # 0
        PROVE  IsCurrent(c, Token(k))
    BY <2>1 DEF IsCurrent, Token, Live
  <2> QED BY <1>2, <1>4, <1>5, <1>6, <1>7, <2>1
<1>9. /\ <<strict.client, strict.device[1]>> = dev
      /\ <<strict.client, strict.group[1]>> = grp
  BY <1>2, <1>4 DEF Token
<1>10. Cardinality(Subdevices(<<strict.client, strict.device[1]>>)) = 1
  BY <1>2, <1>9, FS_Singleton
<1>11. {Token(x) : x \in {y \in Of("channel") :
            ChildOf(current, y, <<strict.client, strict.group[1]>>)}} = strict.channels
  BY <1>2, <1>9 DEF Members
<1>12. Attached = ComputeObjects(ch)
  <2>1. ASSUME NEW e \in Attached PROVE e \in ComputeObjects(ch)
    <3>1. PICK x \in Of("group") : /\ ParentKey(current, e) \in Members(x)
                                   /\ ChildOf(current, e, ParentKey(current, e))
      BY DEF Attached
    <3>2. e \in ComputeObjects(ParentKey(current, e))
      BY <3>1 DEF Attached, ComputeObjects
    <3>3. ParentKey(current, e) \in ComputeMembers(x)
      BY <3>1, <3>2 DEF ComputeMembers
    <3>4. x = grp
      BY <1>2, <3>3 DEF GroupCandidates
    <3> QED BY <1>2, <3>2, <3>3, <3>4
  <2>2. ASSUME NEW e \in ComputeObjects(ch) PROVE e \in Attached
    <3>1. e \in Of("compute") /\ ch = ParentKey(current, e) /\ ChildOf(current, e, ch)
      BY DEF ComputeObjects, ChildOf
    <3> QED BY <1>2, <1>7, <3>1 DEF Attached, Of
  <2> QED BY <2>1, <2>2
<1>13. \A e \in Attached : /\ e[1] = strict.client /\ ParentKey(current, e) = ch
  <2> SUFFICES ASSUME NEW e \in ComputeObjects(ch)
               PROVE  e[1] = c /\ ParentKey(current, e) = ch
    BY <1>2, <1>12
  <2>1. ch = ParentKey(current, e)
    BY DEF ComputeObjects, ChildOf
  <2> QED BY <1>7, <2>1 DEF ParentKey
<1>14. \A e \in Attached :
         LET x == ParentKey(current, e)
         IN  /\ e[1] = strict.client
             /\ current[ParentKey(current, x)].gen = strict.group[2]
             /\ current[x].gen = strict.compute[2]
  BY <1>2, <1>7, <1>13 DEF Token
<1>15. {Token(e) : e \in Attached} = strict.objects
  BY <1>2, <1>12
<1>16. ~ incomplete /\ HasClient(strict.client) /\ clients[strict.client] = strict.owner
  BY <1>1, <1>2 DEF StrictDiscoverable
<1> QED BY <1>8, <1>10, <1>11, <1>14, <1>15, <1>16 DEF ValidStrict, Attached

(* What passes the walk is what a search finds: the tokens pin the group, its *)
(* one compute channel and its device, and the attached objects leave no room *)
(* for a second candidate.                                                    *)
LEMMA ValidIsRediscovered ==
    ASSUME RInv, StrictRecorded, ValidStrict(strict)
    PROVE  DiscoverStrict = strict
<1> DEFINE c == strict.client
           grp == <<c, strict.group[1]>>
           dev == <<c, strict.device[1]>>
           sub == <<c, strict.subdevice[1]>>
           ch == <<c, strict.compute[1]>>
<1>1. /\ current \in [Keys -> Node] /\ TokensLive(current) /\ Unique(current)
  BY DEF RInv, GraphOK, Sound, WellTyped
<1>2. /\ grp \in Keys /\ dev \in Keys /\ sub \in Keys /\ ch \in Keys
  BY DEF StrictRecorded, StrictTokens, Keys
<1>3. /\ Live(grp) /\ current[grp].gen = strict.group[2]
      /\ Live(dev) /\ current[dev].gen = strict.device[2]
      /\ Live(sub) /\ current[sub].gen = strict.subdevice[2]
      /\ Live(ch) /\ current[ch].gen = strict.compute[2]
  BY DEF ValidStrict, IsCurrent
<1>4. /\ Token(grp) = strict.group /\ Token(dev) = strict.device
      /\ Token(sub) = strict.subdevice /\ Token(ch) = strict.compute
  BY <1>3 DEF Token, StrictRecorded, StrictTokens
<1>5. \A a, b \in Keys : Live(a) /\ Live(b) /\ current[a].gen = current[b].gen => a = b
  BY <1>1 DEF Unique, LiveIn, Live
<1>6. ASSUME NEW k \in Keys, Live(k), k[1] = c, current[k].parent = strict.device[1],
             current[k].pgen # 0
      PROVE  ParentKey(current, k) = dev /\ ChildOf(current, k, dev)
  <2>1. ParentKey(current, k) = dev
    BY <1>6 DEF ParentKey
  <2> QED BY <1>1, <1>6, <2>1 DEF TokensLive, LiveIn, Live
<1>7. /\ Device(grp) = dev /\ ChildOf(current, grp, dev)
  <2>1. current[grp].parent = strict.device[1] /\ current[grp].pgen # 0
    BY <1>2, <1>3 DEF StrictRecorded, NamesChildOf
  <2> QED BY <1>2, <1>3, <1>6, <2>1 DEF Device
<1>8. current[dev].cls = "device"
  BY <1>2, <1>3 DEF StrictRecorded, Names
<1>9. sub \in Subdevices(dev)
  <2>1. /\ current[sub].parent = strict.device[1] /\ current[sub].pgen # 0
        /\ current[sub].cls = "subdevice"
    BY <1>2, <1>3 DEF StrictRecorded, NamesChildOf, Names
  <2> QED BY <1>2, <1>3, <1>6, <2>1 DEF Subdevices, Of
<1>10. /\ Cardinality(Subdevices(dev)) = 1
       /\ {Token(x) : x \in Members(grp)} = strict.channels
       /\ HasClient(c) /\ clients[c] = strict.owner /\ ~ incomplete
  BY DEF ValidStrict, Members
<1>11. /\ {Token(e) : e \in Attached} = strict.objects
       /\ \A e \in Attached :
            /\ current[ParentKey(current, ParentKey(current, e))].gen = strict.group[2]
            /\ current[ParentKey(current, e)].gen = strict.compute[2]
  BY DEF ValidStrict, Attached
<1>12. ch \in Members(grp)
  <2>1. PICK x \in Members(grp) : Token(x) = strict.compute
    BY <1>10 DEF StrictRecorded
  <2>2. x[2] = strict.compute[1] /\ x[1] = c /\ x \in Keys
    BY <2>1 DEF Token, Members, ChildOf, ParentKey, Of
  <2>3. x = ch
    BY <2>2 DEF Keys
  <2> QED BY <2>1, <2>3
<1>13. ASSUME NEW e \in Attached
       PROVE  /\ e \in ComputeObjects(ch) /\ ParentKey(current, e) = ch
              /\ ParentKey(current, ch) = grp /\ current[grp].cls = "group"
  <2>1. PICK x \in Of("group") : /\ ParentKey(current, e) \in Members(x)
                                 /\ ChildOf(current, e, ParentKey(current, e))
    BY DEF Attached
  <2>2. /\ ParentKey(current, e) \in Keys /\ Live(ParentKey(current, e))
        /\ x = ParentKey(current, ParentKey(current, e)) /\ Live(x) /\ x \in Keys
    BY <2>1 DEF Members, ChildOf, Of, Live
  <2>3. ParentKey(current, e) = ch
    BY <1>2, <1>3, <1>5, <1>11, <2>2
  <2>4. x = grp
    BY <1>2, <1>3, <1>5, <1>11, <2>2
  <2> QED BY <2>1, <2>2, <2>3, <2>4 DEF ComputeObjects, Attached, Of
<1>14. PICK one \in Attached : TRUE
  BY <1>11 DEF StrictRecorded
<1>15. current[grp].cls = "group" /\ ComputeObjects(ch) # {}
  BY <1>13, <1>14
<1>16. ASSUME NEW x \in Of("group"), NEW y \in Members(x), NEW e \in ComputeObjects(y)
       PROVE  x = grp /\ y = ch /\ e \in Attached
  <2>1. y = ParentKey(current, e) /\ x = ParentKey(current, y) /\ e \in Of("compute")
        /\ ChildOf(current, e, y)
    BY DEF ComputeObjects, Members, ChildOf
  <2>2. e \in Attached
    BY <2>1 DEF Attached
  <2> QED BY <1>13, <2>1, <2>2
<1>17. Attached = ComputeObjects(ch)
  <2>1. ASSUME NEW e \in ComputeObjects(ch) PROVE e \in Attached
    BY <1>2, <1>12, <1>15, <1>16 DEF Of
  <2> QED BY <1>13, <2>1
<1>18. ComputeMembers(grp) = {ch}
  <2>1. ch \in ComputeMembers(grp)
    BY <1>12, <1>15 DEF ComputeMembers
  <2>2. grp \in Of("group")
    BY <1>2, <1>15 DEF Of
  <2>3. ASSUME NEW y \in ComputeMembers(grp) PROVE y = ch
    BY <1>16, <2>2 DEF ComputeMembers
  <2> QED BY <2>1, <2>3
<1>19. GroupCandidates = {grp}
  <2>1. grp \in GroupCandidates
    BY <1>2, <1>15, <1>18 DEF GroupCandidates, Of
  <2>2. ASSUME NEW x \in GroupCandidates PROVE x = grp
    BY <1>16 DEF GroupCandidates, ComputeMembers
  <2> QED BY <2>1, <2>2
<1>20. StrictDiscoverable
  <2>1. UnderDevice(grp)
    BY <1>7, <1>8 DEF UnderDevice
  <2>2. Cardinality(GroupCandidates) = 1 /\ Cardinality(ComputeMembers(grp)) = 1
    BY <1>18, <1>19, FS_Singleton
  <2>3. HasClient(grp[1]) /\ Cardinality(Subdevices(Device(grp))) = 1
    BY <1>7, <1>10
  <2> HIDE DEF grp
  <2> QED BY <1>10, <1>19, <2>1, <2>2, <2>3 DEF StrictDiscoverable
<1>21. PICK g, y, s \in Keys :
             /\ GroupCandidates = {g} /\ ComputeMembers(g) = {y}
             /\ Subdevices(Device(g)) = {s}
             /\ DiscoverStrict = [client   |-> g[1],
                                  owner    |-> clients[g[1]],
                                  device   |-> Token(Device(g)),
                                  subdevice |-> Token(s),
                                  group    |-> Token(g),
                                  compute  |-> Token(y),
                                  channels |-> {Token(x) : x \in Members(g)},
                                  objects  |-> {Token(e) : e \in ComputeObjects(y)}]
  BY <1>20, OneStrictCandidate
<1>22. g = grp /\ y = ch /\ s = sub
  <2>1. g = grp
    BY <1>19, <1>21
  <2>2. y = ch
    BY <1>18, <1>21, <2>1
  <2> QED BY <1>7, <1>9, <1>21, <2>1, <2>2
<1>23. {Token(e) : e \in ComputeObjects(ch)} = strict.objects
  BY <1>11, <1>17
<1>24. DiscoverStrict = [client   |-> strict.client,
                        owner    |-> strict.owner,
                        device   |-> strict.device,
                        subdevice |-> strict.subdevice,
                        group    |-> strict.group,
                        compute  |-> strict.compute,
                        channels |-> strict.channels,
                        objects  |-> strict.objects]
  <2>1. grp[1] = c
    OBVIOUS
  <2> HIDE DEF grp, ch, sub, dev
  <2> QED BY <1>4, <1>7, <1>10, <1>21, <1>22, <1>23, <2>1
<1> QED BY <1>24 DEF StrictRecorded

LEMMA TakenIsRecorded ==
    RInv /\ StrictDiscoverable /\ strict = DiscoverStrict => StrictRecorded
<1> SUFFICES ASSUME RInv, StrictDiscoverable, strict = DiscoverStrict PROVE StrictRecorded
  OBVIOUS
<1>1. PICK grp, ch, sub \in Keys :
             /\ GroupCandidates = {grp} /\ ComputeMembers(grp) = {ch}
             /\ Subdevices(Device(grp)) = {sub}
             /\ current[grp].cls = "group" /\ UnderDevice(grp) /\ HasClient(grp[1])
             /\ strict = [client   |-> grp[1],
                         owner    |-> clients[grp[1]],
                         device   |-> Token(Device(grp)),
                         subdevice |-> Token(sub),
                         group    |-> Token(grp),
                         compute  |-> Token(ch),
                         channels |-> {Token(x) : x \in Members(grp)},
                         objects  |-> {Token(e) : e \in ComputeObjects(ch)}]
  BY OneStrictCandidate
<1> DEFINE dev == Device(grp)
<1>2. /\ current \in [Keys -> Node] /\ Unique(current)
  BY DEF RInv, GraphOK, Sound, WellTyped
<1>3. dev \in Keys /\ grp[1] \in Clients
  BY <1>2, ParentKeyIsKey DEF Device, Keys
<1>4. /\ Live(grp) /\ Live(dev) /\ current[dev].cls = "device"
      /\ current[grp].parent = dev[2] /\ current[grp].pgen # 0
  BY <1>1 DEF UnderDevice, ChildOf, ParentKey, Live
<1>5. /\ Live(sub) /\ current[sub].cls = "subdevice"
      /\ current[sub].parent = dev[2] /\ current[sub].pgen # 0
  <2>1. current[sub].cls = "subdevice" /\ ChildOf(current, sub, dev)
    BY <1>1 DEF Subdevices, Of
  <2> QED BY <2>1 DEF ChildOf, ParentKey, Live
<1>6. /\ Live(ch) /\ ch \in Members(grp) /\ ComputeObjects(ch) # {}
  BY <1>1 DEF ComputeMembers, Members, ChildOf, Live
<1>7. \A a, b \in Keys : Live(a) /\ Live(b) /\ current[a].gen = current[b].gen => a = b
  BY <1>2 DEF Unique, LiveIn, Live
<1>8. ASSUME NEW k \in Keys, Live(k)
      PROVE  /\ Token(k) = <<Token(k)[1], Token(k)[2]>> /\ Token(k)[1] \in Handles
             /\ Token(k)[2] \in Nat \ {0} /\ Token(k)[2] < next
  BY <1>8, RevisionTypes DEF Token, Keys, Live
<1>9. \A t \in StrictTokens : /\ t = <<t[1], t[2]>> /\ t[1] \in Handles
                             /\ t[2] \in Nat \ {0} /\ t[2] < next
  BY <1>1, <1>3, <1>4, <1>5, <1>6, <1>8 DEF StrictTokens
<1>10. Names(Token(dev), "device") /\ Names(Token(sub), "subdevice")
  BY <1>3, <1>4, <1>5, <1>7 DEF Names, Token
<1>11. NamesChildOf(Token(sub), dev[2]) /\ NamesChildOf(Token(grp), dev[2])
  BY <1>4, <1>5, <1>7 DEF NamesChildOf, Token
<1>12. /\ strict.device = Token(dev) /\ strict.subdevice = Token(sub)
       /\ strict.group = Token(grp) /\ strict.compute = Token(ch)
       /\ strict.device[1] = dev[2]
  BY <1>1 DEF Token
<1>13. strict.compute \in strict.channels /\ strict.objects # {}
  BY <1>1, <1>6
<1> QED BY <1>1, <1>3, <1>9, <1>10, <1>11, <1>12, <1>13 DEF StrictRecorded

-----------------------------------------------------------------------------
StrictInv == RInv /\ (strict # NoBinding => StrictRecorded)

LEMMA StrictNextPreserves == StrictInv /\ [SnapshotNext]_vars => StrictInv'
<1> SUFFICES ASSUME StrictInv, [SnapshotNext]_vars PROVE StrictInv'
  OBVIOUS
<1>1. RInv'
  BY NextPreserves DEF StrictInv, SnapshotNext, RegistryStep, TakeGroup, TakeStrict, vars
<1>2. ASSUME UNCHANGED <<registryVars, strict>> PROVE StrictInv'
  <2>1. StrictRecorded' = StrictRecorded
    BY <1>2 DEF registryVars, StrictRecorded, StrictTokens, Names, NamesChildOf, Live
  <2> QED BY <1>1, <1>2, <2>1 DEF StrictInv
<1>3. CASE RegistryStep
  <2>1. RInv /\ Next /\ UNCHANGED strict
    BY <1>3 DEF RegistryStep, StrictInv
  <2> QED BY <1>1, <2>1, StrictRecordedStays DEF StrictInv
<1>4. CASE TakeStrict
  <2>1. (StrictDiscoverable /\ strict = DiscoverStrict)'
    BY <1>4, SearchesReadTheRegistry DEF TakeStrict
  <2>2. (RInv /\ StrictDiscoverable /\ strict = DiscoverStrict => StrictRecorded)'
    BY TakenIsRecorded, PTL
  <2> QED BY <1>1, <2>1, <2>2 DEF StrictInv
<1>5. CASE TakeGroup
  BY <1>2, <1>5 DEF TakeGroup
<1>6. CASE UNCHANGED vars
  BY <1>2, <1>6 DEF vars
<1> QED BY <1>3, <1>4, <1>5, <1>6 DEF SnapshotNext

(* A strict binding passes the token walk of valid() (119-144) exactly when a *)
(* new discover() would return that binding, for every set of handles, every  *)
(* capacity and every sequence of events.                                     *)
THEOREM WalkIsRediscovery == SnapshotSpec => []StrictValidIsRediscovery
<1>1. SnapshotInit => StrictInv
  BY InitEstablishes DEF SnapshotInit, StrictInv
<1>2. StrictInv => StrictValidIsRediscovery
  <2> SUFFICES ASSUME StrictInv PROVE StrictValidIsRediscovery
    OBVIOUS
  <2> QED BY RediscoveredIsValid, ValidIsRediscovered DEF StrictInv, StrictValidIsRediscovery
<1> QED BY <1>1, <1>2, StrictNextPreserves, PTL DEF SnapshotSpec

-----------------------------------------------------------------------------
(* The controls over a strict binding.                                        *)
(* What a strict binding holds by its making, and keeps while the registry    *)
(* goes on: its handles are handles, and the generation of its subdevice was  *)
(* given to a subdevice.                                                      *)
Made(b) ==
    /\ b.client \in Clients
    /\ b.subdevice[1] \in Handles /\ b.subdevice[2] \in Nat /\ b.subdevice[2] < next
    /\ b.subdevice = <<b.subdevice[1], b.subdevice[2]>>
    /\ b.group = <<b.group[1], b.group[2]>>
    /\ b.compute = <<b.compute[1], b.compute[2]>>
    /\ \A k \in LiveIn(current) :
         current[k].gen = b.subdevice[2] => current[k].cls = "subdevice"

BindingsOK ==
    /\ strict # NoBinding => Made(strict)
    /\ verified # NoBinding => strict # NoBinding /\ verified = strict
    /\ control # NoBinding => verified # NoBinding /\ control = verified

AlteredOK ==
    \A a \in altered :
        /\ control # NoBinding /\ a = <<a[1], a[2]>> /\ a[1] \in dirty
        /\ \E t \in Targets(a[1]) : a[2] = t[1]

SInv ==
    /\ RInv /\ BindingsOK /\ AlteredOK
    /\ licence \in Licences
    /\ OwnObjectsOnly

-----------------------------------------------------------------------------
(* The registry gives every new life a new generation, and an object keeps    *)
(* its class for a life.                                                      *)
LEMMA LivesKeepTheirClass ==
    ASSUME RInv, Next
    PROVE  /\ next' >= next
           /\ \A k \in LiveIn(current') : current'[k].gen < next =>
                /\ current'[k].gen = current[k].gen
                /\ current'[k].cls = current[k].cls
                /\ k \in LiveIn(current)
<1>1. next \in Nat /\ next' \in {next, next + 1}
  BY NextEffects, RevisionTypes DEF GraphEffects
<1>2. ASSUME NEW k \in LiveIn(current'), current'[k].gen < next
      PROVE  /\ current'[k].gen = current[k].gen /\ current'[k].cls = current[k].cls
             /\ k \in LiveIn(current)
  BY <1>2, LivesKeepTheirPlace DEF LiveIn
<1> QED BY <1>1, <1>2

(* So a binding is made for good.                                             *)
LEMMA MadeStays ==
    ASSUME RInv, Next, NEW b, Made(b)
    PROVE  Made(b)'
<1>1. next \in Nat /\ next' \in Nat
  BY NextPreserves DEF RInv, GraphOK
<1>2. b.subdevice[2] \in Nat /\ b.subdevice[2] < next /\ b.subdevice[2] < next'
  BY <1>1, LivesKeepTheirClass DEF Made
<1>3. \A k \in LiveIn(current') :
        current'[k].gen = b.subdevice[2] => current'[k].cls = "subdevice"
  BY <1>2, LivesKeepTheirClass DEF Made
<1> QED BY <1>2, <1>3 DEF Made

(* discover() makes such a binding.                                           *)
LEMMA DiscoveredIsMade ==
    ASSUME RInv, StrictDiscoverable
    PROVE  Made(DiscoverStrict)
<1> DEFINE grp == CHOOSE x \in GroupCandidates : TRUE
           s == CHOOSE x \in Subdevices(Device(grp)) : TRUE
<1>1. next \in Nat \ {0} /\ WellTyped(current, next) /\ Unique(current)
  BY DEF RInv, GraphOK, Sound
<1>2. GroupCandidates # {}
  BY FS_EmptySet DEF StrictDiscoverable
<1>3. grp \in GroupCandidates
  BY <1>2
<1>4. grp \in Keys /\ Cardinality(Subdevices(Device(grp))) = 1
  BY <1>3 DEF StrictDiscoverable, GroupCandidates, Of
<1>5. Subdevices(Device(grp)) # {}
  BY <1>4, FS_EmptySet
<1>6. s \in Subdevices(Device(grp))
  BY <1>5
<1>7. s \in Keys /\ current[s].cls = "subdevice" /\ current[s].gen # 0
  BY <1>6 DEF Subdevices, Of, ChildOf
<1>8. DiscoverStrict = StrictBindingOf(grp)
  BY DEF DiscoverStrict
<1> HIDE DEF grp
<1>9. /\ DiscoverStrict.client = grp[1]
      /\ DiscoverStrict.subdevice = Token(s)
      /\ DiscoverStrict.group = Token(grp)
      /\ DiscoverStrict.compute = Token(CHOOSE x \in ComputeMembers(grp) : TRUE)
  BY <1>8 DEF StrictBindingOf
<1> HIDE DEF s
<1>10. s[2] \in Handles /\ grp[1] \in Clients
  BY <1>4, <1>7 DEF Keys
<1>11. current[s].gen \in Nat /\ current[s].gen < next
  BY <1>1, <1>7 DEF WellTyped, Node
<1>12. \A k \in LiveIn(current) : current[k].gen = current[s].gen => k = s
  BY <1>1, <1>7 DEF Unique, LiveIn
<1> QED BY <1>7, <1>9, <1>10, <1>11, <1>12 DEF Made, Token

-----------------------------------------------------------------------------
(* Under a valid binding the handles of a command lead to the objects that    *)
(* the binding names, and a command to its channels reaches the whole group.  *)
LEMMA FoundAreNamed ==
    ASSUME RInv, Made(control), ValidStrict(control)
    PROVE  /\ \A t \in {control.subdevice, control.group, control.compute}
                        \cup control.channels :
                Found({t}) = {t}
           /\ control.channels =
                {Token(ch) : ch \in Members(<<control.client, control.group[1]>>)}
           /\ control.subdevice \notin control.channels
<1> DEFINE grp == <<control.client, control.group[1]>>
<1>1. control.channels = {Token(ch) : ch \in Members(grp)}
  BY DEF ValidStrict, Members
<1>2. \A t \in {control.subdevice, control.group, control.compute} :
        IsCurrent(control.client, t)
  BY DEF ValidStrict
<1>3. ASSUME NEW t, t = <<t[1], t[2]>>, IsCurrent(control.client, t)
      PROVE  Found({t}) = {t}
  BY <1>3 DEF Found, Token, IsCurrent
<1>4. ASSUME NEW ch \in Members(grp)
      PROVE  ch = <<control.client, ch[2]>> /\ ch \in Keys /\ current[ch].cls = "channel"
  BY <1>4 DEF Members, Of, ChildOf, ParentKey, Keys
<1>5. ASSUME NEW t \in control.channels
      PROVE  Found({t}) = {t}
  <2>1. PICK ch \in Members(grp) : t = Token(ch)
    BY <1>1
  <2>2. t[1] = ch[2]
    BY <2>1 DEF Token
  <2>3. Token(<<control.client, t[1]>>) = t
    BY <1>4, <2>1, <2>2
  <2> QED BY <2>3 DEF Found
<1>6. control.subdevice \notin control.channels
  <2> SUFFICES ASSUME control.subdevice \in control.channels PROVE FALSE
    OBVIOUS
  <2>1. PICK ch \in Members(grp) : control.subdevice = Token(ch)
    BY <1>1
  <2>2. /\ current[ch].gen = control.subdevice[2]
        /\ ch = <<control.client, control.subdevice[1]>>
    BY <1>4, <2>1 DEF Token
  <2>3. current[ch].gen # 0
    BY <1>2, <2>2 DEF IsCurrent, Live
  <2>4. current[ch].cls = "subdevice"
    BY <1>4, <2>2, <2>3 DEF Made, LiveIn
  <2> QED BY <1>4, <2>4
<1> QED BY <1>1, <1>2, <1>3, <1>5, <1>6 DEF Made

LEMMA FoundSets ==
    ASSUME RInv, Made(control), ValidStrict(control),
           NEW T \in SUBSET ({control.subdevice, control.group, control.compute}
                               \cup control.channels)
    PROVE  Found(T) = T
<1>1. \A t \in T : Token(<<control.client, t[1]>>) = t
  BY FoundAreNamed DEF Found
<1> QED BY <1>1 DEF Found

(* A command that passed issue() and was sent is one of the licence.          *)
LEMMA SentIsOwn ==
    ASSUME SInv, MayAct, control # NoBinding,
           NEW command \in {"preempt", "restart"} \cup Settings, NEW tokens,
           Send(command, tokens),
           tokens \subseteq {control.subdevice, control.group, control.compute}
                              \cup control.channels,
           command = "disabled" => tokens = control.channels \cup {control.subdevice},
           verified' = verified, licence' = licence
    PROVE  OwnObjectsOnly'
<1>1. Made(control) /\ ValidStrict(control) /\ control = verified /\ RInv
  BY DEF SInv, BindingsOK, MayAct, Licensed
<1>2. /\ sent'.command = command /\ sent'.found = tokens
      /\ sent'.members = {Token(ch) : ch \in Members(<<control.client, control.group[1]>>)}
  <2>1. Found(tokens) = tokens
    BY <1>1, FoundSets
  <2> QED BY <2>1 DEF Send
<1>3. licence' = [stage |-> "active", authorized |-> TRUE, reviewed |-> TRUE]
  BY DEF SInv, MayAct, Licensed, Licences
<1>4. sent'.found \subseteq
        {verified'.subdevice, verified'.group, verified'.compute} \cup verified'.channels
  BY <1>1, <1>2
<1>5. command = "disabled" => sent'.found \ {verified'.subdevice} = sent'.members
  <2>1. /\ control.channels = sent'.members
        /\ control.subdevice \notin control.channels
    BY <1>1, <1>2, FoundAreNamed
  <2> QED BY <1>1, <1>2, <2>1
<1> QED BY <1>2, <1>3, <1>4, <1>5 DEF OwnObjectsOnly

-----------------------------------------------------------------------------
LEMMA ControlInitEstablishes == SnapshotInit /\ ControlInit => SInv
BY InitEstablishes DEF SnapshotInit, ControlInit, SInv, BindingsOK, AlteredOK, OwnObjectsOnly

(* The registry is untouched by everything but an event of the application.   *)
LEMMA QuietKeepsBindings ==
    ASSUME SInv, UNCHANGED registryVars
    PROVE  RInv' /\ \A b : Made(b) => Made(b)'
<1>1. RInv'
  BY NextPreserves DEF SInv
<1>2. UNCHANGED <<current, next>>
  BY DEF registryVars
<1> QED BY <1>1, <1>2 DEF Made, LiveIn

LEMMA ApplicationPreserves == ASSUME SInv, ApplicationStep PROVE SInv'
<1>1. RInv /\ Next /\ UNCHANGED <<strict, licence, verified, control, dirty>>
  BY DEF SInv, ApplicationStep, RegistryStep
<1>2. RInv'
  BY <1>1, NextPreserves
<1>3. BindingsOK'
  BY <1>1, MadeStays DEF SInv, BindingsOK
<1>4. altered' \subseteq altered
  BY DEF ApplicationStep
<1>5. AlteredOK'
  BY <1>1, <1>4 DEF SInv, AlteredOK, Targets
<1>6. OwnObjectsOnly'
  BY DEF ApplicationStep, OwnObjectsOnly
<1> QED BY <1>1, <1>2, <1>3, <1>5, <1>6 DEF SInv

LEMMA DiscoverPreserves == ASSUME SInv, Discover PROVE SInv'
<1>1. /\ strict = NoBinding /\ StrictDiscoverable /\ strict' = DiscoverStrict
      /\ UNCHANGED registryVars /\ UNCHANGED <<licence, control, dirty, altered>>
      /\ (verified' = strict' \/ verified' = verified) /\ sent' = NotSent
  BY DEF Discover, TakeStrict
<1>2. RInv' /\ Made(strict)'
  <2>1. ASSUME NEW b, b = DiscoverStrict PROVE Made(b)'
    BY <1>1, <2>1, DiscoveredIsMade, QuietKeepsBindings DEF SInv
  <2>2. PICK b : b = DiscoverStrict
    OBVIOUS
  <2>3. Made(b)' /\ strict' = b
    BY <1>1, <2>1, <2>2
  <2> QED BY <1>1, <2>3, QuietKeepsBindings DEF Made
<1>3. verified = NoBinding /\ control = NoBinding
  BY <1>1 DEF SInv, BindingsOK
<1>4. BindingsOK'
  BY <1>1, <1>2, <1>3 DEF BindingsOK
<1>5. AlteredOK' /\ OwnObjectsOnly'
  BY <1>1 DEF SInv, AlteredOK, Targets, OwnObjectsOnly
<1> QED BY <1>1, <1>2, <1>4, <1>5 DEF SInv

LEMMA BuildPreserves == ASSUME SInv, Build PROVE SInv'
<1>1. /\ control = NoBinding /\ control' = strict /\ strict = verified /\ verified # NoBinding
      /\ UNCHANGED <<registryVars, strict, licence, verified, dirty, altered>> /\ sent' = NotSent
  BY DEF Build, vars
<1>2. RInv' /\ BindingsOK'
  BY <1>1, QuietKeepsBindings DEF SInv, BindingsOK
<1>3. AlteredOK' /\ OwnObjectsOnly'
  BY <1>1 DEF SInv, AlteredOK, OwnObjectsOnly
<1> QED BY <1>1, <1>2, <1>3 DEF SInv

(* What remains of the invariant when a control changes no binding.           *)
LEMMA ControlKeepsBindings ==
    ASSUME SInv, UNCHANGED <<vars, licence, verified, control>>
    PROVE  RInv' /\ BindingsOK' /\ licence' \in Licences
<1>1. UNCHANGED <<registryVars, strict>>
  BY DEF vars
<1> QED BY <1>1, QuietKeepsBindings DEF SInv, BindingsOK

LEMMA SilentPreserves ==
    ASSUME SInv, UNCHANGED <<vars, licence, verified, control, dirty, altered>>,
           sent' = NotSent \/ sent' = sent
    PROVE  SInv'
<1>1. RInv' /\ BindingsOK' /\ licence' \in Licences
  BY ControlKeepsBindings
<1>2. AlteredOK' /\ OwnObjectsOnly'
  BY DEF SInv, AlteredOK, Targets, OwnObjectsOnly
<1> QED BY <1>1, <1>2 DEF SInv

LEMMA PreemptPreserves == ASSUME SInv, NEW wait \in BOOLEAN, Preempt(wait) PROVE SInv'
<1>1. /\ control # NoBinding /\ MayAct /\ Send("preempt", {control.group})
      /\ UNCHANGED <<vars, licence, verified, control, dirty, altered>>
  BY DEF Preempt
<1>2. OwnObjectsOnly'
  BY <1>1, SentIsOwn
<1>3. AlteredOK'
  BY <1>1 DEF SInv, AlteredOK, Targets
<1> QED BY <1>1, <1>2, <1>3, ControlKeepsBindings DEF SInv

LEMMA RestartPreserves == ASSUME SInv, Restart PROVE SInv'
<1>1. /\ control # NoBinding /\ MayAct /\ Send("restart", {control.compute})
      /\ UNCHANGED <<vars, licence, verified, control, dirty, altered>>
  BY DEF Restart
<1>2. OwnObjectsOnly'
  BY <1>1, SentIsOwn
<1>3. AlteredOK'
  BY <1>1 DEF SInv, AlteredOK, Targets
<1> QED BY <1>1, <1>2, <1>3, ControlKeepsBindings DEF SInv

(* A change or a restoration that is sent names and finds its own objects.    *)
LEMMA SettingSent ==
    ASSUME SInv, MayAct, control # NoBinding, NEW setting \in Settings,
           Send(setting, Addressed(setting)), verified' = verified, licence' = licence
    PROVE  OwnObjectsOnly'
<1>1. /\ Addressed(setting) \subseteq {control.subdevice, control.group, control.compute}
                                      \cup control.channels
      /\ setting = "disabled" => Addressed(setting) = control.channels \cup {control.subdevice}
  BY DEF Targets, Addressed
<1> QED BY <1>1, SentIsOwn

LEMMA ChangePreserves == ASSUME SInv, NEW setting \in Settings, Change(setting) PROVE SInv'
<1>1. /\ control # NoBinding /\ dirty' = dirty \cup {setting}
      /\ UNCHANGED <<vars, licence, verified, control>>
  BY DEF Change
<1>2. RInv' /\ BindingsOK' /\ licence' \in Licences
  BY <1>1, ControlKeepsBindings
<1>3. CASE ~ MayAct
  <2>1. sent' = NotSent /\ altered' = altered
    BY <1>3 DEF Change
  <2>2. AlteredOK' /\ OwnObjectsOnly'
    BY <1>1, <2>1 DEF SInv, AlteredOK, Targets, OwnObjectsOnly
  <2> QED BY <1>2, <2>2 DEF SInv
<1>4. CASE MayAct
  <2>1. PICK touched \in SUBSET Targets(setting) :
            /\ Send(setting, Addressed(setting))
            /\ altered' = altered \cup Altered(setting, touched)
    BY <1>4 DEF Change
  <2>2. OwnObjectsOnly'
    BY <1>1, <1>4, <2>1, SettingSent
  <2>3. AlteredOK'
    <3> SUFFICES ASSUME NEW a \in altered'
                 PROVE  /\ a = <<a[1], a[2]>> /\ a[1] \in dirty'
                        /\ \E t \in Targets(a[1]) : a[2] = t[1]
      BY <1>1 DEF AlteredOK, Targets
    <3>1. CASE a \in altered
      BY <1>1, <3>1 DEF SInv, AlteredOK
    <3>2. CASE a \in Altered(setting, touched)
      BY <1>1, <3>2 DEF Altered
    <3> QED BY <2>1, <3>1, <3>2
  <2> QED BY <1>2, <2>2, <2>3 DEF SInv
<1> QED BY <1>3, <1>4

LEMMA RestorePreserves == ASSUME SInv, NEW setting \in Settings, Restore(setting) PROVE SInv'
<1>1. control # NoBinding /\ UNCHANGED <<vars, licence, verified, control>>
  BY DEF Restore
<1>2. RInv' /\ BindingsOK' /\ licence' \in Licences
  BY <1>1, ControlKeepsBindings
<1>3. CASE ~ MayAct
  <2>1. sent' = NotSent /\ altered' = altered /\ dirty' = dirty
    BY <1>3 DEF Restore
  <2>2. AlteredOK' /\ OwnObjectsOnly'
    BY <1>1, <2>1 DEF SInv, AlteredOK, Targets, OwnObjectsOnly
  <2> QED BY <1>2, <2>2 DEF SInv
<1>4. CASE MayAct
  <2>1. PICK touched \in SUBSET Targets(setting) :
            /\ Send(setting, Addressed(setting))
            /\ altered' = altered \ Altered(setting, touched)
            /\ \/ touched = Targets(setting) /\ dirty' = dirty \ {setting}
               \/ dirty' = dirty
    BY <1>4 DEF Restore
  <2>2. OwnObjectsOnly'
    BY <1>1, <1>4, <2>1, SettingSent
  <2>3. AlteredOK'
    <3> SUFFICES ASSUME NEW a \in altered'
                 PROVE  /\ a = <<a[1], a[2]>> /\ a[1] \in dirty'
                        /\ \E t \in Targets(a[1]) : a[2] = t[1]
      BY <1>1 DEF AlteredOK, Targets
    <3>1. a \in altered /\ a \notin Altered(setting, touched)
      BY <2>1
    <3>2. /\ a = <<a[1], a[2]>> /\ a[1] \in dirty
          /\ \E t \in Targets(a[1]) : a[2] = t[1]
      BY <3>1 DEF SInv, AlteredOK
    <3>3. touched = Targets(setting) => a[1] # setting
      BY <3>1, <3>2 DEF Altered
    <3> QED BY <2>1, <3>2, <3>3
  <2> QED BY <1>2, <2>2, <2>3 DEF SInv
<1> QED BY <1>3, <1>4

LEMMA ControlStepPreserves == SInv /\ [ControlNext]_strictVars => SInv'
<1> SUFFICES ASSUME SInv, [ControlNext]_strictVars PROVE SInv'
  OBVIOUS
<1>1. CASE UNCHANGED strictVars
  BY <1>1, SilentPreserves DEF strictVars, controlVars
<1>2. CASE ApplicationStep
  BY <1>2, ApplicationPreserves
<1>3. CASE InspectOwnedTsg
  <2>1. UNCHANGED <<registryVars, strict, licence, verified, control, dirty, altered, sent>>
    BY <1>3 DEF InspectOwnedTsg, TakeGroup, controlVars
  <2>2. RInv' /\ BindingsOK'
    BY <2>1, QuietKeepsBindings DEF SInv, BindingsOK
  <2>3. AlteredOK' /\ OwnObjectsOnly'
    BY <2>1 DEF SInv, AlteredOK, Targets, OwnObjectsOnly
  <2> QED BY <2>1, <2>2, <2>3 DEF SInv
<1>4. CASE Discover
  BY <1>4, DiscoverPreserves
<1>5. CASE Build
  BY <1>5, BuildPreserves
<1>6. CASE ReadOrRefused
  BY <1>6, SilentPreserves DEF ReadOrRefused
<1>7. ASSUME NEW wait \in BOOLEAN, Preempt(wait) PROVE SInv'
  BY <1>7, PreemptPreserves
<1>8. CASE Restart
  BY <1>8, RestartPreserves
<1>9. CASE MarkWorkDrained
  BY <1>9, SilentPreserves DEF MarkWorkDrained
<1>10. ASSUME NEW setting \in Settings, Change(setting) PROVE SInv'
  BY <1>10, ChangePreserves
<1>11. ASSUME NEW setting \in Settings, Restore(setting) PROVE SInv'
  BY <1>11, RestorePreserves
<1> QED BY <1>1, <1>2, <1>3, <1>4, <1>5, <1>6, <1>7, <1>8, <1>9, <1>10, <1>11 DEF ControlNext

-----------------------------------------------------------------------------
(* rm_control.cpp, issue(): an active command of the strict identity reaches  *)
(* the driver only with the whole licence, finds exactly what GET_INFO        *)
(* verified, and a disable names every channel of the group.                  *)
THEOREM ReachOwnObjectsOnly == StrictSpec => []OwnObjectsOnly
<1>1. SInv => OwnObjectsOnly
  BY DEF SInv
<1> QED BY <1>1, ControlInitEstablishes, ControlStepPreserves, PTL DEF StrictSpec

(* recovery.h and its users: whatever was changed and not restored has its    *)
(* flag, after refused and half done commands and under a stale binding.      *)
THEOREM FlagsCoverChanges == StrictSpec => []NothingLeftAltered
<1>1. SInv => NothingLeftAltered
  BY DEF SInv, AlteredOK, NothingLeftAltered
<1> QED BY <1>1, ControlInitEstablishes, ControlStepPreserves, PTL DEF StrictSpec

-----------------------------------------------------------------------------
(* The controls keep and check snapshots without touching the registry: to it *)
(* every command is silent, so whatever holds of snapshots holds under them.  *)
THEOREM ControlKeepsSnapshots == StrictSpec => SnapshotSpec
<1>1. ASSUME [ControlNext]_strictVars PROVE [SnapshotNext]_vars
  <2>1. CASE UNCHANGED strictVars
    BY <2>1 DEF strictVars
  <2>2. CASE ApplicationStep
    BY <2>2 DEF ApplicationStep, SnapshotNext
  <2>3. CASE InspectOwnedTsg
    BY <2>3 DEF InspectOwnedTsg, SnapshotNext
  <2>4. CASE Discover
    BY <2>4 DEF Discover, SnapshotNext
  <2>5. CASE Build \/ ReadOrRefused \/ Restart \/ MarkWorkDrained
    BY <2>5 DEF Build, ReadOrRefused, Restart, MarkWorkDrained
  <2>6. ASSUME NEW wait \in BOOLEAN, Preempt(wait) PROVE UNCHANGED vars
    BY <2>6 DEF Preempt
  <2>7. ASSUME NEW setting \in Settings, Change(setting) \/ Restore(setting)
        PROVE  UNCHANGED vars
    BY <2>7 DEF Change, Restore
  <2> QED BY <1>1, <2>1, <2>2, <2>3, <2>4, <2>5, <2>6, <2>7 DEF ControlNext
<1> QED BY <1>1, PTL DEF StrictSpec, SnapshotSpec

(* valid_group (184-188) and valid (119-144) with the controls at work: both  *)
(* answers stay exact between any commands of the strict identity.            *)
THEOREM SnapshotsExactUnderControl ==
    StrictSpec => [](GroupSnapshotExact /\ StrictValidIsRediscovery)
BY ControlKeepsSnapshots, SnapshotsAreExact, WalkIsRediscovery, PTL
=============================================================================
