---------------------------- MODULE ObjectRegistry ----------------------------
(***************************************************************************)
(* The registry of RM objects a process has observed itself allocate       *)
(* (active-preempt/src/object_registry.{h,cpp}): the map of current nodes, *)
(* the retained control descriptor of every client, the generation and     *)
(* topology counters, and the two binding searches that read them.         *)
(*                                                                         *)
(* A map entry is a value of a total function; generation 0, which the     *)
(* counter never hands out, stands for "no entry".  The engine number of a *)
(* node is left out: bind() replaces the generation whenever it replaces   *)
(* the engine, so two equal tokens have equal engines.  One topology tick  *)
(* stands for all the increments of one operation: a revision is only ever *)
(* compared with an earlier value of the same slot.                        *)
(***************************************************************************)
EXTENDS Integers, FiniteSets

CONSTANTS
    Clients,        \* client handles
    Handles,        \* object handles, the client handles included
    Fds,            \* descriptor numbers fcntl(F_DUPFD_CLOEXEC) may return
    AllocShapes,    \* the <<handle, parent, class>> triples RM_ALLOC carries
    Capacity,       \* capacity_: maximum number of current nodes, of clients
    MaxGeneration,  \* bound: no event once next reaches it
    MaxHistory      \* bound: no event once this many are recorded

Classes == {"root", "device", "subdevice", "group", "channel", "compute", "other"}

NoFd == -1
NoClass == "none"

ASSUME RegistryAssumption ==
    /\ Clients \subseteq Handles
    /\ IsFiniteSet(Handles)
    /\ Fds \subseteq Nat
    /\ AllocShapes \subseteq Handles \X Handles \X Classes
    /\ Capacity \in Nat
    /\ MaxGeneration \in Nat /\ MaxHistory \in Nat

Keys == Clients \X Handles

Node == [cls : Classes \cup {NoClass}, gen : Nat, parent : Handles, pgen : Nat]

VARIABLES
    current,       \* current_: key -> node
    clients,       \* clients_: client -> retained descriptor and generation
    next,          \* next_
    incomplete,    \* incomplete_ is not empty
    hist,          \* history_.size()
    revision,      \* membership_revisions_
    candidates,    \* compute_candidates_revision_
    nextTopology   \* next_topology_

registryVars ==
    <<current, clients, next, incomplete, hist, revision, candidates, nextTopology>>

HistoryCapacity == Capacity * 4

-----------------------------------------------------------------------------
(* The object graph.  The operators take the graph as a parameter because    *)
(* an operation looks at it before and after its own changes.                *)

LiveIn(g) == {k \in Keys : g[k].gen # 0}

Live(k) == current[k].gen # 0

\* A handle that names no current node: map keys with no entry.
NoNode(k) == [cls |-> NoClass, gen |-> 0, parent |-> k[2], pgen |-> 0]

ParentKey(g, k) == <<k[1], g[k].parent>>

\* a is a current child of the current node p: same client, same parent token.
ChildOf(g, a, p) ==
    /\ g[a].gen # 0 /\ g[p].gen # 0
    /\ p = ParentKey(g, a)
    /\ g[a].pgen = g[p].gen

IsGroupMember(g, ch, grp) ==
    /\ g[ch].cls = "channel" /\ g[grp].cls = "group"
    /\ ChildOf(g, ch, grp)

HasParentIn(g, a, S) ==
    LET p == ParentKey(g, a) IN p \in S /\ ChildOf(g, a, p)

\* Variant: the object and its children, but not theirs.
DoomedOneLevel(g, root) == {root} \cup {a \in LiveIn(g) : HasParentIn(g, a, {root})}

\* S holds every current child of its members.
ClosedDownward(g, S) == \A a \in LiveIn(g) \ S : ~ HasParentIn(g, a, S)

(* The keys erase_tree collects: the least set with the root that is closed   *)
(* downward.                                                                  *)
Doomed(g, root) ==
    CHOOSE S \in {T \cup {root} : T \in SUBSET (LiveIn(g) \ {root})} :
        /\ ClosedDownward(g, S)
        /\ \A T \in SUBSET S : root \in T /\ ClosedDownward(g, T) => T = S

Erased(g, D) == [k \in Keys |-> IF k \in D THEN NoNode(k) ELSE g[k]]

(* touch_topology applied to every node of T while the graph is g: the groups *)
(* whose membership revision moves, and whether the candidate revision does.  *)
\* A compute node leads to the channel that carries its parent's handle.
TouchedGroups(g, T) ==
    {grp \in Keys : \E k \in T :
        LET ch == IF g[k].cls = "compute" THEN ParentKey(g, k) ELSE k
        IN  IsGroupMember(g, ch, grp)}

\* Variant: channels count as compute candidates.
TouchesAnyEngine(g, T) == \E k \in T : g[k].cls \in {"compute", "channel"}

TouchesCompute(g, T) == \E k \in T : g[k].cls = "compute"

\* Variant: the revision of an erased group stays in its slot.
ReviseInPlace(touched, gone, compute) ==
    /\ revision' = [k \in Keys |-> IF k \in touched THEN nextTopology ELSE revision[k]]
    /\ candidates' = IF compute THEN nextTopology ELSE candidates
    /\ nextTopology' = IF compute \/ touched # {} THEN nextTopology + 1
                                                  ELSE nextTopology

(* The revisions after an operation that touched the groups in "touched" and  *)
(* erased the keys in "gone"; "compute" tells whether a compute node was      *)
(* touched.                                                                   *)
Revise(touched, gone, compute) ==
    /\ revision' = [k \in Keys |-> IF k \in gone THEN 0
                                   ELSE IF k \in touched THEN nextTopology
                                   ELSE revision[k]]
    /\ candidates' = IF compute THEN nextTopology ELSE candidates
    /\ nextTopology' = IF compute \/ touched # {} THEN nextTopology + 1
                                                  ELSE nextTopology

(* history(event): an event that does not fit makes the capture incomplete.   *)
Record ==
    IF hist >= HistoryCapacity
    THEN incomplete' = TRUE /\ UNCHANGED hist
    ELSE hist' = hist + 1 /\ UNCHANGED incomplete

MarkIncomplete == incomplete' = TRUE /\ UNCHANGED hist

Unrevised == UNCHANGED <<revision, candidates, nextTopology>>

-----------------------------------------------------------------------------
Init ==
    /\ current = [k \in Keys |-> NoNode(k)]
    /\ clients = [c \in Clients |-> [fd |-> NoFd, gen |-> 0]]
    /\ next = 1
    /\ incomplete = FALSE
    /\ hist = 0
    /\ revision = [k \in Keys |-> 0]
    /\ candidates = 0
    /\ nextTopology = 1

HasClient(c) == clients[c].gen # 0

(* client(c, fd): the first allocation of a client retains a duplicate of its *)
(* descriptor; a client already known is left alone.                          *)
Client(c, fd) ==
    /\ UNCHANGED current /\ Unrevised
    /\ \/ /\ fd = NoFd
          /\ MarkIncomplete
          /\ UNCHANGED <<clients, next>>
       \/ /\ fd # NoFd /\ HasClient(c)
          /\ UNCHANGED <<clients, next, incomplete, hist>>
       \/ /\ fd # NoFd /\ ~ HasClient(c)
          /\ Cardinality({d \in Clients : HasClient(d)}) >= Capacity
          /\ MarkIncomplete
          /\ UNCHANGED <<clients, next>>
       \/ /\ fd # NoFd /\ ~ HasClient(c)
          /\ Cardinality({d \in Clients : HasClient(d)}) < Capacity
          /\ clients' = [clients EXCEPT ![c] = [fd |-> fd, gen |-> next]]
          /\ next' = next + 1
          /\ Record

(* The graph allocate() leaves when the new node fits: the subtree of a node  *)
(* that still held the handle is gone, and the parent token names the current *)
(* owner of the parent handle, or generation 0 when there is none.            *)
Replaced(k) == IF Live(k) THEN Doomed(current, k) ELSE {}

Inserted(g, k, p, cls) ==
    [g EXCEPT ![k] = [cls |-> cls, gen |-> next, parent |-> p,
                      pgen |-> g[<<k[1], p>>].gen]]

Allocate(c, h, p, cls) ==
    LET k   == <<c, h>>
        old == Replaced(k)
        g   == Erased(current, old)
        new == Inserted(g, k, p, cls)
    IN  \/ /\ ~ HasClient(c)
           /\ MarkIncomplete
           /\ UNCHANGED <<current, clients, next>> /\ Unrevised
        \/ /\ HasClient(c)
           /\ Cardinality(LiveIn(g)) >= Capacity
           /\ current' = g
           /\ Revise(TouchedGroups(current, old), old, TouchesCompute(current, old))
           /\ MarkIncomplete
           /\ UNCHANGED <<clients, next>>
        \/ /\ HasClient(c)
           /\ Cardinality(LiveIn(g)) < Capacity
           /\ current' = new
           /\ next' = next + 1
           /\ Revise(TouchedGroups(current, old) \cup TouchedGroups(new, {k}), old,
                     TouchesCompute(current, old) \/ cls = "compute")
           /\ Record
           /\ UNCHANGED clients

(* bind(c, h, engine): the node keeps its children but gets a new generation. *)
Rebound(k) ==
    [a \in Keys |->
        IF a = k THEN [current[k] EXCEPT !.gen = next]
        ELSE IF ChildOf(current, a, k) THEN [current[a] EXCEPT !.pgen = next]
        ELSE current[a]]

Bind(c, h) ==
    LET k == <<c, h>>
    IN  \/ /\ ~ Live(k)
           /\ MarkIncomplete
           /\ UNCHANGED <<current, clients, next>> /\ Unrevised
        \/ /\ Live(k)
           /\ Revise(TouchedGroups(current, {k}), {}, TouchesCompute(current, {k}))
           /\ current' = Rebound(k)
           /\ next' = next + 1
           /\ Record
           /\ UNCHANGED clients

(* free(c, h) with c # h: the node and its current descendants go.            *)
FreeObject(c, h) ==
    LET gone == Replaced(<<c, h>>)
    IN  /\ c # h
        /\ current' = Erased(current, gone)
        /\ Revise(TouchedGroups(current, gone), gone, TouchesCompute(current, gone))
        /\ Record
        /\ UNCHANGED <<clients, next>>

(* free(c, c): everything the client owns goes, its descriptor included.      *)
FreeClient(c) ==
    LET gone == {k \in LiveIn(current) : k[1] = c}
    IN  /\ current' = Erased(current, gone)
        /\ Revise(TouchedGroups(current, gone), {k \in Keys : k[1] = c},
                  TouchesCompute(current, gone))
        /\ clients' = [clients EXCEPT ![c] = [fd |-> NoFd, gen |-> 0]]
        /\ Record
        /\ UNCHANGED next

(* incomplete(reason): the hook could not decode or record an ioctl.          *)
Incomplete ==
    /\ MarkIncomplete
    /\ UNCHANGED <<current, clients, next>> /\ Unrevised

WithinBounds == next < MaxGeneration /\ hist < MaxHistory

Next ==
    /\ WithinBounds
    /\ \/ \E c \in Clients, fd \in Fds \cup {NoFd} : Client(c, fd)
       \/ \E c \in Clients, shape \in AllocShapes : Allocate(c, shape[1], shape[2], shape[3])
       \/ \E c \in Clients, h \in Handles : Bind(c, h)
       \/ \E c \in Clients, h \in Handles : FreeObject(c, h)
       \/ \E c \in Clients : FreeClient(c)
       \/ Incomplete

Spec == Init /\ [][Next]_registryVars

-----------------------------------------------------------------------------
(* Type invariant.  Counters are ahead of everything they have handed out, a  *)
(* client has a descriptor exactly while it has a generation, and only a      *)
(* current group keeps a membership revision (object_registry.cpp 64, 88).    *)
TypeOK ==
    /\ current \in [Keys -> Node]
    /\ clients \in [Clients -> [fd : Fds \cup {NoFd}, gen : Nat]]
    /\ next \in Nat \ {0} /\ nextTopology \in Nat \ {0}
    /\ incomplete \in BOOLEAN
    /\ hist \in 0 .. HistoryCapacity
    /\ revision \in [Keys -> Nat] /\ candidates \in Nat
    /\ \A k \in Keys : current[k].gen < next /\ current[k].pgen < next
    /\ \A c \in Clients : /\ clients[c].gen < next
                          /\ clients[c].fd = NoFd <=> clients[c].gen = 0
    /\ \A k \in Keys : revision[k] < nextTopology
    /\ \A k \in Keys : revision[k] # 0 => current[k].cls = "group"
    /\ \A k \in Keys : Live(k) <=> current[k].cls # NoClass
    /\ candidates < nextTopology

(* A parent token with a generation always names a current node: whatever     *)
(* order of FREE, handle reuse and BIND came before, erase_tree (58-65) left  *)
(* no descendant of a dead object behind and bind() (81) left no child        *)
(* pointing at the old generation.                                            *)
ParentTokensLive ==
    \A k \in LiveIn(current) :
        current[k].pgen # 0 => ChildOf(current, k, ParentKey(current, k))

(* Two current nodes never share a generation, nor a node and a client: a     *)
(* token identifies one life of one object across every handle reuse.         *)
GenerationsUnique ==
    /\ \A a, b \in LiveIn(current) : current[a].gen = current[b].gen => a = b
    /\ \A c \in Clients, k \in LiveIn(current) : clients[c].gen # current[k].gen

(* Every non-empty set of current nodes has one whose parent is outside it:   *)
(* ancestry has no cycle.  The worklist of erase_tree (59-62) keeps no record *)
(* of what it visited, so with a cycle it would never end, inside the ioctl   *)
(* hook and holding the capture lock.                                         *)
AncestryWellFounded ==
    \A S \in (SUBSET LiveIn(current)) \ {{}} :
        \E k \in S : ~ HasParentIn(current, k, S)

(* A client that is gone owns nothing: the next life of the same handle       *)
(* starts with no object of the previous one (84-90).                         *)
NoOrphanClient ==
    \A k \in LiveIn(current) : HasClient(k[1])

(* The graph is sound in all four respects together, after any order of       *)
(* allocation, handle reuse, BIND and FREE, at full capacity too.             *)
GraphSound ==
    ParentTokensLive /\ GenerationsUnique /\ AncestryWellFounded /\ NoOrphanClient
=============================================================================
