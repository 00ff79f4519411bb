-------------------------- MODULE GroupControl_proofs --------------------------
(***************************************************************************)
(* The group controls are used at most once, on the group that was asked   *)
(* about and in the scope that was authorized, for every capacity of the   *)
(* journal and however many operations, retries and changes there are; the *)
(* recovered journal counts the requests right; and the process implements *)
(* the one-shot contract.                                                  *)
(*                                                                         *)
(* The properties speak of the requests that were sent; what keeps them is *)
(* spread over the query, the PREEMPT, the profile and the operation in    *)
(* progress.  GInv ties these together: what a request in flight was       *)
(* checked against still holds when it is sent, because the operation      *)
(* keeps the lock.  SlotsOK ties the slots to the requests they stand for. *)
(***************************************************************************)
EXTENDS GroupControl, FiniteSetTheorems, TLAPS

Profiles ==
    [configured : BOOLEAN, stage : Stages, observing : BOOLEAN, authorized : BOOLEAN,
     owner : Owners, authScope : Visible \cup {None}, cudaReady : BOOLEAN,
     gpuReviewed : BOOLEAN, scope : {None, Gpu}, bindingObserved : BOOLEAN,
     infoVerified : BOOLEAN]

Requests ==
    [cmd : {"GET_INFO", "PREEMPT"}, binding : Epochs, epoch : Epochs, ok : BOOLEAN,
     visible : Visible]

Slots ==
    [cmd : {"GET_INFO", "PREPARE", "PREEMPT"}, binding : Epochs,
     state : {"issued", "returned"}, attempted : BOOLEAN]

Operations ==
    {Idle}
    \cup [step : {"query"}, binding : Epochs, slot : Nat]
    \cup [step : {"queried"}, slot : Nat, ok : BOOLEAN]
    \cup [step : {"prepare"}, binding : Epochs, slot : Nat, noop : BOOLEAN,
          inRange : BOOLEAN, completed : BOOLEAN]
    \cup [step : {"preempt", "preempted"}, binding : Epochs, prepSlot : Nat, slot : Nat]

Types ==
    /\ state \in Profiles
    /\ visible \in Visible /\ trial \in Trials
    /\ epoch \in Epochs
    /\ identities \subseteq Epochs /\ observed \in identities \cup {NoBinding}
    /\ info \in [consumed : BOOLEAN, binding : identities \cup {NoBinding},
                 verified : BOOLEAN, scope : {None, Gpu}]
    /\ spent \in BOOLEAN
    /\ op \in Operations
    /\ sent \in Seq(Requests)

(* No stage before the process is configured, and that happens once.          *)
ProfileOK == ~ state.configured => state.stage = "Disabled"

(* A slot in flight belongs to the operation in progress.                     *)
JournalOK ==
    /\ journal \in Seq(Slots)
    /\ \A i \in DOMAIN journal : journal[i].state = "issued" =>
          \/ op.step \in {"query", "queried", "prepare"} /\ i = op.slot
          \/ op.step \in {"preempt", "preempted"} /\ i \in {op.slot, op.prepSlot}

Queries == RequestsOf("GET_INFO")
Preempts == RequestsOf("PREEMPT")

GoodQuery(b) == \E q \in Queries : sent[q].ok /\ sent[q].binding = b

QueryOK ==
    /\ ~ info.consumed =>
          Queries = {} /\ ~ info.verified /\ op.step \notin {"query", "queried"}
    /\ op.step = "query" =>
          /\ Queries = {} /\ ~ info.verified
          /\ op.binding = info.binding /\ visible = info.scope
    /\ op.step = "queried" => ~ info.verified /\ (op.ok => GoodQuery(info.binding))
    /\ info.verified => GoodQuery(info.binding)
    /\ \A q \in Queries : sent[q].visible = info.scope
    /\ \A p, q \in Queries : p = q

Authorized ==
    /\ state.configured /\ state.stage = "GroupActive" /\ state.owner = "Background"
    /\ state.authorized /\ info.verified /\ state.authScope = info.scope

PreemptOK ==
    /\ ~ spent => Preempts = {} /\ op.step \notin {"preempt", "preempted"}
    /\ op.step = "preempt" =>
          /\ Preempts = {} /\ Authorized
          /\ op.binding = info.binding /\ op.binding = epoch /\ visible = info.scope
    /\ \A i \in Preempts :
          /\ Authorized
          /\ sent[i].binding = info.binding /\ sent[i].epoch = info.binding
          /\ sent[i].visible = info.scope
          /\ \E q \in Queries : q < i /\ sent[q].ok /\ sent[q].binding = info.binding
    /\ \A i, j \in Preempts : i = j

GInv == Types /\ ProfileOK /\ JournalOK /\ QueryOK /\ PreemptOK

-----------------------------------------------------------------------------
LEMMA InitEstablishes == Init => GInv
<1> SUFFICES ASSUME Init PROVE GInv
  OBVIOUS
<1>1. 1 \in Epochs
  BY GroupAssumption DEF Epochs, GroupAssumption
<1>2. state \in Profiles
  BY DEF Init, Profiles, Stages, GroupStages, Owners, Visible, None
<1>3. /\ visible \in Visible /\ trial \in Trials
      /\ identities \subseteq Epochs /\ observed \in identities \cup {NoBinding}
      /\ spent \in BOOLEAN
  BY DEF Init, Trials, Visible
<1>4. info \in [consumed : BOOLEAN, binding : identities \cup {NoBinding},
                verified : BOOLEAN, scope : {None, Gpu}]
  BY DEF Init
<1>5. op \in Operations /\ sent \in Seq(Requests) /\ epoch \in Epochs
  BY <1>1 DEF Init, Operations
<1>6. Types
  BY <1>2, <1>3, <1>4, <1>5 DEF Types
<1>7. ProfileOK /\ JournalOK
  BY DEF Init, ProfileOK, JournalOK
<1>8. QueryOK /\ PreemptOK
  BY DEF Init, QueryOK, PreemptOK, Queries, Preempts, RequestsOf, Idle
<1> QED BY <1>6, <1>7, <1>8 DEF GInv

(* A request appended to those sent is the only new one.                      *)
LEMMA Sending ==
    ASSUME NEW r \in Requests, sent \in Seq(Requests), sent' = Append(sent, r)
    PROVE  /\ sent' \in Seq(Requests)
           /\ \A cmd : RequestsOf(cmd)' =
                 IF cmd = r.cmd THEN RequestsOf(cmd) \cup {Len(sent) + 1} ELSE RequestsOf(cmd)
           /\ \A i \in DOMAIN sent : sent'[i] = sent[i]
           /\ sent'[Len(sent) + 1] = r
           /\ \A i \in DOMAIN sent : i < Len(sent) + 1
<1>1. DOMAIN sent = 1 .. Len(sent) /\ DOMAIN sent' = 1 .. Len(sent) + 1
      /\ Len(sent) \in Nat
  OBVIOUS
<1> QED BY <1>1 DEF RequestsOf

(* Completing a slot leaves every other one as it is.                         *)
LEMMA Completing ==
    ASSUME NEW j \in Seq(Slots), NEW n \in Nat, NEW attempted \in BOOLEAN
    PROVE  /\ Completed(j, n, attempted) \in Seq(Slots)
           /\ DOMAIN Completed(j, n, attempted) = DOMAIN j
           /\ \A i \in DOMAIN j : Completed(j, n, attempted)[i].state = "issued" =>
                 i # n /\ j[i].state = "issued"
<1> DEFINE c == Completed(j, n, attempted)
<1>1. CASE n \notin DOMAIN j
  <2>1. [j EXCEPT ![n].state = "returned"] = j
    BY <1>1
  <2>2. [j EXCEPT ![n].attempted = attempted] = j
    BY <1>1
  <2>3. c = j
    BY <2>1, <2>2 DEF Completed
  <2> QED BY <1>1, <2>3
<1>2. CASE n \in DOMAIN j
  <2>1. c = [j EXCEPT ![n] = [j[n] EXCEPT !.state = "returned", !.attempted = attempted]]
    BY <1>2 DEF Completed, Slots
  <2>2. j[n] \in Slots
    BY <1>2
  <2>3. /\ [j[n] EXCEPT !.state = "returned", !.attempted = attempted] \in Slots
        /\ [j[n] EXCEPT !.state = "returned", !.attempted = attempted].state = "returned"
    BY <2>2 DEF Slots
  <2>4. c \in Seq(Slots) /\ DOMAIN c = DOMAIN j
    BY <1>2, <2>1, <2>3
  <2>5. c[n].state = "returned"
    BY <1>2, <2>1, <2>3
  <2>6. \A i \in DOMAIN j : i # n => c[i] = j[i]
    BY <1>2, <2>1
  <2> QED BY <2>4, <2>5, <2>6
<1> QED BY <1>1, <1>2

(* A slot published at the end: the others keep their place.                  *)
LEMMA Publishing ==
    ASSUME NEW j \in Seq(Slots), NEW s \in Slots
    PROVE  /\ Append(j, s) \in Seq(Slots)
           /\ \A i \in DOMAIN Append(j, s) : Append(j, s)[i].state = "issued" =>
                 \/ i = Len(j) + 1 /\ s.state = "issued"
                 \/ i \in DOMAIN j /\ j[i].state = "issued"
OBVIOUS

-----------------------------------------------------------------------------
(* What an idle process does to its profile, its binding or its surroundings  *)
(* leaves the requests and their checks alone: the authorization is fixed     *)
(* from the moment the process is configured.                                 *)
AuthorizationKept ==
    state.configured =>
        /\ state'.configured
        /\ state'.stage = state.stage /\ state'.owner = state.owner
        /\ state'.authorized = state.authorized /\ state'.authScope = state.authScope

LEMMA IdlePreserves ==
    ASSUME GInv, Unlocked, UNCHANGED <<info, spent, journal, op, sent>>,
           Types', ProfileOK', AuthorizationKept
    PROVE  GInv'
<1>1. op.step = "idle" /\ op'.step = "idle"
  BY DEF Unlocked, Idle
<1>2. Queries' = Queries /\ Preempts' = Preempts
  BY DEF Queries, Preempts, RequestsOf
<1>3. JournalOK'
  BY <1>1 DEF GInv, JournalOK
<1>4. QueryOK'
  BY <1>1, <1>2 DEF GInv, QueryOK, GoodQuery
<1>5. Authorized => Authorized'
  BY DEF Authorized, AuthorizationKept
<1>6. PreemptOK'
  BY <1>1, <1>2, <1>5 DEF GInv, PreemptOK
<1> QED BY <1>3, <1>4, <1>6 DEF GInv

LEMMA ConfigurePreserves ==
    ASSUME GInv, NEW stage \in Stages, NEW authorized \in BOOLEAN, NEW owner \in Owners,
           Configure(stage, authorized, owner)
    PROVE  GInv'
<1>1. Types'
  <2>1. state' \in Profiles
    BY DEF GInv, Types, Configure, Profiles, Visible, None
  <2> QED BY <2>1 DEF GInv, Types, Configure, setupVars, registryVars, bindingVars
<1>2. ProfileOK' /\ AuthorizationKept
  BY DEF GInv, Types, Profiles, ProfileOK, AuthorizationKept, Configure
<1> QED BY <1>1, <1>2, IdlePreserves DEF Configure

LEMMA ProfilePreserves ==
    ASSUME GInv,
           (\E reviewed \in BOOLEAN : NoteCudaReady(reviewed)) \/ NoteScope
    PROVE  GInv'
<1>1. state' \in Profiles
  BY DEF GInv, Types, Profiles, NoteCudaReady, NoteScope
<1>2. Types'
  BY <1>1 DEF GInv, Types, NoteCudaReady, NoteScope, setupVars, registryVars, bindingVars
<1>3. ProfileOK' /\ AuthorizationKept
  BY DEF GInv, Types, Profiles, ProfileOK, AuthorizationKept, NoteCudaReady, NoteScope
<1> QED BY <1>2, <1>3, IdlePreserves DEF NoteCudaReady, NoteScope

LEMMA InspectPreserves == ASSUME GInv, InspectGroup PROVE GInv'
<1>1. state' \in Profiles
  BY DEF GInv, Types, Profiles, InspectGroup
<1>2. /\ identities' \subseteq Epochs /\ observed' \in identities' \cup {NoBinding}
      /\ info' \in [consumed : BOOLEAN, binding : identities' \cup {NoBinding},
                     verified : BOOLEAN, scope : {None, Gpu}]
  BY DEF GInv, Types, InspectGroup
<1>3. Types'
  BY <1>1, <1>2 DEF GInv, Types, InspectGroup, setupVars, registryVars
<1>4. ProfileOK' /\ AuthorizationKept
  BY DEF GInv, Types, Profiles, ProfileOK, AuthorizationKept, InspectGroup
<1> QED BY <1>3, <1>4, IdlePreserves DEF InspectGroup

LEMMA SurroundingsPreserve ==
    ASSUME GInv,
           \/ OpenJournal \/ (\E t \in Trials : RecordTrial(t))
           \/ TopologyChanges \/ AmbiguityChanges \/ EnvironmentChanges
    PROVE  GInv'
<1>1. epoch' \in Epochs
  BY GroupAssumption DEF GInv, Types, Epochs, GroupAssumption, OpenJournal, RecordTrial,
     TopologyChanges, AmbiguityChanges, EnvironmentChanges, registryVars
<1>2. /\ Unlocked
      /\ UNCHANGED <<state, observed, identities, info, spent, journal, op, sent>>
      /\ visible' \in Visible /\ trial' \in Trials
  BY DEF GInv, Types, OpenJournal, RecordTrial, TopologyChanges, AmbiguityChanges,
     EnvironmentChanges, setupVars, bindingVars
<1>3. Types'
  BY <1>1, <1>2 DEF GInv, Types
<1>4. ProfileOK' /\ AuthorizationKept
  BY <1>2 DEF GInv, ProfileOK, AuthorizationKept
<1> QED BY <1>2, <1>3, <1>4, IdlePreserves

-----------------------------------------------------------------------------
(* Operations that send nothing: they write the journal and move to a step    *)
(* that has been checked for nothing yet.                                     *)
LEMMA QuietPreserves ==
    ASSUME GInv, UNCHANGED <<state, setupVars, registryVars, bindingVars, info, spent, sent>>,
           op.step \notin {"query", "queried", "preempt"},
           op'.step \in {"idle", "prepare", "preempted"},
           op'.step = "preempted" => op.step = "preempted",
           op' \in Operations, JournalOK'
    PROVE  GInv'
<1>1. Queries' = Queries /\ Preempts' = Preempts /\ (Authorized => Authorized')
  BY DEF Queries, Preempts, RequestsOf, Authorized
<1>2. Types' /\ ProfileOK'
  BY DEF GInv, Types, ProfileOK, setupVars, registryVars, bindingVars
<1>3. QueryOK'
  BY <1>1 DEF GInv, QueryOK, GoodQuery
<1>4. PreemptOK'
  BY <1>1 DEF GInv, PreemptOK
<1> QED BY <1>2, <1>3, <1>4 DEF GInv

LEMMA RejectedQueryPreserves ==
    ASSUME GInv, NEW b \in identities, GetInfoRejected(b)
    PROVE  GInv'
<1>1. op = Idle /\ op' = Idle /\ op.step = "idle" /\ b \in Epochs
  BY DEF GInv, Types, GetInfoRejected, Unlocked, Idle
<1>2. JournalOK'
  <2> DEFINE s == [Issued("GET_INFO", b) EXCEPT !.state = "returned"]
  <2>1. s \in Slots /\ s.state = "returned"
    BY <1>1 DEF Issued, Slots
  <2>2. journal' = journal \/ journal' = Append(journal, s)
    BY DEF GetInfoRejected, Rejected
  <2>3. journal \in Seq(Slots) /\ \A i \in DOMAIN journal : journal[i].state # "issued"
    BY <1>1 DEF GInv, JournalOK
  <2>4. journal' \in Seq(Slots) /\ \A i \in DOMAIN journal' : journal'[i].state # "issued"
    <3> HIDE DEF s
    <3> QED BY <2>1, <2>2, <2>3, Publishing
  <2> QED BY <2>4 DEF JournalOK
<1> QED BY <1>1, <1>2, QuietPreserves DEF GetInfoRejected, Operations

LEMMA ActionStartPreserves ==
    ASSUME GInv, NEW b \in identities, NEW noop \in BOOLEAN, NEW inRange \in BOOLEAN,
           NEW completed \in BOOLEAN, ActionStart(b, noop, inRange, completed)
    PROVE  GInv'
<1>1. op = Idle /\ op.step = "idle" /\ b \in Epochs
  BY DEF GInv, Types, ActionStart, Unlocked, Idle
<1>2. journal \in Seq(Slots) /\ \A i \in DOMAIN journal : journal[i].state # "issued"
  BY <1>1 DEF GInv, JournalOK
<1>3. CASE UNCHANGED <<journal, op>>
  <2>1. JournalOK'
    BY <1>2, <1>3 DEF JournalOK
  <2> QED BY <1>1, <1>3, <2>1, QuietPreserves DEF ActionStart, Operations
<1>4. CASE /\ journal' = Append(journal, Issued("PREPARE", b))
           /\ op' = [step |-> "prepare", binding |-> b, slot |-> Len(journal) + 1,
                     noop |-> noop, inRange |-> inRange, completed |-> completed]
  <2>1. Issued("PREPARE", b) \in Slots /\ Len(journal) + 1 \in Nat
    BY <1>1, <1>2 DEF Issued, Slots
  <2>2. op' \in Operations /\ op'.step = "prepare" /\ op'.slot = Len(journal) + 1
    BY <1>1, <1>4, <2>1 DEF Operations
  <2>3. JournalOK'
    BY <1>2, <1>4, <2>1, <2>2, Publishing DEF JournalOK
  <2> QED BY <1>1, <2>2, <2>3, QuietPreserves DEF ActionStart
<1> QED BY <1>3, <1>4 DEF ActionStart

(* The parts of an operation in each of its steps.                            *)
LEMMA OperationParts ==
    ASSUME GInv
    PROVE  /\ op.step \in {"query", "prepare", "preempt", "preempted"} =>
                 op.binding \in Epochs /\ op.slot \in Nat
           /\ op.step = "queried" => op.slot \in Nat /\ op.ok \in BOOLEAN
           /\ op.step \in {"preempt", "preempted"} => op.prepSlot \in Nat
BY DEF GInv, Types, Operations, Idle

LEMMA SkipPreserves ==
    ASSUME GInv, ActionSkip \/ PreemptRejected
    PROVE  GInv'
<1> DEFINE done == Completed(journal, op.slot, FALSE)
           s == [Issued("PREEMPT", op.binding) EXCEPT !.state = "returned"]
<1>1. op.step = "prepare" /\ op' = Idle /\ op.binding \in Epochs /\ op.slot \in Nat
  BY OperationParts DEF ActionSkip, PreemptRejected
<1>2. journal \in Seq(Slots) /\ \A i \in DOMAIN journal : journal[i].state = "issued" => i = op.slot
  BY <1>1 DEF GInv, JournalOK
<1>3. done \in Seq(Slots) /\ \A i \in DOMAIN done : done[i].state # "issued"
  <2>1. /\ done \in Seq(Slots) /\ DOMAIN done = DOMAIN journal
        /\ \A i \in DOMAIN journal : done[i].state = "issued" =>
              i # op.slot /\ journal[i].state = "issued"
    BY <1>1, <1>2, Completing, Zenon
  <2> QED BY <1>2, <2>1
<1>4. s \in Slots /\ s.state = "returned"
  BY <1>1 DEF Issued, Slots
<1>5. journal' = done \/ journal' = Append(done, s)
  BY DEF ActionSkip, PreemptRejected, Rejected
<1>6. journal' \in Seq(Slots) /\ \A i \in DOMAIN journal' : journal'[i].state # "issued"
  <2> HIDE DEF s, done
  <2> QED BY <1>3, <1>4, <1>5, Publishing
<1>7. JournalOK'
  BY <1>6 DEF JournalOK
<1>8. op'.step = "idle" /\ op' \in Operations
  BY <1>1 DEF Idle, Operations
<1> QED BY <1>1, <1>7, <1>8, QuietPreserves DEF ActionSkip, PreemptRejected

LEMMA PreemptReturnPreserves == ASSUME GInv, PreemptReturn PROVE GInv'
<1> DEFINE once == Completed(journal, op.slot, TRUE)
           twice == Completed(once, op.prepSlot, FALSE)
<1>1. op.step = "preempted" /\ op' = Idle /\ op.slot \in Nat /\ op.prepSlot \in Nat
  BY OperationParts DEF PreemptReturn
<1>2. journal \in Seq(Slots)
      /\ \A i \in DOMAIN journal : journal[i].state = "issued" => i \in {op.slot, op.prepSlot}
  BY <1>1 DEF GInv, JournalOK
<1>3. once \in Seq(Slots) /\ \A i \in DOMAIN once : once[i].state = "issued" => i = op.prepSlot
  <2>1. /\ once \in Seq(Slots) /\ DOMAIN once = DOMAIN journal
        /\ \A i \in DOMAIN journal : once[i].state = "issued" =>
              i # op.slot /\ journal[i].state = "issued"
    BY <1>1, <1>2, Completing, Zenon
  <2> QED BY <1>2, <2>1
<1>4. twice \in Seq(Slots) /\ \A i \in DOMAIN twice : twice[i].state # "issued"
  <2>1. /\ twice \in Seq(Slots) /\ DOMAIN twice = DOMAIN once
        /\ \A i \in DOMAIN once : twice[i].state = "issued" =>
              i # op.prepSlot /\ once[i].state = "issued"
    <3> HIDE DEF once
    <3> QED BY <1>1, <1>3, Completing, Zenon
  <2> HIDE DEF twice
  <2> QED BY <1>3, <2>1
<1>5. JournalOK'
  BY <1>4 DEF JournalOK, PreemptReturn
<1>6. op'.step = "idle" /\ op' \in Operations
  BY <1>1 DEF Idle, Operations
<1> QED BY <1>1, <1>5, <1>6, QuietPreserves DEF PreemptReturn

-----------------------------------------------------------------------------
(* The query.  It spends the one attempt before the ioctl, so a second one    *)
(* finds it consumed whatever came of the first.                              *)
LEMMA QueryStartPreserves ==
    ASSUME GInv, NEW b \in identities, GetInfoStart(b)
    PROVE  GInv'
<1>1. op.step = "idle" /\ b \in Epochs /\ journal \in Seq(Slots)
      /\ \A i \in DOMAIN journal : journal[i].state # "issued"
  BY DEF GInv, Types, JournalOK, GetInfoStart, Unlocked, Idle
<1>2. /\ ~ info.consumed /\ ~ info.verified /\ Queries = {} /\ Preempts = {}
      /\ Queries' = {} /\ Preempts' = {}
  BY DEF GInv, QueryOK, PreemptOK, Authorized, GetInfoStart, QueryAccepted, Queries,
     Preempts, RequestsOf
<1>3. /\ op' \in Operations /\ op'.step = "query" /\ op'.binding = b
      /\ op'.slot = Len(journal) + 1
  BY <1>1 DEF GetInfoStart, Operations
<1>4. /\ info' \in [consumed : BOOLEAN, binding : identities \cup {NoBinding},
                     verified : BOOLEAN, scope : {None, Gpu}]
      /\ info'.consumed /\ ~ info'.verified /\ info'.binding = b
      /\ info'.scope = state.scope
  BY <1>2 DEF GInv, Types, Profiles, GetInfoStart
<1>5. Types' /\ ProfileOK'
  BY <1>3, <1>4 DEF GInv, Types, ProfileOK, GetInfoStart, setupVars, registryVars, bindingVars
<1>6. JournalOK'
  <2>1. Issued("GET_INFO", b) \in Slots
    BY <1>1 DEF Issued, Slots
  <2> QED BY <1>1, <1>3, <2>1, Publishing DEF JournalOK, GetInfoStart
<1>7. visible' = info'.scope
  BY <1>4 DEF GetInfoStart, EnvironmentCurrent, setupVars
<1>8. QueryOK'
  BY <1>2, <1>3, <1>4, <1>7 DEF QueryOK
<1>9. PreemptOK'
  BY <1>2, <1>3 DEF PreemptOK
<1> QED BY <1>5, <1>6, <1>8, <1>9 DEF GInv

LEMMA QueryIoctlPreserves ==
    ASSUME GInv, NEW ok \in BOOLEAN, GetInfoIoctl(ok)
    PROVE  GInv'
<1> DEFINE r == [cmd |-> "GET_INFO", binding |-> op.binding, epoch |-> epoch, ok |-> ok,
                 visible |-> visible]
           n == Len(sent) + 1
<1>1. /\ op.step = "query" /\ op.binding \in Epochs /\ op.slot \in Nat
      /\ op.binding = info.binding /\ visible = info.scope /\ ~ info.verified
      /\ info.consumed /\ Queries = {} /\ Preempts = {}
  BY OperationParts DEF GInv, GetInfoIoctl, QueryOK, PreemptOK, Authorized
<1>2. r \in Requests
  BY <1>1 DEF GInv, Types, Requests
<1>3. /\ sent' \in Seq(Requests) /\ sent'[n] = r
      /\ Queries' = {n} /\ Preempts' = {}
  <2>1. sent' = Append(sent, r) /\ sent \in Seq(Requests)
    BY DEF GInv, Types, GetInfoIoctl
  <2> QED BY <1>1, <1>2, <2>1, Sending DEF Queries, Preempts
<1>4. op' \in Operations /\ op'.step = "queried" /\ op'.slot = op.slot /\ op'.ok = ok
  BY <1>1 DEF GetInfoIoctl, Operations
<1>5. Types' /\ ProfileOK'
  BY <1>3, <1>4 DEF GInv, Types, ProfileOK, GetInfoIoctl, setupVars, registryVars, bindingVars
<1>6. JournalOK'
  BY <1>1, <1>4 DEF GInv, JournalOK, GetInfoIoctl
<1>7. QueryOK'
  BY <1>1, <1>3, <1>4 DEF QueryOK, GoodQuery, GetInfoIoctl
<1>8. PreemptOK'
  BY <1>3, <1>4 DEF PreemptOK
<1> QED BY <1>5, <1>6, <1>7, <1>8 DEF GInv

LEMMA QueryReturnPreserves == ASSUME GInv, GetInfoReturn PROVE GInv'
<1> DEFINE done == Completed(journal, op.slot, TRUE)
<1>1. /\ op.step = "queried" /\ op.slot \in Nat /\ op.ok \in BOOLEAN /\ op' = Idle
      /\ ~ info.verified /\ info.consumed /\ Preempts = {}
      /\ op.ok => GoodQuery(info.binding)
  BY OperationParts DEF GInv, GetInfoReturn, QueryOK, PreemptOK, Authorized
<1>2. Queries' = Queries /\ Preempts' = {}
  BY <1>1 DEF GetInfoReturn, Queries, Preempts, RequestsOf
<1>3. op'.step = "idle" /\ op' \in Operations
  BY <1>1 DEF Idle, Operations
<1>4. /\ info' \in [consumed : BOOLEAN, binding : identities \cup {NoBinding},
                     verified : BOOLEAN, scope : {None, Gpu}]
      /\ info'.consumed /\ info'.verified = op.ok /\ info'.binding = info.binding
      /\ info'.scope = info.scope
  BY <1>1 DEF GInv, Types, GetInfoReturn
<1>5. state' \in Profiles /\ state'.configured = state.configured /\ state'.stage = state.stage
  BY <1>1 DEF GInv, Types, Profiles, GetInfoReturn
<1>6. Types' /\ ProfileOK'
  BY <1>3, <1>4, <1>5 DEF GInv, Types, ProfileOK, GetInfoReturn, setupVars, registryVars,
     bindingVars
<1>7. JournalOK'
  <2>1. /\ done \in Seq(Slots) /\ DOMAIN done = DOMAIN journal
        /\ \A i \in DOMAIN journal : done[i].state = "issued" =>
              i # op.slot /\ journal[i].state = "issued"
    <3>1. journal \in Seq(Slots)
      BY DEF GInv, JournalOK
    <3> QED BY <1>1, <3>1, Completing, Zenon
  <2>2. \A i \in DOMAIN journal : journal[i].state = "issued" => i = op.slot
    BY <1>1 DEF GInv, JournalOK
  <2>3. journal' = done
    BY DEF GetInfoReturn
  <2> HIDE DEF done
  <2> QED BY <2>1, <2>2, <2>3 DEF JournalOK
<1>8. QueryOK'
  <2>1. /\ UNCHANGED sent
        /\ \A q \in Queries : sent[q].visible = info.scope
        /\ \A p, q \in Queries : p = q
    BY DEF GInv, QueryOK, GetInfoReturn
  <2> QED BY <1>1, <1>2, <1>3, <1>4, <2>1 DEF QueryOK, GoodQuery
<1>9. PreemptOK'
  BY <1>2, <1>3 DEF PreemptOK
<1> QED BY <1>6, <1>7, <1>8, <1>9 DEF GInv

(* The PREEMPT.  Everything it needs is checked when it starts, under the     *)
(* lock that keeps it true to the ioctl.                                      *)
LEMMA PreemptStartPreserves == ASSUME GInv, PreemptStart PROVE GInv'
<1> DEFINE b == op.binding
<1>1. /\ op.step = "prepare" /\ b \in Epochs /\ op.slot \in Nat
      /\ journal \in Seq(Slots)
      /\ \A i \in DOMAIN journal : journal[i].state = "issued" => i = op.slot
  BY OperationParts DEF GInv, JournalOK, PreemptStart
<1>2. /\ op' \in Operations /\ op'.step = "preempt" /\ op'.binding = b
      /\ op'.prepSlot = op.slot /\ op'.slot = Len(journal) + 1
  BY <1>1 DEF PreemptStart, Operations
<1>3. Types' /\ ProfileOK'
  BY <1>2 DEF GInv, Types, ProfileOK, PreemptStart, setupVars, registryVars, bindingVars
<1>4. JournalOK'
  <2>1. Issued("PREEMPT", b) \in Slots
    BY <1>1 DEF Issued, Slots
  <2> QED BY <1>1, <1>2, <2>1, Publishing DEF JournalOK, PreemptStart
<1>5. Queries' = Queries /\ Preempts' = {} /\ Preempts = {}
  BY DEF GInv, PreemptOK, PreemptStart, PreemptAccepted, Queries, Preempts, RequestsOf
<1>6. QueryOK'
  BY <1>1, <1>2, <1>5 DEF GInv, QueryOK, GoodQuery, PreemptStart
<1>7. info.verified /\ info.binding = b /\ info.scope = state.scope
      /\ visible = state.scope /\ b = epoch
  BY DEF PreemptStart, Prepared, EnvironmentCurrent, ValidGroup, VerifiedFor
<1>8. Authorized
  <2>1. /\ state.stage = "GroupActive" /\ state.authorized /\ state.authScope = state.scope
        /\ state.owner = "Background"
    BY DEF PreemptStart, Prepared, PreemptAccepted
  <2>2. state.configured
    BY <2>1 DEF GInv, ProfileOK
  <2> QED BY <1>7, <2>1, <2>2 DEF Authorized
<1>9. PreemptOK'
  BY <1>2, <1>5, <1>7, <1>8 DEF PreemptOK, Authorized, PreemptStart, setupVars, registryVars
<1> QED BY <1>3, <1>4, <1>6, <1>9 DEF GInv

LEMMA PreemptIoctlPreserves ==
    ASSUME GInv, NEW ok \in BOOLEAN, PreemptIoctl(ok)
    PROVE  GInv'
<1> DEFINE r == [cmd |-> "PREEMPT", binding |-> op.binding, epoch |-> epoch, ok |-> ok,
                 visible |-> visible]
           n == Len(sent) + 1
<1>1. /\ op.step = "preempt" /\ op.binding \in Epochs
      /\ op.binding = info.binding /\ op.binding = epoch /\ visible = info.scope
      /\ Authorized /\ spent /\ Preempts = {}
  BY OperationParts DEF GInv, PreemptIoctl, PreemptOK
<1>2. r \in Requests
  BY <1>1 DEF GInv, Types, Requests
<1>3. /\ sent' \in Seq(Requests) /\ sent'[n] = r
      /\ Queries' = Queries /\ Preempts' = {n}
      /\ \A q \in Queries : sent'[q] = sent[q] /\ q < n
  <2>1. sent' = Append(sent, r) /\ sent \in Seq(Requests)
    BY DEF GInv, Types, PreemptIoctl
  <2> QED BY <1>1, <1>2, <2>1, Sending DEF Queries, Preempts, RequestsOf
<1>4. op' \in Operations /\ op'.step = "preempted" /\ op'.slot = op.slot
      /\ op'.prepSlot = op.prepSlot
  BY <1>1 DEF GInv, Types, PreemptIoctl, Operations, Idle
<1>5. Types' /\ ProfileOK'
  BY <1>3, <1>4 DEF GInv, Types, ProfileOK, PreemptIoctl, setupVars, registryVars, bindingVars
<1>6. JournalOK'
  BY <1>1, <1>4 DEF GInv, JournalOK, PreemptIoctl
<1>7. UNCHANGED <<info, state, spent>>
  BY DEF PreemptIoctl
<1>8. QueryOK'
  BY <1>1, <1>3, <1>4, <1>7 DEF GInv, QueryOK, GoodQuery
<1>9. PreemptOK'
  <2>1. \E q \in Queries : sent[q].ok /\ sent[q].binding = info.binding
    BY <1>1 DEF GInv, QueryOK, GoodQuery, Authorized
  <2>2. Authorized'
    BY <1>1, <1>7 DEF Authorized
  <2>3. /\ sent'[n].binding = info'.binding /\ sent'[n].epoch = info'.binding
        /\ sent'[n].visible = info'.scope
    <3>1. r.binding = info.binding /\ r.epoch = info.binding /\ r.visible = info.scope
      BY <1>1
    <3>2. info' = info /\ sent'[n] = r
      BY <1>3, <1>7
    <3> HIDE DEF r, n
    <3> QED BY <3>1, <3>2
  <2>4. \E q \in Queries' : q < n /\ sent'[q].ok /\ sent'[q].binding = info'.binding
    BY <1>3, <1>7, <2>1
  <2>5. spent'
    BY <1>1, <1>7
  <2> HIDE DEF r, n
  <2> QED BY <1>3, <1>4, <2>2, <2>3, <2>4, <2>5 DEF PreemptOK
<1> QED BY <1>5, <1>6, <1>8, <1>9 DEF GInv

-----------------------------------------------------------------------------
LEMMA NextPreserves == GInv /\ [Next]_vars => GInv'
<1> SUFFICES ASSUME GInv, [Next]_vars PROVE GInv'
  OBVIOUS
<1>1. CASE \E stage \in Stages, authorized \in BOOLEAN, owner \in Owners :
              Configure(stage, authorized, owner)
  BY <1>1, ConfigurePreserves
<1>2. CASE (\E reviewed \in BOOLEAN : NoteCudaReady(reviewed)) \/ NoteScope
  BY <1>2, ProfilePreserves
<1>3. CASE \/ OpenJournal \/ (\E t \in Trials : RecordTrial(t))
           \/ TopologyChanges \/ AmbiguityChanges \/ EnvironmentChanges
  BY <1>3, SurroundingsPreserve
<1>4. CASE InspectGroup
  BY <1>4, InspectPreserves
<1>5. CASE \E b \in identities : GetInfoRejected(b)
  BY <1>5, RejectedQueryPreserves
<1>6. CASE \E b \in identities : GetInfoStart(b)
  BY <1>6, QueryStartPreserves
<1>7. CASE \E ok \in BOOLEAN : GetInfoIoctl(ok)
  BY <1>7, QueryIoctlPreserves
<1>8. CASE GetInfoReturn
  BY <1>8, QueryReturnPreserves
<1>9. CASE \E b \in identities, noop, inRange, completed \in BOOLEAN :
              ActionStart(b, noop, inRange, completed)
  BY <1>9, ActionStartPreserves
<1>10. CASE ActionSkip \/ PreemptRejected
  BY <1>10, SkipPreserves
<1>11. CASE PreemptStart
  BY <1>11, PreemptStartPreserves
<1>12. CASE \E ok \in BOOLEAN : PreemptIoctl(ok)
  BY <1>12, PreemptIoctlPreserves
<1>13. CASE PreemptReturn
  BY <1>13, PreemptReturnPreserves
<1>14. CASE UNCHANGED vars
  <2>1. GInv'
    BY <1>14 DEF vars, setupVars, registryVars, bindingVars, GInv, Types, ProfileOK,
       JournalOK, QueryOK, PreemptOK, Queries, Preempts, RequestsOf, GoodQuery, Authorized
  <2> QED BY <2>1
<1> QED BY <1>1, <1>2, <1>3, <1>4, <1>5, <1>6, <1>7, <1>8, <1>9, <1>10, <1>11, <1>12,
           <1>13, <1>14 DEF Next

LEMMA Invariance == Spec => []GInv
BY InitEstablishes, NextPreserves, PTL DEF Spec

-----------------------------------------------------------------------------
(* The types of GroupControl, and that an idle process has no slot in flight, *)
(* hold in every reachable state.                                             *)
THEOREM TypeCorrect == Spec => []GroupTypeOK
<1>1. GInv => GroupTypeOK
  <2> SUFFICES ASSUME GInv PROVE GroupTypeOK
    OBVIOUS
  <2>1. /\ state.stage \in Stages /\ state.owner \in Owners
        /\ state.scope \in {None, Gpu} /\ state.authScope \in Visible \cup {None}
    BY DEF GInv, Types, Profiles
  <2>2. \A i \in DOMAIN journal : journal[i].state \in {"issued", "returned"}
    <3>1. \A i \in DOMAIN journal : journal[i] \in Slots
      BY DEF GInv, JournalOK
    <3> QED BY <3>1 DEF Slots
  <2>3. Unlocked => \A i \in DOMAIN journal : journal[i].state = "returned"
    BY <2>2 DEF GInv, JournalOK, Unlocked, Idle
  <2> QED BY <2>1, <2>2, <2>3 DEF GInv, Types, GroupTypeOK
<1> QED BY <1>1, Invariance, PTL

(* Sets with at most one element, as the properties count requests.           *)
LEMMA AtMostOne ==
    ASSUME NEW S, \A a, b \in S : a = b
    PROVE  Cardinality(S) <= 1 /\ (S = {} \/ \E a : S = {a})
<1>1. CASE S = {}
  BY <1>1, FS_EmptySet
<1>2. CASE S # {}
  <2>1. PICK a \in S : TRUE
    BY <1>2
  <2>2. S = {a}
    BY <2>1
  <2>3. Cardinality(S) = 1
    BY <2>2, FS_Singleton
  <2> QED BY <2>2, <2>3
<1> QED BY <1>1, <1>2

(* A process sends at most one GET_INFO and one PREEMPT, whatever the RM      *)
(* answers and however often it is asked again.                               *)
LEMMA AtMostOnce == Spec => []AtMostOncePerProcess
<1>1. GInv => AtMostOncePerProcess
  <2> SUFFICES ASSUME GInv PROVE AtMostOncePerProcess
    OBVIOUS
  <2>1. Cardinality(Queries) <= 1 /\ Cardinality(Preempts) <= 1
    BY AtMostOne DEF GInv, QueryOK, PreemptOK
  <2> QED BY <2>1 DEF AtMostOncePerProcess, Queries, Preempts
<1> QED BY <1>1, Invariance, PTL

(* The PREEMPT names the group its successful query was about, unchanged      *)
(* from the query to the PREEMPT.                                             *)
LEMMA OnQueriedBinding == Spec => []PreemptOnQueriedBinding
<1>1. GInv => PreemptOnQueriedBinding
  <2> SUFFICES ASSUME GInv, NEW i \in Preempts
               PROVE  /\ sent[i].binding = sent[i].epoch
                      /\ \E q \in Queries :
                            q < i /\ sent[q].ok /\ sent[q].binding = sent[i].binding
    BY DEF PreemptOnQueriedBinding, Preempts, Queries
  <2> QED BY DEF GInv, PreemptOK
<1> QED BY <1>1, Invariance, PTL

(* A PREEMPT leaves only an authorized Background owner, on the one device    *)
(* that was authorized, reported by CUDA and queried under.                   *)
LEMMA ScopeAuthorized == Spec => []PreemptScopeAuthorized
<1>1. GInv => PreemptScopeAuthorized
  <2> SUFFICES ASSUME GInv, NEW i \in Preempts
               PROVE  /\ state.stage = "GroupActive" /\ state.owner = "Background"
                      /\ state.authorized
                      /\ sent[i].visible = state.authScope
                      /\ \A q \in Queries : sent[q].visible = sent[i].visible
    BY DEF PreemptScopeAuthorized, Preempts, Queries
  <2> QED BY DEF GInv, PreemptOK, QueryOK, Authorized
<1> QED BY <1>1, Invariance, PTL

(* What a process sends is licensed, whatever the order of calls, the answers *)
(* of the RM, the changes of topology and environment, and the retries.       *)
THEOREM Licensed == Spec => []RequestsLicensed
BY AtMostOnce, OnQueriedBinding, ScopeAuthorized, PTL DEF RequestsLicensed

-----------------------------------------------------------------------------
(* Evidence.  What the journal tells a reader in any state follows from how   *)
(* its slots and the requests go together: a request in flight has a slot in  *)
(* flight, and any other one a completed slot on the same binding.            *)
RequestNames == {"GET_INFO", "PREEMPT"}
Attempts(j, cmd) == {i \in DOMAIN j : j[i].cmd = cmd /\ j[i].attempted}

Matched(cmd) ==
    \/ RequestsOf(cmd) = {} /\ Attempts(journal, cmd) = {}
    \/ \E q \in DOMAIN sent, a \in DOMAIN journal :
          /\ RequestsOf(cmd) = {q} /\ Attempts(journal, cmd) = {a}
          /\ journal[a].binding = sent[q].binding

(* The request was sent and slot a, which is not complete, stands for it.     *)
Waiting(cmd, a) ==
    /\ Attempts(journal, cmd) = {}
    /\ \E q \in DOMAIN sent : RequestsOf(cmd) = {q} /\ journal[a].binding = sent[q].binding

\* Slot a was published for the command and is not complete.
InFlight(cmd, a) == a \in DOMAIN journal /\ journal[a].cmd = cmd /\ journal[a].state = "issued"

SlotsOK ==
    /\ Len(journal) <= JournalCapacity
    /\ \A i \in DOMAIN journal : journal[i].attempted => journal[i].state = "returned"
    /\ op.step \in {"query", "queried"} => InFlight("GET_INFO", op.slot)
    /\ op.step = "query" => journal[op.slot].binding = op.binding
    /\ op.step = "prepare" => InFlight("PREPARE", op.slot)
    /\ op.step \in {"preempt", "preempted"} =>
          /\ InFlight("PREPARE", op.prepSlot) /\ InFlight("PREEMPT", op.slot)
          /\ journal[op.slot].binding = op.binding
    /\ IF op.step = "queried" THEN Waiting("GET_INFO", op.slot) ELSE Matched("GET_INFO")
    /\ IF op.step = "preempted" THEN Waiting("PREEMPT", op.slot) ELSE Matched("PREEMPT")

(* c is j with slot n completed: only that slot, and only its outcome.        *)
SlotCompleted(j, n, attempted, c) ==
    /\ c \in Seq(Slots) /\ Len(c) = Len(j) /\ DOMAIN c = DOMAIN j
    /\ \A i \in DOMAIN j : c[i].cmd = j[i].cmd /\ c[i].binding = j[i].binding
    /\ \A i \in DOMAIN j : i # n => c[i] = j[i]
    /\ \A i \in DOMAIN c : c[i].attempted => c[i].state = "returned"
    /\ \A cmd : Attempts(c, cmd) =
          IF attempted /\ cmd = j[n].cmd THEN Attempts(j, cmd) \cup {n} ELSE Attempts(j, cmd)

(* Publishing a slot, and completing one, in terms of the attempts.           *)
LEMMA PublishedSlot ==
    ASSUME NEW j \in Seq(Slots), NEW s \in Slots, ~ s.attempted, HasSlot(j),
           \A i \in DOMAIN j : j[i].attempted => j[i].state = "returned"
    PROVE  /\ Len(Append(j, s)) <= JournalCapacity
           /\ \A i \in DOMAIN j : i \in DOMAIN Append(j, s) /\ Append(j, s)[i] = j[i]
           /\ Len(j) + 1 \in DOMAIN Append(j, s) /\ Append(j, s)[Len(j) + 1] = s
           /\ \A i \in DOMAIN Append(j, s) :
                 Append(j, s)[i].attempted => Append(j, s)[i].state = "returned"
           /\ \A cmd : Attempts(Append(j, s), cmd) = Attempts(j, cmd)
<1>1. JournalCapacity \in Nat /\ Len(j) \in Nat /\ Len(j) < JournalCapacity
  BY GroupAssumption DEF GroupAssumption, HasSlot
<1>2. /\ Append(j, s) \in Seq(Slots) /\ Len(Append(j, s)) = Len(j) + 1
      /\ DOMAIN Append(j, s) = DOMAIN j \cup {Len(j) + 1}
      /\ \A i \in DOMAIN j : Append(j, s)[i] = j[i]
      /\ Append(j, s)[Len(j) + 1] = s /\ Len(j) + 1 \notin DOMAIN j
  OBVIOUS
<1> QED BY <1>1, <1>2 DEF Attempts

LEMMA CompletedSlot ==
    ASSUME NEW j \in Seq(Slots), NEW n \in DOMAIN j, NEW attempted \in BOOLEAN,
           \A i \in DOMAIN j : j[i].attempted => j[i].state = "returned",
           j[n].state = "issued"
    PROVE  SlotCompleted(j, n, attempted, Completed(j, n, attempted))
<1> DEFINE c == Completed(j, n, attempted)
           r == [j[n] EXCEPT !.state = "returned", !.attempted = attempted]
<1>1. /\ j[n] \in Slots /\ ~ j[n].attempted
      /\ \A i \in DOMAIN j : j[i] \in Slots
  OBVIOUS
<1>2. /\ r \in Slots
      /\ r.cmd = j[n].cmd /\ r.binding = j[n].binding
      /\ r.state = "returned" /\ r.attempted = attempted
  BY <1>1 DEF Slots
<1>3. c = [j EXCEPT ![n] = r]
  BY DEF Completed, Slots
<1> HIDE DEF c, r
<1>4. c \in Seq(Slots) /\ Len(c) = Len(j) /\ DOMAIN c = DOMAIN j
      /\ c[n] = r /\ \A i \in DOMAIN j : i # n => c[i] = j[i]
  BY <1>2, <1>3
<1>5. \A cmd, i : i \in Attempts(c, cmd) <=>
          i \in Attempts(j, cmd) \/ (attempted /\ cmd = j[n].cmd /\ i = n)
  <2> SUFFICES ASSUME NEW cmd, NEW i
               PROVE  i \in Attempts(c, cmd) <=>
                        i \in Attempts(j, cmd) \/ (attempted /\ cmd = j[n].cmd /\ i = n)
    OBVIOUS
  <2>1. CASE i = n
    BY <2>1, <1>1, <1>2, <1>4 DEF Attempts
  <2>2. CASE i # n
    BY <2>2, <1>4 DEF Attempts
  <2> QED BY <2>1, <2>2
<1>6. /\ \A i \in DOMAIN j : c[i].cmd = j[i].cmd /\ c[i].binding = j[i].binding
      /\ \A i \in DOMAIN c : c[i].attempted => c[i].state = "returned"
  BY <1>1, <1>2, <1>4
<1>7. ASSUME NEW cmd
      PROVE  Attempts(c, cmd) = IF attempted /\ cmd = j[n].cmd THEN Attempts(j, cmd) \cup {n}
                                ELSE Attempts(j, cmd)
  <2> DEFINE A == Attempts(c, cmd)
             B == IF attempted /\ cmd = j[n].cmd THEN Attempts(j, cmd) \cup {n}
                  ELSE Attempts(j, cmd)
  <2>1. \A i : i \in A <=> i \in B
    BY <1>5
  <2>2. A \subseteq B /\ B \subseteq A
    BY <2>1
  <2> QED BY <2>2, Zenon
<1> QED BY <1>4, <1>6, <1>7 DEF SlotCompleted, c

(* Steps that leave the journal, the operation and the requests alone.        *)
LEMMA SlotsAloneKept ==
    ASSUME SlotsOK, UNCHANGED <<journal, op, sent>>
    PROVE  SlotsOK'
BY DEF SlotsOK, Matched, Waiting, InFlight, RequestsOf

(* Slots that deny their attempt change nothing of what is matched.           *)
LEMMA DenialKeeps ==
    ASSUME NEW cmd, Matched(cmd), UNCHANGED sent,
           Attempts(journal', cmd) = Attempts(journal, cmd),
           \A i \in DOMAIN journal :
               i \in DOMAIN journal' /\ journal'[i].binding = journal[i].binding
    PROVE  Matched(cmd)'
BY DEF Matched, RequestsOf

LEMMA SlotsInit == Init => SlotsOK
BY GroupAssumption DEF Init, SlotsOK, Matched, RequestsOf, Attempts, Idle, GroupAssumption

LEMMA RejectedQuerySlots ==
    ASSUME GInv, SlotsOK, NEW b \in identities, GetInfoRejected(b)
    PROVE  SlotsOK'
<1> DEFINE s == [Issued("GET_INFO", b) EXCEPT !.state = "returned"]
<1>1. op.step = "idle" /\ op' = op /\ UNCHANGED sent /\ journal \in Seq(Slots) /\ b \in Epochs
  BY DEF GInv, Types, JournalOK, GetInfoRejected, Unlocked, Idle
<1>2. s \in Slots /\ ~ s.attempted
  BY <1>1 DEF Issued, Slots
<1>3. journal' = journal \/ (HasSlot(journal) /\ journal' = Append(journal, s))
  BY DEF GetInfoRejected, Rejected
<1>4. CASE journal' = journal
  BY <1>1, <1>4, SlotsAloneKept
<1>5. CASE HasSlot(journal) /\ journal' = Append(journal, s)
  <2> HIDE DEF s
  <2>1. /\ Len(journal') <= JournalCapacity
        /\ \A i \in DOMAIN journal' : journal'[i].attempted => journal'[i].state = "returned"
        /\ \A cmd : Attempts(journal', cmd) = Attempts(journal, cmd)
        /\ \A i \in DOMAIN journal : i \in DOMAIN journal' /\ journal'[i] = journal[i]
    BY <1>1, <1>2, <1>5, PublishedSlot DEF SlotsOK
  <2>2. Matched("GET_INFO")' /\ Matched("PREEMPT")'
    BY <1>1, <2>1, DenialKeeps DEF SlotsOK
  <2> QED BY <1>1, <2>1, <2>2 DEF SlotsOK
<1> QED BY <1>3, <1>4, <1>5

(* A control starts: its slot is published before anything else happens.      *)
LEMMA PublishingSlots ==
    ASSUME GInv, SlotsOK, HasSlot(journal), UNCHANGED sent,
           NEW cmd \in {"GET_INFO", "PREPARE", "PREEMPT"}, NEW b \in Epochs,
           journal' = Append(journal, Issued(cmd, b)),
           op.step \in {"idle", "prepare"}
    PROVE  /\ Len(journal') <= JournalCapacity
           /\ \A i \in DOMAIN journal' : journal'[i].attempted => journal'[i].state = "returned"
           /\ \A i \in DOMAIN journal : i \in DOMAIN journal' /\ journal'[i] = journal[i]
           /\ Len(journal) + 1 \in DOMAIN journal'
           /\ journal'[Len(journal) + 1] = Issued(cmd, b)
           /\ Matched("GET_INFO")' /\ Matched("PREEMPT")'
<1> DEFINE s == Issued(cmd, b)
<1>1. /\ journal \in Seq(Slots) /\ s \in Slots /\ ~ s.attempted
      /\ s.cmd = cmd /\ s.binding = b /\ s.state = "issued"
  BY DEF GInv, JournalOK, Issued, Slots
<1> HIDE DEF s
<1>2. /\ Len(journal') <= JournalCapacity
      /\ \A i \in DOMAIN journal' : journal'[i].attempted => journal'[i].state = "returned"
      /\ \A name : Attempts(journal', name) = Attempts(journal, name)
      /\ \A i \in DOMAIN journal : i \in DOMAIN journal' /\ journal'[i] = journal[i]
      /\ Len(journal) + 1 \in DOMAIN journal' /\ journal'[Len(journal) + 1] = s
  BY <1>1, PublishedSlot DEF SlotsOK, s
<1>3. Matched("GET_INFO")' /\ Matched("PREEMPT")'
  BY <1>2, DenialKeeps DEF SlotsOK
<1> QED BY <1>2, <1>3 DEF s

LEMMA QueryStartSlots ==
    ASSUME GInv, SlotsOK, NEW b \in identities, GetInfoStart(b)
    PROVE  SlotsOK'
<1>1. /\ op.step = "idle" /\ UNCHANGED sent /\ b \in Epochs /\ HasSlot(journal)
      /\ journal' = Append(journal, Issued("GET_INFO", b))
      /\ op'.step = "query" /\ op'.slot = Len(journal) + 1 /\ op'.binding = b
  BY DEF GInv, Types, GetInfoStart, Unlocked, Idle
<1>2. /\ Len(journal') <= JournalCapacity
      /\ \A i \in DOMAIN journal' : journal'[i].attempted => journal'[i].state = "returned"
      /\ op'.slot \in DOMAIN journal' /\ journal'[op'.slot] = Issued("GET_INFO", b)
      /\ Matched("GET_INFO")' /\ Matched("PREEMPT")'
  BY <1>1, PublishingSlots
<1> QED BY <1>1, <1>2 DEF SlotsOK, InFlight, Issued

LEMMA ActionStartSlots ==
    ASSUME GInv, SlotsOK, NEW b \in identities, NEW noop \in BOOLEAN, NEW inRange \in BOOLEAN,
           NEW completed \in BOOLEAN, ActionStart(b, noop, inRange, completed)
    PROVE  SlotsOK'
<1>1. op.step = "idle" /\ UNCHANGED sent /\ b \in Epochs
  BY DEF GInv, Types, ActionStart, Unlocked, Idle
<1>2. CASE UNCHANGED <<journal, op>>
  BY <1>1, <1>2, SlotsAloneKept
<1>3. CASE /\ HasSlot(journal)
           /\ journal' = Append(journal, Issued("PREPARE", b))
           /\ op' = [step |-> "prepare", binding |-> b, slot |-> Len(journal) + 1,
                     noop |-> noop, inRange |-> inRange, completed |-> completed]
  <2>1. op'.step = "prepare" /\ op'.slot = Len(journal) + 1
    BY <1>3
  <2>2. /\ Len(journal') <= JournalCapacity
        /\ \A i \in DOMAIN journal' : journal'[i].attempted => journal'[i].state = "returned"
        /\ op'.slot \in DOMAIN journal' /\ journal'[op'.slot] = Issued("PREPARE", b)
        /\ Matched("GET_INFO")' /\ Matched("PREEMPT")'
    BY <1>1, <1>3, <2>1, PublishingSlots
  <2> QED BY <2>1, <2>2 DEF SlotsOK, InFlight, Issued
<1> QED BY <1>2, <1>3 DEF ActionStart

LEMMA PreemptStartSlots == ASSUME GInv, SlotsOK, PreemptStart PROVE SlotsOK'
<1>1. /\ op.step = "prepare" /\ UNCHANGED sent /\ op.binding \in Epochs /\ HasSlot(journal)
      /\ journal' = Append(journal, Issued("PREEMPT", op.binding))
      /\ op'.step = "preempt" /\ op'.slot = Len(journal) + 1 /\ op'.binding = op.binding
      /\ op'.prepSlot = op.slot
  BY OperationParts DEF PreemptStart
<1>2. /\ Len(journal') <= JournalCapacity
      /\ \A i \in DOMAIN journal' : journal'[i].attempted => journal'[i].state = "returned"
      /\ \A i \in DOMAIN journal : i \in DOMAIN journal' /\ journal'[i] = journal[i]
      /\ op'.slot \in DOMAIN journal' /\ journal'[op'.slot] = Issued("PREEMPT", op.binding)
      /\ Matched("GET_INFO")' /\ Matched("PREEMPT")'
  BY <1>1, PublishingSlots
<1>3. InFlight("PREPARE", op.prepSlot)'
  BY <1>1, <1>2 DEF SlotsOK, InFlight
<1> QED BY <1>1, <1>2, <1>3 DEF SlotsOK, InFlight, Issued

(* The preparation is denied, and the rejected PREEMPT takes a slot that      *)
(* denies it too.                                                             *)
LEMMA SkipSlots == ASSUME GInv, SlotsOK, ActionSkip \/ PreemptRejected PROVE SlotsOK'
<1> DEFINE done == Completed(journal, op.slot, FALSE)
           s == [Issued("PREEMPT", op.binding) EXCEPT !.state = "returned"]
<1>1. /\ op.step = "prepare" /\ op'.step = "idle" /\ UNCHANGED sent /\ op.binding \in Epochs
      /\ journal \in Seq(Slots)
  <2>1. op.step = "prepare" /\ op' = Idle /\ UNCHANGED sent
    BY DEF ActionSkip, PreemptRejected
  <2> QED BY <2>1, OperationParts DEF GInv, JournalOK, Idle
<1>2. /\ done \in Seq(Slots) /\ Len(done) = Len(journal) /\ DOMAIN done = DOMAIN journal
      /\ \A i \in DOMAIN journal : done[i].binding = journal[i].binding
      /\ \A i \in DOMAIN done : done[i].attempted => done[i].state = "returned"
      /\ \A cmd : Attempts(done, cmd) = Attempts(journal, cmd)
  <2>1. /\ op.slot \in DOMAIN journal /\ journal[op.slot].state = "issued"
        /\ \A i \in DOMAIN journal : journal[i].attempted => journal[i].state = "returned"
    BY <1>1 DEF SlotsOK, InFlight
  <2>2. SlotCompleted(journal, op.slot, FALSE, done)
    BY <1>1, <2>1, CompletedSlot, Zenon
  <2> HIDE DEF done
  <2> QED BY <2>2 DEF SlotCompleted
<1>3. s \in Slots /\ ~ s.attempted
  BY <1>1 DEF Issued, Slots
<1>4. journal' = done \/ (HasSlot(done) /\ journal' = Append(done, s))
  BY <1>2 DEF ActionSkip, PreemptRejected, Rejected, HasSlot
<1>5. /\ Len(journal') <= JournalCapacity
      /\ \A i \in DOMAIN journal' : journal'[i].attempted => journal'[i].state = "returned"
      /\ \A cmd : Attempts(journal', cmd) = Attempts(journal, cmd)
      /\ \A i \in DOMAIN journal : i \in DOMAIN journal' /\ journal'[i].binding = journal[i].binding
  <2> HIDE DEF done, s
  <2>1. CASE journal' = done
    BY <1>2, <2>1 DEF SlotsOK
  <2>2. CASE HasSlot(done) /\ journal' = Append(done, s)
    BY <1>2, <1>3, <2>2, PublishedSlot
  <2> QED BY <1>4, <2>1, <2>2
<1>6. Matched("GET_INFO")' /\ Matched("PREEMPT")'
  BY <1>1, <1>5, DenialKeeps DEF SlotsOK
<1> QED BY <1>1, <1>5, <1>6 DEF SlotsOK

(* The two ioctls: the request that leaves is the one its slot names.         *)
LEMMA IoctlSlots ==
    ASSUME GInv, SlotsOK, NEW ok \in BOOLEAN, GetInfoIoctl(ok) \/ PreemptIoctl(ok)
    PROVE  SlotsOK'
<1> DEFINE name == IF op.step = "query" THEN "GET_INFO" ELSE "PREEMPT"
           r == [cmd |-> name, binding |-> op.binding, epoch |-> epoch, ok |-> ok,
                 visible |-> visible]
           n == Len(sent) + 1
<1>1. /\ op.step \in {"query", "preempt"} /\ op.binding \in Epochs /\ UNCHANGED journal
      /\ sent' = Append(sent, r) /\ RequestsOf(name) = {}
  BY OperationParts DEF GInv, QueryOK, PreemptOK, Queries, Preempts, GetInfoIoctl, PreemptIoctl
<1>2. r \in Requests /\ sent \in Seq(Requests) /\ r.cmd = name /\ r.binding = op.binding
  BY <1>1 DEF GInv, Types, Requests
<1>3. /\ n \in DOMAIN sent' /\ sent'[n] = r
      /\ \A cmd : RequestsOf(cmd)' =
            IF cmd = name THEN RequestsOf(cmd) \cup {n} ELSE RequestsOf(cmd)
      /\ \A i \in DOMAIN sent : i \in DOMAIN sent' /\ sent'[i] = sent[i]
  <2>1. /\ n \in DOMAIN sent'
        /\ \A i \in DOMAIN sent : i \in DOMAIN sent' /\ sent'[i] = sent[i]
    BY <1>1, <1>2
  <2> HIDE DEF r
  <2> QED BY <1>1, <1>2, <2>1, Sending
<1>4. Matched(name) /\ Attempts(journal, name) = {}
  BY <1>1 DEF SlotsOK, Matched
<1>5. \A cmd : cmd # name /\ Matched(cmd) => Matched(cmd)'
  BY <1>1, <1>3 DEF Matched
<1>6. CASE op.step = "query"
  <2>1. op'.step = "queried" /\ op'.slot = op.slot
    BY <1>6 DEF GetInfoIoctl, PreemptIoctl
  <2>2. Waiting("GET_INFO", op.slot)'
    BY <1>1, <1>2, <1>3, <1>4, <1>6, <2>1 DEF Waiting, SlotsOK
  <2>3. Matched("PREEMPT")'
    BY <1>5, <1>6 DEF SlotsOK
  <2> QED BY <1>1, <1>6, <2>1, <2>2, <2>3 DEF SlotsOK, InFlight
<1>7. CASE op.step = "preempt"
  <2>1. /\ op'.step = "preempted" /\ op'.slot = op.slot /\ op'.prepSlot = op.prepSlot
        /\ op'.binding = op.binding
    <3>1. op' = [op EXCEPT !.step = "preempted"]
      BY <1>7 DEF GetInfoIoctl, PreemptIoctl
    <3> QED BY <1>7, <3>1 DEF GInv, Types, Operations, Idle
  <2>2. Waiting("PREEMPT", op.slot)'
    BY <1>1, <1>2, <1>3, <1>4, <1>7, <2>1 DEF Waiting, SlotsOK
  <2>3. Matched("GET_INFO")'
    BY <1>5, <1>7 DEF SlotsOK
  <2> QED BY <1>1, <1>7, <2>1, <2>2, <2>3 DEF SlotsOK, InFlight
<1> QED BY <1>1, <1>6, <1>7

LEMMA QueryReturnSlots == ASSUME GInv, SlotsOK, GetInfoReturn PROVE SlotsOK'
<1> DEFINE done == Completed(journal, op.slot, TRUE)
<1>1. /\ op.step = "queried" /\ op'.step = "idle" /\ UNCHANGED sent /\ journal' = done
      /\ journal \in Seq(Slots)
  BY DEF GInv, JournalOK, GetInfoReturn, Idle
<1>2. /\ op.slot \in DOMAIN journal /\ journal[op.slot].cmd = "GET_INFO"
      /\ journal[op.slot].state = "issued" /\ Waiting("GET_INFO", op.slot)
      /\ Matched("PREEMPT") /\ Len(journal) <= JournalCapacity
      /\ \A i \in DOMAIN journal : journal[i].attempted => journal[i].state = "returned"
  BY <1>1 DEF SlotsOK, InFlight
<1>3. /\ Len(done) = Len(journal) /\ DOMAIN done = DOMAIN journal
      /\ \A i \in DOMAIN journal : done[i].binding = journal[i].binding
      /\ \A i \in DOMAIN done : done[i].attempted => done[i].state = "returned"
      /\ Attempts(done, "PREEMPT") = Attempts(journal, "PREEMPT")
      /\ Attempts(done, "GET_INFO") = Attempts(journal, "GET_INFO") \cup {op.slot}
  <2>1. SlotCompleted(journal, op.slot, TRUE, done)
    BY <1>1, <1>2, CompletedSlot, Zenon
  <2> HIDE DEF done
  <2> QED BY <1>2, <2>1 DEF SlotCompleted
<1> HIDE DEF done
<1>4. Matched("PREEMPT")'
  BY <1>1, <1>2, <1>3, DenialKeeps
<1>5. Matched("GET_INFO")'
  <2>1. PICK q \in DOMAIN sent :
            RequestsOf("GET_INFO") = {q} /\ journal[op.slot].binding = sent[q].binding
    BY <1>2 DEF Waiting
  <2>2. Attempts(journal', "GET_INFO") = {op.slot} /\ op.slot \in DOMAIN journal'
        /\ journal'[op.slot].binding = sent'[q].binding
    BY <1>1, <1>2, <1>3, <2>1 DEF Waiting
  <2>3. RequestsOf("GET_INFO")' = {q} /\ q \in DOMAIN sent'
    BY <1>1, <2>1 DEF RequestsOf
  <2> QED BY <2>2, <2>3 DEF Matched
<1> QED BY <1>1, <1>2, <1>3, <1>4, <1>5 DEF SlotsOK

LEMMA PreemptReturnSlots == ASSUME GInv, SlotsOK, PreemptReturn PROVE SlotsOK'
<1> DEFINE once == Completed(journal, op.slot, TRUE)
           twice == Completed(once, op.prepSlot, FALSE)
<1>1. /\ op.step = "preempted" /\ op'.step = "idle" /\ UNCHANGED sent /\ journal' = twice
      /\ journal \in Seq(Slots)
  BY DEF GInv, JournalOK, PreemptReturn, Idle
<1>2. /\ op.slot \in DOMAIN journal /\ journal[op.slot].cmd = "PREEMPT"
      /\ journal[op.slot].state = "issued"
      /\ op.prepSlot \in DOMAIN journal /\ journal[op.prepSlot].cmd = "PREPARE"
      /\ journal[op.prepSlot].state = "issued"
      /\ Waiting("PREEMPT", op.slot)
      /\ Matched("GET_INFO") /\ Len(journal) <= JournalCapacity
      /\ \A i \in DOMAIN journal : journal[i].attempted => journal[i].state = "returned"
  BY <1>1 DEF SlotsOK, InFlight
<1>3. /\ once \in Seq(Slots) /\ Len(once) = Len(journal) /\ DOMAIN once = DOMAIN journal
      /\ \A i \in DOMAIN journal : once[i].binding = journal[i].binding
      /\ once[op.prepSlot] = journal[op.prepSlot]
      /\ \A i \in DOMAIN once : once[i].attempted => once[i].state = "returned"
      /\ Attempts(once, "GET_INFO") = Attempts(journal, "GET_INFO")
      /\ Attempts(once, "PREEMPT") = Attempts(journal, "PREEMPT") \cup {op.slot}
  <2>1. SlotCompleted(journal, op.slot, TRUE, once)
    BY <1>1, <1>2, CompletedSlot, Zenon
  <2> HIDE DEF once
  <2> QED BY <1>2, <2>1 DEF SlotCompleted
<1> HIDE DEF once
<1>4. /\ Len(twice) = Len(once) /\ DOMAIN twice = DOMAIN once
      /\ \A i \in DOMAIN once : twice[i].binding = once[i].binding
      /\ \A i \in DOMAIN twice : twice[i].attempted => twice[i].state = "returned"
      /\ \A cmd : Attempts(twice, cmd) = Attempts(once, cmd)
  <2>1. SlotCompleted(once, op.prepSlot, FALSE, twice)
    BY <1>2, <1>3, CompletedSlot, Zenon
  <2> HIDE DEF twice
  <2> QED BY <1>2, <2>1 DEF SlotCompleted
<1> HIDE DEF twice
<1>5. Matched("GET_INFO")'
  BY <1>1, <1>2, <1>3, <1>4, DenialKeeps
<1>6. Matched("PREEMPT")'
  <2>1. PICK q \in DOMAIN sent :
            RequestsOf("PREEMPT") = {q} /\ journal[op.slot].binding = sent[q].binding
    BY <1>2 DEF Waiting
  <2>2. Attempts(journal', "PREEMPT") = {op.slot} /\ op.slot \in DOMAIN journal'
        /\ journal'[op.slot].binding = sent'[q].binding
    BY <1>1, <1>2, <1>3, <1>4, <2>1 DEF Waiting
  <2>3. RequestsOf("PREEMPT")' = {q} /\ q \in DOMAIN sent'
    BY <1>1, <2>1 DEF RequestsOf
  <2> QED BY <2>2, <2>3 DEF Matched
<1> QED BY <1>1, <1>2, <1>3, <1>4, <1>5, <1>6 DEF SlotsOK

LEMMA SlotsPreserved == GInv /\ SlotsOK /\ [Next]_vars => SlotsOK'
<1> SUFFICES ASSUME GInv, SlotsOK, [Next]_vars PROVE SlotsOK'
  OBVIOUS
<1>1. CASE \/ \E stage \in Stages, authorized \in BOOLEAN, owner \in Owners :
                Configure(stage, authorized, owner)
           \/ \E reviewed \in BOOLEAN : NoteCudaReady(reviewed)
           \/ NoteScope \/ OpenJournal \/ (\E t \in Trials : RecordTrial(t)) \/ InspectGroup
           \/ TopologyChanges \/ AmbiguityChanges \/ EnvironmentChanges
           \/ UNCHANGED vars
  <2>1. UNCHANGED <<journal, op, sent>>
    BY <1>1 DEF Configure, NoteCudaReady, NoteScope, OpenJournal, RecordTrial,
       InspectGroup, TopologyChanges, AmbiguityChanges, EnvironmentChanges, vars
  <2> QED BY <2>1, SlotsAloneKept
<1>2. CASE \E b \in identities : GetInfoRejected(b)
  BY <1>2, RejectedQuerySlots
<1>3. CASE \E b \in identities : GetInfoStart(b)
  BY <1>3, QueryStartSlots
<1>4. CASE \E ok \in BOOLEAN : GetInfoIoctl(ok)
  BY <1>4, IoctlSlots
<1>5. CASE \E ok \in BOOLEAN : PreemptIoctl(ok)
  BY <1>5, IoctlSlots
<1>6. CASE GetInfoReturn
  BY <1>6, QueryReturnSlots
<1>7. CASE \E b \in identities, noop, inRange, completed \in BOOLEAN :
              ActionStart(b, noop, inRange, completed)
  BY <1>7, ActionStartSlots
<1>8. CASE ActionSkip \/ PreemptRejected
  BY <1>8, SkipSlots
<1>9. CASE PreemptStart
  BY <1>9, PreemptStartSlots
<1>10. CASE PreemptReturn
  BY <1>10, PreemptReturnSlots
<1> QED BY <1>1, <1>2, <1>3, <1>4, <1>5, <1>6, <1>7, <1>8, <1>9, <1>10 DEF Next

(* A full journal is not overrun: the reader sees every slot.                 *)
LEMMA RecoveredSlots ==
    ASSUME GInv, SlotsOK
    PROVE  /\ DOMAIN Recovered = DOMAIN journal
           /\ \A i \in DOMAIN journal :
                 /\ Recovered[i].cmd = journal[i].cmd
                 /\ Recovered[i].binding = journal[i].binding
                 /\ Recovered[i].attempted = "yes" <=> journal[i].attempted
                 /\ journal[i].state = "issued" => Recovered[i].attempted = "unknown"
<1>1. /\ JournalCapacity \in Nat /\ Len(journal) \in Nat /\ Len(journal) <= JournalCapacity
      /\ journal \in Seq(Slots) /\ DOMAIN journal = 1 .. Len(journal)
  BY GroupAssumption DEF GroupAssumption, GInv, JournalOK, SlotsOK
<1>2. Min({Len(journal), JournalCapacity}) = Len(journal)
  <2> DEFINE n == Len(journal)
             S == {n, JournalCapacity}
  <2>1. n \in S /\ \A y \in S : n <= y
    BY <1>1
  <2>2. \A x \in S : (\A y \in S : x <= y) => x = n
    BY <1>1
  <2> HIDE DEF S, n
  <2>3. Min(S) = n
    BY <2>1, <2>2 DEF Min
  <2> QED BY <2>3 DEF S, n
<1>3. \A i \in DOMAIN journal : journal[i] \in Slots
  BY <1>1
<1>4. \A i \in DOMAIN journal : journal[i].attempted => journal[i].state # "issued"
  BY <1>3 DEF SlotsOK, Slots
<1> QED BY <1>1, <1>2, <1>3, <1>4 DEF Recovered, Slots

(* control_events.cpp: in every state, after a crash in the middle of a       *)
(* control or not, the recovered journal counts the requests right on each    *)
(* binding: none it claims was not sent, none that was sent is denied.        *)
THEOREM EvidenceStands == Spec => []EvidenceCovers
<1>1. GInv /\ SlotsOK => EvidenceCovers
  <2> SUFFICES ASSUME GInv, SlotsOK, NEW cmd \in RequestNames, NEW b \in Epochs
               PROVE  LET records(att) == Cardinality({i \in DOMAIN Recovered :
                              Recovered[i].cmd = cmd /\ Recovered[i].binding = b
                                  /\ Recovered[i].attempted \in att})
                          requests == Cardinality({i \in RequestsOf(cmd) : sent[i].binding = b})
                      IN  /\ records({"yes"}) <= requests
                          /\ requests <= records({"yes", "unknown"})
    BY Zenon DEF EvidenceCovers, RequestNames
  <2> DEFINE Records(att) == {i \in DOMAIN Recovered :
                 Recovered[i].cmd = cmd /\ Recovered[i].binding = b
                     /\ Recovered[i].attempted \in att}
             claimed == Records({"yes"})
             admitted == Records({"yes", "unknown"})
             requests == {i \in RequestsOf(cmd) : sent[i].binding = b}
  <2>1. claimed = {i \in Attempts(journal, cmd) : journal[i].binding = b}
    BY RecoveredSlots DEF Attempts
  <2>2. IsFiniteSet(admitted)
    <3>1. IsFiniteSet(DOMAIN journal)
      BY FS_Interval DEF GInv, JournalOK
    <3> QED BY <3>1, FS_Subset, RecoveredSlots
  <2>3. ASSUME RequestsOf(cmd) = {}, Attempts(journal, cmd) = {}
        PROVE  Cardinality(claimed) <= Cardinality(requests)
               /\ Cardinality(requests) <= Cardinality(admitted)
    <3>1. requests = {} /\ claimed = {}
      BY <2>1, <2>3
    <3> HIDE DEF requests, claimed, admitted
    <3> QED BY <2>2, <3>1, FS_EmptySet, FS_CardinalityType
  <2>4. ASSUME NEW q \in DOMAIN sent, NEW a \in DOMAIN journal, RequestsOf(cmd) = {q},
               journal[a].binding = sent[q].binding,
               Attempts(journal, cmd) \subseteq {a}, a \in admitted \/ journal[a].binding # b
        PROVE  Cardinality(claimed) <= Cardinality(requests)
               /\ Cardinality(requests) <= Cardinality(admitted)
    <3>1. CASE sent[q].binding = b
      <4>1. requests = {q} /\ claimed \subseteq {a} /\ {a} \subseteq admitted
        BY <2>1, <2>4, <3>1
      <4> HIDE DEF requests, claimed, admitted
      <4>2. IsFiniteSet({q}) /\ Cardinality({q}) = 1 /\ IsFiniteSet({a}) /\ Cardinality({a}) = 1
        BY FS_Singleton
      <4>3. Cardinality(claimed) <= Cardinality({a})
        BY <4>1, <4>2, FS_Subset
      <4>4. Cardinality({a}) <= Cardinality(admitted)
        BY <2>2, <4>1, FS_Subset
      <4> QED BY <4>1, <4>2, <4>3, <4>4
    <3>2. CASE sent[q].binding # b
      <4>1. requests = {} /\ claimed = {}
        BY <2>1, <2>4, <3>2
      <4> HIDE DEF requests, claimed, admitted
      <4> QED BY <2>2, <4>1, FS_EmptySet, FS_CardinalityType
    <3> QED BY <3>1, <3>2
  <2>5. CASE Matched(cmd)
    <3>1. ASSUME NEW q \in DOMAIN sent, NEW a \in DOMAIN journal, RequestsOf(cmd) = {q},
                 Attempts(journal, cmd) = {a}, journal[a].binding = sent[q].binding
          PROVE  Cardinality(claimed) <= Cardinality(requests)
                 /\ Cardinality(requests) <= Cardinality(admitted)
      <4>1. a \in admitted \/ journal[a].binding # b
        BY <3>1, RecoveredSlots DEF Attempts
      <4> HIDE DEF requests, claimed, admitted
      <4> QED BY <2>4, <3>1, <4>1
    <3> HIDE DEF requests, claimed, admitted
    <3>2. Cardinality(claimed) <= Cardinality(requests)
          /\ Cardinality(requests) <= Cardinality(admitted)
      BY <2>3, <2>5, <3>1 DEF Matched, requests, claimed, admitted
    <3> QED BY <3>2 DEF requests, claimed, admitted
  <2>6. ASSUME NEW a, InFlight(cmd, a), Waiting(cmd, a)
        PROVE  Cardinality(claimed) <= Cardinality(requests)
               /\ Cardinality(requests) <= Cardinality(admitted)
    <3>1. PICK q \in DOMAIN sent : RequestsOf(cmd) = {q} /\ journal[a].binding = sent[q].binding
      BY <2>6 DEF Waiting
    <3>2. a \in DOMAIN journal /\ (a \in admitted \/ journal[a].binding # b)
      BY <2>6, RecoveredSlots DEF InFlight
    <3>3. Attempts(journal, cmd) \subseteq {a}
      BY <2>6 DEF Waiting
    <3> HIDE DEF requests, claimed, admitted
    <3> QED BY <2>4, <3>1, <3>2, <3>3
  <2>7. Matched(cmd) \/ (InFlight(cmd, op.slot) /\ Waiting(cmd, op.slot))
    BY DEF SlotsOK, RequestNames
  <2> QED BY <2>5, <2>6, <2>7
<1> QED BY <1>1, InitEstablishes, NextPreserves, SlotsInit, SlotsPreserved, PTL DEF Spec

-----------------------------------------------------------------------------
(* Refinement.  A step that leaves the requests and the query alone and does  *)
(* not begin or end a query is a stutter of the contract.                     *)
Querying == op.step \in {"query", "queried"}

LEMMA QuietStutters ==
    ASSUME UNCHANGED <<info, sent>>, Querying' <=> Querying
    PROVE  UNCHANGED Contract!contractVars
BY DEF Contract!contractVars, Querying, RequestsOf

LEMMA StepRefines == GInv /\ GInv' /\ [Next]_vars => [Contract!Next]_(Contract!contractVars)
<1> SUFFICES ASSUME GInv, GInv', [Next]_vars
             PROVE  [Contract!Next]_(Contract!contractVars)
  OBVIOUS
<1>1. CASE \E b \in identities : GetInfoStart(b)
  <2>1. PICK b \in identities : GetInfoStart(b)
    BY <1>1
  <2>2. /\ ~ info.consumed /\ ~ info.verified /\ ~ info'.verified /\ info'.consumed
        /\ info'.binding = b /\ op'.step = "query" /\ UNCHANGED sent /\ b \in Epochs
    BY <2>1 DEF GInv, Types, QueryOK, GetInfoStart, QueryAccepted
  <2>3. Contract!Ask(b)
    BY <2>2 DEF Contract!Ask, RequestsOf
  <2> QED BY <2>2, <2>3 DEF Contract!Next
<1>2. CASE \E ok \in BOOLEAN : GetInfoIoctl(ok)
  <2>1. PICK ok \in BOOLEAN : GetInfoIoctl(ok)
    BY <1>2
  <2>2. Preempts = {} /\ Preempts' = {} /\ UNCHANGED info /\ Querying /\ Querying'
    <3>1. ~ info.verified /\ UNCHANGED info
      BY <2>1 DEF GInv, QueryOK, GetInfoIoctl
    <3>2. Preempts = {} /\ Preempts' = {}
      BY <3>1 DEF GInv, PreemptOK, Authorized
    <3> QED BY <2>1, <3>1, <3>2 DEF GetInfoIoctl, Querying
  <2> QED BY <2>2 DEF Contract!contractVars, Querying, Preempts
<1>3. CASE GetInfoReturn
  <2>1. /\ ~ info.verified /\ info.consumed /\ info'.consumed /\ info'.verified = op.ok
        /\ op.step = "queried" /\ op.ok \in BOOLEAN /\ op'.step = "idle"
        /\ info'.binding = info.binding /\ UNCHANGED sent
    BY <1>3, OperationParts DEF GInv, Types, QueryOK, GetInfoReturn, Idle
  <2>2. Contract!Answer(op.ok)
    BY <2>1 DEF Contract!Answer, RequestsOf
  <2> QED BY <2>1, <2>2 DEF Contract!Next
<1>4. CASE \E ok \in BOOLEAN : PreemptIoctl(ok)
  <2>1. /\ Preempts = {} /\ info.verified /\ UNCHANGED info
        /\ \A i \in Preempts' : sent'[i].binding = info.binding
    BY <1>4 DEF GInv, PreemptOK, Authorized, PreemptIoctl
  <2>2. PICK i : Preempts' = {i}
    <3>1. PICK ok \in BOOLEAN : PreemptIoctl(ok)
      BY <1>4
    <3> DEFINE r == [cmd |-> "PREEMPT", binding |-> op.binding, epoch |-> epoch,
                     ok |-> ok, visible |-> visible]
    <3>2. r \in Requests /\ sent' = Append(sent, r) /\ sent \in Seq(Requests)
      BY <3>1, OperationParts DEF GInv, Types, Requests, PreemptIoctl
    <3>3. Preempts' = {Len(sent) + 1}
      BY <2>1, <3>2, Sending DEF Preempts
    <3> QED BY <3>3
  <2>3. Cardinality(Preempts) = 0 /\ Cardinality(Preempts') = 1
    BY <2>1, <2>2, FS_EmptySet, FS_Singleton
  <2>4. Min({i}) = i
    BY <2>2 DEF Min, GInv, Types, Preempts, RequestsOf
  <2>5. Contract!Use
    BY <2>1, <2>2, <2>3, <2>4 DEF Contract!Use, Preempts
  <2> QED BY <2>5 DEF Contract!Next
<1>5. CASE \/ \E stage \in Stages, authorized \in BOOLEAN, owner \in Owners :
                Configure(stage, authorized, owner)
           \/ \E reviewed \in BOOLEAN : NoteCudaReady(reviewed)
           \/ NoteScope \/ OpenJournal \/ (\E t \in Trials : RecordTrial(t)) \/ InspectGroup
           \/ TopologyChanges \/ AmbiguityChanges \/ EnvironmentChanges
           \/ UNCHANGED vars
  <2>1. UNCHANGED <<info, sent, op>>
    BY <1>5 DEF Configure, NoteCudaReady, NoteScope, OpenJournal, RecordTrial,
       InspectGroup, TopologyChanges, AmbiguityChanges, EnvironmentChanges, vars
  <2> QED BY <2>1, QuietStutters DEF Querying
<1>6. CASE \/ \E b \in identities : GetInfoRejected(b)
           \/ \E b \in identities, noop, inRange, completed \in BOOLEAN :
                 ActionStart(b, noop, inRange, completed)
           \/ ActionSkip \/ PreemptRejected \/ PreemptStart \/ PreemptReturn
  <2>1. UNCHANGED <<info, sent>> /\ ~ Querying /\ ~ Querying'
    <3>1. CASE \E b \in identities : GetInfoRejected(b)
      BY <3>1 DEF GetInfoRejected, Querying, Unlocked, Idle
    <3>2. CASE \E b \in identities, noop, inRange, completed \in BOOLEAN :
                 ActionStart(b, noop, inRange, completed)
      <4>1. PICK b \in identities, noop \in BOOLEAN, inRange \in BOOLEAN,
                 completed \in BOOLEAN : ActionStart(b, noop, inRange, completed)
        BY <3>2
      <4>2. op.step = "idle" /\ (op' = op \/ op'.step = "prepare") /\ UNCHANGED <<info, sent>>
        BY <4>1 DEF ActionStart, Unlocked, Idle
      <4> QED BY <4>2 DEF Querying
    <3>3. CASE ActionSkip \/ PreemptRejected \/ PreemptReturn
      <4>1. op.step \in {"prepare", "preempted"} /\ op' = Idle
        BY <3>3 DEF ActionSkip, PreemptRejected, PreemptReturn
      <4>2. UNCHANGED <<info, sent>>
        BY <3>3 DEF ActionSkip, PreemptRejected, PreemptReturn
      <4> QED BY <4>1, <4>2 DEF Querying, Idle
    <3>4. CASE PreemptStart
      <4>1. op.step = "prepare" /\ op'.step = "preempt" /\ UNCHANGED <<info, sent>>
        BY <3>4 DEF PreemptStart
      <4> QED BY <4>1 DEF Querying
    <3> QED BY <1>6, <3>1, <3>2, <3>3, <3>4
  <2> QED BY <2>1, QuietStutters
<1> QED BY <1>1, <1>2, <1>3, <1>4, <1>5, <1>6 DEF Next

LEMMA InitRefines == Init => Contract!Init
<1> SUFFICES ASSUME Init PROVE Contract!Init
  OBVIOUS
<1>1. RequestsOf("PREEMPT") = {}
  BY DEF Init, RequestsOf
<1> QED BY <1>1, FS_EmptySet DEF Init, Contract!Init, NoBinding

(* Whatever the order of calls, failures and topology changes, the process    *)
(* implements the contract: one question, at most one use, on the group asked *)
(* about and only after a good answer.                                        *)
THEOREM Implements == Spec => ImplementsContract
<1>1. Contract!Init /\ [][Contract!Next]_(Contract!contractVars) => ImplementsContract
  BY DEF ImplementsContract, Contract!Spec
<1> QED BY <1>1, InitRefines, StepRefines, Invariance, PTL DEF Spec
=============================================================================
