---------------------------- MODULE BindingSnapshot ----------------------------
(***************************************************************************)
(* The two binding searches of the object registry and the snapshots the   *)
(* capture keeps from them: discover()/valid() for the strict channel      *)
(* identity, discover_group()/valid_group() for the group identity.  A     *)
(* snapshot is taken at some moment and must be refused later whenever     *)
(* what it describes has changed in between, even if it looks the same     *)
(* again.                                                                  *)
(***************************************************************************)
EXTENDS ObjectRegistry

VARIABLES
    group,      \* the GroupBinding held (observed_group), or NoBinding
    strict,     \* the Binding held (observed_binding), or NoBinding
    disturbed   \* history: something "group" describes changed since it was taken

NoBinding == [client |-> NoClass]

vars == <<registryVars, group, strict, disturbed>>

-----------------------------------------------------------------------------
Token(k) == <<k[2], current[k].gen>>

Snapshot(k) == <<k, current[k]>>

Of(class) == {k \in Keys : current[k].cls = class}

Members(grp) == {ch \in Of("channel") : ChildOf(current, ch, grp)}

ComputeObjects(ch) == {e \in Of("compute") : ChildOf(current, e, ch)}

ComputeMembers(grp) == {ch \in Members(grp) : ComputeObjects(ch) # {}}

Device(grp) == ParentKey(current, grp)

Subdevices(dev) == {s \in Of("subdevice") : ChildOf(current, s, dev)}

UnderDevice(grp) ==
    /\ current[Device(grp)].cls = "device"
    /\ ChildOf(current, grp, Device(grp))

(* Groups with at least one compute child; copy-only groups do not count.     *)
GroupCandidates == {grp \in Of("group") : ComputeMembers(grp) # {}}

-----------------------------------------------------------------------------
(* discover_group(): refuses dangling compute objects, then needs exactly one *)
(* candidate, under a device of the current client with one subdevice.        *)
NoStrayCompute ==
    \A e \in Of("compute") : \E grp \in Of("group") : \E ch \in Members(grp) :
        ChildOf(current, e, ch)

OwnedDevice(grp) ==
    LET c == grp[1]
        dev == Device(grp)
    IN  /\ UnderDevice(grp)
        /\ current[dev].parent = c
        /\ current[dev].pgen = current[<<c, c>>].gen
        /\ Cardinality(Subdevices(dev)) = 1
        /\ HasClient(c)

Discoverable ==
    /\ ~ incomplete
    /\ NoStrayCompute
    /\ \A grp \in GroupCandidates : OwnedDevice(grp)
    /\ Cardinality(GroupCandidates) = 1

GroupBindingOf(grp) ==
    [client     |-> grp[1],
     owner      |-> clients[grp[1]],
     revision   |-> revision[grp],
     candidates |-> candidates,
     device     |-> Snapshot(Device(grp)),
     subdevices |-> {Snapshot(s) : s \in Subdevices(Device(grp))},
     group      |-> Snapshot(grp),
     members    |-> {<<Snapshot(ch), {Snapshot(e) : e \in ComputeObjects(ch)}>> :
                        ch \in Members(grp)}]

DiscoverGroup ==
    IF Discoverable
    THEN GroupBindingOf(CHOOSE grp \in GroupCandidates : TRUE)
    ELSE NoBinding

ValidGroup(b) == b = DiscoverGroup

-----------------------------------------------------------------------------
(* discover(): the older search, which also needs the group to have exactly   *)
(* one compute channel, and names tokens only.                                *)
StrictDiscoverable ==
    /\ ~ incomplete
    /\ \A grp \in GroupCandidates :
        /\ Cardinality(ComputeMembers(grp)) = 1
        /\ UnderDevice(grp)
        /\ Cardinality(Subdevices(Device(grp))) = 1
        /\ HasClient(grp[1])
    /\ Cardinality(GroupCandidates) = 1

StrictBindingOf(grp) ==
    LET ch == CHOOSE x \in ComputeMembers(grp) : TRUE
    IN  [client   |-> grp[1],
         owner    |-> clients[grp[1]],
         device   |-> Token(Device(grp)),
         subdevice |-> Token(CHOOSE s \in Subdevices(Device(grp)) : TRUE),
         group    |-> Token(grp),
         compute  |-> Token(ch),
         channels |-> {Token(x) : x \in Members(grp)},
         objects  |-> {Token(e) : e \in ComputeObjects(ch)}]

DiscoverStrict ==
    IF StrictDiscoverable
    THEN StrictBindingOf(CHOOSE grp \in GroupCandidates : TRUE)
    ELSE NoBinding

(* valid(b) does not search again: it checks the tokens of b one by one, then *)
(* walks the current nodes for anything b does not list.                      *)
IsCurrent(c, t) == Live(<<c, t[1]>>) /\ current[<<c, t[1]>>].gen = t[2]

\* Variant: the device may have gained a subdevice.
ValidStrictAnySubdevice(b) ==
    /\ ~ incomplete
    /\ HasClient(b.client) /\ clients[b.client] = b.owner
    /\ \A t \in {b.device, b.subdevice, b.group, b.compute} : IsCurrent(b.client, t)
    /\ {Token(ch) : ch \in {x \in Of("channel") :
            ChildOf(current, x, <<b.client, b.group[1]>>)}} = b.channels
    /\ LET attached == {e \in Of("compute") : \E grp \in Of("group") :
                            ParentKey(current, e) \in Members(grp)
                                /\ ChildOf(current, e, ParentKey(current, e))}
       IN  /\ \A e \in attached :
                LET ch == ParentKey(current, e)
                IN  /\ e[1] = b.client
                    /\ current[ParentKey(current, ch)].gen = b.group[2]
                    /\ current[ch].gen = b.compute[2]
           /\ {Token(e) : e \in attached} = b.objects

ValidStrict(b) ==
    /\ ~ incomplete
    /\ HasClient(b.client) /\ clients[b.client] = b.owner
    /\ \A t \in {b.device, b.subdevice, b.group, b.compute} : IsCurrent(b.client, t)
    /\ Cardinality(Subdevices(<<b.client, b.device[1]>>)) = 1
    /\ {Token(ch) : ch \in {x \in Of("channel") :
            ChildOf(current, x, <<b.client, b.group[1]>>)}} = b.channels
    /\ LET attached == {e \in Of("compute") : \E grp \in Of("group") :
                            ParentKey(current, e) \in Members(grp)
                                /\ ChildOf(current, e, ParentKey(current, e))}
       IN  /\ \A e \in attached :
                LET ch == ParentKey(current, e)
                IN  /\ e[1] = b.client
                    /\ current[ParentKey(current, ch)].gen = b.group[2]
                    /\ current[ch].gen = b.compute[2]
           /\ {Token(e) : e \in attached} = b.objects

-----------------------------------------------------------------------------
(* What a group snapshot describes: its client, device, subdevice and group,  *)
(* the channels of the group, and the compute objects of the whole process.   *)
GroupKey == group.group[1]

DescribedByGroup(k) ==
    \/ k \in {GroupKey, group.device[1]} \cup {s[1] : s \in group.subdevices}
    \/ current[k].cls = "compute" \/ current'[k].cls = "compute"
    \/ IsGroupMember(current, k, GroupKey) \/ IsGroupMember(current', k, GroupKey)

Disturbs ==
    /\ group # NoBinding
    /\ \/ \E k \in Keys : current'[k] # current[k] /\ DescribedByGroup(k)
       \/ clients'[group.client] # clients[group.client]

SnapshotInit ==
    /\ Init
    /\ group = NoBinding /\ strict = NoBinding /\ disturbed = FALSE

(* inspect_owned_tsg: keep what discover_group() finds.  One snapshot of each *)
(* kind is enough: the registry never reads the one it gave out.              *)
TakeGroup ==
    /\ group = NoBinding /\ Discoverable
    /\ group' = DiscoverGroup
    /\ disturbed' = FALSE
    /\ UNCHANGED <<registryVars, strict>>

(* inspect_owned_compute_group: keep what discover() finds.                   *)
TakeStrict ==
    /\ strict = NoBinding /\ StrictDiscoverable
    /\ strict' = DiscoverStrict
    /\ UNCHANGED <<registryVars, group, disturbed>>

RegistryStep ==
    /\ Next
    /\ disturbed' = (disturbed \/ Disturbs)
    /\ UNCHANGED <<group, strict>>

SnapshotNext == RegistryStep \/ TakeGroup \/ TakeStrict

SnapshotSpec == SnapshotInit /\ [][SnapshotNext]_vars

-----------------------------------------------------------------------------
(* A group snapshot is refused for good once anything it describes changed,   *)
(* even when the change was undone: a member allocated and freed again, a     *)
(* handle reused, a second compute group come and gone (valid_group, 184-188; *)
(* the revisions of touch_topology, 50-57).                                   *)
StaleGroupRefused == group # NoBinding /\ disturbed => ~ ValidGroup(group)

(* Nothing else makes a group snapshot stale: with the registry complete and  *)
(* one well-formed candidate, events on unrelated objects, copy-only groups   *)
(* and other clients leave it valid (touch_topology moves no revision of it). *)
UnrelatedKeepsGroup ==
    group # NoBinding /\ ~ disturbed /\ Discoverable => ValidGroup(group)

(* A group snapshot is stale exactly when something it describes changed.     *)
GroupSnapshotExact == StaleGroupRefused /\ UnrelatedKeepsGroup

(* valid() accepts a strict binding exactly when a new discover() would       *)
(* return that binding: the token walk (119-144) misses no second candidate,  *)
(* no extra channel and no lost ancestor, and refuses nothing else.           *)
StrictValidIsRediscovery ==
    strict # NoBinding => (ValidStrict(strict) <=> DiscoverStrict = strict)

(* What docs/object_binding.md:77 says of the strict identity: once a new      *)
(* relevant channel was observed, the cached identity is not used any further.*)
(* A member the binding does not list is in the group: the next check refuses.*)
SeenNewMember(b) ==
    LET grp == <<b.client, b.group[1]>>
    IN  /\ IsCurrent(b.client, b.group)
        /\ \E ch \in Members(grp) : Token(ch) \notin b.channels

SeenChannelEndsStrictIdentity ==
    [][strict # NoBinding /\ SeenNewMember(strict) => ~ ValidStrict(strict)']_vars
=============================================================================
