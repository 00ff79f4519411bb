--------------------------- MODULE MC_BindingSnapshot ---------------------------
(***************************************************************************)
(* Group and strict snapshots from the moment a CUDA context is up: root,  *)
(* device, subdevice, a group with a compute channel, and a copy-only      *)
(* group with a channel.  From there every sequence of three events: a     *)
(* second channel, compute object or subdevice, handles reused in another  *)
(* role, frees and binds of everything.                                    *)
(***************************************************************************)
EXTENDS BindingSnapshot

MCShapes ==
    {<<"x", "d", "subdevice">>, <<"x", "g", "channel">>,
     <<"x", "h1", "compute">>, <<"x", "h2", "compute">>,
     <<"e", "x", "compute">>, <<"h2", "g", "channel">>, <<"e", "h1", "compute">>}

Tree ==
    [c |-> <<"c", "root", 2, 0>>, d |-> <<"c", "device", 3, 2>>,
     s |-> <<"d", "subdevice", 4, 3>>, g |-> <<"d", "group", 5, 3>>,
     h1 |-> <<"g", "channel", 6, 5>>, e |-> <<"h1", "compute", 7, 6>>,
     g2 |-> <<"d", "group", 8, 3>>, h2 |-> <<"g2", "channel", 9, 8>>]

(* The state after client(c, 3) and the eight allocations of Tree, in order.  *)
MCInit ==
    /\ current = [k \in Keys |->
            IF k[2] \in DOMAIN Tree
            THEN [parent |-> Tree[k[2]][1], cls |-> Tree[k[2]][2],
                  gen |-> Tree[k[2]][3], pgen |-> Tree[k[2]][4]]
            ELSE NoNode(k)]
    /\ clients = [c \in Clients |-> [fd |-> 3, gen |-> 1]]
    /\ next = 10
    /\ incomplete = FALSE
    /\ hist = 9
    /\ revision = [k \in Keys |-> CASE k[2] = "g" -> 2 [] k[2] = "g2" -> 3 [] OTHER -> 0]
    /\ candidates = 2
    /\ nextTopology = 4
    /\ group = NoBinding /\ strict = NoBinding /\ disturbed = FALSE

(* An incomplete registry refuses every binding for good: TLC checks such a   *)
(* state and looks no further.                                                *)
ExploreComplete == ~ incomplete

MCSpec == MCInit /\ [][SnapshotNext]_vars
=============================================================================
