---------------------------- MODULE MC_IoctlCapture ----------------------------
(***************************************************************************)
(* A process with two client handles, three descriptors and a driver that  *)
(* gives the handles several lives; one ioctl may bypass the hook, so that *)
(* the registry meets parents it never saw and handles still in its table. *)
(***************************************************************************)
EXTENDS IoctlCapture

\* "h" and "e" may each be the parent of the other.
MCShapes ==
    {<<"c", "c", "root">>, <<"d", "d", "root">>, <<"g", "c", "group">>,
     <<"h", "g", "channel">>, <<"e", "h", "compute">>, <<"h", "e", "channel">>}

(* An incomplete capture refuses every binding for good: TLC checks such a    *)
(* state and looks no further.                                                *)
ExploreComplete == ~ incomplete
=============================================================================
