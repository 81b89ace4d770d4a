----------------------------- MODULE MCInterface ----------------------------
(***************************************************************************)
(* An instance for TLC of the interface object and of the table it keeps   *)
(* its modules in, each over all interleavings of its threads.  Each is    *)
(* checked by itself: a behaviour is one of the part its initial state     *)
(* selects, and what Api needs of the table is in Api.                     *)
(***************************************************************************)
EXTENDS MCSharedResource, Api

VARIABLE part  \* the part that takes the steps

MCVars == <<part, vars, apiVars>>

MCInit == part \in {"table", "api"} /\ Init /\ ApiInit

MCNext ==
    \/ part = "table" /\ Next    /\ UNCHANGED <<part, apiVars>>
    \/ part = "api"   /\ ApiNext /\ UNCHANGED <<part, vars>>

MCSpec == MCInit /\ [][MCNext]_MCVars
=============================================================================
