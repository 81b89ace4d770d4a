---------------------------- MODULE ModuleTable ----------------------------
(***************************************************************************)
(* What the table of modules promises the rest of the program, without its *)
(* locks: executors run on live modules only, a module does not go away    *)
(* while any executor runs, and the executors that were asked to run alone *)
(* do.  SharedResource implements this specification.                      *)
(***************************************************************************)
CONSTANTS
    Thread,  \* the threads that use the table
    Id,      \* the module ids
    NoId     \* "runs no executor"

VARIABLES
    live,    \* the modules in the table
    running, \* the module each thread runs an executor on, or NoId
    alone    \* the threads that run one which excludes the others of its kind

vars == <<live, running, alone>>

TypeOK ==
    /\ live \subseteq Id
    /\ running \in [Thread -> Id \cup {NoId}]
    /\ alone \subseteq Thread

Init ==
    /\ live = {}
    /\ running = [t \in Thread |-> NoId]
    /\ alone = {}

Add(i) == live' = live \cup {i} /\ UNCHANGED <<running, alone>>

\* Modules leave only when no executor runs.
Drop(R) ==
    /\ \A t \in Thread : running[t] = NoId
    /\ live' = live \ R
    /\ UNCHANGED <<running, alone>>

Start(t, i) ==
    /\ running[t] = NoId /\ i \in live
    /\ running' = [running EXCEPT ![t] = i]
    /\ UNCHANGED live

StartShared(t, i) == Start(t, i) /\ UNCHANGED alone

StartAlone(t, i) == Start(t, i) /\ alone = {} /\ alone' = {t}

Finish(t) ==
    /\ running[t] # NoId
    /\ running' = [running EXCEPT ![t] = NoId]
    /\ alone' = alone \ {t}
    /\ UNCHANGED live

Next ==
    \/ \E i \in Id : Add(i)
    \/ \E R \in SUBSET Id : Drop(R)
    \/ \E t \in Thread, i \in Id : StartShared(t, i) \/ StartAlone(t, i)
    \/ \E t \in Thread : Finish(t)

Spec == Init /\ [][Next]_vars
=============================================================================
