----------------------------- MODULE MCProgress -----------------------------
(***************************************************************************)
(* An instance for TLC of the protocols whose threads wait for one         *)
(* another, under fair scheduling: the low-latency calls, the table of     *)
(* modules, the interface object with its main loop, and the streamer.     *)
(* Each is checked by itself: a behaviour is one of the protocol its       *)
(* initial state selects, and what Api needs of the table and of the calls *)
(* is in Api.                                                              *)
(***************************************************************************)
EXTENDS MCLowLatencyCall, Stream

CONSTANTS t1, t2, i1, NoThread, NoId

VARIABLES
    part,   \* the protocol that takes the steps
    managed, ids_managed, freed, readers, writer, interrupt_lock,
    resume_on_interrupt, tablePc, tableOp, arg, pos, limit, crashed,
    loaded, enabled, once, removable, users, opened, frame, active, paused,
    joinable, main, pass, done, inserting, enabling, destroying, next_public,
    next_internal, idle, callPc, callOp, num, todo, late

Table == INSTANCE SharedResource WITH
    Thread <- {t1, t2}, Id <- {i1}, MaxListed <- 2,
    pc <- tablePc, op <- tableOp

Api == INSTANCE Api WITH
    MaxPublic <- 1, MaxInternal <- 0

tableVars == <<managed, ids_managed, freed, readers, writer, interrupt_lock,
               resume_on_interrupt, tablePc, tableOp, arg, pos, limit, crashed>>
apiVars == <<loaded, enabled, once, removable, users, opened, frame, active,
             paused, joinable, main, pass, done, inserting, enabling,
             destroying, next_public, next_internal, idle, callPc, callOp, num,
             todo, late>>
MCVars == <<part, vars, tableVars, apiVars, streamVars>>

others(p) ==
    /\ part = p /\ UNCHANGED part
    /\ p # "calls" => UNCHANGED vars
    /\ p # "table" => UNCHANGED tableVars
    /\ p # "api" => UNCHANGED apiVars
    /\ p # "stream" => UNCHANGED streamVars

MCInit ==
    /\ part \in {"calls", "table", "api", "stream"}
    /\ Init /\ Table!Init /\ Api!ApiInit /\ StreamInit

MCNext ==
    \/ others("calls") /\ Next
    \/ others("table") /\ Table!Next
    \/ others("api") /\ Api!ApiNext
    \/ others("stream") /\ StreamNext

\* The fairness of FairSpec in each module.
MCFairSpec ==
    /\ MCInit /\ [][MCNext]_MCVars
    /\ \A c \in Client : WF_MCVars(others("calls") /\ Step(c))
    /\ \A o \in Op : WF_MCVars(others("calls") /\ Finish(o))
    /\ \A t \in {t1, t2} : WF_MCVars(others("table") /\ Table!Step(t))
    /\ WF_MCVars(others("api") /\ Api!Main)
    /\ WF_MCVars(others("api") /\ Api!Detached)
    /\ WF_MCVars(others("api") /\ Api!ClientStep)
    /\ WF_MCVars(others("api") /\ Api!Worker)
    /\ \A c \in {"client", "worker"} : WF_MCVars(others("api") /\ Api!RemoveAllModules(c))
    /\ WF_MCVars(others("stream") /\ AddFrame)
    /\ WF_MCVars(others("stream") /\ StopEnd)
    /\ WF_MCVars(others("stream") /\ StreamerStep)

\* As long as the process lives some call on the table returns again and again:
\* its two locks together cannot block every thread for ever
\* (shared_resource.hh:128-170).
Progress == Table!Progress

\* stop, quit and set_framesize do not wait for ever for the main loop, unless
\* a thread searches for a camera (api.cc:143).
StopReturns == Api!StopReturns

\* A module tagged Removable leaves the table unless the loop is stopped or a
\* thread searches for a camera (api.cc:252-255).
RemovableLeaves == Api!RemovableLeaves
=============================================================================
