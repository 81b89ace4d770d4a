--------------------------- MODULE LowLatencyCall ---------------------------
(***************************************************************************)
(* The macro LOW_LATENCY_CALL of lib/core/tinkervision.cc and tv_quit.     *)
(*                                                                         *)
(* A call hands its operation to a detached worker thread and polls for it *)
(* a limited time.  The flag tv_buffer_flag goes from the call to its      *)
(* worker and, when the worker was fast enough, back; tv_buffered_result   *)
(* takes the result.  The result of an operation is the operation itself.  *)
(* One operation is one store, one load or one test_and_set.               *)
(***************************************************************************)
EXTENDS Integers, FiniteSets

CONSTANTS
    Client,   \* the application's thread and the one that runs its callbacks
    Op,       \* operations, each of which is one call at a time
    TV_OK,               \* the initial content of the buffer
    TV_RESULT_BUFFERED,  \* "no result yet"
    NoOp,     \* "runs no operation"
    Grains    \* GRAINS, how often a call polls

ASSUME GrainsAssumption == Grains \in Nat
ASSUME ResultAssumption ==
    /\ TV_OK \notin Op /\ TV_RESULT_BUFFERED \notin Op
    /\ NoOp \notin Op

VARIABLES
    tv_buffered_result,  \* an atomic_int
    tv_buffer_flag,      \* an atomic_flag
    pc,      \* where each client is
    op,      \* the operation each client has called
    i,       \* how often it has polled
    worker   \* where the worker thread of each operation is

client == <<pc, op, i>>
vars   == <<tv_buffered_result, tv_buffer_flag, client, worker>>

PC       == {"idle", "test", "reject", "poll", "clear", "return",
             "quit_wait", "quit_clear", "quit"}
WorkerPC == {"none", "run", "clear"}
Result   == Op \cup {TV_OK, TV_RESULT_BUFFERED}

-----------------------------------------------------------------------------
(* Auxiliary operators *)

Goto(c, p) == pc' = [pc EXCEPT ![c] = p]

TestAndSet == ~tv_buffer_flag /\ tv_buffer_flag' = TRUE
ClearFlag  == tv_buffer_flag' = FALSE

\* Nothing refers to operation o: it may be called.
Unused(o) ==
    /\ worker[o] = "none" /\ tv_buffered_result # o
    /\ \A c \in Client : op[c] # o

-----------------------------------------------------------------------------
(* LOW_LATENCY_CALL *)

\* The buffer is reset before anything else.
Call(c, o) ==
    /\ pc[c] = "idle" /\ Unused(o)
    /\ tv_buffered_result' = TV_RESULT_BUFFERED
    /\ op' = [op EXCEPT ![c] = o]
    /\ Goto(c, "test")
    /\ UNCHANGED <<tv_buffer_flag, i, worker>>

\* Mutant of Accept: the operation starts beside a running one.
AcceptUntested(c) ==
    /\ pc[c] = "test"
    /\ tv_buffer_flag' = TRUE
    /\ worker' = [worker EXCEPT ![op[c]] = "run"]
    /\ i' = [i EXCEPT ![c] = 0]
    /\ Goto(c, "poll")
    /\ UNCHANGED <<tv_buffered_result, op>>

\* The flag is free: the worker is started.
Accept(c) ==
    /\ pc[c] = "test"
    /\ TestAndSet
    /\ worker' = [worker EXCEPT ![op[c]] = "run"]
    /\ i' = [i EXCEPT ![c] = 0]
    /\ Goto(c, "poll")
    /\ UNCHANGED <<tv_buffered_result, op>>

\* An earlier operation is running: this one will not be run.
Busy(c) ==
    /\ pc[c] = "test"
    /\ tv_buffer_flag
    /\ Goto(c, "reject")
    /\ UNCHANGED <<tv_buffered_result, tv_buffer_flag, op, i, worker>>

\* Mutants of Poll: it polls once too often, or does not count.
PollLonger(c) ==
    /\ pc[c] = "poll" /\ i[c] <= Grains
    /\ tv_buffer_flag
    /\ i' = [i EXCEPT ![c] = @ + 1]
    /\ UNCHANGED <<tv_buffered_result, tv_buffer_flag, pc, op, worker>>

PollForEver(c) ==
    /\ pc[c] = "poll" /\ i[c] < Grains
    /\ tv_buffer_flag
    /\ UNCHANGED vars

\* The flag is still set: the client sleeps.
Poll(c) ==
    /\ pc[c] = "poll" /\ i[c] < Grains
    /\ tv_buffer_flag
    /\ i' = [i EXCEPT ![c] = @ + 1]
    /\ UNCHANGED <<tv_buffered_result, tv_buffer_flag, pc, op, worker>>

\* The poll finds the flag clear, and sets it.
Polled(c) ==
    /\ pc[c] = "poll" /\ i[c] < Grains
    /\ TestAndSet
    /\ Goto(c, "clear")
    /\ UNCHANGED <<tv_buffered_result, op, i, worker>>

\* Mutant of TimeOut: a client that gives up clears the flag.
TimeOutClearing(c) ==
    /\ pc[c] = "poll" /\ i[c] >= Grains
    /\ ClearFlag
    /\ Goto(c, "return")
    /\ UNCHANGED <<tv_buffered_result, op, i, worker>>

TimeOut(c) ==
    /\ pc[c] = "poll" /\ i[c] >= Grains
    /\ Goto(c, "return")
    /\ UNCHANGED <<tv_buffered_result, tv_buffer_flag, op, i, worker>>

\* Mutant of Clear: a client that found the flag clear leaves it set.
ClearKept(c) ==
    /\ pc[c] = "clear"
    /\ Goto(c, "return")
    /\ UNCHANGED <<tv_buffered_result, tv_buffer_flag, op, i, worker>>

Clear(c) ==
    /\ pc[c] = "clear"
    /\ ClearFlag
    /\ Goto(c, "return")
    /\ UNCHANGED <<tv_buffered_result, op, i, worker>>

\* The call returns what the buffer holds now.
Return(c) ==
    /\ pc[c] \in {"return", "reject"}
    /\ Goto(c, "idle")
    /\ op' = [op EXCEPT ![c] = NoOp]
    /\ i' = [i EXCEPT ![c] = 0]
    /\ UNCHANGED <<tv_buffered_result, tv_buffer_flag, worker>>

-----------------------------------------------------------------------------
(* The detached thread *)

\* The operation has ended.  Some never do: a search for a camera, a removal
\* that readers of the table keep out.
Store(o) ==
    /\ worker[o] = "run"
    /\ tv_buffered_result' = o
    /\ worker' = [worker EXCEPT ![o] = "clear"]
    /\ UNCHANGED <<tv_buffer_flag, client>>

Finish(o) ==
    /\ worker[o] = "clear"
    /\ ClearFlag
    /\ worker' = [worker EXCEPT ![o] = "none"]
    /\ UNCHANGED <<tv_buffered_result, client>>

-----------------------------------------------------------------------------
(* tv_quit waits for the flag before it shuts the library down *)

Quit(c) ==
    /\ pc[c] = "idle"
    /\ Goto(c, "quit_wait")
    /\ UNCHANGED <<tv_buffered_result, tv_buffer_flag, op, i, worker>>

QuitWait(c) ==
    /\ pc[c] = "quit_wait"
    /\ TestAndSet
    /\ Goto(c, "quit_clear")
    /\ UNCHANGED <<tv_buffered_result, op, i, worker>>

QuitClear(c) ==
    /\ pc[c] = "quit_clear"
    /\ ClearFlag
    /\ Goto(c, "quit")
    /\ UNCHANGED <<tv_buffered_result, op, i, worker>>

QuitEnd(c) ==
    /\ pc[c] = "quit"
    /\ Goto(c, "idle")
    /\ UNCHANGED <<tv_buffered_result, tv_buffer_flag, op, i, worker>>

-----------------------------------------------------------------------------

Init ==
    /\ tv_buffered_result = TV_OK /\ tv_buffer_flag = FALSE
    /\ pc = [c \in Client |-> "idle"] /\ op = [c \in Client |-> NoOp]
    /\ i = [c \in Client |-> 0]
    /\ worker = [o \in Op |-> "none"]

\* What a client does inside a call, and a worker.
Step(c) ==
    \/ Accept(c) \/ Busy(c) \/ Poll(c) \/ Polled(c) \/ TimeOut(c)
    \/ Clear(c) \/ Return(c)
    \/ QuitWait(c) \/ QuitClear(c) \/ QuitEnd(c)
Work(o) == Store(o) \/ Finish(o)

Next ==
    \/ \E c \in Client :
          \/ \E o \in Op : Call(c, o)
          \/ Quit(c)
          \/ Step(c)
    \/ \E o \in Op : Work(o)

Spec == Init /\ [][Next]_vars

\* Threads are scheduled; nobody has to call, and no operation has to end.
FairSpec ==
    /\ Spec
    /\ \A c \in Client : WF_vars(Step(c))
    /\ \A o \in Op : WF_vars(Finish(o))

-----------------------------------------------------------------------------
(* Properties *)

TypeOK ==
    /\ tv_buffered_result \in Result /\ tv_buffer_flag \in BOOLEAN
    /\ pc \in [Client -> PC]
    /\ op \in [Client -> Op \cup {NoOp}]
    /\ i \in [Client -> 0..Grains]
    /\ worker \in [Op -> WorkerPC]

\* Two operations are never under way together, although the flag that says
\* so is set by one thread, cleared by another, and taken for a moment by
\* every poll that finds it clear and by tv_quit.
Workers == {o \in Op : worker[o] # "none"}
OneOperation == \A o, p \in Workers : o = p

\* While a client passes the flag on nobody else believes to have it, so that
\* clearing it never ends the turn of another thread.
Passing == {c \in Client : pc[c] \in {"clear", "quit_clear"}}
FlagHasOneOwner ==
    /\ \A c, d \in Passing : c = d
    /\ Passing # {} => Workers = {}
    /\ tv_buffer_flag <=> Passing # {} \/ Workers # {}

\* A low-latency call returns, whatever the others call meanwhile and if the
\* operation never ends.
InCall(c) == pc[c] \in {"test", "reject", "poll", "clear", "return"}
CallReturns == \A c \in Client : InCall(c) ~> ~InCall(c)

\* tv_quit, which spins on the flag without a limit, gets it when every
\* operation ends and the other clients have stopped calling: no caller that
\* gave up, was rejected or took the flag for its poll leaves it set.  With
\* callers that go on, or an operation that does not end, it may spin for ever.
QuitReturns ==
    \A c \in Client :
       /\ []<>(\A o \in Op : worker[o] # "run")
       /\ <>[](\A d \in Client \ {c} : pc[d] = "idle")
       => (pc[c] = "quit_wait" ~> pc[c] # "quit_wait")

\* tv_get_buffered_result gives TV_RESULT_BUFFERED "until the result is
\* available": not when no operation is running or being called.
ResultAvailable ==
    Workers = {} /\ (\A c \in Client : ~InCall(c)) =>
        tv_buffered_result # TV_RESULT_BUFFERED
=============================================================================
