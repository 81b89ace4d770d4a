-------------------------- MODULE SharedResource ---------------------------
(***************************************************************************)
(* The table of loaded modules, lib/core/shared_resource.hh.               *)
(*                                                                         *)
(* Threads of the process (the main loop, the callers of the C interface,  *)
(* the detached loader threads) run the operations of one SharedResource   *)
(* object.  Two locks order them: the reader/writer lock mutex_ and the    *)
(* spin lock interrupt_lock_.  One action is one stretch of code between   *)
(* two points where another thread can be observed.                        *)
(*                                                                         *)
(* Two simultaneous accesses to the hash map of which one writes are       *)
(* undefined behaviour: the lookup finds the entry, misses it, or the      *)
(* process crashes.  Two simultaneous push_backs keep or lose the element. *)
(***************************************************************************)
EXTENDS Integers, Sequences, FiniteSets

CONSTANTS
    Thread,    \* the threads that use the table
    Id,        \* the module ids
    NoThread,  \* "nobody holds the write lock"
    NoId,      \* the argument of an operation that is not about one id
    MaxListed  \* bound: no insert is called on a list of this length

ASSUME NoThreadAssumption == NoThread \notin Thread
ASSUME NoIdAssumption == NoId \notin Id

VARIABLES
    managed,              \* the keys of managed_
    ids_managed,          \* ids_managed_, the order of execution
    freed,                \* ids whose deallocator ran since their last insert
    readers,              \* the shared holders of mutex_
    writer,               \* the exclusive holder of mutex_, or NoThread
    interrupt_lock,       \* interrupt_lock_, an atomic_flag
    resume_on_interrupt,  \* resume_on_interrupt_
    pc,                   \* where each thread is
    op,                   \* the operation each thread runs
    arg,                  \* the id that operation was called with
    pos,                  \* the loop counter of exec_all and exec_if, from 1
    limit,                \* the loop bound they read when they start
    crashed               \* undefined behaviour ended the process

table == <<managed, ids_managed, freed>>
mutex == <<readers, writer>>
spin  == <<interrupt_lock, resume_on_interrupt>>
loops == <<pos, limit>>
call  == <<op, arg>>
vars  == <<table, mutex, spin, loops, call, pc, crashed>>

Loops     == {"exec_all", "exec_if"}
NowOps    == {"exec_one_now", "exec_one_now_restarting"}
RemoveOps == {"remove", "remove_if", "remove_all"}
IdOps     == NowOps \cup {"exec_one", "insert", "remove"}
Operation == Loops \cup IdOps \cup RemoveOps \cup {"interrupt"}

\* Program points.  A thread at one of SharedPC holds mutex_ shared, one at
\* "exclusive" holds it exclusively; one at HoldsPC has set interrupt_lock_.
SharedPC == {"loop", "body", "spin_one", "now", "one", "ins_map", "ins_ids"}
HoldsPC  == {"body", "now", "int"}
PC       == {"idle", "want", "exclusive", "spin_int", "int"} \cup SharedPC

-----------------------------------------------------------------------------
(* Auxiliary operators *)

\* t moves on inside its operation.
Goto(t, p) ==
    /\ pc' = [pc EXCEPT ![t] = p]
    /\ UNCHANGED <<call, crashed>>

\* t returns; its local variables are gone.
Return(t) ==
    /\ pc' = [pc EXCEPT ![t] = "idle"]
    /\ op' = [op EXCEPT ![t] = "interrupt"]
    /\ arg' = [arg EXCEPT ![t] = NoId]
    /\ pos' = [pos EXCEPT ![t] = 1]
    /\ limit' = [limit EXCEPT ![t] = 0]
    /\ UNCHANGED crashed

\* t, called with operation o, enters its critical section as a reader.
SharedLock(t, o) ==
    /\ pc[t] = "want" /\ op[t] = o
    /\ writer = NoThread
    /\ readers' = readers \cup {t}
    /\ UNCHANGED writer

SharedUnlock(t) == readers' = readers \ {t} /\ UNCHANGED writer

\* Mutant of SetFlag: the flag is set without a test.
SetFlagUntested ==
    interrupt_lock' = TRUE /\ UNCHANGED resume_on_interrupt

\* An atomic_flag::test_and_set that finds the flag clear.
SetFlag ==
    /\ ~interrupt_lock /\ interrupt_lock' = TRUE
    /\ UNCHANGED resume_on_interrupt

ClearFlag == interrupt_lock' = FALSE /\ UNCHANGED resume_on_interrupt

\* What is left of the list s when every occurrence of the ids in R is gone.
\* Exactly one sequence qualifies.
Without(s, R) ==
    LET kept == {n \in 1..Len(s) : s[n] \notin R}
    IN  {u \in [1..Cardinality(kept) -> {s[n] : n \in kept}] :
            \A n \in kept : u[Cardinality({k \in kept : k <= n})] = s[n]}

\* Another thread is inside  managed_[id] = ...  and may be rehashing.
MapBusy(t)  == \E u \in Thread \ {t} : pc[u] = "ins_map"
\* Another thread is inside  ids_managed_.push_back(id).
ListBusy(t) == \E u \in Thread \ {t} : pc[u] = "ins_ids"

MayFind(t) == arg[t] \in managed
MayMiss(t) == arg[t] \notin managed \/ MapBusy(t)

-----------------------------------------------------------------------------
(* Calls.  exec_all and exec_if look at the size without a lock and return *)
(* at once when the table is empty; interrupt first clears the resume flag.*)

Call(t, o, i) ==
    /\ pc[t] = "idle"
    /\ o \in Loops => managed # {}
    /\ i = NoId <=> o \notin IdOps
    /\ o = "insert" => Len(ids_managed) < MaxListed
    /\ pc' = [pc EXCEPT ![t] = IF o = "interrupt" THEN "spin_int" ELSE "want"]
    /\ op' = [op EXCEPT ![t] = o]
    /\ arg' = [arg EXCEPT ![t] = i]
    /\ resume_on_interrupt' = (resume_on_interrupt /\ o # "interrupt")
    /\ UNCHANGED <<table, mutex, interrupt_lock, loops, crashed>>

-----------------------------------------------------------------------------
(* exec_all, exec_if *)

\* Mutant of LoopBegin: the last index is taken for the size.
LoopBeginShort(t) ==
    /\ \E o \in Loops : SharedLock(t, o)
    /\ Goto(t, "loop")
    /\ limit' = [limit EXCEPT ![t] = Len(ids_managed) - 1]
    /\ UNCHANGED <<table, spin, pos>>

LoopBegin(t) ==
    /\ \E o \in Loops : SharedLock(t, o)
    /\ Goto(t, "loop")
    /\ limit' = [limit EXCEPT ![t] = Len(ids_managed)]
    /\ UNCHANGED <<table, spin, pos>>

InLoop(t) == pc[t] = "loop" /\ pos[t] <= limit[t]

\* The spin lock is taken for the next id of the list; the executor starts.
LoopEnter(t) ==
    /\ InLoop(t)
    /\ SetFlag
    /\ Goto(t, "body")
    /\ UNCHANGED <<table, mutex, loops>>

\* exec_if only: the predicate does not hold for this id.
LoopSkip(t) ==
    /\ InLoop(t) /\ op[t] = "exec_if"
    /\ ~interrupt_lock
    /\ Goto(t, "loop")
    /\ pos' = [pos EXCEPT ![t] = @ + 1]
    /\ UNCHANGED <<table, mutex, spin, limit>>

\* exec_if only: it gives up when it meets an interrupt that is not resuming.
LoopInterrupted(t) ==
    /\ InLoop(t) /\ op[t] = "exec_if"
    /\ interrupt_lock /\ ~resume_on_interrupt
    /\ SharedUnlock(t)
    /\ Return(t)
    /\ UNCHANGED <<table, spin>>

LoopNext(t) ==
    /\ pc[t] = "body"
    /\ ClearFlag
    /\ Goto(t, "loop")
    /\ pos' = [pos EXCEPT ![t] = @ + 1]
    /\ UNCHANGED <<table, mutex, limit>>

LoopEnd(t) ==
    /\ pc[t] = "loop" /\ pos[t] > limit[t]
    /\ SharedUnlock(t)
    /\ Return(t)
    /\ UNCHANGED <<table, spin>>

-----------------------------------------------------------------------------
(* exec_one: the executor runs under the shared lock alone *)

ExecOne(t) ==
    /\ SharedLock(t, "exec_one")
    /\ MayFind(t)
    /\ Goto(t, "one")
    /\ UNCHANGED <<table, spin, loops>>

ExecOneEnd(t) ==
    /\ pc[t] = "one"
    /\ SharedUnlock(t)
    /\ Return(t)
    /\ UNCHANGED <<table, spin>>

(* exec_one_now, exec_one_now_restarting, exec_one_now_common *)

ExecNow(t) ==
    /\ \E o \in NowOps : SharedLock(t, o)
    /\ MayFind(t)
    /\ Goto(t, "spin_one")
    /\ resume_on_interrupt' = (op[t] = "exec_one_now")
    /\ UNCHANGED <<table, interrupt_lock, loops>>

\* Mutant of ExecNowEnter: the executor starts without the spin lock.
ExecNowEnterFree(t) ==
    /\ pc[t] = "spin_one"
    /\ Goto(t, "now")
    /\ UNCHANGED <<table, mutex, spin, loops>>

ExecNowEnter(t) ==
    /\ pc[t] = "spin_one"
    /\ SetFlag
    /\ Goto(t, "now")
    /\ UNCHANGED <<table, mutex, loops>>

\* Mutant of ExecNowEnd: the spin lock is kept.
ExecNowEndLocked(t) ==
    /\ pc[t] = "now"
    /\ SharedUnlock(t)
    /\ Return(t)
    /\ UNCHANGED <<table, spin>>

ExecNowEnd(t) ==
    /\ pc[t] = "now"
    /\ ClearFlag
    /\ SharedUnlock(t)
    /\ Return(t)
    /\ UNCHANGED table

\* The id is not managed (or a racing insert hides it): TV_INVALID_ID.  The
\* resume flag has been written by then, unless the table was empty.
ExecMiss(t) ==
    /\ pc[t] = "want" /\ op[t] \in NowOps \cup {"exec_one"}
    /\ writer = NoThread
    /\ MayMiss(t)
    /\ Return(t)
    /\ resume_on_interrupt' = IF op[t] \in NowOps /\ managed # {}
                                THEN op[t] = "exec_one_now"
                                ELSE resume_on_interrupt
    /\ UNCHANGED <<table, mutex, interrupt_lock>>

(* interrupt, after it cleared resume_on_interrupt_ *)

InterruptEnter(t) ==
    /\ pc[t] = "spin_int"
    /\ SetFlag
    /\ Goto(t, "int")
    /\ UNCHANGED <<table, mutex, loops>>

InterruptEnd(t) ==
    /\ pc[t] = "int"
    /\ ClearFlag
    /\ Return(t)
    /\ UNCHANGED <<table, mutex>>

-----------------------------------------------------------------------------
(* insert: it takes the lock SHARED, so its steps interleave with readers  *)

InsertBegin(t) ==
    /\ SharedLock(t, "insert")
    /\ MayMiss(t)
    /\ Goto(t, "ins_map")
    /\ UNCHANGED <<table, spin, loops>>

InsertDouble(t) ==
    /\ pc[t] = "want" /\ op[t] = "insert"
    /\ writer = NoThread
    /\ MayFind(t)
    /\ Return(t)
    /\ UNCHANGED <<table, mutex, spin>>

InsertMap(t) ==
    /\ pc[t] = "ins_map"
    /\ managed' = managed \cup {arg[t]}
    /\ freed' = freed \ {arg[t]}
    /\ Goto(t, "ins_ids")
    /\ UNCHANGED <<ids_managed, mutex, spin, loops>>

InsertIds(t) ==
    /\ pc[t] = "ins_ids"
    /\ \/ ids_managed' = Append(ids_managed, arg[t])
       \/ ListBusy(t) /\ UNCHANGED ids_managed
    /\ SharedUnlock(t)
    /\ Return(t)
    /\ UNCHANGED <<managed, freed, spin>>

-----------------------------------------------------------------------------
(* remove, remove_if, remove_all: under the exclusive lock *)

\* Mutant of ExclusiveLock: it does not wait for the readers, as if remove,
\* remove_if and remove_all took a shared_lock.
ExclusiveLockEarly(t) ==
    /\ pc[t] = "want" /\ op[t] \in RemoveOps
    /\ writer = NoThread
    /\ writer' = t
    /\ Goto(t, "exclusive")
    /\ UNCHANGED <<table, readers, spin, loops>>

ExclusiveLock(t) ==
    /\ pc[t] = "want" /\ op[t] \in RemoveOps
    /\ writer = NoThread /\ readers = {}
    /\ writer' = t
    /\ Goto(t, "exclusive")
    /\ UNCHANGED <<table, readers, spin, loops>>

\* The entries of R leave both containers and the lock is released.
Erase(t, R) ==
    /\ managed' = managed \ R
    /\ ids_managed' \in Without(ids_managed, R)
    /\ writer' = NoThread
    /\ Return(t)
    /\ UNCHANGED <<readers, spin>>

\* Only remove runs the deallocator.
Remove(t) ==
    /\ pc[t] = "exclusive" /\ op[t] = "remove"
    /\ Erase(t, {arg[t]} \cap managed)
    /\ freed' = freed \cup ({arg[t]} \cap managed)

\* The predicate may select any of the managed ids.
RemoveIf(t) ==
    /\ pc[t] = "exclusive" /\ op[t] = "remove_if"
    /\ \E R \in SUBSET managed : Erase(t, R)
    /\ UNCHANGED freed

RemoveAll(t) ==
    /\ pc[t] = "exclusive" /\ op[t] = "remove_all"
    /\ Erase(t, managed)
    /\ UNCHANGED freed

-----------------------------------------------------------------------------
(* Undefined behaviour: t looks a key up, or writes one, in a map that     *)
(* another thread is writing.                                              *)

Crash(t) ==
    /\ MapBusy(t)
    /\ \/ pc[t] \in {"loop", "ins_map"}
       \/ pc[t] = "want" /\ op[t] \notin Loops \cup RemoveOps
    /\ crashed' = TRUE
    /\ UNCHANGED <<table, mutex, spin, loops, call, pc>>

-----------------------------------------------------------------------------

Init ==
    /\ managed = {} /\ ids_managed = <<>> /\ freed = {}
    /\ readers = {} /\ writer = NoThread
    /\ interrupt_lock = FALSE /\ resume_on_interrupt = FALSE
    /\ pc = [t \in Thread |-> "idle"]
    /\ op = [t \in Thread |-> "interrupt"]
    /\ arg = [t \in Thread |-> NoId]
    /\ pos = [t \in Thread |-> 1] /\ limit = [t \in Thread |-> 0]
    /\ crashed = FALSE

\* What a thread does once it is inside an operation.
Step(t) ==
    \/ LoopBegin(t) \/ LoopEnter(t) \/ LoopSkip(t) \/ LoopInterrupted(t)
    \/ LoopNext(t) \/ LoopEnd(t)
    \/ ExecOne(t) \/ ExecOneEnd(t)
    \/ ExecNow(t) \/ ExecNowEnter(t) \/ ExecNowEnd(t) \/ ExecMiss(t)
    \/ InterruptEnter(t) \/ InterruptEnd(t)
    \/ InsertBegin(t) \/ InsertDouble(t) \/ InsertMap(t) \/ InsertIds(t)
    \/ ExclusiveLock(t) \/ Remove(t) \/ RemoveIf(t) \/ RemoveAll(t)

\* The dead process.
Dead == crashed /\ UNCHANGED vars

Next ==
    \/ /\ ~crashed
       /\ \E t \in Thread :
             \/ \E o \in Operation, i \in Id \cup {NoId} : Call(t, o, i)
             \/ Step(t)
             \/ Crash(t)
    \/ Dead

Spec == Init /\ [][Next]_vars

\* A thread inside an operation is eventually scheduled; nobody has to call.
FairSpec == Spec /\ \A t \in Thread : WF_vars(Step(t))

-----------------------------------------------------------------------------
(* Properties *)

TypeOK ==
    /\ managed \subseteq Id /\ ids_managed \in Seq(Id) /\ freed \subseteq Id
    /\ readers \subseteq Thread /\ writer \in Thread \cup {NoThread}
    /\ interrupt_lock \in BOOLEAN /\ resume_on_interrupt \in BOOLEAN
    /\ pc \in [Thread -> PC]
    /\ op \in [Thread -> Operation]
    /\ arg \in [Thread -> Id \cup {NoId}]
    /\ pos \in [Thread -> Nat] /\ limit \in [Thread -> Nat]
    /\ crashed \in BOOLEAN

\* The module on which t runs an executor, or NoId.
Running(t) ==
    CASE pc[t] = "body"          -> ids_managed[pos[t]]
      [] pc[t] \in {"now", "one"} -> arg[t]
      [] OTHER                   -> NoId

\* interrupt_lock_ serializes the executors of exec_all, exec_if and
\* exec_one_now and the empty section of interrupt, although the flag is
\* set and cleared in different functions and by different threads.
InterruptExclusion ==
    \A t, u \in Thread :
        pc[t] \in HoldsPC /\ pc[u] \in HoldsPC => t = u

\* No executor runs on a module that has left the table or was deallocated,
\* whatever removals and inserts happen meanwhile.
RunsOnLive ==
    \A t \in Thread : Running(t) # NoId =>
        Running(t) \in managed /\ Running(t) \notin freed

\* While a pass of exec_all or exec_if is under way the list it iterates
\* over only grows at its end: its iterator stays valid and the pass meets
\* each id that was listed when it began, in that order.
InPass(t) == pc[t] \in {"loop", "body"}
StableDuringPass ==
    [][(\E t \in Thread : InPass(t)) =>
          \/ ids_managed' = ids_managed
          \/ \E i \in Id : ids_managed' = Append(ids_managed, i)]_vars

\* The locks and lists together keep the promise of ModuleTable.
Table == INSTANCE ModuleTable WITH
            live <- managed,
            running <- [t \in Thread |-> Running(t)],
            alone <- {t \in Thread : pc[t] \in {"body", "now"}}
ImplementsModuleTable == Table!Spec

\* As long as the process lives some call returns again and again: the two
\* locks together cannot block every thread for ever.
Progress == []<>(crashed \/ \E t \in Thread : pc[t] = "idle")

\* mutex_ is "multiple reads, one write": whoever writes the map or the list
\* of ids is alone, also when insert does it.
Writing(t) == pc[t] \in {"ins_map", "ins_ids"}
WritesAreExclusive ==
    \A t, u \in Thread : Writing(t) /\ pc[u] \in SharedPC => t = u
=============================================================================
