----------------------- MODULE SharedResourceProofs ------------------------
(***************************************************************************)
(* Safety of SharedResource for any threads, any ids and any list length.  *)
(***************************************************************************)
EXTENDS SharedResource, TLAPS, FiniteSetTheorems, SequenceTheorems

-----------------------------------------------------------------------------
(* The inductive invariant *)

\* mutex_: its holders are the threads inside a critical section.
LockInv ==
    /\ \A t \in Thread : t \in readers <=> pc[t] \in SharedPC
    /\ \A t \in Thread : writer = t <=> pc[t] = "exclusive"
    /\ writer # NoThread => readers = {}

\* interrupt_lock_: it is set while a thread is in a section it guards.
FlagInv ==
    /\ \A t \in Thread : pc[t] \in HoldsPC => interrupt_lock
    /\ InterruptExclusion

\* A thread inside an operation on one id has an id, which is managed once
\* it was found or written.
ArgInv ==
    \A t \in Thread :
        /\ op[t] \in IdOps => arg[t] \in Id
        /\ pc[t] \in {"ins_map", "ins_ids"} => arg[t] \in Id
        /\ pc[t] \in {"spin_one", "now", "one", "ins_ids"} => arg[t] \in managed

\* The two containers: what is listed is managed and alive, and a pass stays
\* inside the list.
TableInv ==
    /\ \A n \in 1..Len(ids_managed) : ids_managed[n] \in managed
    /\ managed \cap freed = {}

PassInv ==
    \A t \in Thread :
        /\ pos[t] >= 1
        /\ InPass(t) => limit[t] <= Len(ids_managed)
        /\ pc[t] = "body" => pos[t] <= limit[t]

Inv == TypeOK /\ LockInv /\ FlagInv /\ ArgInv /\ TableInv /\ PassInv

-----------------------------------------------------------------------------
(* Type correctness *)

\* What is left of a list without the ids in R is a list of other ids of it.
LEMMA WithoutType ==
    ASSUME NEW s \in Seq(Id), NEW R, NEW u \in Without(s, R)
    PROVE  /\ u \in Seq(Id)
           /\ \A m \in 1..Len(u) :
                 u[m] \notin R /\ \E n \in 1..Len(s) : u[m] = s[n]
<1> DEFINE kept == {n \in 1..Len(s) : s[n] \notin R}
           rest == {s[n] : n \in kept}
<1>1. Len(s) \in Nat
    BY LenProperties
<1>2. IsFiniteSet(1..Len(s))
    BY <1>1, FS_Interval
<1>3. IsFiniteSet(kept)
    BY <1>2, FS_Subset
<1>4. Cardinality(kept) \in Nat
    BY <1>3, FS_CardinalityType
<1>5. u \in [1..Cardinality(kept) -> rest]
    BY DEF Without
<1>6. u \in UNION {[1..n -> rest] : n \in Nat}
    BY <1>4, <1>5
<1>7. u \in Seq(rest)
    BY <1>6, SeqDef
<1>8. rest \subseteq Id
    BY ElementOfSeq
<1>9. u \in Seq(Id)
    BY <1>7, <1>8, SeqMonotonic
<1>10. \A m \in 1..Len(u) : u[m] \in rest
    BY <1>7, ElementOfSeq
<1>11. QED
    BY <1>9, <1>10

\* Every variable stays in its type, whatever the threads do.
LEMMA TypeStep == TypeOK /\ ArgInv /\ [Next]_vars => TypeOK'
<1> SUFFICES ASSUME TypeOK, ArgInv, [Next]_vars PROVE TypeOK'
    OBVIOUS
<1> USE DEF TypeOK, table, mutex, spin, loops, call, Goto, Return, SharedLock,
            SharedUnlock, SetFlag, ClearFlag, PC, SharedPC, Operation, IdOps, NowOps,
            Loops, RemoveOps
<1>1. ASSUME NEW t \in Thread, NEW o \in Operation, NEW i \in Id \cup {NoId},
             Call(t, o, i)
      PROVE  TypeOK'
    BY <1>1 DEF Call
<1>2. ASSUME NEW t \in Thread,
             \/ LoopBegin(t) \/ LoopEnter(t) \/ LoopSkip(t)
             \/ LoopInterrupted(t) \/ LoopNext(t) \/ LoopEnd(t)
      PROVE  TypeOK'
    <2>1. Len(ids_managed) \in Nat
        BY LenProperties
    <2>2. CASE LoopBegin(t) BY <2>1, <2>2 DEF LoopBegin
    <2>3. CASE LoopEnter(t) BY <2>3 DEF LoopEnter
    <2>4. CASE LoopSkip(t) BY <2>4 DEF LoopSkip
    <2>5. CASE LoopInterrupted(t) BY <2>5 DEF LoopInterrupted
    <2>6. CASE LoopNext(t)
        <3>1. pos' \in [Thread -> Nat]
            BY <2>6 DEF LoopNext
        <3>2. QED
            BY <2>6, <3>1 DEF LoopNext
    <2>7. CASE LoopEnd(t) BY <2>7 DEF LoopEnd
    <2>8. QED BY <1>2, <2>2, <2>3, <2>4, <2>5, <2>6, <2>7
<1>3. ASSUME NEW t \in Thread,
             \/ ExecOne(t) \/ ExecOneEnd(t) \/ ExecNow(t) \/ ExecNowEnter(t)
             \/ ExecNowEnd(t) \/ ExecMiss(t)
             \/ InterruptEnter(t) \/ InterruptEnd(t)
      PROVE  TypeOK'
    <2>1. CASE ExecOne(t) BY <2>1 DEF ExecOne
    <2>2. CASE ExecOneEnd(t) BY <2>2 DEF ExecOneEnd
    <2>3. CASE ExecNow(t) BY <2>3 DEF ExecNow
    <2>4. CASE ExecNowEnter(t) BY <2>4 DEF ExecNowEnter
    <2>5. CASE ExecNowEnd(t) BY <2>5 DEF ExecNowEnd
    <2>6. CASE ExecMiss(t) BY <2>6 DEF ExecMiss
    <2>7. CASE InterruptEnter(t) BY <2>7 DEF InterruptEnter
    <2>8. CASE InterruptEnd(t) BY <2>8 DEF InterruptEnd
    <2>9. QED
        BY <1>3, <2>1, <2>2, <2>3, <2>4, <2>5, <2>6, <2>7, <2>8
<1>4. ASSUME NEW t \in Thread,
             \/ InsertBegin(t) \/ InsertDouble(t) \/ InsertMap(t) \/ InsertIds(t)
      PROVE  TypeOK'
    <2>1. CASE InsertBegin(t) BY <2>1 DEF InsertBegin
    <2>2. CASE InsertDouble(t) BY <2>2 DEF InsertDouble
    <2>3. CASE InsertMap(t) BY ArgInv, <2>3 DEF InsertMap, ArgInv
    <2>4. CASE InsertIds(t)
        <3>1. arg[t] \in Id
            BY ArgInv, <2>4 DEF InsertIds, ArgInv
        <3>2. Append(ids_managed, arg[t]) \in Seq(Id)
            BY <3>1, AppendProperties
        <3>3. ids_managed' \in Seq(Id)
            BY <2>4, <3>2 DEF InsertIds
        <3>4. QED
            BY <2>4, <3>3 DEF InsertIds
    <2>5. QED BY <1>4, <2>1, <2>2, <2>3, <2>4
<1>5. ASSUME NEW t \in Thread,
             ExclusiveLock(t) \/ Remove(t) \/ RemoveIf(t) \/ RemoveAll(t)
      PROVE  TypeOK'
    <2>1. ASSUME NEW R, Erase(t, R)
          PROVE  ids_managed' \in Seq(Id)
        BY <2>1, WithoutType DEF Erase
    <2>2. CASE ExclusiveLock(t) BY <2>2 DEF ExclusiveLock
    <2>3. CASE Remove(t) BY <2>1, <2>3 DEF Remove, Erase
    <2>4. CASE RemoveIf(t) BY <2>1, <2>4 DEF RemoveIf, Erase
    <2>5. CASE RemoveAll(t) BY <2>1, <2>5 DEF RemoveAll, Erase
    <2>6. QED BY <1>5, <2>2, <2>3, <2>4, <2>5
<1>6. ASSUME NEW t \in Thread, Crash(t)
      PROVE  TypeOK'
    BY <1>6 DEF Crash
<1>7. CASE UNCHANGED vars
    BY <1>7 DEF vars
<1>8. QED
    BY <1>1, <1>2, <1>3, <1>4, <1>5, <1>6, <1>7 DEF Next, Step, Dead

-----------------------------------------------------------------------------
(* The locks *)

\* The holders of mutex_ are the threads inside, and a writer is alone.
LEMMA LockStep == TypeOK /\ LockInv /\ [Next]_vars => LockInv'
<1> SUFFICES ASSUME TypeOK, LockInv, [Next]_vars PROVE LockInv'
    OBVIOUS
<1> USE DEF TypeOK, table, mutex, spin, loops, call, Goto, Return, SharedLock,
            SharedUnlock, SetFlag, ClearFlag,
            LockInv, SharedPC
<1>1. ASSUME NEW t \in Thread, NEW o \in Operation, NEW i \in Id \cup {NoId},
             Call(t, o, i)
      PROVE  LockInv'
    BY <1>1 DEF Call
<1>2. ASSUME NEW t \in Thread, Step(t)
      PROVE  LockInv'
    <2>1. CASE LoopBegin(t) BY <2>1 DEF LoopBegin
    <2>2. CASE LoopEnter(t) BY <2>2 DEF LoopEnter, InLoop
    <2>3. CASE LoopSkip(t) BY <2>3 DEF LoopSkip, InLoop
    <2>4. CASE LoopInterrupted(t) BY <2>4 DEF LoopInterrupted, InLoop
    <2>5. CASE LoopNext(t) BY <2>5 DEF LoopNext
    <2>6. CASE LoopEnd(t) BY <2>6 DEF LoopEnd
    <2>7. CASE ExecOne(t) BY <2>7 DEF ExecOne
    <2>8. CASE ExecOneEnd(t) BY <2>8 DEF ExecOneEnd
    <2>9. CASE ExecNow(t) BY <2>9 DEF ExecNow
    <2>10. CASE ExecNowEnter(t) BY <2>10 DEF ExecNowEnter
    <2>11. CASE ExecNowEnd(t) BY <2>11 DEF ExecNowEnd
    <2>12. CASE ExecMiss(t) BY <2>12 DEF ExecMiss
    <2>13. CASE InterruptEnter(t) BY <2>13 DEF InterruptEnter
    <2>14. CASE InterruptEnd(t) BY <2>14 DEF InterruptEnd
    <2>15. CASE InsertBegin(t) BY <2>15 DEF InsertBegin
    <2>16. CASE InsertDouble(t) BY <2>16 DEF InsertDouble
    <2>17. CASE InsertMap(t) BY <2>17 DEF InsertMap
    <2>18. CASE InsertIds(t) BY <2>18 DEF InsertIds
    <2>19. CASE ExclusiveLock(t)
        BY <2>19, NoThreadAssumption DEF ExclusiveLock
    <2>20. CASE Remove(t)
        BY <2>20, NoThreadAssumption DEF Remove, Erase
    <2>21. CASE RemoveIf(t)
        BY <2>21, NoThreadAssumption DEF RemoveIf, Erase
    <2>22. CASE RemoveAll(t)
        BY <2>22, NoThreadAssumption DEF RemoveAll, Erase
    <2>23. QED
        BY <1>2, <2>1, <2>2, <2>3, <2>4, <2>5, <2>6, <2>7, <2>8, <2>9, <2>10,
           <2>11, <2>12, <2>13, <2>14, <2>15, <2>16, <2>17, <2>18, <2>19,
           <2>20, <2>21, <2>22 DEF Step
<1>3. ASSUME NEW t \in Thread, Crash(t)
      PROVE  LockInv'
    BY <1>3 DEF Crash
<1>4. CASE UNCHANGED vars
    BY <1>4 DEF vars
<1>5. QED
    BY <1>1, <1>2, <1>3, <1>4 DEF Next, Dead


\* The spin lock excludes: it is set as long as one thread is inside.
LEMMA FlagStep == TypeOK /\ FlagInv /\ [Next]_vars => FlagInv'
<1> SUFFICES ASSUME TypeOK, FlagInv, [Next]_vars PROVE FlagInv'
    OBVIOUS
<1> USE DEF TypeOK, table, mutex, spin, loops, call, Goto, Return, SharedLock,
            SharedUnlock, SetFlag, ClearFlag,
            FlagInv, InterruptExclusion, HoldsPC
<1>1. ASSUME NEW t \in Thread, NEW o \in Operation, NEW i \in Id \cup {NoId},
             Call(t, o, i)
      PROVE  FlagInv'
    BY <1>1 DEF Call
<1>2. ASSUME NEW t \in Thread, Step(t)
      PROVE  FlagInv'
    <2>1. CASE LoopBegin(t) BY <2>1 DEF LoopBegin
    <2>2. CASE LoopEnter(t) BY <2>2 DEF LoopEnter
    <2>3. CASE LoopSkip(t) BY <2>3 DEF LoopSkip
    <2>4. CASE LoopInterrupted(t) BY <2>4 DEF LoopInterrupted
    <2>5. CASE LoopNext(t) BY <2>5 DEF LoopNext
    <2>6. CASE LoopEnd(t) BY <2>6 DEF LoopEnd
    <2>7. CASE ExecOne(t) BY <2>7 DEF ExecOne
    <2>8. CASE ExecOneEnd(t) BY <2>8 DEF ExecOneEnd
    <2>9. CASE ExecNow(t) BY <2>9 DEF ExecNow
    <2>10. CASE ExecNowEnter(t) BY <2>10 DEF ExecNowEnter
    <2>11. CASE ExecNowEnd(t) BY <2>11 DEF ExecNowEnd
    <2>12. CASE ExecMiss(t) BY <2>12 DEF ExecMiss
    <2>13. CASE InterruptEnter(t) BY <2>13 DEF InterruptEnter
    <2>14. CASE InterruptEnd(t) BY <2>14 DEF InterruptEnd
    <2>15. CASE InsertBegin(t) BY <2>15 DEF InsertBegin
    <2>16. CASE InsertDouble(t) BY <2>16 DEF InsertDouble
    <2>17. CASE InsertMap(t) BY <2>17 DEF InsertMap
    <2>18. CASE InsertIds(t) BY <2>18 DEF InsertIds
    <2>19. CASE ExclusiveLock(t) BY <2>19 DEF ExclusiveLock
    <2>20. CASE Remove(t) BY <2>20 DEF Remove, Erase
    <2>21. CASE RemoveIf(t) BY <2>21 DEF RemoveIf, Erase
    <2>22. CASE RemoveAll(t) BY <2>22 DEF RemoveAll, Erase
    <2>23. QED
        BY <1>2, <2>1, <2>2, <2>3, <2>4, <2>5, <2>6, <2>7, <2>8, <2>9, <2>10,
           <2>11, <2>12, <2>13, <2>14, <2>15, <2>16, <2>17, <2>18, <2>19,
           <2>20, <2>21, <2>22 DEF Step
<1>3. ASSUME NEW t \in Thread, Crash(t)
      PROVE  FlagInv'
    BY <1>3 DEF Crash
<1>4. CASE UNCHANGED vars
    BY <1>4 DEF vars
<1>5. QED
    BY <1>1, <1>2, <1>3, <1>4 DEF Next, Dead


-----------------------------------------------------------------------------
(* The table and the passes over it *)

\* A thread that erases runs beside no reader.
LEMMA EraserAlone ==
    ASSUME LockInv, NEW t \in Thread, pc[t] = "exclusive"
    PROVE  \A u \in Thread : pc[u] \notin SharedPC
BY NoThreadAssumption DEF LockInv

\* A removal leaves no thread that relies on an id.
LEMMA EraseArg ==
    ASSUME TypeOK, LockInv, ArgInv,
           NEW t \in Thread, pc[t] = "exclusive", NEW R, Erase(t, R)
    PROVE  ArgInv'
<1>1. \A u \in Thread : pc'[u] \notin SharedPC
    BY EraserAlone DEF TypeOK, Erase, Return, SharedPC
<1>2. \A u \in Thread : op'[u] \in IdOps => arg'[u] \in Id
    BY DEF TypeOK, Erase, Return, ArgInv, IdOps, NowOps
<1>3. QED
    BY <1>1, <1>2 DEF ArgInv, SharedPC

\* The id an operation works on stays managed: removals wait for the
\* readers to leave.
LEMMA ArgStep == TypeOK /\ LockInv /\ ArgInv /\ [Next]_vars => ArgInv'
<1> SUFFICES ASSUME TypeOK, LockInv, ArgInv, [Next]_vars PROVE ArgInv'
    OBVIOUS
<1> USE DEF TypeOK, table, mutex, spin, loops, call, Goto, Return, SharedLock,
            SharedUnlock, SetFlag, ClearFlag,
            ArgInv, MayFind, MayMiss,
            Operation, IdOps, NowOps, Loops, RemoveOps
<1>1. ASSUME NEW t \in Thread, NEW o \in Operation, NEW i \in Id \cup {NoId},
             Call(t, o, i)
      PROVE  ArgInv'
    BY <1>1 DEF Call
<1>2. ASSUME NEW t \in Thread, Step(t)
      PROVE  ArgInv'
    <2>1. CASE LoopBegin(t) BY <2>1 DEF LoopBegin
    <2>2. CASE LoopEnter(t) BY <2>2 DEF LoopEnter, InLoop
    <2>3. CASE LoopSkip(t) BY <2>3 DEF LoopSkip, InLoop
    <2>4. CASE LoopInterrupted(t) BY <2>4 DEF LoopInterrupted, InLoop
    <2>5. CASE LoopNext(t) BY <2>5 DEF LoopNext
    <2>6. CASE LoopEnd(t) BY <2>6 DEF LoopEnd
    <2>7. CASE ExecOne(t) BY <2>7 DEF ExecOne
    <2>8. CASE ExecOneEnd(t) BY <2>8 DEF ExecOneEnd
    <2>9. CASE ExecNow(t) BY <2>9 DEF ExecNow
    <2>10. CASE ExecNowEnter(t) BY <2>10 DEF ExecNowEnter
    <2>11. CASE ExecNowEnd(t) BY <2>11 DEF ExecNowEnd
    <2>12. CASE ExecMiss(t) BY <2>12 DEF ExecMiss
    <2>13. CASE InterruptEnter(t) BY <2>13 DEF InterruptEnter
    <2>14. CASE InterruptEnd(t) BY <2>14 DEF InterruptEnd
    <2>15. CASE InsertBegin(t) BY <2>15 DEF InsertBegin
    <2>16. CASE InsertDouble(t) BY <2>16 DEF InsertDouble
    <2>17. CASE InsertMap(t) BY <2>17 DEF InsertMap
    <2>18. CASE InsertIds(t) BY <2>18 DEF InsertIds
    <2>19. CASE ExclusiveLock(t) BY <2>19 DEF ExclusiveLock
    <2>20. CASE Remove(t)
        BY <2>20, EraseArg DEF Remove
    <2>21. CASE RemoveIf(t)
        BY <2>21, EraseArg DEF RemoveIf
    <2>22. CASE RemoveAll(t)
        BY <2>22, EraseArg DEF RemoveAll
    <2>23. QED
        BY <1>2, <2>1, <2>2, <2>3, <2>4, <2>5, <2>6, <2>7, <2>8, <2>9, <2>10,
           <2>11, <2>12, <2>13, <2>14, <2>15, <2>16, <2>17, <2>18, <2>19,
           <2>20, <2>21, <2>22 DEF Step
<1>3. ASSUME NEW t \in Thread, Crash(t)
      PROVE  ArgInv'
    BY <1>3 DEF Crash
<1>4. CASE UNCHANGED vars
    BY <1>4 DEF vars
<1>5. QED
    BY <1>1, <1>2, <1>3, <1>4 DEF Next, Dead


\* Whatever is erased, the list keeps only ids that are still managed.
LEMMA EraseTable ==
    ASSUME TypeOK, TableInv, NEW t \in Thread, NEW R, Erase(t, R)
    PROVE  \A n \in 1..Len(ids_managed') : ids_managed'[n] \in managed'
<1>1. \A m \in 1..Len(ids_managed') :
         /\ ids_managed'[m] \notin R
         /\ \E n \in 1..Len(ids_managed) : ids_managed'[m] = ids_managed[n]
    BY WithoutType DEF Erase, TypeOK
<1>2. managed' = managed \ R
    BY DEF Erase
<1>3. QED
    BY <1>1, <1>2 DEF TableInv

\* What is listed is managed, and what is managed was not deallocated.
LEMMA TableStep == TypeOK /\ ArgInv /\ TableInv /\ [Next]_vars => TableInv'
<1> SUFFICES ASSUME TypeOK, ArgInv, TableInv, [Next]_vars PROVE TableInv'
    OBVIOUS
<1> USE DEF TypeOK, table, mutex, spin, loops, call, Goto, Return, SharedLock,
            SharedUnlock, SetFlag, ClearFlag,
            TableInv
<1>1. ASSUME NEW t \in Thread, NEW o \in Operation, NEW i \in Id \cup {NoId},
             Call(t, o, i)
      PROVE  TableInv'
    BY <1>1 DEF Call
<1>2. ASSUME NEW t \in Thread, Step(t)
      PROVE  TableInv'
    <2>1. CASE LoopBegin(t) BY <2>1 DEF LoopBegin
    <2>2. CASE LoopEnter(t) BY <2>2 DEF LoopEnter, InLoop
    <2>3. CASE LoopSkip(t) BY <2>3 DEF LoopSkip, InLoop
    <2>4. CASE LoopInterrupted(t) BY <2>4 DEF LoopInterrupted, InLoop
    <2>5. CASE LoopNext(t) BY <2>5 DEF LoopNext
    <2>6. CASE LoopEnd(t) BY <2>6 DEF LoopEnd
    <2>7. CASE ExecOne(t) BY <2>7 DEF ExecOne
    <2>8. CASE ExecOneEnd(t) BY <2>8 DEF ExecOneEnd
    <2>9. CASE ExecNow(t) BY <2>9 DEF ExecNow
    <2>10. CASE ExecNowEnter(t) BY <2>10 DEF ExecNowEnter
    <2>11. CASE ExecNowEnd(t) BY <2>11 DEF ExecNowEnd
    <2>12. CASE ExecMiss(t) BY <2>12 DEF ExecMiss
    <2>13. CASE InterruptEnter(t) BY <2>13 DEF InterruptEnter
    <2>14. CASE InterruptEnd(t) BY <2>14 DEF InterruptEnd
    <2>15. CASE InsertBegin(t) BY <2>15 DEF InsertBegin
    <2>16. CASE InsertDouble(t) BY <2>16 DEF InsertDouble
    <2>17. CASE InsertMap(t) BY <2>17 DEF InsertMap
    <2>18. CASE InsertIds(t)
        <3>1. arg[t] \in Id /\ arg[t] \in managed
            BY <2>18 DEF InsertIds, ArgInv
        <3>2. \A n \in 1..Len(Append(ids_managed, arg[t])) :
                 Append(ids_managed, arg[t])[n] \in managed
            BY <3>1, AppendProperties
        <3>3. QED
            BY <2>18, <3>2 DEF InsertIds
    <2>19. CASE ExclusiveLock(t) BY <2>19 DEF ExclusiveLock
    <2>20. CASE Remove(t)
        <3>1. \A n \in 1..Len(ids_managed') : ids_managed'[n] \in managed'
            BY <2>20, EraseTable DEF Remove
        <3>2. (managed \cap freed = {})'
            BY <2>20 DEF Remove, Erase
        <3>3. QED
            BY <3>1, <3>2
    <2>21. CASE RemoveIf(t)
        <3>1. \A n \in 1..Len(ids_managed') : ids_managed'[n] \in managed'
            BY <2>21, EraseTable DEF RemoveIf
        <3>2. (managed \cap freed = {})'
            BY <2>21 DEF RemoveIf, Erase
        <3>3. QED
            BY <3>1, <3>2
    <2>22. CASE RemoveAll(t)
        <3>1. \A n \in 1..Len(ids_managed') : ids_managed'[n] \in managed'
            BY <2>22, EraseTable DEF RemoveAll
        <3>2. (managed \cap freed = {})'
            BY <2>22 DEF RemoveAll, Erase
        <3>3. QED
            BY <3>1, <3>2
    <2>23. QED
        BY <1>2, <2>1, <2>2, <2>3, <2>4, <2>5, <2>6, <2>7, <2>8, <2>9, <2>10,
           <2>11, <2>12, <2>13, <2>14, <2>15, <2>16, <2>17, <2>18, <2>19,
           <2>20, <2>21, <2>22 DEF Step
<1>3. ASSUME NEW t \in Thread, Crash(t)
      PROVE  TableInv'
    BY <1>3 DEF Crash
<1>4. CASE UNCHANGED vars
    BY <1>4 DEF vars
<1>5. QED
    BY <1>1, <1>2, <1>3, <1>4 DEF Next, Dead


\* A pass stays inside the list, which nobody shortens during it.
LEMMA PassStep == TypeOK /\ LockInv /\ ArgInv /\ PassInv /\ [Next]_vars => PassInv'
<1> SUFFICES ASSUME TypeOK, LockInv, ArgInv, PassInv, [Next]_vars PROVE PassInv'
    OBVIOUS
<1> USE DEF TypeOK, table, mutex, spin, loops, call, Goto, Return, SharedLock,
            SharedUnlock, SetFlag, ClearFlag,
            PassInv, InPass
<1>1. ASSUME NEW t \in Thread, NEW o \in Operation, NEW i \in Id \cup {NoId},
             Call(t, o, i)
      PROVE  PassInv'
    BY <1>1 DEF Call
<1>2. ASSUME NEW t \in Thread, Step(t)
      PROVE  PassInv'
    <2>1. CASE LoopBegin(t)
        <3>1. Len(ids_managed) \in Nat
            BY LenProperties
        <3>2. QED
            BY <2>1, <3>1 DEF LoopBegin
    <2>2. CASE LoopEnter(t) BY <2>2 DEF LoopEnter, InLoop
    <2>3. CASE LoopSkip(t) BY <2>3 DEF LoopSkip, InLoop
    <2>4. CASE LoopInterrupted(t) BY <2>4 DEF LoopInterrupted, InLoop
    <2>5. CASE LoopNext(t) BY <2>5 DEF LoopNext
    <2>6. CASE LoopEnd(t) BY <2>6 DEF LoopEnd
    <2>7. CASE ExecOne(t) BY <2>7 DEF ExecOne
    <2>8. CASE ExecOneEnd(t) BY <2>8 DEF ExecOneEnd
    <2>9. CASE ExecNow(t) BY <2>9 DEF ExecNow
    <2>10. CASE ExecNowEnter(t) BY <2>10 DEF ExecNowEnter
    <2>11. CASE ExecNowEnd(t) BY <2>11 DEF ExecNowEnd
    <2>12. CASE ExecMiss(t) BY <2>12 DEF ExecMiss
    <2>13. CASE InterruptEnter(t) BY <2>13 DEF InterruptEnter
    <2>14. CASE InterruptEnd(t) BY <2>14 DEF InterruptEnd
    <2>15. CASE InsertBegin(t) BY <2>15 DEF InsertBegin
    <2>16. CASE InsertDouble(t) BY <2>16 DEF InsertDouble
    <2>17. CASE InsertMap(t) BY <2>17 DEF InsertMap
    <2>18. CASE InsertIds(t)
        <3>1. arg[t] \in Id
            BY <2>18 DEF InsertIds, ArgInv
        <3>2. Len(Append(ids_managed, arg[t])) = Len(ids_managed) + 1
            BY <3>1, AppendProperties
        <3>3. Len(ids_managed) \in Nat
            BY LenProperties
        <3>4. Len(ids_managed) <= Len(ids_managed')
            BY <2>18, <3>2, <3>3 DEF InsertIds
        <3>5. Len(ids_managed') \in Nat
            BY <2>18, <3>2, <3>3 DEF InsertIds
        <3>6. QED
            BY <2>18, <3>3, <3>4, <3>5 DEF InsertIds
    <2>19. CASE ExclusiveLock(t) BY <2>19 DEF ExclusiveLock
    <2>20. CASE Remove(t)
        BY <2>20, EraserAlone DEF Remove, Erase, SharedPC
    <2>21. CASE RemoveIf(t)
        BY <2>21, EraserAlone DEF RemoveIf, Erase, SharedPC
    <2>22. CASE RemoveAll(t)
        BY <2>22, EraserAlone DEF RemoveAll, Erase, SharedPC
    <2>23. QED
        BY <1>2, <2>1, <2>2, <2>3, <2>4, <2>5, <2>6, <2>7, <2>8, <2>9, <2>10,
           <2>11, <2>12, <2>13, <2>14, <2>15, <2>16, <2>17, <2>18, <2>19,
           <2>20, <2>21, <2>22 DEF Step
<1>3. ASSUME NEW t \in Thread, Crash(t)
      PROVE  PassInv'
    BY <1>3 DEF Crash
<1>4. CASE UNCHANGED vars
    BY <1>4 DEF vars
<1>5. QED
    BY <1>1, <1>2, <1>3, <1>4 DEF Next, Dead

-----------------------------------------------------------------------------
(* The invariant holds *)

LEMMA InitInv == Init => Inv
<1> SUFFICES ASSUME Init PROVE Inv
    OBVIOUS
<1>1. ids_managed \in Seq(Id) /\ Len(ids_managed) = 0
    BY EmptySeq DEF Init
<1>2. TypeOK
    BY <1>1 DEF Init, TypeOK, PC, SharedPC, Operation
<1>3. LockInv /\ FlagInv
    BY NoThreadAssumption
    DEF Init, LockInv, FlagInv, InterruptExclusion, SharedPC, HoldsPC
<1>4. ArgInv /\ TableInv /\ PassInv
    BY <1>1 DEF Init, ArgInv, TableInv, PassInv, InPass, IdOps, NowOps
<1>5. QED
    BY <1>2, <1>3, <1>4 DEF Inv

\* Inv is inductive, and every behaviour keeps it.
THEOREM Invariance == Spec => []Inv
<1>1. Inv /\ [Next]_vars => Inv'
    BY TypeStep, LockStep, FlagStep, ArgStep, TableStep, PassStep DEF Inv
<1>2. QED
    BY InitInv, <1>1, PTL DEF Spec

\* Every variable keeps its type, for any threads, ids and list length.
THEOREM TypeCorrect == Spec => []TypeOK
<1>1. Inv => TypeOK
    BY DEF Inv
<1>2. QED
    BY Invariance, <1>1, PTL

\* The spin lock shared by exec_all, exec_if, exec_one_now and interrupt
\* admits one thread at a time.
THEOREM SpinLockExcludes == Spec => []InterruptExclusion
<1>1. Inv => InterruptExclusion
    BY DEF Inv, FlagInv
<1>2. QED
    BY Invariance, <1>1, PTL

\* A running executor's module is managed.
LEMMA RunningManaged ==
    ASSUME Inv, NEW t \in Thread
    PROVE  /\ pc[t] \in {"body", "now", "one"} => Running(t) \in managed
           /\ pc[t] \notin {"body", "now", "one"} => Running(t) = NoId
<1>1. CASE pc[t] = "body"
    <2>1. pos[t] \in 1..Len(ids_managed)
        BY <1>1, LenProperties DEF Inv, TypeOK, PassInv, InPass
    <2>2. QED
        BY <1>1, <2>1 DEF Inv, TableInv, Running
<1>2. CASE pc[t] \in {"now", "one"}
    BY <1>2 DEF Inv, ArgInv, Running
<1>3. CASE pc[t] \notin {"body", "now", "one"}
    BY <1>3 DEF Running
<1>4. QED
    BY <1>1, <1>2, <1>3

\* No executor of exec_all, exec_if, exec_one or exec_one_now ever runs on a
\* module that was erased or deallocated.
THEOREM ExecutorsRunOnLiveModules == Spec => []RunsOnLive
<1>1. Inv => RunsOnLive
    BY RunningManaged DEF Inv, TableInv, RunsOnLive
<1>2. QED
    BY Invariance, <1>1, PTL

-----------------------------------------------------------------------------
(* Passes are stable *)

\* What a step does to the list: only insert extends it and only a thread
\* that holds the lock exclusively shortens it.
LEMMA ListStep ==
    ASSUME Inv, [Next]_vars
    PROVE  \/ ids_managed' = ids_managed
           \/ \E i \in Id : ids_managed' = Append(ids_managed, i)
           \/ \E t \in Thread : pc[t] = "exclusive"
<1> USE DEF table, Goto, Return
<1>1. ASSUME NEW t \in Thread, NEW o \in Operation, NEW i \in Id \cup {NoId},
             Call(t, o, i)
      PROVE  ids_managed' = ids_managed
    BY <1>1 DEF Call
<1>2. ASSUME NEW t \in Thread,
             \/ LoopBegin(t) \/ LoopEnter(t) \/ LoopSkip(t)
             \/ LoopInterrupted(t) \/ LoopNext(t) \/ LoopEnd(t)
             \/ ExecOne(t) \/ ExecOneEnd(t) \/ ExecNow(t) \/ ExecNowEnter(t)
             \/ ExecNowEnd(t) \/ ExecMiss(t)
             \/ InterruptEnter(t) \/ InterruptEnd(t)
             \/ InsertBegin(t) \/ InsertDouble(t) \/ InsertMap(t)
             \/ ExclusiveLock(t)
      PROVE  ids_managed' = ids_managed
    BY <1>2
    DEF LoopBegin, LoopEnter, LoopSkip, LoopInterrupted, LoopNext, LoopEnd,
        ExecOne, ExecOneEnd, ExecNow, ExecNowEnter, ExecNowEnd, ExecMiss,
        InterruptEnter, InterruptEnd, InsertBegin, InsertDouble, InsertMap,
        ExclusiveLock
<1>3. ASSUME NEW t \in Thread, InsertIds(t)
      PROVE  \/ ids_managed' = ids_managed
             \/ \E i \in Id : ids_managed' = Append(ids_managed, i)
    BY <1>3 DEF InsertIds, Inv, ArgInv
<1>4. ASSUME NEW t \in Thread, Remove(t) \/ RemoveIf(t) \/ RemoveAll(t)
      PROVE  pc[t] = "exclusive"
    BY <1>4 DEF Remove, RemoveIf, RemoveAll
<1>5. ASSUME NEW t \in Thread, Crash(t)
      PROVE  ids_managed' = ids_managed
    BY <1>5 DEF Crash
<1>6. CASE UNCHANGED vars
    BY <1>6 DEF vars
<1>7. QED
    BY <1>1, <1>2, <1>3, <1>4, <1>5, <1>6 DEF Next, Step, Dead

\* During a pass the list it iterates over is only extended at its end.
THEOREM PassesAreStable == Spec => StableDuringPass
<1>1. Inv /\ [Next]_vars =>
         [(\E t \in Thread : InPass(t)) =>
            \/ ids_managed' = ids_managed
            \/ \E i \in Id : ids_managed' = Append(ids_managed, i)]_vars
    <2> SUFFICES ASSUME Inv, [Next]_vars, NEW t \in Thread, InPass(t)
                 PROVE  \/ ids_managed' = ids_managed
                        \/ \E i \in Id : ids_managed' = Append(ids_managed, i)
        OBVIOUS
    <2>1. \A u \in Thread : pc[u] # "exclusive"
        BY EraserAlone DEF Inv, InPass, SharedPC
    <2>2. QED
        BY <2>1, ListStep
<1>2. QED
    BY Invariance, <1>1, PTL DEF Spec, StableDuringPass

-----------------------------------------------------------------------------
(* Refinement of ModuleTable *)

Executing == [t \in Thread |-> Running(t)]
Alone     == {t \in Thread : pc[t] \in {"body", "now"}}

\* A thread whose own variables stay keeps running the same module: the list
\* may only grow behind its back.
LEMMA RunningFrame ==
    ASSUME Inv, NEW u \in Thread,
           pc'[u] = pc[u], arg'[u] = arg[u], pos'[u] = pos[u],
           \/ ids_managed' = ids_managed
           \/ \E i \in Id : ids_managed' = Append(ids_managed, i)
           \/ pc[u] # "body"
    PROVE  Running(u)' = Running(u)
<1>1. CASE pc[u] = "body"
    <2>1. pos[u] \in 1..Len(ids_managed)
        BY <1>1, LenProperties DEF Inv, TypeOK, PassInv, InPass
    <2>2. ids_managed'[pos[u]] = ids_managed[pos[u]]
        BY <1>1, <2>1, AppendProperties DEF Inv, TypeOK
    <2>3. QED
        BY <1>1, <2>2 DEF Running
<1>2. CASE pc[u] # "body"
    BY <1>2 DEF Running
<1>3. QED
    BY <1>1, <1>2

\* A step of t that starts no executor and ends none, and leaves the table
\* as it is or extends the list, is a stutter of the abstract table.
LEMMA QuietStep ==
    ASSUME Inv, NEW t \in Thread, managed' = managed,
           \/ ids_managed' = ids_managed
           \/ \E i \in Id : ids_managed' = Append(ids_managed, i),
           \A u \in Thread \ {t} :
               pc'[u] = pc[u] /\ arg'[u] = arg[u] /\ pos'[u] = pos[u],
           pc[t] \notin {"body", "now", "one"},
           pc'[t] \notin {"body", "now", "one"}
    PROVE  UNCHANGED Table!vars
<1>1. Running(t)' = Running(t)
    BY DEF Running
<1>2. \A u \in Thread : Running(u)' = Running(u)
    BY <1>1, RunningFrame
<1>3. Executing' = Executing
    BY <1>2 DEF Executing
<1>4. Alone' = Alone
    BY DEF Alone
<1>5. QED
    BY <1>3, <1>4 DEF Table!vars, Executing, Alone

\* A step of t that starts an executor is a start of the abstract table.
LEMMA StartStep ==
    ASSUME Inv, NEW t \in Thread, UNCHANGED <<managed, ids_managed, arg, pos>>,
           NEW p \in {"body", "now", "one"}, pc' = [pc EXCEPT ![t] = p],
           pc[t] \notin {"body", "now", "one"},
           NEW i \in managed, Running(t)' = i,
           p # "one" => ~interrupt_lock
    PROVE  Table!Next
<1>1. i \in Id
    BY DEF Inv, TypeOK
<1>2. Executing[t] = NoId
    BY RunningManaged DEF Executing
<1>3. \A u \in Thread \ {t} : Running(u)' = Running(u)
    BY RunningFrame DEF Inv, TypeOK
<1>4. Executing' = [Executing EXCEPT ![t] = i]
    BY <1>3 DEF Executing
<1>5. CASE p = "one"
    <2>1. Alone' = Alone
        BY <1>5 DEF Alone, Inv, TypeOK
    <2>2. Table!StartShared(t, i)
        BY <1>2, <1>4, <2>1
        DEF Table!StartShared, Table!Start, Executing, Alone
    <2>3. QED
        BY <1>1, <2>2 DEF Table!Next
<1>6. CASE p # "one"
    <2>1. Alone = {}
        BY <1>6 DEF Inv, FlagInv, HoldsPC, Alone
    <2>2. Alone' = {t}
        BY <1>6, <2>1 DEF Alone, Inv, TypeOK
    <2>3. Table!StartAlone(t, i)
        BY <1>2, <1>4, <2>1, <2>2
        DEF Table!StartAlone, Table!Start, Executing, Alone
    <2>4. QED
        BY <1>1, <2>3 DEF Table!Next
<1>7. QED
    BY <1>5, <1>6

\* A step of t that ends its executor is a finish of the abstract table.
LEMMA FinishStep ==
    ASSUME Inv, NEW t \in Thread, UNCHANGED <<managed, ids_managed>>,
           \A u \in Thread \ {t} :
               pc'[u] = pc[u] /\ arg'[u] = arg[u] /\ pos'[u] = pos[u],
           pc[t] \in {"body", "now", "one"},
           pc'[t] \notin {"body", "now", "one"}
    PROVE  Table!Next
<1>1. Executing[t] # NoId
    BY RunningManaged, NoIdAssumption DEF Executing, Inv, TypeOK
<1>2. Running(t)' = NoId
    BY DEF Running
<1>3. \A u \in Thread \ {t} : Running(u)' = Running(u)
    BY RunningFrame
<1>4. Executing' = [Executing EXCEPT ![t] = NoId]
    BY <1>2, <1>3 DEF Executing
<1>5. Alone' = Alone \ {t}
    BY DEF Alone
<1>6. Table!Finish(t)
    BY <1>1, <1>4, <1>5 DEF Table!Finish, Executing, Alone
<1>7. QED
    BY <1>6 DEF Table!Next

\* Erasing is a drop of the abstract table: nobody runs an executor.
LEMMA EraseStep ==
    ASSUME Inv, NEW t \in Thread, pc[t] = "exclusive",
           NEW R \in SUBSET Id, Erase(t, R)
    PROVE  Table!Next
<1>1. \A u \in Thread : pc[u] \notin {"body", "now", "one"}
    BY EraserAlone DEF Inv, SharedPC
<1>2. \A u \in Thread : pc'[u] \notin {"body", "now", "one"}
    BY <1>1 DEF Erase, Return, Inv, TypeOK
<1>3. \A u \in Thread : Running(u) = NoId /\ Running(u)' = NoId
    BY <1>1, <1>2 DEF Running
<1>4. Executing' = Executing /\ \A u \in Thread : Executing[u] = NoId
    BY <1>3 DEF Executing
<1>5. Alone' = Alone
    BY <1>1, <1>2 DEF Alone
<1>6. Table!Drop(R)
    BY <1>4, <1>5 DEF Table!Drop, Erase, Executing, Alone
<1>7. QED
    BY <1>6 DEF Table!Next

\* Every step of SharedResource is a step of ModuleTable or a stutter.
LEMMA TableSimulation == Inv /\ [Next]_vars => [Table!Next]_(Table!vars)
<1> SUFFICES ASSUME Inv, [Next]_vars PROVE [Table!Next]_(Table!vars)
    OBVIOUS
<1> USE DEF Inv, TypeOK, table, mutex, loops, call, Goto, Return
<1>1. ASSUME NEW t \in Thread, NEW o \in Operation, NEW i \in Id \cup {NoId},
             Call(t, o, i)
      PROVE  UNCHANGED Table!vars
    BY <1>1, QuietStep DEF Call
<1>2. ASSUME NEW t \in Thread, Step(t)
      PROVE  [Table!Next]_(Table!vars)
    <2>1. CASE LoopBegin(t) BY <2>1, QuietStep DEF LoopBegin, SharedLock
    <2>2. CASE LoopEnter(t)
        <3>1. pos[t] \in 1..Len(ids_managed)
            BY <2>2, LenProperties DEF LoopEnter, InLoop, PassInv, InPass
        <3>2. ids_managed[pos[t]] \in managed
            BY <3>1 DEF TableInv
        <3>3. Running(t)' = ids_managed[pos[t]]
            BY <2>2 DEF LoopEnter, Running
        <3>4. QED
            BY <2>2, <3>2, <3>3, StartStep DEF LoopEnter, InLoop, SetFlag
    <2>3. CASE LoopSkip(t) BY <2>3, QuietStep DEF LoopSkip, InLoop
    <2>4. CASE LoopInterrupted(t)
        BY <2>4, QuietStep DEF LoopInterrupted, InLoop
    <2>5. CASE LoopNext(t) BY <2>5, FinishStep DEF LoopNext
    <2>6. CASE LoopEnd(t) BY <2>6, QuietStep DEF LoopEnd
    <2>7. CASE ExecOne(t)
        <3>1. Running(t)' = arg[t]
            BY <2>7 DEF ExecOne, Running
        <3>2. QED
            BY <2>7, <3>1, StartStep DEF ExecOne, SharedLock, MayFind
    <2>8. CASE ExecOneEnd(t) BY <2>8, FinishStep DEF ExecOneEnd
    <2>9. CASE ExecNow(t) BY <2>9, QuietStep DEF ExecNow, SharedLock
    <2>10. CASE ExecNowEnter(t)
        <3>1. Running(t)' = arg[t]
            BY <2>10 DEF ExecNowEnter, Running
        <3>2. QED
            BY <2>10, <3>1, StartStep DEF ExecNowEnter, SetFlag, ArgInv
    <2>11. CASE ExecNowEnd(t) BY <2>11, FinishStep DEF ExecNowEnd
    <2>12. CASE ExecMiss(t) BY <2>12, QuietStep DEF ExecMiss
    <2>13. CASE InterruptEnter(t) BY <2>13, QuietStep DEF InterruptEnter
    <2>14. CASE InterruptEnd(t) BY <2>14, QuietStep DEF InterruptEnd
    <2>15. CASE InsertBegin(t) BY <2>15, QuietStep DEF InsertBegin, SharedLock
    <2>16. CASE InsertDouble(t) BY <2>16, QuietStep DEF InsertDouble
    <2>17. CASE InsertMap(t)
        <3>1. \A u \in Thread : Running(u)' = Running(u)
            BY <2>17, RunningFrame DEF InsertMap, Running
        <3>2. Executing' = Executing
            BY <3>1 DEF Executing
        <3>3. Alone' = Alone
            BY <2>17 DEF InsertMap, Alone
        <3>4. Table!Add(arg[t])
            BY <2>17, <3>2, <3>3
            DEF InsertMap, Table!Add, Executing, Alone
        <3>5. QED
            BY <2>17, <3>4 DEF InsertMap, ArgInv, Table!Next
    <2>18. CASE InsertIds(t)
        BY <2>18, QuietStep DEF InsertIds, ArgInv
    <2>19. CASE ExclusiveLock(t) BY <2>19, QuietStep DEF ExclusiveLock
    <2>20. CASE Remove(t) BY <2>20, EraseStep DEF Remove
    <2>21. CASE RemoveIf(t) BY <2>21, EraseStep DEF RemoveIf
    <2>22. CASE RemoveAll(t) BY <2>22, EraseStep DEF RemoveAll
    <2>23. QED
        BY <1>2, <2>1, <2>2, <2>3, <2>4, <2>5, <2>6, <2>7, <2>8, <2>9, <2>10,
           <2>11, <2>12, <2>13, <2>14, <2>15, <2>16, <2>17, <2>18, <2>19,
           <2>20, <2>21, <2>22 DEF Step
<1>3. ASSUME NEW t \in Thread, Crash(t)
      PROVE  UNCHANGED Table!vars
    BY <1>3 DEF Crash, Table!vars, Running
<1>4. CASE UNCHANGED vars
    BY <1>4 DEF vars, Table!vars, Running
<1>5. QED
    BY <1>1, <1>2, <1>3, <1>4 DEF Next, Dead

\* The locks, lists and flags of shared_resource.hh keep the promise of the
\* abstract table: executors run on live modules, nothing is dropped while
\* one runs, and those that ask to run alone do.
THEOREM TableRefinement == Spec => ImplementsModuleTable
<1>1. Init => Table!Init
    BY DEF Init, Table!Init, Running
<1>2. QED
    BY <1>1, Invariance, TableSimulation, PTL
    DEF Spec, ImplementsModuleTable, Table!Spec
=============================================================================
