----------------------- MODULE LowLatencyCallProofs ------------------------
(***************************************************************************)
(* Safety of LowLatencyCall for any clients, operations and GRAINS.        *)
(*                                                                         *)
(* The two properties the runs check are inductive together, given that a  *)
(* client inside a call has an operation: a thread gets the flag by a      *)
(* test_and_set that found it clear, when it has no owner.                 *)
(***************************************************************************)
EXTENDS LowLatencyCall, TLAPS

\* A client about to start a worker knows what the worker is to run.
CallInv == \A c \in Client : pc[c] = "test" => op[c] \in Op

Inv == TypeOK /\ CallInv /\ OneOperation /\ FlagHasOneOwner

\* Every variable stays in its type.
LEMMA TypeStep == TypeOK /\ [Next]_vars => TypeOK'
<1> SUFFICES ASSUME TypeOK, [Next]_vars PROVE TypeOK'
    OBVIOUS
<1> USE GrainsAssumption
        DEF TypeOK, Goto, TestAndSet, ClearFlag, client, PC, WorkerPC, Result
<1>1. ASSUME NEW c \in Client, NEW o \in Op, Call(c, o)
      PROVE  TypeOK'
    BY <1>1 DEF Call
<1>2. ASSUME NEW c \in Client, Quit(c)
      PROVE  TypeOK'
    BY <1>2 DEF Quit
<1>3. ASSUME NEW c \in Client, Step(c)
      PROVE  TypeOK'
    <2>1. CASE Accept(c)
        <3>1. worker' \in [Op -> WorkerPC]
            BY <2>1 DEF Accept
        <3>2. QED
            BY <2>1, <3>1 DEF Accept
    <2>2. CASE Busy(c) BY <2>2 DEF Busy
    <2>3. CASE Poll(c)
        <3>1. i' \in [Client -> 0..Grains]
            BY <2>3 DEF Poll
        <3>2. QED
            BY <2>3, <3>1 DEF Poll
    <2>4. CASE Polled(c) BY <2>4 DEF Polled
    <2>5. CASE TimeOut(c) BY <2>5 DEF TimeOut
    <2>6. CASE Clear(c) BY <2>6 DEF Clear
    <2>7. CASE Return(c) BY <2>7 DEF Return
    <2>8. CASE QuitWait(c) BY <2>8 DEF QuitWait
    <2>9. CASE QuitClear(c) BY <2>9 DEF QuitClear
    <2>10. CASE QuitEnd(c) BY <2>10 DEF QuitEnd
    <2>11. QED
        BY <1>3, <2>1, <2>2, <2>3, <2>4, <2>5, <2>6, <2>7, <2>8, <2>9, <2>10
        DEF Step
<1>4. ASSUME NEW o \in Op, Work(o)
      PROVE  TypeOK'
    BY <1>4 DEF Work, Store, Finish
<1>5. CASE UNCHANGED vars
    BY <1>5 DEF vars
<1>6. QED
    BY <1>1, <1>2, <1>3, <1>4, <1>5 DEF Next

LEMMA CallStep == TypeOK /\ CallInv /\ [Next]_vars => CallInv'
BY DEF TypeOK, CallInv, Next, vars, client, Goto, Call, Quit, Step, Work,
       Accept, Busy, Poll, Polled, TimeOut, Clear, Return, QuitWait, QuitClear,
       QuitEnd, Store, Finish

\* Who has the flag after a step that neither takes nor gives it.
LEMMA SameOwner ==
    ASSUME Inv, UNCHANGED tv_buffer_flag, Workers' = Workers,
           Passing' = Passing
    PROVE  (OneOperation /\ FlagHasOneOwner)'
BY DEF Inv, OneOperation, FlagHasOneOwner

\* The flag has one owner at a time.
LEMMA OwnerStep ==
    Inv /\ [Next]_vars => (OneOperation /\ FlagHasOneOwner)'
<1> SUFFICES ASSUME Inv, [Next]_vars
             PROVE  (OneOperation /\ FlagHasOneOwner)'
    OBVIOUS
<1> USE DEF Goto, client
<1>1. ASSUME NEW c \in Client,
             \/ \E o \in Op : Call(c, o)
             \/ Quit(c) \/ Busy(c) \/ Poll(c) \/ TimeOut(c) \/ Return(c)
             \/ QuitEnd(c)
      PROVE  (OneOperation /\ FlagHasOneOwner)'
    <2>1. UNCHANGED <<tv_buffer_flag, worker>>
        BY <1>1 DEF Call, Quit, Busy, Poll, TimeOut, Return, QuitEnd
    <2>2. Passing' = Passing
        BY <1>1 DEF Call, Quit, Busy, Poll, TimeOut, Return, QuitEnd, Passing,
                    Inv, TypeOK
    <2>3. QED
        BY <2>1, <2>2, SameOwner DEF Workers
<1>2. ASSUME NEW c \in Client, Accept(c)
      PROVE  (OneOperation /\ FlagHasOneOwner)'
    <2>1. Passing = {} /\ Workers = {} /\ tv_buffer_flag' = TRUE
        BY <1>2 DEF Accept, TestAndSet, Inv, FlagHasOneOwner
    <2>2. Passing' = {}
        BY <1>2, <2>1 DEF Accept, Passing, Inv, TypeOK
    <2>3. op[c] \in Op
        BY <1>2 DEF Accept, Inv, CallInv
    <2>4. Workers' = {op[c]}
        BY <1>2, <2>1, <2>3 DEF Accept, Workers, Inv, TypeOK
    <2>5. QED
        BY <2>1, <2>2, <2>4 DEF OneOperation, FlagHasOneOwner
<1>3. ASSUME NEW c \in Client, Polled(c) \/ QuitWait(c)
      PROVE  (OneOperation /\ FlagHasOneOwner)'
    <2>1. Passing = {} /\ Workers = {} /\ tv_buffer_flag' = TRUE
        BY <1>3 DEF Polled, QuitWait, TestAndSet, Inv, FlagHasOneOwner
    <2>2. Passing' = {c}
        BY <1>3, <2>1 DEF Polled, QuitWait, Passing, Inv, TypeOK
    <2>3. Workers' = {}
        BY <1>3, <2>1 DEF Polled, QuitWait, Workers
    <2>4. QED
        BY <2>1, <2>2, <2>3 DEF OneOperation, FlagHasOneOwner
<1>4. ASSUME NEW c \in Client, Clear(c) \/ QuitClear(c)
      PROVE  (OneOperation /\ FlagHasOneOwner)'
    <2>1. Passing = {c} /\ Workers = {} /\ tv_buffer_flag' = FALSE
        BY <1>4 DEF Clear, QuitClear, ClearFlag, Inv, FlagHasOneOwner, Passing
    <2>2. Passing' = {}
        BY <1>4, <2>1 DEF Clear, QuitClear, Passing, Inv, TypeOK
    <2>3. Workers' = {}
        BY <1>4, <2>1 DEF Clear, QuitClear, Workers
    <2>4. QED
        BY <2>1, <2>2, <2>3 DEF OneOperation, FlagHasOneOwner
<1>5. ASSUME NEW o \in Op, Store(o)
      PROVE  (OneOperation /\ FlagHasOneOwner)'
    <2>1. Workers' = Workers
        BY <1>5 DEF Store, Workers, Inv, TypeOK
    <2>2. Passing' = Passing
        BY <1>5 DEF Store, Passing
    <2>3. QED
        BY <1>5, <2>1, <2>2, SameOwner DEF Store
<1>6. ASSUME NEW o \in Op, Finish(o)
      PROVE  (OneOperation /\ FlagHasOneOwner)'
    <2>1. Workers = {o} /\ Passing = {} /\ tv_buffer_flag' = FALSE
        BY <1>6 DEF Finish, ClearFlag, Workers, Inv, OneOperation,
                    FlagHasOneOwner
    <2>2. Workers' = {}
        BY <1>6, <2>1 DEF Finish, Workers, Inv, TypeOK
    <2>3. Passing' = {}
        BY <1>6, <2>1 DEF Finish, Passing
    <2>4. QED
        BY <2>1, <2>2, <2>3 DEF OneOperation, FlagHasOneOwner
<1>7. CASE UNCHANGED vars
    BY <1>7, SameOwner DEF vars, Workers, Passing
<1>8. QED
    BY <1>1, <1>2, <1>3, <1>4, <1>5, <1>6, <1>7 DEF Next, Step, Work

\* Inv holds initially and is preserved.
THEOREM Invariance == Spec => []Inv
<1>1. Init => Inv
    <2> SUFFICES ASSUME Init PROVE Inv
        OBVIOUS
    <2>1. TypeOK
        <3>1. 0 \in 0..Grains
            BY GrainsAssumption
        <3>2. i \in [Client -> 0..Grains]
            BY <3>1 DEF Init
        <3>3. pc \in [Client -> PC] /\ op \in [Client -> Op \cup {NoOp}]
            BY DEF Init, PC
        <3>4. worker \in [Op -> WorkerPC]
            BY DEF Init, WorkerPC
        <3>5. QED
            BY <3>2, <3>3, <3>4 DEF Init, TypeOK, Result
    <2>2. Workers = {} /\ Passing = {} /\ ~tv_buffer_flag
        BY DEF Init, Workers, Passing
    <2>3. CallInv
        BY DEF Init, CallInv
    <2>4. QED
        BY <2>1, <2>2, <2>3 DEF Inv, OneOperation, FlagHasOneOwner
<1>2. Inv /\ [Next]_vars => Inv'
    BY TypeStep, CallStep, OwnerStep DEF Inv
<1>3. QED
    BY <1>1, <1>2, PTL DEF Spec

\* Every variable of the protocol keeps its type.
THEOREM TypeCorrect == Spec => []TypeOK
<1>1. Inv => TypeOK
    BY DEF Inv
<1>2. QED
    BY Invariance, <1>1, PTL

\* However many clients call and whatever times out, one operation runs.
THEOREM OneOperationAtATime == Spec => []OneOperation
<1>1. Inv => OneOperation
    BY DEF Inv
<1>2. QED
    BY Invariance, <1>1, PTL

\* tv_buffer_flag is set exactly while one thread owns it: a worker, or a
\* client between its successful poll and its clear.
THEOREM FlagOwnership == Spec => []FlagHasOneOwner
<1>1. Inv => FlagHasOneOwner
    BY DEF Inv
<1>2. QED
    BY Invariance, <1>1, PTL
=============================================================================
