----------------------------- MODULE ApiProofs -----------------------------
(***************************************************************************)
(* Safety of Api for any number of loads.                                  *)
(***************************************************************************)
EXTENDS Api, TLAPS, FiniteSetTheorems

-----------------------------------------------------------------------------
(* The inductive invariant *)

\* What a caller has established when it is at a program point.
CallInv ==
    /\ callPc["client"] = "load" =>
         \/ callOp["client"] = "module_load" /\ next_public \in PublicId
         \/ callOp["client"] = "start_idle" /\ next_internal \in InternalId
    /\ callPc["client"] = "wait" => num["client"] \in ModuleId
    /\ callPc["client"] \in {"pause", "disable", "clear"} => callOp["client"] = "quit"
    /\ callPc["client"] # "idle" /\ callOp["client"] = "quit" => callPc["worker"] = "idle"

\* Passes visit loaded modules and are over when their loop has ended.
PassInv ==
    /\ PassesOnLoaded
    /\ main # "pass" => pass = {}
    /\ \A c \in Caller : callPc[c] # "disable" => todo[c] = {}

\* A module that ran while Removable is still in the table, and it is not
\* when the next pass begins.
LateInv ==
    /\ RemovableRunsOnce
    /\ late \subseteq loaded \cap removable
    /\ main \notin {"pass", "sweep"} => late = {}

\* An id about to be inserted was given out and is not in the table.
Used == 1..next_public - 1 \cup 128..next_internal - 1
IdInv ==
    /\ removable \subseteq loaded
    /\ inserting \cap loaded = {}
    /\ inserting \cup loaded \subseteq Used

Inv == ApiTypeOK /\ CallInv /\ OneLoop /\ PassInv /\ LateInv /\ IdInv

-----------------------------------------------------------------------------
(* Type correctness *)

LEMMA IdFinite == IsFiniteSet(ModuleId)
<1>1. IsFiniteSet(PublicId) /\ IsFiniteSet(InternalId)
    BY FS_Interval, MaxPublicAssumption, MaxInternalAssumption
    DEF PublicId, InternalId
<1>2. QED
    BY <1>1, FS_Union DEF ModuleId

\* A release leaves a count and a device that is open or not.
LEMMA ReleaseType ==
    ASSUME ApiTypeOK, NEW o \in BOOLEAN, ReleaseFrom(o)
    PROVE  users' \in Nat /\ opened' \in BOOLEAN
<1>1. users' \in Nat
    BY DEF ApiTypeOK, ReleaseFrom
<1>2. opened' \in BOOLEAN
    <2>1. CASE users > 1
        BY <2>1 DEF ReleaseFrom
    <2>2. CASE ~(users > 1)
        BY <2>2 DEF ReleaseFrom
    <2>3. QED
        BY <2>1, <2>2
<1>3. QED
    BY <1>1, <1>2

\* The execution of a module keeps the types of what it writes.
LEMMA ExecType ==
    ASSUME ApiTypeOK, NEW i \in ModuleId, NEW en \in SUBSET ModuleId, NEW on \in SUBSET ModuleId,
           NEW o \in BOOLEAN, ModuleExec(i, en, on, o)
    PROVE  /\ once' \subseteq ModuleId /\ enabled' \subseteq ModuleId
           /\ removable' \subseteq ModuleId
           /\ users' \in Nat /\ opened' \in BOOLEAN
<1>1. ReleaseFrom(o) => users' \in Nat /\ opened' \in BOOLEAN
    BY ReleaseType
<1>2. once' \subseteq ModuleId /\ enabled' \subseteq ModuleId /\ removable' \subseteq ModuleId
    BY DEF ApiTypeOK, ModuleExec
<1>3. users' \in Nat /\ opened' \in BOOLEAN
    BY <1>1 DEF ApiTypeOK, ModuleExec
<1>4. QED
    BY <1>2, <1>3

\* Every variable stays in its type.
LEMMA TypeStep == ApiTypeOK /\ CallInv /\ [ApiNext]_apiVars => ApiTypeOK'
<1> SUFFICES ASSUME ApiTypeOK, CallInv, [ApiNext]_apiVars PROVE ApiTypeOK'
    OBVIOUS
<1> USE DEF ApiTypeOK, modules, camera, loop, detached, ids, calls, Advance, EndCall,
            Caller, DirectOps, WorkerOps, CallerPC, MainPC, Frame,
            Acquire, Forget
<1>1. CASE Main
    <2>1. CASE MainCheck BY <2>1 DEF MainCheck
    <2>2. CASE MainLook BY <2>2 DEF MainLook
    <2>3. CASE MainFrame BY <2>3 DEF MainFrame
    <2>4. CASE MainExec
        <3>1. PICK i \in pass : MainExec!2!(i)
            BY <2>4 DEF MainExec
        <3>2. /\ once' \subseteq ModuleId /\ enabled' \subseteq ModuleId
              /\ removable' \subseteq ModuleId
              /\ users' \in Nat /\ opened' \in BOOLEAN
            BY <3>1, ExecType
        <3>3. frame' \in Frame
            BY <3>1
        <3>4. QED
            BY <2>4, <3>1, <3>2, <3>3 DEF MainExec
    <2>5. CASE MainPassEnd BY <2>5 DEF MainPassEnd
    <2>6. CASE MainSweep BY <2>6 DEF MainSweep
    <2>7. CASE MainHang BY <2>7 DEF MainHang
    <2>q. QED
        BY <1>1, <2>1, <2>2, <2>3, <2>4, <2>5, <2>6, <2>7 DEF Main
<1>2. ASSUME NEW i \in ModuleId, Insert(i) \/ Enable(i) \/ Destroy(i)
      PROVE  ApiTypeOK'
    <2>1. CASE Insert(i) BY <2>1 DEF Insert
    <2>2. CASE Enable(i) BY <2>2 DEF Enable
    <2>3. CASE Destroy(i)
        <3>1. users' \in Nat /\ opened' \in BOOLEAN
            BY <2>3, ReleaseType DEF Destroy, Disable, Release
        <3>2. QED
            BY <2>3, <3>1 DEF Destroy, Disable
    <2>q. QED
        BY <1>2, <2>1, <2>2, <2>3
<1>3. CASE ClientStep
    <2>1. CASE StartCheck
        <3>1. Cardinality(enabled \cap loaded) \in Nat
            BY IdFinite, FS_Subset, FS_CardinalityType
        <3>2. QED
            BY <2>1, <3>1 DEF StartCheck
    <2>2. CASE StartAcquire
        <3>1. CASE Acquire(num["client"]) /\ Advance("client", "spawn")
            BY <2>2, <3>1 DEF StartAcquire
        <3>2. CASE Advance("client", "hung") /\ UNCHANGED camera
            BY <2>2, <3>2 DEF StartAcquire
        <3>3. QED
            BY <2>2, <3>1, <3>2 DEF StartAcquire
    <2>3. CASE StartSpawn BY <2>3 DEF StartSpawn
    <2>4. CASE StopSignal BY <2>4 DEF StopSignal
    <2>5. CASE StopJoin BY <2>5 DEF StopJoin
    <2>6. CASE StopRelease
        <3>1. users' \in Nat /\ opened' \in BOOLEAN
            BY <2>6 DEF StopRelease
        <3>2. /\ callPc' \in [Caller -> CallerPC]
              /\ callOp' \in [Caller -> DirectOps \cup WorkerOps]
              /\ num' \in [Caller -> Nat]
            BY <2>6 DEF StopRelease
        <3>3. QED
            BY <2>6, <3>1, <3>2 DEF StopRelease
    <2>7. CASE SizeCheck BY <2>7 DEF SizeCheck
    <2>8. CASE LoadFail
        BY <2>8, MaxPublicAssumption, MaxInternalAssumption
        DEF LoadFail, NewId, CallInv, PublicId, InternalId
    <2>9. CASE LoadBegin
        BY <2>9, MaxPublicAssumption, MaxInternalAssumption
        DEF LoadBegin, NewId, CallInv, PublicId, InternalId, ModuleId
    <2>10. CASE LoadEnd
        BY <2>10 DEF LoadEnd, CallInv
    <2>11. CASE LoadHang BY <2>11, MaxPublicAssumption, MaxInternalAssumption
        DEF LoadHang, NewId, CallInv, PublicId, InternalId
    <2>q. QED
        BY <1>3, <2>1, <2>2, <2>3, <2>4, <2>5, <2>6, <2>7, <2>8, <2>9, <2>10,
           <2>11 DEF ClientStep
<1>4. ASSUME NEW i \in PublicId,
             \/ ModuleStop(i) \/ ModuleStart(i) \/ ModuleDestroy(i)
             \/ ModuleRunNow(i) \/ ModuleRunNowNewFrame(i)
             \/ WorkerHang(i)
      PROVE  ApiTypeOK'
    <2>1. CASE ModuleStop(i)
        <3>1. users' \in Nat /\ opened' \in BOOLEAN
            BY <2>1, ReleaseType DEF ModuleStop, Disable, Release
        <3>2. QED
            BY <2>1, <3>1 DEF ModuleStop, Runs, Disable, ModuleId
    <2>2. CASE ModuleStart(i)
        <3>1. users' \in Nat
            BY <2>2 DEF ModuleStart
        <3>2. opened' \in BOOLEAN
            BY <2>2 DEF ModuleStart
        <3>3. QED
            BY <2>2, <3>1, <3>2 DEF ModuleStart, Runs, ModuleId
    <2>3. CASE ModuleDestroy(i)
        <3>1. users' \in Nat /\ opened' \in BOOLEAN
            BY <2>3, ReleaseType DEF ModuleDestroy, Disable, Release
        <3>2. QED
            BY <2>3, <3>1 DEF ModuleDestroy, Runs, Disable, ModuleId
    <2>4. CASE ModuleRunNow(i)
        <3>1. /\ once' \subseteq ModuleId /\ enabled' \subseteq ModuleId
              /\ removable' \subseteq ModuleId
              /\ users' \in Nat /\ opened' \in BOOLEAN
            BY <2>4, ExecType DEF ModuleRunNow, TagOnce, ModuleId
        <3>2. QED
            BY <2>4, <3>1 DEF ModuleRunNow, Runs
    <2>5. CASE ModuleRunNowNewFrame(i)
        <3>1. /\ once' \subseteq ModuleId /\ enabled' \subseteq ModuleId
              /\ removable' \subseteq ModuleId
              /\ users' \in Nat /\ opened' \in BOOLEAN
            BY <2>5, ExecType DEF ModuleRunNowNewFrame, TagOnce, ModuleId
        <3>2. frame' \in Frame
            BY <2>5 DEF ModuleRunNowNewFrame
        <3>3. QED
            BY <2>5, <3>1, <3>2 DEF ModuleRunNowNewFrame, Runs
    <2>6. CASE WorkerHang(i)
        BY <2>6 DEF WorkerHang, TagOnce, ModuleId
    <2>q. QED
        BY <1>4, <2>1, <2>2, <2>3, <2>4, <2>5, <2>6
<1>5. ASSUME NEW c \in Caller, RemoveAllModules(c)
      PROVE  ApiTypeOK'
    <2>1. CASE RemovePause(c) BY <2>1 DEF RemovePause
    <2>2. CASE RemoveDisable(c)
        <3>1. users' \in Nat /\ opened' \in BOOLEAN
            BY <2>2, ReleaseType DEF RemoveDisable, Disable, Release
        <3>2. QED
            BY <2>2, <3>1 DEF RemoveDisable, Disable
    <2>3. CASE RemoveResume(c) BY <2>3 DEF RemoveResume
    <2>4. CASE RemoveClear(c) BY <2>4 DEF RemoveClear
    <2>q. QED
        BY <1>5, <2>1, <2>2, <2>3, <2>4 DEF RemoveAllModules
<1>6. CASE Miss BY <1>6 DEF Miss
<1>7. ASSUME NEW o \in DirectOps, ClientCall(o)
      PROVE  ApiTypeOK'
    BY <1>7 DEF ClientCall, FirstPC
<1>8. ASSUME NEW o \in WorkerOps, NEW i \in 0..MaxPublic, WorkerCall(o, i)
      PROVE  ApiTypeOK'
    BY <1>8 DEF WorkerCall
<1>9. CASE UNCHANGED apiVars
    BY <1>9 DEF apiVars
<1>10. QED
    BY <1>1, <1>2, <1>3, <1>4, <1>5, <1>6, <1>7, <1>8, <1>9
    DEF ApiNext, Detached, Worker, Search

-----------------------------------------------------------------------------
(* The other parts of the invariant *)

\* Where a call of the client begins.
LEMMA FirstPCCases ==
    ASSUME NEW o \in DirectOps
    PROVE  /\ FirstPC(o) \in {"start", "stop", "size", "load"}
           /\ FirstPC(o) = "load" <=> o \in {"module_load", "start_idle"}
BY DEF DirectOps, FirstPC

\* A caller keeps what it has established.
LEMMA CallStep == ApiTypeOK /\ CallInv /\ [ApiNext]_apiVars => CallInv'
<1> SUFFICES ASSUME ApiTypeOK, CallInv, [ApiNext]_apiVars PROVE CallInv'
    OBVIOUS
<1> USE
DEF ApiTypeOK, CallInv, Caller, CallerPC, modules, camera, loop, detached, ids, calls,
   Advance, EndCall
<1>1. CASE Main
    <2>1. CASE MainCheck BY <2>1 DEF MainCheck
    <2>2. CASE MainLook BY <2>2 DEF MainLook
    <2>3. CASE MainFrame BY <2>3 DEF MainFrame
    <2>4. CASE MainExec BY <2>4 DEF MainExec
    <2>5. CASE MainPassEnd BY <2>5 DEF MainPassEnd
    <2>6. CASE MainSweep BY <2>6 DEF MainSweep
    <2>7. CASE MainHang BY <2>7 DEF MainHang
    <2>q. QED
        BY <1>1, <2>1, <2>2, <2>3, <2>4, <2>5, <2>6, <2>7 DEF Main
<1>2. ASSUME NEW i \in ModuleId, Insert(i) \/ Enable(i) \/ Destroy(i)
      PROVE  CallInv'
    <2>1. CASE Insert(i) BY <2>1 DEF Insert
    <2>2. CASE Enable(i) BY <2>2 DEF Enable
    <2>3. CASE Destroy(i) BY <2>3 DEF Destroy
    <2>q. QED
        BY <1>2, <2>1, <2>2, <2>3
<1>3. CASE ClientStep
    <2>1. CASE StartCheck BY <2>1 DEF StartCheck
    <2>2. CASE StartAcquire BY <2>2 DEF StartAcquire
    <2>3. CASE StartSpawn BY <2>3 DEF StartSpawn
    <2>4. CASE StopSignal BY <2>4 DEF StopSignal
    <2>5. CASE StopJoin BY <2>5 DEF StopJoin
    <2>6. CASE StopRelease BY <2>6 DEF StopRelease
    <2>7. CASE SizeCheck BY <2>7 DEF SizeCheck
    <2>8. CASE LoadFail BY <2>8 DEF LoadFail, NewId
    <2>9. CASE LoadBegin BY <2>9 DEF LoadBegin, NewId
    <2>10. CASE LoadEnd BY <2>10 DEF LoadEnd
    <2>11. CASE LoadHang BY <2>11 DEF LoadHang, NewId
    <2>q. QED
        BY <1>3, <2>1, <2>2, <2>3, <2>4, <2>5, <2>6, <2>7, <2>8, <2>9, <2>10,
           <2>11 DEF ClientStep
<1>4. ASSUME NEW i \in PublicId,
             \/ ModuleStop(i) \/ ModuleStart(i) \/ ModuleDestroy(i)
             \/ ModuleRunNow(i) \/ ModuleRunNowNewFrame(i)
             \/ WorkerHang(i)
      PROVE  CallInv'
    <2>1. CASE ModuleStop(i) BY <2>1 DEF ModuleStop, Runs
    <2>2. CASE ModuleStart(i) BY <2>2 DEF ModuleStart, Runs
    <2>3. CASE ModuleDestroy(i) BY <2>3 DEF ModuleDestroy, Runs
    <2>4. CASE ModuleRunNow(i) BY <2>4 DEF ModuleRunNow, Runs
    <2>5. CASE ModuleRunNowNewFrame(i) BY <2>5 DEF ModuleRunNowNewFrame, Runs
    <2>6. CASE WorkerHang(i)
        BY <2>6 DEF WorkerHang
    <2>q. QED
        BY <1>4, <2>1, <2>2, <2>3, <2>4, <2>5, <2>6
<1>5. ASSUME NEW c \in Caller, RemoveAllModules(c)
      PROVE  CallInv'
    <2>1. CASE RemovePause(c) BY <2>1 DEF RemovePause
    <2>2. CASE RemoveDisable(c) BY <2>2 DEF RemoveDisable
    <2>3. CASE RemoveResume(c) BY <2>3 DEF RemoveResume
    <2>4. CASE RemoveClear(c) BY <2>4 DEF RemoveClear
    <2>q. QED
        BY <1>5, <2>1, <2>2, <2>3, <2>4 DEF RemoveAllModules
<1>6. CASE Miss BY <1>6 DEF Miss
<1>7. ASSUME NEW o \in DirectOps, ClientCall(o)
      PROVE  CallInv'
    <2>1. callPc' = [callPc EXCEPT !["client"] = FirstPC(o)]
        BY <1>7 DEF ClientCall
    <2>2. QED
        BY <1>7, <2>1, FirstPCCases DEF ClientCall
<1>8. ASSUME NEW o \in WorkerOps, NEW i \in 0..MaxPublic, WorkerCall(o, i)
      PROVE  CallInv'
    BY <1>8 DEF WorkerCall
<1>9. CASE UNCHANGED apiVars
    BY <1>9 DEF apiVars
<1>10. QED
    BY <1>1, <1>2, <1>3, <1>4, <1>5, <1>6, <1>7, <1>8, <1>9
    DEF ApiNext, Detached, Worker, Search

\* The loop that runs is the joinable one.
LEMMA OneLoopStep == ApiTypeOK /\ OneLoop /\ [ApiNext]_apiVars => OneLoop'
<1> SUFFICES ASSUME ApiTypeOK, OneLoop, [ApiNext]_apiVars PROVE OneLoop'
    OBVIOUS
<1> USE
DEF ApiTypeOK, OneLoop, Caller, CallerPC, modules, camera, loop, detached, ids, calls,
   Advance, EndCall
<1>1. CASE Main
    <2>1. CASE MainCheck BY <2>1 DEF MainCheck
    <2>2. CASE MainLook BY <2>2 DEF MainLook
    <2>3. CASE MainFrame BY <2>3 DEF MainFrame
    <2>4. CASE MainExec BY <2>4 DEF MainExec
    <2>5. CASE MainPassEnd BY <2>5 DEF MainPassEnd
    <2>6. CASE MainSweep BY <2>6 DEF MainSweep
    <2>7. CASE MainHang BY <2>7 DEF MainHang
    <2>q. QED
        BY <1>1, <2>1, <2>2, <2>3, <2>4, <2>5, <2>6, <2>7 DEF Main
<1>2. ASSUME NEW i \in ModuleId, Insert(i) \/ Enable(i) \/ Destroy(i)
      PROVE  OneLoop'
    <2>1. CASE Insert(i) BY <2>1 DEF Insert
    <2>2. CASE Enable(i) BY <2>2 DEF Enable
    <2>3. CASE Destroy(i) BY <2>3 DEF Destroy
    <2>q. QED
        BY <1>2, <2>1, <2>2, <2>3
<1>3. CASE ClientStep
    <2>1. CASE StartCheck BY <2>1 DEF StartCheck
    <2>2. CASE StartAcquire BY <2>2 DEF StartAcquire
    <2>3. CASE StartSpawn BY <2>3 DEF StartSpawn
    <2>4. CASE StopSignal BY <2>4 DEF StopSignal
    <2>5. CASE StopJoin BY <2>5 DEF StopJoin
    <2>6. CASE StopRelease BY <2>6 DEF StopRelease
    <2>7. CASE SizeCheck BY <2>7 DEF SizeCheck
    <2>8. CASE LoadFail BY <2>8 DEF LoadFail
    <2>9. CASE LoadBegin BY <2>9 DEF LoadBegin
    <2>10. CASE LoadEnd BY <2>10 DEF LoadEnd
    <2>11. CASE LoadHang BY <2>11 DEF LoadHang
    <2>q. QED
        BY <1>3, <2>1, <2>2, <2>3, <2>4, <2>5, <2>6, <2>7, <2>8, <2>9, <2>10,
           <2>11 DEF ClientStep
<1>4. ASSUME NEW i \in PublicId,
             \/ ModuleStop(i) \/ ModuleStart(i) \/ ModuleDestroy(i)
             \/ ModuleRunNow(i) \/ ModuleRunNowNewFrame(i)
             \/ WorkerHang(i)
      PROVE  OneLoop'
    <2>1. CASE ModuleStop(i) BY <2>1 DEF ModuleStop, Runs
    <2>2. CASE ModuleStart(i) BY <2>2 DEF ModuleStart, Runs
    <2>3. CASE ModuleDestroy(i) BY <2>3 DEF ModuleDestroy, Runs
    <2>4. CASE ModuleRunNow(i) BY <2>4 DEF ModuleRunNow, Runs
    <2>5. CASE ModuleRunNowNewFrame(i) BY <2>5 DEF ModuleRunNowNewFrame, Runs
    <2>6. CASE WorkerHang(i)
        BY <2>6 DEF WorkerHang
    <2>q. QED
        BY <1>4, <2>1, <2>2, <2>3, <2>4, <2>5, <2>6
<1>5. ASSUME NEW c \in Caller, RemoveAllModules(c)
      PROVE  OneLoop'
    <2>1. CASE RemovePause(c) BY <2>1 DEF RemovePause
    <2>2. CASE RemoveDisable(c) BY <2>2 DEF RemoveDisable
    <2>3. CASE RemoveResume(c) BY <2>3 DEF RemoveResume
    <2>4. CASE RemoveClear(c) BY <2>4 DEF RemoveClear
    <2>q. QED
        BY <1>5, <2>1, <2>2, <2>3, <2>4 DEF RemoveAllModules
<1>6. CASE Miss BY <1>6 DEF Miss
<1>7. ASSUME NEW o \in DirectOps, ClientCall(o)
      PROVE  OneLoop'
    <2>1. callPc' = [callPc EXCEPT !["client"] = FirstPC(o)]
        BY <1>7 DEF ClientCall
    <2>2. QED
        BY <1>7, <2>1, FirstPCCases DEF ClientCall
<1>8. ASSUME NEW o \in WorkerOps, NEW i \in 0..MaxPublic, WorkerCall(o, i)
      PROVE  OneLoop'
    BY <1>8 DEF WorkerCall
<1>9. CASE UNCHANGED apiVars
    BY <1>9 DEF apiVars
<1>10. QED
    BY <1>1, <1>2, <1>3, <1>4, <1>5, <1>6, <1>7, <1>8, <1>9
    DEF ApiNext, Detached, Worker, Search

\* Passes visit loaded modules.
LEMMA PassStep ==
    ApiTypeOK /\ CallInv /\ OneLoop /\ PassInv /\ [ApiNext]_apiVars => PassInv'
<1> SUFFICES ASSUME ApiTypeOK, CallInv, OneLoop, PassInv, [ApiNext]_apiVars PROVE
            PassInv'
    OBVIOUS
<1> USE
DEF ApiTypeOK, PassInv, PassesOnLoaded, Caller, CallerPC, modules, camera, loop,
   detached, ids, calls, Advance, EndCall, Forget
<1>1. CASE Main
    <2>1. CASE MainCheck BY <2>1 DEF MainCheck
    <2>2. CASE MainLook BY <2>2 DEF MainLook
    <2>3. CASE MainFrame BY <2>3 DEF MainFrame
    <2>4. CASE MainExec BY <2>4 DEF MainExec
    <2>5. CASE MainPassEnd BY <2>5 DEF MainPassEnd
    <2>6. CASE MainSweep BY <2>6 DEF MainSweep
    <2>7. CASE MainHang BY <2>7 DEF MainHang
    <2>q. QED
        BY <1>1, <2>1, <2>2, <2>3, <2>4, <2>5, <2>6, <2>7 DEF Main
<1>2. ASSUME NEW i \in ModuleId, Insert(i) \/ Enable(i) \/ Destroy(i)
      PROVE  PassInv'
    <2>1. CASE Insert(i) BY <2>1 DEF Insert
    <2>2. CASE Enable(i) BY <2>2 DEF Enable
    <2>3. CASE Destroy(i) BY <2>3 DEF Destroy
    <2>q. QED
        BY <1>2, <2>1, <2>2, <2>3
<1>3. CASE ClientStep
    <2>1. CASE StartCheck BY <2>1 DEF StartCheck
    <2>2. CASE StartAcquire BY <2>2 DEF StartAcquire
    <2>3. CASE StartSpawn BY <2>3 DEF StartSpawn, OneLoop
    <2>4. CASE StopSignal BY <2>4 DEF StopSignal
    <2>5. CASE StopJoin BY <2>5 DEF StopJoin
    <2>6. CASE StopRelease BY <2>6 DEF StopRelease
    <2>7. CASE SizeCheck BY <2>7 DEF SizeCheck
    <2>8. CASE LoadFail BY <2>8 DEF LoadFail
    <2>9. CASE LoadBegin BY <2>9 DEF LoadBegin
    <2>10. CASE LoadEnd BY <2>10 DEF LoadEnd
    <2>11. CASE LoadHang BY <2>11 DEF LoadHang
    <2>q. QED
        BY <1>3, <2>1, <2>2, <2>3, <2>4, <2>5, <2>6, <2>7, <2>8, <2>9, <2>10,
           <2>11 DEF ClientStep
<1>4. ASSUME NEW i \in PublicId,
             \/ ModuleStop(i) \/ ModuleStart(i) \/ ModuleDestroy(i)
             \/ ModuleRunNow(i) \/ ModuleRunNowNewFrame(i)
             \/ WorkerHang(i)
      PROVE  PassInv'
    <2>1. CASE ModuleStop(i) BY <2>1 DEF ModuleStop, Runs
    <2>2. CASE ModuleStart(i) BY <2>2 DEF ModuleStart, Runs
    <2>3. CASE ModuleDestroy(i) BY <2>3 DEF ModuleDestroy, Runs
    <2>4. CASE ModuleRunNow(i) BY <2>4 DEF ModuleRunNow, Runs
    <2>5. CASE ModuleRunNowNewFrame(i) BY <2>5 DEF ModuleRunNowNewFrame, Runs
    <2>6. CASE WorkerHang(i)
        BY <2>6 DEF WorkerHang
    <2>q. QED
        BY <1>4, <2>1, <2>2, <2>3, <2>4, <2>5, <2>6
<1>5. ASSUME NEW c \in Caller, RemoveAllModules(c)
      PROVE  PassInv'
    <2>1. CASE RemovePause(c) BY <2>1 DEF RemovePause
    <2>2. CASE RemoveDisable(c) BY <2>2 DEF RemoveDisable
    <2>3. CASE RemoveResume(c) BY <2>3 DEF RemoveResume
    <2>4. CASE RemoveClear(c)
        <3>1. \A d \in Caller \ {c} : callPc[d] # "disable"
            BY <2>4 DEF RemoveClear, CallInv
        <3>2. pass' = {} /\ \A d \in Caller : todo'[d] = {}
            BY <2>4, <3>1 DEF RemoveClear
        <3>3. QED
            BY <2>4, <3>2 DEF RemoveClear
    <2>q. QED
        BY <1>5, <2>1, <2>2, <2>3, <2>4 DEF RemoveAllModules
<1>6. CASE Miss BY <1>6 DEF Miss
<1>7. ASSUME NEW o \in DirectOps, ClientCall(o)
      PROVE  PassInv'
    BY <1>7 DEF ClientCall, FirstPC
<1>8. ASSUME NEW o \in WorkerOps, NEW i \in 0..MaxPublic, WorkerCall(o, i)
      PROVE  PassInv'
    BY <1>8 DEF WorkerCall
<1>9. CASE UNCHANGED apiVars
    BY <1>9 DEF apiVars
<1>10. QED
    BY <1>1, <1>2, <1>3, <1>4, <1>5, <1>6, <1>7, <1>8, <1>9
    DEF ApiNext, Detached, Worker, Search

\* Ids are given out once.
LEMMA IdStep == ApiTypeOK /\ CallInv /\ PassInv /\ IdInv /\ [ApiNext]_apiVars => IdInv'
<1> SUFFICES ASSUME ApiTypeOK, CallInv, PassInv, IdInv, [ApiNext]_apiVars PROVE IdInv'
    OBVIOUS
<1> USE
DEF ApiTypeOK, IdInv, Used, modules, camera, loop, detached, ids, calls, Advance,
   EndCall, ModuleExec, Forget, Disable
<1>1. CASE Main
    <2>1. CASE MainCheck BY <2>1 DEF MainCheck
    <2>2. CASE MainLook BY <2>2 DEF MainLook
    <2>3. CASE MainFrame BY <2>3 DEF MainFrame
    <2>4. CASE MainExec BY <2>4 DEF MainExec, PassInv, PassesOnLoaded
    <2>5. CASE MainPassEnd BY <2>5 DEF MainPassEnd
    <2>6. CASE MainSweep BY <2>6 DEF MainSweep
    <2>7. CASE MainHang BY <2>7 DEF MainHang
    <2>q. QED
        BY <1>1, <2>1, <2>2, <2>3, <2>4, <2>5, <2>6, <2>7 DEF Main
<1>2. ASSUME NEW i \in ModuleId, Insert(i) \/ Enable(i) \/ Destroy(i)
      PROVE  IdInv'
    <2>1. CASE Insert(i) BY <2>1 DEF Insert
    <2>2. CASE Enable(i) BY <2>2 DEF Enable
    <2>3. CASE Destroy(i) BY <2>3 DEF Destroy
    <2>q. QED
        BY <1>2, <2>1, <2>2, <2>3
<1>3. CASE ClientStep
    <2>1. CASE StartCheck BY <2>1 DEF StartCheck
    <2>2. CASE StartAcquire BY <2>2 DEF StartAcquire
    <2>3. CASE StartSpawn BY <2>3 DEF StartSpawn
    <2>4. CASE StopSignal BY <2>4 DEF StopSignal
    <2>5. CASE StopJoin BY <2>5 DEF StopJoin
    <2>6. CASE StopRelease BY <2>6 DEF StopRelease
    <2>7. CASE SizeCheck BY <2>7 DEF SizeCheck
    <2>8. CASE LoadFail
        BY <2>8, MaxPublicAssumption, MaxInternalAssumption
        DEF LoadFail, NewId, CallInv, PublicId, InternalId, ModuleId
    <2>9. CASE LoadBegin
        BY <2>9, MaxPublicAssumption, MaxInternalAssumption
        DEF LoadBegin, NewId, CallInv, PublicId, InternalId, ModuleId
    <2>10. CASE LoadEnd BY <2>10 DEF LoadEnd
    <2>11. CASE LoadHang BY <2>11, MaxPublicAssumption, MaxInternalAssumption
        DEF LoadHang, NewId, CallInv, PublicId, InternalId, ModuleId
    <2>q. QED
        BY <1>3, <2>1, <2>2, <2>3, <2>4, <2>5, <2>6, <2>7, <2>8, <2>9, <2>10,
           <2>11 DEF ClientStep
<1>4. ASSUME NEW i \in PublicId,
             \/ ModuleStop(i) \/ ModuleStart(i) \/ ModuleDestroy(i)
             \/ ModuleRunNow(i) \/ ModuleRunNowNewFrame(i)
             \/ WorkerHang(i)
      PROVE  IdInv'
    <2>1. CASE ModuleStop(i) BY <2>1 DEF ModuleStop, Runs
    <2>2. CASE ModuleStart(i) BY <2>2 DEF ModuleStart, Runs
    <2>3. CASE ModuleDestroy(i) BY <2>3 DEF ModuleDestroy, Runs
    <2>4. CASE ModuleRunNow(i) BY <2>4 DEF ModuleRunNow, Runs
    <2>5. CASE ModuleRunNowNewFrame(i) BY <2>5 DEF ModuleRunNowNewFrame, Runs
    <2>6. CASE WorkerHang(i)
        BY <2>6 DEF WorkerHang
    <2>q. QED
        BY <1>4, <2>1, <2>2, <2>3, <2>4, <2>5, <2>6
<1>5. ASSUME NEW c \in Caller, RemoveAllModules(c)
      PROVE  IdInv'
    <2>1. CASE RemovePause(c) BY <2>1 DEF RemovePause
    <2>2. CASE RemoveDisable(c) BY <2>2 DEF RemoveDisable
    <2>3. CASE RemoveResume(c) BY <2>3 DEF RemoveResume
    <2>4. CASE RemoveClear(c) BY <2>4 DEF RemoveClear
    <2>q. QED
        BY <1>5, <2>1, <2>2, <2>3, <2>4 DEF RemoveAllModules
<1>6. CASE Miss BY <1>6 DEF Miss
<1>7. ASSUME NEW o \in DirectOps, ClientCall(o)
      PROVE  IdInv'
    BY <1>7 DEF ClientCall, FirstPC
<1>8. ASSUME NEW o \in WorkerOps, NEW i \in 0..MaxPublic, WorkerCall(o, i)
      PROVE  IdInv'
    BY <1>8 DEF WorkerCall
<1>9. CASE UNCHANGED apiVars
    BY <1>9 DEF apiVars
<1>10. QED
    BY <1>1, <1>2, <1>3, <1>4, <1>5, <1>6, <1>7, <1>8, <1>9
    DEF ApiNext, Detached, Worker, Search

\* A module is executed at most once while Removable.
LEMMA LateStep ==
    ApiTypeOK /\ OneLoop /\ PassInv /\ LateInv /\ IdInv /\ [ApiNext]_apiVars => LateInv'
<1> SUFFICES ASSUME ApiTypeOK, OneLoop, PassInv, LateInv, IdInv, [ApiNext]_apiVars
            PROVE LateInv'
    OBVIOUS
<1> USE
DEF ApiTypeOK, OneLoop, PassInv, PassesOnLoaded, LateInv, RemovableRunsOnce,
   IdInv,
            modules, camera, loop, detached, ids, calls, Advance, EndCall,
               ModuleExec, Forget, Disable
<1>1. CASE Main
    <2>1. CASE MainCheck BY <2>1 DEF MainCheck
    <2>2. CASE MainLook BY <2>2 DEF MainLook
    <2>3. CASE MainFrame BY <2>3 DEF MainFrame
    <2>4. CASE MainExec BY <2>4 DEF MainExec
    <2>5. CASE MainPassEnd BY <2>5 DEF MainPassEnd
    <2>6. CASE MainSweep BY <2>6 DEF MainSweep
    <2>7. CASE MainHang BY <2>7 DEF MainHang
    <2>q. QED
        BY <1>1, <2>1, <2>2, <2>3, <2>4, <2>5, <2>6, <2>7 DEF Main
<1>2. ASSUME NEW i \in ModuleId, Insert(i) \/ Enable(i) \/ Destroy(i)
      PROVE  LateInv'
    <2>1. CASE Insert(i) BY <2>1 DEF Insert
    <2>2. CASE Enable(i) BY <2>2 DEF Enable
    <2>3. CASE Destroy(i) BY <2>3 DEF Destroy
    <2>q. QED
        BY <1>2, <2>1, <2>2, <2>3
<1>3. CASE ClientStep
    <2>1. CASE StartCheck BY <2>1 DEF StartCheck
    <2>2. CASE StartAcquire BY <2>2 DEF StartAcquire
    <2>3. CASE StartSpawn BY <2>3 DEF StartSpawn
    <2>4. CASE StopSignal BY <2>4 DEF StopSignal
    <2>5. CASE StopJoin BY <2>5 DEF StopJoin
    <2>6. CASE StopRelease BY <2>6 DEF StopRelease
    <2>7. CASE SizeCheck BY <2>7 DEF SizeCheck
    <2>8. CASE LoadFail BY <2>8 DEF LoadFail
    <2>9. CASE LoadBegin BY <2>9 DEF LoadBegin
    <2>10. CASE LoadEnd BY <2>10 DEF LoadEnd
    <2>11. CASE LoadHang BY <2>11 DEF LoadHang
    <2>q. QED
        BY <1>3, <2>1, <2>2, <2>3, <2>4, <2>5, <2>6, <2>7, <2>8, <2>9, <2>10,
           <2>11 DEF ClientStep
<1>4. ASSUME NEW i \in PublicId,
             \/ ModuleStop(i) \/ ModuleStart(i) \/ ModuleDestroy(i)
             \/ ModuleRunNow(i) \/ ModuleRunNowNewFrame(i)
             \/ WorkerHang(i)
      PROVE  LateInv'
    <2>1. CASE ModuleStop(i) BY <2>1 DEF ModuleStop, Runs
    <2>2. CASE ModuleStart(i) BY <2>2 DEF ModuleStart, Runs
    <2>3. CASE ModuleDestroy(i) BY <2>3 DEF ModuleDestroy, Runs
    <2>4. CASE ModuleRunNow(i) BY <2>4 DEF ModuleRunNow, Runs
    <2>5. CASE ModuleRunNowNewFrame(i) BY <2>5 DEF ModuleRunNowNewFrame, Runs
    <2>6. CASE WorkerHang(i)
        BY <2>6 DEF WorkerHang
    <2>q. QED
        BY <1>4, <2>1, <2>2, <2>3, <2>4, <2>5, <2>6
<1>5. ASSUME NEW c \in Caller, RemoveAllModules(c)
      PROVE  LateInv'
    <2>1. CASE RemovePause(c) BY <2>1 DEF RemovePause
    <2>2. CASE RemoveDisable(c) BY <2>2 DEF RemoveDisable
    <2>3. CASE RemoveResume(c) BY <2>3 DEF RemoveResume
    <2>4. CASE RemoveClear(c) BY <2>4 DEF RemoveClear
    <2>q. QED
        BY <1>5, <2>1, <2>2, <2>3, <2>4 DEF RemoveAllModules
<1>6. CASE Miss BY <1>6 DEF Miss
<1>7. ASSUME NEW o \in DirectOps, ClientCall(o)
      PROVE  LateInv'
    BY <1>7 DEF ClientCall, FirstPC
<1>8. ASSUME NEW o \in WorkerOps, NEW i \in 0..MaxPublic, WorkerCall(o, i)
      PROVE  LateInv'
    BY <1>8 DEF WorkerCall
<1>9. CASE UNCHANGED apiVars
    BY <1>9 DEF apiVars
<1>10. QED
    BY <1>1, <1>2, <1>3, <1>4, <1>5, <1>6, <1>7, <1>8, <1>9
    DEF ApiNext, Detached, Worker, Search

-----------------------------------------------------------------------------
(* Initially *)

LEMMA InitInv == ApiInit => Inv
<1> SUFFICES ASSUME ApiInit PROVE Inv
    OBVIOUS
<1> USE DEF ApiInit, Caller
<1>1. ApiTypeOK
    <2>1. /\ next_public \in 1..MaxPublic + 1
          /\ next_internal \in 128..128 + MaxInternal
        BY MaxPublicAssumption, MaxInternalAssumption
    <2>2. /\ callPc \in [Caller -> CallerPC]
          /\ callOp \in [Caller -> DirectOps \cup WorkerOps]
          /\ num \in [Caller -> Nat]
          /\ todo \in [Caller -> SUBSET ModuleId]
        BY DEF CallerPC, DirectOps
    <2>3. QED
        BY <2>1, <2>2 DEF ApiTypeOK, Frame, MainPC
<1>2. CallInv /\ OneLoop
    BY DEF CallInv, OneLoop
<1>3. PassInv /\ LateInv /\ IdInv
    BY DEF PassInv, PassesOnLoaded, LateInv, RemovableRunsOnce, IdInv
<1>4. QED
    BY <1>1, <1>2, <1>3 DEF Inv

-----------------------------------------------------------------------------
(* Refinement of ModuleLifecycle *)

LifecycleVars == <<loaded, removable, inserting, next_public, next_internal>>

\* One id moves on.
LEMMA MoveStage ==
    ASSUME NEW i \in ModuleId, NEW from, NEW to,
           StageOf(i) = from, StageOf(i)' = to,
           \A j \in ModuleId \ {i} : StageOf(j)' = StageOf(j)
    PROVE  Lifecycle!Move(i, from, to)
BY DEF Lifecycle!Move

\* The ids in the stages of S leave the table.
LEMMA DropStages ==
    ASSUME NEW S,
           \A j \in ModuleId :
              StageOf(j)' = IF StageOf(j) \in S THEN "gone" ELSE StageOf(j)
    PROVE  Lifecycle!Drop(S)
BY DEF Lifecycle!Drop

\* A step that writes none of the variables a stage is read from is a stutter.
LEMMA SameStages ==
    ASSUME UNCHANGED LifecycleVars
    PROVE  UNCHANGED [i \in ModuleId |-> StageOf(i)]
BY DEF LifecycleVars, StageOf

\* An id that was given out is not fresh.
LEMMA UsedNotFresh ==
    ASSUME Inv, NEW i \in inserting \cup loaded
    PROVE  i \notin next_public..MaxPublic
                      \cup next_internal..127 + MaxInternal
BY MaxPublicAssumption, MaxInternalAssumption
DEF Inv, ApiTypeOK, IdInv, Used

\* Tagging a module of the table Removable dooms it, once.
LEMMA DoomStage ==
    ASSUME Inv, NEW i \in ModuleId, i \in loaded,
           removable' = removable \cup {i},
           UNCHANGED <<loaded, inserting, next_public, next_internal>>
    PROVE  [Lifecycle!Next]_([j \in ModuleId |-> StageOf(j)])
<1>1. CASE i \in removable
    <2>1. removable' = removable
        BY <1>1
    <2>2. QED
        BY <2>1, SameStages DEF LifecycleVars
<1>2. CASE i \notin removable
    <2>1. /\ i \in removable' /\ i \in loaded' /\ i \notin inserting
          /\ i \notin next_public..MaxPublic
                     \cup next_internal..127 + MaxInternal
        BY UsedNotFresh DEF Inv, IdInv
    <2>2. StageOf(i) = "listed"
        BY <1>2, <2>1 DEF StageOf
    <2>3. StageOf(i)' = "doomed"
        BY <2>1 DEF StageOf
    <2>4. \A j \in ModuleId \ {i} : StageOf(j)' = StageOf(j)
        BY DEF StageOf
    <2>5. Lifecycle!Doom(i)
        BY <2>2, <2>3, <2>4, MoveStage DEF Lifecycle!Doom
    <2>6. QED
        BY <2>5 DEF Lifecycle!Next
<1>3. QED
    BY <1>1, <1>2

\* The id of a load was not used before.
LEMMA NewIdUnused ==
    ASSUME Inv, NEW i \in ModuleId, callPc["client"] = "load", NewId(i)
    PROVE  i \notin loaded \cup inserting
BY MaxPublicAssumption, MaxInternalAssumption
DEF Inv, ApiTypeOK, CallInv, IdInv, Used, NewId, ModuleId, PublicId, InternalId

\* A new id is the next of its kind, and was never seen.
LEMMA NewIdFresh ==
    ASSUME Inv, NEW i \in ModuleId, callPc["client"] = "load", NewId(i),
           UNCHANGED <<loaded, removable>>,
           inserting' \in {inserting, inserting \cup {i}}
    PROVE  /\ StageOf(i) = "fresh"
           /\ StageOf(i)' = IF i \in inserting' THEN "loading" ELSE "gone"
           /\ \A j \in ModuleId \ {i} : StageOf(j)' = StageOf(j)
<1> USE MaxPublicAssumption, MaxInternalAssumption
    DEF Inv, ApiTypeOK, CallInv, IdInv, Used, NewId, ModuleId, PublicId, InternalId
<1>1. i \notin loaded \cup inserting
    BY NewIdUnused
<1>2. i \in next_public..MaxPublic \cup next_internal..127 + MaxInternal
    OBVIOUS
<1>3. /\ i \notin next_public'..MaxPublic
      /\ i \notin next_internal'..127 + MaxInternal
    OBVIOUS
<1>4. ASSUME NEW j \in ModuleId \ {i}
      PROVE  j \in next_public..MaxPublic \cup next_internal..127 + MaxInternal
             <=> j \in next_public'..MaxPublic
                         \cup next_internal'..127 + MaxInternal
    OBVIOUS
<1>5. StageOf(i) = "fresh"
    BY <1>1, <1>2 DEF StageOf
<1>6. StageOf(i)' = IF i \in inserting' THEN "loading" ELSE "gone"
    BY <1>1, <1>3 DEF StageOf
<1>7. \A j \in ModuleId \ {i} : StageOf(j)' = StageOf(j)
    BY <1>4 DEF StageOf
<1>8. QED
    BY <1>5, <1>6, <1>7

\* Every step of Api moves ids as ModuleLifecycle says.
LEMMA LifecycleStep ==
    Inv /\ [ApiNext]_apiVars => [Lifecycle!Next]_([i \in ModuleId |-> StageOf(i)])
<1> SUFFICES ASSUME Inv, [ApiNext]_apiVars
             PROVE  [Lifecycle!Next]_([i \in ModuleId |-> StageOf(i)])
    OBVIOUS
<1> USE DEF modules, camera, loop, detached, ids, calls, EndCall, ModuleExec
<1>1. CASE Main
    <2>1. CASE MainCheck BY <2>1, SameStages DEF MainCheck, LifecycleVars
    <2>2. CASE MainLook BY <2>2, SameStages DEF MainLook, LifecycleVars
    <2>3. CASE MainFrame BY <2>3, SameStages DEF MainFrame, LifecycleVars
    <2>4. CASE MainExec
        <3>1. PICK i \in pass : ModuleExec(i, enabled, once, opened)
            BY <2>4 DEF MainExec
        <3>2. i \in ModuleId /\ i \in loaded
            BY <3>1 DEF Inv, ApiTypeOK, PassInv, PassesOnLoaded
        <3>3. \/ removable' = removable \cup {i}
              \/ UNCHANGED removable
            BY <3>1
        <3>4. UNCHANGED <<loaded, inserting, next_public, next_internal>>
            BY <2>4 DEF MainExec
        <3>5. QED
            BY <3>2, <3>3, <3>4, DoomStage, SameStages DEF LifecycleVars
    <2>5. CASE MainPassEnd BY <2>5, SameStages DEF MainPassEnd, LifecycleVars
    <2>6. CASE MainSweep
        <3>1. /\ loaded' = loaded \ removable /\ removable' = {}
              /\ UNCHANGED <<inserting, next_public, next_internal>>
            BY <2>6 DEF MainSweep, Forget, Inv, IdInv
        <3>2. \A j \in ModuleId :
                 StageOf(j)' = IF StageOf(j) \in {"doomed"} THEN "gone" ELSE
                    StageOf(j)
            BY <3>1, UsedNotFresh DEF StageOf, Inv, IdInv
        <3>3. Lifecycle!Sweep
            BY <3>2, DropStages DEF Lifecycle!Sweep
        <3>4. QED
            BY <3>3 DEF Lifecycle!Next
    <2>7. CASE MainHang BY <2>7, SameStages DEF MainHang, LifecycleVars
    <2>q. QED
        BY <1>1, <2>1, <2>2, <2>3, <2>4, <2>5, <2>6, <2>7 DEF Main
<1>2. ASSUME NEW i \in ModuleId, Insert(i) \/ Enable(i) \/ Destroy(i)
      PROVE  [Lifecycle!Next]_([j \in ModuleId |-> StageOf(j)])
    <2>1. CASE Insert(i)
        <3>1. /\ i \in inserting /\ i \notin loaded
              /\ i \in loaded' /\ i \notin removable \cup removable'
              /\ i \notin inserting'
              /\ i \notin next_public..MaxPublic
                         \cup next_internal..127 + MaxInternal
              /\ UNCHANGED <<next_public, next_internal>>
            BY <2>1, UsedNotFresh DEF Insert, Inv, IdInv
        <3>2. StageOf(i) = "loading"
            BY <3>1 DEF StageOf
        <3>3. StageOf(i)' = "listed"
            BY <3>1 DEF StageOf
        <3>4. \A j \in ModuleId \ {i} : StageOf(j)' = StageOf(j)
            BY <2>1 DEF Insert, StageOf
        <3>5. Lifecycle!List(i)
            BY <3>2, <3>3, <3>4, MoveStage DEF Lifecycle!List
        <3>6. QED
            BY <3>5 DEF Lifecycle!Next
    <2>2. CASE Enable(i) BY <2>2, SameStages DEF Enable, LifecycleVars
    <2>3. CASE Destroy(i)
        <3>1. i \in loaded \/ UNCHANGED removable
            BY <2>3 DEF Destroy
        <3>2. \/ removable' = removable \cup {i}
              \/ UNCHANGED removable
            BY <2>3 DEF Destroy
        <3>3. UNCHANGED <<loaded, inserting, next_public, next_internal>>
            BY <2>3 DEF Destroy
        <3>4. QED
            BY <3>1, <3>2, <3>3, DoomStage, SameStages DEF LifecycleVars
    <2>q. QED
        BY <1>2, <2>1, <2>2, <2>3
<1>3. CASE ClientStep
    <2>1. CASE StartCheck BY <2>1, SameStages DEF StartCheck, LifecycleVars
    <2>2. CASE StartAcquire BY <2>2, SameStages DEF StartAcquire, LifecycleVars
    <2>3. CASE StartSpawn BY <2>3, SameStages DEF StartSpawn, LifecycleVars
    <2>4. CASE StopSignal BY <2>4, SameStages DEF StopSignal, LifecycleVars
    <2>5. CASE StopJoin BY <2>5, SameStages DEF StopJoin, LifecycleVars
    <2>6. CASE StopRelease BY <2>6, SameStages DEF StopRelease, LifecycleVars
    <2>7. CASE SizeCheck BY <2>7, SameStages DEF SizeCheck, LifecycleVars
    <2>8. CASE LoadFail
        <3>1. PICK i \in ModuleId : NewId(i)
            BY <2>8 DEF LoadFail
        <3>2. /\ callPc["client"] = "load"
              /\ UNCHANGED <<loaded, removable, inserting>>
              /\ i \notin inserting'
            BY <2>8, <3>1, NewIdUnused DEF LoadFail
        <3>3. Lifecycle!Refuse(i)
            BY <3>1, <3>2, NewIdFresh, MoveStage DEF Lifecycle!Refuse
        <3>4. QED
            BY <3>3 DEF Lifecycle!Next
    <2>9. CASE LoadBegin
        <3>1. PICK i \in ModuleId : NewId(i) /\ inserting' = inserting \cup {i}
            BY <2>9 DEF LoadBegin
        <3>2. callPc["client"] = "load" /\ UNCHANGED <<loaded, removable>>
            BY <2>9 DEF LoadBegin
        <3>3. Lifecycle!Load(i)
            BY <3>1, <3>2, NewIdFresh, MoveStage DEF Lifecycle!Load
        <3>4. QED
            BY <3>3 DEF Lifecycle!Next
    <2>10. CASE LoadEnd BY <2>10, SameStages DEF LoadEnd, LifecycleVars
    <2>11. CASE LoadHang
        <3>1. PICK i \in ModuleId : NewId(i)
            BY <2>11 DEF LoadHang
        <3>2. /\ callPc["client"] = "load"
              /\ UNCHANGED <<loaded, removable, inserting>>
              /\ i \notin inserting'
            BY <2>11, <3>1, NewIdUnused DEF LoadHang
        <3>3. Lifecycle!Refuse(i)
            BY <3>1, <3>2, NewIdFresh, MoveStage DEF Lifecycle!Refuse
        <3>4. QED
            BY <3>3 DEF Lifecycle!Next
    <2>q. QED
        BY <1>3, <2>1, <2>2, <2>3, <2>4, <2>5, <2>6, <2>7, <2>8, <2>9, <2>10,
           <2>11 DEF ClientStep
<1>4. ASSUME NEW i \in PublicId,
             \/ ModuleStop(i) \/ ModuleStart(i) \/ ModuleDestroy(i)
             \/ ModuleRunNow(i) \/ ModuleRunNowNewFrame(i)
             \/ WorkerHang(i)
      PROVE  [Lifecycle!Next]_([j \in ModuleId |-> StageOf(j)])
    <2>1. CASE ModuleStop(i)
        BY <2>1, SameStages DEF ModuleStop, Runs, LifecycleVars
    <2>2. CASE ModuleStart(i)
        BY <2>2, SameStages DEF ModuleStart, Runs, LifecycleVars
    <2>3. CASE ModuleDestroy(i)
        <3>1. i \in ModuleId /\ i \in loaded
            BY <2>3 DEF ModuleDestroy, Runs, ModuleId
        <3>2. \/ removable' = removable \cup {i}
              \/ UNCHANGED removable
            BY <2>3 DEF ModuleDestroy
        <3>3. UNCHANGED <<loaded, inserting, next_public, next_internal>>
            BY <2>3 DEF ModuleDestroy, Runs
        <3>4. QED
            BY <3>1, <3>2, <3>3, DoomStage, SameStages DEF LifecycleVars
    <2>4. CASE ModuleRunNow(i)
        <3>1. i \in ModuleId /\ i \in loaded
            BY <2>4 DEF ModuleRunNow, Runs, ModuleId
        <3>2. \/ removable' = removable \cup {i}
              \/ UNCHANGED removable
            BY <2>4 DEF ModuleRunNow
        <3>3. UNCHANGED <<loaded, inserting, next_public, next_internal>>
            BY <2>4 DEF ModuleRunNow, Runs
        <3>4. QED
            BY <3>1, <3>2, <3>3, DoomStage, SameStages DEF LifecycleVars
    <2>5. CASE ModuleRunNowNewFrame(i)
        <3>1. i \in ModuleId /\ i \in loaded
            BY <2>5 DEF ModuleRunNowNewFrame, Runs, ModuleId
        <3>2. \/ removable' = removable \cup {i}
              \/ UNCHANGED removable
            BY <2>5 DEF ModuleRunNowNewFrame
        <3>3. UNCHANGED <<loaded, inserting, next_public, next_internal>>
            BY <2>5 DEF ModuleRunNowNewFrame, Runs
        <3>4. QED
            BY <3>1, <3>2, <3>3, DoomStage, SameStages DEF LifecycleVars
    <2>6. CASE WorkerHang(i)
        BY <2>6, SameStages DEF WorkerHang, LifecycleVars
    <2>q. QED
        BY <1>4, <2>1, <2>2, <2>3, <2>4, <2>5, <2>6
<1>5. ASSUME NEW c \in Caller, RemoveAllModules(c)
      PROVE  [Lifecycle!Next]_([j \in ModuleId |-> StageOf(j)])
    <2>1. CASE RemovePause(c)
        BY <2>1, SameStages DEF RemovePause, LifecycleVars
    <2>2. CASE RemoveDisable(c)
        BY <2>2, SameStages DEF RemoveDisable, LifecycleVars
    <2>3. CASE RemoveResume(c)
        BY <2>3, SameStages DEF RemoveResume, LifecycleVars
    <2>4. CASE RemoveClear(c)
        <3>1. /\ loaded' = {} /\ removable' = {}
              /\ UNCHANGED <<inserting, next_public, next_internal>>
            BY <2>4 DEF RemoveClear, Forget, Inv, IdInv
        <3>2. \A j \in ModuleId :
                 StageOf(j)' = IF StageOf(j) \in {"listed", "doomed"}
                                 THEN "gone" ELSE StageOf(j)
            BY <3>1, UsedNotFresh DEF StageOf, Inv, IdInv
        <3>3. Lifecycle!Clear
            BY <3>2, DropStages DEF Lifecycle!Clear
        <3>4. QED
            BY <3>3 DEF Lifecycle!Next
    <2>q. QED
        BY <1>5, <2>1, <2>2, <2>3, <2>4 DEF RemoveAllModules
<1>6. CASE Miss BY <1>6, SameStages DEF Miss, LifecycleVars
<1>7. ASSUME NEW o \in DirectOps, ClientCall(o)
      PROVE  [Lifecycle!Next]_([j \in ModuleId |-> StageOf(j)])
    BY <1>7, SameStages DEF ClientCall, LifecycleVars
<1>8. ASSUME NEW o \in WorkerOps, NEW i \in 0..MaxPublic, WorkerCall(o, i)
      PROVE  [Lifecycle!Next]_([j \in ModuleId |-> StageOf(j)])
    BY <1>8, SameStages DEF WorkerCall, LifecycleVars
<1>9. CASE UNCHANGED apiVars
    BY <1>9, SameStages DEF apiVars, LifecycleVars
<1>10. QED
    BY <1>1, <1>2, <1>3, <1>4, <1>5, <1>6, <1>7, <1>8, <1>9
    DEF ApiNext, Detached, Worker, Search

\* Before the first load every id is fresh.
LEMMA LifecycleInit == ApiInit => Lifecycle!Init
BY MaxPublicAssumption, MaxInternalAssumption
DEF ApiInit, Lifecycle!Init, StageOf, ModuleId, PublicId, InternalId

-----------------------------------------------------------------------------
(* The theorems *)

\* The invariant holds throughout, however many modules are loaded.
THEOREM Invariance == ApiSpec => []Inv
<1>1. Inv /\ [ApiNext]_apiVars => Inv'
    BY TypeStep, CallStep, OneLoopStep, PassStep, LateStep, IdStep DEF Inv
<1>2. QED
    BY <1>1, InitInv, PTL DEF ApiSpec

\* Every variable has its type.
THEOREM TypeCorrect == ApiSpec => []ApiTypeOK
<1>1. Inv => ApiTypeOK
    BY DEF Inv
<1>2. QED
    BY <1>1, Invariance, PTL

\* start never replaces a loop that was not joined, in any order of start,
\* stop, quit and set_framesize.
THEOREM LoopNeverReplaced == ApiSpec => []OneLoop
<1>1. Inv => OneLoop
    BY DEF Inv
<1>2. QED
    BY <1>1, Invariance, PTL

\* The loop executes a module at most once after it was tagged Removable.
THEOREM RemovableExecutedOnce == ApiSpec => []RemovableRunsOnce
<1>1. Inv => RemovableRunsOnce
    BY DEF Inv, LateInv
<1>2. QED
    BY <1>1, Invariance, PTL

\* The passes of the loop and of remove_all_modules visit modules of the table.
THEOREM PassesVisitLoaded == ApiSpec => []PassesOnLoaded
<1>1. Inv => PassesOnLoaded
    BY DEF Inv, PassInv
<1>2. QED
    BY <1>1, Invariance, PTL

\* An id is given out once and never returns: Api implements ModuleLifecycle.
THEOREM LifecycleRefinement == ApiSpec => ImplementsLifecycle
<1>1. Inv /\ [ApiNext]_apiVars => [Lifecycle!Next]_([i \in ModuleId |-> StageOf(i)])
    BY LifecycleStep
<1>2. QED
    BY <1>1, LifecycleInit, Invariance, PTL
    DEF ApiSpec, ImplementsLifecycle, Lifecycle!Spec

=============================================================================
