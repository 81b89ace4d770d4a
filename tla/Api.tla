-------------------------------- MODULE Api --------------------------------
(***************************************************************************)
(* The interface object of the library, lib/core/api.cc, with the threads  *)
(* that use it: the main loop, the client, the worker that runs the        *)
(* client's low-latency calls behind its back, and the detached threads a  *)
(* load leaves behind.                                                     *)
(*                                                                         *)
(* The table of modules is used through what SharedResource guarantees: an *)
(* executor is one atomic step, a removal waits for the passes over the    *)
(* table.  A pass visits the ids it found when it began, here in any order.*)
(* The camera is a count of users and whether the device is open.  If none *)
(* opens it is searched for without end, by whichever thread needed it and *)
(* with the locks it holds.                                                *)
(***************************************************************************)
EXTENDS Integers, FiniteSets

CONSTANTS
    MaxPublic,   \* bound: modules loaded by name
    MaxInternal  \* bound: dummy modules loaded by start_idle

ASSUME MaxPublicAssumption == MaxPublic \in Nat /\ MaxPublic < 127
ASSUME MaxInternalAssumption == MaxInternal \in Nat

VARIABLES
    loaded,         \* the ids in modules_
    enabled,        \* the modules whose active_ is set
    once,           \* the modules tagged ExecAndDisable
    removable,      \* the modules tagged Removable
    users,          \* usercount_ of the camera
    opened,         \* the camera device is open
    frame,          \* what became of the frame of the current pass
    active,         \* active_
    paused,         \* paused_
    joinable,       \* executor_.joinable()
    main,           \* where the main loop is
    pass,           \* the ids its pass has still to visit
    done,           \* done_, an atomic_flag
    inserting,      \* the ids with a detached thread about to insert them,
    enabling,       \* about to enable them,
    destroying,     \* or about to destroy them
    next_public,    \* the next id of _next_public_id
    next_internal,  \* the next id of _next_internal_id
    idle,           \* idle_process_running_
    callPc,         \* where the client and the worker are
    callOp,         \* the operation each of them runs
    num,            \* its argument, or a number it has read
    todo,           \* the ids its own pass has still to visit
    late            \* history: modules executed by the loop while Removable

modules  == <<loaded, enabled, once, removable>>
camera   == <<users, opened>>
loop     == <<active, paused, joinable>>
detached == <<inserting, enabling, destroying>>
ids      == <<next_public, next_internal, idle>>
calls    == <<callPc, callOp, num, todo>>
apiVars  == <<modules, camera, frame, loop, main, pass, done, detached, ids,
              calls, late>>

PublicId   == 1..MaxPublic
InternalId == 128..127 + MaxInternal
ModuleId   == PublicId \cup InternalId

Caller    == {"client", "worker"}
DirectOps == {"start", "stop", "quit", "set_framesize", "module_load",
              "start_idle"}
WorkerOps == {"module_stop", "module_start", "module_run_now",
              "module_run_now_new_frame", "module_destroy",
              "remove_all_modules"}
CallerPC == {"idle", "start", "acquire", "spawn", "stop", "join", "release",
             "size", "load", "wait", "run", "pause", "disable", "clear", "hung"}
\* The frame a pass began with is untouched, was executed on, was replaced
\* after that, or was replaced and its successor executed on as well.
Frame  == {"new", "used", "replaced", "mixed"}
MainPC == {"check", "look", "frame", "pass", "sweep", "ended", "hung"}

-----------------------------------------------------------------------------
(* Auxiliary operators *)

Advance(c, p) == callPc' = [callPc EXCEPT ![c] = p] /\ UNCHANGED callOp

EndCall(c) ==
    /\ callPc' = [callPc EXCEPT ![c] = "idle"]
    /\ callOp' = [callOp EXCEPT ![c] = "stop"]
    /\ num' = [num EXCEPT ![c] = 0]

\* acquire, preselect_framesize and get_frame lock camera_mutex_, and the
\* first two keep it while they search for a device.  update_frame does not.
CameraLocked ==
    \/ callPc["client"] = "hung"
    \/ callPc["worker"] = "hung" /\ callOp["worker"] = "module_start"

\* _open_device tries the next device "for (; i >= 0; --i)" with an unsigned
\* i: it returns with an open device or not at all.
MayOpen == ~CameraLocked
MayHang == ~opened
Hung == main = "hung" \/ \E c \in Caller : callPc[c] = "hung"

\* CameraControl::acquire, n times.
Acquire(n) == MayOpen /\ users' = users + n /\ opened' = TRUE

\* Mutant of ReleaseFrom: the user count may drop below zero.
ReleaseFromZero(o) ==
    /\ users' = users - 1
    /\ opened' = (o /\ users > 1)

\* CameraControl::release, for a camera whose device is open iff o.
ReleaseFrom(o) ==
    /\ users' = IF users > 0 THEN users - 1 ELSE 0
    /\ opened' = (o /\ users > 1)
Release == ReleaseFrom(opened)

\* The modules in R are out of reach: nothing is known of them any more.
Forget(R) ==
    /\ loaded' = loaded \ R
    /\ enabled' = enabled \ R
    /\ once' = once \ R
    /\ removable' = removable \ R

Disable(i) == enabled' = enabled \ {i} /\ Release

\* module_exec for a module that is in en and has the tag once iff it is in
\* on, while the device is open iff o.  The module may throw.
ModuleExec(i, en, on, o) ==
    /\ once' = on
    /\ \/ /\ i \notin en
          /\ enabled' = en /\ opened' = o
          /\ UNCHANGED <<removable, users>>
       \/ /\ i \in en
          /\ removable' = removable \cup {i}
          /\ enabled' = en /\ opened' = o
          /\ UNCHANGED users
       \/ /\ i \in en \ on
          /\ enabled' = en /\ opened' = o
          /\ UNCHANGED <<removable, users>>
       \/ /\ i \in en \cap on
          /\ enabled' = en \ {i}
          /\ ReleaseFrom(o)
          /\ UNCHANGED removable

-----------------------------------------------------------------------------
(* execute, the main loop *)

MainCheck ==
    /\ main = "check"
    /\ main' = IF active THEN "look" ELSE "ended"
    /\ UNCHANGED <<modules, camera, frame, loop, pass, done, detached, ids,
                   calls, late>>

MainLook ==
    /\ main = "look"
    /\ main' = IF ~paused /\ loaded # {} THEN "frame" ELSE "check"
    /\ UNCHANGED <<modules, camera, frame, loop, pass, done, detached, ids,
                   calls, late>>

\* update_frame, and the start of exec_all when there is a frame.
MainFrame ==
    /\ main = "frame"
    /\ MayOpen /\ opened' = TRUE
    /\ \/ main' = "pass" /\ pass' = loaded
       \/ main' = "sweep" /\ UNCHANGED pass
    /\ UNCHANGED <<modules, users, frame, loop, done, detached, ids, calls, late>>

\* update_frame finds no device.
MainHang ==
    /\ main = "frame" /\ MayHang
    /\ main' = "hung"
    /\ UNCHANGED <<modules, camera, frame, loop, pass, done, detached, ids, calls,
                   late>>

\* An executor holds the interrupt lock: none runs while the worker hangs.
MainExec ==
    /\ main = "pass" /\ callPc["worker"] # "hung"
    /\ \E i \in pass :
          /\ ModuleExec(i, enabled, once, opened)
          /\ pass' = pass \ {i}
          /\ frame' = CASE i \notin enabled    -> frame
                        [] frame = "new"      -> "used"
                        [] frame = "replaced" -> "mixed"
                        [] OTHER              -> frame
          /\ late' = IF i \in enabled \cap removable
                       THEN late \cup {i} ELSE late
    /\ UNCHANGED <<loaded, loop, main, done, detached, ids, calls>>

\* Mutant of MainPassEnd: no remove_if follows the pass.
MainPassEndUnswept ==
    /\ main = "pass" /\ pass = {}
    /\ main' = "check" /\ frame' = "new"
    /\ UNCHANGED <<modules, camera, loop, pass, done, detached, ids,
                   calls, late>>

MainPassEnd ==
    /\ main = "pass" /\ pass = {}
    /\ main' = "sweep" /\ frame' = "new"
    /\ UNCHANGED <<modules, camera, loop, pass, done, detached, ids,
                   calls, late>>

\* remove_if, which waits for the passes and the executors of the callers.
MainSweep ==
    /\ main = "sweep"
    /\ \A c \in Caller : callPc[c] # "disable"
    /\ callPc["worker"] # "hung"
    /\ Forget(loaded \cap removable)
    /\ main' = "check"
    /\ late' = late \cap loaded'
    /\ UNCHANGED <<camera, frame, loop, pass, done, detached, ids, calls>>

Main ==
    \/ MainCheck \/ MainLook \/ MainFrame \/ MainHang
    \/ MainExec \/ MainPassEnd \/ MainSweep

-----------------------------------------------------------------------------
(* The detached threads of _module_load *)

\* The id is fresh, so insert always succeeds.
Insert(i) ==
    /\ i \in inserting
    /\ inserting' = inserting \ {i}
    /\ loaded' = loaded \cup {i}
    /\ done' = TRUE
    /\ UNCHANGED <<enabled, once, removable, camera, frame, loop, main, pass,
                   enabling, destroying, ids, calls, late>>

Enable(i) ==
    /\ i \in enabling
    /\ enabling' = enabling \ {i}
    /\ enabled' = enabled \cup ({i} \cap (inserting \cup loaded))
    /\ UNCHANGED <<loaded, once, removable, camera, frame, loop, main, pass,
                   done, inserting, destroying, ids, calls, late>>

\* module_destroy, whose argument is an int8_t: an internal id is not found.
Destroy(i) ==
    /\ i \in destroying
    /\ i \in loaded \cap PublicId => callPc["worker"] # "hung"
    /\ destroying' = destroying \ {i}
    /\ IF i \in loaded \cap PublicId
         THEN Disable(i) /\ removable' = removable \cup {i}
         ELSE UNCHANGED <<enabled, removable, camera>>
    /\ UNCHANGED <<loaded, once, frame, loop, main, pass, done, inserting,
                   enabling, ids, calls, late>>

Detached == \E i \in ModuleId : Insert(i) \/ Enable(i) \/ Destroy(i)

-----------------------------------------------------------------------------
(* The client's direct calls.  quit first waits for the worker.            *)

FirstPC(o) ==
    CASE o = "start"                          -> "start"
      [] o \in {"stop", "quit"}               -> "stop"
      [] o = "set_framesize"                  -> "size"
      [] o \in {"module_load", "start_idle"}  -> "load"

ClientCall(o) ==
    /\ callPc["client"] = "idle"
    /\ o = "quit" => callPc["worker"] = "idle"
    /\ o = "start_idle" => ~idle /\ next_internal \in InternalId
    /\ o = "module_load" => next_public \in PublicId
    /\ callPc' = [callPc EXCEPT !["client"] = FirstPC(o)]
    /\ callOp' = [callOp EXCEPT !["client"] = o]
    /\ UNCHANGED <<modules, camera, frame, loop, main, pass, done, detached, ids,
                   num, todo, late>>

\* Mutant of StartCheck: a loop that runs does not end the call.
StartCheckUnjoined ==
    /\ callPc["client"] = "start"
    /\ LET n == Cardinality(enabled \cap loaded)
       IN  IF n = 0
             THEN EndCall("client")
             ELSE /\ num' = [num EXCEPT !["client"] = n]
                  /\ Advance("client", "acquire")
    /\ UNCHANGED <<modules, camera, frame, loop, main, pass, done, detached, ids,
                   todo, late>>

\* start: a running loop or no enabled module end it.
StartCheck ==
    /\ callPc["client"] = "start"
    /\ LET n == Cardinality(enabled \cap loaded)
       IN  IF joinable \/ n = 0
             THEN EndCall("client")
             ELSE /\ num' = [num EXCEPT !["client"] = n]
                  /\ Advance("client", "acquire")
    /\ UNCHANGED <<modules, camera, frame, loop, main, pass, done, detached, ids,
                   todo, late>>

StartAcquire ==
    /\ callPc["client"] = "acquire"
    /\ \/ Acquire(num["client"]) /\ Advance("client", "spawn")
       \/ MayHang /\ Advance("client", "hung") /\ UNCHANGED camera
    /\ UNCHANGED <<modules, frame, loop, main, pass, done, detached, ids, num,
                   todo, late>>

StartSpawn ==
    /\ callPc["client"] = "spawn"
    /\ active' = TRUE /\ joinable' = TRUE /\ main' = "check"
    /\ EndCall("client")
    /\ UNCHANGED <<modules, camera, frame, paused, pass, done, detached, ids,
                   todo, late>>

\* Mutant of StopSignal: the loop is joined without being told to end.
StopSignalSilent ==
    /\ callPc["client"] = "stop"
    /\ Advance("client", IF joinable THEN "join" ELSE "release")
    /\ UNCHANGED <<modules, camera, frame, loop, main, pass, done,
                   detached, ids, num, todo, late>>

StopSignal ==
    /\ callPc["client"] = "stop"
    /\ IF joinable
         THEN active' = FALSE /\ Advance("client", "join")
         ELSE UNCHANGED active /\ Advance("client", "release")
    /\ UNCHANGED <<modules, camera, frame, paused, joinable, main, pass, done,
                   detached, ids, num, todo, late>>

StopJoin ==
    /\ callPc["client"] = "join" /\ main = "ended"
    /\ joinable' = FALSE
    /\ Advance("client", "release")
    /\ UNCHANGED <<modules, camera, frame, active, paused, main, pass, done,
                   detached, ids, num, todo, late>>

\* release_all; then stop returns, quit goes on with remove_all_modules and
\* set_framesize with preselect_framesize, which opens the camera to try the
\* settings and closes it, and start.
StopRelease ==
    /\ callPc["client"] = "release"
    /\ users' = 0 /\ opened' = FALSE
    /\ CASE callOp["client"] = "stop" -> EndCall("client")
         [] callOp["client"] = "quit" -> Advance("client", "pause") /\ UNCHANGED num
         [] OTHER ->
              /\ Advance("client", "hung") \/ (MayOpen /\ Advance("client", "start"))
              /\ UNCHANGED num
    /\ UNCHANGED <<modules, frame, loop, main, pass, done, detached, ids, todo,
                   late>>

\* set_framesize: with an enabled module a resolution that differs restarts
\* everything, with none it is only tried, unless the camera is open.
SizeCheck ==
    /\ callPc["client"] = "size"
    /\ IF enabled \cap loaded # {}
         THEN EndCall("client") \/ (Advance("client", "stop") /\ UNCHANGED num)
         ELSE \/ (opened \/ MayOpen) /\ EndCall("client")
              \/ MayHang /\ Advance("client", "hung") /\ UNCHANGED num
    /\ UNCHANGED <<modules, camera, frame, loop, main, pass, done, detached, ids,
                   todo, late>>

\* Mutant of NewId: internal ids are not counted.
NewIdRepeated(i) ==
    /\ UNCHANGED next_internal
    /\ IF callOp["client"] = "module_load"
         THEN i = next_public /\ next_public' = next_public + 1
         ELSE i = next_internal /\ UNCHANGED next_public

\* The id _module_load is called with, which is used up whatever happens.
NewId(i) ==
    IF callOp["client"] = "module_load"
      THEN /\ i = next_public
           /\ next_public' = next_public + 1
           /\ UNCHANGED next_internal
      ELSE /\ i = next_internal
           /\ next_internal' = next_internal + 1
           /\ UNCHANGED next_public

\* The library is not found or does not initialize.
LoadFail ==
    /\ callPc["client"] = "load"
    /\ \E i \in ModuleId : NewId(i)
    /\ EndCall("client")
    /\ UNCHANGED <<modules, camera, frame, loop, main, pass, done, detached, idle,
                   todo, late>>

LoadBegin ==
    /\ callPc["client"] = "load"
    /\ \E i \in ModuleId :
          /\ NewId(i)
          /\ inserting' = inserting \cup {i}
          /\ num' = [num EXCEPT !["client"] = i]
    /\ Acquire(1)
    /\ Advance("client", "wait")
    /\ UNCHANGED <<modules, frame, loop, main, pass, done, enabling, destroying,
                   idle, todo, late>>

\* acquire finds no device: the module is initialized but never inserted.
LoadHang ==
    /\ callPc["client"] = "load" /\ MayHang
    /\ \E i \in ModuleId : NewId(i)
    /\ Advance("client", "hung")
    /\ UNCHANGED <<modules, camera, frame, loop, main, pass, done, detached, idle,
                   num, todo, late>>

\* After the delay done_ is tested and set: TV_OK, or TV_BUSY.
LoadEnd ==
    /\ callPc["client"] = "wait"
    /\ IF done
         THEN /\ enabling' = enabling \cup {num["client"]}
              /\ UNCHANGED destroying
         ELSE /\ destroying' = destroying \cup {num["client"]}
              /\ UNCHANGED enabling
    /\ done' = TRUE
    /\ idle' = IF callOp["client"] = "start_idle" THEN done ELSE idle
    /\ EndCall("client")
    /\ UNCHANGED <<modules, camera, frame, loop, main, pass, inserting,
                   next_public, next_internal, todo, late>>

ClientStep ==
    \/ StartCheck \/ StartAcquire \/ StartSpawn
    \/ StopSignal \/ StopJoin \/ StopRelease
    \/ SizeCheck \/ LoadFail \/ LoadBegin \/ LoadHang \/ LoadEnd

-----------------------------------------------------------------------------
(* remove_all_modules, by the worker or at the end of the client's quit    *)

RemovePause(c) ==
    /\ callPc[c] = "pause"
    /\ paused' = TRUE
    /\ todo' = [todo EXCEPT ![c] = loaded]
    /\ Advance(c, "disable")
    /\ UNCHANGED <<modules, camera, frame, active, joinable, main, pass, done,
                   detached, ids, num, late>>

RemoveDisable(c) ==
    /\ callPc[c] = "disable"
    /\ \E i \in todo[c] :
          /\ Disable(i)
          /\ todo' = [todo EXCEPT ![c] = @ \ {i}]
    /\ UNCHANGED <<loaded, once, removable, frame, loop, main, pass, done,
                   detached, ids, callPc, callOp, num, late>>

\* Mutant of RemoveResume: the loop stays paused.
RemoveResumePaused(c) ==
    /\ callPc[c] = "disable" /\ todo[c] = {}
    /\ Advance(c, "clear")
    /\ UNCHANGED <<modules, camera, frame, loop, main, pass, done,
                   detached, ids, num, todo, late>>

RemoveResume(c) ==
    /\ callPc[c] = "disable" /\ todo[c] = {}
    /\ paused' = FALSE
    /\ Advance(c, "clear")
    /\ UNCHANGED <<modules, camera, frame, active, joinable, main, pass, done,
                   detached, ids, num, todo, late>>

\* Mutant of RemoveClear: it does not wait for the pass of the loop.
RemoveClearEarly(c) ==
    /\ callPc[c] = "clear"
    /\ Forget(loaded)
    /\ idle' = FALSE
    /\ EndCall(c)
    /\ late' = {}
    /\ UNCHANGED <<camera, frame, loop, main, pass, done, detached,
                   next_public, next_internal, todo>>

RemoveClear(c) ==
    /\ callPc[c] = "clear" /\ main # "pass"
    /\ Forget(loaded)
    /\ idle' = FALSE
    /\ EndCall(c)
    /\ late' = {}
    /\ UNCHANGED <<camera, frame, loop, main, pass, done, detached,
                   next_public, next_internal, todo>>

RemoveAllModules(c) ==
    RemovePause(c) \/ RemoveDisable(c) \/ RemoveResume(c) \/ RemoveClear(c)

-----------------------------------------------------------------------------
(* The low-latency calls.  The client starts one and may have returned     *)
(* from it before the worker gets to it.                                   *)

WorkerCall(o, i) ==
    /\ callPc["client"] = "idle" /\ callPc["worker"] = "idle"
    /\ i < next_public
    /\ i = 0 <=> o = "remove_all_modules"
    /\ callPc' = [callPc EXCEPT !["worker"] =
                IF o = "remove_all_modules" THEN "pause" ELSE "run"]
    /\ callOp' = [callOp EXCEPT !["worker"] = o]
    /\ num' = [num EXCEPT !["worker"] = i]
    /\ UNCHANGED <<modules, camera, frame, loop, main, pass, done, detached, ids,
                   todo, late>>

\* The worker runs o on module i, which is in the table.
Runs(o, i) ==
    /\ callPc["worker"] = "run" /\ callOp["worker"] = o /\ num["worker"] = i
    /\ i \in loaded
    /\ EndCall("worker")
    /\ UNCHANGED <<loaded, loop, main, pass, done, detached, ids, todo, late>>

ModuleStop(i) ==
    /\ Runs("module_stop", i)
    /\ Disable(i)
    /\ UNCHANGED <<once, removable, frame>>

ModuleStart(i) ==
    /\ Runs("module_start", i)
    /\ IF i \in enabled THEN UNCHANGED camera ELSE Acquire(1)
    /\ enabled' = enabled \cup {i}
    /\ UNCHANGED <<once, removable, frame>>

ModuleDestroy(i) ==
    /\ Runs("module_destroy", i)
    /\ Disable(i)
    /\ removable' = removable \cup {i}
    /\ UNCHANGED <<once, frame>>

\* enable_at_least_once tags a module that was not enabled.
TagOnce(i) == IF i \in enabled THEN once ELSE once \cup {i}

ModuleRunNow(i) ==
    /\ Runs("module_run_now", i)
    /\ ModuleExec(i, enabled \cup {i}, TagOnce(i), opened)
    /\ UNCHANGED frame

ModuleRunNowNewFrame(i) ==
    /\ Runs("module_run_now_new_frame", i)
    /\ MayOpen
    /\ \/ /\ ModuleExec(i, enabled \cup {i}, TagOnce(i), TRUE)
          /\ frame' = IF frame = "used" THEN "replaced" ELSE frame
       \/ /\ enabled' = enabled \cup {i} /\ once' = TagOnce(i)
          /\ opened' = TRUE
          /\ UNCHANGED <<removable, users, frame>>

\* module_start or module_run_now_new_frame needs the camera and finds no
\* device, with the table locked shared and the interrupt lock held.
WorkerHang(i) ==
    /\ callPc["worker"] = "run" /\ num["worker"] = i /\ i \in loaded
    /\ MayHang
    /\ \/ /\ callOp["worker"] = "module_start" /\ i \notin enabled
          /\ UNCHANGED <<enabled, once>>
       \/ /\ callOp["worker"] = "module_run_now_new_frame"
          /\ enabled' = enabled \cup {i} /\ once' = TagOnce(i)
    /\ Advance("worker", "hung")
    /\ UNCHANGED <<loaded, removable, camera, frame, loop, main, pass, done,
                   detached, ids, num, todo, late>>

\* TV_INVALID_ID.
Miss ==
    /\ callPc["worker"] = "run" /\ num["worker"] \notin loaded
    /\ EndCall("worker")
    /\ UNCHANGED <<modules, camera, frame, loop, main, pass, done, detached, ids,
                   todo, late>>

Worker ==
    \/ \E i \in PublicId :
          \/ ModuleStop(i) \/ ModuleStart(i) \/ ModuleDestroy(i)
          \/ ModuleRunNow(i) \/ ModuleRunNowNewFrame(i) \/ WorkerHang(i)
    \/ Miss

\* The search of a thread that hangs goes on.
Search == Hung /\ UNCHANGED apiVars

-----------------------------------------------------------------------------

\* The constructor has started the main loop.
ApiInit ==
    /\ loaded = {} /\ enabled = {} /\ once = {} /\ removable = {}
    /\ users = 0 /\ opened = FALSE /\ frame = "new"
    /\ active = TRUE /\ paused = FALSE /\ joinable = TRUE
    /\ main = "check" /\ pass = {} /\ done = FALSE
    /\ inserting = {} /\ enabling = {} /\ destroying = {}
    /\ next_public = 1 /\ next_internal = 128 /\ idle = FALSE
    /\ callPc = [c \in Caller |-> "idle"] /\ callOp = [c \in Caller |-> "stop"]
    /\ num = [c \in Caller |-> 0] /\ todo = [c \in Caller |-> {}]
    /\ late = {}

ApiNext ==
    \/ Main
    \/ Detached
    \/ ClientStep
    \/ Worker
    \/ Search
    \/ \E c \in Caller : RemoveAllModules(c)
    \/ \E o \in DirectOps : ClientCall(o)
    \/ \E o \in WorkerOps, i \in 0..MaxPublic : WorkerCall(o, i)

ApiSpec == ApiInit /\ [][ApiNext]_apiVars

\* Every thread inside an operation is scheduled; nobody has to call.
ApiFairSpec ==
    /\ ApiSpec
    /\ WF_apiVars(Main) /\ WF_apiVars(Detached)
    /\ WF_apiVars(ClientStep) /\ WF_apiVars(Worker)
    /\ \A c \in Caller : WF_apiVars(RemoveAllModules(c))

-----------------------------------------------------------------------------
(* Properties *)

ApiTypeOK ==
    /\ loaded \subseteq ModuleId /\ enabled \subseteq ModuleId
    /\ once \subseteq ModuleId /\ removable \subseteq ModuleId
    /\ users \in Nat /\ opened \in BOOLEAN /\ frame \in Frame
    /\ active \in BOOLEAN /\ paused \in BOOLEAN /\ joinable \in BOOLEAN
    /\ main \in MainPC /\ pass \subseteq ModuleId /\ done \in BOOLEAN
    /\ inserting \subseteq ModuleId /\ enabling \subseteq ModuleId
    /\ destroying \subseteq ModuleId
    /\ next_public \in 1..MaxPublic + 1
    /\ next_internal \in 128..128 + MaxInternal
    /\ idle \in BOOLEAN
    /\ callPc \in [Caller -> CallerPC]
    /\ callOp \in [Caller -> DirectOps \cup WorkerOps]
    /\ num \in [Caller -> Nat]
    /\ todo \in [Caller -> SUBSET ModuleId]
    /\ late \subseteq ModuleId

\* A std::thread must not be assigned while it is joinable: start never
\* replaces a loop that runs or was not joined, however stop, quit and
\* set_framesize came before it, and a loop that runs can be joined.
OneLoop ==
    /\ callPc["client"] \in {"acquire", "spawn"} => ~joinable
    /\ main # "ended" => joinable

\* A module is executed by the main loop at most once after it was tagged
\* Removable, also when it is restarted, run by hand or enabled late, because
\* every pass is followed by remove_if before the next one begins.
RemovableRunsOnce == late \cap pass = {}

\* The passes over the table visit modules that are in it.
PassesOnLoaded ==
    /\ pass \subseteq loaded
    /\ \A c \in Caller : todo[c] \subseteq loaded

\* The life of an id, in the words of ModuleLifecycle.
StageOf(i) ==
    CASE i \in loaded \ removable    -> "listed"
      [] i \in loaded \cap removable -> "doomed"
      [] i \in inserting             -> "loading"
      [] i \in next_public..MaxPublic \cup next_internal..127 + MaxInternal
                                     -> "fresh"
      [] OTHER                       -> "gone"
Lifecycle == INSTANCE ModuleLifecycle WITH
                Id <- ModuleId, stage <- [i \in ModuleId |-> StageOf(i)]

\* An id is given out once and never returns, whatever the detached threads
\* of its load do after it was destroyed or everything was removed.
ImplementsLifecycle == Lifecycle!Spec

\* stop, quit and set_framesize do not wait for ever for the main loop, unless
\* a thread searches for a camera: see StopCompletes for that case.
StopReturns == callPc["client"] = "join" ~> callPc["client"] # "join" \/ Hung

\* A module tagged Removable leaves the table unless the loop is stopped, or
\* a thread searches for a camera: the loop itself, or a worker that keeps it
\* out of the table.
RemovableLeaves ==
    \A i \in ModuleId :
       i \in loaded \cap removable ~> i \notin loaded \/ ~active \/ Hung

\* "Halts (pauses) execution of the main-loop" (api.hh:74): stop ends, with or
\* without a camera.
StopCompletes == callPc["client"] = "join" ~> callPc["client"] # "join"

\* "all sequenced modules are guaranteed to receive the same frame during one
\* loop": a pass of the main loop executes modules on one frame.
SameFrameInPass == frame # "mixed"

\* "The associated camera will be released if it is not used by other
\* modules": the main loop does not open a camera nobody uses.
UnusedCameraStaysClosed ==
    [][main = "frame" /\ main' # main /\ users = 0 /\ ~opened => ~opened']_apiVars
=============================================================================
