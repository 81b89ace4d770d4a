# Tinkervision: TLA+ specifications

TLA+ models of the vision library under `src/src/lib` and of one of its modules,
`src/src/modules/stream`, checked with TLC and, for the modules that end in `Proofs`, proved
with TLAPS.  Paths below are relative to `src/src/lib/core` unless they start with a
directory.  `PROJECT.json` is the machine-readable side: the runs, the source lines each
definition stands for, mutants, hazards, findings and theorems.

## The system

A process (the `red-brick-apid`) loads the library and calls its C interface.  Threads
that meet in it:

- the **application** thread, and threads that call the interface from callbacks;
- one **worker** thread per low-latency call (`tinkervision.cc:54`), detached;
- the **main loop** (`Api::execute`), which grabs a frame and runs all modules on it;
- **detached loader threads**: one inserts a new module, one enables or destroys it
  (`api.cc:656`, `:672`, `:685`);
- the **directory watcher** (`Dirwatch::monitor`), which changes the list of libraries;
- the **streamer** of the stream module, which runs an event loop of live555.

| component | state it keeps | operations | talks to | correct when |
|---|---|---|---|---|
| C interface, `tinkervision.cc` | `tv_buffered_result`, `tv_buffer_flag` | every `tv_*` function, `LOW_LATENCY_CALL`, `tv_quit` | `Api` | one operation at a time, calls return, the result arrives |
| `Api`, `api.cc` | `active_`, `paused_`, `executor_`, `done_`, `idle_process_running_`, `default_callback_`, id counters | start, stop, quit, load, destroy, run now, remove all, frame size, callbacks, main loop | the table, the camera, the loader, the converters | one loop, removal happens and is final, ids are unique, one frame per pass, callbacks reach all modules |
| `SharedResource`, `shared_resource.hh` | `managed_`, `ids_managed_`, `mutex_`, `interrupt_lock_`, `resume_on_interrupt_` | exec_*, interrupt, insert, remove* | executes callables of `Api` | executors exclude one another and run on live modules; no deadlock |
| `ModuleWrapper` | `active_`, tags, period, callback | enable, disable, execute, tag | the plugin | a tag takes effect once, a period is kept |
| `CameraControl` | `camera_`, `usercount_`, `stopped_`, `image_`, requested size | acquire, release, update_frame, prefer, preselect, is_available | `Camera`, `Image` | the device is open while it has users, the image fits its frames |
| `ModuleLoader` | `availables_`, `handles_` | load, destroy, directory events | `Dirwatch`, dlopen | the list matches the directories and what the client was told |
| `Dirwatch` (`lib/tools`) | watches, inotify handle, thread | watch, unwatch, start, stop, monitor | calls `ModuleLoader` back | every event has a recorded watch (it has not, see the runs) |
| `SceneTrees`, `Node`, `Scene` | trees of module executions | scene_start, add_to_scene, exec_all | unreachable: `Api` returns `TV_NOT_IMPLEMENTED` | scenes share beginnings and stay what they are |
| `FrameConversions`, converters (`lib/imaging`) | converted frames of the current frame | set_frame, get_frame, convert | images | a cached conversion belongs to the current frame; every byte is written once, from the right pixels |
| `V4L2USBCamera` (`lib/imaging`) | mmap buffers | open, retrieve_frame, close | the driver | no buffer is lost |
| `Module`, `Parameter` (`lib/interface`) | parameter values | register, set, get | plugin | values stay in range, the wrapper's parameters stand |
| stream module (`src/modules/stream`) | session, queues of nals, `url` | execute, stop | live555, x264 | stop returns, queues are bounded, order is kept |

`Environment` (but for the prefix of the user's paths), the Python context, file system
helpers, logging and the string table are I/O or tables.  The other example modules compute
on one frame.

Hard behaviours: a hand-made spin lock below a reader/writer lock; an insert that writes
under the shared lock; executors that may run on modules being removed; threads that finish
a load after the client gave up; flags polled without a lock; a call protocol that returns
before its operation is done; a cache keyed by timestamps that are equal; an image that is
now an owner and now an alias; a search for a camera that never ends, with locks held; files
that come and go while they are listed; an event loop within an event loop.  `hazards` in `PROJECT.json` names each at its line, with the property
that covers it or the reason why none does.

## Modules

| module | models | state and actions |
|---|---|---|
| `SharedResource` | the table, one action per stretch of code between two points another thread can observe | `managed`, `ids_managed` are the two containers; `readers`/`writer` the `shared_timed_mutex`; `interrupt_lock` the atomic flag; `pc[t]` is where a thread is. `LoopBegin..LoopEnd` are exec_all/exec_if, `ExecNow*` both run-now calls, `Insert*` the two writes of insert, `ExclusiveLock` and `Remove*` the removals. `Crash` is the undefined behaviour of a lookup in a map that is being written |
| `ModuleTable` | what the table promises, without locks | refined by `SharedResource` |
| `Api` | the interface object with the main loop, client, worker and detached threads | the members of `Api`, the tags and `active_` of the modules, the count of the camera. `Main*` is `execute`, one action per point where it can be interrupted; `Start*`, `Stop*`, `SizeCheck`, `Load*` are the client's direct calls; `Module*` and `Remove*` those the worker runs; `Insert`, `Enable`, `Destroy` the detached threads; `*Hang` a thread that starts to search for a camera and never returns |
| `ModuleLifecycle` | the life of an id: fresh, loading, listed, doomed, gone | refined by `Api` |
| `LowLatencyCall` | the macro and `tv_quit`, one action per atomic operation | `Call`, `Accept`/`Busy`, `Poll`/`Polled`/`TimeOut`, `Clear`, `Return`; `Quit*` is the spin of `tv_quit`; `Store`, `Finish` for the worker, whose operation may never end |
| `ResultCallbacks` | `callback_set`, `callback_default` and the threads of `_module_load` that apply the default | the order of the table, where each enabling thread is, what it has read; the pass of `callback_default` visits one module per action |
| `ModulePass` | a pass: `Api::module_exec`, `ModuleWrapper::execute`, `Module::execute`, the cache of `FrameConversions` | per module period, output image, tag; the frame the conversions are for and their results; `BeginPass`, one action per module and outcome (`Skip`, `PassOnly`, `NotDue`, `Refuse`, `Execute`, `Throw`), `EndPass` |
| `ModuleParameters` | registration and setting of parameters by module and wrapper | a map of names to parameters, the phase of construction |
| `V4L2Camera` | a camera as a value: what opening, a frame and a failure make of it | the buffers at the driver, `buffer_.index`, `running_` |
| `CameraControl` | the owner of the camera and `ImageAllocator` | one action per public method, with every outcome the devices allow |
| `Convert` | all eleven converters, and the modules downscale and grayfilter | a conversion is the set of its stores: offset written, offsets read |
| `Dirwatch`, `ModuleLoader` | the watcher over a changing disk; the list of libraries and open handles | `disk`, queued `events` with the overflow of their queue, `watched` (kernel) and `watches` (table); constructor step by step; the monitor changes the list (`MonitorTakes`) and later calls the client's callback (`MonitorTells`); public methods |
| `SceneTrees` | scenes as chains of shared nodes | nodes with parent, scenes, timestamp; `ExecAll` begins the recursion over the trees, `ExecNode` is one call of `Node::execute`, `calls` those still to come |
| `Stream` | the stream module with its streamer | two queues of nals, where the event loops are, the flags |
| `MC*` | instances for TLC | model values and symmetry; `MCInterface`, `MCProgress` and `MCComponents` are sums, see below |
| `*Proofs` | theorems | see below |

How they compose.  `Api` uses the table through what `ModuleTable` promises, and
`SharedResource` is shown to keep that promise.  So in `Api` an executor is one atomic step
and a removal waits for passes.  The worker of `Api` is the worker of `LowLatencyCall`, which
runs one operation at a time while the client may already have returned; `quit` waits for it.
`Api` has one client: that a second thread calls `start` and `stop` at the same time is
outside it.  `ModulePass` is the inside of the step that `Api` takes for a pass; there the
client acts between two executions, which is what the spin lock of the table leaves.
`CameraControl` extends `V4L2Camera` and `ModuleLoader` extends `Dirwatch`, whose actions
are conjuncts of theirs.

Definitions introduced as *Mutant of* are not part of a specification: each is a plausible
bug, kept to show that a property notices it.

### Abstractions

- `Api!frame` says whether the frame of the running pass was used, replaced, or replaced
  after use; in `ModulePass` an image is known by the grabbed frame it shows, the module that
  made it, its format and timestamp.  Bytes appear in `Convert` only, as offsets.
- A module is its id.  Its `execute` may end or throw; plugin callbacks into the library are
  not modelled.
- The camera in `Api` is a count and an open flag.  What needs a device either has one in
  the end or never returns: `_open_device` counts an unsigned number down to below zero
  (`cameracontrol.cc:329`; `CameraControl` has it as `Hang`).  A thread that hangs keeps its
  locks.  The client, in `acquire` or `preselect_framesize`, keeps `camera_mutex_`; the
  worker keeps the table locked shared and the interrupt lock, and `camera_mutex_` too if it
  was in `acquire`; the main loop keeps none, as `update_frame` takes none.  The search does
  not find a device that is plugged in later: the number in its device's name grows and only
  one digit of it is taken back.
- `RemovePause` sets `paused_` and begins the pass in one step.  What the main loop does in
  between it can do before: nothing it does depends on the new value except not starting a
  pass.
- Real time: a sleep lasts any number of steps, so every delay may race with every answer.
- A module that left the table is forgotten: the memory leaks in the code and nobody
  reads it except the enabling thread, which writes to it without effect.
- A size is one number and a format a name; a file has one of five states, and inotify tells
  of what it would tell (a copied file when it is created, not when it is complete).  Its
  queue has no length in the model: as files of other kinds fill it too, any event may be
  lost and leave IN_Q_OVERFLOW at the end of the queue.
- A text is short or too long for a parameter.
- A component of YV12 is where the converters and the encoder have it: V before U.

## Runs

Passing runs:

| run | instance | shows |
|---|---|---|
| `interface` | a sum: table (3 threads, 2 ids, no insert on a list of 2, symmetry), `Api` (1 named, 1 internal id) | `InterruptExclusion`, `RunsOnLive`, `StableDuringPass`, and that the table implements `ModuleTable`; `OneLoop`, `RemovableRunsOnce`, `PassesOnLoaded`, and that `Api` implements `ModuleLifecycle` |
| `progress` | a sum, fair: calls (2 clients, 3 operations, 2 polls), table (2 threads, 1 id), `Api` (1 named id), stream (limit 2, up to 2 nals, 3 frames) | `OneOperation`, `FlagHasOneOwner`, `CallReturns`, `QuitReturns`; `Progress`; `StopReturns`, `RemovableLeaves`; `QueueIsBounded`, `UrlTells`, `SentInOrder`, `StopEnds` |
| `components` | a sum: camera, converters with two modules, pass, parameters, callbacks, scenes, loader | 15 invariants of these and `FrameReachesAll`, see the modules |

The sums.  The components in `MCComponents` share no variable, nor do the protocols in
`MCProgress` and the two parts of `MCInterface`: each behaviour is one of the part that `part`
names in its initial state, the others keep their initial values.  This is the union of the parts' behaviours, not their
product, so a property of a part holds in the sum exactly when it holds in the part.  The
fairness of the sum is that of each part.

Violated runs, each with the statement of the repository it refutes under `findings`:

1. `shared_race`: `insert` takes `mutex_` shared and writes (`shared_resource.hh:259`, against
   `:519` "multiple reads, one write").
2. `api_same_frame`: `exec_all` ignores `resume_on_interrupt_`; the promise that all modules
   of one loop see one frame (`tinkervision.h:321`) fails after `tv_module_run_now_new_frame`.
3. `api_camera`: a stopped module still makes the main loop call `update_frame`, which reopens
   the released camera (`tinkervision.h:285`, `api.cc:235`).
4. `api_hang`: with no device that opens, the main loop searches in `update_frame` for ever,
   and `stop` waits for it (`cameracontrol.cc:329`, `api.cc:143`, against
   `tinkervision.h:81-89`).
5. `call_result`: a rejected low-latency call overwrites the buffered result before it finds
   out that it may not run (`tinkervision.cc:50`, against `:105`).
6. `camera_fallback`: after one frame that failed `image_` is an alias of the fallback image,
   and the next good frame fails an assertion of `copy_data` (`lib/interface/image.cc:116`).
7. `module_period`: the counter of `ModuleWrapper::execute` is a static variable
   (`module_wrapper.cc:32`), so one module's turn resets the count of all others, against the
   meaning `module_wrapper.hh:83` gives the period.
8. `loader_assertion`: the monitor asserts that it knows the directory of every event
   (`lib/tools/dirwatch.cc:186`).  It does not for an event it reads between
   `inotify_add_watch` and the recording of its descriptor, nor for IN_Q_OVERFLOW.
9. `stream_stop`: the first client is connected in a nested event loop that `stop` does not
   end; `stop` then waits for ever.

Bounds and why they are enough.

- Table: three threads let two readers meet a writer or two inserts meet a pass; two ids let
  a pass be inside one module while the other is inserted, removed or run.  The list may grow
  to two entries before an insert is refused by the model (`MaxListed`); a racing double
  insert can still make it longer.
- `Api`: an id is used once, so one named id covers every order of load, start, stop, destroy
  and remove for a module and one internal id the same for the dummy; two named ids are
  needed for the frame of a pass.  The rest is finite: every stop resets the camera's users.
- Calls: of the library's number of polls what matters is one that finds the flag, one that
  does not, and running out (`Grains`).
- Camera: two devices, one of which gives other sizes than asked; three buffers of the four,
  so that one is in use, one returned and one lost can be told apart; three users.
- Converters: widths and heights 2, 4, 6 and 8: one block of four pixels, and more than one in
  each direction, unequal ones included.  Every resolution of the cameras' table is even.
  Downscale takes every second or fourth pixel (`Factors`): with and without columns that
  remain at the end of a row, and down to an empty image.
- Pass: modules with and without output, wanting different formats; two grabbed frames, so
  that an older one can be met; periods that are 0, small, and lose their eighth bit.
- Loader: the two load paths, a name with a dot and what is left of it, three changes on
  disk (come, go, come back), an overflow at any of them, one handle.  A directory that is in
  no load path would be listed nowhere and tell no event.
- Parameters: names of the module's own, one of the wrapper's and one too long; limits with
  the default below, between and above them; a short text and one that is too long; values
  inside and outside of all limits.
- Scenes: three scenes over two modules on four nodes, two timestamps, one of which a new
  node has.  Callbacks: two modules and two callbacks: set one, replace it, while the other module loads.
- Stream: the limit is reached exactly, passed by one frame with two nals, and met again.

Deadlock is not checked where counters end (disk changes, grabbed frames); `interface` and
`progress` check it, where a thread that cannot go on is the question.  A thread that searches
for a camera is not blocked, it computes: `Search` is its step.

Fairness.  Each module assumes weak fairness of every thread that is inside an operation: the
operating system schedules runnable threads.  No call is ever forced, nobody has to connect
to the stream, and no file has to come.  Three things are not assumed:

- That an operation of a low-latency call ends.  `remove_all` needs the lock exclusively and
  `shared_resource.hh:336` says the mutex is not fair; the search for a camera never ends.
  So `Store` is not fair: `CallReturns` holds of the call whatever its worker does, and
  `QuitReturns` states what `tv_quit`, which spins on the flag without a limit, needs: that
  operations end again and again and that the other clients stop calling.
- That a thread waiting for a lock that is free only now and then gets it: `Progress` asks
  that somebody returns, not everybody.
- That there is a camera.  `StopReturns` and `RemovableLeaves` hold unless some thread hangs
  in the search (`Hung`); what becomes of `stop` then is the finding of `api_hang`.  The sweep
  of a removable module waits for the worker too, so a worker that hangs keeps the loop out.

## Proofs

All for any value of the constants; the assumptions are the named `ASSUME`s of the modules.

- `SharedResourceProofs`: type correctness, `InterruptExclusion`, `RunsOnLive`,
  `StableDuringPass`, and `ImplementsModuleTable`, for any threads and ids.  The inductive
  invariant adds who holds what: the readers are exactly the threads at `SharedPC`, the writer
  excludes them, the flag is set iff one thread is at `HoldsPC`, a list entry is in the map,
  and every thread inside a pass or an executor has an id that is.  `RunsOnLive` alone is not
  inductive because it says nothing of a thread about to start an executor.
- `ApiProofs`: type correctness, `OneLoop`, `RemovableRunsOnce`, `PassesOnLoaded` and
  `ImplementsLifecycle`, for any number of loads up to the 126 the code's assertion allows.
  `RemovableRunsOnce` needs that what ran while Removable is still in the table and Removable
  (`LateInv`), so that the sweep takes it before the next pass; that needs `OneLoop`, since a
  second loop would start a pass with the first one's leftovers.  `PassesOnLoaded` needs that
  the client is in `quit` only while no worker runs (`CallInv`): otherwise one `remove_all`
  could clear the table under the pass of the other.  The refinement needs that an id about to
  be inserted was given out and is not in the table (`IdInv`); public and internal ids stay
  apart because there are fewer than 127 public ones.
- `LowLatencyCallProofs`: type correctness, `OneOperation`, `FlagHasOneOwner`, for any
  clients, operations and number of polls.
- `CameraControlProofs`: the five invariants of `CameraControl` for any devices, sizes,
  buffers and users.  They are inductive together with the types and not alone: a camera with
  a user is open, hence `is_available` and `preselect_framesize` close none that is used;
  `stopped_` is clear while it is open, hence `update_frame` opens none over it and the image
  still fits.  What opening and reading a camera may yield is said in three lemmas.
- `FrameProofs`, what becomes of a frame, two parts.
  *The pass*: `ConversionCurrent` for any modules, formats, converters and periods.
  Timestamps do not tell images apart, so the argument is that whatever replaces the frame
  invalidates all results (`ResultsInv`); that a converter exists needs the formats a frame
  may have in a pass (`FormatInv`).  It is about conversions only: a frame that is itself an
  older module's output is a divergence, see below.
  *The conversions*: `EveryByteOnce` and `RightPixels` for images of any even size and any
  factor of downscale.  A loop's stores are shown to be one for each byte of the result, for
  each byte of each pixel, or for each byte of three planes (`ByteStores`, `PixelStores`,
  `Planar`); one bijection then gives that every byte is written once (`Written`), and a
  comparison of two layouts at one byte that it is computed from the right pixels
  (`ShowsMatches`, `ShowsBlockMatches`).  That two loops over rows and columns meet each place
  once is division with a remainder (`GridFacts`, `BlockIndex`).  The evenness of the sizes is
  needed: without it the chroma planes would not fill what is allocated (`TargetSizes`).
  Right means the layout of YV12 the converters and the encoder agree on, V before U.
- `ModuleProofs`, what happens to the modules of the interface object, three parts.
  *Callbacks*: `DefaultReachesModules` for any modules and callbacks.  The strengthening
  holds during calls too: it exempts modules the pass of `callback_default` has still to
  visit (`Given`), says that what an enabling thread has read is still true unless its module
  is raced (`Reads`), and that nobody touched a module that is not loaded (`Fresh`).
  *Parameters*: `WrapperParametersStand` for any names and limits, together with the fact
  that every value is within its parameter's limits (`ValuesAreValid`): setting a value must
  keep the limits, registering must not touch what is there.
  *Scenes*: `SceneIsPath` and `NodesAreShared` for any scenes, modules and nodes.
  A node comes after its parent, so the recursive `Path` is defined, a new node changes the path of no old one (`PathKept`), and two nodes have one path only if they
  have one parent and one module, which the search among the siblings excludes.
- `StreamProofs`: `QueueIsBounded`, `UrlTells` and `SentInOrder` for any limit and number of
  nals.  The order follows from an invariant over both queues: each is ascending, and what was
  sent, what the source holds and what the encoder holds follow each other.
- `ModuleLoaderProofs`: for any directories, files and changes.
  `NoModuleLost` and `GoneIsUnlisted` speak of a library whose events are handled, whose
  changes all made an event (`unseen` has the others) and that the constructor did not take for
  another (`misread`).  The invariant (`ListInv`) says of any library what its queued events will make of it: they come and go in turns and end
  with what is on the disk (`ByTurns`), an event that removes stands for an entry that is
  there or was queued before it, and a module that is there is listed or has an event that
  lists it, unless it is one of those that are exempt.  `replaced` is for `GoneIsUnlisted`
  only.  The count of entries is the cardinality of a set of positions, so appending and the removal of the
  first match are facts about finite sets.
  `ChangesAreTold`: what the list gained or lost since the callback was set is what the
  callback was told, but for the change about to be told now (`news`) and the one that was
  about to be told then (`early`); it needs that at most one change is untold and that it is
  in the list already.

Induction.  The library's induction theorems take an operator as a parameter, which no
installed prover can instantiate.  Where a proof needs induction over the naturals (the path
of a node, the first position with a property) it takes the least element of a set of
counterexamples instead, from `WFMin` and `NatLessThanWellFounded` (`LeastElement` in
`ModuleLoaderProofs`, `Induction` in `ModuleProofs`).

Model-checked only.  The liveness properties (`Progress`, `StopReturns`, `RemovableLeaves`,
`CallReturns`, `QuitReturns`, `StopEnds`), which need fairness and ENABLED, out of this
prover's reach; and `FrameReachesAll`, which says what a recursion over all trees has done.
Every other invariant and safety action property of the passing runs has a theorem.
No module uses RECURSIVE operators.

## Further divergences

Met while modelling, without a run of their own:

- `lib/interface/image.hh:53-63` documents YV12 as the planes Y, U, V; the converters write
  Y, V, U (`lib/imaging/convert.hh:118`) and the encoder reads them so
  (`src/modules/stream/h264_encoder.cc:98-101`).  `RightPixels` takes the latter.
- A module that skips its turn for its period has its last output, of an older frame, put
  into the running pass (`api.cc:193-196`), so that the modules behind it do not get the frame
  of this loop that `tinkervision.h:323-325` guarantees.
- `remove_if` and `remove_all` never call the deallocator `insert` documents
  (`shared_resource.hh:256`): the libraries of removed modules stay open.
- A library with a dot in its name is lost, or listed for another: its extension is stripped
  once when the directory is read and once more when it is added (`module_loader.cc:51`,
  `:140`).
- A file that comes, goes or is replaced between the listing of its directory and its watch
  makes no event, and the list stays wrong.  So do the events a full queue of inotify loses;
  in a debug build IN_Q_OVERFLOW then aborts the process (run `loader_assertion`).
- The list and the client's callback are used by the monitor and by callers without a lock
  (`module_loader.cc:214-220`, `:344-356`, `:380`).  A client that sets the callback between
  a change of the list and its telling is told a change the list has already.
- With no device that opens `start`, `set_framesize` and `module_load` never return
  (`cameracontrol.cc:329`), nor does the operation of `tv_module_start` or
  `tv_module_run_now_new_frame`, whose call returns; `tv_quit` then waits for it for ever.  The
  run `api_hang` shows it for `stop`.
- `tinkervision.h:467` calls back a module's callback only if there is a result;
  `module_wrapper.cc:41` tests a pointer that is never null.  `callbacks_enabled_` and
  the result's timeout are not used.
- A period of 256 becomes 0, and the module is never executed (`module_wrapper.cc:80`).
- `get_parameter_by_number` means to return the last parameter for a number out of range and
  is one off (`lib/interface/module.cc:160`); errors of a plugin's `init()` are not looked at.
- `set_user_paths_prefix` sets the path before it calls `switch_user_load_path`, which then
  finds nothing to do: list and watch stay those of the old path (`api.cc:533-538`,
  `module_loader.cc:78`).  What would erase old entries (`module_loader.cc:101`) is never
  reached.
- A file that is copied and handled before it is complete is never listed.
- The end of a watcher that never watched joins a thread that does not exist.
- A module that wants a format without a converter from the current one makes
  `FrameConversions` use an uninitialized pointer; the conversion from BGR888 to YUYV is
  computed on planes and allocates the size of YV12; odd sizes lose their last line or
  column; `Convert` keeps an old header if only the byte size is equal.  `RightPixels` leaves
  that conversion out, and no model has a missing converter or an odd size.
- Downscale divides by zero if its factor is set to 0, the minimum and default of its parameter
  (`src/modules/downscale/downscale.cc:36-41`); if columns remain at the end of a row, its rows
  drift, against "skip the next skip-1 rows" (`downscale.cc:70`).  `RightPixels` asks for the
  right pixels where none remain (`Aligned`), `EveryByteOnce` speaks of all.
- The stream module never resets `killswitch_` and `quit`: streamed again after a stop, the
  streamer ends at once.  `StopEnds` and `UrlTells` hold there too: the address is announced.
- A default callback set while a module is being loaded may miss it; `DefaultReachesModules`
  names these modules (`raced`).
- The snapshot module allocates for its first image and copies every later one into the same
  buffer, whatever its size (`src/modules/snapshot/snapshot.cc:60-64`).

## Plan

Done, in this order: `SharedResource` with `ModuleTable`, `Api` with `ModuleLifecycle`,
`LowLatencyCall` and their proofs; `V4L2Camera` and `CameraControl`; `ModulePass`,
`ModuleParameters`, `Convert`; `Dirwatch` and `ModuleLoader`; `SceneTrees`; `Stream`;
`ResultCallbacks`; proofs about all of them.

Left, for who goes on:

1. `CameraControl` with its mutex split where two threads can come between: `release` tests
   `camera_` before it locks, `update_frame` opens through `_init` without the mutex.
2. Argument capture of the worker after the call returned (`tinkervision.cc:54`).

## Not modelled

- `Environment` but for what `set_user_prefix` does to the loader's path (`SetUserPrefix` in
  `ModuleLoader`), `PythonContext`, `Filesystem`, `Logger`, `Strings`: directories, calls into an
  interpreter, system calls, text.
- `OpenCvUSBCamera`: not in the default build.
- The example modules but stream, downscale and grayfilter: they compute on one frame and keep nothing that another
  thread sees; what the library relies on is an outcome of `Execute`.
- Values of pixels, contents of results, frame rates and all real time.
- Undefined behaviour of two threads on one `Camera` object, or of two simultaneous accesses
  to `availables_` and to the callback of `ModuleLoader`, which the code leaves unlocked: what
  comes between the monitor's two steps is modelled, the accesses themselves are atomic.
- Filters of `Dirwatch` and events on files of other kinds, but that they fill the queue.
- Operations without a caller: `sort`, `unwatch`, `remove_scene`, `_disable_module_if`.
