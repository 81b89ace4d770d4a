---------------------------- MODULE ModuleLoader ----------------------------
(***************************************************************************)
(* The loader of modules, lib/core/module_loader.cc: the list of available *)
(* libraries, which the monitor thread of its Dirwatch keeps up to date,   *)
(* and the libraries that are open for loaded modules.                     *)
(*                                                                         *)
(* set_user_paths_prefix changes the path of the environment before it     *)
(* calls switch_user_load_path, which finds the new path to be the current *)
(* one and returns: neither the list nor the watch follows.                *)
(*                                                                         *)
(* dlopen is external.  It opens a library again that is open already,     *)
(* whatever became of its file.  error_ is left out: each failing path     *)
(* sets it before Api reads it.                                            *)
(*                                                                         *)
(* Nothing here is locked.  The monitor changes the list in one step and   *)
(* tests and calls the client's callback in a later one; in between        *)
(* anybody may use either.                                                 *)
(***************************************************************************)
EXTENDS Dirwatch, FiniteSetsExt

CONSTANTS
    System, User,  \* system_modules_path and the first user_modules_path
    Initial,       \* the files that may be there at the start
    Stripped,      \* strip_extension of each name
    MaxHandles     \* bound: loaded modules

ASSUME LoaderAssumption ==
    /\ Initial \subseteq Pair /\ {System, User} \subseteq Dir /\ System # User
    /\ Stripped \in [Lib -> Lib] /\ MaxHandles \in Nat

VARIABLES
    stage,       \* of the constructor, then "ready", at last "gone"
    todo,        \* the files the constructor has still to look at
    availables,  \* availables_
    userPath,    \* user_modules_path of the environment
    handles,     \* handles_: the modules loaded from each library
    callback,    \* on_change_callback is set
    news,        \* the event whose callback the monitor is about to make
    misread,     \* history: files with a dot in their name, and the files the
                 \* constructor took them for;
    known,       \* the list when the callback was set, with the changes the
                 \* callback was told since;
    early        \* and what the monitor was about to tell then

library  == <<availables, misread, userPath, handles>>
telling  == <<callback, news, known, early>>
loaderVars == <<stage, todo, library, telling, diskVars, watchVars>>

NoNews == [kind |-> "NONE", pair |-> <<NoDir, "">>]

Listed(p) == Cardinality({i \in DOMAIN availables : availables[i] = p})
Alive == stage # "gone" /\ monitor # "aborted"

\* _load_module_from_library: the library surely opens, or it may.
Opens(p) == handles[p] > 0 \/ disk[p] \in Good
MayOpen(p) == Opens(p) \/ disk[p] = "junk"

-----------------------------------------------------------------------------
(* The constructor *)

\* _possibly_available_modules.  What happened before is of no interest.
ReadDirectories ==
    /\ stage = "read" /\ stage' = "list"
    /\ todo' = {p \in {System, User} \X Lib : Exists(p)}
    /\ unseen' = {} /\ replaced' = {}
    /\ UNCHANGED <<library, telling, disk, events, changes, watchVars>>

\* _add_available_module: the temporary module leaves no library open.
Adds(p) == Opens(p)

\* The extension is stripped once when the directory is read and once more
\* here, so that a name with a dot stands for another file.
ListNext ==
    /\ stage = "list" /\ Alive
    /\ \E p \in todo :
          LET found == <<p[1], Stripped[p[2]]>>
          IN  /\ p[1] = System \/ ~\E q \in todo : q[1] = System
              /\ todo' = todo \ {p}
              /\ availables' = IF Adds(found) THEN Append(availables, found) ELSE availables
              /\ misread' = IF found = p THEN misread ELSE misread \cup {p, found}
    /\ UNCHANGED <<stage, userPath, handles, telling, diskVars, watchVars>>

ListEnd ==
    /\ stage = "list" /\ todo = {} /\ stage' = "watchSystem"
    /\ UNCHANGED <<todo, library, telling, diskVars, watchVars>>

\* A directory that does not exist is not watched.
Watch(d, before, recording, after) ==
    /\ \/ stage = before /\ AddWatch(d) /\ stage' = recording
       \/ stage = before /\ (\A p \in {d} \X Lib : ~Exists(p)) /\ stage' = after
          /\ UNCHANGED <<diskVars, watchVars>>
       \/ stage = recording /\ RecordWatch(d) /\ stage' = after
    /\ UNCHANGED <<todo, library, telling>>

Construct ==
    \/ ReadDirectories \/ ListNext \/ ListEnd
    \/ Watch(System, "watchSystem", "recordSystem", "watchUser")
    \/ Watch(User, "watchUser", "recordUser", "ready")

-----------------------------------------------------------------------------
(* _watched_directory_changed_callback, in the monitor thread *)

\* Mutant of Created: only libraries of the system path are added.
CreatedSystem(p) == IF Adds(p) /\ p[1] = System THEN Append(availables, p) ELSE availables

Created(p) == IF Adds(p) THEN Append(availables, p) ELSE availables

\* Mutant of Deleted: the file is not looked for in its directory.
DeletedAnywhere(p) ==
    LET at == {i \in DOMAIN availables : availables[i][2] = p[2]}
    IN  IF at = {} THEN availables
        ELSE RemoveAt(availables, CHOOSE i \in at : \A j \in at : i <= j)

\* The first entry of the library.
Deleted(p) == RemoveFirst(availables, p)

\* Mutant of ToTell: also changes that were ignored are told.
ToTellAlways(e) == e

\* An event that did not change the list is not told, unless it is the
\* deletion of a directory.
ToTell(e) ==
    IF availables' = availables /\ e.kind # "DIR_DELETED" THEN NoNews ELSE e

\* The change of the list.
MonitorTakes ==
    /\ news = NoNews
    /\ TakeEvent
    /\ availables' = CASE NextEvent.kind = "CREATED" -> Created(NextEvent.pair)
                       [] NextEvent.kind = "DELETED" -> Deleted(NextEvent.pair)
                       [] OTHER -> availables
    /\ news' = ToTell(NextEvent)
    /\ UNCHANGED <<stage, todo, misread, userPath, handles, callback, known, early>>

\* What a change adds to the number of entries of a library.
Effect(e, p) ==
    IF e.pair = p /\ e.kind = "CREATED" THEN 1
    ELSE IF e.pair = p /\ e.kind = "DELETED" THEN -1 ELSE 0

\* Then the callback, if there is one by now.  It is never taken back, so that
\* its test and its call are one step.
MonitorTells ==
    /\ news # NoNews
    /\ news' = NoNews
    /\ known' = IF callback THEN [p \in Pair |-> known[p] + Effect(news, p)]
                            ELSE known
    /\ UNCHANGED <<stage, todo, library, callback, early, diskVars, watchVars>>

MonitorAborts ==
    /\ news = NoNews
    /\ AbortOnEvent
    /\ UNCHANGED <<stage, todo, library, telling>>

-----------------------------------------------------------------------------
(* The public methods *)

\* update_on_changes assigns the callback, and nothing else.
UpdateOnChanges ==
    /\ callback' = TRUE
    /\ known' = [p \in Pair |-> Listed(p)] /\ early' = news
    /\ UNCHANGED <<stage, todo, library, news, diskVars, watchVars>>

\* Environment::set_user_prefix, which refuses a path without the folders it
\* needs, or one that cannot be given to Python.
SetUserPrefix(d) == userPath' \in {d, userPath}

\* Api::set_user_paths_prefix
SetUserPathsPrefix(d) ==
    /\ SetUserPrefix(d)
    /\ UNCHANGED <<stage, todo, availables, misread, handles, telling, diskVars,
                   watchVars>>

LibraryAvailable(lib) == \E i \in DOMAIN availables : availables[i][2] = lib

AddHandle(p) ==
    /\ MapThenSumSet(LAMBDA q : handles[q], Pair) < MaxHandles
    /\ handles' = [handles EXCEPT ![p] = @ + 1]

\* load_module_from_library, which prefers user modules.  If it fails nothing
\* remains open.
LoadModule(lib) ==
    /\ LibraryAvailable(lib)
    /\ \/ MayOpen(<<userPath, lib>>) /\ AddHandle(<<userPath, lib>>)
       \/ ~Opens(<<userPath, lib>>) /\ MayOpen(<<System, lib>>) /\ AddHandle(<<System, lib>>)
    /\ UNCHANGED <<stage, todo, availables, misread, userPath, telling, diskVars,
                   watchVars>>

\* destroy_module, also for a module whose initialization failed
DestroyModule(p) ==
    /\ handles[p] > 0
    /\ handles' = [handles EXCEPT ![p] = @ - 1]
    /\ UNCHANGED <<stage, todo, availables, misread, userPath, telling, diskVars,
                   watchVars>>

\* The destructor: the one of dirwatch_, which waits for the monitor, and
\* destroy_all.
Destruct ==
    /\ news = NoNews
    /\ stage' = "gone"
    /\ handles' = [p \in Pair |-> 0]
    /\ Stop
    /\ UNCHANGED <<todo, availables, misread, userPath, telling>>

LoaderInit ==
    /\ \E files \in SUBSET Initial :
          disk = [p \in Pair |-> IF p \in files THEN "moved" ELSE "none"]
    /\ watched = {} /\ watches = {} /\ monitor = "none" /\ events = <<>>
    /\ changes = 0 /\ unseen = {} /\ replaced = {}
    /\ stage = "read" /\ todo = {} /\ availables = <<>> /\ misread = {}
    /\ userPath = User
    /\ handles = [p \in Pair |-> 0]
    /\ callback = FALSE /\ known = [p \in Pair |-> 0]
    /\ news = NoNews /\ early = NoNews

LoaderNext ==
    /\ Alive
    /\ \/ Construct
       \/ DiskChange /\ UNCHANGED <<stage, todo, library, telling>>
       \/ MonitorTakes \/ MonitorTells \/ MonitorAborts
       \/ /\ stage = "ready"
          /\ \/ UpdateOnChanges
             \/ \E d \in Dir \ {System} : SetUserPathsPrefix(d)
             \/ \E lib \in Lib : LoadModule(lib)
             \/ \E p \in Pair : DestroyModule(p)
             \/ Destruct

LoaderSpec == LoaderInit /\ [][LoaderNext]_loaderVars

-----------------------------------------------------------------------------
(* Properties *)

\* The monitor has handled all events of the library, and each of its changes
\* since the constructor read the directories made one.  There is none for a
\* change before the directory is watched, after it was deleted, or while the
\* queue is full; and the constructor takes a file with a dot in its name for
\* another one.
Settled(p) ==
    /\ stage = "ready" /\ p \notin unseen \cup misread
    /\ \A i \in DOMAIN events : events[i].pair # p

\* A module that was in a load path when the loader read it, or was moved into
\* it while it was watched, is in the list once its events are handled, in
\* whatever order files came, went and were copied meanwhile, except for the
\* files Settled takes out (module_loader.cc:331-335).
NoModuleLost ==
    \A p \in {System, User} \X Lib :
        Settled(p) /\ disk[p] = "moved" => Listed(p) > 0

\* A library that is gone is not listed any more, nor is one listed twice,
\* unless it was moved over another one; with the exceptions of Settled
\* (module_loader.cc:337-350).
GoneIsUnlisted ==
    \A p \in {System, User} \X Lib :
        Settled(p) /\ p \notin replaced =>
            Listed(p) <= IF Exists(p) THEN 1 ELSE 0

\* The callback is told every change of the list that follows its registration
\* once, and no other event of a file, although the list is changed before the
\* callback is tested: a client that adds what it is told to the list of that
\* moment is behind by the change about to be told, and ahead by the one that
\* was about to be told then, which it is told too (module_loader.cc:352-356).
ChangesAreTold ==
    callback => \A p \in Pair :
        known[p] + Effect(news, p) = Listed(p) + Effect(early, p)

\* "assert(it != watches_.cend())": the monitor knows the directory of every
\* event.  (The process also ends when a watcher that never started is joined,
\* which is not what the assertion is about.)
MonitorKnowsDirectory == monitor = "aborted" => stage = "gone"
=============================================================================
