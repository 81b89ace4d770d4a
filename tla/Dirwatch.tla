------------------------------ MODULE Dirwatch ------------------------------
(***************************************************************************)
(* The watcher of directories, lib/tools/dirwatch.cc, with what it watches *)
(* through inotify: the files of the load paths, which anybody may change. *)
(* Its monitor thread takes events from a queue; what the owner does with  *)
(* them is up to the module that extends this one.                         *)
(*                                                                         *)
(* Files and inotify are external.  A file that is moved into a directory  *)
(* is there as a whole; one that is copied is created first and filled     *)
(* later, which flags_ does not ask inotify to tell.  Only files with the  *)
(* watched extension are modelled; the others fill the kernel's queue too, *)
(* so that any event may be the first one that finds it full.              *)
(***************************************************************************)
EXTENDS Integers, Sequences, FiniteSets, SequencesExt

CONSTANTS
    Dir,         \* the directories
    NoDir,       \* the directory of an event that has none
    Lib,         \* the names of the files, without the extension
    MaxChanges   \* bound: changes on disk

ASSUME DirwatchAssumption == MaxChanges \in Nat /\ NoDir \notin Dir

Pair == Dir \X Lib

VARIABLES
    disk,      \* the state of each file
    watched,   \* the directories inotify watches
    watches,   \* watches_: those whose descriptor is recorded
    monitor,   \* the thread: none yet, running, joined, or aborted by assert
    events,    \* the queue of events
    changes,   \* the number of changes so far
    unseen,    \* history: the files with a change that made no event,
    replaced   \* and those that were moved over another one

diskVars == <<disk, events, changes, unseen, replaced>>
watchVars == <<watched, watches, monitor>>

\* A module; "junk" is a file the loader finds no module of its name in.
Good == {"copied", "moved"}
FileState == Good \cup {"none", "partial", "junk"}

Exists(p) == disk[p] # "none"

-----------------------------------------------------------------------------
(* The files *)

Change(p, state) ==
    /\ changes < MaxChanges /\ changes' = changes + 1
    /\ disk' = [disk EXCEPT ![p] = state]

\* A full queue takes one event more, IN_Q_OVERFLOW, which has no directory.
OverflowEvent == [kind |-> "OVERFLOW", pair |-> <<NoDir, "">>]
Overflow ==
    events' = IF OverflowEvent \in ToSet(events)
                THEN events ELSE Append(events, OverflowEvent)

Told(p, kind) ==
    \/ /\ p[1] \in watched
       /\ events' = Append(events, [kind |-> kind, pair |-> p])
       /\ UNCHANGED unseen
    \/ p[1] \in watched /\ Overflow /\ unseen' = unseen \cup {p}
    \/ p[1] \notin watched /\ unseen' = unseen \cup {p} /\ UNCHANGED events

MoveIn(p, state) ==
    /\ Change(p, state)
    /\ Told(p, "CREATED")
    /\ replaced' = IF Exists(p) THEN replaced \cup {p} ELSE replaced
    /\ UNCHANGED watchVars

CopyIn(p) ==
    /\ ~Exists(p)
    /\ Change(p, "partial")
    /\ Told(p, "CREATED")
    /\ UNCHANGED <<replaced, watchVars>>

CopyEnd(p) ==
    /\ disk[p] = "partial"
    /\ disk' = [disk EXCEPT ![p] = "copied"]
    /\ UNCHANGED <<events, changes, unseen, replaced, watchVars>>

\* also IN_MOVED_FROM
Delete(p) ==
    /\ Exists(p)
    /\ Change(p, "none")
    /\ Told(p, "DELETED")
    /\ UNCHANGED <<replaced, watchVars>>

\* An empty directory is removed.  It may come back, but the watch does not.
DeleteDir(d) ==
    /\ d \in watched /\ \A p \in {d} \X Lib : ~Exists(p)
    /\ changes < MaxChanges /\ changes' = changes + 1
    /\ watched' = watched \ {d}
    /\ \/ events' = Append(events, [kind |-> "DIR_DELETED", pair |-> <<d, "">>])
       \/ Overflow
    /\ UNCHANGED <<disk, unseen, replaced, watches, monitor>>

DiskChange ==
    \/ \E p \in Pair, state \in {"moved", "junk"} : MoveIn(p, state)
    \/ \E p \in Pair : CopyIn(p) \/ CopyEnd(p) \/ Delete(p)
    \/ \E d \in Dir : DeleteDir(d)

-----------------------------------------------------------------------------
(* Dirwatch *)

\* watch: the first one starts the monitor, then the directory is added.
AddWatch(d) ==
    /\ monitor' = "running"
    /\ watched' = watched \cup {d}
    /\ UNCHANGED <<watches, diskVars>>

\* Last, watch records its descriptor.
RecordWatch(d) ==
    /\ watches' = watches \cup {d}
    /\ UNCHANGED <<watched, monitor, diskVars>>

\* monitor takes the next event, one of a batch of up to ten, and looks for
\* its directory in watches_.
NextEvent == Head(events)

TakeEvent ==
    /\ monitor = "running" /\ events # <<>>
    /\ NextEvent.pair[1] \in watches
    /\ events' = Tail(events)
    /\ UNCHANGED <<disk, changes, unseen, replaced, watchVars>>

\* The assertion in monitor: the directory is not recorded yet, or there is
\* none because the queue was full.
AbortOnEvent ==
    /\ monitor = "running" /\ events # <<>>
    /\ NextEvent.pair[1] \notin watches
    /\ monitor' = "aborted"
    /\ UNCHANGED <<watched, watches, diskVars>>

\* stop joins the thread; there must be one.
Stop ==
    /\ monitor' = IF monitor = "running" THEN "joined" ELSE "aborted"
    /\ UNCHANGED <<watched, watches, diskVars>>
=============================================================================
