--------------------------- MODULE ResultCallbacks ---------------------------
(***************************************************************************)
(* The callbacks for the results of modules: Api::callback_set and         *)
(* callback_default of lib/core/api.cc, and what the detached threads of   *)
(* _module_load do for them.  A new module gets the default callback from  *)
(* the thread that enables it, the modules in the table get it from        *)
(* callback_default, and nothing orders the two.                           *)
(*                                                                         *)
(* One client calls.  Loads that fail, and the removal of modules, are in  *)
(* Api.                                                                    *)
(***************************************************************************)
EXTENDS Sequences, SequencesExt

CONSTANTS
    Loadable,   \* the modules, each loaded at most once
    HasResult,  \* the ones with can_have_result_
    Callback,   \* callbacks of the client
    NoCallback  \* the null pointer

ASSUME CallbackAssumption == HasResult \subseteq Loadable /\ NoCallback \notin Callback

VARIABLES
    default_callback,
    cb,         \* cb_ of each wrapper
    table,      \* the modules in the table, in their order
    inserting,  \* the modules whose detached thread has still to insert them
    enabler,    \* where the detached thread is that enables a module
    seen,       \* the default callback it has read
    done,       \* done_, which is never cleared
    client,     \* where the client is: idle, waiting in _module_load for a
                \* module, or in the pass of callback_default
    ahead,      \* the module it waits for, or those it has still to visit
    own,        \* the callback set for a module since the latest default
    raced       \* the modules that were being loaded at the latest default

callbackVars == <<default_callback, cb, table, inserting, enabler, seen, done,
                  client, ahead, own, raced>>

-----------------------------------------------------------------------------
(* _module_load *)

LoadBegin(m) ==
    /\ client = "idle"
    /\ m \notin inserting \cup ToSet(table) /\ enabler[m] = "none"
    /\ inserting' = inserting \cup {m}
    /\ client' = "wait" /\ ahead' = <<m>>
    /\ UNCHANGED <<default_callback, cb, table, enabler, seen, done, own, raced>>

InsertModule(m) ==
    /\ m \in inserting
    /\ inserting' = inserting \ {m}
    /\ table' = Append(table, m)
    /\ done' = TRUE
    /\ UNCHANGED <<default_callback, cb, enabler, seen, client, ahead, own, raced>>

\* The time is up.  The first module that is too slow is not enabled.
LoadEnd ==
    /\ client = "wait"
    /\ enabler' = IF done THEN [enabler EXCEPT ![ahead[1]] = "test"] ELSE enabler
    /\ done' = TRUE
    /\ client' = "idle" /\ ahead' = <<>>
    /\ UNCHANGED <<default_callback, cb, table, inserting, seen, own, raced>>

\* The thread reads the default callback twice: to test it and to pass it on.
TestDefault(m) ==
    /\ enabler[m] = "test"
    /\ enabler' = [enabler EXCEPT ![m] =
                    IF default_callback = NoCallback THEN "done" ELSE "read"]
    /\ UNCHANGED <<default_callback, cb, table, inserting, seen, done, client,
                   ahead, own, raced>>

ReadDefault(m) ==
    /\ enabler[m] = "read"
    /\ seen' = [seen EXCEPT ![m] = default_callback]
    /\ enabler' = [enabler EXCEPT ![m] = "register"]
    /\ UNCHANGED <<default_callback, cb, table, inserting, done, client, ahead,
                   own, raced>>

\* register_callback refuses modules without results.
WithCallback(m, callback) ==
    IF m \in HasResult THEN [cb EXCEPT ![m] = callback] ELSE cb

RegisterDefault(m) ==
    /\ enabler[m] = "register"
    /\ cb' = WithCallback(m, seen[m])
    /\ enabler' = [enabler EXCEPT ![m] = "done"]
    /\ UNCHANGED <<default_callback, table, inserting, seen, done, client,
                   ahead, own, raced>>

-----------------------------------------------------------------------------
(* callback_set and callback_default *)

\* Mutant of CallbackSet: also while there is a default callback.
CallbackSetAlways(m, callback) ==
    /\ client = "idle" /\ m \in ToSet(table)
    /\ cb' = WithCallback(m, callback)
    /\ own' = IF m \in HasResult THEN [own EXCEPT ![m] = callback] ELSE own
    /\ UNCHANGED <<default_callback, table, inserting, enabler, seen, done,
                   client, ahead, raced>>

CallbackSet(m, callback) ==
    /\ client = "idle" /\ m \in ToSet(table)
    /\ default_callback = NoCallback
    /\ cb' = WithCallback(m, callback)
    /\ own' = IF m \in HasResult THEN [own EXCEPT ![m] = callback] ELSE own
    /\ UNCHANGED <<default_callback, table, inserting, enabler, seen, done,
                   client, ahead, raced>>

BeingLoaded == inserting \cup {m \in Loadable : enabler[m] \notin {"none", "done"}}

\* The modules that exec_all meets are those in the table when it begins.
DefaultBegin(callback) ==
    /\ client = "idle"
    /\ default_callback' = callback
    /\ client' = "default" /\ ahead' = table
    /\ own' = [m \in Loadable |-> NoCallback]
    /\ raced' = BeingLoaded
    /\ UNCHANGED <<cb, table, inserting, enabler, seen, done>>

DefaultNext ==
    /\ client = "default" /\ ahead # <<>>
    /\ cb' = WithCallback(Head(ahead), default_callback)
    /\ ahead' = Tail(ahead)
    /\ UNCHANGED <<default_callback, table, inserting, enabler, seen, done,
                   client, own, raced>>

DefaultEnd ==
    /\ client = "default" /\ ahead = <<>>
    /\ client' = "idle"
    /\ UNCHANGED <<default_callback, cb, table, inserting, enabler, seen, done,
                   ahead, own, raced>>

-----------------------------------------------------------------------------

CallbacksInit ==
    /\ default_callback = NoCallback
    /\ cb = [m \in Loadable |-> NoCallback] /\ own = cb /\ seen = cb
    /\ table = <<>> /\ inserting = {} /\ raced = {}
    /\ enabler = [m \in Loadable |-> "none"]
    /\ done = FALSE
    /\ client = "idle" /\ ahead = <<>>

CallbacksNext ==
    \/ \E m \in Loadable :
          \/ LoadBegin(m) \/ InsertModule(m)
          \/ TestDefault(m) \/ ReadDefault(m) \/ RegisterDefault(m)
          \/ \E callback \in Callback : CallbackSet(m, callback)
    \/ LoadEnd
    \/ \E callback \in Callback \cup {NoCallback} : DefaultBegin(callback)
    \/ DefaultNext \/ DefaultEnd

CallbacksSpec == CallbacksInit /\ [][CallbacksNext]_callbackVars

-----------------------------------------------------------------------------
(* Properties *)

\* "Enable a default callback which will be called for each result of every
\* module" (tinkervision.h:485): between two calls every enabled module has the
\* default callback, whether it was in the table when that was set or came
\* later (api.cc:562-570, 673-676); without a default it has its own.  It need
\* not be so for a module that was being loaded when the default was set.
DefaultReachesModules ==
    client = "idle" =>
        \A m \in (HasResult \cap ToSet(table)) \ raced :
            enabler[m] = "done" =>
                cb[m] = IF default_callback = NoCallback THEN own[m]
                        ELSE default_callback
=============================================================================
