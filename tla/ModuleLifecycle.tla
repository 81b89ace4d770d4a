-------------------------- MODULE ModuleLifecycle --------------------------
(***************************************************************************)
(* What the interface promises about the life of a module id: it is given  *)
(* out once, enters the table at most once, leaves it only after it was    *)
(* marked for removal or together with all the others, and never returns.  *)
(* Api implements this specification.                                      *)
(***************************************************************************)
CONSTANT Id  \* the module ids

VARIABLE stage  \* where each id is in its life

Stage == {"fresh", "loading", "listed", "doomed", "gone"}
TypeOK == stage \in [Id -> Stage]

Init == stage = [i \in Id |-> "fresh"]

Move(i, from, to) == stage[i] = from /\ stage' = [stage EXCEPT ![i] = to]

Refuse(i) == Move(i, "fresh", "gone")
Load(i)   == Move(i, "fresh", "loading")
List(i)   == Move(i, "loading", "listed")
Doom(i)   == Move(i, "listed", "doomed")

\* All the ids in one of the stages S leave the table.
Drop(S) == stage' = [i \in Id |-> IF stage[i] \in S THEN "gone" ELSE stage[i]]

Sweep == Drop({"doomed"})
Clear == Drop({"listed", "doomed"})

Next ==
    \/ \E i \in Id : Refuse(i) \/ Load(i) \/ List(i) \/ Doom(i)
    \/ Sweep
    \/ Clear

Spec == Init /\ [][Next]_stage
=============================================================================
