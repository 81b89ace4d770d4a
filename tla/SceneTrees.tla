----------------------------- MODULE SceneTrees -----------------------------
(***************************************************************************)
(* The trees of lib/core/scenetrees.cc and node.cc.  A scene is a chain of *)
(* modules; scenes that begin alike share the nodes of their beginning, so *)
(* that a module is executed once for all of them.  The functions of Api   *)
(* above this part return TV_NOT_IMPLEMENTED before they call it.          *)
(*                                                                         *)
(* Nodes never leave a tree: nothing calls remove_child or remove_scene.   *)
(* Scenes change between two executions of the trees only; a function that *)
(* is never called has no thread of its own.                               *)
(***************************************************************************)
EXTENDS Integers, Sequences, FiniteSets, SequencesExt

CONSTANTS
    SceneId,      \* the scenes, each started once
    NodeModule,   \* the modules that nodes execute
    MaxNode,      \* bound: nodes allocated
    MaxStamp      \* bound: timestamps of frames

ASSUME SceneAssumption == MaxNode \in Nat \ {0} /\ MaxStamp \in Nat

VARIABLES
    nodes,   \* scene_nodes_, by the order of their allocation
    leaf,    \* scenes_ of the trees: the last node of each scene
    chain,   \* the modules each scene was given
    now,     \* the timestamp the trees are executed for, or were at last
    calls    \* the calls of Node::execute that are still to come, in order

sceneVars == <<nodes, leaf, chain, now, calls>>

\* module_id_, the index of parent_ (0 for a root), scenes_ and timestamp_.
NewNode(m, parent, s) ==
    [module |-> m, parent |-> parent, scenes |-> {s}, stamp |-> 0]

Started(s) == s \in DOMAIN leaf

With(f, s, value) == [x \in DOMAIN f \cup {s} |-> IF x = s THEN value ELSE f[x]]

\* get_child_from_module_id; the roots are the children of no node.
Children(parent, m) ==
    {n \in DOMAIN nodes : nodes[n].parent = parent /\ nodes[n].module = m}

\* Mutant of Reusable: any node with the module.
ReusableAnywhere(parent, m) == {n \in DOMAIN nodes : nodes[n].module = m}

\* The nodes that scene_start and add_to_scene look for.
Reusable(parent, m) == Children(parent, m)

\* Mutant of Reuse: the node does not learn that the scene uses it.
ReuseSilent(n, s) == UNCHANGED nodes /\ leaf' = With(leaf, s, n)

Reuse(n, s) ==
    /\ nodes' = [nodes EXCEPT ![n].scenes = @ \cup {s}]
    /\ leaf' = With(leaf, s, n)

Grow(m, parent, s) ==
    /\ Len(nodes) < MaxNode
    /\ nodes' = Append(nodes, NewNode(m, parent, s))
    /\ leaf' = With(leaf, s, Len(nodes) + 1)

\* The scene goes on with module m below the node parent.
Extend(s, m, parent) ==
    IF Reusable(parent, m) # {}
      THEN \E n \in Reusable(parent, m) : Reuse(n, s)
      ELSE Grow(m, parent, s)

\* scene_start, for a scene that was not started before
SceneStart(s, m) ==
    /\ calls = <<>> /\ ~Started(s)
    /\ Extend(s, m, 0)
    /\ chain' = With(chain, s, <<m>>)
    /\ UNCHANGED <<now, calls>>

\* add_to_scene
AddToScene(s, m) ==
    /\ calls = <<>> /\ Started(s)
    /\ Extend(s, m, leaf[s])
    /\ chain' = [chain EXCEPT ![s] = Append(@, m)]
    /\ UNCHANGED <<now, calls>>

\* The children of a node, or the roots, as old as they are.
Below(n) ==
    SelectSeq([k \in DOMAIN nodes |-> k], LAMBDA k : nodes[k].parent = n)

\* exec_all goes to the roots, one tree after the other.
ExecAll(stamp) ==
    /\ calls = <<>>
    /\ now' = stamp /\ calls' = Below(0)
    /\ UNCHANGED <<nodes, leaf, chain>>

\* Mutant of ExecuteNode: the recursion is part of the conditional execution.
ExecuteNodeWhole(n) ==
    /\ nodes' = [nodes EXCEPT ![n].stamp = now]
    /\ calls' = IF nodes[n].stamp # now THEN Below(n) \o Tail(calls) ELSE Tail(calls)

\* Node::execute.  The module is executed, unless it was for this timestamp;
\* then come the children, before what the caller has still to visit.
ExecuteNode(n) ==
    /\ nodes' = [nodes EXCEPT ![n].stamp = now]
    /\ calls' = Below(n) \o Tail(calls)

ExecNode ==
    /\ calls # <<>>
    /\ ExecuteNode(Head(calls))
    /\ UNCHANGED <<leaf, chain, now>>

ScenesInit ==
    /\ nodes = <<>>
    /\ leaf = [s \in {} |-> 0] /\ chain = [s \in {} |-> <<>>]
    /\ now = 0 /\ calls = <<>>

ScenesNext ==
    \/ \E s \in SceneId, m \in NodeModule : SceneStart(s, m) \/ AddToScene(s, m)
    \/ \E stamp \in 0..MaxStamp : ExecAll(stamp)
    \/ ExecNode

ScenesSpec == ScenesInit /\ [][ScenesNext]_sceneVars

-----------------------------------------------------------------------------
(* Properties *)

\* The modules from the root of a tree to node n.
Path[n \in 0..Len(nodes)] ==
    IF n = 0 THEN <<>> ELSE Append(Path[nodes[n].parent], nodes[n].module)

\* Sharing nodes with other scenes never changes a scene: from the root to its
\* last node are the modules it was given, in order (scenetrees.cc:60-128).
SceneIsPath == \A s \in DOMAIN leaf : Path[leaf[s]] = chain[s]

\* Scenes share all that they can: no two nodes stand for the same beginning,
\* and a node knows exactly the scenes that begin with its path, so a module
\* is executed once for all of them (scenetrees.cc:95-104).
NodesAreShared ==
    /\ \A i, j \in DOMAIN nodes : Path[i] = Path[j] => i = j
    /\ \A n \in DOMAIN nodes :
            nodes[n].scenes = {s \in DOMAIN chain : IsPrefix(Path[n], chain[s])}

\* When the recursion is over, every module of every tree has been executed
\* for the frame, those that were added since an earlier execution for the same
\* frame as well (node.cc:50-59).
FrameReachesAll ==
    [][calls # <<>> /\ calls' = <<>> =>
            \A n \in DOMAIN nodes' : nodes'[n].stamp = now']_sceneVars
=============================================================================
