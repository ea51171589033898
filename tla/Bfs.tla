-------------------------------- MODULE Bfs --------------------------------
(***************************************************************************)
(* GraphTraverser.traverseBFS (codegraph/src/graph/traversal.ts), one step *)
(* per turn of its loop.                                                   *)
(***************************************************************************)
EXTENDS EdgeTable, FiniteSets

CONSTANTS Starts, Requests,  \* the calls of traverseBFS that are considered
          NoEdge

(* Options of a traversal: an empty filter of the code, which lets every   *)
(* kind pass, is the set of all kinds; Infinity is any large number.       *)
Options == [direction : {"outgoing", "incoming", "both"}, maxDepth : Nat, limit : Nat,
            edgeKinds : SUBSET EdgeKind, nodeKinds : SUBSET NodeKind, includeStart : BOOLEAN]

ASSUME BfsAssumption ==
    /\ Starts \subseteq Node /\ Requests \subseteq Options
    /\ IsFiniteSet(Node) /\ NoEdge \notin Edge

VARIABLES start, opts,             \* the arguments
          nodes, edges,            \* the result: nodes, and the edges that led to them
          visited, depthOf,        \* the nodes taken from the queue, and at which depth
          queue

args == <<graph, start, opts>>
vars == <<args, nodes, edges, visited, depthOf, queue>>

Init ==
    /\ graph \in Graphs /\ start \in Starts /\ opts \in Requests
    /\ nodes = (IF opts.includeStart THEN {start} ELSE {})
    /\ edges = {} /\ visited = {} /\ depthOf = [n \in Node |-> 0]
    /\ queue = <<[node |-> start, edge |-> NoEdge, depth |-> 0]>>

Running == queue # <<>> /\ Cardinality(nodes) < opts.limit

(* The edges to follow from a node.                                        *)
Follow(n) ==
    {e \in Adjacent(graph, n, opts.direction, opts.edgeKinds) : graph.kind[OtherEnd(e, n)] \in opts.nodeKinds}

(* Those that lead to a node still to visit when n is visited.             *)
Promising(n) == {e \in Follow(n) : OtherEnd(e, n) \notin visited \cup {n}}

StepTo(e, n, d) == [node |-> OtherEnd(e, n), edge |-> e, depth |-> d + 1]

(* Structure comes before calls, and calls before other references.        *)
Priority(e) == CASE e.kind = "contains" -> 0 [] e.kind = "calls" -> 1 [] OTHER -> 2

(* What a visit appends to the queue: by priority, in any order otherwise. *)
Pushes(n, d) ==
    {s \in [1..Cardinality(Promising(n)) -> {StepTo(e, n, d) : e \in Promising(n)}] :
        /\ \A e \in Promising(n) : \E i \in DOMAIN s : s[i] = StepTo(e, n, d)
        /\ \A i, j \in DOMAIN s : i < j => Priority(s[i].edge) <= Priority(s[j].edge)}

(* Mutant: the newest step is taken first.                                 *)
BugRest(s) == s \o Tail(queue)

Rest(s) == Tail(queue) \o s

(* A node that was queued more than once is visited the first time.        *)
Skip ==
    /\ Running /\ Head(queue).node \in visited
    /\ queue' = Tail(queue)
    /\ UNCHANGED <<args, nodes, edges, visited, depthOf>>

Visit ==
    LET node == Head(queue).node
        depth == Head(queue).depth IN
    /\ Running /\ node \notin visited
    /\ visited' = visited \cup {node}
    /\ depthOf' = [depthOf EXCEPT ![node] = depth]
    /\ edges' = edges \cup ({Head(queue).edge} \ {NoEdge})
    /\ \/ /\ depth >= opts.maxDepth
          /\ queue' = Tail(queue)
          /\ UNCHANGED nodes
       \/ /\ depth < opts.maxDepth
          /\ nodes' = nodes \cup {OtherEnd(e, node) : e \in Promising(node)}
          /\ \E s \in Pushes(node, depth) : queue' = Rest(s)
    /\ UNCHANGED args

Return == ~Running /\ UNCHANGED vars

Next == Skip \/ Visit \/ Return

Spec == Init /\ [][Next]_vars
-----------------------------------------------------------------------------
Step == [node : Node, edge : Edge \cup {NoEdge}, depth : Nat]

TypeOK ==
    /\ graph \in Graph /\ start \in Node /\ opts \in Options
    /\ nodes \subseteq Node /\ edges \subseteq Edge
    /\ visited \subseteq Node /\ depthOf \in [Node -> Nat]
    /\ queue \in Seq(Step)

(* A walk of m edges, each one that the traversal may follow.              *)
Walk(n, m) ==
    \E p \in [0..m -> Node] :
        /\ p[0] = start /\ p[m] = n
        /\ \A i \in 0..(m-1) : \E e \in Follow(p[i]) : OtherEnd(e, p[i]) = p[i+1]

(* traverseBFS returns what is reachable within maxDepth, each node at its *)
(* distance, whatever the order of the rows: a node is visited at the end  *)
(* of a walk, and when the queue has run empty (the limit did not stop the *)
(* search) nothing within reach is missing and no walk is shorter.         *)
SearchIsExact ==
    /\ \A n \in visited : depthOf[n] <= opts.maxDepth /\ Walk(n, depthOf[n])
    /\ queue = <<>> =>
        /\ nodes \ {start} = visited \ {start}
        /\ \A n \in Node : \A m \in 0..opts.maxDepth : Walk(n, m) => n \in visited /\ depthOf[n] <= m
=============================================================================
