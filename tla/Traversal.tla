----------------------------- MODULE Traversal -----------------------------
(***************************************************************************)
(* The recursive searches of GraphTraverser (codegraph/src/graph/          *)
(* traversal.ts) and the dead code of queries.ts, on a graph g.  The       *)
(* mutable sets that the recursion shares are a record that it threads     *)
(* through; the edges of a result are a set.                               *)
(***************************************************************************)
EXTENDS EdgeTable, FiniteSets, SequencesExt

getAdjacentEdges(g, n, direction, kinds) ==
    CASE direction = "outgoing" -> getOutgoingEdges(g, n, kinds)
      [] direction = "incoming" -> getIncomingEdges(g, n, kinds)
      [] OTHER -> getOutgoingEdges(g, n, kinds) \o getIncomingEdges(g, n, kinds)

RECURSIVE dfsRecursive(_, _, _, _, _)
dfsRecursive(g, o, n, depth, s) ==
    IF n \in s.visited \/ Cardinality(s.nodes) >= o.limit \/ depth >= o.maxDepth THEN s
    ELSE FoldLeft(LAMBDA t, e :
                     LET next == OtherEnd(e, n) IN
                     IF next \in t.visited \/ g.kind[next] \notin o.nodeKinds THEN t
                     ELSE dfsRecursive(g, o, next, depth + 1,
                                       [t EXCEPT !.nodes = @ \cup {next}, !.edges = @ \cup {e}]),
                  [s EXCEPT !.visited = @ \cup {n}], getAdjacentEdges(g, n, o.direction, o.edgeKinds))

traverseDFS(g, n, o) ==
    dfsRecursive(g, o, n, 0, [nodes |-> IF o.includeStart THEN {n} ELSE {}, edges |-> {}, visited |-> {}])
-----------------------------------------------------------------------------
(* Callers and callees.                                                    *)

CallKinds == {"calls", "references", "imports", "instantiates"}

(* getCallersRecursive is the search against the edges.                    *)
RECURSIVE CallSearch(_, _, _, _, _, _)
CallSearch(g, direction, n, maxDepth, depth, s) ==
    IF depth >= maxDepth \/ n \in s.visited THEN s
    ELSE FoldLeft(LAMBDA t, e :
                     IF OtherEnd(e, n) \in t.visited THEN t
                     ELSE CallSearch(g, direction, OtherEnd(e, n), maxDepth, depth + 1,
                                     [t EXCEPT !.found = @ \cup {<<OtherEnd(e, n), e>>}]),
                  [s EXCEPT !.visited = @ \cup {n}], getAdjacentEdges(g, n, direction, CallKinds))

Found(g, direction, n, maxDepth) ==
    CallSearch(g, direction, n, maxDepth, 0, [found |-> {}, visited |-> {}]).found

getCallers(g, n, maxDepth) == Found(g, "incoming", n, maxDepth)
getCallees(g, n, maxDepth) == Found(g, "outgoing", n, maxDepth)

getCallGraph(g, n, depth) ==
    LET both == getCallers(g, n, depth) \cup getCallees(g, n, depth) IN
    [nodes |-> {n} \cup {f[1] : f \in both}, edges |-> {f[2] : f \in both}]
-----------------------------------------------------------------------------
(* The type hierarchy: ancestors, then descendants with the same sets.     *)

RECURSIVE TypeSearch(_, _, _, _)
TypeSearch(g, direction, n, s) ==
    IF n \in s.visited THEN s
    ELSE FoldLeft(LAMBDA t, e :
                     IF OtherEnd(e, n) \in t.nodes THEN t
                     ELSE TypeSearch(g, direction, OtherEnd(e, n),
                                     [t EXCEPT !.nodes = @ \cup {OtherEnd(e, n)}, !.edges = @ \cup {e}]),
                  [s EXCEPT !.visited = @ \cup {n}],
                  getAdjacentEdges(g, n, direction, {"extends", "implements"}))

getTypeHierarchy(g, n) ==
    TypeSearch(g, "incoming", n, TypeSearch(g, "outgoing", n, [nodes |-> {n}, edges |-> {}, visited |-> {}]))
-----------------------------------------------------------------------------
(* The impact of a change: whoever depends on the node or on its members.  *)

Containers == {"class", "interface", "struct", "trait", "protocol", "module", "enum"}

(* Mutant: from a member up to its container (the bug of #536).            *)
BugDependencies(g) == EdgeKind

Dependencies(g) == EdgeKind \ {"contains"}

RECURSIVE getImpactRecursive(_, _, _, _, _)
getImpactRecursive(g, n, maxDepth, depth, s) ==
    IF depth >= maxDepth \/ n \in s.visited THEN s
    ELSE LET members == IF g.kind[n] \in Containers THEN getOutgoingEdges(g, n, {"contains"}) ELSE <<>>
             inside == FoldLeft(LAMBDA t, e :
                          IF e.target \in t.visited THEN t
                          ELSE getImpactRecursive(g, e.target, maxDepth, depth,
                                   [t EXCEPT !.nodes = @ \cup {e.target}, !.edges = @ \cup {e}]),
                          [s EXCEPT !.visited = @ \cup {n}], members)
         IN FoldLeft(LAMBDA t, e :
                IF e.source \in t.nodes THEN t
                ELSE getImpactRecursive(g, e.source, maxDepth, depth + 1,
                         [t EXCEPT !.nodes = @ \cup {e.source}, !.edges = @ \cup {e}]),
                inside, getIncomingEdges(g, n, Dependencies(g)))

getImpactRadius(g, n, maxDepth) ==
    getImpactRecursive(g, n, maxDepth, 0, [nodes |-> {n}, edges |-> {}, visited |-> {}])
-----------------------------------------------------------------------------
(* Containers and members.                                                 *)

(* The containers of a node, from the inside out, along the first row.     *)
RECURSIVE AncestorChain(_, _, _)
AncestorChain(g, n, visited) ==
    LET containing == getIncomingEdges(g, n, {"contains"}) IN
    IF n \in visited \/ containing = <<>> THEN <<>>
    ELSE <<containing[1].source>> \o AncestorChain(g, containing[1].source, visited \cup {n})

getAncestors(g, n) == AncestorChain(g, n, {})

getChildren(g, n) == {e.target : e \in {f \in Rows(g) : f.source = n /\ f.kind = "contains"}}
-----------------------------------------------------------------------------
(* Symbols of these kinds that nothing refers to and nobody exports.       *)
findDeadCode(g, kinds, exported) ==
    {n \in Node : /\ g.kind[n] \in kinds /\ n \notin exported
                  /\ ~\E e \in Rows(g) : e.target = n /\ e.kind # "contains"}
-----------------------------------------------------------------------------
(* Reference definitions.                                                  *)

(* What at most k steps of a relation reach.                               *)
Within(To(_), n, k) ==
    LET Ball[i \in 0..k] == IF i = 0 THEN {n} ELSE Ball[i-1] \cup UNION {To(m) : m \in Ball[i-1]} IN Ball[k]

Beyond == Cardinality(Node)
Callers(g, n) == {e.source : e \in {f \in Rows(g) : f.target = n /\ f.kind \in CallKinds}}
Callees(g, n) == {e.target : e \in {f \in Rows(g) : f.source = n /\ f.kind \in CallKinds}}
Supertypes(g, n) == {e.target : e \in {f \in Rows(g) : f.source = n /\ f.kind \in {"extends", "implements"}}}
Subtypes(g, n) == {e.source : e \in {f \in Rows(g) : f.target = n /\ f.kind \in {"extends", "implements"}}}

(* A node with its members, which cost no step; and who depends on them.   *)
Whole(g, n) == Within(LAMBDA m : IF g.kind[m] \in Containers THEN getChildren(g, m) ELSE {}, n, Beyond)
Dependents(g, n) ==
    Whole(g, n) \cup {e.source : e \in {f \in Rows(g) : f.kind # "contains" /\ f.target \in Whole(g, n)}}

(* What one search finds beside n: nothing beyond its depth, all that is   *)
(* one step away, and all that is reachable when the depth is no bound.    *)
Bounded(found, n, d, To(_)) ==
    /\ found \cup {n} \subseteq Within(To, n, d)
    /\ d >= 1 => Within(To, n, 1) \subseteq found \cup {n}
    /\ d >= Beyond => found \cup {n} = Within(To, n, Beyond)

Ends(found) == {f[1] : f \in found}
=============================================================================
