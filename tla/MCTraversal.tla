---------------------------- MODULE MCTraversal ----------------------------
(* Graphs of calls between four nodes, in every order of up to three rows  *)
(* and in one of four; and graphs of several kinds of edges between three. *)
(* On each, one of the searches runs; those of Traversal are checked when  *)
(* Bfs begins.                                                             *)
EXTENDS Bfs, FindPath, FileCycles, Traversal

CONSTANTS n1, n2, n3, n4

VARIABLE search         \* the search that runs

Tables(E, k) == UNION {{t \in [1..m -> E] : \A i, j \in 1..m : i < j => t[i] # t[j]} : m \in 0..k}

MCNodeKind == {"class", "function"}
MCEdgeKind == {"calls", "instantiates", "extends", "contains"}
Among(N, kinds) == {e \in [source : N, target : N, kind : kinds] : e.source # e.target}
CallEdges == Among(Node, {"calls"})
Three == {n1, n2, n3}
AllFunctions == [n \in Node |-> "function"]
TwoClasses == [AllFunctions EXCEPT ![n1] = "class", ![n2] = "class"]

(* Classes extend classes and contain; anything may call or be constructed.*)
Sensible(e) ==
    /\ e.kind = "extends" => {e.source, e.target} \subseteq {n1, n2}
    /\ e.kind = "contains" => e.source \in {n1, n2}
    /\ e.kind = "instantiates" => e.target \in {n1, n2}
Mixed(kinds) == {e \in Among(Three, kinds) : Sensible(e)}

MCGraphs ==
    [kind : {AllFunctions}, rows : Tables(CallEdges, 3) \cup {SetToSeq(E) : E \in kSubset(4, CallEdges)}]
    \cup [kind : {TwoClasses}, rows : Tables(Mixed(MCEdgeKind) \cup {[source |-> n, target |-> n, kind |-> "calls"] : n \in {n1, n3}}, 2)
                \cup {t \in [1..3 -> Mixed(MCEdgeKind)] :
                         t[1].kind # t[2].kind /\ t[2].kind # t[3].kind /\ t[1].kind # t[3].kind}]

MCRequests ==
    {[direction |-> d, maxDepth |-> k, limit |-> l, edgeKinds |-> MCEdgeKind, nodeKinds |-> MCNodeKind, includeStart |-> TRUE] :
        <<d, k, l>> \in {<<"both", 3, 9>>, <<"outgoing", 2, 9>>, <<"incoming", 3, 2>>}}
    \cup {[direction |-> "outgoing", maxDepth |-> 3, limit |-> 9, edgeKinds |-> {"calls", "contains"}, nodeKinds |-> {"function"},
           includeStart |-> FALSE]}

(* The last two nodes share a file.                                        *)
MCFileOf == [n \in Node |-> IF n = n4 THEN n3 ELSE n]

Plain == CHOOSE o \in MCRequests : o.direction = "both"
Beginning == search = "bfs" /\ visited = {} /\ opts = Plain

MCQueries == [from : {n1}, to : Node, kinds : {MCEdgeKind, {"calls"}}]
NoQuery == [from |-> n1, to |-> n1, kinds |-> {"calls"}]

MCInit ==
    /\ \/ search = "bfs" /\ query = NoQuery
       \/ search = "path" /\ start = n1 /\ opts = Plain
       \/ search = "cycles" /\ start = n1 /\ opts = Plain /\ query = NoQuery
    /\ Init /\ PathCalled /\ CyclesCalled
MCNext ==
    /\ \/ search = "bfs" /\ Next /\ UNCHANGED <<pathVars, cycleVars>>
       \/ search = "path" /\ PathNext /\ UNCHANGED <<vars, cycleVars>>
       \/ search = "cycles" /\ CyclesNext /\ UNCHANGED <<vars, pathVars>>
    /\ UNCHANGED search
MCSpec == MCInit /\ [][MCNext]_<<search, vars, pathVars, cycleVars>>

WithinDepth ==
    \A n \in Node, d \in 0..Beyond :
        /\ Bounded(Ends(getCallers(graph, n, d)), n, d, LAMBDA m : Callers(graph, m))
        /\ Bounded(Ends(getCallees(graph, n, d)), n, d, LAMBDA m : Callees(graph, m))
        /\ Bounded(getImpactRadius(graph, n, d).nodes, n, d, LAMBDA m : Dependents(graph, m))
        /\ Within(LAMBDA m : Supertypes(graph, m), n, Beyond) \subseteq getTypeHierarchy(graph, n).nodes
        /\ Bounded(traverseDFS(graph, n, [opts EXCEPT !.maxDepth = d, !.limit = 9]).nodes, n, d,
                   LAMBDA m : {OtherEnd(e, m) : e \in {f \in Adjacent(graph, m, opts.direction, opts.edgeKinds) :
                                                          graph.kind[OtherEnd(f, m)] \in opts.nodeKinds}})

ReadersAgree ==
    \A n \in Node :
        /\ \A m \in Node, d \in {1, 2, Beyond} : m \in Ends(getCallers(graph, n, d)) <=> n \in Ends(getCallees(graph, m, d))
        /\ \A d \in 1..2 : \A r \in {getCallGraph(graph, n, d), getImpactRadius(graph, n, d)} :
              \A e \in r.edges : {e.source, e.target} \subseteq r.nodes
        /\ graph.kind[n] = "function" =>
              (n \in findDeadCode(graph, {"function"}, {}) => getImpactRadius(graph, n, Beyond).nodes = {n})
        /\ LET up == getAncestors(graph, n) IN up # <<>> => n \in getChildren(graph, up[1])

(* However the recursion comes to a node first, along a long way or a      *)
(* short one, callers, callees, impact and DFS stay within their depth,    *)
(* miss no neighbour, and miss nothing when the depth is no bound          *)
(* (WithinDepth).  And what they find agrees (ReadersAgree): "callers and  *)
(* callees stay inverses of each other" (traversal.ts, #774), for          *)
(* neighbours and for all that is reachable; the edges of a call graph and *)
(* of an impact join nodes of the same result; dead code has no impact but *)
(* its members'; a container has its members as children.                  *)
DepthSearches == Beginning => WithinDepth /\ ReadersAgree
=============================================================================
