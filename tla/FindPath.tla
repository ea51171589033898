------------------------------ MODULE FindPath ------------------------------
(***************************************************************************)
(* GraphTraverser.findPath (codegraph/src/graph/traversal.ts), one step    *)
(* per turn of its loop: a queue of paths, each the edges from the start.  *)
(***************************************************************************)
EXTENDS EdgeTable, FiniteSets

CONSTANTS PathQueries,      \* the calls of findPath that are considered
          NoPath

ASSUME PathAssumption ==
    /\ PathQueries \subseteq [from : Node, to : Node, kinds : SUBSET EdgeKind]
    /\ NoPath \notin Seq(Edge)

VARIABLES query,            \* the arguments
          paths,            \* the queue: a node, and the edges that led to it
          passed,           \* the nodes whose edges were followed
          returned, answer  \* what the call returned

pathVars == <<graph, query, paths, passed, returned, answer>>

PathCalled ==
    /\ query \in PathQueries
    /\ paths = <<[node |-> query.from, path |-> <<>>]>>
    /\ passed = {} /\ returned = FALSE /\ answer = NoPath

PathInit == graph \in Graphs /\ PathCalled

(* The edges that a path may go on by, when its node is passed.            *)
Onward(n) == {e \in Rows(graph) : e.source = n /\ e.kind \in query.kinds /\ e.target \notin passed \cup {n}}

(* The longer paths, in any order of the rows.                             *)
Longer(p) ==
    LET E == Onward(p.node)
        ByEdge(e) == [node |-> e.target, path |-> Append(p.path, e)] IN
    {s \in [1..Cardinality(E) -> {ByEdge(e) : e \in E}] : \A e \in E : \E i \in DOMAIN s : s[i] = ByEdge(e)}

(* Mutant: a path is extended before the older ones are.                   *)
BugQueued(more) == more \o Tail(paths)

Queued(more) == Tail(paths) \o more

Arrive ==
    /\ ~returned /\ paths # <<>> /\ Head(paths).node = query.to
    /\ returned' = TRUE /\ answer' = Head(paths).path
    /\ UNCHANGED <<graph, query, paths, passed>>

Drop ==
    /\ ~returned /\ paths # <<>> /\ Head(paths).node \in passed \ {query.to}
    /\ paths' = Tail(paths)
    /\ UNCHANGED <<graph, query, passed, returned, answer>>

Extend ==
    /\ ~returned /\ paths # <<>> /\ Head(paths).node \notin passed \cup {query.to}
    /\ passed' = passed \cup {Head(paths).node}
    /\ \E more \in Longer(Head(paths)) : paths' = Queued(more)
    /\ UNCHANGED <<graph, query, returned, answer>>

GiveUp ==
    /\ ~returned /\ paths = <<>>
    /\ returned' = TRUE
    /\ UNCHANGED <<graph, query, paths, passed, answer>>

Answered == returned /\ UNCHANGED pathVars

PathNext == Arrive \/ Drop \/ Extend \/ GiveUp \/ Answered

PathSpec == PathInit /\ [][PathNext]_pathVars
-----------------------------------------------------------------------------
PathTypeOK ==
    /\ graph \in Graph /\ query \in [from : Node, to : Node, kinds : SUBSET EdgeKind]
    /\ paths \in Seq([node : Node, path : Seq(Edge)])
    /\ passed \subseteq Node /\ returned \in BOOLEAN /\ answer \in Seq(Edge) \cup {NoPath}

(* An edge of the table that findPath may use, from one node to another.   *)
Joined(a, b) == \E e \in Rows(graph) : e.source = a /\ e.target = b /\ e.kind \in query.kinds

(* A way of m edges from the start to a node.                              *)
Route(n, m) ==
    \E p \in [0..m -> Node] : p[0] = query.from /\ p[m] = n /\ \A i \in 0..(m-1) : Joined(p[i], p[i+1])

(* These edges lead from the start to a node, each beginning where the one *)
(* before it ends.                                                         *)
Leads(path, n) ==
    /\ path = <<>> => n = query.from
    /\ path # <<>> => path[1].source = query.from /\ path[Len(path)].target = n
    /\ \A i \in 1..Len(path) : path[i] \in Rows(graph) /\ path[i].kind \in query.kinds
    /\ \A i \in 1..(Len(path)-1) : path[i].target = path[i+1].source

(* What no edge leads out of, with the start and without the goal.         *)
Separates(C) ==
    query.from \in C /\ query.to \notin C /\ \A e \in Rows(graph) : e.source \in C /\ e.kind \in query.kinds => e.target \in C

(* findPath returns a path when there is one, and no way to the goal has   *)
(* fewer edges, whatever the order of the rows; it returns null only when  *)
(* the goal is out of reach.                                               *)
PathIsShortest ==
    returned =>
        IF answer = NoPath THEN \E C \in SUBSET Node : Separates(C)
        ELSE Leads(answer, query.to) /\ \A m \in 0..(Len(answer)-1) : ~Route(query.to, m)
=============================================================================
