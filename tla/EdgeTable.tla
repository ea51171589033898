----------------------------- MODULE EdgeTable -----------------------------
(***************************************************************************)
(* The graph as its readers see it (codegraph/src/db/queries.ts): nodes of *)
(* a kind, and a table of edges.  Foreign keys delete an edge with either  *)
(* of its nodes, so that every row has both.  The queries have no ORDER    *)
(* BY: rows come in any order, here that of the table.                     *)
(***************************************************************************)
EXTENDS Naturals, Sequences

CONSTANTS Node, NodeKind, EdgeKind,
          Graphs        \* the graphs that are considered

VARIABLE graph          \* which no search changes

Edge == [source : Node, target : Node, kind : EdgeKind]

(* A graph: the kind of every node, and its rows.                          *)
Graph == [kind : [Node -> NodeKind], rows : Seq(Edge)]

ASSUME GraphAssumption == Graphs \subseteq Graph

Rows(g) == {g.rows[i] : i \in DOMAIN g.rows}

getOutgoingEdges(g, n, kinds) == SelectSeq(g.rows, LAMBDA e : e.source = n /\ e.kind \in kinds)
getIncomingEdges(g, n, kinds) == SelectSeq(g.rows, LAMBDA e : e.target = n /\ e.kind \in kinds)

(* The other end of an edge.                                               *)
OtherEnd(e, n) == IF e.source = n THEN e.target ELSE e.source

(* The edges a traversal follows from a node.                              *)
Adjacent(g, n, direction, kinds) ==
    {e \in Rows(g) : /\ e.kind \in kinds
                     /\ \/ direction \in {"outgoing", "both"} /\ e.source = n
                        \/ direction \in {"incoming", "both"} /\ e.target = n}
=============================================================================
