---------------------------- MODULE Graph_proofs ----------------------------
(***************************************************************************)
(* Proofs about the graph.  Its readers: breadth-first search is exact,    *)
(* findPath returns a shortest path and findCircularDependencies misses no *)
(* cycle, on every graph and in every order of the rows.  Its writer: the  *)
(* resolver leaves one edge for a reference, on every project.             *)
(***************************************************************************)
EXTENDS Bfs, FindPath, FileCycles, Resolver, FiniteSetTheorems, WellFoundedInduction, TLAPS

(* Induction over the naturals, first order: a set of naturals that is not *)
(* empty has a least element, and what holds of 0 and passes from every    *)
(* number to the next holds up to n.                                       *)
LEMMA LeastElement ==
    ASSUME NEW T \in SUBSET Nat, T # {}
    PROVE  \E x \in T : \A y \in T : x <= y
<1> DEFINE Below(i) == {j \in Nat : j < i}
<1> DEFINE U == {Below(i) : i \in T}
<1>1. U \subseteq FiniteSubsetsOf(Nat)
  <2> SUFFICES ASSUME NEW i \in T PROVE Below(i) \in FiniteSubsetsOf(Nat)
    OBVIOUS
  <2>1. Below(i) \in SUBSET Nat /\ \A s \in Below(i) : s <= i
    OBVIOUS
  <2>2. IsFiniteSet(Below(i))
    <3> HIDE DEF Below
    <3> QED BY <2>1, FS_BoundedSetOfNaturals
  <2> QED BY <2>1, <2>2 DEF FiniteSubsetsOf
<1>2. U # {}
  OBVIOUS
<1>3. PICK x \in U : \A y \in U : <<y, x>> \notin StrictSubsetOrdering(Nat)
  <2> HIDE DEF U
  <2> QED BY <1>1, <1>2, FS_StrictSubsetOrderingWellFounded, WFMin
<1>4. PICK i \in T : x = Below(i)
  OBVIOUS
<1>5. ASSUME NEW j \in T, j < i PROVE FALSE
  <2>1. Below(j) \subseteq Below(i) /\ j \in Below(i) /\ j \notin Below(j)
    BY <1>5
  <2>2. Below(j) \in SUBSET Nat /\ Below(i) \in SUBSET Nat /\ Below(j) \in U
    OBVIOUS
  <2>3. <<Below(j), Below(i)>> \in StrictSubsetOrdering(Nat)
    <3> HIDE DEF Below
    <3> QED BY <2>1, <2>2 DEF StrictSubsetOrdering
  <2> QED BY <1>3, <1>4, <2>2, <2>3
<1> QED BY <1>5
-----------------------------------------------------------------------------
(* What holds of 0 and is kept by adding one holds of every natural up to  *)
(* a bound: the least counterexample would be the successor of an example. *)
LEMMA UpTo ==
    ASSUME NEW n \in Nat, NEW T \in SUBSET (0..n), 0 \in T, \A k \in 0..n : k + 1 \in 0..n /\ k \in T => k + 1 \in T
    PROVE  T = 0..n
<1> SUFFICES ASSUME (0..n) \ T # {} PROVE FALSE
  OBVIOUS
<1>1. (0..n) \ T \in SUBSET Nat
  OBVIOUS
<1>2. PICK x \in (0..n) \ T : \A y \in (0..n) \ T : x <= y
  BY <1>1, LeastElement
<1>3. x # 0 /\ x - 1 \in 0..n /\ x = (x - 1) + 1
  OBVIOUS
<1>4. x - 1 \in T
  BY <1>2, <1>3
<1> QED BY <1>2, <1>3, <1>4

(* A function on 1..n is a sequence of length n.                           *)
LEMMA SequenceOf ==
    ASSUME NEW P, NEW n \in Nat, NEW c \in [1..n -> P]
    PROVE  c \in Seq(P) /\ Len(c) = n
OBVIOUS

(* A queue without its head and with some more.                            *)
LEMMA SplitQueue ==
    ASSUME NEW P, NEW q \in Seq(P), q # <<>>, NEW s \in Seq(P), NEW r, r = Tail(q) \o s
    PROVE  /\ r \in Seq(P) /\ Len(r) = (Len(q) - 1) + Len(s)
           /\ \A k \in 1..(Len(q)-1) : r[k] = q[k+1]
           /\ \A k \in 1..Len(s) : r[(Len(q)-1) + k] = s[k]
<1>1. Tail(q) \in Seq(P) /\ Len(Tail(q)) = Len(q) - 1 /\ Len(q) \in Nat \ {0}
  OBVIOUS
<1>2. \A k \in 1..(Len(q)-1) : Tail(q)[k] = q[k+1]
  OBVIOUS
<1>3. PICK t \in Seq(P) : t = Tail(q)
  BY <1>1
<1>4. r \in Seq(P) /\ Len(r) = Len(t) + Len(s)
  BY <1>3
<1>5. \A k \in 1..Len(t) : r[k] = t[k]
  BY <1>3
<1>6. \A k \in 1..Len(s) : r[Len(t) + k] = s[k]
  BY <1>3
<1> QED BY <1>1, <1>2, <1>3, <1>4, <1>5, <1>6

(* The places of a queue without its head and with some more.              *)
LEMMA Shifted ==
    ASSUME NEW P, NEW q \in Seq(P), q # <<>>, NEW s \in Seq(P), NEW r, r = Tail(q) \o s
    PROVE  /\ r \in Seq(P) /\ Len(r) \in Nat /\ Len(q) \in Nat \ {0} /\ Head(q) = q[1] /\ q[1] \in P
           /\ \A k \in 1..Len(r) : \/ k + 1 \in 2..Len(q) /\ r[k] = q[k+1]
                                   \/ k >= Len(q) /\ \E i \in 1..Len(s) : r[k] = s[i]
           /\ \A i \in 2..Len(q) : i - 1 \in 1..Len(r) /\ r[i-1] = q[i]
           /\ \A i \in 1..Len(s) : \E k \in 1..Len(r) : r[k] = s[i]
<1>1. /\ r \in Seq(P) /\ Len(r) = (Len(q) - 1) + Len(s)
      /\ \A k \in 1..(Len(q)-1) : r[k] = q[k+1]
      /\ \A k \in 1..Len(s) : r[(Len(q)-1) + k] = s[k]
  BY SplitQueue
<1>2. Len(s) \in Nat /\ Len(q) \in Nat /\ Len(q) # 0
  OBVIOUS
<1>3. PICK m \in Nat : m + 1 = Len(q) /\ m = Len(q) - 1
  <2>1. Len(q) - 1 \in Nat /\ (Len(q) - 1) + 1 = Len(q)
    BY <1>2
  <2> QED BY <2>1
<1>4. PICK l \in Nat : l = Len(s)
  BY <1>2
<1>12. /\ Len(r) = m + l
       /\ \A k \in 1..m : r[k] = q[k+1]
       /\ \A k \in 1..l : r[m + k] = s[k]
  BY <1>1, <1>3, <1>4, Zenon
<1>5. ASSUME NEW k \in 1..(m + l)
      PROVE  \/ k + 1 \in 2..(m+1) /\ r[k] = q[k+1]
             \/ k >= m + 1 /\ \E i \in 1..l : r[k] = s[i]
  <2>1. CASE k <= m
    <3>1. k \in 1..m /\ k + 1 \in 2..(m+1)
      BY <2>1
    <3> QED BY <1>12, <3>1, Zenon
  <2>2. CASE k > m
    <3>1. PICK i \in 1..l : k = m + i
      <4>1. k - m \in 1..l /\ k = m + (k - m)
        BY <2>2
      <4> QED BY <4>1, Zenon
    <3>2. r[k] = s[i]
      BY <1>12, <3>1, Zenon
    <3>3. k >= m + 1
      BY <2>2
    <3> QED BY <3>2, <3>3, Zenon
  <2>3. k <= m \/ k > m
    OBVIOUS
  <2> QED BY <2>1, <2>2, <2>3, Zenon
<1>6. ASSUME NEW i \in 2..(m+1) PROVE i - 1 \in 1..(m + l) /\ r[i-1] = q[i]
  <2>1. i - 1 \in 1..m /\ i - 1 \in 1..(m + l) /\ (i - 1) + 1 = i
    OBVIOUS
  <2> QED BY <1>12, <2>1, Zenon
<1>7. ASSUME NEW i \in 1..l PROVE \E k \in 1..(m + l) : r[k] = s[i]
  <2>1. m + i \in 1..(m + l)
    OBVIOUS
  <2> QED BY <1>12, <2>1, Zenon
<1>8. \A k \in 1..Len(r) : \/ k + 1 \in 2..Len(q) /\ r[k] = q[k+1]
                           \/ k >= Len(q) /\ \E i \in 1..Len(s) : r[k] = s[i]
  BY <1>3, <1>4, <1>5, <1>12, Zenon
<1>9. \A i \in 2..Len(q) : i - 1 \in 1..Len(r) /\ r[i-1] = q[i]
  BY <1>3, <1>6, <1>12, Zenon
<1>10. \A i \in 1..Len(s) : \E k \in 1..Len(r) : r[k] = s[i]
  BY <1>4, <1>7, <1>12, Zenon
<1>11. Len(r) \in Nat /\ Len(q) \in Nat \ {0} /\ Head(q) = q[1] /\ q[1] \in P
  <2>1. Len(r) \in Nat
    BY <1>12
  <2>2. Head(q) = q[1] /\ q[1] \in P
    BY <1>2
  <2> QED BY <1>2, <2>1, <2>2
<1> QED BY <1>1, <1>8, <1>9, <1>10, <1>11, Zenon

-----------------------------------------------------------------------------
(* Breadth-first search.                                                   *)
QueueReached ==
    \A i \in 1..Len(queue) : queue[i].depth <= opts.maxDepth /\ Walk(queue[i].node, queue[i].depth)

QueueSorted ==
    \A i, j \in 1..Len(queue) :
        i <= j => queue[i].depth <= queue[j].depth /\ queue[j].depth <= queue[1].depth + 1

VisitedReached == \A n \in visited : depthOf[n] <= opts.maxDepth /\ Walk(n, depthOf[n])

VisitedFirst == \A n \in visited : \A i \in 1..Len(queue) : depthOf[n] <= queue[i].depth

(* The node v is visited or queued, not deeper than d.                     *)
Met(v, d) == \/ v \in visited /\ depthOf[v] <= d
             \/ \E i \in 1..Len(queue) : queue[i].node = v /\ queue[i].depth <= d

Explored == \A u \in visited : depthOf[u] < opts.maxDepth =>
                \A e \in Follow(u) : Met(OtherEnd(e, u), depthOf[u] + 1)

NodesKept == nodes \ {start} = (visited \cup {queue[i].node : i \in 1..Len(queue)}) \ {start}

IInv == /\ TypeOK
        /\ QueueReached /\ QueueSorted /\ VisitedReached /\ VisitedFirst
        /\ Explored /\ Met(start, 0) /\ NodesKept
-----------------------------------------------------------------------------
(* What the edges of a table lead to.                                      *)
LEMMA EdgesOfNode ==
    ASSUME TypeOK, NEW n \in Node, NEW e \in Follow(n)
    PROVE  e \in Edge /\ OtherEnd(e, n) \in Node
<1>1. graph.rows \in Seq(Edge)
  BY DEF TypeOK, Graph
<1>2. e \in Rows(graph)
  BY DEF Follow, Adjacent
<1>3. PICK i \in DOMAIN graph.rows : e = graph.rows[i]
  BY <1>2 DEF Rows
<1>4. e \in Edge
  <2>1. i \in 1..Len(graph.rows)
    BY <1>1
  <2> QED BY <1>1, <1>3, <2>1
<1> QED BY <1>4 DEF Edge, OtherEnd

(* One more edge makes a walk longer.                                      *)
LEMMA WalkFurther ==
    ASSUME TypeOK, NEW n \in Node, NEW m \in Nat, Walk(n, m), NEW e \in Follow(n)
    PROVE  Walk(OtherEnd(e, n), m + 1)
<1>1. PICK p \in [0..m -> Node] :
         /\ p[0] = start /\ p[m] = n
         /\ \A i \in 0..(m-1) : \E f \in Follow(p[i]) : OtherEnd(f, p[i]) = p[i+1]
  BY DEF Walk
<1>2. PICK v : v = OtherEnd(e, n)
  OBVIOUS
<1>3. v \in Node
  BY <1>2, EdgesOfNode
<1>4. PICK q : q = [i \in 0..(m+1) |-> IF i <= m THEN p[i] ELSE v]
  OBVIOUS
<1>5. q \in [0..(m+1) -> Node] /\ q[0] = start /\ q[m] = n /\ q[m+1] = v
  BY <1>1, <1>3, <1>4
<1>6. \A i \in 0..m : \E f \in Follow(q[i]) : OtherEnd(f, q[i]) = q[i+1]
  <2>1. ASSUME NEW i \in 0..(m-1) PROVE \E f \in Follow(q[i]) : OtherEnd(f, q[i]) = q[i+1]
    <3>1. q[i] = p[i] /\ q[i+1] = p[i+1]
      BY <1>4
    <3> QED BY <1>1, <3>1
  <2>2. \E f \in Follow(q[m]) : OtherEnd(f, q[m]) = q[m+1]
    BY <1>2, <1>5
  <2> QED BY <2>1, <2>2
<1>7. Walk(v, m + 1)
  <2>1. 0..((m+1)-1) = 0..m
    OBVIOUS
  <2> QED BY <1>5, <1>6, <2>1, Zenon DEF Walk
<1> QED BY <1>2, <1>7

LEMMA PromisingFinite ==
    ASSUME TypeOK, NEW n \in Node
    PROVE  Cardinality(Promising(n)) \in Nat
<1>1. graph.rows \in Seq(Edge)
  BY DEF TypeOK, Graph
<1>2. Rows(graph) = {graph.rows[i] : i \in 1..Len(graph.rows)}
  BY <1>1 DEF Rows
<1>3. graph.rows \in Surjection(1..Len(graph.rows), Rows(graph))
  BY <1>1, <1>2 DEF Surjection
<1>4. IsFiniteSet(Rows(graph))
  BY <1>1, <1>3, FS_Surjection, FS_Interval
<1>5. Promising(n) \in SUBSET Rows(graph)
  BY DEF Promising, Follow, Adjacent
<1> QED BY <1>4, <1>5, FS_Subset, FS_CardinalityType
-----------------------------------------------------------------------------

(* What a step appends to the queue is one step further than its head.     *)
Appended(s) ==
    /\ s \in Seq(Step) /\ queue' = Tail(queue) \o s
    /\ \A i \in 1..Len(s) :
          /\ Head(queue).depth < opts.maxDepth
          /\ \E e \in Follow(Head(queue).node) : s[i] = StepTo(e, Head(queue).node, Head(queue).depth)
    /\ nodes' = nodes \cup {s[i].node : i \in 1..Len(s)}

LEMMA HeadTyped ==
    ASSUME TypeOK, Running
    PROVE  /\ queue # <<>> /\ Len(queue) \in Nat \ {0} /\ Head(queue) = queue[1] /\ queue[1] \in Step
           /\ queue[1].node \in Node /\ queue[1].depth \in Nat /\ queue[1].edge \in Edge \cup {NoEdge}
<1>1. queue \in Seq(Step) /\ queue # <<>>
  BY DEF TypeOK, Running
<1>2. Len(queue) \in Nat \ {0} /\ Head(queue) = queue[1] /\ queue[1] \in Step
  BY <1>1
<1> QED BY <1>1, <1>2 DEF Step

LEMMA SkipAppends ==
    ASSUME TypeOK, Skip
    PROVE  Appended(<<>>)
<1>1. queue \in Seq(Step) /\ queue # <<>> /\ nodes' = nodes /\ queue' = Tail(queue)
  BY DEF TypeOK, Skip, Running
<1>2. queue' = Tail(queue) \o <<>>
  BY <1>1
<1> QED BY <1>1, <1>2 DEF Appended

LEMMA VisitAppends ==
    ASSUME TypeOK, Visit
    PROVE  \E s : /\ Appended(s)
                  /\ Head(queue).depth < opts.maxDepth =>
                       \A e \in Promising(Head(queue).node) : \E i \in 1..Len(s) :
                          s[i] = StepTo(e, Head(queue).node, Head(queue).depth)
<1> DEFINE n == Head(queue).node
           d == Head(queue).depth
<1>1. queue \in Seq(Step) /\ queue # <<>> /\ n \in Node /\ d \in Nat
  <2>1. Running /\ queue \in Seq(Step)
    BY DEF TypeOK, Visit
  <2> QED BY <2>1, HeadTyped
<1>2. opts.maxDepth \in Nat
  BY DEF TypeOK, Options
<1>3. CASE d >= opts.maxDepth /\ queue' = Tail(queue) /\ UNCHANGED nodes
  <2>1. queue' = Tail(queue) \o <<>>
    BY <1>1, <1>3
  <2>2. Appended(<<>>)
    BY <1>3, <2>1 DEF Appended
  <2> QED BY <1>1, <1>2, <1>3, <2>2
<1>4. ASSUME d < opts.maxDepth, nodes' = nodes \cup {OtherEnd(e, n) : e \in Promising(n)},
             NEW s \in Pushes(n, d), queue' = Rest(s)
      PROVE  /\ Appended(s)
             /\ \A e \in Promising(n) : \E i \in 1..Len(s) : s[i] = StepTo(e, n, d)
  <2>1. PICK c \in Nat : c = Cardinality(Promising(n))
    BY <1>1, PromisingFinite
  <2>2. /\ s \in [1..c -> {StepTo(e, n, d) : e \in Promising(n)}]
        /\ \A e \in Promising(n) : \E i \in 1..c : s[i] = StepTo(e, n, d)
    BY <2>1 DEF Pushes
  <2>3. \A e \in Promising(n) : StepTo(e, n, d) \in Step /\ StepTo(e, n, d).node = OtherEnd(e, n)
    <3> SUFFICES ASSUME NEW e \in Promising(n)
                 PROVE  StepTo(e, n, d) \in Step /\ StepTo(e, n, d).node = OtherEnd(e, n)
      OBVIOUS
    <3>1. e \in Follow(n)
      BY DEF Promising
    <3>2. e \in Edge /\ OtherEnd(e, n) \in Node
      BY <1>1, <3>1, EdgesOfNode
    <3> QED BY <1>1, <3>2 DEF StepTo, Step
  <2>4. s \in Seq(Step) /\ Len(s) = c
    <3>1. s \in [1..c -> Step]
      BY <2>2, <2>3
    <3> QED BY <3>1
  <2>5. \A i \in 1..c : \E e \in Promising(n) : s[i] = StepTo(e, n, d)
    BY <2>2
  <2>6. {OtherEnd(e, n) : e \in Promising(n)} = {s[i].node : i \in 1..c}
    <3>1. \A e \in Promising(n) : \E i \in 1..c : s[i].node = OtherEnd(e, n)
      BY <2>2, <2>3
    <3>2. \A i \in 1..c : \E e \in Promising(n) : s[i].node = OtherEnd(e, n)
      BY <2>5, <2>3
    <3> QED BY <3>1, <3>2
  <2>7. Promising(n) \subseteq Follow(n)
    BY DEF Promising
  <2>8. queue' = Tail(queue) \o s
    BY <1>4 DEF Rest
  <2>9. \A i \in 1..Len(s) : d < opts.maxDepth /\ \E e \in Follow(n) : s[i] = StepTo(e, n, d)
    BY <1>4, <2>4, <2>5, <2>7
  <2>10. nodes' = nodes \cup {s[i].node : i \in 1..Len(s)}
    BY <1>4, <2>4, <2>6
  <2>11. Appended(s)
    BY <2>4, <2>8, <2>9, <2>10 DEF Appended
  <2> QED BY <2>2, <2>4, <2>11
<1>5. \/ d >= opts.maxDepth /\ queue' = Tail(queue) /\ UNCHANGED nodes
      \/ /\ d < opts.maxDepth /\ nodes' = nodes \cup {OtherEnd(e, n) : e \in Promising(n)}
         /\ \E s \in Pushes(n, d) : queue' = Rest(s)
  BY DEF Visit
<1> HIDE DEF n, d
<1> QED BY <1>3, <1>4, <1>5 DEF n, d
-----------------------------------------------------------------------------
(* What Skip and Visit have in common: the head of the queue is visited,   *)
(* for the first time at its own depth, and then its edges are followed.   *)
StepOf(s) ==
    LET n == Head(queue).node
        d == Head(queue).depth IN
    /\ Running /\ Appended(s) /\ UNCHANGED args
    /\ visited' = visited \cup {n}
    /\ \A u \in visited : depthOf'[u] = depthOf[u]
    /\ n \notin visited =>
          /\ depthOf'[n] = d
          /\ d < opts.maxDepth => \A e \in Promising(n) : \E i \in 1..Len(s) : s[i] = StepTo(e, n, d)

LEMMA SkipIsStep ==
    ASSUME TypeOK, Skip
    PROVE  \E s : StepOf(s)
<1>1. Appended(<<>>) /\ Running /\ UNCHANGED args
  BY SkipAppends DEF Skip
<1>2. Head(queue).node \in visited /\ visited' = visited /\ depthOf' = depthOf
  BY DEF Skip
<1>3. StepOf(<<>>)
  BY <1>1, <1>2, Zenon DEF StepOf
<1> QED BY <1>3

LEMMA VisitIsStep ==
    ASSUME TypeOK, Visit
    PROVE  \E s : StepOf(s)
<1>1. PICK s : /\ Appended(s)
               /\ Head(queue).depth < opts.maxDepth =>
                    \A e \in Promising(Head(queue).node) : \E i \in 1..Len(s) :
                       s[i] = StepTo(e, Head(queue).node, Head(queue).depth)
  BY VisitAppends
<1>2. PICK n : n = Head(queue).node
  OBVIOUS
<1>3. PICK d : d = Head(queue).depth
  OBVIOUS
<1>4. /\ Running /\ UNCHANGED args /\ visited' = visited \cup {n} /\ n \notin visited
      /\ depthOf' = [depthOf EXCEPT ![n] = d]
  BY <1>2, <1>3 DEF Visit
<1>5. n \in Node /\ depthOf \in [Node -> Nat] /\ visited \subseteq Node
  BY <1>2, <1>4, HeadTyped DEF TypeOK
<1>6. depthOf'[n] = d /\ \A u \in visited : depthOf'[u] = depthOf[u]
  BY <1>4, <1>5
<1>7. StepOf(s)
  BY <1>1, <1>2, <1>3, <1>4, <1>6, Zenon DEF StepOf
<1> QED BY <1>7

(* The places of the new queue, and what each of them holds.               *)
LEMMA NewQueue ==
    ASSUME TypeOK, Running, NEW s, Appended(s), NEW n, n = queue[1].node, NEW d, d = queue[1].depth
    PROVE  /\ queue' \in Seq(Step) /\ Len(queue') \in Nat
           /\ \A i \in 1..Len(s) :
                 /\ s[i] \in Step /\ s[i].depth = d + 1 /\ d < opts.maxDepth
                 /\ \E e \in Follow(n) : s[i].node = OtherEnd(e, n)
           /\ \A k \in 1..Len(queue') : \/ k + 1 \in 2..Len(queue) /\ queue'[k] = queue[k+1]
                                        \/ k >= Len(queue) /\ \E i \in 1..Len(s) : queue'[k] = s[i]
           /\ \A i \in 2..Len(queue) : i - 1 \in 1..Len(queue') /\ queue'[i-1] = queue[i]
           /\ \A i \in 1..Len(s) : \E k \in 1..Len(queue') : queue'[k] = s[i]
<1>1. /\ queue \in Seq(Step) /\ queue # <<>> /\ Head(queue) = queue[1] /\ Len(queue) \in Nat \ {0}
      /\ n \in Node /\ d \in Nat
  BY HeadTyped DEF TypeOK
<1>2. s \in Seq(Step) /\ queue' = Tail(queue) \o s
  BY DEF Appended
<1>3. ASSUME NEW i \in 1..Len(s)
      PROVE  /\ s[i] \in Step /\ s[i].depth = d + 1 /\ d < opts.maxDepth
             /\ \E e \in Follow(n) : s[i].node = OtherEnd(e, n)
  <2>1. d < opts.maxDepth /\ \E e \in Follow(n) : s[i] = StepTo(e, n, d)
    BY <1>1 DEF Appended
  <2>2. PICK e \in Follow(n) : s[i] = StepTo(e, n, d)
    BY <2>1
  <2>3. s[i].depth = d + 1 /\ s[i].node = OtherEnd(e, n)
    BY <2>2 DEF StepTo
  <2>4. s[i] \in Step
    BY <1>2
  <2> QED BY <2>1, <2>3, <2>4
<1>4. PICK q \in Seq(Step) : q = queue
  BY <1>1
<1>5. PICK r : r = queue'
  OBVIOUS
<1>6. s \in Seq(Step) /\ q # <<>> /\ r = Tail(q) \o s
  BY <1>1, <1>2, <1>4, <1>5
<1>7. r \in Seq(Step) /\ Len(r) \in Nat
  BY <1>6, Shifted
<1>8. \A k \in 1..Len(r) : \/ k + 1 \in 2..Len(q) /\ r[k] = q[k+1]
                           \/ k >= Len(q) /\ \E i \in 1..Len(s) : r[k] = s[i]
  BY <1>6, Shifted
<1>9. \A i \in 2..Len(q) : i - 1 \in 1..Len(r) /\ r[i-1] = q[i]
  BY <1>6, Shifted
<1>10. ASSUME NEW i \in 1..Len(s) PROVE \E k \in 1..Len(r) : r[k] = s[i]
  <2>1. Len(r) = (Len(q) - 1) + Len(s) /\ r[(Len(q)-1) + i] = s[i]
    BY <1>6, SplitQueue
  <2>2. Len(s) \in Nat /\ Len(q) \in Nat /\ Len(q) # 0
    BY <1>6
  <2>3. (Len(q)-1) + i \in 1..Len(r)
    BY <2>1, <2>2
  <2> QED BY <2>1, <2>3, Zenon
<1> QED BY <1>3, <1>4, <1>5, <1>7, <1>8, <1>9, <1>10, Zenon

(* The walks depend on the arguments only.                                 *)
LEMMA SameWalks ==
    ASSUME UNCHANGED args
    PROVE  /\ opts' = opts /\ start' = start /\ graph' = graph
           /\ \A n, m : Walk(n, m)' = Walk(n, m)
           /\ \A n : Follow(n)' = Follow(n)
BY DEF args, Walk, Follow
-----------------------------------------------------------------------------
(* Each part of the invariant through a step.                              *)
LEMMA StepTyped ==
    ASSUME TypeOK, NEW s, StepOf(s)
    PROVE  Head(queue) = queue[1] /\ queue[1].node \in Node /\ queue[1].depth \in Nat /\ Len(queue) \in Nat \ {0}
           /\ Running /\ Appended(s) /\ UNCHANGED args
<1>1. Running /\ Appended(s) /\ UNCHANGED args
  BY DEF StepOf
<1> QED BY <1>1, HeadTyped

LEMMA QueueReachedStep ==
    ASSUME TypeOK, QueueReached, NEW s, StepOf(s)
    PROVE  QueueReached'
<1>1. PICK n \in Node : n = queue[1].node
  BY StepTyped
<1>2. PICK d \in Nat : d = queue[1].depth
  BY StepTyped
<1>3. /\ \A i \in 1..Len(s) :
            /\ s[i] \in Step /\ s[i].depth = d + 1 /\ d < opts.maxDepth
            /\ \E e \in Follow(n) : s[i].node = OtherEnd(e, n)
      /\ \A k \in 1..Len(queue') : \/ k + 1 \in 2..Len(queue) /\ queue'[k] = queue[k+1]
                                   \/ k >= Len(queue) /\ \E i \in 1..Len(s) : queue'[k] = s[i]
  <2>1. Running /\ Appended(s)
    BY StepTyped
  <2>2. \A i \in 1..Len(s) :
           /\ s[i] \in Step /\ s[i].depth = d + 1 /\ d < opts.maxDepth
           /\ \E e \in Follow(n) : s[i].node = OtherEnd(e, n)
    BY <1>1, <1>2, <2>1, NewQueue
  <2>3. \A k \in 1..Len(queue') : \/ k + 1 \in 2..Len(queue) /\ queue'[k] = queue[k+1]
                                  \/ k >= Len(queue) /\ \E i \in 1..Len(s) : queue'[k] = s[i]
    BY <1>1, <1>2, <2>1, NewQueue
  <2> QED BY <2>2, <2>3
<1>4. Len(queue) \in Nat \ {0} /\ opts.maxDepth \in Nat
  BY StepTyped DEF TypeOK, Options
<1>5. Walk(n, d)
  BY <1>1, <1>2, <1>4 DEF QueueReached
<1>6. ASSUME NEW k \in 1..Len(queue')
      PROVE  queue'[k].depth <= opts.maxDepth /\ Walk(queue'[k].node, queue'[k].depth)
  <2>1. CASE k + 1 \in 2..Len(queue) /\ queue'[k] = queue[k+1]
    <3>1. k + 1 \in 1..Len(queue)
      BY <1>4, <2>1
    <3> QED BY <2>1, <3>1 DEF QueueReached
  <2>2. ASSUME NEW i \in 1..Len(s), queue'[k] = s[i]
        PROVE  queue'[k].depth <= opts.maxDepth /\ Walk(queue'[k].node, queue'[k].depth)
    <3>1. PICK e \in Follow(n) : s[i].node = OtherEnd(e, n)
      BY <1>3
    <3>2. Walk(s[i].node, d + 1)
      BY <1>5, <3>1, WalkFurther
    <3>3. s[i].depth = d + 1 /\ d + 1 <= opts.maxDepth
      BY <1>3, <1>4
    <3> QED BY <2>2, <3>2, <3>3
  <2> QED BY <1>3, <2>1, <2>2
<1>7. opts' = opts /\ \A w, m : Walk(w, m)' = Walk(w, m)
  BY SameWalks, StepTyped
<1>8. ASSUME NEW k \in 1..Len(queue')
      PROVE  (queue[k].depth <= opts.maxDepth /\ Walk(queue[k].node, queue[k].depth))'
  <2>1. PICK x : x = queue'[k].node
    OBVIOUS
  <2>2. PICK y : y = queue'[k].depth
    OBVIOUS
  <2>3. y <= opts.maxDepth /\ Walk(x, y)
    BY <1>6, <2>1, <2>2
  <2>4. Walk(x, y)'
    BY <1>7, <2>3
  <2> QED BY <1>7, <2>1, <2>2, <2>3, <2>4
<1> QED BY <1>8 DEF QueueReached

LEMMA QueueSortedStep ==
    ASSUME TypeOK, QueueSorted, NEW s, StepOf(s)
    PROVE  QueueSorted'
<1>1. PICK n \in Node : n = queue[1].node
  BY StepTyped
<1>2. PICK d \in Nat : d = queue[1].depth
  BY StepTyped
<1>3. /\ queue' \in Seq(Step)
      /\ \A i \in 1..Len(s) : s[i].depth = d + 1
      /\ \A k \in 1..Len(queue') : \/ k + 1 \in 2..Len(queue) /\ queue'[k] = queue[k+1]
                                   \/ k >= Len(queue) /\ \E i \in 1..Len(s) : queue'[k] = s[i]
  BY <1>1, <1>2, StepTyped, NewQueue
<1>4. Len(queue) \in Nat \ {0} /\ queue \in Seq(Step) /\ Len(queue') \in Nat
  BY <1>3, StepTyped DEF TypeOK
<1>5. \A k \in 1..Len(queue) : queue[k].depth \in Nat
  <2>1. \A k \in 1..Len(queue) : queue[k] \in Step
    BY <1>4
  <2> QED BY <2>1 DEF Step
<1>6. \A k \in 1..Len(queue) : d <= queue[k].depth /\ queue[k].depth <= d + 1
  BY <1>2, <1>4, <1>5 DEF QueueSorted
<1>7. \A k \in 1..Len(queue') : queue'[k].depth \in Nat /\ d <= queue'[k].depth /\ queue'[k].depth <= d + 1
  <2> SUFFICES ASSUME NEW k \in 1..Len(queue')
               PROVE  queue'[k].depth \in Nat /\ d <= queue'[k].depth /\ queue'[k].depth <= d + 1
    OBVIOUS
  <2>1. CASE k + 1 \in 2..Len(queue) /\ queue'[k] = queue[k+1]
    <3>1. k + 1 \in 1..Len(queue)
      BY <1>4, <2>1
    <3> QED BY <1>5, <1>6, <2>1, <3>1
  <2>2. CASE \E i \in 1..Len(s) : queue'[k] = s[i]
    <3>1. queue'[k].depth = d + 1
      BY <1>3, <2>2
    <3> QED BY <3>1
  <2> QED BY <1>3, <2>1, <2>2
<1>8. ASSUME NEW i \in 1..Len(queue'), NEW j \in 1..Len(queue'), i <= j
      PROVE  queue'[i].depth <= queue'[j].depth /\ queue'[j].depth <= queue'[1].depth + 1
  <2>1. 1 \in 1..Len(queue')
    BY <1>4
  <2>2. queue'[j].depth <= queue'[1].depth + 1
    BY <1>7, <2>1
  <2>3. CASE j + 1 \in 2..Len(queue) /\ queue'[j] = queue[j+1]
    <3>1. i + 1 \in 2..Len(queue) /\ queue'[i] = queue[i+1]
      BY <1>3, <1>4, <1>8, <2>3
    <3>2. queue[i+1].depth <= queue[j+1].depth
      <4>1. i + 1 \in 1..Len(queue) /\ j + 1 \in 1..Len(queue) /\ i + 1 <= j + 1
        BY <1>4, <1>8, <2>3, <3>1
      <4> QED BY <4>1 DEF QueueSorted
    <3> QED BY <2>2, <2>3, <3>1, <3>2
  <2>4. CASE \E l \in 1..Len(s) : queue'[j] = s[l]
    <3>1. queue'[j].depth = d + 1
      BY <1>3, <2>4
    <3> QED BY <1>7, <2>2, <3>1
  <2> QED BY <1>3, <2>3, <2>4
<1> QED BY <1>8 DEF QueueSorted

(* The nodes that are marked after a step: those of before, and the head.  *)
LEMMA Marked ==
    ASSUME TypeOK, QueueSorted, VisitedFirst, NEW s, StepOf(s), NEW n, n = queue[1].node, NEW d, d = queue[1].depth
    PROVE  /\ visited' = visited \cup {n}
           /\ \A u \in visited : u \in Node /\ depthOf'[u] = depthOf[u] /\ depthOf[u] \in Nat /\ depthOf[u] <= d
           /\ n \notin visited => depthOf'[n] = d
           /\ depthOf'[n] \in Nat /\ depthOf'[n] <= d
<1>1. n \in Node /\ d \in Nat /\ Len(queue) \in Nat \ {0} /\ Head(queue) = queue[1]
  BY StepTyped
<1>2. /\ visited' = visited \cup {n} /\ \A u \in visited : depthOf'[u] = depthOf[u]
      /\ n \notin visited => depthOf'[n] = d
  BY <1>1 DEF StepOf
<1>3. \A u \in visited : u \in Node /\ depthOf[u] \in Nat
  BY DEF TypeOK
<1>4. \A u \in visited : depthOf[u] <= d
  BY <1>1 DEF VisitedFirst
<1> QED BY <1>1, <1>2, <1>3, <1>4

LEMMA VisitedReachedStep ==
    ASSUME TypeOK, QueueReached, QueueSorted, VisitedReached, VisitedFirst, NEW s, StepOf(s)
    PROVE  VisitedReached'
<1>1. PICK n \in Node : n = queue[1].node
  BY StepTyped
<1>2. PICK d \in Nat : d = queue[1].depth
  BY StepTyped
<1>3. /\ visited' = visited \cup {n} /\ \A u \in visited : depthOf'[u] = depthOf[u]
      /\ n \notin visited => depthOf'[n] = d
  BY <1>1, <1>2, Marked
<1>4. d <= opts.maxDepth /\ Walk(n, d)
  BY <1>1, <1>2, StepTyped DEF QueueReached
<1>5. \A u \in visited' : depthOf'[u] <= opts.maxDepth /\ Walk(u, depthOf'[u])
  <2> SUFFICES ASSUME NEW u \in visited' PROVE depthOf'[u] <= opts.maxDepth /\ Walk(u, depthOf'[u])
    OBVIOUS
  <2>1. CASE u \in visited
    <3>1. depthOf'[u] = depthOf[u]
      BY <1>3, <2>1
    <3> QED BY <2>1, <3>1 DEF VisitedReached
  <2>2. CASE u \notin visited
    <3>1. u = n /\ depthOf'[u] = d
      BY <1>3, <2>2
    <3> QED BY <1>4, <3>1
  <2> QED BY <2>1, <2>2
<1>6. ASSUME NEW u \in visited'
      PROVE  (depthOf[u] <= opts.maxDepth /\ Walk(u, depthOf[u]))'
  <2>1. PICK y : y = depthOf'[u]
    OBVIOUS
  <2>2. y <= opts.maxDepth /\ Walk(u, y)
    BY <1>5, <2>1
  <2>3. opts' = opts /\ Walk(u, y)'
    BY <2>2, SameWalks, StepTyped
  <2> QED BY <2>1, <2>2, <2>3
<1> QED BY <1>6 DEF VisitedReached

LEMMA VisitedFirstStep ==
    ASSUME TypeOK, QueueSorted, VisitedFirst, NEW s, StepOf(s)
    PROVE  VisitedFirst'
<1>1. PICK n \in Node : n = queue[1].node
  BY StepTyped
<1>2. PICK d \in Nat : d = queue[1].depth
  BY StepTyped
<1>3. /\ \A i \in 1..Len(s) : s[i].depth = d + 1
      /\ \A k \in 1..Len(queue') : \/ k + 1 \in 2..Len(queue) /\ queue'[k] = queue[k+1]
                                   \/ k >= Len(queue) /\ \E i \in 1..Len(s) : queue'[k] = s[i]
  BY <1>1, <1>2, StepTyped, NewQueue
<1>4. Len(queue) \in Nat \ {0} /\ queue \in Seq(Step)
  BY StepTyped DEF TypeOK
<1>5. \A k \in 1..Len(queue) : queue[k].depth \in Nat /\ d <= queue[k].depth
  <2>1. \A k \in 1..Len(queue) : queue[k] \in Step
    BY <1>4
  <2> QED BY <1>2, <1>4, <2>1 DEF Step, QueueSorted
<1>6. \A u \in visited' : depthOf'[u] \in Nat /\ depthOf'[u] <= d
  BY <1>1, <1>2, Marked
<1>7. \A k \in 1..Len(queue') : queue'[k].depth \in Nat /\ d <= queue'[k].depth
  <2> SUFFICES ASSUME NEW k \in 1..Len(queue') PROVE queue'[k].depth \in Nat /\ d <= queue'[k].depth
    OBVIOUS
  <2>1. CASE k + 1 \in 2..Len(queue) /\ queue'[k] = queue[k+1]
    <3>1. k + 1 \in 1..Len(queue)
      BY <1>4, <2>1
    <3> QED BY <1>5, <2>1, <3>1
  <2>2. CASE \E i \in 1..Len(s) : queue'[k] = s[i]
    <3>1. queue'[k].depth = d + 1
      BY <1>3, <2>2
    <3> QED BY <3>1
  <2> QED BY <1>3, <2>1, <2>2
<1>8. \A u \in visited' : \A k \in 1..Len(queue') : depthOf'[u] <= queue'[k].depth
  BY <1>6, <1>7
<1> QED BY <1>8 DEF VisitedFirst

(* What is met stays met.                                                  *)
LEMMA MetKept ==
    ASSUME TypeOK, QueueSorted, VisitedFirst, NEW s, StepOf(s), NEW v, NEW k \in Nat, Met(v, k)
    PROVE  Met(v, k)'
<1>1. PICK n \in Node : n = queue[1].node
  BY StepTyped
<1>2. PICK d \in Nat : d = queue[1].depth
  BY StepTyped
<1>3. /\ visited' = visited \cup {n} /\ \A u \in visited : depthOf'[u] = depthOf[u]
      /\ depthOf'[n] \in Nat /\ depthOf'[n] <= d
  BY <1>1, <1>2, Marked
<1>4. \A i \in 2..Len(queue) : i - 1 \in 1..Len(queue') /\ queue'[i-1] = queue[i]
  BY <1>1, <1>2, StepTyped, NewQueue
<1>5. Len(queue) \in Nat \ {0}
  BY StepTyped
<1>6. \/ v \in visited' /\ depthOf'[v] <= k
      \/ \E i \in 1..Len(queue') : queue'[i].node = v /\ queue'[i].depth <= k
  <2>1. CASE v \in visited /\ depthOf[v] <= k
    BY <1>3, <2>1
  <2>2. ASSUME NEW i \in 1..Len(queue), queue[i].node = v, queue[i].depth <= k
        PROVE  \/ v \in visited' /\ depthOf'[v] <= k
               \/ \E j \in 1..Len(queue') : queue'[j].node = v /\ queue'[j].depth <= k
    <3>1. CASE i = 1
      <4>1. v = n /\ d <= k
        BY <1>1, <1>2, <2>2, <3>1
      <4> QED BY <1>3, <4>1
    <3>2. CASE i # 1
      <4>1. i \in 2..Len(queue)
        BY <1>5, <3>2
      <4> QED BY <1>4, <2>2, <4>1
    <3> QED BY <3>1, <3>2
  <2> QED BY <2>1, <2>2 DEF Met
<1> QED BY <1>6 DEF Met

LEMMA ExploredStep ==
    ASSUME TypeOK, QueueSorted, VisitedFirst, Explored, NEW s, StepOf(s)
    PROVE  Explored'
<1>1. PICK n \in Node : n = queue[1].node
  BY StepTyped
<1>2. PICK d \in Nat : d = queue[1].depth
  BY StepTyped
<1>3. /\ visited' = visited \cup {n}
      /\ \A u \in visited : u \in Node /\ depthOf'[u] = depthOf[u] /\ depthOf[u] \in Nat /\ depthOf[u] <= d
      /\ n \notin visited => depthOf'[n] = d
      /\ depthOf'[n] \in Nat /\ depthOf'[n] <= d
  BY <1>1, <1>2, Marked
<1>4. opts' = opts /\ \A u : Follow(u)' = Follow(u)
  BY SameWalks, StepTyped
<1>5. ASSUME NEW u \in visited', depthOf'[u] < opts.maxDepth, NEW e \in Follow(u)
      PROVE  Met(OtherEnd(e, u), depthOf[u] + 1)'
  <2>1. PICK v : v = OtherEnd(e, u)
    OBVIOUS
  <2>2. CASE u \in visited
    <3>1. PICK k \in Nat : k = depthOf[u] + 1
      BY <1>3, <2>2
    <3>2. depthOf'[u] = depthOf[u]
      BY <1>3, <2>2
    <3>3. Met(v, k)
      BY <1>5, <2>1, <2>2, <3>1, <3>2 DEF Explored
    <3>4. Met(v, k)'
      BY <3>3, MetKept
    <3> QED BY <2>1, <3>1, <3>2, <3>4
  <2>3. CASE u \notin visited
    <3>1. u = n /\ depthOf'[u] = d /\ n \notin visited
      BY <1>3, <2>3
    <3>2. PICK k \in Nat : k = d + 1
      OBVIOUS
    <3>3. \/ v \in visited' /\ depthOf'[v] <= k
          \/ \E i \in 1..Len(queue') : queue'[i].node = v /\ queue'[i].depth <= k
      <4>1. CASE v \in visited'
        <5>1. depthOf'[v] \in Nat /\ depthOf'[v] <= d
          BY <1>3, <4>1
        <5> QED BY <3>2, <4>1, <5>1
      <4>2. CASE v \notin visited'
        <5>1. e \in Promising(n)
          BY <1>3, <1>5, <2>1, <3>1, <4>2 DEF Promising
        <5>2. PICK i \in 1..Len(s) : s[i] = StepTo(e, n, d)
          BY <1>1, <1>2, <1>5, <3>1, <5>1, StepTyped DEF StepOf
        <5>3. s[i].node = v /\ s[i].depth = k
          BY <2>1, <3>1, <3>2, <5>2 DEF StepTo
        <5>4. PICK j \in 1..Len(queue') : queue'[j] = s[i]
          BY <1>1, <1>2, StepTyped, NewQueue
        <5> QED BY <5>3, <5>4
      <4> QED BY <4>1, <4>2
    <3>4. Met(v, k)'
      BY <3>3 DEF Met
    <3> QED BY <2>1, <3>1, <3>2, <3>4
  <2> QED BY <2>2, <2>3
<1>6. \A u \in visited' : depthOf'[u] < opts'.maxDepth =>
         \A e \in Follow(u)' : Met(OtherEnd(e, u), depthOf[u] + 1)'
  BY <1>4, <1>5
<1> QED BY <1>6 DEF Explored

LEMMA NodesKeptStep ==
    ASSUME TypeOK, NodesKept, NEW s, StepOf(s)
    PROVE  NodesKept'
<1>1. PICK n \in Node : n = queue[1].node
  BY StepTyped
<1>2. PICK d \in Nat : d = queue[1].depth
  BY StepTyped
<1>3. /\ \A k \in 1..Len(queue') : \/ k + 1 \in 2..Len(queue) /\ queue'[k] = queue[k+1]
                                   \/ k >= Len(queue) /\ \E i \in 1..Len(s) : queue'[k] = s[i]
      /\ \A i \in 2..Len(queue) : i - 1 \in 1..Len(queue') /\ queue'[i-1] = queue[i]
      /\ \A i \in 1..Len(s) : \E k \in 1..Len(queue') : queue'[k] = s[i]
  BY <1>1, <1>2, StepTyped, NewQueue
<1>4. nodes' = nodes \cup {s[i].node : i \in 1..Len(s)}
  BY StepTyped DEF Appended
<1>5. visited' = visited \cup {n} /\ start' = start /\ Len(queue) \in Nat \ {0}
  BY <1>1, StepTyped, SameWalks DEF StepOf
<1>6. ASSUME NEW k \in 1..Len(queue')
      PROVE  \/ \E i \in 1..Len(queue) : queue'[k].node = queue[i].node
             \/ \E i \in 1..Len(s) : queue'[k].node = s[i].node
  <2>1. CASE k + 1 \in 2..Len(queue) /\ queue'[k] = queue[k+1]
    <3>1. k + 1 \in 1..Len(queue)
      BY <2>1
    <3> QED BY <2>1, <3>1, Zenon
  <2>2. CASE \E i \in 1..Len(s) : queue'[k] = s[i]
    BY <2>2, Zenon
  <2> QED BY <1>3, <2>1, <2>2, Zenon
<1>7. \A i \in 1..Len(queue) : \/ queue[i].node = n
                               \/ \E k \in 1..Len(queue') : queue'[k].node = queue[i].node
  <2> SUFFICES ASSUME NEW i \in 1..Len(queue), i # 1
               PROVE  \E k \in 1..Len(queue') : queue'[k].node = queue[i].node
    BY <1>1
  <2>1. i \in 2..Len(queue)
    BY <1>5
  <2> QED BY <1>3, <2>1
<1>8. \A i \in 1..Len(s) : \E k \in 1..Len(queue') : queue'[k].node = s[i].node
  BY <1>3
<1>9. \E i \in 1..Len(queue) : queue[i].node = n
  BY <1>1, <1>5
<1>10. /\ visited \cup {queue[i].node : i \in 1..Len(queue)} \cup {s[i].node : i \in 1..Len(s)}
             \subseteq visited' \cup {queue'[i].node : i \in 1..Len(queue')}
       /\ visited' \cup {queue'[i].node : i \in 1..Len(queue')}
             \subseteq visited \cup {queue[i].node : i \in 1..Len(queue)} \cup {s[i].node : i \in 1..Len(s)}
  <2>1. {queue[i].node : i \in 1..Len(queue)} \subseteq {n} \cup {queue'[i].node : i \in 1..Len(queue')}
    BY <1>7
  <2>2. {s[i].node : i \in 1..Len(s)} \subseteq {queue'[i].node : i \in 1..Len(queue')}
    BY <1>8
  <2>3. n \in {queue[i].node : i \in 1..Len(queue)}
    BY <1>9
  <2>4. {queue'[i].node : i \in 1..Len(queue')}
           \subseteq {queue[i].node : i \in 1..Len(queue)} \cup {s[i].node : i \in 1..Len(s)}
    BY <1>6
  <2> QED BY <1>5, <2>1, <2>2, <2>3, <2>4
<1>11. visited \cup {queue[i].node : i \in 1..Len(queue)} \cup {s[i].node : i \in 1..Len(s)}
         = visited' \cup {queue'[i].node : i \in 1..Len(queue')}
  BY <1>10
<1> QED BY <1>4, <1>5, <1>11 DEF NodesKept
LEMMA TypeStep ==
    ASSUME TypeOK, NEW s, StepOf(s), Skip \/ Visit
    PROVE  TypeOK'
<1>1. PICK n \in Node : n = queue[1].node
  BY StepTyped
<1>2. PICK d \in Nat : d = queue[1].depth
  BY StepTyped
<1>3. /\ queue' \in Seq(Step) /\ Head(queue) = queue[1] /\ queue[1].edge \in Edge \cup {NoEdge}
      /\ \A i \in 1..Len(s) : s[i] \in Step
  BY <1>1, <1>2, StepTyped, NewQueue, HeadTyped
<1>4. nodes' = nodes \cup {s[i].node : i \in 1..Len(s)}
  BY StepTyped DEF Appended
<1>5. nodes' \subseteq Node
  <2>1. \A i \in 1..Len(s) : s[i].node \in Node
    BY <1>3 DEF Step
  <2> QED BY <1>4, <2>1 DEF TypeOK
<1>6. visited' \subseteq Node
  BY <1>1, <1>3 DEF StepOf, TypeOK
<1>7. edges' \subseteq Edge /\ depthOf' \in [Node -> Nat]
  <2>1. CASE Skip
    BY <2>1 DEF Skip, TypeOK
  <2>2. CASE Visit
    <3>1. edges' = edges \cup ({queue[1].edge} \ {NoEdge})
      BY <1>3, <2>2 DEF Visit
    <3>2. depthOf' = [depthOf EXCEPT ![n] = d]
      BY <1>1, <1>2, <1>3, <2>2 DEF Visit
    <3> QED BY <1>3, <3>1, <3>2 DEF TypeOK
  <2> QED BY <2>1, <2>2
<1>8. graph' = graph /\ start' = start /\ opts' = opts
  BY SameWalks, StepTyped
<1> QED BY <1>3, <1>5, <1>6, <1>7, <1>8 DEF TypeOK

LEMMA InvInit ==
    ASSUME Init
    PROVE  IInv
<1>1. graph \in Graph /\ start \in Node /\ opts \in Options
  BY BfsAssumption, GraphAssumption DEF Init
<1>2. PICK h : h = [node |-> start, edge |-> NoEdge, depth |-> 0]
  OBVIOUS
<1>3. h \in Step /\ h.node = start /\ h.depth = 0
  BY <1>1, <1>2 DEF Step
<1>4. queue = <<h>>
  BY <1>2 DEF Init
<1>5. queue \in Seq(Step) /\ Len(queue) = 1 /\ \A i \in 1..Len(queue) : queue[i] = h
  BY <1>3, <1>4
<1>6. /\ visited = {} /\ nodes \subseteq {start} /\ edges = {} /\ depthOf = [n \in Node |-> 0]
  BY DEF Init
<1>7. TypeOK
  BY <1>1, <1>5, <1>6 DEF TypeOK
<1>8. Walk(start, 0)
  <2>1. PICK p : p = [i \in 0..0 |-> start]
    OBVIOUS
  <2>2. p \in [0..0 -> Node] /\ p[0] = start
    BY <1>1, <2>1
  <2>3. 0..(0-1) = {}
    OBVIOUS
  <2> QED BY <2>2, <2>3 DEF Walk
<1>9. opts.maxDepth \in Nat
  BY <1>1 DEF Options
<1>10. QueueReached
  BY <1>3, <1>5, <1>8, <1>9 DEF QueueReached
<1>11. QueueSorted
  BY <1>3, <1>5 DEF QueueSorted
<1>12. VisitedReached /\ VisitedFirst /\ Explored
  BY <1>6 DEF VisitedReached, VisitedFirst, Explored
<1>13. Met(start, 0)
  <2>1. 1 \in 1..Len(queue) /\ queue[1].node = start /\ queue[1].depth <= 0
    BY <1>3, <1>5
  <2> QED BY <2>1 DEF Met
<1>14. NodesKept
  <2>1. {queue[i].node : i \in 1..Len(queue)} = {start}
    BY <1>3, <1>5
  <2> QED BY <1>6, <2>1 DEF NodesKept
<1> QED BY <1>7, <1>10, <1>11, <1>12, <1>13, <1>14 DEF IInv

LEMMA InvStep ==
    ASSUME IInv, [Next]_vars
    PROVE  IInv'
<1>1. CASE UNCHANGED vars
  <2>1. /\ UNCHANGED args /\ nodes' = nodes /\ edges' = edges /\ visited' = visited /\ depthOf' = depthOf
        /\ queue' = queue /\ opts' = opts /\ start' = start /\ graph' = graph
    BY <1>1 DEF vars, args
  <2>2. TypeOK' /\ QueueSorted' /\ VisitedFirst' /\ NodesKept' /\ Met(start, 0)'
    BY <2>1 DEF IInv, TypeOK, QueueSorted, VisitedFirst, NodesKept, Met
  <2>3. QueueReached'
    BY <2>1, SameWalks DEF IInv, QueueReached
  <2>4. VisitedReached'
    BY <2>1, SameWalks DEF IInv, VisitedReached
  <2>5. Explored'
    BY <2>1, SameWalks DEF IInv, Explored, Met
  <2> QED BY <2>2, <2>3, <2>4, <2>5 DEF IInv
<1>2. CASE Skip \/ Visit
  <2>1. PICK s : StepOf(s)
    BY <1>2, SkipIsStep, VisitIsStep DEF IInv
  <2>2. TypeOK /\ QueueReached /\ QueueSorted /\ VisitedReached /\ VisitedFirst /\ Explored /\ Met(start, 0) /\ NodesKept
    BY DEF IInv
  <2>3. TypeOK'
    BY <1>2, <2>1, <2>2, TypeStep
  <2>4. QueueReached' /\ QueueSorted'
    BY <2>1, <2>2, QueueReachedStep, QueueSortedStep
  <2>5. VisitedReached' /\ VisitedFirst'
    BY <2>1, <2>2, VisitedReachedStep, VisitedFirstStep
  <2>6. Explored' /\ NodesKept'
    BY <2>1, <2>2, ExploredStep, NodesKeptStep
  <2>7. Met(start, 0)'
    <3>1. PICK b : b = start
      OBVIOUS
    <3>2. Met(b, 0)'
      BY <2>1, <2>2, <3>1, MetKept
    <3>3. start' = b
      BY <2>1, <2>2, <3>1, StepTyped, SameWalks
    <3> QED BY <3>2, <3>3 DEF Met
  <2> QED BY <2>3, <2>4, <2>5, <2>6, <2>7 DEF IInv
<1> QED BY <1>1, <1>2 DEF Next, Return

(* When the queue is empty, what was visited is closed under the edges     *)
(* that it may follow, up to the depth; a first node of a walk that was    *)
(* missed, or met too deep, cannot exist.                                  *)
LEMMA NothingMissed ==
    ASSUME IInv, queue = <<>>, NEW n \in Node, NEW m \in 0..opts.maxDepth, Walk(n, m)
    PROVE  n \in visited /\ depthOf[n] <= m
<1>1. PICK p \in [0..m -> Node] :
         /\ p[0] = start /\ p[m] = n
         /\ \A i \in 0..(m-1) : \E f \in Follow(p[i]) : OtherEnd(f, p[i]) = p[i+1]
  BY DEF Walk
<1>2. TypeOK /\ Explored /\ Met(start, 0)
  BY DEF IInv
<1>3. opts.maxDepth \in Nat /\ m \in Nat /\ m <= opts.maxDepth /\ depthOf \in [Node -> Nat]
  BY <1>2 DEF TypeOK, Options
<1>4. \A v, k : Met(v, k) => v \in visited /\ depthOf[v] <= k
  <2>1. 1..Len(queue) = {}
    OBVIOUS
  <2> QED BY <2>1 DEF Met
<1> DEFINE Missed == {i \in 0..m : ~(p[i] \in visited /\ depthOf[p[i]] <= i)}
<1>5. ASSUME Missed # {} PROVE FALSE
  <2>1. Missed \in SUBSET Nat
    BY <1>3
  <2>2. PICK i \in Missed : \A j \in Missed : i <= j
    <3> HIDE DEF Missed
    <3> QED BY <1>5, <2>1, LeastElement
  <2>3. i \in 0..m /\ ~(p[i] \in visited /\ depthOf[p[i]] <= i)
    OBVIOUS
  <2>4. i # 0
    BY <1>1, <1>2, <1>4, <2>3
  <2>5. PICK j \in 0..(m-1) : i = j + 1
    BY <1>3, <2>3, <2>4
  <2>6. p[j] \in visited /\ depthOf[p[j]] <= j
    BY <1>3, <2>2, <2>5
  <2>7. PICK f \in Follow(p[j]) : OtherEnd(f, p[j]) = p[i]
    BY <1>1, <2>5
  <2>8. p[j] \in Node /\ depthOf[p[j]] \in Nat /\ depthOf[p[j]] < opts.maxDepth
    BY <1>1, <1>3, <2>5, <2>6
  <2>9. p[i] \in visited /\ depthOf[p[i]] <= depthOf[p[j]] + 1
    BY <1>2, <1>4, <2>6, <2>7, <2>8 DEF Explored
  <2>10. depthOf[p[i]] \in Nat
    BY <1>1, <1>3, <2>3
  <2> QED BY <2>3, <2>5, <2>6, <2>8, <2>9, <2>10
<1> QED BY <1>1, <1>3, <1>5

LEMMA InvExact ==
    ASSUME IInv
    PROVE  SearchIsExact
<1>1. VisitedReached /\ NodesKept
  BY DEF IInv
<1>2. ASSUME queue = <<>> PROVE nodes \ {start} = visited \ {start}
  <2>1. {queue[i].node : i \in 1..Len(queue)} = {}
    BY <1>2
  <2> QED BY <1>1, <2>1 DEF NodesKept
<1>3. ASSUME queue = <<>>
      PROVE  \A n \in Node : \A m \in 0..opts.maxDepth : Walk(n, m) => n \in visited /\ depthOf[n] <= m
  BY <1>3, NothingMissed
<1> QED BY <1>1, <1>2, <1>3 DEF SearchIsExact, VisitedReached

(* Breadth-first search is exact (traverseBFS): whatever the graph, the    *)
(* order of its rows and the options, a node is visited at the end of a    *)
(* walk of the depth it gets, and a search that the limit did not stop has *)
(* visited all that is within its depth, by no longer way than the         *)
(* shortest.                                                               *)
THEOREM SearchIsExactHolds == Spec => []SearchIsExact
<1>1. Init => IInv
  BY InvInit
<1>2. IInv /\ [Next]_vars => IInv'
  BY InvStep
<1>3. IInv => SearchIsExact
  BY InvExact
<1> QED BY <1>1, <1>2, <1>3, PTL DEF Spec
-----------------------------------------------------------------------------
(* The search for a path.                                                  *)
Item == [node : Node, path : Seq(Edge)]

(* Every path in the queue leads to its node.                              *)
PathsLead == \A i \in 1..Len(paths) : Leads(paths[i].path, paths[i].node)

(* The queue is sorted by length, and holds two lengths at most.           *)
PathsSorted ==
    \A i, j \in 1..Len(paths) :
        i <= j => /\ Len(paths[i].path) <= Len(paths[j].path)
                  /\ Len(paths[j].path) <= Len(paths[1].path) + 1

Awaited(n) == \E i \in 1..Len(paths) : paths[i].node = n
AwaitedBy(n, m) == \E i \in 1..Len(paths) : paths[i].node = n /\ Len(paths[i].path) <= m

(* What a way that is not longer than the first path of the queue leads to *)
(* was passed, or is queued by a path that is not longer.                  *)
NearMet ==
    paths # <<>> =>
        \A m \in 0..Len(paths[1].path) : \A n \in Node : Route(n, m) => n \in passed \/ AwaitedBy(n, m)

EdgesFollowed == \A a \in passed : \A b \in Node : Joined(a, b) => b \in passed \/ Awaited(b)

StartMet == query.from \in passed \/ Awaited(query.from)

Search == PathsLead /\ PathsSorted /\ NearMet /\ EdgesFollowed /\ StartMet /\ query.to \notin passed

PathInv == PathTypeOK /\ (~returned => Search /\ answer = NoPath) /\ PathIsShortest
-----------------------------------------------------------------------------
(* A way of m+1 edges is one of m edges and one more.                      *)
LEMMA RouteBack ==
    ASSUME NEW n \in Node, NEW m \in Nat, Route(n, m + 1)
    PROVE  \E a \in Node : Route(a, m) /\ Joined(a, n)
<1>1. PICK p \in [0..(m+1) -> Node] :
         p[0] = query.from /\ p[m+1] = n /\ \A i \in 0..((m+1)-1) : Joined(p[i], p[i+1])
  BY DEF Route
<1>2. PICK q : q = [i \in 0..m |-> p[i]]
  OBVIOUS
<1>3. q \in [0..m -> Node] /\ q[0] = query.from /\ q[m] = p[m] /\ p[m] \in Node
  BY <1>1, <1>2
<1>4. ASSUME NEW i \in 0..(m-1) PROVE Joined(q[i], q[i+1])
  <2>1. i \in 0..((m+1)-1) /\ q[i] = p[i] /\ q[i+1] = p[i+1]
    BY <1>2
  <2> QED BY <1>1, <2>1
<1>5. Route(p[m], m)
  BY <1>3, <1>4, Zenon DEF Route
<1>6. Joined(p[m], n)
  <2>1. m \in 0..((m+1)-1)
    OBVIOUS
  <2> QED BY <1>1, <2>1
<1> QED BY <1>3, <1>5, <1>6

(* A way of no edges stays at the start.                                   *)
LEMMA RouteNone ==
    ASSUME NEW n, Route(n, 0)
    PROVE  n = query.from
BY DEF Route

(* A path with one more edge.                                              *)
LEMMA LeadsFurther ==
    ASSUME PathTypeOK, NEW path \in Seq(Edge), NEW n, Leads(path, n),
           NEW e \in Rows(graph), e \in Edge, e.source = n, e.kind \in query.kinds
    PROVE  Leads(Append(path, e), e.target) /\ Len(Append(path, e)) = Len(path) + 1 /\ Append(path, e) \in Seq(Edge)
<1>1. PICK q : q = Append(path, e)
  OBVIOUS
<1>2. PICK l \in Nat : l = Len(path)
  OBVIOUS
<1>3. q \in Seq(Edge) /\ Len(q) = l + 1 /\ q[l+1] = e /\ \A i \in 1..l : q[i] = path[i]
  BY <1>1, <1>2
<1>4. q # <<>>
  BY <1>3
<1>5. q[1].source = query.from
  <2>1. CASE l = 0
    <3>1. path = <<>>
      <4>1. Len(path) = 0
        BY <1>2, <2>1
      <4> QED BY <4>1
    <3>2. n = query.from
      BY <3>1 DEF Leads
    <3> QED BY <1>3, <2>1, <3>2
  <2>2. CASE l # 0
    <3>1. path # <<>> /\ 1 \in 1..l
      BY <1>2, <2>2
    <3> QED BY <1>3, <3>1 DEF Leads
  <2> QED BY <2>1, <2>2
<1>6. ASSUME NEW i \in 1..(l+1) PROVE q[i] \in Rows(graph) /\ q[i].kind \in query.kinds
  <2>1. CASE i = l + 1
    BY <1>3, <2>1
  <2>2. CASE i # l + 1
    <3>1. i \in 1..l
      BY <2>2
    <3> QED BY <1>2, <1>3, <3>1 DEF Leads
  <2> QED BY <2>1, <2>2
<1>7. ASSUME NEW i \in 1..l PROVE q[i].target = q[i+1].source
  <2>1. CASE i = l
    <3>1. path # <<>> /\ q[i] = path[Len(path)] /\ q[i+1] = e
      BY <1>2, <1>3, <2>1
    <3> QED BY <3>1 DEF Leads
  <2>2. CASE i # l
    <3>1. i \in 1..(Len(path)-1) /\ i + 1 \in 1..l
      BY <1>2, <2>2
    <3> QED BY <1>3, <3>1 DEF Leads
  <2> QED BY <2>1, <2>2
<1>8. 1..(Len(q)-1) = 1..l /\ 1..Len(q) = 1..(l+1) /\ q[Len(q)].target = e.target
  BY <1>3
<1>9. Leads(q, e.target)
  BY <1>4, <1>5, <1>6, <1>7, <1>8, Zenon DEF Leads
<1> QED BY <1>1, <1>2, <1>3, <1>9

(* The table is a finite set of edges.                                     *)
LEMMA RowsAreEdges ==
    ASSUME PathTypeOK
    PROVE  Rows(graph) \subseteq Edge /\ IsFiniteSet(Rows(graph))
<1>1. graph.rows \in Seq(Edge)
  BY DEF PathTypeOK, Graph
<1>2. Rows(graph) = {graph.rows[i] : i \in 1..Len(graph.rows)}
  BY <1>1 DEF Rows
<1>3. graph.rows \in Surjection(1..Len(graph.rows), Rows(graph))
  BY <1>1, <1>2 DEF Surjection
<1>4. IsFiniteSet(Rows(graph))
  BY <1>1, <1>3, FS_Surjection, FS_Interval
<1> QED BY <1>1, <1>2, <1>4
-----------------------------------------------------------------------------
(* What Drop and Extend have in common: the head of the queue is passed,   *)
(* and the paths that go on from it are appended.                          *)
Grown(s) ==
    /\ s \in Seq(Item) /\ paths # <<>> /\ paths' = Tail(paths) \o s /\ graph' = graph /\ query' = query
    /\ paths[1].node # query.to /\ passed' = passed \cup {paths[1].node}
    /\ \A i \in 1..Len(s) : \E e \in Rows(graph) :
          /\ e.source = paths[1].node /\ e.kind \in query.kinds
          /\ s[i] = [node |-> e.target, path |-> Append(paths[1].path, e)]
    /\ paths[1].node \notin passed =>
          \A b \in Node : Joined(paths[1].node, b) => b \in passed' \/ \E i \in 1..Len(s) : s[i].node = b

(* The head of the queue is a node with the edges that led to it.          *)
LEMMA HeadItem ==
    ASSUME PathTypeOK, paths # <<>>
    PROVE  /\ Head(paths) = paths[1] /\ paths[1] \in Item /\ paths[1].node \in Node /\ paths[1].path \in Seq(Edge)
           /\ Len(paths[1].path) \in Nat
<1>1. paths \in Seq(Item) /\ paths # <<>>
  BY DEF PathTypeOK, Item
<1>2. Head(paths) = paths[1] /\ paths[1] \in Item
  BY <1>1
<1>3. paths[1].node \in Node /\ paths[1].path \in Seq(Edge)
  BY <1>2 DEF Item
<1> QED BY <1>2, <1>3

(* A head that was passed goes, and nothing is appended.                   *)
LEMMA DropGrows ==
    ASSUME PathTypeOK, Drop
    PROVE  Grown(<<>>)
<1>1. /\ paths # <<>> /\ Head(paths).node \in passed /\ Head(paths).node # query.to
      /\ paths' = Tail(paths) /\ graph' = graph /\ query' = query /\ passed' = passed
  BY DEF Drop
<1>2. Head(paths) = paths[1] /\ paths \in Seq(Item)
  BY <1>1, HeadItem DEF PathTypeOK, Item
<1>3. paths' = Tail(paths) \o <<>> /\ <<>> \in Seq(Item) /\ Len(<<>>) = 0
  BY <1>1, <1>2
<1> QED BY <1>1, <1>2, <1>3 DEF Grown

(* A head that is passed now makes place for its longer paths.             *)
LEMMA ExtendGrows ==
    ASSUME PathTypeOK, Extend
    PROVE  \E s : Grown(s)
<1>1. /\ paths # <<>> /\ Head(paths).node \notin passed /\ Head(paths).node # query.to
      /\ graph' = graph /\ query' = query /\ passed' = passed \cup {Head(paths).node}
  BY DEF Extend
<1>2. PICK h : h = Head(paths)
  OBVIOUS
<1>3. h = paths[1] /\ h \in Item /\ h.node \in Node /\ h.path \in Seq(Edge)
  BY <1>1, <1>2, HeadItem
<1>4. PICK s \in Longer(h) : paths' = Queued(s)
  BY <1>2 DEF Extend
<1>5. PICK E : E = Onward(h.node)
  OBVIOUS
<1>6. E \subseteq Rows(graph) /\ E \subseteq Edge /\ Cardinality(E) \in Nat
  <2>1. E \subseteq Rows(graph)
    BY <1>5 DEF Onward
  <2> QED BY <2>1, RowsAreEdges, FS_Subset, FS_CardinalityType
<1>7. PICK c \in Nat : c = Cardinality(E)
  BY <1>6
<1> DEFINE ByEdge(e) == [node |-> e.target, path |-> Append(h.path, e)]
<1>8. s \in [1..c -> {ByEdge(e) : e \in E}] /\ \A e \in E : \E i \in 1..c : s[i] = ByEdge(e)
  BY <1>4, <1>5, <1>7 DEF Longer
<1>9. \A e \in E : ByEdge(e) \in Item
  <2> SUFFICES ASSUME NEW e \in E PROVE ByEdge(e) \in Item
    OBVIOUS
  <2>1. e \in Edge /\ e.target \in Node
    BY <1>6 DEF Edge
  <2>2. Append(h.path, e) \in Seq(Edge)
    BY <1>3, <2>1
  <2> QED BY <2>1, <2>2 DEF Item
<1>10. s \in Seq(Item) /\ Len(s) = c
  <2>1. s \in [1..c -> Item]
    BY <1>8, <1>9
  <2> QED BY <2>1
<1>11. \A i \in 1..c : \E e \in E : s[i] = ByEdge(e)
  BY <1>8
<1>12. \A e \in E : e.source = h.node /\ e.kind \in query.kinds
  BY <1>5 DEF Onward
<1>13. ASSUME NEW b \in Node, Joined(h.node, b), b \notin passed \cup {h.node}
       PROVE  \E i \in 1..c : s[i].node = b
  <2>1. PICK e \in Rows(graph) : e.source = h.node /\ e.target = b /\ e.kind \in query.kinds
    BY <1>13 DEF Joined
  <2>2. e \in E
    BY <1>5, <1>13, <2>1 DEF Onward
  <2>3. PICK i \in 1..c : s[i] = ByEdge(e)
    BY <1>8, <2>2
  <2> QED BY <2>1, <2>3
<1>14. paths' = Tail(paths) \o s
  BY <1>4 DEF Queued
<1>15. \A i \in 1..Len(s) : \E e \in Rows(graph) :
          /\ e.source = paths[1].node /\ e.kind \in query.kinds
          /\ s[i] = [node |-> e.target, path |-> Append(paths[1].path, e)]
  BY <1>3, <1>6, <1>10, <1>11, <1>12
<1>16. Grown(s)
  BY <1>1, <1>2, <1>3, <1>10, <1>13, <1>14, <1>15 DEF Grown
<1> QED BY <1>16

(* The places of the new queue, and what each of them holds.               *)
LEMMA NewPaths ==
    ASSUME PathTypeOK, PathsLead, NEW s, Grown(s)
    PROVE  /\ paths' \in Seq(Item) /\ Len(paths') \in Nat /\ Len(paths) \in Nat \ {0}
           /\ paths[1].node \in Node /\ Len(paths[1].path) \in Nat
           /\ \A i \in 1..Len(s) : Leads(s[i].path, s[i].node) /\ Len(s[i].path) = Len(paths[1].path) + 1
           /\ \A k \in 1..Len(paths') : \/ k + 1 \in 2..Len(paths) /\ paths'[k] = paths[k+1]
                                        \/ k >= Len(paths) /\ \E i \in 1..Len(s) : paths'[k] = s[i]
           /\ \A i \in 2..Len(paths) : i - 1 \in 1..Len(paths') /\ paths'[i-1] = paths[i]
           /\ \A i \in 1..Len(s) : \E k \in 1..Len(paths') : paths'[k] = s[i]
<1>1. paths \in Seq(Item) /\ paths # <<>> /\ s \in Seq(Item)
  BY DEF PathTypeOK, Item, Grown
<1>2. PICK r : r = paths'
  OBVIOUS
<1>3. r = Tail(paths) \o s
  BY <1>2 DEF Grown
<1>4. /\ r \in Seq(Item) /\ Len(r) \in Nat /\ Len(paths) \in Nat \ {0}
      /\ \A k \in 1..Len(r) : \/ k + 1 \in 2..Len(paths) /\ r[k] = paths[k+1]
                              \/ k >= Len(paths) /\ \E i \in 1..Len(s) : r[k] = s[i]
      /\ \A i \in 2..Len(paths) : i - 1 \in 1..Len(r) /\ r[i-1] = paths[i]
      /\ \A i \in 1..Len(s) : \E k \in 1..Len(r) : r[k] = s[i]
  <2>1. PICK q \in Seq(Item) : q = paths
    BY <1>1
  <2>2. q # <<>> /\ r = Tail(q) \o s
    BY <1>1, <1>3, <2>1
  <2> HIDE DEF Item
  <2>3. r \in Seq(Item) /\ Len(r) \in Nat /\ Len(q) \in Nat \ {0}
    BY <1>1, <2>2, Shifted
  <2>4. \A k \in 1..Len(r) : \/ k + 1 \in 2..Len(q) /\ r[k] = q[k+1]
                             \/ k >= Len(q) /\ \E i \in 1..Len(s) : r[k] = s[i]
    BY <1>1, <2>2, Shifted
  <2>5. \A i \in 2..Len(q) : i - 1 \in 1..Len(r) /\ r[i-1] = q[i]
    BY <1>1, <2>2, Shifted
  <2>6. \A i \in 1..Len(s) : \E k \in 1..Len(r) : r[k] = s[i]
    BY <1>1, <2>2, Shifted
  <2> QED BY <2>1, <2>3, <2>4, <2>5, <2>6, Zenon
<1>5. /\ paths[1].node \in Node /\ paths[1].path \in Seq(Edge) /\ Len(paths[1].path) \in Nat
  BY <1>1, HeadItem
<1>6. Leads(paths[1].path, paths[1].node)
  <2>1. 1 \in 1..Len(paths)
    BY <1>4
  <2> QED BY <2>1 DEF PathsLead
<1>7. ASSUME NEW i \in 1..Len(s)
      PROVE  Leads(s[i].path, s[i].node) /\ Len(s[i].path) = Len(paths[1].path) + 1
  <2>1. PICK e \in Rows(graph) :
          /\ e.source = paths[1].node /\ e.kind \in query.kinds
          /\ s[i] = [node |-> e.target, path |-> Append(paths[1].path, e)]
    BY DEF Grown
  <2>2. e \in Edge
    BY RowsAreEdges
  <2>3. PICK path \in Seq(Edge) : path = paths[1].path
    BY <1>5
  <2>4. Leads(path, paths[1].node)
    BY <1>6, <2>3
  <2>5. Leads(Append(path, e), e.target) /\ Len(Append(path, e)) = Len(path) + 1
    BY <2>1, <2>2, <2>4, LeadsFurther
  <2>6. s[i].path = Append(path, e) /\ s[i].node = e.target
    BY <2>1, <2>3
  <2> QED BY <2>3, <2>5, <2>6, Zenon
<1> QED BY <1>2, <1>4, <1>5, <1>7, Zenon

(* The ways depend on the arguments only.                                  *)
LEMMA SameWays ==
    ASSUME graph' = graph, query' = query
    PROVE  /\ \A n, m : Route(n, m)' = Route(n, m)
           /\ \A a, b : Joined(a, b)' = Joined(a, b)
<1>1. \A a, b : Joined(a, b)' = Joined(a, b)
  BY DEF Joined
<1>2. \A n, m : Route(n, m)' = Route(n, m)
  BY <1>1 DEF Route
<1> QED BY <1>1, <1>2

(* What a queue of paths holds.                                            *)
LEMMA ItemsType ==
    ASSUME NEW q \in Seq(Item)
    PROVE  \A i \in 1..Len(q) : q[i].node \in Node /\ q[i].path \in Seq(Edge) /\ Len(q[i].path) \in Nat
<1> SUFFICES ASSUME NEW i \in 1..Len(q)
             PROVE  q[i].node \in Node /\ q[i].path \in Seq(Edge) /\ Len(q[i].path) \in Nat
  OBVIOUS
<1>1. q[i] \in Item
  OBVIOUS
<1>2. q[i].node \in Node /\ q[i].path \in Seq(Edge)
  BY <1>1 DEF Item
<1> QED BY <1>2

(* What was queued is passed or still queued, by a path as short.          *)
LEMMA StillAwaited ==
    ASSUME PathTypeOK, PathsLead, NEW s, Grown(s)
    PROVE  /\ \A n : Awaited(n) => n \in passed' \/ Awaited(n)'
           /\ \A n, m : AwaitedBy(n, m) => n \in passed' \/ AwaitedBy(n, m)'
           /\ \A i \in 1..Len(s) : Awaited(s[i].node)'
<1>1. /\ Len(paths) \in Nat \ {0}
      /\ \A i \in 2..Len(paths) : i - 1 \in 1..Len(paths') /\ paths'[i-1] = paths[i]
      /\ \A i \in 1..Len(s) : \E k \in 1..Len(paths') : paths'[k] = s[i]
  BY NewPaths
<1>2. paths[1].node \in passed'
  BY DEF Grown
<1>3. ASSUME NEW i \in 1..Len(paths), i # 1 PROVE \E k \in 1..Len(paths') : paths'[k] = paths[i]
  <2>1. i \in 2..Len(paths)
    BY <1>1, <1>3
  <2> QED BY <1>1, <2>1
<1>4. ASSUME NEW n, Awaited(n) PROVE n \in passed' \/ Awaited(n)'
  <2>1. PICK i \in 1..Len(paths) : paths[i].node = n
    BY <1>4 DEF Awaited
  <2>2. CASE i = 1
    BY <1>2, <2>1, <2>2
  <2>3. CASE i # 1
    <3>1. PICK k \in 1..Len(paths') : paths'[k] = paths[i]
      BY <1>3, <2>3
    <3> QED BY <2>1, <3>1 DEF Awaited
  <2> QED BY <2>2, <2>3
<1>5. ASSUME NEW n, NEW m, AwaitedBy(n, m) PROVE n \in passed' \/ AwaitedBy(n, m)'
  <2>1. PICK i \in 1..Len(paths) : paths[i].node = n /\ Len(paths[i].path) <= m
    BY <1>5 DEF AwaitedBy
  <2>2. CASE i = 1
    BY <1>2, <2>1, <2>2
  <2>3. CASE i # 1
    <3>1. PICK k \in 1..Len(paths') : paths'[k] = paths[i]
      BY <1>3, <2>3
    <3> QED BY <2>1, <3>1 DEF AwaitedBy
  <2> QED BY <2>2, <2>3
<1>6. \A i \in 1..Len(s) : Awaited(s[i].node)'
  BY <1>1 DEF Awaited
<1> QED BY <1>4, <1>5, <1>6

(* Each part of the invariant through a step of the queue.                 *)
LEMMA LeadStep ==
    ASSUME PathTypeOK, PathsLead, NEW s, Grown(s)
    PROVE  PathsLead'
<1>1. /\ \A i \in 1..Len(s) : Leads(s[i].path, s[i].node)
      /\ \A k \in 1..Len(paths') : \/ k + 1 \in 2..Len(paths) /\ paths'[k] = paths[k+1]
                                   \/ k >= Len(paths) /\ \E i \in 1..Len(s) : paths'[k] = s[i]
  BY NewPaths
<1>2. graph' = graph /\ query' = query
  BY DEF Grown
<1>3. ASSUME NEW k \in 1..Len(paths') PROVE Leads(paths'[k].path, paths'[k].node)
  <2>1. CASE k + 1 \in 2..Len(paths) /\ paths'[k] = paths[k+1]
    <3>1. k + 1 \in 1..Len(paths)
      BY <2>1
    <3> QED BY <2>1, <3>1 DEF PathsLead
  <2>2. CASE \E i \in 1..Len(s) : paths'[k] = s[i]
    BY <1>1, <2>2
  <2> QED BY <1>1, <2>1, <2>2
<1> QED BY <1>2, <1>3 DEF PathsLead, Leads

(* How long the paths of the new queue are.                                *)
LEMMA NewLengths ==
    ASSUME PathTypeOK, PathsLead, PathsSorted, NEW s, Grown(s)
    PROVE  /\ Len(paths[1].path) \in Nat
           /\ \A k \in 1..Len(paths') :
                 /\ Len(paths'[k].path) \in Nat
                 /\ Len(paths[1].path) <= Len(paths'[k].path) /\ Len(paths'[k].path) <= Len(paths[1].path) + 1
                 /\ k >= Len(paths) => Len(paths'[k].path) = Len(paths[1].path) + 1
                 /\ k < Len(paths) => k + 1 \in 2..Len(paths) /\ paths'[k] = paths[k+1]
<1>1. /\ paths' \in Seq(Item) /\ Len(paths') \in Nat /\ Len(paths) \in Nat \ {0}
      /\ Len(paths[1].path) \in Nat
      /\ \A i \in 1..Len(s) : Len(s[i].path) = Len(paths[1].path) + 1
      /\ \A k \in 1..Len(paths') : \/ k + 1 \in 2..Len(paths) /\ paths'[k] = paths[k+1]
                                   \/ k >= Len(paths) /\ \E i \in 1..Len(s) : paths'[k] = s[i]
  BY NewPaths
<1>2. PICK d \in Nat : d = Len(paths[1].path)
  BY <1>1
<1>3. PICK l \in Nat \ {0} : l = Len(paths)
  BY <1>1
<1>4. ASSUME NEW k \in 1..Len(paths')
      PROVE  /\ Len(paths'[k].path) \in Nat
             /\ d <= Len(paths'[k].path) /\ Len(paths'[k].path) <= d + 1
             /\ k >= l => Len(paths'[k].path) = d + 1
             /\ k < l => k + 1 \in 2..l /\ paths'[k] = paths[k+1]
  <2>1. k \in Nat
    BY <1>1
  <2>2. CASE k + 1 \in 2..l /\ paths'[k] = paths[k+1]
    <3>1. 1 \in 1..l /\ k + 1 \in 1..l /\ 1 <= k + 1 /\ ~(k >= l)
      BY <2>1, <2>2
    <3>2. d <= Len(paths[k+1].path) /\ Len(paths[k+1].path) <= d + 1
      BY <1>2, <1>3, <3>1 DEF PathsSorted
    <3>3. Len(paths'[k].path) \in Nat
      BY <1>1, ItemsType
    <3> QED BY <2>2, <3>1, <3>2, <3>3
  <2>3. CASE k >= l /\ \E i \in 1..Len(s) : paths'[k] = s[i]
    <3>1. Len(paths'[k].path) = d + 1
      BY <1>1, <1>2, <2>3
    <3> QED BY <2>1, <2>3, <3>1
  <2> QED BY <1>1, <1>3, <2>2, <2>3
<1> QED BY <1>2, <1>3, <1>4

LEMMA SortedStep ==
    ASSUME PathTypeOK, PathsLead, PathsSorted, NEW s, Grown(s)
    PROVE  PathsSorted'
<1>1. PICK d \in Nat : d = Len(paths[1].path)
  BY NewLengths
<1>2. PICK l \in Nat : l = Len(paths)
  BY NewPaths
<1>3. \A k \in 1..Len(paths') :
         /\ Len(paths'[k].path) \in Nat /\ d <= Len(paths'[k].path) /\ Len(paths'[k].path) <= d + 1
         /\ k >= l => Len(paths'[k].path) = d + 1
         /\ k < l => k + 1 \in 2..l /\ paths'[k] = paths[k+1]
  BY <1>1, <1>2, NewLengths
<1>4. ASSUME NEW i \in 1..Len(paths'), NEW j \in 1..Len(paths'), i <= j
      PROVE  Len(paths'[i].path) <= Len(paths'[j].path) /\ Len(paths'[j].path) <= Len(paths'[1].path) + 1
  <2>0. Len(paths') \in Nat /\ i \in Nat /\ j \in Nat
    BY NewPaths
  <2>1. 1 \in 1..Len(paths')
    BY <2>0
  <2>2. Len(paths'[j].path) <= Len(paths'[1].path) + 1
    BY <1>3, <2>1
  <2>3. CASE j >= l
    BY <1>3, <2>2, <2>3
  <2>4. CASE j < l
    <3>1. i < l
      BY <1>4, <2>0, <2>4
    <3>2. paths'[i] = paths[i+1] /\ paths'[j] = paths[j+1] /\ i + 1 \in 1..l /\ j + 1 \in 1..l /\ i + 1 <= j + 1
      BY <1>3, <1>4, <2>0, <2>4, <3>1
    <3>3. Len(paths[i+1].path) <= Len(paths[j+1].path)
      BY <1>2, <3>2 DEF PathsSorted
    <3> QED BY <2>2, <3>2, <3>3
  <2> QED BY <2>0, <2>3, <2>4
<1> QED BY <1>4 DEF PathsSorted

LEMMA FollowedStep ==
    ASSUME PathTypeOK, PathsLead, EdgesFollowed, NEW s, Grown(s)
    PROVE  EdgesFollowed'
<1>1. \A a, b : Joined(a, b)' = Joined(a, b)
  BY SameWays DEF Grown
<1>2. /\ \A n : Awaited(n) => n \in passed' \/ Awaited(n)'
      /\ \A i \in 1..Len(s) : Awaited(s[i].node)'
  BY StillAwaited
<1>3. ASSUME NEW a \in passed', NEW b \in Node, Joined(a, b) PROVE b \in passed' \/ Awaited(b)'
  <2>1. passed \subseteq passed' /\ (a \in passed \/ a = paths[1].node)
    BY DEF Grown
  <2>2. CASE a \in passed
    BY <1>2, <1>3, <2>1, <2>2 DEF EdgesFollowed
  <2>3. CASE a = paths[1].node /\ a \notin passed
    <3>1. b \in passed' \/ \E i \in 1..Len(s) : s[i].node = b
      BY <1>3, <2>3 DEF Grown
    <3> QED BY <1>2, <3>1
  <2> QED BY <2>1, <2>2, <2>3
<1>4. \A a \in passed' : \A b \in Node : Joined(a, b)' => b \in passed' \/ Awaited(b)'
  BY <1>1, <1>3
<1> QED BY <1>4 DEF EdgesFollowed

(* The nodes that a way as long as the new head leads to: they are queued, *)
(* since the node before them on that way was passed.                      *)
LEMMA NearStep ==
    ASSUME PathTypeOK, PathsLead, PathsSorted, NearMet, NEW s, Grown(s), EdgesFollowed'
    PROVE  NearMet'
<1> SUFFICES ASSUME paths' # <<>>, NEW m \in 0..Len(paths'[1].path), NEW n \in Node, Route(n, m)
             PROVE  n \in passed' \/ AwaitedBy(n, m)'
  <2>1. \A n, m : Route(n, m)' = Route(n, m)
    BY SameWays DEF Grown
  <2> QED BY <2>1 DEF NearMet
<1>1. PICK d \in Nat : d = Len(paths[1].path)
  BY NewLengths
<1>2. \A k \in 1..Len(paths') :
         Len(paths'[k].path) \in Nat /\ d <= Len(paths'[k].path) /\ Len(paths'[k].path) <= d + 1
  BY <1>1, NewLengths
<1>3. 1 \in 1..Len(paths')
  <2>1. paths' \in Seq(Item)
    BY NewPaths
  <2> QED BY <2>1
<1>4. m \in Nat /\ m <= d + 1
  BY <1>2, <1>3
<1>5. paths # <<>> /\ \A b, l : AwaitedBy(b, l) => b \in passed' \/ AwaitedBy(b, l)'
  BY StillAwaited DEF Grown
<1>6. passed \subseteq passed' /\ paths[1].node \in passed'
  BY DEF Grown
<1>7. CASE m <= d
  <2>1. m \in 0..Len(paths[1].path)
    BY <1>1, <1>4, <1>7
  <2> QED BY <1>5, <1>6, <2>1 DEF NearMet
<1>8. CASE m = d + 1
  <2>1. PICK a \in Node : Route(a, d) /\ Joined(a, n)
    BY <1>8, RouteBack
  <2>2. d \in 0..Len(paths[1].path) /\ Len(paths'[1].path) = d + 1
    BY <1>1, <1>2, <1>3, <1>8
  <2>3. a \in passed' \/ AwaitedBy(a, d)'
    BY <1>5, <1>6, <2>1, <2>2 DEF NearMet
  <2>4. PathsSorted'
    BY SortedStep
  <2>5. \A k \in 1..Len(paths') : Len(paths'[k].path) = d + 1
    <3> SUFFICES ASSUME NEW k \in 1..Len(paths') PROVE Len(paths'[k].path) = d + 1
      OBVIOUS
    <3>1. 1 <= k
      BY <1>3
    <3>2. Len(paths'[1].path) <= Len(paths'[k].path)
      BY <1>3, <2>4, <3>1 DEF PathsSorted
    <3> QED BY <1>2, <2>2, <3>2
  <2>6. a \in passed'
    <3>1. ~AwaitedBy(a, d)'
      BY <2>5 DEF AwaitedBy
    <3> QED BY <2>3, <3>1
  <2>7. n \in passed' \/ Awaited(n)'
    <3>1. Joined(a, n)'
      BY <2>1, SameWays DEF Grown
    <3> QED BY <2>6, <3>1 DEF EdgesFollowed
  <2>8. Awaited(n)' => AwaitedBy(n, m)'
    BY <1>8, <2>5 DEF Awaited, AwaitedBy
  <2> QED BY <2>7, <2>8
<1> QED BY <1>4, <1>7, <1>8

(* The types, through every step.                                          *)
LEMMA PathTypeStep ==
    ASSUME PathTypeOK, [PathNext]_pathVars, Search \/ returned
    PROVE  PathTypeOK'
<1>1. graph' = graph /\ query' = query
  BY DEF PathNext, Arrive, Drop, Extend, GiveUp, Answered, pathVars
<1>2. passed' \subseteq Node /\ paths' \in Seq(Item)
  <2>1. ASSUME NEW s, Grown(s), PathsLead PROVE passed' \subseteq Node /\ paths' \in Seq(Item)
    <3>1. paths' \in Seq(Item) /\ paths[1].node \in Node
      BY <2>1, NewPaths
    <3> QED BY <2>1, <3>1 DEF Grown, PathTypeOK
  <2>2. CASE Drop
    BY <2>1, <2>2, DropGrows DEF Search, Drop
  <2>3. CASE Extend
    BY <2>1, <2>3, ExtendGrows DEF Search, Extend
  <2>4. CASE Arrive \/ GiveUp \/ UNCHANGED pathVars
    BY <2>4 DEF Arrive, GiveUp, PathTypeOK, Item, pathVars
  <2> QED BY <2>2, <2>3, <2>4 DEF PathNext, Answered
<1>3. returned' \in BOOLEAN /\ answer' \in Seq(Edge) \cup {NoPath}
  <2>1. CASE Arrive
    <3>1. Head(paths).path \in Seq(Edge)
      BY <2>1, HeadItem DEF Arrive
    <3> QED BY <2>1, <3>1 DEF Arrive
  <2>2. CASE Drop \/ Extend \/ GiveUp \/ UNCHANGED pathVars
    BY <2>2 DEF Drop, Extend, GiveUp, PathTypeOK, pathVars
  <2> QED BY <2>1, <2>2 DEF PathNext, Answered
<1> QED BY <1>1, <1>2, <1>3 DEF PathTypeOK, Item

(* What holds of the answer when the goal is at the head of the queue.     *)
LEMMA ArriveStep ==
    ASSUME PathTypeOK, Search, Arrive
    PROVE  PathIsShortest'
<1>1. paths # <<>> /\ graph' = graph /\ query' = query /\ answer' = paths[1].path /\ paths[1].node = query.to
      /\ paths[1].path \in Seq(Edge) /\ query.to \in Node
  BY HeadItem DEF Arrive
<1>2. PICK d \in Nat : d = Len(paths[1].path)
  BY <1>1
<1>3. paths \in Seq(Item) /\ Len(paths) \in Nat /\ 1 \in 1..Len(paths)
  BY <1>1 DEF PathTypeOK, Item
<1>4. answer' # NoPath
  BY <1>1, PathAssumption
<1>5. Leads(paths[1].path, query.to)
  BY <1>1, <1>3 DEF Search, PathsLead
<1>6. ASSUME NEW m \in 0..(d-1) PROVE ~Route(query.to, m)
  <2>1. m \in 0..d /\ m < d
    OBVIOUS
  <2>2. ~AwaitedBy(query.to, m)
    <3> SUFFICES ASSUME NEW i \in 1..Len(paths), Len(paths[i].path) <= m PROVE FALSE
      BY DEF AwaitedBy
    <3>1. 1 <= i
      BY <1>3
    <3>2. d <= Len(paths[i].path)
      BY <1>2, <1>3, <3>1 DEF Search, PathsSorted
    <3>3. Len(paths[i].path) \in Nat
      BY <1>3, ItemsType
    <3> QED BY <2>1, <3>2, <3>3
  <2> QED BY <1>1, <1>2, <2>1, <2>2 DEF Search, NearMet
<1>7. \A m \in 0..(Len(answer')-1) : ~Route(query.to, m)'
  BY <1>1, <1>2, <1>6, SameWays
<1>8. PathIsShortest' <=> Leads(paths[1].path, query.to) /\ \A m \in 0..(Len(answer')-1) : ~Route(query.to, m)'
  BY <1>1, <1>4 DEF PathIsShortest, Leads, Arrive
<1> QED BY <1>5, <1>7, <1>8

(* When the queue is empty, no edge leads out of what was passed.          *)
LEMMA GiveUpStep ==
    ASSUME PathTypeOK, Search, answer = NoPath, GiveUp
    PROVE  PathIsShortest'
<1>1. paths = <<>> /\ graph' = graph /\ query' = query /\ answer' = NoPath
  BY DEF GiveUp
<1>2. \A n : ~Awaited(n)
  BY <1>1 DEF Awaited
<1>3. query.from \in passed /\ query.to \notin passed /\ passed \in SUBSET Node
  BY <1>2 DEF Search, StartMet, PathTypeOK
<1>4. ASSUME NEW e \in Rows(graph), e.source \in passed, e.kind \in query.kinds PROVE e.target \in passed
  <2>1. e.target \in Node
    BY RowsAreEdges DEF Edge
  <2>2. Joined(e.source, e.target)
    BY <1>4 DEF Joined
  <2> QED BY <1>2, <1>4, <2>1, <2>2 DEF Search, EdgesFollowed
<1>5. Separates(passed)'
  BY <1>1, <1>3, <1>4 DEF Separates, GiveUp
<1> QED BY <1>1, <1>3, <1>5 DEF PathIsShortest, GiveUp

(* The invariant, through every step.                                      *)
LEMMA PathStep ==
    ASSUME PathInv, [PathNext]_pathVars
    PROVE  PathInv'
<1>1. PathTypeOK'
  BY PathTypeStep DEF PathInv
<1>2. ASSUME NEW s, Grown(s), Search PROVE Search'
  <2>1. PathTypeOK /\ PathsLead /\ PathsSorted /\ NearMet /\ EdgesFollowed
    BY <1>2 DEF Search, PathInv
  <2>2. PathsLead' /\ PathsSorted' /\ EdgesFollowed'
    BY <1>2, <2>1, LeadStep, SortedStep, FollowedStep
  <2>3. NearMet'
    BY <1>2, <2>1, <2>2, NearStep
  <2>4. StartMet'
    <3>1. query' = query /\ passed \subseteq passed'
      BY <1>2 DEF Grown
    <3>2. query.from \in passed' \/ Awaited(query.from)'
      BY <1>2, <2>1, <3>1, StillAwaited DEF Search, StartMet
    <3> QED BY <3>1, <3>2 DEF StartMet, Awaited
  <2>5. query'.to \notin passed'
    BY <1>2 DEF Search, Grown
  <2> QED BY <2>2, <2>3, <2>4, <2>5 DEF Search
<1>3. CASE Drop \/ Extend
  <2>1. ~returned /\ returned' = FALSE /\ answer' = answer
    BY <1>3 DEF Drop, Extend, PathInv, PathTypeOK
  <2>2. Search'
    BY <1>2, <1>3, <2>1, DropGrows, ExtendGrows DEF PathInv
  <2> QED BY <1>1, <2>1, <2>2 DEF PathInv, PathIsShortest
<1>4. CASE Arrive
  <2>1. ~returned /\ returned'
    BY <1>4 DEF Arrive
  <2> QED BY <1>1, <1>4, <2>1, ArriveStep DEF PathInv
<1>5. CASE GiveUp
  <2>1. ~returned /\ returned'
    BY <1>5 DEF GiveUp
  <2> QED BY <1>1, <1>5, <2>1, GiveUpStep DEF PathInv
<1>6. CASE UNCHANGED pathVars
  <2>1. /\ graph' = graph /\ query' = query /\ paths' = paths /\ passed' = passed
        /\ returned' = returned /\ answer' = answer
    BY <1>6 DEF pathVars
  <2>2. PathsLead' = PathsLead /\ PathsSorted' = PathsSorted
    BY <2>1 DEF PathsLead, Leads, PathsSorted
  <2>3. (\A n, m : Route(n, m)' = Route(n, m)) /\ (\A a, b : Joined(a, b)' = Joined(a, b))
    BY <2>1, SameWays
  <2>4. \A n, m : Awaited(n)' = Awaited(n) /\ AwaitedBy(n, m)' = AwaitedBy(n, m)
    BY <2>1 DEF Awaited, AwaitedBy
  <2>5. NearMet => NearMet'
    BY <2>1, <2>3, <2>4 DEF NearMet
  <2>6. EdgesFollowed => EdgesFollowed'
    BY <2>1, <2>3, <2>4 DEF EdgesFollowed
  <2>7. StartMet => StartMet'
    BY <2>1 DEF StartMet, Awaited
  <2>8. Search => Search'
    BY <2>1, <2>2, <2>5, <2>6, <2>7 DEF Search
  <2>9. PathIsShortest => PathIsShortest'
    <3>1. CASE answer = NoPath
      BY <2>1, <3>1 DEF PathIsShortest, Separates
    <3>2. CASE answer # NoPath
      BY <2>1, <2>3, <3>2 DEF PathIsShortest, Leads
    <3> QED BY <3>1, <3>2
  <2> QED BY <1>1, <2>1, <2>8, <2>9 DEF PathInv
<1> QED BY <1>3, <1>4, <1>5, <1>6 DEF PathNext, Answered

LEMMA PathBegins == PathInit => PathInv
<1> SUFFICES ASSUME PathInit PROVE PathInv
  OBVIOUS
<1>1. /\ graph \in Graphs /\ query \in PathQueries /\ passed = {} /\ returned = FALSE /\ answer = NoPath
      /\ paths = <<[node |-> query.from, path |-> <<>>]>>
  BY DEF PathInit, PathCalled
<1>2. PathTypeOK
  <2>1. query \in [from : Node, to : Node, kinds : SUBSET EdgeKind] /\ graph \in Graph
    BY <1>1, PathAssumption, GraphAssumption
  <2>2. [node |-> query.from, path |-> <<>>] \in Item
    BY <2>1 DEF Item
  <2>3. paths \in Seq(Item)
    BY <1>1, <2>2
  <2> QED BY <1>1, <2>1, <2>3 DEF PathTypeOK, Item
<1>3. Len(paths) = 1 /\ paths[1] = [node |-> query.from, path |-> <<>>] /\ Len(paths[1].path) = 0
  BY <1>1
<1>4. \A i \in 1..Len(paths) : i = 1
  BY <1>3
<1>5. PathsLead
  BY <1>3, <1>4 DEF PathsLead, Leads
<1>6. PathsSorted
  BY <1>3, <1>4 DEF PathsSorted
<1>7. Awaited(query.from) /\ AwaitedBy(query.from, 0)
  BY <1>3 DEF Awaited, AwaitedBy
<1>8. NearMet
  BY <1>3, <1>7, RouteNone DEF NearMet
<1>9. EdgesFollowed /\ StartMet /\ query.to \notin passed
  BY <1>1, <1>7 DEF EdgesFollowed, StartMet
<1> QED BY <1>1, <1>2, <1>5, <1>6, <1>8, <1>9 DEF PathInv, Search, PathIsShortest

(* On every graph and in every order of its rows, what findPath returns is *)
(* a shortest path, and null only for what is out of reach.                *)
THEOREM PathIsShortestHolds == PathSpec => []PathIsShortest
<1>1. PathInit => PathInv
  BY PathBegins
<1>2. PathInv /\ [PathNext]_pathVars => PathInv'
  BY PathStep
<1>3. PathInv => PathIsShortest
  BY DEF PathInv
<1> QED BY <1>1, <1>2, <1>3, PTL DEF PathSpec
-----------------------------------------------------------------------------
(* The search for cycles of files.                                         *)
CallRecord == [file : SourceFile, todo : SUBSET SourceFile]

(* The files that were searched to the end.                                *)
Finished == searched \ recursionStack

(* The stack has the files of the calls, each of them once.                *)
StackOfCalls ==
    /\ recursionStack = {calls[i].file : i \in 1..Len(calls)} /\ recursionStack \subseteq searched
    /\ \A i, j \in 1..Len(calls) : calls[i].file = calls[j].file => i = j

(* A call was made for a dependency of the call below it.                  *)
CallsDepend ==
    /\ \A i \in 1..(Len(calls)-1) : Depends(calls[i].file, calls[i+1].file)
    /\ \A i \in 1..Len(calls) : \A h \in calls[i].todo : Depends(calls[i].file, h)

(* A dependency that is not looked at yet is to do, or the call above.     *)
Looked ==
    \A i \in 1..Len(calls) : \A h \in SourceFile : Depends(calls[i].file, h) =>
        h \in calls[i].todo \cup Finished \/ (i < Len(calls) /\ h = calls[i+1].file)

FinishedClosed == \A f \in Finished : \A h \in SourceFile : Depends(f, h) => h \in Finished

WayBack(m, p) == p[0] = p[m] /\ \A i \in 0..(m-1) : Depends(p[i], p[i+1])

(* No way leads from a finished file back to it.                           *)
NoWayBack ==
    \A m \in 1..Cardinality(SourceFile) : \A p \in [0..m -> SourceFile] : WayBack(m, p) => p[0] \notin Finished

CyclesAreReal ==
    \A c \in cycles :
        /\ c # <<>> /\ Depends(c[Len(c)], c[1])
        /\ \A i \in 1..(Len(c)-1) : Depends(c[i], c[i+1])

CyclesInv ==
    /\ CyclesTypeOK /\ SourceFile = unstarted \cup searched
    /\ StackOfCalls /\ CallsDepend /\ CyclesAreReal
    /\ cycles = {} => Looked /\ FinishedClosed /\ NoWayBack
-----------------------------------------------------------------------------
(* The dependencies of a file are files.                                   *)
LEMMA DependsType ==
    ASSUME CyclesTypeOK
    PROVE  \A f : getFileDependencies(graph, f) \subseteq SourceFile
<1>1. Rows(graph) \subseteq Edge
  BY DEF CyclesTypeOK, Graph, Rows
<1> QED BY <1>1, FilesAssumption DEF getFileDependencies, CrossFile, Edge

(* The calls are a sequence, of files with files to look at.               *)
LEMMA CallType ==
    ASSUME CyclesTypeOK
    PROVE  /\ calls \in Seq(CallRecord) /\ Len(calls) \in Nat
           /\ \A i \in 1..Len(calls) : calls[i].file \in SourceFile /\ calls[i].todo \subseteq SourceFile
<1>1. calls \in Seq(CallRecord) /\ Len(calls) \in Nat
  BY DEF CyclesTypeOK, CallRecord
<1>2. \A i \in 1..Len(calls) : calls[i] \in CallRecord
  BY <1>1
<1> QED BY <1>1, <1>2 DEF CallRecord

(* The dependencies are those of the graph, which does not change.         *)
LEMMA SameDepends ==
    ASSUME graph' = graph
    PROVE  \A f, h : Depends(f, h)' = Depends(f, h)
BY DEF Depends, getFileDependencies, CrossFile, Rows

(* From a finished file on, a way stays among finished files.              *)
LEMMA WayStays ==
    ASSUME NEW F \in SUBSET SourceFile, \A f \in F : \A h \in SourceFile : Depends(f, h) => h \in F,
           NEW m \in Nat, NEW p \in [0..m -> SourceFile], \A i \in 0..(m-1) : Depends(p[i], p[i+1]),
           NEW k \in 0..m, p[k] \in F
    PROVE  p[m] \in F
<1> DEFINE T == {j \in 0..m : j < k \/ p[j] \in F}
<1>1. 0 \in T
  OBVIOUS
<1>2. ASSUME NEW j \in 0..m, j + 1 \in 0..m, j \in T PROVE j + 1 \in T
  <2>1. CASE j < k
    <3>1. j + 1 < k \/ j + 1 = k
      BY <2>1
    <3> QED BY <1>2, <3>1
  <2>2. CASE p[j] \in F
    <3>1. j \in 0..(m-1) /\ p[j+1] \in SourceFile
      BY <1>2
    <3> QED BY <1>2, <2>2, <3>1
  <2> QED BY <1>2, <2>1, <2>2
<1>3. T \subseteq 0..m
  OBVIOUS
<1>4. m \in T
  <2> HIDE DEF T
  <2>1. 0..m \subseteq T
    BY <1>1, <1>2, <1>3, UpTo
  <2> QED BY <2>1
<1> QED BY <1>4

(* The cycle that is reported when the dependency f of the last call is on *)
(* the stack.                                                              *)
LEMMA FoundCycle ==
    ASSUME CyclesTypeOK, StackOfCalls, CallsDepend, NEW f \in recursionStack,
           \A i \in 1..Len(calls) : i = Len(calls) => Depends(calls[i].file, f)
    PROVE  \E c \in Seq(SourceFile) :
              /\ Cycle(f) = {c} /\ c # <<>> /\ Depends(c[Len(c)], c[1])
              /\ \A i \in 1..(Len(c)-1) : Depends(c[i], c[i+1])
<1>1. PICK l \in Nat : l = Len(calls)
  BY CallType
<1>2. calls \in Seq(CallRecord) /\ DOMAIN calls = 1..l /\ \A i \in 1..l : calls[i].file \in SourceFile
  BY <1>1, CallType
<1>3. PICK k \in 1..l : calls[k].file = f
  BY <1>1 DEF StackOfCalls
<1>4. PICK I : I = {i \in DOMAIN calls : calls[i].file = f}
  OBVIOUS
<1>5. I = {k}
  BY <1>1, <1>2, <1>3, <1>4 DEF StackOfCalls
<1>6. Min(I) = k
  <2>1. k \in I /\ \A y \in I : k <= y
    BY <1>1, <1>5
  <2>2. \A x \in I : x = k
    BY <1>5
  <2> QED BY <2>1, <2>2 DEF Min
<1>7. PICK n \in Nat \ {0} : n = l - k + 1
  <2>1. l - k + 1 \in Nat \ {0}
    BY <1>1, <1>3
  <2> QED BY <2>1
<1>8. PICK c : c = [j \in 1..n |-> calls[k + j - 1].file]
  OBVIOUS
<1>9. \A j \in 1..n : k + j - 1 \in 1..l
  BY <1>1, <1>3, <1>7
<1>10. c \in Seq(SourceFile) /\ Len(c) = n
  <2>1. c \in [1..n -> SourceFile]
    BY <1>2, <1>8, <1>9
  <2> QED BY <2>1, SequenceOf
<1>11. Cycle(f) = {c}
  <2>1. I # {} /\ Len(calls) - Min(I) + 1 = n
    BY <1>1, <1>5, <1>6, <1>7
  <2>2. c = [j \in 1..(Len(calls) - Min(I) + 1) |-> calls[Min(I) + j - 1].file]
    BY <1>6, <1>8, <2>1
  <2> QED BY <1>4, <2>1, <2>2 DEF Cycle
<1>12. c # <<>>
  BY <1>10
<1>13. Depends(c[Len(c)], c[1])
  <2>1. n \in 1..n /\ 1 \in 1..n /\ k + n - 1 = l /\ k + 1 - 1 = k
    BY <1>1, <1>3, <1>7
  <2>2. c[n] = calls[l].file /\ c[1] = f
    BY <1>3, <1>8, <2>1
  <2>3. l \in 1..l
    BY <1>3
  <2> QED BY <1>1, <1>10, <2>2, <2>3
<1>14. ASSUME NEW i \in 1..(n-1) PROVE Depends(c[i], c[i+1])
  <2>1. i \in 1..n /\ i + 1 \in 1..n /\ k + i - 1 \in 1..(l-1) /\ k + (i+1) - 1 = (k + i - 1) + 1
    BY <1>3, <1>7
  <2>2. c[i] = calls[k + i - 1].file /\ c[i+1] = calls[(k + i - 1) + 1].file
    BY <1>8, <2>1
  <2> QED BY <1>1, <2>1, <2>2 DEF CallsDepend
<1> QED BY <1>10, <1>11, <1>12, <1>13, <1>14

(* The stack on which dfs(f) is called: f is no longer to do.              *)
Under(stack, f) ==
    /\ stack \in Seq(CallRecord) /\ Len(stack) = Len(calls)
    /\ \A i \in 1..Len(calls) :
          /\ stack[i].file = calls[i].file /\ stack[i].todo \subseteq calls[i].todo
          /\ \A h \in calls[i].todo : h \in stack[i].todo \/ (h = f /\ i = Len(calls))
          /\ i = Len(calls) => Depends(calls[i].file, f)

(* dfs is called by the outer loop, or by the last call for a dependency.  *)
LEMMA RootUnder ==
    ASSUME CyclesTypeOK, calls = <<>>, NEW f
    PROVE  Under(calls, f)
<1>1. Len(calls) = 0 /\ calls \in Seq(CallRecord)
  BY CallType
<1> QED BY <1>1 DEF Under

LEMMA DescendUnder ==
    ASSUME CyclesTypeOK, CallsDepend, calls # <<>>, NEW f \in calls[Len(calls)].todo,
           NEW stack, stack = [calls EXCEPT ![Len(calls)].todo = @ \ {f}]
    PROVE  Under(stack, f) /\ f \in SourceFile
<1>1. PICK l \in Nat : l = Len(calls)
  BY CallType
<1>2. calls \in Seq(CallRecord) /\ l \in 1..l /\ DOMAIN calls = 1..l
  BY <1>1, CallType
<1>3. \A i \in 1..l : calls[i] \in CallRecord
  BY <1>1, <1>2
<1>4. /\ DOMAIN stack = 1..l /\ \A i \in 1..l : i # l => stack[i] = calls[i]
      /\ stack[l] = [calls[l] EXCEPT !.todo = @ \ {f}]
  BY <1>1, <1>2
<1>5. stack[l] \in CallRecord /\ stack[l].file = calls[l].file /\ stack[l].todo = calls[l].todo \ {f}
  BY <1>2, <1>3, <1>4 DEF CallRecord
<1>6. stack \in Seq(CallRecord) /\ Len(stack) = l
  <2>1. stack \in [1..l -> CallRecord]
    <3>1. \A i \in 1..l : stack[i] \in CallRecord
      BY <1>3, <1>4, <1>5
    <3>2. stack = [i \in 1..l |-> stack[i]]
      BY <1>1, <1>2
    <3> QED BY <3>1, <3>2
  <2> QED BY <2>1, SequenceOf
<1>7. Depends(calls[l].file, f)
  BY <1>1, <1>2 DEF CallsDepend
<1>8. f \in SourceFile
  BY <1>1, <1>2, CallType
<1>9. ASSUME NEW i \in 1..l
      PROVE  /\ stack[i].file = calls[i].file /\ stack[i].todo \subseteq calls[i].todo
             /\ \A h \in calls[i].todo : h \in stack[i].todo \/ (h = f /\ i = l)
  <2>1. CASE i = l
    BY <1>5, <2>1
  <2>2. CASE i # l
    BY <1>4, <2>2
  <2> QED BY <2>1, <2>2
<1> QED BY <1>1, <1>6, <1>7, <1>8, <1>9 DEF Under

(* What a step of the search keeps, but for the files that are unstarted.  *)
Searching ==
    /\ CyclesTypeOK /\ StackOfCalls /\ CallsDepend /\ CyclesAreReal
    /\ cycles = {} => Looked /\ FinishedClosed /\ NoWayBack

(* dfs(f) returns at once: f is on the stack, or was searched.             *)
LEMMA ReturnsAtOnce ==
    ASSUME Searching, NEW f, NEW stack, Under(stack, f), graph' = graph, calls' = stack,
           searched' = searched, recursionStack' = recursionStack
    PROVE  /\ StackOfCalls' /\ CallsDepend'
           /\ f \in Finished /\ Looked => Looked'
<1>1. PICK l \in Nat : l = Len(calls)
  BY CallType DEF Searching
<1>2. /\ Len(calls') = l
      /\ \A i \in 1..l :
            /\ calls'[i].file = calls[i].file /\ calls'[i].todo \subseteq calls[i].todo
            /\ \A h \in calls[i].todo : h \in calls'[i].todo \/ (h = f /\ i = l)
  BY <1>1 DEF Under
<1>3. StackOfCalls'
  BY <1>1, <1>2 DEF StackOfCalls, Searching
<1>4. CallsDepend'
  <2>1. \A i \in 1..(l-1) : i \in 1..l /\ i + 1 \in 1..l
    OBVIOUS
  <2>2. \A i \in 1..(l-1) : Depends(calls'[i].file, calls'[i+1].file)
    BY <1>1, <1>2, <2>1 DEF CallsDepend, Searching
  <2>3. \A i \in 1..l : \A h \in calls'[i].todo : Depends(calls'[i].file, h)
    BY <1>1, <1>2 DEF CallsDepend, Searching
  <2>4. \A i \in 1..(l-1) : Depends(calls[i].file, calls[i+1].file)'
    BY <2>2 DEF Depends
  <2>5. \A i \in 1..l : \A h \in calls'[i].todo : Depends(calls[i].file, h)'
    BY <2>3 DEF Depends
  <2> QED BY <1>2, <2>4, <2>5 DEF CallsDepend
<1>5. ASSUME f \in Finished, Looked PROVE Looked'
  <2>1. ASSUME NEW i \in 1..l, NEW h \in SourceFile, Depends(calls[i].file, h)
        PROVE  h \in calls'[i].todo \cup Finished \/ (i < l /\ h = calls'[i+1].file)
    <3>1. h \in calls[i].todo \cup Finished \/ (i < l /\ h = calls[i+1].file)
      BY <1>1, <1>5, <2>1 DEF Looked
    <3>2. i < l => i + 1 \in 1..l
      OBVIOUS
    <3> QED BY <1>2, <1>5, <3>1, <3>2
  <2>2. Finished' = Finished /\ \A g, h : Depends(g, h)' = Depends(g, h)
    BY SameDepends DEF Finished
  <2>3. \A i \in 1..l : \A h \in SourceFile :
           Depends(calls[i].file, h)' => h \in calls'[i].todo \cup Finished' \/ (i < l /\ h = calls'[i+1].file)
    BY <1>2, <2>1, <2>2 DEF Depends
  <2> QED BY <1>2, <2>3 DEF Looked
<1> QED BY <1>3, <1>4, <1>5

(* dfs(f) begins.                                                          *)
LEMMA Begins ==
    ASSUME Searching, NEW f \in SourceFile, NEW stack, Under(stack, f), graph' = graph, f \notin searched,
           calls' = Append(stack, [file |-> f, todo |-> getFileDependencies(graph, f)]),
           searched' = searched \cup {f}, recursionStack' = recursionStack \cup {f}
    PROVE  /\ calls' \in Seq(CallRecord) /\ StackOfCalls' /\ CallsDepend' /\ Finished' = Finished
           /\ Looked => Looked'
<1>1. PICK l \in Nat : l = Len(calls)
  BY CallType DEF Searching
<1> DEFINE begun == [file |-> f, todo |-> getFileDependencies(graph, f)]
<1>2. begun \in CallRecord
  BY DependsType DEF Searching, CallRecord
<1>3. /\ calls' \in Seq(CallRecord) /\ Len(calls') = l + 1 /\ calls'[l+1] = begun
      /\ \A i \in 1..l : calls'[i] = stack[i]
  <2>1. stack \in Seq(CallRecord) /\ Len(stack) = l /\ calls' = Append(stack, begun)
    BY <1>1 DEF Under
  <2> HIDE DEF begun
  <2> QED BY <1>2, <2>1
<1>4. calls'[l+1].file = f /\ \A h : h \in calls'[l+1].todo <=> Depends(f, h)
  BY <1>3 DEF Depends
<1>5. \A i \in 1..l :
         /\ calls'[i].file = calls[i].file /\ calls'[i].todo \subseteq calls[i].todo
         /\ \A h \in calls[i].todo : h \in calls'[i].todo \/ (h = f /\ i = l)
         /\ i = l => Depends(calls[i].file, f)
  BY <1>1, <1>3 DEF Under
<1>6. f \notin recursionStack /\ Finished' = Finished
  BY DEF Searching, StackOfCalls, Finished
<1>7. \A i \in 1..(l+1) : i \in 1..l \/ i = l + 1
  OBVIOUS
<1>8. StackOfCalls'
  <2>1. recursionStack' = {calls'[i].file : i \in 1..(l+1)}
    <3>1. recursionStack = {calls[i].file : i \in 1..l}
      BY <1>1 DEF Searching, StackOfCalls
    <3>2. 1..l \subseteq 1..(l+1) /\ l + 1 \in 1..(l+1)
      OBVIOUS
    <3> QED BY <1>4, <1>5, <1>7, <3>1, <3>2
  <2>2. recursionStack' \subseteq searched'
    BY DEF Searching, StackOfCalls
  <2>3. ASSUME NEW i \in 1..(l+1), NEW j \in 1..(l+1), calls'[i].file = calls'[j].file PROVE i = j
    <3>1. CASE i \in 1..l /\ j \in 1..l
      BY <1>1, <1>5, <2>3, <3>1 DEF Searching, StackOfCalls
    <3>2. \A k \in 1..l : calls'[k].file # f
      BY <1>1, <1>5, <1>6 DEF Searching, StackOfCalls
    <3> QED BY <1>4, <1>7, <2>3, <3>1, <3>2
  <2> QED BY <1>3, <2>1, <2>2, <2>3 DEF StackOfCalls
<1>9. CallsDepend'
  <2>1. ASSUME NEW i \in 1..l PROVE Depends(calls'[i].file, calls'[i+1].file)
    <3>1. CASE i = l
      BY <1>4, <1>5, <3>1
    <3>2. CASE i # l
      <4>1. i \in 1..(l-1) /\ i + 1 \in 1..l
        BY <3>2
      <4> QED BY <1>1, <1>5, <4>1 DEF Searching, CallsDepend
    <3> QED BY <3>1, <3>2
  <2>2. ASSUME NEW i \in 1..(l+1), NEW h \in calls'[i].todo PROVE Depends(calls'[i].file, h)
    <3>1. CASE i \in 1..l
      BY <1>1, <1>5, <3>1 DEF Searching, CallsDepend
    <3> QED BY <1>4, <1>7, <3>1
  <2>3. \A i \in 1..l : Depends(calls[i].file, calls[i+1].file)'
    BY <2>1 DEF Depends
  <2>4. \A i \in 1..(l+1) : \A h \in calls'[i].todo : Depends(calls[i].file, h)'
    BY <2>2 DEF Depends
  <2>5. (l + 1) - 1 = l
    OBVIOUS
  <2> QED BY <1>3, <2>3, <2>4, <2>5 DEF CallsDepend
<1>10. ASSUME Looked PROVE Looked'
  <2>1. ASSUME NEW i \in 1..(l+1), NEW h \in SourceFile, Depends(calls'[i].file, h)
        PROVE  h \in calls'[i].todo \cup Finished \/ (i < l + 1 /\ h = calls'[i+1].file)
    <3>1. CASE i \in 1..l
      <4>1. h \in calls[i].todo \cup Finished \/ (i < l /\ h = calls[i+1].file)
        BY <1>1, <1>5, <1>10, <2>1, <3>1 DEF Looked
      <4>2. i < l + 1 /\ (i < l => i + 1 \in 1..l)
        BY <3>1
      <4> QED BY <1>4, <1>5, <3>1, <4>1, <4>2
    <3> QED BY <1>4, <1>7, <2>1, <3>1
  <2>2. \A i \in 1..(l+1) : \A h \in SourceFile :
           Depends(calls[i].file, h)' => h \in calls'[i].todo \cup Finished' \/ (i < l + 1 /\ h = calls'[i+1].file)
    BY <1>6, <2>1 DEF Depends
  <2> QED BY <1>3, <2>2 DEF Looked
<1> QED BY <1>3, <1>6, <1>8, <1>9, <1>10

(* The properties of the finished files do not change while they do not.   *)
LEMMA FinishedKept ==
    ASSUME graph' = graph, Finished' = Finished
    PROVE  (FinishedClosed => FinishedClosed') /\ (NoWayBack => NoWayBack')
<1>1. \A f, h : Depends(f, h)' = Depends(f, h)
  BY SameDepends
<1>2. FinishedClosed => FinishedClosed'
  BY <1>1 DEF FinishedClosed
<1>3. \A m, p : WayBack(m, p)' = WayBack(m, p)
  BY <1>1 DEF WayBack
<1>4. NoWayBack => NoWayBack'
  BY <1>3 DEF NoWayBack
<1> QED BY <1>2, <1>4

(* The cycles reported before are cycles still.                            *)
LEMMA RealKept ==
    ASSUME graph' = graph, CyclesAreReal, \A c \in cycles' \ cycles :
              /\ c # <<>> /\ Depends(c[Len(c)], c[1])
              /\ \A i \in 1..(Len(c)-1) : Depends(c[i], c[i+1])
    PROVE  CyclesAreReal'
BY SameDepends DEF CyclesAreReal

(* dfs(f), up to its loop, keeps the invariant, and f is searched then.    *)
LEMMA EnterKeeps ==
    ASSUME Searching, NEW f \in SourceFile, NEW stack, Under(stack, f), Enter(f, stack), graph' = graph, unstarted' \subseteq SourceFile
    PROVE  Searching' /\ searched' = searched \cup {f}
<1>0. CyclesTypeOK /\ StackOfCalls /\ CallsDepend /\ CyclesAreReal
  BY DEF Searching
<1>1. CASE f \in recursionStack
  <2>1. /\ cycles' = cycles \cup Cycle(f) /\ calls' = stack
        /\ searched' = searched /\ recursionStack' = recursionStack
    BY <1>1 DEF Enter, OnStack
  <2>2. \A i \in 1..Len(calls) : i = Len(calls) => Depends(calls[i].file, f)
    BY DEF Under
  <2>3. PICK c \in Seq(SourceFile) :
           /\ Cycle(f) = {c} /\ c # <<>> /\ Depends(c[Len(c)], c[1])
           /\ \A i \in 1..(Len(c)-1) : Depends(c[i], c[i+1])
    BY <1>0, <1>1, <2>2, FoundCycle
  <2>4. CyclesTypeOK'
    <3>1. calls' \in Seq(CallRecord)
      BY <2>1 DEF Under
    <3> QED BY <1>0, <2>1, <2>3, <3>1 DEF CyclesTypeOK, CallRecord
  <2>5. CyclesAreReal'
    BY <1>0, <2>1, <2>3, RealKept
  <2>6. StackOfCalls' /\ CallsDepend'
    BY <2>1, ReturnsAtOnce
  <2>7. cycles' # {} /\ searched' = searched \cup {f}
    BY <1>0, <1>1, <2>1, <2>3 DEF StackOfCalls
  <2> QED BY <2>4, <2>5, <2>6, <2>7 DEF Searching
<1>2. CASE f \notin recursionStack /\ f \in searched
  <2>1. /\ cycles' = cycles /\ calls' = stack
        /\ searched' = searched /\ recursionStack' = recursionStack
    BY <1>2 DEF Enter, OnStack
  <2>2. CyclesTypeOK'
    <3>1. calls' \in Seq(CallRecord)
      BY <2>1 DEF Under
    <3> QED BY <1>0, <2>1, <3>1 DEF CyclesTypeOK, CallRecord
  <2>3. CyclesAreReal'
    BY <1>0, <2>1, RealKept
  <2>4. StackOfCalls' /\ CallsDepend' /\ (f \in Finished /\ Looked => Looked')
    BY <2>1, ReturnsAtOnce
  <2>5. f \in Finished /\ Finished' = Finished /\ searched' = searched \cup {f}
    BY <1>2, <2>1 DEF Finished
  <2> QED BY <2>1, <2>2, <2>3, <2>4, <2>5, FinishedKept DEF Searching
<1>3. CASE f \notin searched
  <2>1. /\ cycles' = cycles
        /\ calls' = Append(stack, [file |-> f, todo |-> getFileDependencies(graph, f)])
        /\ searched' = searched \cup {f} /\ recursionStack' = recursionStack \cup {f}
    BY <1>0, <1>3 DEF Enter, OnStack, StackOfCalls
  <2>2. /\ calls' \in Seq(CallRecord) /\ StackOfCalls' /\ CallsDepend' /\ Finished' = Finished
        /\ Looked => Looked'
    BY <1>3, <2>1, Begins
  <2>3. CyclesTypeOK'
    BY <1>0, <2>1, <2>2 DEF CyclesTypeOK, CallRecord
  <2>4. CyclesAreReal'
    BY <1>0, <2>1, RealKept
  <2> QED BY <2>1, <2>2, <2>3, <2>4, FinishedKept DEF Searching
<1> QED BY <1>0, <1>1, <1>2, <1>3 DEF StackOfCalls

(* The last call returns: its file is finished, and no way leads back to   *)
(* it, since all its dependencies were finished before.                    *)
LEMMA LeaveKeeps ==
    ASSUME Searching, Leave
    PROVE  Searching' /\ searched' = searched
<1>1. PICK l \in Nat : l = Len(calls)
  BY CallType DEF Searching
<1>2. calls \in Seq(CallRecord) /\ l \in 1..l /\ l - 1 \in Nat
  BY <1>1, CallType DEF Searching, Leave
<1>3. PICK f : f = calls[l].file
  OBVIOUS
<1>4. /\ calls[l].todo = {} /\ recursionStack' = recursionStack \ {f} /\ calls' = SubSeq(calls, 1, l - 1)
      /\ graph' = graph /\ searched' = searched /\ cycles' = cycles /\ unstarted' = unstarted
  BY <1>1, <1>3 DEF Leave
<1>5. calls' \in Seq(CallRecord) /\ Len(calls') = l - 1 /\ \A i \in 1..(l-1) : calls'[i] = calls[i]
  BY <1>1, <1>2, <1>4
<1>6. f \in recursionStack /\ f \in searched /\ f \in SourceFile /\ Finished' = Finished \cup {f} /\ f \notin Finished
  <2>1. f \in recursionStack /\ recursionStack \subseteq searched /\ searched \subseteq SourceFile
    BY <1>1, <1>2, <1>3 DEF Searching, StackOfCalls, CyclesTypeOK
  <2> QED BY <1>4, <2>1 DEF Finished
<1>7. CyclesTypeOK'
  BY <1>4, <1>5 DEF CyclesTypeOK, CallRecord, Searching
<1>8. CyclesAreReal'
  BY <1>4, RealKept DEF Searching
<1>9. StackOfCalls'
  <2>1. \A i \in 1..l : i \in 1..(l-1) \/ i = l
    BY <1>2
  <2>2. \A i \in 1..(l-1) : i \in 1..l /\ i # l
    BY <1>2
  <2>3. recursionStack' = {calls'[i].file : i \in 1..(l-1)}
    <3>1. recursionStack = {calls[i].file : i \in 1..l} /\ \A i \in 1..l : calls[i].file = f => i = l
      BY <1>1, <1>2, <1>3 DEF Searching, StackOfCalls
    <3> QED BY <1>3, <1>4, <1>5, <2>1, <2>2, <3>1
  <2>4. \A i, j \in 1..(l-1) : calls'[i].file = calls'[j].file => i = j
    BY <1>1, <1>5, <2>2 DEF Searching, StackOfCalls
  <2>5. recursionStack' \subseteq searched'
    BY <1>4 DEF Searching, StackOfCalls
  <2> QED BY <1>5, <2>3, <2>4, <2>5 DEF StackOfCalls
<1>10. CallsDepend'
  <2>1. \A i \in 1..((l-1)-1) : i \in 1..(l-1) /\ i + 1 \in 1..(l-1)
    BY <1>2
  <2>2. \A i \in 1..((l-1)-1) : Depends(calls[i].file, calls[i+1].file)'
    BY <1>1, <1>4, <1>5, <2>1 DEF Searching, CallsDepend, Depends
  <2>3. \A i \in 1..(l-1) : i \in 1..l
    BY <1>2
  <2>4. \A i \in 1..(l-1) : \A h \in calls'[i].todo : Depends(calls[i].file, h)'
    BY <1>1, <1>4, <1>5, <2>3 DEF Searching, CallsDepend, Depends
  <2> QED BY <1>5, <2>2, <2>4 DEF CallsDepend
<1>11. ASSUME Looked, FinishedClosed, NoWayBack
       PROVE  Looked' /\ FinishedClosed' /\ NoWayBack'
  <2>1. \A h \in SourceFile : Depends(f, h) => h \in Finished
    BY <1>1, <1>2, <1>3, <1>4, <1>11 DEF Looked
  <2>2. \A g, h : Depends(g, h)' = Depends(g, h)
    BY <1>4, SameDepends
  <2>3. FinishedClosed'
    BY <1>6, <1>11, <2>1, <2>2 DEF FinishedClosed
  <2>4. Looked'
    <3>1. ASSUME NEW i \in 1..(l-1), NEW h \in SourceFile, Depends(calls[i].file, h)
          PROVE  h \in calls'[i].todo \cup Finished' \/ (i < l - 1 /\ h = calls'[i+1].file)
      <4>1. i \in 1..l /\ (i + 1 = l \/ (i < l - 1 /\ i + 1 \in 1..(l-1)))
        BY <1>2
      <4>2. h \in calls[i].todo \cup Finished \/ h = calls[i+1].file
        BY <1>1, <1>11, <3>1, <4>1 DEF Looked
      <4> QED BY <1>3, <1>5, <1>6, <4>1, <4>2
    <3>2. \A i \in 1..(l-1) : \A h \in SourceFile :
             Depends(calls[i].file, h)' => h \in calls'[i].todo \cup Finished' \/ (i < l - 1 /\ h = calls'[i+1].file)
      BY <1>4, <1>5, <3>1 DEF Depends
    <3> QED BY <1>5, <3>2 DEF Looked
  <2>5. NoWayBack'
    <3>1. Cardinality(SourceFile) \in Nat
      BY FilesAssumption, FS_CardinalityType
    <3>2. ASSUME NEW m \in 1..Cardinality(SourceFile), NEW p \in [0..m -> SourceFile], WayBack(m, p), p[0] = f
          PROVE  FALSE
      <4>1. m \in Nat /\ 1 \in 0..m /\ 0 \in 0..(m-1) /\ p[1] \in SourceFile /\ p[0] = p[m]
        BY <3>1, <3>2 DEF WayBack
      <4>2. Depends(p[0], p[0+1])
        BY <3>2, <4>1 DEF WayBack
      <4>3. p[1] \in Finished
        BY <2>1, <3>2, <4>1, <4>2
      <4>4. Finished \in SUBSET SourceFile /\ \A g \in Finished : \A h \in SourceFile : Depends(g, h) => h \in Finished
        BY <1>11 DEF FinishedClosed, Finished, Searching, CyclesTypeOK
      <4>5. \A i \in 0..(m-1) : Depends(p[i], p[i+1])
        BY <3>2 DEF WayBack
      <4>6. p[m] \in Finished
        <5> HIDE DEF Finished
        <5> QED BY <4>1, <4>3, <4>4, <4>5, WayStays
      <4> QED BY <1>6, <3>2, <4>1, <4>6
    <3>3. \A m, p : WayBack(m, p)' = WayBack(m, p)
      BY <2>2 DEF WayBack
    <3> QED BY <1>6, <1>11, <3>2, <3>3 DEF NoWayBack
  <2> QED BY <2>3, <2>4, <2>5
<1> QED BY <1>4, <1>7, <1>8, <1>9, <1>10, <1>11 DEF Searching

(* The invariant, through every step.                                      *)
LEMMA CyclesStep ==
    ASSUME CyclesInv, [CyclesNext]_cycleVars
    PROVE  CyclesInv'
<1>1. Searching /\ SourceFile = unstarted \cup searched /\ unstarted \subseteq SourceFile
  BY DEF CyclesInv, Searching, CyclesTypeOK
<1>2. SUFFICES Searching' /\ SourceFile = unstarted' \cup searched'
  BY DEF CyclesInv, Searching
<1>3. ASSUME NEW f \in SourceFile, Root(f)
      PROVE  Searching' /\ SourceFile = unstarted' \cup searched'
  <2>1. calls = <<>> /\ graph' = graph /\ unstarted' = unstarted \ {f}
    BY <1>3 DEF Root
  <2>2. CASE f \in searched
    <3>1. calls' = calls /\ searched' = searched /\ recursionStack' = recursionStack /\ cycles' = cycles
      BY <1>3, <2>2 DEF Root
    <3>2. Under(calls, f)
      BY <1>1, <2>1, RootUnder DEF Searching
    <3>3. StackOfCalls' /\ CallsDepend' /\ (f \in Finished /\ Looked => Looked')
      BY <1>1, <2>1, <3>1, <3>2, ReturnsAtOnce
    <3>4. f \in Finished /\ Finished' = Finished
      <4>1. recursionStack = {}
        BY <1>1, <2>1 DEF Searching, StackOfCalls
      <4> QED BY <2>2, <3>1, <4>1 DEF Finished
    <3>5. CyclesAreReal'
      BY <1>1, <2>1, <3>1, RealKept DEF Searching
    <3>6. CyclesTypeOK'
      BY <1>1, <2>1, <3>1 DEF Searching, CyclesTypeOK
    <3>7. FinishedClosed /\ NoWayBack => FinishedClosed' /\ NoWayBack'
      BY <2>1, <3>4, FinishedKept
    <3>8. Searching'
      BY <1>1, <3>1, <3>3, <3>4, <3>5, <3>6, <3>7 DEF Searching
    <3> QED BY <1>1, <2>1, <2>2, <3>1, <3>8
  <2>3. CASE f \notin searched
    <3>1. Enter(f, calls)
      BY <1>3, <2>3 DEF Root
    <3>2. Under(calls, f)
      BY <1>1, <2>1, RootUnder DEF Searching
    <3>3. Searching' /\ searched' = searched \cup {f}
      BY <1>1, <2>1, <3>1, <3>2, EnterKeeps
    <3> QED BY <1>1, <2>1, <3>3
  <2> QED BY <2>2, <2>3
<1>4. ASSUME NEW f \in SourceFile, Descend(f)
      PROVE  Searching' /\ SourceFile = unstarted' \cup searched'
  <2>1. PICK stack : stack = [calls EXCEPT ![Len(calls)].todo = @ \ {f}]
    OBVIOUS
  <2>2. calls # <<>> /\ f \in calls[Len(calls)].todo /\ Enter(f, stack) /\ graph' = graph /\ unstarted' = unstarted
    BY <1>4, <2>1 DEF Descend
  <2>3. Under(stack, f)
    BY <1>1, <2>1, <2>2, DescendUnder DEF Searching
  <2>4. Searching' /\ searched' = searched \cup {f}
    BY <1>1, <2>2, <2>3, EnterKeeps
  <2> QED BY <1>1, <2>2, <2>4
<1>5. CASE Leave
  BY <1>1, <1>5, LeaveKeeps DEF Leave
<1>6. CASE UNCHANGED cycleVars
  <2>1. /\ graph' = graph /\ unstarted' = unstarted /\ calls' = calls /\ searched' = searched
        /\ recursionStack' = recursionStack /\ cycles' = cycles
    BY <1>6 DEF cycleVars
  <2>2. CyclesTypeOK' /\ StackOfCalls'
    BY <1>1, <2>1 DEF Searching, CyclesTypeOK, StackOfCalls
  <2>3. CallsDepend' = CallsDepend /\ Looked' = Looked
    BY <2>1 DEF CallsDepend, Looked, Finished, Depends
  <2>4. CyclesAreReal'
    BY <1>1, <2>1, RealKept DEF Searching
  <2>5. FinishedClosed /\ NoWayBack => FinishedClosed' /\ NoWayBack'
    BY <2>1, FinishedKept DEF Finished
  <2> QED BY <1>1, <2>1, <2>2, <2>3, <2>4, <2>5 DEF Searching
<1> QED BY <1>3, <1>4, <1>5, <1>6 DEF CyclesNext

LEMMA CyclesBegin == CyclesInit => CyclesInv
<1> SUFFICES ASSUME CyclesInit PROVE CyclesInv
  OBVIOUS
<1>1. /\ graph \in Graph /\ unstarted = SourceFile /\ calls = <<>> /\ searched = {}
      /\ recursionStack = {} /\ cycles = {}
  BY GraphAssumption DEF CyclesInit, CyclesCalled
<1>2. Len(calls) = 0 /\ 1..Len(calls) = {} /\ 1..(Len(calls)-1) = {}
  BY <1>1
<1>3. CyclesTypeOK
  BY <1>1 DEF CyclesTypeOK
<1>4. StackOfCalls /\ CallsDepend /\ CyclesAreReal
  BY <1>1, <1>2 DEF StackOfCalls, CallsDepend, CyclesAreReal
<1>5. Looked /\ FinishedClosed /\ NoWayBack
  BY <1>1, <1>2 DEF Looked, FinishedClosed, NoWayBack, Finished
<1> QED BY <1>1, <1>3, <1>4, <1>5 DEF CyclesInv

(* When all is searched, all is finished.                                  *)
LEMMA CyclesDone ==
    ASSUME CyclesInv
    PROVE  CyclesAreFound
<1>1. ASSUME AllSearched, cycles = {}, NEW m \in 1..Cardinality(SourceFile), Circle(m) PROVE FALSE
  <2>1. Finished = SourceFile
    BY <1>1 DEF CyclesInv, AllSearched, StackOfCalls, Finished
  <2>2. PICK p \in [0..m -> SourceFile] : p[0] = p[m] /\ \A i \in 0..(m-1) : Depends(p[i], p[i+1])
    BY <1>1 DEF Circle
  <2>3. p[0] \notin Finished
    BY <1>1, <2>2 DEF CyclesInv, NoWayBack, WayBack
  <2>4. p[0] \in SourceFile
    <3>1. Cardinality(SourceFile) \in Nat
      BY FilesAssumption, FS_CardinalityType
    <3>2. 0 \in 0..m
      BY <3>1
    <3> QED BY <3>2
  <2> QED BY <2>1, <2>3, <2>4
<1> QED BY <1>1 DEF CyclesAreFound, CyclesInv, CyclesAreReal

(* On every graph and in every order of files and dependencies,            *)
(* findCircularDependencies reports only cycles, and some cycle when there *)
(* is one.                                                                 *)
THEOREM CyclesAreFoundHolds == CyclesSpec => []CyclesAreFound
<1>1. CyclesInit => CyclesInv
  BY CyclesBegin
<1>2. CyclesInv /\ [CyclesNext]_cycleVars => CyclesInv'
  BY CyclesStep
<1>3. CyclesInv => CyclesAreFound
  BY CyclesDone
<1> QED BY <1>1, <1>2, <1>3, PTL DEF CyclesSpec
-----------------------------------------------------------------------------
(* The resolver.                                                           *)
(* The recursion of FlattenSeq, up to the length n.                        *)
Flattens(f, seqs, n) == f = [i \in 1..n |-> IF i = 1 THEN seqs[i] ELSE f[i-1] \o seqs[i]]

(* The recursion of FlattenSeq has a solution.                             *)
LEMMA FlattensExists ==
    ASSUME NEW seqs, NEW n \in Nat
    PROVE  \E f : Flattens(f, seqs, n)
<1> DEFINE T == {k \in 0..n : \E f : Flattens(f, seqs, k)}
<1>1. 0 \in T
  <2>1. Flattens([i \in 1..0 |-> 0], seqs, 0)
    BY DEF Flattens
  <2> QED BY <2>1
<1>2. ASSUME NEW k \in 0..n, k + 1 \in 0..n, k \in T PROVE k + 1 \in T
  <2>1. PICK f : Flattens(f, seqs, k)
    BY <1>2
  <2>2. PICK g : g = [i \in 1..(k+1) |-> IF i = 1 THEN seqs[i] ELSE f[i-1] \o seqs[i]]
    OBVIOUS
  <2>3. \A i \in 1..k : g[i] = f[i]
    <3>1. \A i \in 1..k : f[i] = IF i = 1 THEN seqs[i] ELSE f[i-1] \o seqs[i]
      BY <2>1, Zenon DEF Flattens
    <3>2. \A i \in 1..(k+1) : g[i] = IF i = 1 THEN seqs[i] ELSE f[i-1] \o seqs[i]
      BY <2>2, Zenon
    <3>3. 1..k \subseteq 1..(k+1)
      OBVIOUS
    <3> QED BY <3>1, <3>2, <3>3, Zenon
  <2>4. \A i \in 1..(k+1) : i # 1 => g[i-1] = f[i-1]
    <3> SUFFICES ASSUME NEW i \in 1..(k+1), i # 1 PROVE g[i-1] = f[i-1]
      OBVIOUS
    <3>1. i - 1 \in 1..k
      OBVIOUS
    <3> QED BY <2>3, <3>1
  <2>5. g = [i \in 1..(k+1) |-> IF i = 1 THEN seqs[i] ELSE g[i-1] \o seqs[i]]
    BY <2>2, <2>4, Zenon
  <2>6. Flattens(g, seqs, k + 1)
    BY <2>5 DEF Flattens
  <2> QED BY <1>2, <2>6
<1>3. T = 0..n
  <2> HIDE DEF T
  <2>1. T \in SUBSET (0..n)
    BY DEF T
  <2> QED BY <1>1, <1>2, <2>1, UpTo
<1>4. n \in T
  BY <1>3
<1> QED BY <1>4

(* What is flattened from sequences over P is one.                         *)
LEMMA FlattenSeqType ==
    ASSUME NEW P, NEW seqs \in Seq(Seq(P))
    PROVE  FlattenSeq(seqs) \in Seq(P)
<1>1. CASE Len(seqs) = 0
  <2>1. seqs = <<>>
    BY <1>1
  <2>2. FlattenSeq(seqs) = seqs
    BY <1>1 DEF FlattenSeq
  <2>3. <<>> \in Seq(P)
    OBVIOUS
  <2> QED BY <2>1, <2>2, <2>3, Zenon
<1>2. CASE Len(seqs) # 0
  <2>1. PICK n \in Nat \ {0} : n = Len(seqs)
    BY <1>2
  <2> DEFINE f == CHOOSE flatten : flatten = [i \in 1..Len(seqs) |-> IF i = 1 THEN seqs[i] ELSE flatten[i-1] \o seqs[i]]
  <2>2. FlattenSeq(seqs) = f[n]
    BY <1>2, <2>1, Zenon DEF FlattenSeq
  <2>3. f = [i \in 1..n |-> IF i = 1 THEN seqs[i] ELSE f[i-1] \o seqs[i]]
    <3>1. \E g : g = [i \in 1..n |-> IF i = 1 THEN seqs[i] ELSE g[i-1] \o seqs[i]]
      BY FlattensExists DEF Flattens
    <3> QED BY <2>1, <3>1, Zenon
  <2> HIDE DEF f
  <2>8. \A i \in 1..n : f[i] = IF i = 1 THEN seqs[i] ELSE f[i-1] \o seqs[i]
    BY <2>3, Zenon
  <2>4. \A i \in 1..n : seqs[i] \in Seq(P)
    BY <2>1
  <2> DEFINE T == {k \in 0..n : k = 0 \/ f[k] \in Seq(P)}
  <2>5. ASSUME NEW k \in 0..n, k + 1 \in 0..n, k \in T PROVE k + 1 \in T
    <3>1. k + 1 \in 1..n /\ seqs[k+1] \in Seq(P)
      BY <2>4, <2>5
    <3>2. CASE k = 0
      <4>1. f[k+1] = seqs[k+1]
        BY <2>3, <3>1, <3>2
      <4> QED BY <3>1, <4>1
    <3>3. CASE k # 0
      <4>1. k + 1 # 1 /\ (k + 1) - 1 = k
        BY <3>3
      <4>2. f[k+1] = f[k] \o seqs[k+1]
        BY <2>8, <3>1, <4>1, Zenon
      <4>3. f[k] \in Seq(P)
        BY <2>5, <3>3
      <4>4. f[k] \o seqs[k+1] \in Seq(P)
        BY <3>1, <4>3
      <4>5. f[k+1] \in Seq(P)
        BY <4>2, <4>4, Zenon
      <4> QED BY <2>5, <4>5
    <3> QED BY <3>2, <3>3
  <2>6. T = 0..n
    <3>1. T \in SUBSET (0..n) /\ 0 \in T
      OBVIOUS
    <3> HIDE DEF T
    <3> QED BY <2>5, <3>1, UpTo
  <2>7. n \in T
    BY <2>1, <2>6
  <2> QED BY <2>1, <2>2, <2>7
<1> QED BY <1>1, <1>2
-----------------------------------------------------------------------------
(* The rows that are kept are rows, and rows to keep.                      *)
LEMMA KeepType ==
    ASSUME NEW P, NEW r \in Seq(P), NEW S
    PROVE  Keep(r, S) \in Seq(P \cap S)
<1> DEFINE seqs == [i \in DOMAIN r |-> IF r[i] \in S THEN <<r[i]>> ELSE <<>>]
<1>1. DOMAIN r = 1..Len(r) /\ Len(r) \in Nat
  OBVIOUS
<1>2. ASSUME NEW i \in DOMAIN r PROVE seqs[i] \in Seq(P \cap S)
  <2>1. r[i] \in P
    BY <1>1
  <2>2. CASE r[i] \in S
    <3>1. seqs[i] = <<r[i]>> /\ r[i] \in P \cap S
      BY <2>1, <2>2
    <3>2. <<r[i]>> \in Seq(P \cap S)
      BY <3>1
    <3> QED BY <3>1, <3>2, Zenon
  <2>3. CASE r[i] \notin S
    <3>1. seqs[i] = <<>>
      BY <2>3
    <3>2. <<>> \in Seq(P \cap S)
      OBVIOUS
    <3> QED BY <3>1, <3>2, Zenon
  <2> QED BY <2>2, <2>3
<1>3. seqs \in [1..Len(r) -> Seq(P \cap S)]
  BY <1>1, <1>2
<1>4. seqs \in Seq(Seq(P \cap S))
  <2> HIDE DEF seqs
  <2> QED BY <1>1, <1>3
<1>5. FlattenSeq(seqs) \in Seq(P \cap S)
  <2> HIDE DEF seqs
  <2> QED BY <1>4, FlattenSeqType
<1> QED BY <1>5 DEF Keep

(* A site that gets its edge when it is looked at, and not later.          *)
AtOnce(s) == Ref[s].form \in {"plain", "member"}

(* E has one edge at most for each of them, and none for those in R.       *)
Single(E, R) ==
    \A e \in DOMAIN E : AtOnce(e.site) =>
        /\ E[e] = 1 /\ e.site \notin R
        /\ \A d \in DOMAIN E : d.site = e.site => d = e

(* New edges of some of the rows, which go.                                *)
LEMMA InsertNew ==
    ASSUME NEW E, NEW R, NEW S, Single(E, S), R \subseteq S, NEW new, NEW known,
           \A e \in new : e.site \in S \ R,
           \A d, e \in new : d.site = e.site => d = e
    PROVE  Single(insertEdges(E, SetToBag(new), known), R)
<1> DEFINE put == {e \in new : Ref[e.site].from \in known /\ e.target \in known}
<1>1. PICK F : F = insertEdges(E, SetToBag(new), known)
  OBVIOUS
<1>2. /\ DOMAIN F = DOMAIN E \cup put
      /\ \A e \in DOMAIN F : F[e] = (IF e \in DOMAIN E THEN E[e] ELSE 0) + (IF e \in put THEN 1 ELSE 0)
  BY <1>1 DEF insertEdges, SetToBag, (+)
<1>3. put \subseteq new
  OBVIOUS
<1> HIDE DEF put
<1>4. ASSUME NEW e \in DOMAIN F, AtOnce(e.site)
      PROVE  F[e] = 1 /\ e.site \notin R /\ \A d \in DOMAIN F : d.site = e.site => d = e
  <2>1. CASE e \in DOMAIN E
    <3>1. E[e] = 1 /\ e.site \notin S /\ \A d \in DOMAIN E : d.site = e.site => d = e
      BY <1>4, <2>1 DEF Single
    <3>2. \A d \in put : d.site # e.site
      BY <1>3, <3>1
    <3> QED BY <1>2, <2>1, <3>1, <3>2
  <2>2. CASE e \notin DOMAIN E
    <3>1. e \in new /\ e \in put /\ e.site \in S \ R
      BY <1>2, <1>3, <2>2
    <3>2. \A d \in DOMAIN E : d.site # e.site
      BY <1>4, <3>1 DEF Single
    <3>3. F[e] = 1
      BY <1>2, <2>2, <3>1
    <3> QED BY <1>2, <1>3, <3>1, <3>2, <3>3
  <2> QED BY <2>1, <2>2
<1> QED BY <1>1, <1>4 DEF Single

(* New edges of sites that were put off.                                   *)
LEMMA InsertPutOff ==
    ASSUME NEW E, NEW R, Single(E, R), NEW new, NEW known, \A e \in DOMAIN new : ~AtOnce(e.site)
    PROVE  Single(insertEdges(E, new, known), R)
<1> DEFINE put == {e \in DOMAIN new : Ref[e.site].from \in known /\ e.target \in known}
<1>1. PICK F : F = insertEdges(E, new, known)
  OBVIOUS
<1>2. /\ DOMAIN F = DOMAIN E \cup put
      /\ \A e \in DOMAIN F : F[e] = (IF e \in DOMAIN E THEN E[e] ELSE 0) + (IF e \in put THEN new[e] ELSE 0)
  BY <1>1 DEF insertEdges, (+)
<1>3. put \subseteq DOMAIN new
  OBVIOUS
<1> HIDE DEF put
<1>4. ASSUME NEW e \in DOMAIN F, AtOnce(e.site)
      PROVE  F[e] = 1 /\ e.site \notin R /\ \A d \in DOMAIN F : d.site = e.site => d = e
  <2>1. e \in DOMAIN E /\ e \notin put
    BY <1>2, <1>3, <1>4
  <2>2. E[e] = 1 /\ e.site \notin R /\ \A d \in DOMAIN E : d.site = e.site => d = e
    BY <1>4, <2>1 DEF Single
  <2>3. \A d \in put : d.site # e.site
    BY <1>3, <1>4
  <2> QED BY <1>2, <2>1, <2>2, <2>3
<1> QED BY <1>1, <1>4 DEF Single
-----------------------------------------------------------------------------
(* Only sites that are put off wait.                                       *)
Waits(B) == \A s \in DOMAIN B : ~AtOnce(s)

(* Queues that wait are united to one that waits.                          *)
LEMMA WaitsUnion ==
    ASSUME NEW B, NEW C, Waits(B), Waits(C)
    PROVE  Waits(B (+) C)
BY DEF Waits, (+)

LEMMA WaitsEmpty == Waits(EmptyBag)
BY DEF Waits, EmptyBag, SetToBag

(* The first pass over S: one edge for each site that has an answer.       *)
LEMMA FirstPass ==
    ASSUME NEW S, NEW E, NEW known, NEW text, NEW nms, NEW order,
           NEW answers, answers = Answers(S, E, known, text, nms),
           NEW pass, pass = resolveAll(answers, text, nms, order)
    PROVE  /\ \A e \in pass.new : e.site \in S
           /\ \A d, e \in pass.new : d.site = e.site => d = e
           /\ Waits(pass.chains) /\ Waits(pass.thises)
<1>1. DOMAIN answers = S
  BY DEF Answers
<1>2. pass.new = {[site |-> s, target |-> Pick(answers[s], order)] : s \in {t \in S : answers[t] # {}}}
  BY <1>1 DEF resolveAll
<1>3. pass.chains = PutOff(answers, "chain", text, nms) /\ pass.thises = PutOff(answers, "this", text, nms)
  BY DEF resolveAll
<1>4. ASSUME NEW form \in {"chain", "this"} PROVE Waits(PutOff(answers, form, text, nms))
  BY <1>4 DEF Waits, PutOff, SetToBag, AtOnce
<1>5. Waits(pass.chains) /\ Waits(pass.thises)
  BY <1>3, <1>4
<1>6. \A e \in pass.new : e.site \in S /\ e = [site |-> e.site, target |-> Pick(answers[e.site], order)]
  BY <1>2
<1> QED BY <1>5, <1>6

(* The two passes at the end link only what was put off.                   *)
LEMMA LastPassesSingle ==
    ASSUME NEW E, NEW R, Single(E, R), NEW known, NEW chains, Waits(chains), NEW thises, Waits(thises), NEW order
    PROVE  Single(LastPasses(E, known, chains, thises, order), R)
<1>1. PICK F : F = resolveChainedCallsViaConformance(E, chains, known, order)
  OBVIOUS
<1>2. Single(F, R)
  <2> DEFINE new == {[site |-> s, target |-> Pick(Gate(s, matchDottedCallChain(s, known, Above(E))), order)] :
                        s \in {t \in DOMAIN chains : Gate(t, matchDottedCallChain(t, known, Above(E))) # {}}}
  <2>1. F = insertEdges(E, [e \in new |-> chains[e.site]], known)
    BY <1>1 DEF resolveChainedCallsViaConformance, Drain
  <2>2. \A e \in new : e.site \in DOMAIN chains
    OBVIOUS
  <2> HIDE DEF new
  <2>3. PICK B : B = [e \in new |-> chains[e.site]]
    OBVIOUS
  <2>4. \A e \in DOMAIN B : ~AtOnce(e.site)
    BY <2>2, <2>3 DEF Waits
  <2>5. Single(insertEdges(E, B, known), R)
    BY <2>4, InsertPutOff
  <2> QED BY <2>1, <2>3, <2>5, Zenon
<1>3. PICK G : G = resolveDeferredThisMemberRefs(F, thises, known, order)
  OBVIOUS
<1>4. Single(G, R)
  <2> DEFINE found(s) == IF Ref[s].from \in known THEN resolveInheritedMember(s, known, Above(F)) ELSE {}
             new == {[site |-> s, target |-> Pick(found(s), order)] : s \in {t \in DOMAIN thises : found(t) # {}}}
  <2>1. G = insertEdges(F, [e \in new |-> thises[e.site]], known)
    BY <1>3 DEF resolveDeferredThisMemberRefs, Drain
  <2>2. \A e \in new : e.site \in DOMAIN thises
    OBVIOUS
  <2> HIDE DEF new
  <2>3. PICK B : B = [e \in new |-> thises[e.site]]
    OBVIOUS
  <2>4. \A e \in DOMAIN B : ~AtOnce(e.site)
    BY <2>2, <2>3 DEF Waits
  <2>5. Single(insertEdges(F, B, known), R)
    BY <1>2, <2>4, InsertPutOff
  <2> QED BY <2>1, <2>3, <2>5, Zenon
<1>5. LastPasses(E, known, chains, thises, order) = G
  BY <1>1, <1>3, Zenon DEF LastPasses
<1> QED BY <1>4, <1>5, Zenon
-----------------------------------------------------------------------------
(* A row that is still in the table has no edge, and what the queues of a  *)
(* job hold was put off.                                                   *)
TableInv ==
    /\ disk \in Disks /\ rows \in Seq(Site)
    /\ pc \in [at : {"idle", "batch", "last"}, size : Nat \ {0}, remaining : Nat]
    /\ Single(links, ToSet(rows))
    /\ Waits(chainQueue) /\ Waits(thisQueue)

(* The elements of a sequence, and of two in a row.                        *)
LEMMA InToSet ==
    ASSUME NEW P, NEW r \in Seq(P)
    PROVE  ToSet(r) \subseteq P /\ r \in Seq(ToSet(r)) /\ DOMAIN r = 1..Len(r) /\ Len(r) \in Nat
BY DEF ToSet

LEMMA ToSetConcat ==
    ASSUME NEW P, NEW Q, NEW a \in Seq(P), NEW b \in Seq(Q)
    PROVE  a \o b \in Seq(P \cup Q)
<1>1. a \in Seq(P \cup Q) /\ b \in Seq(P \cup Q)
  OBVIOUS
<1> QED BY <1>1

(* The rows that a deletion leaves.                                        *)
LEMMA DeleteLeaves ==
    ASSUME NEW r \in Seq(Site), NEW S
    PROVE  Delete(r, S) \in Seq(Site) /\ ToSet(Delete(r, S)) \subseteq ToSet(r) \ S
<1>1. r \in Seq(ToSet(r)) /\ ToSet(r) \subseteq Site
  BY InToSet
<1>2. Delete(r, S) \in Seq(ToSet(r) \cap {t \in Site : \A s \in S : Key(s) # Key(t)})
  BY <1>1, KeepType DEF Delete
<1>3. ToSet(r) \cap {t \in Site : \A s \in S : Key(s) # Key(t)} \subseteq ToSet(r) \ S
  OBVIOUS
<1>4. ToSet(Delete(r, S)) \subseteq ToSet(r) \cap {t \in Site : \A s \in S : Key(s) # Key(t)}
  BY <1>2, InToSet, Zenon
<1>5. Delete(r, S) \in Seq(Site)
  BY <1>1, <1>2
<1> QED BY <1>3, <1>4, <1>5

(* Extraction takes the edges of the files whose references are new.       *)
LEMMA ExtractSingle ==
    ASSUME TableInv, NEW scan \in ScanOrders, NEW F \in SUBSET File, NEW db, db = Extract(F, scan)
    PROVE  db.rows \in Seq(Site) /\ Single(db.links, ToSet(db.rows))
<1>1. disk \in Disks /\ rows \in Seq(Site) /\ Single(links, ToSet(rows)) /\ scan \in Seq(File)
  BY ResolverAssumption DEF TableInv
<1> DEFINE others == {s \in Site : FileOf(s) \notin F}
           theirs == {s \in Site : FileOf(s) \in F}
           parts == [i \in DOMAIN scan |-> IF scan[i] \in F /\ disk[scan[i]] # None
                                           THEN Content[disk[scan[i]]].refs ELSE <<>>]
<1>2. db.rows = Keep(rows, others) \o FlattenSeq(parts)
  BY DEF Extract
<1>3. Keep(rows, others) \in Seq(ToSet(rows) \cap others)
  <2>1. rows \in Seq(ToSet(rows))
    BY <1>1, InToSet
  <2> QED BY <2>1, KeepType
<1>4. ASSUME NEW i \in DOMAIN scan PROVE parts[i] \in Seq(theirs)
  <2>1. scan[i] \in File
    BY <1>1
  <2>2. CASE scan[i] \in F /\ disk[scan[i]] # None
    <3>1. PICK refs : refs = Content[disk[scan[i]]].refs
      OBVIOUS
    <3>2. refs \in Seq(Site) /\ \A s \in ToSet(refs) : FileOf(s) = scan[i]
      BY <1>1, <2>1, <2>2, <3>1, ResolverAssumption
    <3>3. \A k \in 1..Len(refs) : refs[k] \in theirs
      BY <2>2, <3>2 DEF ToSet
    <3>4. refs \in Seq(theirs)
      <4> HIDE DEF theirs
      <4> QED BY <3>2, <3>3
    <3> QED BY <2>2, <3>1, <3>4
  <2>3. CASE ~(scan[i] \in F /\ disk[scan[i]] # None)
    <3>1. parts[i] = <<>>
      BY <2>3
    <3>2. <<>> \in Seq(theirs)
      OBVIOUS
    <3> QED BY <3>1, <3>2, Zenon
  <2> QED BY <2>2, <2>3
<1>5. parts \in Seq(Seq(theirs))
  <2>1. DOMAIN scan = 1..Len(scan) /\ Len(scan) \in Nat
    BY <1>1
  <2>2. parts \in [1..Len(scan) -> Seq(theirs)]
    BY <1>4, <2>1
  <2> HIDE DEF parts, theirs
  <2> QED BY <2>1, <2>2
<1>6. FlattenSeq(parts) \in Seq(theirs)
  <2> HIDE DEF parts, theirs
  <2> QED BY <1>5, FlattenSeqType
<1>7. db.rows \in Seq((ToSet(rows) \cap others) \cup theirs)
  <2> HIDE DEF parts, theirs, others
  <2> QED BY <1>2, <1>3, <1>6, ToSetConcat
<1>8. ToSet(db.rows) \subseteq (ToSet(rows) \cap others) \cup theirs
  BY <1>7, InToSet, Zenon
<1>9. db.rows \in Seq(Site)
  <2>1. (ToSet(rows) \cap others) \cup theirs \subseteq Site
    OBVIOUS
  <2> HIDE DEF theirs, others
  <2> QED BY <1>7, <2>1
<1>10. Single(db.links, ToSet(db.rows))
  <2>1. /\ DOMAIN db.links \subseteq DOMAIN links
        /\ \A e \in DOMAIN db.links : db.links[e] = links[e] /\ FileOf(e.site) \notin F
    BY DEF Extract
  <2>2. ASSUME NEW e \in DOMAIN db.links, AtOnce(e.site), e.site \in ToSet(db.rows) PROVE FALSE
    <3>1. e.site \in ToSet(rows)
      BY <1>8, <2>1, <2>2
    <3> QED BY <1>1, <2>1, <2>2, <3>1 DEF Single
  <2> QED BY <1>1, <2>1, <2>2 DEF Single
<1> QED BY <1>9, <1>10

(* The invariant, action by action.                                        *)
LEMMA TableInit ==
    ASSUME ResolverInit
    PROVE  TableInv
<1>1. disk \in Disks /\ rows = <<>> /\ links = EmptyBag /\ chainQueue = EmptyBag /\ thisQueue = EmptyBag /\ pc = AtRest
  BY DEF ResolverInit
<1>2. Single(links, ToSet(rows))
  BY <1>1 DEF Single, EmptyBag, SetToBag
<1>3. pc \in [at : {"idle", "batch", "last"}, size : Nat \ {0}, remaining : Nat]
  BY <1>1 DEF AtRest
<1> QED BY <1>1, <1>2, <1>3, WaitsEmpty DEF TableInv

LEMMA IndexKeeps ==
    ASSUME TableInv, NEW scan \in ScanOrders, NEW size \in BatchSizes, Index(scan, size)
    PROVE  TableInv'
<1>1. PICK db : db = Extract(Differing \cap Present, scan)
  OBVIOUS
<1>2. db.rows \in Seq(Site) /\ Single(db.links, ToSet(db.rows))
  <2>1. Differing \cap Present \in SUBSET File
    BY DEF Present
  <2> QED BY <1>1, <2>1, ExtractSingle
<1>3. /\ links' = db.links /\ rows' = db.rows
      /\ pc' = [at |-> "batch", size |-> size, remaining |-> Len(db.rows) + 1]
      /\ UNCHANGED <<disk, chainQueue, thisQueue>>
  BY <1>1 DEF Index
<1>4. pc' \in [at : {"idle", "batch", "last"}, size : Nat \ {0}, remaining : Nat]
  <2>1. size \in Nat \ {0} /\ Len(db.rows) + 1 \in Nat
    BY <1>2, ResolverAssumption
  <2> QED BY <1>3, <2>1
<1>5. Single(links, ToSet(rows))'
  BY <1>2, <1>3, Zenon DEF Single, ToSet
<1> QED BY <1>2, <1>3, <1>4, <1>5 DEF TableInv, Waits

LEMMA BatchKeeps ==
    ASSUME TableInv, NEW order, Batch(order)
    PROVE  TableInv'
<1>1. /\ disk \in Disks /\ rows \in Seq(Site) /\ Single(links, ToSet(rows)) /\ Waits(chainQueue) /\ Waits(thisQueue)
      /\ pc \in [at : {"idle", "batch", "last"}, size : Nat \ {0}, remaining : Nat]
  BY DEF TableInv
<1>2. PICK S : S = ToSet(SubSeq(rows, 1, Min({pc.size, Len(rows)})))
  OBVIOUS
<1>3. PICK left : left = Delete(rows, S)
  OBVIOUS
<1>4. PICK answers : answers = Answers(S, links, Known, Text(disk), names)
  OBVIOUS
<1>5. PICK pass : pass = resolveAll(answers, Text(disk), names, order)
  OBVIOUS
<1>6. /\ links' = insertEdges(links, SetToBag(pass.new), Known)
      /\ chainQueue' = chainQueue (+) pass.chains
      /\ thisQueue' = thisQueue (+) pass.thises
      /\ pc' = IF pass.new = {} \/ Len(left) >= pc.remaining
               THEN [pc EXCEPT !.at = "last"] ELSE [pc EXCEPT !.remaining = Len(left)]
      /\ rows' = left /\ rows # <<>> /\ disk' = disk
  BY <1>2, <1>3, <1>4, <1>5, Zenon DEF Batch
<1>7. /\ \A e \in pass.new : e.site \in S
      /\ \A d, e \in pass.new : d.site = e.site => d = e
      /\ Waits(pass.chains) /\ Waits(pass.thises)
  BY <1>4, <1>5, FirstPass
<1>8. S \subseteq ToSet(rows)
  <2>1. PICK m : m = Min({pc.size, Len(rows)})
    OBVIOUS
  <2>2. Len(rows) \in Nat \ {0} /\ pc.size \in Nat
    BY <1>1, <1>6
  <2>3. m \in Nat /\ m <= Len(rows)
    BY <2>1, <2>2 DEF Min
  <2>4. \A i \in 1..m : i \in 1..Len(rows) /\ SubSeq(rows, 1, m)[i] = rows[i]
    BY <1>1, <2>2, <2>3
  <2>5. DOMAIN SubSeq(rows, 1, m) = 1..m /\ DOMAIN rows = 1..Len(rows)
    BY <1>1, <2>2, <2>3
  <2> QED BY <1>2, <2>1, <2>4, <2>5 DEF ToSet
<1>9. left \in Seq(Site) /\ ToSet(left) \subseteq ToSet(rows) \ S
  BY <1>1, <1>3, DeleteLeaves
<1>10. Single(insertEdges(links, SetToBag(pass.new), Known), ToSet(left))
  <2>1. \A e \in pass.new : e.site \in ToSet(rows) \ ToSet(left)
    BY <1>7, <1>8, <1>9
  <2>2. ToSet(left) \subseteq ToSet(rows)
    BY <1>9
  <2> QED BY <1>1, <1>7, <2>1, <2>2, InsertNew
<1>11. Single(links, ToSet(rows))'
  BY <1>6, <1>10, Zenon DEF Single, ToSet
<1>12. Waits(chainQueue)' /\ Waits(thisQueue)'
  <2>1. Waits(chainQueue (+) pass.chains) /\ Waits(thisQueue (+) pass.thises)
    BY <1>1, <1>7, WaitsUnion
  <2> QED BY <1>6, <2>1, Zenon DEF Waits
<1>13. pc' \in [at : {"idle", "batch", "last"}, size : Nat \ {0}, remaining : Nat]
  <2>1. Len(left) \in Nat
    BY <1>9
  <2> QED BY <1>1, <1>6, <2>1
<1> QED BY <1>1, <1>6, <1>9, <1>11, <1>12, <1>13 DEF TableInv

LEMMA FinishKeeps ==
    ASSUME TableInv, NEW order, Finish(order)
    PROVE  TableInv'
<1>1. Single(LastPasses(links, Known, chainQueue, thisQueue, order), ToSet(rows))
  BY LastPassesSingle DEF TableInv
<1>2. /\ links' = LastPasses(links, Known, chainQueue, thisQueue, order)
      /\ chainQueue' = EmptyBag /\ thisQueue' = EmptyBag /\ pc' = AtRest /\ disk' = disk /\ rows' = rows
  BY DEF Finish
<1>3. Single(links, ToSet(rows))'
  BY <1>1, <1>2, Zenon DEF Single, ToSet
<1>4. Waits(chainQueue)' /\ Waits(thisQueue)'
  BY <1>2, WaitsEmpty, Zenon DEF Waits
<1>5. pc' \in [at : {"idle", "batch", "last"}, size : Nat \ {0}, remaining : Nat]
  BY <1>2 DEF AtRest
<1> QED BY <1>2, <1>3, <1>4, <1>5 DEF TableInv

LEMMA SyncKeeps ==
    ASSUME TableInv, NEW scan \in ScanOrders, NEW order, Sync(scan, order)
    PROVE  TableInv'
<1>1. PICK db : db = Extract(Differing, scan)
  OBVIOUS
<1>2. db.rows \in Seq(Site) /\ Single(db.links, ToSet(db.rows))
  <2>1. Differing \in SUBSET File
    BY DEF Differing
  <2> QED BY <1>1, <2>1, ExtractSingle
<1>3. disk' = disk /\ pc' = pc /\ Waits(chainQueue) /\ Waits(thisQueue)
      /\ disk \in Disks /\ pc \in [at : {"idle", "batch", "last"}, size : Nat \ {0}, remaining : Nat]
  BY DEF Sync, TableInv
<1>4. CASE Differing \cap Present = {}
  <2>1. links' = db.links /\ rows' = db.rows /\ UNCHANGED <<chainQueue, thisQueue>>
    BY <1>1, <1>4 DEF Sync
  <2>2. Single(links, ToSet(rows))'
    BY <1>2, <2>1, Zenon DEF Single, ToSet
  <2> QED BY <1>2, <1>3, <2>1, <2>2 DEF TableInv, Waits
<1>5. CASE Differing \cap Present # {}
  <2>1. PICK known : known = NodesOf(db.stored)
    OBVIOUS
  <2>2. PICK nms : nms = Warm(names, known)
    OBVIOUS
  <2>3. PICK S : S = {s \in ToSet(db.rows) : FileOf(s) \in Differing}
    OBVIOUS
  <2>4. SyncResolves(db, known, nms, S, order)
    BY <1>1, <1>5, <2>1, <2>2, <2>3, Zenon DEF Sync
  <2>5. PICK answers : answers = Answers(S, db.links, known, Text(disk), nms)
    OBVIOUS
  <2>6. PICK pass : pass = resolveAll(answers, Text(disk), nms, order)
    OBVIOUS
  <2>7. PICK chains : chains = chainQueue (+) pass.chains
    OBVIOUS
  <2>8. PICK thises : thises = thisQueue (+) pass.thises
    OBVIOUS
  <2>9. PICK done : done = {e.site : e \in pass.new}
    OBVIOUS
  <2>10. /\ links' = LastPasses(insertEdges(db.links, SetToBag(pass.new), known), known, chains, thises, order)
         /\ rows' = Delete(db.rows, done)
         /\ chainQueue' = EmptyBag /\ thisQueue' = EmptyBag
    BY <2>4, <2>5, <2>6, <2>7, <2>8, <2>9, Zenon DEF SyncResolves
  <2>11. /\ \A e \in pass.new : e.site \in S
         /\ \A d, e \in pass.new : d.site = e.site => d = e
         /\ Waits(pass.chains) /\ Waits(pass.thises)
    BY <2>5, <2>6, FirstPass
  <2>12. PICK left : left = Delete(db.rows, done)
    OBVIOUS
  <2>13. left \in Seq(Site) /\ ToSet(left) \subseteq ToSet(db.rows) \ done
    BY <1>2, <2>12, DeleteLeaves
  <2>14. Single(insertEdges(db.links, SetToBag(pass.new), known), ToSet(left))
    <3>1. \A e \in pass.new : e.site \in ToSet(db.rows) \ ToSet(left)
      BY <2>3, <2>9, <2>11, <2>13
    <3>2. ToSet(left) \subseteq ToSet(db.rows)
      BY <2>13
    <3> QED BY <1>2, <2>11, <3>1, <3>2, InsertNew
  <2>15. Waits(chains) /\ Waits(thises)
    BY <1>3, <2>7, <2>8, <2>11, WaitsUnion
  <2>16. Single(LastPasses(insertEdges(db.links, SetToBag(pass.new), known), known, chains, thises, order), ToSet(left))
    BY <2>14, <2>15, LastPassesSingle
  <2>17. rows' = left
    BY <2>10, <2>12
  <2>18. Single(links, ToSet(rows))'
    BY <2>10, <2>16, <2>17, Zenon DEF Single, ToSet
  <2>19. Waits(chainQueue)' /\ Waits(thisQueue)'
    BY <2>10, WaitsEmpty, Zenon DEF Waits
  <2> QED BY <1>3, <2>13, <2>17, <2>18, <2>19 DEF TableInv
<1> QED BY <1>4, <1>5

LEMMA ClearKeeps ==
    ASSUME TableInv, Clear
    PROVE  TableInv'
<1>1. rows' = <<>> /\ links' = EmptyBag /\ UNCHANGED <<disk, chainQueue, thisQueue, pc>>
  BY DEF Clear
<1>2. Single(links, ToSet(rows))'
  BY <1>1 DEF Single, EmptyBag, SetToBag
<1> QED BY <1>1, <1>2 DEF TableInv, Waits

LEMMA InterruptKeeps ==
    ASSUME TableInv, NEW dies \in BOOLEAN, Interrupt(dies)
    PROVE  TableInv'
<1>1. rows' = rows /\ links' = links /\ disk' = disk /\ pc' = AtRest
  BY DEF Interrupt
<1>2. \/ chainQueue' = EmptyBag /\ thisQueue' = EmptyBag
      \/ UNCHANGED <<chainQueue, thisQueue>>
  BY DEF Interrupt
<1>3. Waits(chainQueue)' /\ Waits(thisQueue)'
  BY <1>2, WaitsEmpty, Zenon DEF Waits, TableInv
<1>4. pc' \in [at : {"idle", "batch", "last"}, size : Nat \ {0}, remaining : Nat]
  BY <1>1 DEF AtRest
<1>5. Single(links, ToSet(rows))'
  BY <1>1, Zenon DEF Single, ToSet, TableInv
<1> QED BY <1>1, <1>3, <1>4, <1>5 DEF TableInv

(* The invariant, through every step of the resolver.                      *)
LEMMA TableStep ==
    ASSUME TableInv, [ResolverNext]_resolverVars
    PROVE  TableInv'
<1>1. CASE UNCHANGED resolverVars
  <2>1. UNCHANGED <<disk, rows, links, chainQueue, thisQueue, pc>>
    BY <1>1 DEF resolverVars
  <2>2. Single(links, ToSet(rows))'
    BY <2>1, Zenon DEF TableInv, Single, ToSet
  <2>3. Waits(chainQueue)' /\ Waits(thisQueue)'
    BY <2>1, Zenon DEF TableInv, Waits
  <2> QED BY <2>1, <2>2, <2>3 DEF TableInv
<1>2. ASSUME NEW d \in Disks, Edit(d) PROVE TableInv'
  <2>1. disk' \in Disks /\ rows' = rows /\ links' = links /\ chainQueue' = chainQueue /\ thisQueue' = thisQueue /\ pc' = pc
    BY <1>2 DEF Edit
  <2>2. Single(links, ToSet(rows))'
    BY <2>1, Zenon DEF TableInv, Single, ToSet
  <2>3. Waits(chainQueue)' /\ Waits(thisQueue)'
    BY <2>1, Zenon DEF TableInv, Waits
  <2> QED BY <2>1, <2>2, <2>3 DEF TableInv
<1> QED BY <1>1, <1>2, IndexKeeps, BatchKeeps, FinishKeeps, SyncKeeps, ClearKeeps, InterruptKeeps DEF ResolverNext

(* Whatever is indexed, synced, edited and interrupted, in whatever order: *)
(* a reference that is not put off has one edge at most                    *)
(* (resolveAndPersistBatched, resolveAndPersist: "the unresolved_refs      *)
(* table MUST shrink").                                                    *)
THEOREM OneEdgePerSiteHolds == ResolverSpec => []OneEdgePerSite
<1>1. ResolverInit => TableInv
  BY TableInit
<1>2. TableInv /\ [ResolverNext]_resolverVars => TableInv'
  BY TableStep
<1>3. TableInv => OneEdgePerSite
  BY DEF TableInv, Single, OneEdgePerSite, AtOnce
<1> QED BY <1>1, <1>2, <1>3, PTL DEF ResolverSpec
=============================================================================
