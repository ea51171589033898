----------------------------- MODULE FileCycles -----------------------------
(***************************************************************************)
(* GraphQueryManager.findCircularDependencies (codegraph/src/graph/        *)
(* queries.ts): a depth-first search over the files, its recursion a stack *)
(* of calls, each with the dependencies it has still to look at.           *)
(***************************************************************************)
EXTENDS EdgeTable, FiniteSets, FiniteSetsExt

CONSTANTS SourceFile, FileOfNode    \* the files, and the file of every node

ASSUME FilesAssumption == IsFiniteSet(SourceFile) /\ FileOfNode \in [Node -> SourceFile]

VARIABLES unstarted,        \* files the outer loop has still to look at
          calls,            \* dfs: [file, todo]
          searched,         \* visited
          recursionStack,
          cycles            \* the result

cycleVars == <<graph, unstarted, calls, searched, recursionStack, cycles>>

(* A dependency of files is an edge between their symbols.                 *)
CrossFile(g) == {e \in Rows(g) : e.kind # "contains" /\ FileOfNode[e.source] # FileOfNode[e.target]}

getFileDependencies(g, f) == {FileOfNode[e.target] : e \in {d \in CrossFile(g) : FileOfNode[d.source] = f}}

CyclesCalled ==
    /\ unstarted = SourceFile
    /\ calls = <<>> /\ searched = {} /\ recursionStack = {} /\ cycles = {}

CyclesInit == graph \in Graphs /\ CyclesCalled

(* The files of the calls, from the first call for f on.                   *)
Cycle(f) ==
    LET I == {i \in DOMAIN calls : calls[i].file = f} IN
    IF I = {} THEN {} ELSE {[k \in 1..(Len(calls) - Min(I) + 1) |-> calls[Min(I) + k - 1].file]}

(* Mutant: a file that was visited is not looked for on the stack.         *)
BugOnStack(f) == f \in recursionStack /\ f \notin searched

OnStack(f) == f \in recursionStack

(* dfs(f), up to its loop, above the calls of a stack.                     *)
Enter(f, stack) ==
    IF OnStack(f) THEN
        /\ cycles' = cycles \cup Cycle(f)
        /\ calls' = stack /\ UNCHANGED <<searched, recursionStack>>
    ELSE IF f \in searched THEN calls' = stack /\ UNCHANGED <<searched, recursionStack, cycles>>
    ELSE
        /\ searched' = searched \cup {f} /\ recursionStack' = recursionStack \cup {f}
        /\ calls' = Append(stack, [file |-> f, todo |-> getFileDependencies(graph, f)])
        /\ UNCHANGED cycles

(* The outer loop takes the next file.                                     *)
Root(f) ==
    /\ calls = <<>> /\ f \in unstarted
    /\ unstarted' = unstarted \ {f}
    /\ IF f \in searched THEN UNCHANGED <<calls, searched, recursionStack, cycles>> ELSE Enter(f, calls)
    /\ UNCHANGED graph

(* The last call takes its next dependency.                                *)
Descend(f) ==
    /\ calls # <<>> /\ f \in calls[Len(calls)].todo
    /\ Enter(f, [calls EXCEPT ![Len(calls)].todo = @ \ {f}])
    /\ UNCHANGED <<graph, unstarted>>

(* The last call returns.                                                  *)
Leave ==
    /\ calls # <<>> /\ calls[Len(calls)].todo = {}
    /\ recursionStack' = recursionStack \ {calls[Len(calls)].file}
    /\ calls' = SubSeq(calls, 1, Len(calls) - 1)
    /\ UNCHANGED <<graph, unstarted, searched, cycles>>

AllSearched == calls = <<>> /\ unstarted = {}

CyclesNext ==
    \/ \E f \in SourceFile : Root(f) \/ Descend(f)
    \/ Leave
    \/ AllSearched /\ UNCHANGED cycleVars

CyclesSpec == CyclesInit /\ [][CyclesNext]_cycleVars
-----------------------------------------------------------------------------
CyclesTypeOK ==
    /\ graph \in Graph /\ unstarted \subseteq SourceFile
    /\ calls \in Seq([file : SourceFile, todo : SUBSET SourceFile])
    /\ searched \subseteq SourceFile /\ recursionStack \subseteq SourceFile
    /\ cycles \subseteq Seq(SourceFile)

Depends(f, h) == h \in getFileDependencies(graph, f)

(* A way along m dependencies that ends where it began.                    *)
Circle(m) == \E p \in [0..m -> SourceFile] : p[0] = p[m] /\ \A i \in 0..(m-1) : Depends(p[i], p[i+1])

(* Each cycle that is reported is one, and when none was there is none.    *)
CyclesAreFound ==
    /\ \A c \in cycles :
          /\ c # <<>> /\ Depends(c[Len(c)], c[1])
          /\ \A i \in 1..(Len(c)-1) : Depends(c[i], c[i+1])
    /\ AllSearched /\ cycles = {} => \A m \in 1..Cardinality(SourceFile) : ~Circle(m)
=============================================================================
