SPECIFICATION MCSpec
CONSTANTS
    n1 = n1
    n2 = n2
    n3 = n3
    n4 = n4
    Node = {n1, n2, n3, n4}
    NodeKind <- MCNodeKind
    EdgeKind <- MCEdgeKind
    NoEdge = NoEdge
    NoPath = NoPath
    Graphs <- MCGraphs
    Starts = {n1}
    Requests <- MCRequests
    PathQueries <- MCQueries
    SourceFile = {n1, n2, n3}
    FileOfNode <- MCFileOf
INVARIANTS SearchIsExact DepthSearches PathIsShortest CyclesAreFound
