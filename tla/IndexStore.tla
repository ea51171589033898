----------------------------- MODULE IndexStore -----------------------------
(***************************************************************************)
(* The index on disk and the one operation that writes it at a time        *)
(* (Mutex and FileLock see to that): ExtractionOrchestrator.sync, indexAll *)
(* and indexFiles with storeExtractionResult (codegraph/src/extraction/    *)
(* index.ts), the rows they write (codegraph/src/db/queries.ts) and the    *)
(* resolution that follows in CodeGraph.sync (codegraph/src/index.ts).     *)
(*                                                                         *)
(* One action per database transaction or file-system call: between two of *)
(* them an editor may write a source file and the process may die.  The    *)
(* database keeps what its committed transactions wrote.                   *)
(*                                                                         *)
(* A content stands for what the extractor finds in it: the symbols it     *)
(* defines, each at a line, and who calls whom.  A node id is a hash of    *)
(* file, kind, name and line, so a node is that tuple.  Size and mtime are *)
(* one stamp that every edit renews.  Edges inside a file come and go with *)
(* its nodes and are left out.                                             *)
(***************************************************************************)
EXTENDS Naturals, FiniteSets

CONSTANTS File, Symbol, Content,
          Versions,     \* Versions[f]: the contents file f may have
          Defines,      \* Defines[c]: <<symbol, line>> pairs
          Calls,        \* Calls[c]: <<caller, callee>> pairs of symbols
          SimpleName,   \* SimpleName[s]: kind and name of s, without its class
          Unstorable,   \* contents that are too large, or fail to parse
          Absent, NoRecord,
          Operations,   \* what callers use: some of "sync", "files", "full"
          MaxEdits,     \* bound: edits in a behaviour
          MaxCrashes    \* bound: crashes in a behaviour

ASSUME StoreAssumption ==
    /\ Versions \in [File -> SUBSET Content]
    /\ Defines \in [Content -> SUBSET (Symbol \X Nat)]
    /\ Calls \in [Content -> SUBSET (Symbol \X Symbol)]
    /\ \A c \in Content : /\ IsFiniteSet(Defines[c])
                          /\ \A p \in Calls[c] : \E d \in Defines[c] : d[1] = p[1]
    /\ Unstorable \subseteq Content
    /\ Absent \notin Content
    /\ NoRecord \notin [content : Content, stamp : Nat]
    /\ Operations \subseteq {"sync", "files", "full"}
    /\ MaxEdits \in Nat /\ MaxCrashes \in Nat

VARIABLES disk, stamp, clock,          \* the source tree; clock counts edits
          nodes, edges, refs, record,  \* the tables nodes, edges, unresolved_refs, files
          pc, mode,                    \* where the operation is, and which it is
          present, tracked, todo,      \* sync(): currentFiles, trackedMap, loop rest
          queue, changed,              \* filesToIndex, changedFilePaths
          cur, got, incoming,          \* the file at hand, what was read of it, its
                                       \* crossFileIncomingEdges
          crashes,
          before, excused, complete,   \* history: the calls linked when the last
                                       \* complete operation ended, the files that
                                       \* sync removed or indexFiles was given since,
                                       \* and whether the last operation completed
          torn                         \* history: the files that were edited after
                                       \* indexAll had read them, before it took their
                                       \* stamp

world == <<disk, stamp, clock>>
database == <<nodes, edges, refs, record>>
loops == <<mode, present, tracked, todo, queue, changed>>
atHand == <<cur, got, incoming>>
history == <<before, excused, complete, torn>>
vars == <<world, database, pc, loops, atHand, crashes, history>>

Node(f, s, l) == [file |-> f, symbol |-> s, line |-> l]
NodesOf(f, c) == {Node(f, d[1], d[2]) : d \in Defines[c]}
CallsOf(f, c) == {r \in [from : NodesOf(f, c), symbol : Symbol] :
                        <<r.from.symbol, r.symbol>> \in Calls[c]}

(* The symbols that f defines at some time.                                *)
Vocabulary(f) == {d[1] : d \in UNION {Defines[c] : c \in Versions[f]}}

(* No two files define the same symbol, and no two symbols of a file have  *)
(* the same kind and simple name, as two methods of two classes would: the *)
(* code tells such symbols apart neither when it puts incoming edges back  *)
(* nor, as far as this module goes, when it resolves a call.               *)
Unambiguous ==
    /\ \A f, g \in File : f # g => Vocabulary(f) \cap Vocabulary(g) = {}
    /\ \A f \in File : \A s, t \in Vocabulary(f) : SimpleName[s] = SimpleName[t] => s = t

Links == {<<e.from.file, e.from.symbol, e.to.file, e.to.symbol>> : e \in edges}

NothingRead == [content |-> Absent, stamp |-> 0]

Init ==
    /\ disk \in [File -> Content \cup {Absent}]
    /\ \A f \in File : disk[f] \in Versions[f] \cup {Absent}
    /\ stamp = [f \in File |-> 0] /\ clock = 0
    /\ nodes = {} /\ edges = {} /\ refs = {}
    /\ record = [f \in File |-> NoRecord]
    /\ pc = "idle" /\ mode = "sync"
    /\ present = {} /\ tracked = [f \in File |-> NoRecord]
    /\ todo = {} /\ queue = {} /\ changed = {}
    /\ cur \in File /\ got = NothingRead /\ incoming = {}
    /\ crashes = 0
    /\ before = {} /\ excused = {} /\ complete = TRUE /\ torn = {}
-----------------------------------------------------------------------------
Edit(f) ==
    /\ clock < MaxEdits
    /\ clock' = clock + 1
    /\ \E c \in (Versions[f] \cup {Absent}) \ {disk[f]} : disk' = [disk EXCEPT ![f] = c]
    /\ stamp' = [stamp EXCEPT ![f] = clock + 1]
    /\ UNCHANGED <<database, pc, loops, atHand, crashes, history>>

(* Rows of deleted nodes go with them: ON DELETE CASCADE.                  *)
DeleteNodes(N) ==
    /\ nodes' = nodes \ N
    /\ edges' = {e \in edges : e.from \notin N /\ e.to \notin N}
    /\ refs' = {r \in refs : r.from \notin N}

(* Mutant: only the record of the file is deleted.                         *)
BugKeepsNodes(f) ==
    /\ record' = [record EXCEPT ![f] = NoRecord]
    /\ UNCHANGED <<nodes, edges, refs>>

deleteFile(f) ==
    /\ DeleteNodes({n \in nodes : n.file = f})
    /\ record' = [record EXCEPT ![f] = NoRecord]

Begin(op) ==
    /\ pc = "idle" /\ op \in Operations
    /\ mode' = op
    /\ before' = IF complete THEN Links ELSE before
    /\ complete' = FALSE

(* The locals of an operation that is over.                                *)
Forgotten ==
    /\ present' = {} /\ tracked' = [f \in File |-> NoRecord]
    /\ todo' = {} /\ queue' = {} /\ changed' = {}
    /\ got' = NothingRead /\ incoming' = {}

Excused == IF complete THEN {} ELSE excused
-----------------------------------------------------------------------------
(* sync(): what is there, what is gone, what differs.                      *)

Scan ==
    /\ Begin("sync")
    /\ present' = {f \in File : disk[f] # Absent}
    /\ tracked' = record
    /\ todo' = {f \in File : record[f] # NoRecord}
    /\ queue' = {} /\ changed' = {}
    /\ excused' = Excused
    /\ pc' = "prune"
    /\ UNCHANGED <<world, database, atHand, crashes, torn>>

Prune(f) ==
    /\ pc = "prune" /\ f \in todo
    /\ todo' = todo \ {f}
    /\ IF f \notin present \/ disk[f] = Absent
       THEN deleteFile(f) /\ excused' = excused \cup {f}
       ELSE UNCHANGED <<database, excused>>
    /\ UNCHANGED <<world, pc, mode, present, tracked, queue, changed, atHand, crashes,
                   before, complete, torn>>

PruneDone ==
    /\ pc = "prune" /\ todo = {}
    /\ pc' = "check" /\ todo' = present
    /\ UNCHANGED <<world, database, mode, present, tracked, queue, changed, atHand,
                   crashes, history>>

(* Mutant: the prefilter compares the size alone, which an edit may keep.  *)
BugSameSize(f) == tracked[f] # NoRecord

(* The prefilter on size and mtime, against the records read by Scan.      *)
Unchanged(f) == tracked[f] # NoRecord /\ tracked[f].stamp = stamp[f]

Differs(f) ==
    /\ disk[f] # Absent
    /\ ~Unchanged(f)
    /\ tracked[f] = NoRecord \/ tracked[f].content # disk[f]

Check(f) ==
    /\ pc = "check" /\ f \in todo
    /\ todo' = todo \ {f}
    /\ queue' = IF Differs(f) THEN queue \cup {f} ELSE queue
    /\ UNCHANGED <<world, database, pc, mode, present, tracked, changed, atHand, crashes,
                   history>>

CheckDone ==
    /\ pc = "check" /\ todo = {}
    /\ pc' = "next" /\ changed' = queue
    /\ UNCHANGED <<world, database, mode, present, tracked, todo, queue, atHand, crashes,
                   history>>

(* indexFiles(), and indexAll() on the files it found.                     *)
BeginFiles(op) ==
    /\ op \in {"files", "full"}
    /\ Begin(op)
    /\ IF op = "full" THEN queue' = {f \in File : disk[f] # Absent}
       ELSE \E S \in SUBSET File \ {{}} : queue' = S
    /\ excused' = Excused \cup (IF op = "files" THEN queue' ELSE {})
    /\ changed' = {} /\ pc' = "next"
    /\ UNCHANGED <<world, database, present, tracked, todo, atHand, crashes, torn>>
-----------------------------------------------------------------------------
(* One file: indexFile() stats and then reads it, indexAll() reads and     *)
(* then stats it.                                                          *)

(* Mutant: indexFile() too reads before it stats.                          *)
BugReadFirst(statFirst, readFirst) == readFirst

ByMode(statFirst, readFirst) == IF mode = "full" THEN readFirst ELSE statFirst

NextFile(f) ==
    /\ pc = "next" /\ f \in queue
    /\ queue' = queue \ {f} /\ cur' = f
    /\ got' = NothingRead /\ incoming' = {}
    /\ pc' = ByMode("stat", "read")
    /\ UNCHANGED <<world, database, mode, present, tracked, todo, changed, crashes, history>>

StatFile ==
    /\ pc = "stat"
    /\ \/ /\ disk[cur] = Absent
          /\ pc' = "next" /\ UNCHANGED <<got, torn>>
       \/ /\ disk[cur] # Absent
          /\ pc' = ByMode("read", "store") /\ got' = [got EXCEPT !.stamp = stamp[cur]]
          /\ torn' = IF mode = "full" /\ got.content # disk[cur] THEN torn \cup {cur} ELSE torn
    /\ UNCHANGED <<world, database, loops, cur, incoming, crashes, before, excused, complete>>

ReadFile ==
    /\ pc = "read"
    /\ IF disk[cur] = Absent
       THEN pc' = "next" /\ UNCHANGED got
       ELSE pc' = ByMode("store", "stat") /\ got' = [got EXCEPT !.content = disk[cur]]
    /\ UNCHANGED <<world, database, loops, cur, incoming, crashes, history>>
-----------------------------------------------------------------------------
(* storeExtractionResult(), one action per transaction.                    *)

SameContent == record[cur] # NoRecord /\ record[cur].content = got.content

(* Mutant: the snapshot is taken after the file's rows are gone.           *)
BugNoSnapshot == {}

IncomingEdges ==
    {[from |-> e.from, name |-> SimpleName[e.to.symbol]] :
        e \in {x \in edges : x.to.file = cur /\ x.from.file # cur}}

Store ==
    /\ pc = "store"
    /\ \/ /\ got.content \in Unstorable \/ SameContent
          /\ pc' = "next" /\ UNCHANGED incoming
       \/ /\ got.content \notin Unstorable /\ ~SameContent
          /\ IF record[cur] = NoRecord
             THEN pc' = "nodes" /\ UNCHANGED incoming
             ELSE pc' = "delete" /\ incoming' = IncomingEdges
    /\ UNCHANGED <<world, database, loops, cur, got, crashes, history>>

DeleteOld ==
    /\ pc = "delete"
    /\ deleteFile(cur)
    /\ pc' = "nodes"
    /\ UNCHANGED <<world, loops, atHand, crashes, history>>

(* INSERT OR REPLACE: a row with the same id is deleted first, with what   *)
(* refers to it.                                                           *)
InsertNodes ==
    /\ pc = "nodes"
    /\ LET new == NodesOf(cur, got.content) IN
        /\ nodes' = nodes \cup new
        /\ edges' = {e \in edges : e.from \notin new /\ e.to \notin new}
        /\ refs' = {r \in refs : r.from \notin new}
    /\ pc' = "incoming"
    /\ UNCHANGED <<world, record, loops, atHand, crashes, history>>

(* newNodesByKindName keeps the last node of each kind and name.           *)
NewTarget(name) ==
    LET same == {n \in NodesOf(cur, got.content) : SimpleName[n.symbol] = name}
    IN {n \in same : \A m \in same : m.line <= n.line}

InsertIncoming ==
    /\ pc = "incoming"
    /\ edges' = edges \cup UNION {{[from |-> i.from, to |-> n] : n \in NewTarget(i.name)} :
                                     i \in {j \in incoming : j.from \in nodes}}
    /\ pc' = "refs"
    /\ UNCHANGED <<world, nodes, refs, record, loops, atHand, crashes, history>>

InsertRefs ==
    /\ pc = "refs"
    /\ refs' = refs \cup CallsOf(cur, got.content)
    /\ pc' = "record"
    /\ UNCHANGED <<world, nodes, edges, record, loops, atHand, crashes, history>>

UpsertFile ==
    /\ pc = "record"
    /\ record' = [record EXCEPT ![cur] = got]
    /\ pc' = "next"
    /\ UNCHANGED <<world, nodes, edges, refs, loops, atHand, crashes, history>>
-----------------------------------------------------------------------------
(* After the last file: resolution of the changed files' references, or of *)
(* all of them after indexAll(); none after indexFiles().                  *)

FilesDone ==
    /\ pc = "next" /\ queue = {}
    /\ \/ /\ mode = "full" \/ changed # {}
          /\ pc' = "resolve"
          /\ UNCHANGED <<loops, atHand, complete>>
       \/ /\ mode # "full" /\ changed = {}
          /\ pc' = "idle" /\ complete' = TRUE
          /\ Forgotten /\ UNCHANGED <<mode, cur>>
    /\ UNCHANGED <<world, database, crashes, before, excused, torn>>

Scope == {r \in refs : mode = "full" \/ r.from.file \in changed}
Resolvable == {r \in Scope : \E n \in nodes : n.symbol = r.symbol}

ResolveEdges ==
    /\ pc = "resolve"
    /\ \E target \in [Resolvable -> nodes] :
        /\ \A r \in Resolvable : target[r].symbol = r.symbol
        /\ edges' = edges \cup {[from |-> r.from, to |-> target[r]] : r \in Resolvable}
    /\ pc' = "forget"
    /\ UNCHANGED <<world, nodes, refs, record, loops, atHand, crashes, history>>

ForgetRefs ==
    /\ pc = "forget"
    /\ refs' = refs \ (IF mode = "full" THEN Scope ELSE Resolvable)
    /\ pc' = "idle" /\ complete' = TRUE
    /\ Forgotten
    /\ UNCHANGED <<world, nodes, edges, record, mode, cur, crashes, before, excused, torn>>

(* The process dies, or a statement throws and the operation is abandoned. *)
Crash ==
    /\ pc # "idle" /\ crashes < MaxCrashes
    /\ crashes' = crashes + 1
    /\ pc' = "idle"
    /\ Forgotten
    /\ UNCHANGED <<world, database, mode, cur, history>>

Step ==
    \/ Scan \/ PruneDone \/ CheckDone \/ FilesDone
    \/ \E f \in File : Prune(f) \/ Check(f) \/ NextFile(f)
    \/ StatFile \/ ReadFile \/ Store \/ DeleteOld \/ InsertNodes \/ InsertIncoming
    \/ InsertRefs \/ UpsertFile \/ ResolveEdges \/ ForgetRefs

Next ==
    \/ \E f \in File : Edit(f)
    \/ \E op \in {"files", "full"} : BeginFiles(op)
    \/ Step \/ Crash

Spec == Init /\ [][Next]_vars

(* The watcher, the hooks or the user run sync again and again, and an     *)
(* operation goes on to its end.                                           *)
FairSpec == Spec /\ WF_vars(Step) /\ SF_vars(Scan)
-----------------------------------------------------------------------------
Reading == {"stat", "read", "store"}
Storing == {"store", "delete", "nodes", "incoming", "refs", "record"}

TypeOK ==
    /\ disk \in [File -> Content \cup {Absent}] /\ stamp \in [File -> Nat] /\ clock \in Nat
    /\ nodes \subseteq [file : File, symbol : Symbol, line : Nat]
    /\ edges \subseteq [from : nodes, to : nodes]
    /\ refs \subseteq [from : nodes, symbol : Symbol]
    /\ record \in [File -> [content : Content, stamp : Nat] \cup {NoRecord}]
    /\ tracked \in [File -> [content : Content, stamp : Nat] \cup {NoRecord}]
    /\ pc \in {"idle", "prune", "check", "next", "resolve", "forget"} \cup Reading \cup Storing
    /\ mode \in {"sync", "files", "full"}
    /\ present \subseteq File /\ todo \subseteq File /\ queue \subseteq File
    /\ changed \subseteq File /\ cur \in File
    /\ got \in [content : Content \cup {Absent}, stamp : Nat]
    /\ \A i \in incoming : i.from.file # cur
    /\ crashes \in 0..MaxCrashes
    /\ excused \subseteq File /\ torn \subseteq File /\ complete \in BOOLEAN

(* A file that sync's prefilter will skip is indexed at the content it has *)
(* on disk: a stamp is recorded only with content at least as new, but for *)
(* a file edited between the two calls of indexAll.                        *)
PrefilterSound ==
    \A f \in File \ torn : record[f] # NoRecord /\ record[f].stamp = stamp[f]
                                => record[f].content = disk[f]

(* Until the first crash, a recorded file has exactly the nodes of its     *)
(* recorded content, except while that file is being stored.               *)
RecordedFileIsWhole ==
    crashes = 0 =>
        \A f \in File : record[f] # NoRecord /\ ~(pc \in Storing /\ cur = f)
                            => {n \in nodes : n.file = f} = NodesOf(f, record[f].content)

RecordedSymbols(f) ==
    IF record[f] = NoRecord THEN {} ELSE {d[1] : d \in Defines[record[f].content]}
RecordedCalls(f) == IF record[f] = NoRecord THEN {} ELSE Calls[record[f].content]

(* Until the first crash, a call that was linked before an operation is    *)
(* linked after it, if the caller still makes it and the callee's file,    *)
(* never removed on the way, still defines the callee.  (indexFiles leaves *)
(* the references of the files it is given unresolved.)                    *)
CallersKept ==
    pc = "idle" /\ complete /\ crashes = 0 =>
        \A l \in before : /\ <<l[2], l[4]>> \in RecordedCalls(l[1])
                          /\ l[4] \in RecordedSymbols(l[3])
                          /\ (IF mode = "files" THEN l[1] ELSE l[3]) \notin excused
                          => l \in Links

(* Once editing stops, repeated syncs bring every file that can be indexed *)
(* to its content on disk and drop the deleted ones, through crashes,      *)
(* except one that indexAll has left with a stamp newer than its content.  *)
CatchesUp ==
    \A f \in File : <>[](\/ disk[f] = Absent /\ record[f] = NoRecord
                         \/ disk[f] \in Unstorable \/ f \in torn
                         \/ record[f] # NoRecord /\ record[f].content = disk[f])
=============================================================================
