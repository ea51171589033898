----------------------------- MODULE Resolver ------------------------------
(***************************************************************************)
(* The reference resolver (codegraph/src/resolution/index.ts) under the    *)
(* facade's indexAll() and sync(): it turns the rows of unresolved_refs    *)
(* into edges.  indexAll() works in batches with an await between any two; *)
(* after that sync() does all in one turn.  What the first pass cannot     *)
(* decide before there are edges between types waits in two queues in      *)
(* memory.  The extraction is that of IndexStore, a file's content being   *)
(* its declarations, references, and import and re-export statements.      *)
(***************************************************************************)
EXTENDS NameMatch, Bags

CONSTANTS Content,      \* [nodes, refs, text] of a version of a file
          Disks,        \* the states a project may be in: a content, or None, for every file
          Orders,       \* in which the database may give rows: a place for each node
          ScanOrders,   \* in which files are extracted
          BatchSizes,
          MaxEdits, MaxFaults   \* bounds: edits; interruptions

(* The references of a file's content are made by its own declarations.    *)
ASSUME ResolverAssumption ==
    /\ \A d \in Disks, f \in File : d[f] # None =>
          /\ Content[d[f]].refs \in Seq(Site)
          /\ \A s \in ToSet(Content[d[f]].refs) : FileOf(s) = f
    /\ ScanOrders \subseteq Seq(File) /\ BatchSizes \subseteq Nat \ {0}

VARIABLES
    disk,       \* the content of every file
    stored,     \* the content the database has
    rows,       \* unresolved_refs, in order of insertion
    links,      \* the table edges: a bag of [site, target]
    chainQueue, thisQueue,      \* bags: deferredChainRefs, deferredThisMemberRefs
    names,      \* knownNames, or None
    pc,         \* resolveAndPersistBatched: [at, size, remaining]
    job,        \* history: the last job, the rows it had to look at, and whether it broke off
    edits, faults

resolverVars == <<disk, stored, rows, links, chainQueue, thisQueue, names, pc, job, edits, faults>>

NodesOf(st) == UNION {Content[st[f]].nodes : f \in {g \in File : st[g] # None}}
Known == NodesOf(stored)
Text(d) == [f \in {g \in File : d[g] # None} |-> Content[d[f]].text]
NamesOf(known) == {Decl[n].name : n \in known}

(* createEdges: the kind an edge gets.                                     *)
KindOf(s, n) ==
    CASE Ref[s].kind = "function_ref" -> "references"
      [] Ref[s].kind = "extends" /\ Decl[n].kind \in {"interface", "protocol"}
            /\ Decl[Ref[s].from].kind \notin {"interface", "protocol"} -> "implements"
      [] Ref[s].kind = "calls" /\ Decl[n].kind \in {"class", "struct"} -> "instantiates"
      [] OTHER -> Ref[s].kind

(* Which types are above which, by the edges there are.                    *)
Above(E) == {<<Ref[e.site].from, e.target>> : e \in {d \in DOMAIN E : KindOf(d.site, d.target) \in {"extends", "implements"}}}

(* insertEdges skips an edge without one of its nodes.                     *)
insertEdges(E, new, known) ==
    LET put == {e \in DOMAIN new : Ref[e.site].from \in known /\ e.target \in known} IN
    E (+) [e \in put |-> new[e]]

(* The first of the rows that match.                                       *)
Pick(C, order) == CHOOSE n \in C : \A m \in C : order[n] <= order[m]
-----------------------------------------------------------------------------
(* The first pass over some rows.                                          *)

Answers(S, E, known, text, nms) == LET above == Above(E) IN [s \in S |-> resolveOne(s, known, above, text, nms)]

ChainLanguages == {"java", "kotlin", "csharp", "swift", "rust", "go", "scala", "dart", "objc", "pascal"}

PutOff(answers, form, text, nms) ==
    SetToBag({s \in DOMAIN answers :
        /\ Ref[s].form = form /\ ~Sieved(s, nms, text) /\ answers[s] = {}
        /\ CASE form = "chain" -> Ref[s].kind = "calls" /\ Lang(s) \in ChainLanguages
             [] form = "this" -> Ref[s].kind = "function_ref" /\ ClassOf(s) # None})

(* resolveAll: the edges of what it resolves, and what it puts off.        *)
resolveAll(answers, text, nms, order) ==
    [new |-> {[site |-> s, target |-> Pick(answers[s], order)] : s \in {t \in DOMAIN answers : answers[t] # {}}},
     chains |-> PutOff(answers, "chain", text, nms),
     thises |-> PutOff(answers, "this", text, nms)]

Key(s) == <<Ref[s].from, Ref[s].kind, Ref[s].form, Ref[s].recv, Ref[s].name>>

(* Mutant: the key of what was resolved is that of no row (the Go          *)
(* fallback before it kept the original reference).                        *)
BugDelete(r, S) == r

(* The rows of some sites, in their order.                                 *)
Keep(r, S) == FlattenSeq([i \in DOMAIN r |-> IF r[i] \in S THEN <<r[i]>> ELSE <<>>])

(* deleteSpecificResolvedReferences: by source, name and kind.             *)
Delete(r, S) == Keep(r, {t \in Site : \A s \in S : Key(s) # Key(t)})
-----------------------------------------------------------------------------
(* The two passes at the end, which drain the queues.                      *)

Drain(E, waiting, found(_), known, order) ==
    LET new == {[site |-> s, target |-> Pick(found(s), order)] : s \in {t \in DOMAIN waiting : found(t) # {}}} IN
    insertEdges(E, [e \in new |-> waiting[e.site]], known)

resolveChainedCallsViaConformance(E, waiting, known, order) ==
    Drain(E, waiting, LAMBDA s : Gate(s, matchDottedCallChain(s, known, Above(E))), known, order)

resolveDeferredThisMemberRefs(E, waiting, known, order) ==
    Drain(E, waiting, LAMBDA s : IF Ref[s].from \in known THEN resolveInheritedMember(s, known, Above(E)) ELSE {},
          known, order)

LastPasses(E, known, chains, thises, order) ==
    resolveDeferredThisMemberRefs(resolveChainedCallsViaConformance(E, chains, known, order), thises, known, order)
-----------------------------------------------------------------------------
Idle == pc.at = "idle"
AtRest == [at |-> "idle", size |-> 1, remaining |-> 0]
NoJob == [kind |-> "none", todo |-> {}, broke |-> FALSE]

ResolverInit ==
    /\ disk \in Disks /\ stored = [f \in File |-> None]
    /\ rows = <<>> /\ links = EmptyBag
    /\ chainQueue = EmptyBag /\ thisQueue = EmptyBag /\ names = None
    /\ pc = AtRest /\ job = NoJob /\ edits = 0 /\ faults = 0

(* A file gets another content, appears or disappears.                     *)
Edit(d) ==
    /\ Idle /\ edits < MaxEdits
    /\ Cardinality({f \in File : d[f] # disk[f]}) = 1
    /\ disk' = d
    /\ edits' = edits + 1 /\ job' = NoJob
    /\ UNCHANGED <<stored, rows, links, chainQueue, thisQueue, names, pc, faults>>

(* Storing some files: rows and edges of the old declarations go, but for  *)
(* edges from other files to what is declared again; references come last. *)
Extract(F, scan) ==
    LET now == [f \in File |-> IF f \in F THEN disk[f] ELSE stored[f]]
        known == NodesOf(now)
        left == {e \in DOMAIN links : FileOf(e.site) \notin F /\ e.target \in known} IN
    [stored |-> now,
     links |-> [e \in left |-> links[e]],
     rows |-> Keep(rows, {s \in Site : FileOf(s) \notin F})
              \o FlattenSeq([i \in DOMAIN scan |-> IF scan[i] \in F /\ disk[scan[i]] # None
                                                   THEN Content[disk[scan[i]]].refs ELSE <<>>])]

Differing == {f \in File : disk[f] # stored[f]}
Present == {f \in File : disk[f] # None}

(* indexAll() up to the first batch: changed files are extracted, those    *)
(* that are gone stay; the caches are emptied, then warmed.  Rows left     *)
(* over from earlier jobs are in the table, whether a file changed or not. *)
Index(scan, size) ==
    LET F == Differing \cap Present
        db == Extract(F, scan) IN
    /\ Idle /\ Present # {}
    /\ stored' = db.stored /\ links' = db.links /\ rows' = db.rows
    /\ names' = NamesOf(NodesOf(db.stored))
    /\ pc' = [at |-> "batch", size |-> size, remaining |-> Len(db.rows) + 1]
    /\ job' = [kind |-> "index", todo |-> ToSet(db.rows), broke |-> FALSE]
    /\ UNCHANGED <<disk, chainQueue, thisQueue, edits, faults>>

(* One turn of the loop: a batch from the front of the table.  After the   *)
(* await a batch without a resolved row, or a table that has not shrunk,   *)
(* ends the loop.                                                          *)
Batch(order) ==
    LET S == ToSet(SubSeq(rows, 1, Min({pc.size, Len(rows)})))
        left == Delete(rows, S) IN
    /\ pc.at = "batch" /\ rows # <<>>
    /\ \E answers \in {Answers(S, links, Known, Text(disk), names)} :
       \E pass \in {resolveAll(answers, Text(disk), names, order)} :
          /\ links' = insertEdges(links, SetToBag(pass.new), Known)
          /\ chainQueue' = chainQueue (+) pass.chains
          /\ thisQueue' = thisQueue (+) pass.thises
          /\ pc' = IF pass.new = {} \/ Len(left) >= pc.remaining
                   THEN [pc EXCEPT !.at = "last"] ELSE [pc EXCEPT !.remaining = Len(left)]
          /\ job' = [job EXCEPT !.broke = pass.new = {} /\ left # <<>>]
    /\ rows' = left
    /\ UNCHANGED <<disk, stored, names, edits, faults>>

(* The end of indexAll(); the passes empty the caches when they had work.  *)
Finish(order) ==
    /\ pc.at = "last" \/ (pc.at = "batch" /\ rows = <<>>)
    /\ links' = LastPasses(links, Known, chainQueue, thisQueue, order)
    /\ chainQueue' = EmptyBag /\ thisQueue' = EmptyBag
    /\ names' = IF chainQueue (+) thisQueue = EmptyBag THEN names ELSE None
    /\ pc' = AtRest
    /\ job' = [job EXCEPT !.kind = "indexed"]
    /\ UNCHANGED <<disk, stored, rows, edits, faults>>

(* Mutant: sync() resolves with the names of the last run.                 *)
BugWarm(nms, known) == IF nms = None THEN NamesOf(known) ELSE nms

(* runPostExtract() has emptied the caches; warmCaches() fills them.       *)
Warm(nms, known) == NamesOf(known)

(* sync(): rows of added and modified files only; unresolved rows stay.    *)
SyncResolves(db, known, nms, S, order) ==
    \E answers \in {Answers(S, db.links, known, Text(disk), nms)} :
    \E pass \in {resolveAll(answers, Text(disk), nms, order)} :
    \E chains \in {chainQueue (+) pass.chains}, thises \in {thisQueue (+) pass.thises} :
       /\ links' = LastPasses(insertEdges(db.links, SetToBag(pass.new), known), known, chains, thises, order)
       /\ rows' = Delete(db.rows, {e.site : e \in pass.new})
       /\ chainQueue' = EmptyBag /\ thisQueue' = EmptyBag
       /\ names' = IF chains (+) thises = EmptyBag THEN nms ELSE None
       /\ job' = [kind |-> "synced", todo |-> S, broke |-> FALSE]

Sync(scan, order) ==
    /\ Idle /\ Differing # {}
    /\ \E db \in {Extract(Differing, scan)} :
          /\ stored' = db.stored
          /\ IF Differing \cap Present = {}
             THEN /\ links' = db.links /\ rows' = db.rows /\ job' = NoJob
                  /\ UNCHANGED <<chainQueue, thisQueue, names>>
             ELSE \E known \in {NodesOf(db.stored)} :
                  SyncResolves(db, known, Warm(names, known), {s \in ToSet(db.rows) : FileOf(s) \in Differing}, order)
    /\ UNCHANGED <<disk, pc, edits, faults>>

(* clear(), with which `codegraph index` begins.                           *)
Clear ==
    /\ Idle /\ Known # {}
    /\ stored' = [f \in File |-> None] /\ rows' = <<>> /\ links' = EmptyBag /\ job' = NoJob
    /\ UNCHANGED <<disk, chainQueue, thisQueue, names, pc, edits, faults>>

(* Between two batches the caller's onProgress() may throw, or the process *)
(* die and with it what is in memory.                                      *)
Interrupt(dies) ==
    /\ pc.at # "idle" /\ faults < MaxFaults
    /\ faults' = faults + 1 /\ pc' = AtRest /\ job' = NoJob
    /\ IF dies THEN chainQueue' = EmptyBag /\ thisQueue' = EmptyBag /\ names' = None
       ELSE UNCHANGED <<chainQueue, thisQueue, names>>
    /\ UNCHANGED <<disk, stored, rows, links, edits>>

ResolverNext ==
    \/ \E d \in Disks : Edit(d)
    \/ \E scan \in ScanOrders, size \in BatchSizes : Index(scan, size)
    \/ \E order \in Orders : Batch(order) \/ Finish(order)
    \/ \E scan \in ScanOrders, order \in Orders : Sync(scan, order)
    \/ Clear
    \/ \E dies \in BOOLEAN : Interrupt(dies)

ResolverSpec == ResolverInit /\ [][ResolverNext]_resolverVars
-----------------------------------------------------------------------------
(* What a row could be linked to, said without the searches of the code.   *)

Reached(R, S) ==
    LET reach[T \in SUBSET (S \cup {p[2] : p \in R})] ==
          LET more == {p[2] : p \in {q \in R : q[1] \in T}} IN
          IF more \subseteq T THEN T ELSE reach[T \cup more]
    IN reach[S]

(* <<file, exported name>> an import statement leads to.                   *)
ForwardsOf(text) ==
    UNION {LET all == text[f].reExports IN
           UNION {IF all[i].kind = "named" THEN {<<<<f, all[i].exported>>, <<all[i].source, all[i].original>>>>}
                  ELSE {<<<<f, n>>, <<all[i].source, n>>>> : n \in {Decl[m].name : m \in DOMAIN Decl}} : i \in DOMAIN all}
           : f \in DOMAIN text}
Exporters(s, known, text) ==
    LET from == {<<i.source, i.exported>> : i \in Matching(s, text)} IN
    {n \in known : Decl[n].exported /\ <<Decl[n].file, Decl[n].name>> \in Reached(ForwardsOf(text), from)}

(* Types above those names; classes above the one around a reference.      *)
Hierarchy(s, E, known) == Supertypes(known, Above(E), Lang(s))

Linkable(s) ==
    CASE Ref[s].form = "chain" ->
           \E m \in Named(Known, Ref[s].name) :
               OwnerName(m) \in Reached(Hierarchy(s, links, Known), lookupCalleeReturnType(s, Ref[s].recv, Known))
      [] Ref[s].form = "this" ->
           \E m \in Named(Known, Ref[s].name) : Decl[m].owner \in Reached(Above(links), {ClassOf(s)}) /\ m # Ref[s].from
      [] Exporters(s, Known, Text(disk)) # {} -> TRUE
      [] Ref[s].form = "member" ->
           \E m \in SameLanguage(s, Named(Known, Ref[s].name)) :
               Decl[m].kind = "method" /\ OwnerName(m) \in {Ref[s].recv, Capital(Ref[s].recv)}
      [] Ref[s].kind = "function_ref" -> \E n \in Known \ {Ref[s].from} : Named(Known, Ref[s].name) = {n} /\ Decl[n].kind = "function"
      [] OTHER -> SameLanguage(s, Named(Known, Ref[s].name)) # {}

(* A job that has come to its end has linked every row it had to look at   *)
(* for which the index holds a declaration: in whatever batches the rows   *)
(* came, whatever was known when each was looked at, and however old the   *)
(* caches were.  Excepted are a job that broke off, and a row deleted with *)
(* another of its key.                                                     *)
ResolutionComplete ==
    job.kind \in {"indexed", "synced"} /\ ~job.broke =>
        \A s \in job.todo :
            \/ \E e \in DOMAIN links : e.site = s
            \/ job.kind = "indexed" /\ \E t \in job.todo \ {s} : Key(t) = Key(s)
            \/ ~Linkable(s)

(* Whatever is indexed, synced and interrupted in whatever order, a site   *)
(* that is not put off has one edge at most: the table of edges would take *)
(* a second.                                                               *)
OneEdgePerSite ==
    \A e \in DOMAIN links :
        Ref[e.site].form \in {"plain", "member"} =>
            links[e] = 1 /\ \A d \in DOMAIN links : d.site = e.site => d = e

(* A callback registered as this.f is linked to a member of the class      *)
(* around it or of a type above it, and never to a class that only has the *)
(* same name (resolveDeferredThisMemberRefs, "never a same-named class     *)
(* elsewhere").                                                            *)
NewEdges == DOMAIN links' \ DOMAIN links
ThisStaysInHierarchy ==
    [][\A e \in NewEdges : Ref[e.site].form = "this" =>
          Decl[e.target].owner \in Reached(Above(links'), {ClassOf(e.site)})]_resolverVars

(* A name that is imported is linked to what its module exports under that *)
(* name, through any re-exports, or to a member of it, and not to a        *)
(* declaration that happens to be called like that.                        *)
ImportsLead ==
    [][\A e \in NewEdges :
          LET exporters == Exporters(e.site, Known', Text(disk')) IN
          exporters # {} => {e.target, Decl[e.target].owner} \cap exporters # {}]_resolverVars

(* "If nothing was resolved or removed in this batch, we'd loop forever"   *)
(* (index.ts): the loop of an index ends with an empty table.              *)
EveryRowIsTried == job.kind = "indexed" => rows = <<>>
=============================================================================
