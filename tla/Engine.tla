------------------------------- MODULE Engine -------------------------------
(***************************************************************************)
(* The MCP engine and its sessions (codegraph/src/mcp/engine.ts,           *)
(* session.ts, tools.ts): one process opens the default project once for   *)
(* all sessions, watches it, catches up with what changed while nobody     *)
(* watched, and opens other projects when a call names them.               *)
(*                                                                         *)
(* An action is what the event loop runs between two awaits.  A microtask  *)
(* (the continuation of a call whose promise is settled) runs before the   *)
(* next message, timer or file-system event: Idle is the guard of those.   *)
(***************************************************************************)
EXTENDS Integers, Sequences, FiniteSets

CONSTANTS Root, NoRoot,      \* projects
          Cwd,               \* process.cwd(), and the project of a daemon
          Session, Call,
          Only,              \* the session of a direct process
          SessionOf, Target, \* of each call: its session, its projectPath argument
          Uris,              \* the rootUri that the clients may send
          MaxInode           \* bound on how often an index is made anew

ASSUME EngineAssumption ==
    /\ NoRoot \notin Root /\ Cwd \in Root /\ Only \in Session
    /\ SessionOf \in [Call -> Session] /\ Target \in [Call -> Root \cup {NoRoot}]
    /\ Uris \subseteq [Session -> Root \cup {NoRoot}]
    /\ MaxInode \in Nat

VARIABLES indexed, inode,    \* the disk: projects with an index, and which one it is
          outdated,          \* projects edited since somebody watched their index
          dbs,               \* the CodeGraph instances, in the order they were opened
          cg, default,       \* MCPEngine.cg, ToolHandler.cg
          projectPath, opening,         \* initPromise: the project doInitialize() opens
          closed, grammars,             \* stop() was called; initGrammars() has run
          watcherStarted, watching,     \* the instance whose watcher runs
          gate,              \* catchUpGate
          projectCache,
          explicit, uri, roots,         \* of a session: --path, rootUri, capabilities.roots
          greeted, resolvePromise, rootsAttempted, rootsReply,
          pc, gated, answer             \* of a call: its await, the gate it took, its answer

disk == <<indexed, inode, outdated>>
engine == <<cg, default, projectPath, opening, watcherStarted, watching, gate>>
clients == <<explicit, uri, roots>>
session == <<greeted, resolvePromise, rootsAttempted, rootsReply>>
call == <<pc, gated, answer>>
vars == <<disk, dbs, engine, closed, grammars, projectCache, clients, session, call>>

NoDb == 0

Init ==
    /\ indexed \in SUBSET Root /\ inode = [r \in Root |-> 0] /\ outdated = indexed
    /\ dbs = <<>> /\ cg = NoDb /\ default = NoDb
    /\ closed = FALSE /\ grammars = FALSE
    /\ watcherStarted = FALSE /\ watching = NoDb /\ gate = NoDb
    /\ projectCache = [r \in Root |-> NoDb]
    /\ uri \in Uris
    /\ \/ \* a daemon: every session has its project, none is asked for its roots
          /\ Cwd \in indexed
          /\ explicit = [s \in Session |-> Cwd] /\ roots = [s \in Session |-> FALSE]
          /\ projectPath = Cwd /\ opening = Cwd
       \/ \* direct mode: one session, without --path
          /\ explicit = [s \in Session |-> NoRoot]
          /\ \A s \in Session \ {Only} : uri[s] = NoRoot
          /\ roots \in {[s \in Session |-> s = Only /\ b] : b \in BOOLEAN}
          /\ projectPath = NoRoot /\ opening = NoRoot
    /\ greeted = [s \in Session |-> FALSE]
    /\ resolvePromise = [s \in Session |-> "none"]
    /\ rootsAttempted = [s \in Session |-> FALSE]
    /\ rootsReply = [s \in Session |-> "none"]
    /\ pc = [c \in Call |-> "new"] /\ gated = [c \in Call |-> NoDb]
    /\ answer = [c \in Call |-> "none"]
-----------------------------------------------------------------------------
(* Promises and the event loop.                                            *)

(* A promise of ensureInitialized() or initFromRoots() is settled.         *)
Settled(s) ==
    \/ resolvePromise[s] = "none"
    \/ resolvePromise[s] = "engine" /\ opening = NoRoot
    \/ resolvePromise[s] = "roots" /\ rootsReply[s] = "came" /\ opening = NoRoot

CaughtUp(d) == IF d = NoDb THEN TRUE ELSE dbs[d].sync # "running"

Ready(c) ==
    \/ pc[c] \in {"resolve", "roots"} /\ Settled(SessionOf[c])
    \/ pc[c] = "execute"
    \/ pc[c] = "gate" /\ CaughtUp(gated[c])

(* No microtask is queued: open() is one when the grammars are loaded.     *)
Idle == ~(opening # NoRoot /\ grammars) /\ \A c \in Call : ~Ready(c)
-----------------------------------------------------------------------------
(* MCPEngine.                                                              *)

(* What an instance becomes the default of: setDefaultCodeGraph(),         *)
(* startWatching() (which may be disabled or fail) and catchUpSync().      *)
Adopt(d) ==
    /\ cg' = d /\ default' = d
    /\ watcherStarted' = TRUE
    /\ \/ watcherStarted /\ watching' = watching
       \/ ~watcherStarted /\ watching' \in {d, NoDb}
    /\ gate' = d

Opened(r, sync) == [root |-> r, open |-> TRUE, inode |-> inode[r], sync |-> sync]

(* Mutant: concurrent callers do not share the promise.                    *)
BugEnsureInitialized(p) ==
    IF closed \/ default # NoDb
    THEN UNCHANGED <<projectPath, opening>>
    ELSE projectPath' = p /\ opening' = IF p \in indexed THEN p ELSE NoRoot

ensureInitialized(p) ==
    IF closed \/ default # NoDb \/ opening # NoRoot
    THEN UNCHANGED <<projectPath, opening>>
    ELSE projectPath' = p /\ opening' = IF p \in indexed THEN p ELSE NoRoot

(* doInitialize() after its await, whatever happened in the meantime.      *)
OpenEnds ==
    /\ opening # NoRoot /\ opening' = NoRoot
    /\ grammars' = TRUE
    /\ \/ /\ opening \in indexed
          /\ dbs' = Append(dbs, Opened(opening, "running"))
          /\ Adopt(Len(dbs) + 1)
       \/ UNCHANGED <<dbs, cg, default, watcherStarted, watching, gate>>
    /\ UNCHANGED <<disk, projectPath, closed, projectCache, clients, session, call>>

retryInitializeSync(p) ==
    /\ UNCHANGED opening
    /\ \/ /\ ~closed /\ default = NoDb /\ p \in indexed
          /\ dbs' = Append(dbs, Opened(p, "running"))
          /\ Adopt(Len(dbs) + 1)
          /\ projectPath' = p
       \/ \* nothing to open, or openSync() throws
          UNCHANGED <<dbs, cg, default, projectPath, watcherStarted, watching, gate>>

(* The catch-up sync: it may fail, or find the index locked.               *)
SyncEnds(d) ==
    /\ dbs[d].sync = "running"
    /\ \/ /\ dbs[d].open /\ dbs[d].inode = inode[dbs[d].root] /\ dbs[d].root \in indexed
          /\ dbs' = [dbs EXCEPT ![d].sync = "done"]
          /\ outdated' = outdated \ {dbs[d].root}
       \/ /\ dbs' = [dbs EXCEPT ![d].sync = "failed"]
          /\ UNCHANGED outdated
    /\ UNCHANGED <<indexed, inode, engine, closed, grammars, projectCache, clients, session, call>>

Cached == {projectCache[r] : r \in Root} \ {NoDb}

(* Mutant: the other projects stay open.                                   *)
BugOnStop == {cg}

(* closeAll() and the engine's own instance.                               *)
OnStop == Cached \cup {cg}

stop ==
    /\ Idle /\ ~closed /\ closed' = TRUE
    /\ dbs' = [d \in 1..Len(dbs) |-> IF d \in OnStop THEN [dbs[d] EXCEPT !.open = FALSE] ELSE dbs[d]]
    /\ projectCache' = [r \in Root |-> NoDb]
    /\ watching' = IF watching = cg THEN NoDb ELSE watching
    /\ cg' = NoDb
    /\ UNCHANGED <<disk, default, projectPath, opening, watcherStarted, gate, grammars, clients, session, call>>
-----------------------------------------------------------------------------
(* MCPSession.                                                             *)

(* A daemon has any number of sessions, a direct process one.              *)
MayConnect(s) == explicit[s] # NoRoot \/ s = Only

handleInitialize(s) ==
    /\ Idle /\ ~closed /\ ~greeted[s] /\ MayConnect(s)
    /\ greeted' = [greeted EXCEPT ![s] = TRUE]
    /\ LET p == IF uri[s] # NoRoot THEN uri[s] ELSE explicit[s] IN
       \/ /\ p # NoRoot
          /\ resolvePromise' = [resolvePromise EXCEPT ![s] = "engine"]
          /\ ensureInitialized(p)
       \/ /\ p = NoRoot
          /\ UNCHANGED <<resolvePromise, projectPath, opening>>
    /\ UNCHANGED <<disk, dbs, cg, default, watcherStarted, watching, gate, closed, grammars, projectCache,
                   clients, rootsAttempted, rootsReply, call>>

(* retryInitIfNeeded() after its first await, with or without a promise.   *)
FindProject(c) ==
    LET s == SessionOf[c]
        hint == IF explicit[s] # NoRoot THEN explicit[s] ELSE projectPath IN
    \/ /\ default # NoDb
       /\ pc' = [pc EXCEPT ![c] = "execute"]
       /\ resolvePromise' = [resolvePromise EXCEPT ![s] = "none"]
       /\ UNCHANGED <<dbs, engine, rootsAttempted>>
    \/ /\ default = NoDb /\ hint = NoRoot /\ ~rootsAttempted[s]
       /\ rootsAttempted' = [rootsAttempted EXCEPT ![s] = TRUE]
       /\ resolvePromise' = [resolvePromise EXCEPT ![s] = IF roots[s] THEN "roots" ELSE "engine"]
       /\ pc' = [pc EXCEPT ![c] = "roots"]
       /\ \/ roots[s] /\ UNCHANGED <<projectPath, opening>>
          \/ ~roots[s] /\ ensureInitialized(Cwd)
       /\ UNCHANGED <<dbs, cg, default, watcherStarted, watching, gate>>
    \/ /\ default = NoDb /\ (hint # NoRoot \/ rootsAttempted[s])
       /\ retryInitializeSync(IF hint # NoRoot THEN hint ELSE Cwd)
       /\ pc' = [pc EXCEPT ![c] = "execute"]
       /\ resolvePromise' = [resolvePromise EXCEPT ![s] = "none"]
       /\ UNCHANGED rootsAttempted

Request(c) ==
    LET s == SessionOf[c] IN
    /\ Idle /\ ~closed /\ greeted[s] /\ pc[c] = "new"
    /\ \/ /\ resolvePromise[s] # "none"
          /\ pc' = [pc EXCEPT ![c] = "resolve"]
          /\ UNCHANGED <<dbs, engine, resolvePromise, rootsAttempted>>
       \/ resolvePromise[s] = "none" /\ FindProject(c)
    /\ UNCHANGED <<disk, closed, grammars, projectCache, clients, greeted, rootsReply, gated, answer>>

Resolved(c) ==
    /\ ~closed /\ pc[c] = "resolve" /\ Settled(SessionOf[c])
    /\ FindProject(c)
    /\ UNCHANGED <<disk, closed, grammars, projectCache, clients, greeted, rootsReply, gated, answer>>

(* The call that asked for the roots goes on; its hint was null.           *)
RootsResolved(c) ==
    LET s == SessionOf[c] IN
    /\ ~closed /\ pc[c] = "roots" /\ Settled(s)
    /\ resolvePromise' = [resolvePromise EXCEPT ![s] = "none"]
    /\ pc' = [pc EXCEPT ![c] = "execute"]
    /\ \/ default # NoDb /\ UNCHANGED <<dbs, engine>>
       \/ default = NoDb /\ retryInitializeSync(Cwd)
    /\ UNCHANGED <<disk, closed, grammars, projectCache, clients, greeted, rootsAttempted, rootsReply,
                   gated, answer>>

(* The answer to roots/list, or after five seconds none: then the cwd.  A  *)
(* later answer finds no pending request and is dropped.                   *)
RootsAnswer(s, p) ==
    /\ Idle /\ ~closed
    /\ resolvePromise[s] = "roots" /\ rootsReply[s] = "none"
    /\ rootsReply' = [rootsReply EXCEPT ![s] = "came"]
    /\ ensureInitialized(p)
    /\ UNCHANGED <<disk, dbs, cg, default, watcherStarted, watching, gate, closed, grammars, projectCache,
                   clients, greeted, resolvePromise, rootsAttempted, call>>
-----------------------------------------------------------------------------
(* ToolHandler.                                                            *)

(* freshen(): an instance whose file was replaced is reopened in place,    *)
(* unless that fails; a sync in flight loses its connection.               *)
Fresh(d) ==
    LET r == dbs[d].root IN
    IF r \in indexed /\ dbs[d].inode # inode[r]
    THEN {dbs[d], [dbs[d] EXCEPT !.inode = inode[r]]}
    ELSE {dbs[d]}

(* What the rows a call reads are worth.                                   *)
Rows(db) ==
    IF ~db.open THEN "error"
    ELSE IF db.root \in indexed /\ db.inode # inode[db.root] THEN "replaced"
    ELSE IF db.root \in outdated THEN "stale" ELSE "current"

(* getCodeGraph() finds the instance to ask, or opens one more.            *)
Asked(c) ==
    LET t == Target[c] IN
    IF t = NoRoot \/ (t \in indexed /\ default # NoDb /\ dbs[default].root = t) THEN default
    ELSE IF t \in indexed THEN projectCache[t] ELSE NoDb

Answer(c, a) ==
    /\ pc' = [pc EXCEPT ![c] = "done"]
    /\ answer' = [answer EXCEPT ![c] = a]

Reply(c) ==
    \/ /\ Asked(c) # NoDb
       /\ \E db \in Fresh(Asked(c)) :
             /\ dbs' = [dbs EXCEPT ![Asked(c)] = db]
             /\ Answer(c, Rows(db))
       /\ UNCHANGED projectCache
    \/ /\ Asked(c) = NoDb /\ Target[c] \in indexed
       /\ dbs' = Append(dbs, Opened(Target[c], "none"))
       /\ projectCache' = [projectCache EXCEPT ![Target[c]] = Len(dbs) + 1]
       /\ Answer(c, "other")
    \/ /\ Asked(c) = NoDb
       /\ Answer(c, "error")
       /\ UNCHANGED <<dbs, projectCache>>

(* Mutant: the gate is not awaited.                                        *)
BugTakesGate(c) == [gated EXCEPT ![c] = NoDb]

TakesGate(c) == [gated EXCEPT ![c] = gate]

(* A tools/list is answered.  execute() of a tools/call clears the gate    *)
(* before it awaits it, and goes on at once when there is none.            *)
execute(c) ==
    /\ ~closed /\ pc[c] = "execute"
    /\ \/ /\ Answer(c, "listed")
          /\ UNCHANGED <<dbs, projectCache, gate, gated>>
       \/ /\ gate # NoDb
          /\ pc' = [pc EXCEPT ![c] = "gate"]
          /\ gated' = TakesGate(c)
          /\ gate' = NoDb
          /\ UNCHANGED <<dbs, projectCache, answer>>
       \/ /\ gate = NoDb
          /\ Reply(c)
          /\ UNCHANGED <<gate, gated>>
    /\ UNCHANGED <<disk, cg, default, projectPath, opening, watcherStarted, watching, closed, grammars,
                   clients, session>>

Serve(c) ==
    /\ ~closed /\ pc[c] = "gate" /\ CaughtUp(gated[c])
    /\ Reply(c)
    /\ UNCHANGED <<disk, engine, closed, grammars, clients, session, gated>>
-----------------------------------------------------------------------------
(* Other programs: codegraph init and uninit.                              *)

Create(r) ==
    /\ Idle /\ r \notin indexed /\ inode[r] < MaxInode
    /\ indexed' = indexed \cup {r} /\ inode' = [inode EXCEPT ![r] = @ + 1]
    /\ outdated' = outdated \ {r}
    /\ UNCHANGED <<dbs, engine, closed, grammars, projectCache, clients, session, call>>

Remove(r) ==
    /\ Idle /\ r \in indexed
    /\ indexed' = indexed \ {r}
    /\ UNCHANGED <<inode, outdated, dbs, engine, closed, grammars, projectCache, clients, session, call>>

Message == \E s \in Session : handleInitialize(s) \/ \E p \in Root : RootsAnswer(s, p)
Continue(c) == Resolved(c) \/ RootsResolved(c) \/ execute(c) \/ Serve(c)

(* Mutant: the request waits for an answer without a timer.                *)
BugRootsTimeout == FALSE

(* The timer of request('roots/list'): the project is then the cwd.        *)
RootsTimeout == \E s \in Session : RootsAnswer(s, Cwd)
Syncs == \E d \in 1..Len(dbs) : SyncEnds(d)
World == \E r \in Root : Create(r) \/ Remove(r)

Next ==
    \/ OpenEnds \/ Syncs \/ stop
    \/ Message \/ World
    \/ \E c \in Call : Request(c) \/ Continue(c)

Spec == Init /\ [][Next]_vars

(* Microtasks run, open() and sync() settle, the timer of roots/list fires. *)
Fairness ==
    /\ WF_vars(OpenEnds) /\ WF_vars(Syncs) /\ WF_vars(RootsTimeout)
    /\ \A c \in Call : WF_vars(Continue(c))

FairSpec == Spec /\ Fairness
-----------------------------------------------------------------------------
(* Until stop() every open database is held where stop() will find it, and *)
(* the default one was opened once, however many sessions connected while  *)
(* it was being opened: after stop() all are closed, but for one that was  *)
(* being opened at that moment (doInitialize() does not look at closed).   *)
NothingLeaks ==
    \A d \in 1..Len(dbs) : dbs[d].open =>
        IF closed THEN d = cg ELSE d = cg \/ d \in Cached

(* The instance that answers for the default project is the one whose      *)
(* watcher runs, so that its banners can know what was edited; and it is   *)
(* the only one that is watched.                                           *)
WatchedIsServed == watching # NoDb => watching = default /\ dbs[watching].open

(* Rows of the default project that are older than the server are served   *)
(* only when the catch-up has failed, or to a call that overtook the one   *)
(* that waits for it (execute() clears the gate before it awaits it).      *)
GateIsKept ==
    [][\A c \in Call :
          answer[c] = "none" /\ answer'[c] = "stale" =>
              \/ Asked(c) # default
              \/ dbs[default].sync = "failed"
              \/ \E d \in Call \ {c} : pc[d] = "gate" /\ gated[d] = default]_vars

(* Every request is answered: no session waits for ever on an open, a      *)
(* client that does not tell its roots, or a catch-up.                     *)
CallsAnswered == \A c \in Call : pc[c] # "new" ~> (pc[c] = "done" \/ closed)
=============================================================================
