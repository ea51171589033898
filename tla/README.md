# A verification project for CodeGraph

CodeGraph (`codegraph/`) keeps a knowledge graph of a source tree in SQLite and
serves it to coding agents over MCP. The parsing and the graph queries are
ordinary sequential code; what is hard is everything around them: several
processes write one index, a watcher decides when the index lags behind the
disk, one daemon is shared by many editor sessions through proxies, and any of
these processes can be killed at any moment. This directory models those parts
in TLA+, model-checks them with TLC and proves the central facts with TLAPS.

All paths below are relative to the repository root.

## 1. The system: inventory

| Part | State it keeps | Operations | Hard behaviour | What makes it correct |
|---|---|---|---|---|
| **Index mutex** `codegraph/src/utils.ts` `Mutex` | `locked`, `waitQueue` | acquire, release | a woken waiter runs in a later microtask and can be overtaken | one operation at a time; no lost wake-up; waiters are served |
| **Index lock file** `codegraph/src/utils.ts` `FileLock` | a file with a pid; `held` | acquire, release, `codegraph unlock` | check-then-unlink races between processes, crash with the lock held, reused pids, holds longer than the stale timeout | one writing process; a dead owner never blocks the index |
| **Facade** `codegraph/src/index.ts` `CodeGraph` | mutex, lock, database handle, watcher | indexAll, indexFiles, sync, watch, reopenIfReplaced, close | lock held across awaits; database replaced or closed while a sync runs | whoever writes the index holds mutex and lock |
| **File watcher** `codegraph/src/sync/watcher.ts` `FileWatcher` | pending files, timer, retry count, degraded latch, OS watches | start, change events, flush, stop, degrade | edits during a sync, failing and contended syncs, exhaustion of OS watches | no stale file is shown fresh, unless a sync passed over it; every other seen edit reaches the index; giving up is final and quiet |
| **Orchestrator and store** `codegraph/src/extraction/index.ts`, `codegraph/src/db/queries.ts` | rows: files, nodes, edges, unresolved references | indexAll, indexFiles, sync, storeExtractionResult | several transactions per file, crash between them, cross-file edges that cascade away and are put back | the index of a file is its content's; edges of unchanged files survive a re-index; a crash is repaired by the next sync |
| **Parse worker of indexAll** `codegraph/src/extraction/index.ts`, `parse-worker.ts` | worker thread, its parse count, pending requests and timers, errors, counters | requestParse, ensureWorker, recycleWorker, retry passes, abort | crashes, memory limits and hangs of the worker; late answers and exits of terminated workers | no symbols under the wrong file; a healthy file is stored; every file is accounted for; the run ends |
| **Reference resolver** `codegraph/src/resolution/index.ts` | unresolved references, edges | resolveOne and its strategies, resolveAndPersist, resolveAndPersistBatched, the two deferred passes | batches read from a table the loop deletes from; what was put off waits in memory; caches filled for one job and used in another | every reference that can be resolved is, once, to a declaration it may mean |
| **Graph traversal** `codegraph/src/graph/traversal.ts`, `queries.ts` | none | BFS, DFS, callers, callees, impact, hierarchy, shortest path, cycles, dead code | cycles, several edges between two nodes, depth and node limits, rows in any order | what is found is reachable, within its depth, and complete when no bound was met |
| **Daemon** `codegraph/src/mcp/daemon.ts`, `daemon-paths.ts` | pid file, socket, client set, idle timer, stopping flag | start, stop, connections, idle exit, reaping dead clients | pid-file arbitration among starters, takeover of a dead daemon, shutdown racing a new client or a successor | one daemon per project; a daemon with clients stays; a successor's files are not removed |
| **Daemon registry** `codegraph/src/mcp/daemon-registry.ts`, `daemon-manager.ts` | one record per daemon | register, deregister, list, stop | records of dead daemons; the stop command sweeps files while a successor starts | what was stopped has ended and left nothing behind |
| **Proxy** `codegraph/src/mcp/proxy.ts` | status, pending lines, in-flight requests | client lines, daemon lines, loss of the daemon, shutdown | answers before the daemon is there, daemon dies with requests in flight | every request is answered exactly once |
| **Engine and sessions** `codegraph/src/mcp/engine.ts`, `session.ts` | shared CodeGraph, init promise, catch-up gate | initialize, tools/call, roots/list, stop | initialisation shared by sessions, stop during it | one open index; nothing left open after stop; the first answer is up to date |
| **MCP start-up and transport** `codegraph/src/mcp/index.ts`, `transport.ts` | attempts to connect, pending server requests, mode | start, search for the daemon, fallback to direct mode | silent or outdated daemons, timeouts, the host failing meanwhile | the client is served in whichever mode, once |
| **Watchdogs** `codegraph/src/mcp/ppid-watchdog.ts`, `liveness-watchdog.ts`, `stdin-teardown.ts` | timers, the pids of parent and host | parent death, blocked event loop, closed stdin | orphans, a process in between, platforms whose parent pid never changes | a server does not outlive its host, nor end before it |
| **Git hooks, worktrees, project directory** `codegraph/src/sync/git-hooks.ts`, `worktree.ts`, `codegraph/src/directory.ts` | hook files, data directory | install, remove | user content in the same hook file | user content survives |
| **Database layer** `codegraph/src/db/index.ts`, `migrations.ts`, `schema.sql` | handle, schema version | open, migrate, reopen | interrupted migration, replaced file | the version recorded is the schema's |
| **Telemetry** `codegraph/src/telemetry/index.ts` | stored choice and its cached copy, counts in memory, the queue file and one claim per sender | record, flush, opt out, recover claims | every process of the user shares the queue; crash between sending and removing a claim | no line is lost or sent twice; off is off |
| **Context, search, tool text** `codegraph/src/context`, `search`, `mcp/tools.ts` | caches | ranking and formatting | none concurrent | out of scope: data-heavy sequential code |
| **Language extractors, frameworks** `codegraph/src/extraction/languages`, `codegraph/src/resolution/frameworks` | none | parsing | none | out of scope: syntax |
| **CLI, installer, upgrade, UI** `codegraph/src/bin`, `installer`, `upgrade`, `ui` | config files | commands | none concurrent | out of scope: I/O |
| **Piggyback tools** `piggyback.py`, `codegraph-gate`, `impact-analyzer`, `ssot-diagram` | reports | read the index | none concurrent | out of scope: batch scripts |
| **Site, scripts, telemetry worker** | none | build and publish | none | out of scope |

How the parts meet: an editor starts `codegraph serve`; the proxy answers the
handshake at once, starts or finds the daemon of the project, and forwards
requests. The daemon's engine opens one `CodeGraph`, starts its watcher and a
catch-up sync, and gates the first tool call on it. Watcher, catch-up, tool
calls and CLI commands reach the index through the facade, which takes the
mutex inside the process and the lock file between processes, then runs the
orchestrator and the resolver on the database.

## 2. What is modelled

### Mutex, MutexSpec, Facade, MCFacade, Shared_proofs

`Mutex` follows the class statement by statement at the granularity of the
event loop. `Acquire(c)` is the first test of `locked`, `Resume(c)` the test
after a wake-up, `Release(c)` the returned function, which clears the flag and
resolves the oldest parked promise (`WakeNext`). `jobs` is the FIFO of promise
reactions: a woken waiter is in it until its microtask runs. `Barger` is the
set of callers that can run `acquire()` in a microtask queued earlier; the
others run it in a macrotask, when no reaction is left. `MutexSpec` is the
promise to callers: one owner, a set of askers, a free mutex is granted.

`Facade` composes the mutex with the lock file and with what the operations
have of the database. `Call` and `Retry` are `Acquire` and `Resume`; `Start`,
`Refused` and `Begin` the first part of `indexAll()`, `indexFiles()` or
`sync()` inside `withLock`; `EndOperation`, `Resolve`, `Resolved` the two layers they
call one after the other; `Throws` an exception in either, `Return` the
`finally`. `Close` is `close()`, `Reopen` `reopenIfReplaced()`, and both may
come between any two awaits of an operation, but not inside the resolution of
`sync()`, which is one turn (`TurnIsOver`). The lock file is what FileLock
shows of it for holds of under two minutes: free, ours, theirs. A database
file is its generation; the instance has one connection, and a layer captured
before a reopen keeps the closed one. Not modelled: opening a project, the
read-only queries, and the result that `watch()` builds from a sync that found
nothing (`index.ts:590-612`).

* `facade` (a full index, a sync, an `indexFiles` and a sync that barges, an
  index replaced on disk once): `WritersExclude`, `NoLeakedLock`,
  `ImplementsMutexSpec` (the refinement with its progress) and
  `EveryWaiterServed`: bargers can overtake a waiter for ever, so service is
  promised when they are idle from some time on.

Four callers give a holder, two ordered waiters and one that barges, and each
operation. `WritersExclude` has two exceptions that the code does not exclude:
`indexFiles()`, which gives the lock file back while it still indexes, and an
operation under way when a reopen moved the instance to another database.
Fairness: a queued microtask runs, a started operation ends or throws, and the
function inside `withLock` settles.

Proved in `Shared_proofs` for every set of callers: `MutualExclusionHolds`,
`NoLostWakeupHolds` and `Refinement` (every behaviour of the mutex is one of
`MutexSpec` without its fairness); `FacadeUsesMutex`, that every behaviour of
the facade is one of the mutex, which carries these theorems over to it; and
`WritersExcludeHolds` and `NoLeakedLockHolds`. The invariant of the mutex adds
that the flag is set exactly while somebody holds, and that each queue lists
exactly the callers in its state, once (`Lists`): without it, releasing could
wake a caller that is not parked. That of the facade (`FInv`) ties the stage
of an operation to the mutex (`InsideHolds`), to the lock file and to the
connection its layers write through.

### FileLock, MCFileLock, Shared_proofs

One action per system call of `acquire()` and `release()`: `AcquireExists`,
`AcquireRead`, `AcquireStat` (with the liveness probe), `AcquireUnlink`,
`AcquireUnlinkAgain` (the unlink in the catch block), `AcquireCreate` (`wx`),
`AcquireWrite` or `AcquireWriteFails`, `ReleaseRead`, `ReleaseUnlink`. Two
objects of one process never interleave inside a call because the calls are
synchronous. `Crash` stops a process between two calls, `Reuse` gives its pid
to another program, `Age` makes the file older than the stale timeout,
`UnlockCommand` is `codegraph unlock`.

Two history flags record what the class does not exclude: `overlapped`, that
calls of two processes have overlapped in time, and `overran`, that a hold has
outlived the two minutes of `STALE_TIMEOUT_MS`. The promises of exclusion are
stated up to the first such event; everything else is unconditional.

* `filelock` (two processes, three lock objects, with overlaps, overruns and
  crashes at every system call): `AtMostOneWriter` while neither flag is set;
  and `LockAlwaysRecovers`: as long as one process survives the lock is taken again and again. Fairness: callers
  retry, a call in progress goes on, operations end, files age, the disk is not
  full for ever. Three objects put two in one process and a rival in another.

Proved for any number of processes and objects: `AtMostOneWriterHolds` and
`HolderOwnsFileHolds`, with the flags as their only condition. The invariant
says what the file is at each system call of the one call in progress; crashes
keep it because they change no file.

### Watcher, WatchTree, MCWatcher, Watcher_proofs

`Watcher` is the state of `FileWatcher` with the disk and the sync it triggers.
`Edit` makes the indexed content of a file stale and queues an event if a
watch saw it; `DeliverEvent(f)` is `handleChange`; `flush` the timer's
callback; `SyncLocks`, `SyncRead`, `SyncStore` and `SyncSkip` the work of
`CodeGraph.sync` as far as the watcher can tell, where `SyncSkip` is a file the
sync passes over without failing; `SyncSucceeds`, `SyncThrows` and
`LockUnavailable` are the three ways `flush()` goes on, each with its
`finally` block (`reschedule`); `Start...`, `Stop` and `Exhausted` are the
watcher's life. `stale`, `events` and `missed` are the world's: `missed` holds
the stale files whose edits no watch saw, which the catch-up sync has to find.
`skipped` is history: the stale files that the last sync to come to them passed
over and that have not changed since.
Time stamps are abstracted to what the code compares: a pending entry is
`covered` by the sync in flight or seen `after` it began. Stamps are taken to
order events and starts of syncs: a wall clock set back during a sync is
outside the model.

`WatchTree` extends it with the watches there are on Linux, one for each
directory. `DirEvent` and `FileEvent` are `handleDirEvent()`. A walk
(`watchTree()`) is one turn of the event loop, but the disk changes between
its system calls: `Visit` sets the watch, `List` lists the directory, `Mark`
calls `handleChange()` for a file in it, `Skip` and `Refused` are the early
returns. A directory is listed right after it is watched, before another is
visited: without that, a sibling that is refused would leave it unlisted. `WatchError` is a watch that fails, `Closed` what `stop()` does to
the watches, `Installed` the walk of `start()`, taken as one step that may end
early. `Rewrite`, `Mkdir` and `Rmdir` are the disk; the children of a
directory are visited in any order. Left out: ignored directories, moves of
directories, and a watch of the root that cannot be set. The recursive watch
of macOS and Windows is `Watcher` itself with every edit seen.

* `watcher` (two files, one of them two directories down; two edits, two
  changes of directories or failing watches, one sync that throws or passes
  over a file, a retry budget of 1 instead of 5): `NoFalseFresh`,
  `DirectoriesCovered`, `EditsReachIndex`, `ContentionGivesUp`, and
  `ImplementsWatcher`: `WatchTree` is a refinement of `Watcher`, whose events are the files whose change is on
  its way (`Coming`): reported and not delivered, found by a walk, or in a
  directory that a walk will list. So an edit made between a `mkdir` and its
  watch is an edit the watcher sees. Two files let one be edited while the
  other is read; two edits put one before and one during a sync; two levels
  make a walk go on below a new directory; a budget of 1 has an attempt within
  it and one past it (the proofs are for any budget, errors and edits). Fairness is one assumption: the event loop has its
  turns (`Turn`), in which it delivers an event, goes on with a walk, fires a
  timer or goes on with a sync. Nothing makes the other process release the
  lock, which is what `ContentionGivesUp` is about.

`NoFalseFresh` and `EditsReachIndex` have one exception, the files of `skipped`.
`sync()` passes over a file that it cannot stat or read
(`extraction/index.ts:1772`, `:1784`), ignores what `indexFile()` returns
(`:1820`) for one that cannot be read any more, is too large, is in no known
language or yields errors and no nodes (`:1498`, `:1540`, `:1559`, `:1576`), and
takes one whose size and time stamp are the recorded ones for unchanged
(`:1770`). It returns normally, and `flush()` clears the entry with the others.
The file keeps its old rows, is shown fresh, and is not tried again before some
event starts the next sync, which may then store it (`SyncStore` takes it off
the list). An edit takes it off as well: whatever happens behind the sync's
back is covered by an event or an entry, and that is what the properties say.
The name is kept narrow on purpose: a file enters it only if the content that
was passed over is the one on disk.

`DirectoriesCovered` has two exceptions: directories the OS refuses to watch,
and a directory that was removed and made again. The watch of the removed one
stays in `dirWatchers`, and `watcher.ts:443` takes it for that of the new one;
edits below it are seen by nobody until another change triggers a sync.

An edit that arrives while the watcher waits out a backoff re-arms the timer
with the short debounce (`watcher.ts:549`), so that retries come sooner than
the comment at `watcher.ts:728` suggests; the budget still bounds them.

Proved of `Watcher` for any files, budgets and number of edits: `NoFalseFreshHolds`,
`WorkIsScheduledHolds` and `DegradedIsQuietHolds` (an action property: a
watcher that gave up starts no sync, even when the walk it interrupted arms
its timer once more, `watcher.ts:596`). The key conjunct is `EditedSinceRead`:
a file that changed after the sync read it is pending `after`, or its event is
still to come, and one the sync is done with while it is stale is among those
or the ones passed over.

Proved of `WatchTree` for any tree (`TreeAssumption` says what a tree is):
`ImplementsWatcherHolds`, that each step is one of `Watcher` or a stutter, so
that what is proved of `Watcher` holds of every tree; and
`DirectoriesCoveredHolds`. Both rest on one invariant, `Explained`: on the way
to a directory without a live watch lies one that explains it (to be visited,
being listed, refused, or with a dead watch) and *no watch in between*, so that
a walk that comes to the first goes on to the second. The step of `Watcher`
that stands for directories lost or found again is `Rewatch`: changes may be
lost, but also come after all, when `unwatchDir()` (`watcher.ts:553`) drops the
stale watch of a directory that was made again and the walk that follows finds
its files. That takes three changes, one more than the bound of the run: the
proof covers it.

### IndexStore, MCIndexStore, IndexStore_proofs

The database and the one operation that writes it: `Scan`, `Prune`, `Check`
are `sync()`'s three loops; `NextFile`, `StatFile`, `ReadFile` are
`indexFile()`; `Store`, `DeleteOld`, `InsertNodes`, `InsertIncoming`,
`InsertRefs`, `UpsertFile` are `storeExtractionResult()`, one action per
transaction; `ResolveEdges` and `ForgetRefs` the resolution in
`CodeGraph.sync`. `BeginFiles` starts `indexFiles` (same path, no resolution)
or `indexAll` (which reads before it stats, and resolves everything). `Edit`
changes a file between any two steps, `Crash` abandons the operation and keeps
what was committed. One operation runs at a time: that is what Mutex and
FileLock are for. A content stands for the symbols and calls extraction finds
in it; framework passes, chained calls and edges within a file are left out.

* `indexstore` (a library with two symbols and a caller, all three operations,
  two edits, one crash): `PrefilterSound`, that size and mtime may stand for the
  content; `RecordedFileIsWhole`; `CallersKept`, the promise of issue #899; and
  `CatchesUp`, that the index reaches the disk through a crash and a content
  that cannot be stored (`lib3`). `lib2` has lost one symbol and has the other
  on another line, so that a call must be linked to a node with a new id. Two
  edits put one before and one inside the window between stat, read and the
  record, or change both ends of a call. Fairness: an operation goes on to its
  end, and syncs are started again and again.

`indexAll` reads a file before it takes its stamp, so an edit between the two
calls is recorded under the new stamp and hidden from every later sync; the
history variable `torn` names these files, and `PrefilterSound` and `CatchesUp`
are stated for the others. `RecordedFileIsWhole` and `CallersKept` are stated
up to the first crash: what a crash between two transactions leaves (callers
unlinked, nodes without a record) the code does not repair by itself, as the
hazards say.

`CallersKept` needs the history variables `before`, `excused` and `complete`;
they copy no code. A callee that disappears and comes back in a later edit is
not linked again by sync: the property does not promise it.

Proved for any files, contents and number of edits: `PrefilterSoundHolds`
(any crashes and operations), `RecordedFileIsWholeHolds` and
`CallersKeptHolds`. The first invariant says that the stamp held of the file at
hand is not newer than its content (`HeldStamp`); the second follows the file's
rows from one transaction to the next (`Expected`). The third (`KInv`) gives
each call that was linked before the operation one of six places at each
moment: it is linked; or in the snapshot of incoming edges of the file being
stored; or a reference that the resolution at the end will find; or forgiven;
or the caller's record no longer has the call; or the callee's file was stored
without the symbol.

`CallersKeptHolds` has one hypothesis, `Unambiguous`: no two files define the
same symbol, no two symbols of a file have the same simple name. The write-back
goes by simple name (`extraction/index.ts:1658`), so two methods that share one
may swap their callers, and the module lets a call resolve to any definition of
its name. TLC evaluates the hypothesis on the run's contents.

### Proxy, RequestService, Launcher, MCProxy, Proxy_proofs

`runLocalHandshakeProxy`: the process the editor starts. `daemonStatus`,
`pending` and `inflight` are its variables of those names; `buffered` and
`awaiting` are the loop that serves what was pending when no daemon came up
(it awaits each line); `local` and `engine` the in-process engine and its open
tool calls; `toDaemon`, `serving`, `toProxy` the socket and the daemon's
session at the other end. `StaticRequest` and `RoutedRequest` are lines on
stdin, `Connect` and `Unavailable` the two outcomes of `getDaemonSocket()`,
`DaemonLine` an answer relayed or, to `initialize`, suppressed, `DaemonLost`
the close of the socket with its replay of the requests in flight. A wedged
daemon answers nothing until its watchdog kills it. No line is sent twice, so
each queue is a set: all orders are explored, the real one among them.

`RequestService` is the promise to the editor: each request gets exactly one
answer unless the session ends.

`Launcher` puts the proxy into its process. `Construct`, `startDirect` and
`StartProxy` are `MCPServer` and its choice of a mode; `Hello`,
`VersionMismatch`, `SpawnDaemon`, `Retry` and `GiveUp` the search for a daemon,
whose outcome is a choice here. The host may die with or without closing its
end of stdin (`HostDies`, `StdinEnds`), and so may the process that only
restarted node with other flags (`relaunched`, `ShimDies`): `PpidOf` is what
the operating system then says of the parent. `supervisionLost` and
`PpidWatchdog` are the watch of parent and host, `StdinShutdown` the end of
stdin, `Terminated` a signal. A process that starts in direct mode serves like
a proxy without a daemon; its own engine is Engine's.

* `proxy` (one request of each kind, two tool calls, two attempts to connect
  instead of 240): `ImplementsRequestService`, the refinement with its
  liveness, and `EndsWithHost`. Two calls put one in the daemon and one in a
  buffer or the engine at the moment the status changes. All five requests are
  sent only under a host that lives, on POSIX and without a process in
  between; with any other start or failure of the host the bound `FewRequests`
  allows two, as the end of the process depends on no request. Fairness: each
  attempt to connect ends, tool calls and the opening of the engine settle,
  sockets deliver, the watchdogs' timers fire.

`EndsWithHost` leaves out a host that had died before its pid was asked for
(`KnowsHost`): no watchdog can know of it, but the proxy asks when it installs
its own (`proxy.ts:386`), later than the constructor whose comment explains
why that is earlier.

Assumed (`ProxyAssumption`): the client initializes at most once. Left out:
notifications (nobody answers them), lines that do not parse, `runProxy` (it
only copies bytes), requests from the server to the client, which a daemon's
session never makes as it is told its project, and the settings that disable
the watchdog.

Proved for any requests: `OnePlaceHolds`, `InflightIsOwedHolds`, and
`Refinement`, that every behaviour is one of `RequestService` (its safety
part). The invariant adds which buffers each status leaves empty (`ByStatus`),
that nothing is held that was not asked (`NothingUnasked`), and that an
`initialize` was answered before it is forwarded (`InitializeAnswered`).
`LauncherIsProxy` carries this over to the whole process (`LauncherServes`),
for any number of attempts. `NoEarlyExitHolds` is the other half of
`EndsWithHost`: the watchdog ends no process whose host and parent live. Its
invariant (`Known`) is that what the process knows of the two was true when it
asked.

### Daemon, Registry, MCDaemon, Daemon_proofs

The processes spawned to be the daemon of one project, from
`startDaemonProcess()` to `process.exit()`. `Link` and `ReadRecord` are
`tryAcquireDaemonLock()`; `Redundant`, `Recover` the outcome; `ClearTest`,
`ClearNot`, `ClearUnlink` are `clearStaleDaemonLock()` with the window between
its read and its unlink, `NextAttempt` the takeover loop; `ClearSocket`,
`Listen`, `ListenFails` are `start()`; `Accept`, `ClientHello`, `HelloTimeout`,
`HelloClosed` a connection; `SocketClose`, `Sweep` the two ways to drop one;
`stop` with `Signal`, `IdleTimeout` and `Backstop` its callers; `Closed`,
`Cleanup`, `UnlinkPid`, `UnlinkSocket` its steps after the first await.
`Crash` ends a process at any step.

The model is the union of the platforms: peers may vanish without a close
(named pipes, #692) and the socket is a path that is unlinked (POSIX). A first
line that is no hello counts as `HelloTimeout`: either way the session has no
pids. Pids are not reused. `server.close()` removes the socket's path, as Node
does.

`Registry` adds the record of the project in the registry, which a daemon
writes once it listens (`Register`) and unlinks before its socket
(`deregisterDaemon`, `UnlinkLast`), and one run of the `codegraph daemon`
command: `Listed`, `Unlisted`, `Prune` are `listDaemons()`, `Pick` the user,
`ReadPid`, `Lookup`, `Sigterm`, `Died`, `Sigkill` `stopDaemonAt()` with the
three seconds it waits, and `SweepPid`, `SweepSocket`, `SweepRecord` what it
then unlinks by path. A daemon that is stopping ignores the signal; one that
has not set its handlers yet dies of it.

`clearStaleDaemonLock()` reads, tests and unlinks; between the test and the
unlink the file can become the record of a live process. The code allows it in
spite of its comment (`daemon.ts:459-462`), and the command's sweep is a second
way. The history flag `stolen` records either; `OneDaemon` is stated up to
that event.

* `daemon` (two rounds of takeover instead of five, a record left dead or
  unreadable or none): `OneDaemon`, `NoAbandonedDaemon`, `StopEnds`,
  `CommandStops`. It starts in one of three ways, as all at once is too much
  for TLC: two processes and two connections without the command, the command
  with one process and one connection, the command with two processes. Two
  processes give a holder and a rival, or two rivals for a dead record; two
  connections let one close or vanish while another is counted; the command
  meets a daemon in its last steps and its successor in the first.
  Fairness: a process does some of what it has to do, timers included; closes
  are delivered; the inactivity backstop fires for a daemon nobody can talk
  to; and the command goes on once its user has picked. `StopEnds` leaves out
  a connection that was in its hello stage when the daemon stopped: `stop()`
  does not know it, and waits for it. `CommandStops` has no such exception.

`UnlinkLast` also shows that a daemon that ends may remove the record and the
socket of its successor, which listens as soon as the pid file is free
(`daemon.ts:252-254`). No property promises the opposite.

Proved for any processes, connections and rounds: `TypeCorrect`,
`OneDaemonHolds`, `IdleOnlyWhenUnusedHolds`, and `OneDaemonWithCommand`, for
the daemons with the command and the registry. `OwnInv` strengthens the first
with `TestedIsDead`: until a record is stolen, what a process is about to
unlink names nobody alive. `ClientInv` adds `NotYetServing`: a process has
neither clients nor connections before it listens.

### IndexAll, MCIndexAll, IndexAll_proofs

The loops of `indexAll()` that parse the files, with the worker thread they
use. `pass` is the loop (first, retry, retry without comments), `step` what it
awaits, `todo`, `cur`, `again` its files. `RequestHere`, `RequestFresh` and
`Loaded` are `requestParse()` with `recycleWorker()` and `ensureWorker()`;
`Post` the request with its id and its timer; `Terminate` the `terminate()`
that nobody awaits: the worker's last answer may still be in the mail, and its
exit comes at any later time or never. `Parse`, `Die` and `DieLoading` are the
worker, `Deliver`, `WorkerExits`, `TerminatedExits` and `Timeout` the handlers
of the main thread, `Record` and `RecordRetry` what a loop does with the
outcome, `Abort` the caller's signal. `stored[f]` is the file whose symbols are
stored under `f`. Left out: the fallback without worker threads, the scan,
progress reports, and reading in batches (each file is read when it is taken).

Two history variables copy no code. `unlucky` holds the files whose request was
posted behind another one, or cut off in the last attempt by the exit of an
earlier worker: the code does not try them again. `miscounted` says that a file
with nodes and a swallowed memory error was counted as indexed and then again
by its retry.

* `indexall` (a healthy file, one that crashes workers, one that may hang;
  workers are recycled after 2 parses instead of 250): `NoMixUp`,
  `AccountedFor`, `HealthyIsIndexed`, `RunEnds`. Three files
  and an interval of 2 put a healthy file before, between and behind the
  others, on a fresh, a used and a recycled worker. Fairness: the event loop
  runs; a worker with work answers, dies, or is slow until the timer fires; the
  exit of the worker at hand is delivered, those of terminated workers need not
  be. `RunEnds` excepts a worker that dies while it loads its grammars:
  `ensureWorker()` listens for one message and would wait for ever.

Proved for any finite set of files, any outcomes and interval: `TypeCorrect`,
`OneInFlightHolds`, `NoMixUpHolds`, `HealthyIsIndexedHolds` and
`AccountedForHolds`. The first invariant says which file each
queued or posted job is for, by its number (`Numbered`), and in which steps the
worker can be dead or busy (`Fits`). The second follows a healthy file:
it is to come, at hand, stored, or listed for the next attempt (`Covered`).
The third keeps the books (`Balanced`): a file that is not open any more is in
one counter, with nodes or with one error (`OneEntry`); what is tried again has
failed for another reason than its size (`TriedAgain`), so that a retry only
moves a file from failed to indexed and the sums stay right (`Sums`).

### Engine, MCEngine, Engine_proofs

The engine of the MCP server, its sessions and the tool handler: one process,
which is a daemon (every session comes with the project) or serves one client
directly. An action is what the event loop runs between two awaits; a
continuation whose promise is settled is a microtask and runs before the next
message, timer or callback (`Ready`, `Idle`). `handleInitialize`, `Request`,
`Resolved`, `RootsResolved` and `RootsAnswer` are the session: it opens the
project of `--path` or of `rootUri`, or asks the client for its roots once.
`ensureInitialized`, `OpenEnds` and `retryInitializeSync` are the engine,
`SyncEnds` the catch-up sync it starts after opening, `execute` and `Serve`
`ToolHandler.execute()` before and after it awaits the catch-up gate
(`TakesGate`), with its cache of other projects and its reopening of a
replaced index; `stop` and `OnStop` the end. `Create` and `Remove` make and
delete an index on disk. Left out: `initGrammars()` failing, tools other than
one query, and the text of answers.

* `engine` (two projects, two sessions, three calls, an index made anew once;
  as a daemon and as a direct process): `NothingLeaks`, that after `stop()` no
  database is open; `WatchedIsServed`, that the instance that is watched is the
  one that answers; `GateIsKept`, that the first call is not answered from an
  index that has not caught up; `CallsAnswered`. Two sessions share an open,
  and two calls of one session share a gate. Fairness: opening ends, syncs
  end, microtasks run, `tools/call` lines of a session are read, and the
  timer of five seconds behind `roots/list` fires; a client need not answer it.

Exceptions the properties state: an open that is under way when `stop()` comes
leaves its database open (`doInitialize()` does not look at `closed` after its
await), one at most; and `execute()` clears the gate before it awaits it, so
that only the first call waits and calls that arrive meanwhile are answered
from the index as it is.

Proved for any projects, sessions and calls: `NothingLeaksHolds`,
`WatchedIsServedHolds` and `GateIsKeptHolds`. The heart of the first is that no
retry overtakes an open (`retryInitializeSync()` does not look for one): while
the project is being opened each call that has come has a promise to wait for,
and so will every session that is greeted before the grammars are loaded
(`Waited`); later opens are over before the next message. A promise that has
settled has left a project to look for (`HintKnown`), so that a call behind it
retries and does not begin a second open. With one adoption only (`OneDefault`)
the gate, the watcher and the default instance belong together (`Gated`).

### NameMatch, Resolver, MCResolver

`NameMatch` is the choice of a target: the strategies of `resolveOne()` in
their order, with `matchReference()` (exact name, method call on a typed,
static or instance receiver, fuzzy match), chained calls on what a factory
returns, `this.` members in the class hierarchy, and imports followed through
renaming and wildcard re-exports. The database answers without ORDER BY and
the code takes the first row of some quality, so an operator gives the set of
declarations that may be taken and `Orders` picks one. Names are values; what
regular expressions find in a reference is its form; which name is the
lower-case or capitalised form of another is a constant.

`Resolver` is the table `unresolved_refs` with the jobs that work it off:
`Index` extracts what changed and reads the table in batches with an await
between any two (`Batch`), which an `Interrupt` may end; `Sync` resolves the
references of changed files in one turn; `Clear` is the start of `codegraph
index`. What cannot be decided before there are edges between types waits in
two queues in memory (`deferredChainRefs`, `deferredThisMemberRefs`) until the
last passes (`Finish`). `names` is the set of known names that sieves references. The
extraction behind it is that of IndexStore.

* `resolver` (three small projects, in Kotlin, TypeScript and Go, rows in two
  orders, batches of 1 and of 3 instead of 5000, two edits, one interruption):
  `ResolutionComplete`, that after a job that was not broken off each reference
  the strategies can decide has its edge; `OneEdgePerSite`; `ThisStaysInHierarchy`,
  that `this.run` leads to the class or what is above it; `ImportsLead`, that an
  imported name leads to what its chain of exports names and never to a
  namesake. Batches of 1 split every pair of rows, batches of 3 a project's
  references into two.
* `resolver_break` finds `EveryRowIsTried` violated. The loop ends when a batch
  resolves nothing "so we don't infinite-loop", but the rows of that batch are
  deleted either way: the batches behind it are never read. It takes a whole
  batch (5000 rows) without a single resolvable reference.

Not modelled of the resolver: confidences and counters, the strategies of
frameworks, language-specific forms of import, Swift and C++ rules, names with
`::`, qualified names and file paths, built-in lists, the callback
synthesizer, caches other than the known names, and
`resolveReferences()` called on its own. Extraction is atomic here, and edits
come between jobs. A crash between the insertion of a batch's edges and the
deletion of its rows is left to IndexStore.

Proved in `Graph_proofs`, for any projects, contents, orders of rows and scan,
batch sizes, edits and interruptions: `OneEdgePerSiteHolds`. A reference is one
site of a source file, and a job can look at it more than once: it may be read
again in the next batch, and extracted again when its file changes. What makes
this harmless is the invariant `TableInv`: a row that is still in
`unresolved_refs` has no edge, and the queues in memory hold nothing that was
not put off. A batch keeps it because `Delete` removes by key at least the rows
that were resolved (`InsertNew`), a re-extraction because it deletes the edges
of the files whose rows it adds (`ExtractSingle`), and the last passes because
their edges are those of other sites (`LastPassesSingle`). References that were
put off are exempt, as in the code: see section 4. The assumption,
`ResolverAssumption`, is that the rows of a file are made by its declarations.

### EdgeTable, Bfs, FindPath, FileCycles, Traversal, MCTraversal, Graph_proofs

The searches of `graph/traversal.ts` and `graph/queries.ts` on a table of
edges (`EdgeTable`: the lookups by source, by target and by kind, in the order
of the rows). `Bfs` is `traverseBFS()` as a state machine that begins with
any graph, start and options; a turn of its loop is `Skip` (the node was
visited since it was queued) or `Visit`, whose neighbours are pushed in any
order the rows may have. `FindPath` is `findPath()` in the same way: a turn of
its loop returns the path at the head of the queue (`Arrive`), drops it
(`Drop`), or appends its longer paths in any order (`Extend`); `GiveUp` is the
null behind the loop. `FileCycles` is `findCircularDependencies()`: `dfs` is a
function that calls itself, so `calls` is the stack of its calls, each with the
dependencies it has still to look at; `Root` is the outer loop, `Descend` the
next turn of the loop in the last call, `Leave` its return, and `Enter` what
`dfs` does before its loop. The parameter `path` of the code is the files of
the calls below. `Traversal` has the other searches, which are recursive, as
operators: DFS, callers, callees, call graph, impact, type hierarchy, ancestors
and children, dead code. `MCTraversal` runs one of the three machines on each
graph.

* `traversal` (every table of up to three calls between four nodes in every
  order, of four in one order, and mixed kinds of edges between three nodes):
  `SearchIsExact`, that a breadth-first search finds what is reachable, at its
  distance, and nothing else; `PathIsShortest`, that the path that is returned
  leads to the goal and no way has fewer edges, and that null means that a set
  of nodes around the start has no edge out of it; `CyclesAreFound`, that what
  is reported is a cycle, and something is when there is one; and, against
  reference definitions, `DepthSearches` (the recursive searches respect their
  depth, callers and callees are inverses, the edges of a result join its
  nodes). Four nodes have a long and a short way to the same node with one
  behind it, which is what a depth limit can get wrong; three files have cycles
  of two and of three, behind a file that is in none.

Proved for every graph, order of rows and options, from the assumptions of the
modules (the graphs are graphs, the arguments have their types, nodes and files
are finitely many):

* `SearchIsExactHolds`. The invariant says that the queue is sorted by depth
  and holds at most two depths (`QueueSorted`), that nothing visited is deeper
  than what is queued, and that each edge a visited node may follow leads to a
  node visited or queued at most one step deeper (`Explored`).
* `PathIsShortestHolds`. `findPath()` keeps no depth of what it visited, so the
  argument is about ways: whatever a way leads to that is no longer than the
  first path of the queue was passed, or waits behind a path no longer than
  that way (`NearMet`). When the head gets longer, all of the queue has its
  length (`PathsSorted`), and the last but one node of a way of that length was
  passed, with all its neighbours passed or queued (`EdgesFollowed`). With an
  empty queue the same says that no edge leaves what was passed.
* `CyclesAreFoundHolds`. While no cycle was reported, a file whose call has
  returned depends on such files only (`FinishedClosed`) and no way leads back
  to it (`NoWayBack`). When a call returns, each of its dependencies has
  returned before (`Looked`), so a way that left its file stays among files
  that do not include it (`WayStays`). A cycle that is reported is one since
  the calls of the stack depend on each other in turn (`CallsDepend`) and no
  file is on it twice (`StackOfCalls`).

### Telemetry, MCTelemetry, Shared_proofs

`class Telemetry` in the processes of one user, which share a directory. A
process has one life: a server flushes on a timer, a command at most twice.
`Record`, `SetEnabled`, `Flush` and `Exit` begin a turn of the event loop;
`AppendRead` and `AppendWrite` are `appendLines()`, `StaleRead`, `StaleUnlink`
and `StalePutBack` the loop of `recoverStaleClaims()`, `ClaimQueue` the rename
and `ReadClaim` what follows up to the first request, `FetchAnswered` and
`FetchFails` the two ways a request ends, `ReleaseClaim` the removal of the claim.
`Selected` is `filter()`; the definition of `SelectSeq` is recursive, which no
proof could use.
Other processes act between these calls. `cache` is the choice a process has
read, which it keeps. A line is an event or a day's count: an event may be sent
at once, a count after `NextDay`. Left out: the environment variables that
force the choice, writes that fail, the size of a line and the text of events.

* `telemetry` (a server and a command, an event and a count, a queue of two
  lines, one line a request instead of 100, one failing request or crash, one
  hour in which the queue lies untouched): `NothingForgotten`, that a recorded
  line is received or still somewhere it will be found; `SentOnce`;
  `OffIsOff`, that a process that knows of the choice has neither a line to
  write nor a request open, and that "off" is not undone by others. Two
  processes race for one queue; two lines and one a request put a failure
  between two requests of one flush, and overflow the queue when one comes back.

`again` and `gone` are histories of the cases the code allows, set in the
actions where they occur: a late answer, a sender that ended before it removed
its claim, a claim that was stale when taken, an append that overwrote or
brought back lines, the cap, a crash that takes memory with it, two flushes of
one command. All other lines are sent once, none is forgotten. There is no
liveness: that the buffer drains needs a server that goes on flushing, which
nothing in the code promises.

Proved for any processes, lines, failures and crashes: `NothingForgottenHolds`,
`SentOnceHolds` and `OffIsOffHolds`, from `TelemetryAssumption` and the
invariant `TelemetryInv`. None of the three is inductive:

* A claim is removed at the end of a flush, so that `NothingForgotten` needs
  that what is in it is elsewhere by then: sent, in a flight or on its way back
  (`Covered`). This fails when two flushes of a command overlap, of which the
  second renames over the claim of the first (`Crowded`: all of it is in
  `gone`). `Anywhere` is the property with places that are not about to go.
* A line is sent once because, until it is sent, it is in one place, and once
  sent in none (`Custody`). A place is the queue, what a process owns, or what
  one has claimed: its claim, its flights and what it puts back are one. A
  process that recovers a claim holds a copy until it unlinks it, which is safe
  while nobody else does the same and the owner is gone (`Recovered`).
* Both need the order of the calls of a turn (`Turns`): a buffer is empty when
  the call that fills it is not under way, and what ends has no flight. `Known`
  says that a line is recorded before it is anywhere, so that recording it
  makes no second copy.
* `OffIsOff` needs that whoever sends has read the choice, and that a command
  that has not flushed has no flight (`Knows`): only such a one stores a choice.

## 3. What is proved, and what is not

Proofs and runs go together: each proved property was first checked by TLC,
most are still properties of a run. These are proved without being checked by
a run of their own, since another property of the run implies or uses them:
`MutualExclusion`, `NoLostWakeup`, `OnePlace`, `InflightIsOwed`,
`NoEarlyExit`, `IdleOnlyWhenUnused`, `OneInFlight`, `DegradedIsQuiet`,
`WorkIsScheduled`, `HolderOwnsFile`, and the type invariants. Assumptions about constants are
named in the module that declares them.

The library's theorems of induction take an operator as parameter, which the
provers cannot instantiate. Where a proof needs induction over naturals it
takes a least counterexample: well-foundedness has a first-order form in the
library (`LeastElement`, `UpTo` in Graph_proofs). That is how `FlattenSeqType`,
about the concatenation of any number of sequences, and `WayStays`, about ways
of any length, are proved.

Model-checked only:

* Liveness, since the prover handles neither fairness nor ENABLED: `StopEnds`,
  `CommandStops`, `NoAbandonedDaemon`, `CallsAnswered`, `EveryWaiterServed`,
  `LockAlwaysRecovers`, `RunEnds`, `CatchesUp`, `EndsWithHost`,
  `ContentionGivesUp`, `EditsReachIndex`, and the fairness half of
  `ImplementsMutexSpec` and `ImplementsRequestService`, whose safety half is
  proved (`Refinement`).
* `DepthSearches`: the searches of `Traversal` are recursive operators, whose
  order of visits their result depends on.
* `ResolutionComplete`, `ThisStaysInHierarchy` and `ImportsLead` hold of the
  projects of the run, not of all: the strategies are heuristics. Two classes
  of one name in a file, a hierarchy deeper than the limit of 5, or a chain of
  re-exports longer than 8 break them in the code as in the model, so that a
  theorem would need hypotheses that describe the run.

## 4. Where the code does what its comments do not say

One disagreement is a run that TLC finds violated (`resolver_break`). The
others show in the models as named exceptions of a property or as a comment:

* `utils.ts:245`: the lock file is unlinked after it was judged stale; two
  racers may both end with a file of theirs (`overlapped` in FileLock).
* `mcp/daemon.ts:480`: the same window in the pid file (`stolen` in Daemon).
* `mcp/daemon-registry.ts:117-125`: the stop command sweeps "a stopped
  daemon's leftover" files by path, also those of a successor (`stolen` too).
* `mcp/daemon-manager.ts:113`, `daemon-registry.ts:135`: the pid is reported as
  stopped whether or not it died within two seconds of SIGKILL (the models let
  SIGKILL end it at once).
* `mcp/index.ts:227`: the pid of the parent is taken at construction so that
  there is always a baseline; the proxy does not use it (`proxy.ts:386`).
* `mcp/daemon.ts:274`: a connection that closes before its hello is counted as
  a client until a sweep or the backstop.
* `mcp/daemon.ts:252-254`: a daemon that ends removes its registry record and
  its socket after its pid file is free; a successor may have put its own there
  by then. `list` then misses the successor for good, where
  `daemon-registry.ts` speaks of a moment.
* `extraction/index.ts:1178`: indexAll reads a file before it takes its stamp,
  and an edit in between stays hidden (`torn` in IndexStore).
* `extraction/index.ts:1344`: the stat of a retry is outside any try: a file
  deleted at that moment makes indexAll throw.
* `extraction/index.ts:1623`: a crash between deleting a file's nodes and
  writing back the edges into them loses those edges until the callers change.
* `extraction/index.ts:1658`: write-back is by simple name; methods that share
  one are confused.
* `index.ts:482`: indexFiles gives the lock file back before it has indexed.
* `mcp/engine.ts:167`, `mcp/tools.ts:1136`: see Engine.
* `sync/watcher.ts:443`: a directory made again is not watched; see WatchTree.
  A directory moved out of the project reports no source file either.
* `sync/watcher.ts:765`: the comment has a sync that succeeds clear the entries
  of edits that "are now in the DB", and prefers "shown stale, actually fresh"
  over "shown fresh, actually stale". The entries of files that `sync()` passed
  over (unreadable, too large, not parsed; `extraction/index.ts:1772`, `:1784`,
  `:1820`) are cleared too: shown fresh, actually stale. See Watcher; IndexStore
  has the same files as contents that cannot be stored.
* `sync/watcher.ts:772`: stamps of a clock set back clear an entry too early.
* `resolution/index.ts:873`: a chained row resolved during a sync stays in the
  table, and a later indexAll adds a second edge for it, where the comment says
  the pass is idempotent. References put off live in memory only, so an
  interrupted resolution is not resumed (`resolution/index.ts:972`). A
  deletion by key takes a second site of the same key behind the end of the
  batch with it.
* `resolution/import-resolver.ts:1845`: the search through re-exports marks
  files as visited without the name it looks for there.
* A sync does not resolve an unchanged file's reference to a symbol that a
  changed file adds; the batched branch of `sync()` is never taken.
* `graph/traversal.ts:384`: the type hierarchy has supertypes only, whatever it
  says of subtypes. The `limit` of a breadth-first search can be exceeded by
  the neighbours of its last node, and impact with a depth limit can miss
  dependents it first meets on a longer way.

* `telemetry/index.ts:342`: "Off is off" (lines 15 to 17) holds for processes
  started after the choice; a running daemon has cached the old one, goes on
  sending, and, if it had found none, its notice (line 369) stores "enabled"
  over the "off". Claims are not deleted either, and may be merged back later.
* `telemetry/index.ts:456`: rename keeps the time stamp, so that the claim of an
  old queue is stale at once and another process may send it too, against
  "concurrent processes can't double-send" (line 421).
* `telemetry/index.ts:408`: `appendLines()` reads the queue and writes it back:
  lines appended in between are lost, lines claimed in between come back.

## 5. Plan

Done: Mutex and FileLock with the Facade that uses them, IndexStore, IndexAll,
Resolver, Bfs, FindPath, FileCycles and Traversal, Watcher and WatchTree, Daemon with its Registry, Proxy
against RequestService with its Launcher, Engine, Telemetry. What is left, in this order:

1. The database layer: migrations that two processes run at once, and the
   upgrade of an index to a new schema; git hooks.
2. Theorems: the depth-limited searches of `Traversal` as machines with a stack
   of calls, as in FileCycles, and what `DepthSearches` says of them; every
   other invariant of a run that holds of all constants is proved.

## 6. Not modelled

Extractors, framework rules, the callback synthesizer, context ranking, search,
the text of tools, the CLI and the installers are sequential functions of
large data, or I/O, and hold most of the repository's lines; they have no
state whose interleavings a model checker would explore, and their correctness
is about syntax and wording. Migrations and git hooks are small and listed in
the plan.
