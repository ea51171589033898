------------------------------- MODULE Proxy -------------------------------
(***************************************************************************)
(* runLocalHandshakeProxy (codegraph/src/mcp/proxy.ts): the process that   *)
(* an MCP host starts.  It answers the handshake itself, connects to the   *)
(* shared daemon in the background, forwards every other request, and      *)
(* serves the session in-process when no daemon comes up or the daemon is  *)
(* lost.  The daemon's end of the connection is a session (session.ts,     *)
(* transport.ts) in a process with a watchdog (liveness-watchdog.ts).      *)
(*                                                                         *)
(* A line on a wire or in a buffer is the request it carries, or the       *)
(* answer to it.  No line is sent twice, so a queue is the set of its      *)
(* lines: every order is allowed, FIFO included.  Notifications get no     *)
(* answer, and a daemon's session never asks its client (it knows the      *)
(* project), so a line is a request in one direction, an answer in the     *)
(* other.                                                                  *)
(***************************************************************************)
EXTENDS Naturals

CONSTANTS Request,    \* the client's requests, told apart by their ids
          Method      \* "initialize", "static" (tools/list and the empty
                      \* lists), "call" (tools/call) or "quick" (ping, and
                      \* the methods nobody serves)

(* A client initializes once.                                              *)
ASSUME ProxyAssumption ==
    /\ Method \in [Request -> {"initialize", "static", "call", "quick"}]
    /\ \A r, s \in Request : Method[r] = "initialize" /\ Method[s] = "initialize" => r = s

VARIABLES daemonStatus,        \* "connecting", "ready" or "failed"
          pending, inflight,   \* the fields of the same names
          buffered, awaiting,  \* what the fallback loop has left, and the call it waits for
          local, engine,       \* tool calls in the in-process engine, and its state
          toDaemon, serving, toProxy,  \* the socket, with the tool calls that the
                                       \* daemon's session has not answered
          daemon,              \* "up", "wedged" (its main thread is blocked) or "gone"
          asked, answers, closed  \* what the client sent and got, as in RequestService

conn == <<daemonStatus, daemon, closed>>
buffers == <<pending, inflight, buffered, awaiting>>
remote == <<toDaemon, serving, toProxy>>
inside == <<local, engine>>
client == <<asked, answers>>
vars == <<conn, buffers, remote, inside, client>>

OfMethod(m) == {r \in Request : Method[r] = m}
Initialize == OfMethod("initialize")
Calls(S) == S \cap OfMethod("call")

Init ==
    /\ daemonStatus = "connecting" /\ daemon = "up" /\ closed = FALSE
    /\ pending = {} /\ inflight = {} /\ buffered = {} /\ awaiting = {}
    /\ toDaemon = {} /\ serving = {} /\ toProxy = {}
    /\ local = {} /\ engine = "none"
    /\ asked = {} /\ answers = [r \in Request |-> 0]

Answer(S) == answers' = [r \in Request |-> IF r \in S THEN answers[r] + 1 ELSE answers[r]]
-----------------------------------------------------------------------------
(* handleLocally() on some lines: a tool call waits for the engine, an     *)
(* initialize was answered before, the rest is answered in the same turn.  *)

AnsweredAtOnce(S) == (S \ Calls(S)) \ Initialize

handleLocally(S) ==
    /\ local' = local \cup Calls(S)
    /\ engine' = IF Calls(S) # {} /\ engine = "none" THEN "opening" ELSE engine

(* trackInflight(): what must be answered if the daemon dies.              *)
Tracked(S) == S \ Initialize

routeToDaemon(r) ==
    \/ /\ daemonStatus = "ready"
       /\ toDaemon' = toDaemon \cup {r}
       /\ inflight' = inflight \cup Tracked({r})
       /\ UNCHANGED <<pending, inside>>
    \/ /\ daemonStatus = "connecting"
       /\ pending' = pending \cup {r}
       /\ UNCHANGED <<toDaemon, inflight, inside>>
    \/ /\ daemonStatus = "failed"
       /\ handleLocally({r})
       /\ UNCHANGED <<pending, toDaemon, inflight>>

(* Lines on stdin.                                                         *)
StaticRequest(r) ==
    /\ r \notin asked /\ Method[r] = "static"
    /\ asked' = asked \cup {r}
    /\ Answer({r})
    /\ UNCHANGED <<conn, buffers, remote, inside>>

RoutedRequest(r) ==
    /\ r \notin asked /\ Method[r] # "static"
    /\ asked' = asked \cup {r}
    /\ routeToDaemon(r)
    /\ Answer(IF r \in Initialize THEN {r}
              ELSE IF daemonStatus = "failed" THEN AnsweredAtOnce({r}) ELSE {})
    /\ UNCHANGED <<conn, buffered, awaiting, serving, toProxy>>
-----------------------------------------------------------------------------
(* The connection.                                                         *)

(* getDaemonSocket() resolved to a socket: what waited is sent.            *)
Connect ==
    /\ daemonStatus = "connecting" /\ daemon = "up"
    /\ daemonStatus' = "ready"
    /\ toDaemon' = pending
    /\ inflight' = Tracked(pending)
    /\ pending' = {}
    /\ UNCHANGED <<daemon, closed, buffered, awaiting, serving, toProxy, inside, client>>

(* It resolved to null: another version, or none bound within six seconds. *)
Unavailable ==
    /\ daemonStatus = "connecting"
    /\ daemonStatus' = "failed"
    /\ buffered' = pending /\ pending' = {}
    /\ UNCHANGED <<daemon, closed, inflight, awaiting, remote, inside, client>>

(* `for (const line of buffered) await handleLocally(line)': the loop goes *)
(* on when the call it waits for is answered.                              *)
NextBuffered(r) ==
    /\ r \in buffered /\ awaiting = {}
    /\ buffered' = buffered \ {r}
    /\ awaiting' = Calls({r})
    /\ handleLocally({r})
    /\ Answer(AnsweredAtOnce({r}))
    /\ UNCHANGED <<conn, pending, inflight, remote, asked>>

EngineReady ==
    /\ engine = "opening"
    /\ engine' = "ready"
    /\ UNCHANGED <<conn, buffers, remote, local, client>>

LocalAnswer(r) ==
    /\ r \in local /\ engine = "ready"
    /\ local' = local \ {r}
    /\ awaiting' = awaiting \ {r}
    /\ Answer({r})
    /\ UNCHANGED <<conn, pending, inflight, buffered, remote, engine, asked>>

(* Mutant: the daemon's answer to initialize is passed on.                 *)
BugSuppressed == {}

(* clientInitId is set by the time the initialize is forwarded.            *)
Suppressed == Initialize

StillInflight(r) == inflight \ {r}

(* An answer from the daemon.                                              *)
DaemonLine(r) ==
    /\ daemonStatus = "ready" /\ r \in toProxy
    /\ toProxy' = toProxy \ {r}
    /\ inflight' = StillInflight(r)
    /\ Answer({r} \ Suppressed)
    /\ UNCHANGED <<conn, pending, buffered, awaiting, toDaemon, serving, inside, asked>>

Orphaned == inflight

(* onDaemonLost(): the socket closed or failed, and what the daemon had    *)
(* still written is read before, or lost.                                  *)
DaemonLost ==
    /\ daemonStatus = "ready" /\ daemon = "gone"
    /\ daemonStatus' = "failed"
    /\ toDaemon' = {} /\ serving' = {} /\ toProxy' = {}
    /\ inflight' = {}
    /\ handleLocally(Orphaned)
    /\ Answer(AnsweredAtOnce(Orphaned))
    /\ UNCHANGED <<daemon, closed, pending, buffered, awaiting, asked>>

(* stdin ends or fails, or the host is gone: the process exits.            *)
shutdown ==
    /\ closed' = TRUE
    /\ UNCHANGED <<daemonStatus, daemon, buffers, remote, inside, client>>
-----------------------------------------------------------------------------
(* The daemon's session for this client.                                   *)

DaemonTakes(r) ==
    /\ daemonStatus = "ready" /\ daemon = "up" /\ r \in toDaemon
    /\ toDaemon' = toDaemon \ {r}
    /\ serving' = serving \cup Calls({r})
    /\ toProxy' = toProxy \cup ({r} \ Calls({r}))
    /\ UNCHANGED <<conn, buffers, inside, client>>

DaemonAnswers(r) ==
    /\ daemonStatus = "ready" /\ daemon = "up" /\ r \in serving
    /\ serving' = serving \ {r}
    /\ toProxy' = toProxy \cup {r}
    /\ UNCHANGED <<conn, buffers, toDaemon, inside, client>>

DaemonWedges ==
    /\ daemon = "up"
    /\ daemon' = "wedged"
    /\ UNCHANGED <<daemonStatus, closed, buffers, remote, inside, client>>

(* Stopped, crashed, or this client dropped.                               *)
DaemonDies ==
    /\ daemon = "up"
    /\ daemon' = "gone"
    /\ UNCHANGED <<daemonStatus, closed, buffers, remote, inside, client>>

WatchdogKills ==
    /\ daemon = "wedged"
    /\ daemon' = "gone"
    /\ UNCHANGED <<daemonStatus, closed, buffers, remote, inside, client>>

Work(r) == NextBuffered(r) \/ LocalAnswer(r) \/ DaemonLine(r) \/ DaemonTakes(r) \/ DaemonAnswers(r)

Next ==
    /\ ~closed
    /\ \/ \E r \in Request : StaticRequest(r) \/ RoutedRequest(r) \/ Work(r)
       \/ Connect \/ Unavailable \/ EngineReady \/ DaemonLost
       \/ DaemonWedges \/ DaemonDies \/ WatchdogKills \/ shutdown

Spec == Init /\ [][Next]_vars

(* The attempts to connect end, tool calls and the opening of the engine   *)
(* settle, sockets deliver, and the watchdog kills a daemon that hangs.    *)
Fairness ==
    /\ \A r \in Request : WF_vars(~closed /\ Work(r))
    /\ WF_vars(~closed /\ (Connect \/ Unavailable))
    /\ WF_vars(~closed /\ EngineReady) /\ WF_vars(~closed /\ DaemonLost)
    /\ WF_vars(~closed /\ WatchdogKills)

FairSpec == Spec /\ Fairness
-----------------------------------------------------------------------------
TypeOK ==
    /\ daemonStatus \in {"connecting", "ready", "failed"}
    /\ daemon \in {"up", "wedged", "gone"} /\ closed \in BOOLEAN
    /\ pending \subseteq Request /\ inflight \subseteq Request \ Initialize
    /\ buffered \subseteq Request /\ awaiting \subseteq OfMethod("call")
    /\ toDaemon \subseteq Request /\ serving \subseteq OfMethod("call") /\ toProxy \subseteq Request
    /\ local \subseteq OfMethod("call") /\ engine \in {"none", "opening", "ready"}
    /\ asked \subseteq Request /\ answers \in [Request -> Nat]

Unanswered == {r \in asked : answers[r] = 0}

(* A request without an answer is in exactly one place that will answer    *)
(* it, through every change of the daemon's status: none is dropped, none  *)
(* is served twice.                                                        *)
OnePlace ==
    /\ Unanswered = ((pending \cup buffered) \ Initialize) \cup inflight \cup local
    /\ pending \cap inflight = {} /\ pending \cap local = {} /\ pending \cap buffered = {}
    /\ buffered \cap inflight = {} /\ buffered \cap local = {} /\ inflight \cap local = {}

(* What the proxy counts as in flight is what the daemon still owes: each  *)
(* such request is on its way there, in service, or on its way back.       *)
InflightIsOwed ==
    daemonStatus = "ready" =>
        /\ inflight = (toDaemon \cup serving \cup toProxy) \ Initialize
        /\ toDaemon \cap serving = {} /\ toDaemon \cap toProxy = {} /\ serving \cap toProxy = {}

Service == INSTANCE RequestService

(* With the handshake answered early, the daemon's answers relayed and the *)
(* in-process engine behind it, the proxy is a request service: exactly    *)
(* one answer to each request unless the session ends.                     *)
ImplementsRequestService == Service!SSpec
=============================================================================
