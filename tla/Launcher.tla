------------------------------ MODULE Launcher ------------------------------
(***************************************************************************)
(* The start and the end of the process that an MCP host runs: MCPServer   *)
(* (codegraph/src/mcp/index.ts) decides between an in-process server and   *)
(* the proxy, the proxy looks for the daemon, spawns one and tries again,  *)
(* and the process ends with its host: by its stdin (stdin-teardown.ts) or *)
(* by watching its parent (ppid-watchdog.ts), which may be a process that  *)
(* has only restarted node with other flags (wasm-runtime-flags.ts).       *)
(*                                                                         *)
(* Who answers at the socket is the daemons' affair (Daemon); here it is a *)
(* choice.  The watchdog is not disabled, and its timer runs.  In-process  *)
(* from the start, the session serves as the proxy does without a daemon.  *)
(***************************************************************************)
EXTENDS Proxy

CONSTANTS Host, Shim, Reaper,  \* pids: the host, the process in between, and whoever
                               \* inherits orphans, which outlives everybody
          None,                \* no pid
          MaxRetries           \* DAEMON_CONNECT_MAX_RETRIES

ASSUME LauncherAssumption ==
    /\ MaxRetries \in Nat \ {0}
    /\ Host # Shim /\ Host # Reaper /\ Shim # Reaper /\ None \notin {Host, Shim, Reaper}

VARIABLES phase, retries,            \* the next step of the start-up
          platform, relaunched,      \* how the process was started
          hostPpid, originalPpid,    \* what the watchdog knows
          alive, stdin, signalled    \* the world outside

started == <<phase, retries, hostPpid, originalPpid>>
fixed == <<platform, relaunched>>
outside == <<alive, stdin, signalled>>
lvars == <<vars, started, fixed, outside>>

Parent == IF relaunched THEN Shim ELSE Host

(* process.ppid of a child: an orphan is inherited, but not on Windows.    *)
PpidOf(parent) == IF parent \in alive \/ platform = "win32" THEN parent ELSE Reaper

(* parseHostPpid() of what the process in between saw as its parent.       *)
parseHostPpid(pid) == IF pid = Reaper THEN None ELSE pid

LInit ==
    /\ Init
    /\ phase = "load" /\ retries = 0
    /\ platform \in {"posix", "win32"} /\ relaunched \in BOOLEAN
    /\ alive \in {{Parent}, {Parent, Host}}
    /\ hostPpid = IF relaunched THEN parseHostPpid(PpidOf(Host)) ELSE None
    /\ originalPpid = None
    /\ stdin = "open" /\ signalled = FALSE

Phase(from, to) == phase = from /\ phase' = to
-----------------------------------------------------------------------------
(* new MCPServer(): the parent is asked for.                               *)
Construct ==
    /\ Phase("load", "start")
    /\ originalPpid' = PpidOf(Parent)
    /\ UNCHANGED <<vars, retries, hostPpid, fixed, outside>>

(* start(): opted out of the daemon, or no project there.                  *)
startDirect ==
    /\ Phase("start", "settled")
    /\ Unavailable
    /\ UNCHANGED <<retries, hostPpid, originalPpid, fixed, outside>>

(* Otherwise the proxy, whose watchdog asks again.                         *)
StartProxy ==
    /\ Phase("start", "probe")
    /\ originalPpid' = PpidOf(Parent)
    /\ UNCHANGED <<vars, retries, hostPpid, fixed, outside>>

(* getDaemonSocket()                                                       *)
Connecting == phase \in {"probe", "poll"}

(* connectWithHello() gave a socket.                                       *)
Hello ==
    /\ Connecting /\ phase' = "settled"
    /\ Connect
    /\ UNCHANGED <<retries, hostPpid, originalPpid, fixed, outside>>

(* A daemon of another version, or no way to spawn one.                    *)
VersionMismatch ==
    /\ Connecting /\ phase' = "settled"
    /\ Unavailable
    /\ UNCHANGED <<retries, hostPpid, originalPpid, fixed, outside>>

(* Nobody there, or no hello in three seconds.                             *)
SpawnDaemon ==
    /\ Phase("probe", "poll")
    /\ UNCHANGED <<vars, retries, hostPpid, originalPpid, fixed, outside>>

LastRetry == retries + 1 >= MaxRetries

Retry ==
    /\ phase = "poll" /\ ~LastRetry
    /\ retries' = retries + 1
    /\ UNCHANGED <<vars, phase, hostPpid, originalPpid, fixed, outside>>

GiveUp ==
    /\ LastRetry /\ Phase("poll", "settled")
    /\ Unavailable
    /\ UNCHANGED <<retries, hostPpid, originalPpid, fixed, outside>>

StartUp ==
    \/ Construct \/ startDirect \/ StartProxy
    \/ Hello \/ VersionMismatch \/ SpawnDaemon \/ Retry \/ GiveUp
-----------------------------------------------------------------------------
(* The host.                                                               *)

Serving == phase \notin {"load", "start"}

(* With or without a word, and with or without its end of stdin: others    *)
(* may hold that.                                                          *)
HostDies ==
    /\ Host \in alive /\ alive' = alive \ {Host}
    /\ UNCHANGED <<vars, started, fixed, stdin, signalled>>

ShimDies ==
    /\ Shim \in alive /\ alive' = alive \ {Shim}
    /\ UNCHANGED <<vars, started, fixed, stdin, signalled>>

StdinEnds ==
    /\ stdin = "open" /\ stdin' = "ended"
    /\ UNCHANGED <<vars, started, fixed, alive, signalled>>

(* treatStdinFailureAsShutdown()                                           *)
StdinShutdown ==
    /\ Serving /\ stdin = "ended"
    /\ shutdown
    /\ UNCHANGED <<started, fixed, outside>>

(* Mutant: as before issue 692, only a change of the parent counts.        *)
BugSupervisionLost ==
    \/ PpidOf(Parent) # originalPpid
    \/ hostPpid # None /\ hostPpid \notin alive

(* supervisionLostReason(); the Reaper is alive.                           *)
supervisionLost ==
    \/ PpidOf(Parent) # originalPpid
    \/ platform = "win32" /\ originalPpid # Reaper /\ originalPpid \notin alive
    \/ hostPpid # None /\ hostPpid \notin alive

PpidWatchdog ==
    /\ Serving /\ supervisionLost
    /\ shutdown
    /\ UNCHANGED <<started, fixed, outside>>

Terminated ==
    /\ signalled' = TRUE
    /\ shutdown
    /\ UNCHANGED <<started, fixed, alive, stdin>>
-----------------------------------------------------------------------------
(* The session; a daemon is up as long as the proxy looks for it.          *)

Ask(r) == Serving /\ (StaticRequest(r) \/ RoutedRequest(r))

Session ==
    \/ \E r \in Request : Ask(r) \/ Work(r)
    \/ EngineReady \/ DaemonLost
    \/ daemonStatus # "connecting" /\ (DaemonWedges \/ DaemonDies \/ WatchdogKills)

Alone == UNCHANGED <<started, fixed, outside>>

LNext ==
    /\ ~closed
    /\ \/ StartUp \/ HostDies \/ ShimDies \/ StdinEnds
       \/ StdinShutdown \/ PpidWatchdog \/ Terminated
       \/ Session /\ Alone

LSpec == LInit /\ [][LNext]_lvars

(* The event loop runs: whatever it waits for takes place.  The attempts   *)
(* to connect end one by one, with an answer or their time-out.            *)
LFairness ==
    /\ WF_lvars(~closed /\ StartUp)
    /\ WF_lvars(~closed /\ StdinShutdown) /\ WF_lvars(~closed /\ PpidWatchdog)
    /\ \A r \in Request : WF_lvars(~closed /\ Work(r) /\ Alone)
    /\ WF_lvars(~closed /\ EngineReady /\ Alone) /\ WF_lvars(~closed /\ DaemonLost /\ Alone)
    /\ WF_lvars(~closed /\ WatchdogKills /\ Alone)

LFairSpec == LSpec /\ LFairness
-----------------------------------------------------------------------------
LTypeOK ==
    /\ phase \in {"load", "start", "probe", "poll", "settled"}
    /\ retries \in 0..(MaxRetries - 1)
    /\ platform \in {"posix", "win32"} /\ relaunched \in BOOLEAN
    /\ hostPpid \in {Host, None} /\ originalPpid \in {Parent, Reaper, None}
    /\ alive \subseteq {Host, Shim} /\ stdin \in {"open", "ended"} /\ signalled \in BOOLEAN

(* What the watchdog needs to see the host die: to have learnt its pid     *)
(* while it lived.                                                         *)
KnowsHost == Serving /\ Host \in {hostPpid, originalPpid}

(* The process does not outlive its host: it ends when its stdin does, and *)
(* when the host dies without a word, on every platform and behind the     *)
(* process in between, unless the host was dead before it was asked for.   *)
EndsWithHost == stdin = "ended" \/ (Host \notin alive /\ KnowsHost) ~> closed

(* Nor does the watchdog end it early: without a signal and with its stdin *)
(* open, host or parent is gone when it ends.                              *)
NoEarlyExit == closed /\ ~signalled /\ stdin = "open" => {Host, Parent} \ alive # {}
=============================================================================
