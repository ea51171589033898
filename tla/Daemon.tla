------------------------------- MODULE Daemon -------------------------------
(***************************************************************************)
(* The shared MCP daemon of a project (codegraph/src/mcp/daemon.ts,        *)
(* startDaemonProcess() in mcp/index.ts): detached processes arbitrate by  *)
(* a pid file, the winner listens on a socket, counts its clients, and     *)
(* ends when it has had none for a while, on a signal, or when the clients *)
(* it counts have been silent for long.                                    *)
(*                                                                         *)
(* The pid file appears by link() with its record complete; removing it is *)
(* a read, a test and an unlink, with other processes in between.  A pid   *)
(* is not reused.  Each connection is made once.  A peer may vanish: its   *)
(* process dies and the close never arrives (named pipes, issue 692).      *)
(***************************************************************************)
EXTENDS Naturals

CONSTANTS Process,      \* the processes spawned to be the daemon
          Client,       \* the connections that clients may make
          MaxAttempts,  \* TAKEOVER_MAX_RETRIES
          None, Dead, Corrupt  \* no file, one left by an earlier process, one without a record

ASSUME DaemonAssumption ==
    /\ MaxAttempts \in Nat \ {0}
    /\ {None, Dead, Corrupt} \cap Process = {}
    /\ None # Dead /\ None # Corrupt /\ Dead # Corrupt

VARIABLES pidFile, socketFile,  \* who is named by, or listens behind, each file
          pc, seen, attempts,   \* of a process: the next step, the record read, the rounds
          clients, timer,       \* Daemon.clients, and whether idleTimer is set
          server, conn,         \* of a connection: its daemon, and what that knows of it:
                                \* "new", "hello" (waiting for the client's), "known" or
                                \* "unknown" (a session, with or without pids), "closed"
          peer,                 \* "open", "left" or "vanished"
          stolen                \* history: a clear has removed the record of a live
                                \* process, put there after the clear had read the file

files == <<pidFile, socketFile>>
takeover == <<seen, attempts>>
inside == <<clients, timer>>
wire == <<server, conn, peer>>
vars == <<files, pc, takeover, inside, wire, stolen>>

Record == Process \cup {None, Dead, Corrupt}
Candidate == {"link", "read", "check", "clear", "unlink"}
Stopping == {"closing", "cleanup", "unlinkPid", "unlinkSocket"}
Session == {"known", "unknown"}

Init ==
    /\ pidFile \in {None, Dead, Corrupt} /\ socketFile \in {None, Dead}
    /\ pc = [p \in Process |-> "link"]
    /\ seen = [p \in Process |-> None] /\ attempts = [p \in Process |-> 0]
    /\ clients = [p \in Process |-> {}] /\ timer = [p \in Process |-> FALSE]
    /\ server = [c \in Client |-> None] /\ conn = [c \in Client |-> "new"]
    /\ peer = [c \in Client |-> "open"]
    /\ stolen = FALSE

isProcessAlive(p) == p \in Process /\ pc[p] # "gone"

At(p, from, to) == pc[p] = from /\ pc' = [pc EXCEPT ![p] = to]
Of(p) == {c \in Client : server[c] = p}

(* The process ends, its memory and its sockets with it.                   *)
Exit(p) ==
    /\ pc' = [pc EXCEPT ![p] = "gone"]
    /\ clients' = [clients EXCEPT ![p] = {}]
    /\ timer' = [timer EXCEPT ![p] = FALSE]
    /\ conn' = [c \in Client |-> IF c \in Of(p) THEN "closed" ELSE conn[c]]
    /\ UNCHANGED <<takeover, server, peer>>
-----------------------------------------------------------------------------
(* startDaemonProcess(): tryAcquireDaemonLock() links a complete record    *)
(* into place, or reads the one that is there.                             *)

(* Mutant: rename() in place of link(), which does not fail.               *)
BugExclusive == TRUE

Exclusive == pidFile = None

Link(p) ==
    /\ \/ Exclusive /\ At(p, "link", "bind") /\ pidFile' = p
       \/ ~Exclusive /\ At(p, "link", "read") /\ UNCHANGED pidFile
    /\ UNCHANGED <<socketFile, takeover, inside, wire, stolen>>

ReadRecord(p) ==
    /\ At(p, "read", "check")
    /\ seen' = [seen EXCEPT ![p] = pidFile]
    /\ UNCHANGED <<files, attempts, inside, wire, stolen>>

(* The holder is alive: this process is redundant.                         *)
Redundant(p) ==
    /\ pc[p] = "check" /\ isProcessAlive(seen[p])
    /\ Exit(p)
    /\ UNCHANGED <<files, stolen>>

Recover(p) ==
    /\ At(p, "check", "clear") /\ ~isProcessAlive(seen[p])
    /\ UNCHANGED <<files, takeover, inside, wire, stolen>>

(* clearStaleDaemonLock(): not another record than expected, and not of a  *)
(* live process.  No pid is expected of a record that was not readable.    *)
Clearable(p) ==
    /\ pidFile # None
    /\ pidFile # Corrupt => seen[p] \in {None, Corrupt, pidFile}
    /\ ~isProcessAlive(pidFile)

ClearTest(p) ==
    /\ At(p, "clear", "unlink") /\ Clearable(p)
    /\ seen' = [seen EXCEPT ![p] = pidFile]
    /\ UNCHANGED <<files, attempts, inside, wire, stolen>>

LastAttempt(p) == attempts[p] + 1 >= MaxAttempts

NextAttempt(p) ==
    /\ attempts' = [attempts EXCEPT ![p] = @ + 1]
    /\ pc' = [pc EXCEPT ![p] = IF LastAttempt(p) THEN "gone" ELSE "link"]
    /\ UNCHANGED <<socketFile, seen, inside, wire>>

ClearNot(p) ==
    /\ pc[p] = "clear" /\ ~Clearable(p)
    /\ NextAttempt(p)
    /\ UNCHANGED <<pidFile, stolen>>

(* unlink() takes whatever is there now.                                   *)
ClearUnlink(p) ==
    /\ pc[p] = "unlink"
    /\ pidFile' = None
    /\ stolen' = (stolen \/ (pidFile # seen[p] /\ isProcessAlive(pidFile)))
    /\ NextAttempt(p)
-----------------------------------------------------------------------------
(* Daemon.start().                                                         *)

ClearSocket(p) ==
    /\ At(p, "bind", "listen")
    /\ socketFile' = None
    /\ UNCHANGED <<pidFile, takeover, inside, wire, stolen>>

Listen(p) ==
    /\ socketFile = None /\ At(p, "listen", "serving")
    /\ socketFile' = p
    /\ timer' = [timer EXCEPT ![p] = TRUE]
    /\ UNCHANGED <<pidFile, takeover, clients, wire, stolen>>

(* EADDRINUSE: the process fails, and leaves the pid file.                 *)
ListenFails(p) ==
    /\ pc[p] = "listen" /\ socketFile # None
    /\ Exit(p)
    /\ UNCHANGED <<files, stolen>>
-----------------------------------------------------------------------------
(* Connections.                                                            *)

Accept(p, c) ==
    /\ conn[c] = "new" /\ socketFile = p /\ pc[p] = "serving"
    /\ conn' = [conn EXCEPT ![c] = "hello"]
    /\ server' = [server EXCEPT ![c] = p]
    /\ UNCHANGED <<files, pc, takeover, inside, peer, stolen>>

(* The session of a connection whose hello stage ended as `outcome': even  *)
(* if that was its close, after which its transport hears nothing.         *)
AddSession(p, c, outcome) ==
    /\ conn[c] = "hello" /\ server[c] = p
    /\ conn' = [conn EXCEPT ![c] = outcome]
    /\ clients' = [clients EXCEPT ![p] = @ \cup {c}]
    /\ timer' = [timer EXCEPT ![p] = FALSE]
    /\ UNCHANGED <<files, pc, takeover, server, peer, stolen>>

ClientHello(p, c) == peer[c] = "open" /\ AddSession(p, c, "known")
HelloTimeout(p, c) == peer[c] # "left" /\ AddSession(p, c, "unknown")
HelloClosed(p, c) == peer[c] = "left" /\ AddSession(p, c, "closed")

(* armIdleTimer(), once `left' are the clients.                            *)
Armed(p, left) == (pc[p] = "serving" /\ left = {}) \/ timer[p]

(* dropClient() for each of them.                                          *)
Drop(p, gone) ==
    /\ clients' = [clients EXCEPT ![p] = @ \ gone]
    /\ timer' = [timer EXCEPT ![p] = Armed(p, clients[p] \ gone)]
    /\ conn' = [c \in Client |-> IF c \in gone THEN "closed" ELSE conn[c]]
    /\ UNCHANGED <<files, pc, takeover, server, peer, stolen>>

SocketClose(p, c) ==
    /\ conn[c] \in Session /\ server[c] = p /\ peer[c] = "left"
    /\ Drop(p, {c})

(* reapDeadClients(); a client that left is dropped by SocketClose.        *)
Sweep(p) ==
    LET dead == {c \in clients[p] : conn[c] = "known" /\ peer[c] = "vanished"} IN
    /\ pc[p] = "serving" /\ dead # {}
    /\ Drop(p, dead)

Leave(c) ==
    /\ conn[c] \in Session \cup {"hello"} /\ peer[c] = "open"
    /\ peer' \in {[peer EXCEPT ![c] = "left"], [peer EXCEPT ![c] = "vanished"]}
    /\ UNCHANGED <<files, pc, takeover, inside, server, conn, stolen>>
-----------------------------------------------------------------------------
(* Daemon.stop().                                                          *)

(* Mutant: the sessions are forgotten, not stopped.                        *)
BugStopped(p) == {}

(* The sessions it stops.                                                  *)
Stopped(p) == clients[p]

(* The listener closes (and Node removes its path), what is in the hello   *)
(* stage stays.                                                            *)
stop(p) ==
    /\ At(p, "serving", "closing")
    /\ timer' = [timer EXCEPT ![p] = FALSE]
    /\ clients' = [clients EXCEPT ![p] = {}]
    /\ conn' = [c \in Client |-> IF c \in Stopped(p) THEN "closed" ELSE conn[c]]
    /\ socketFile' = None
    /\ UNCHANGED <<pidFile, takeover, server, peer, stolen>>

Signal(p) == stop(p)

(* The timer's own test is of the clients, so it passes.                   *)
IdleTimeout(p) == timer[p] /\ clients[p] = {} /\ stop(p)

(* Mutant: clients that did not identify themselves are overlooked.        *)
BugSilent(p) == \E c \in clients[p] : conn[c] = "known"

Silent(p) == clients[p] # {}

(* The inactivity backstop: the clients have sent nothing for long.        *)
Backstop(p) == Silent(p) /\ stop(p)

(* server.close() waits for every connection.                              *)
Lingering(p) == {c \in Of(p) : conn[c] \in Session \cup {"hello"}}

Closed(p) ==
    /\ At(p, "closing", "cleanup") /\ Lingering(p) = {}
    /\ UNCHANGED <<files, takeover, inside, wire, stolen>>

(* cleanupLockfile()                                                       *)
Cleanup(p) ==
    /\ pc[p] = "cleanup"
    /\ pc' = [pc EXCEPT ![p] = IF pidFile = p THEN "unlinkPid" ELSE "unlinkSocket"]
    /\ UNCHANGED <<files, takeover, inside, wire, stolen>>

UnlinkPid(p) ==
    /\ At(p, "unlinkPid", "unlinkSocket")
    /\ pidFile' = None
    /\ UNCHANGED <<socketFile, takeover, inside, wire, stolen>>

(* unlink() of whatever socket is there, and process.exit().               *)
UnlinkSocket(p) ==
    /\ pc[p] = "unlinkSocket"
    /\ socketFile' = None
    /\ Exit(p)
    /\ UNCHANGED <<pidFile, stolen>>

(* Killed, by the watchdog too, or crashed.                                *)
Crash(p) ==
    /\ pc[p] # "gone"
    /\ Exit(p)
    /\ UNCHANGED <<files, stolen>>
-----------------------------------------------------------------------------
(* What only concerns the pid file, the sockets and the clients.           *)
Run(p) ==
    \/ Link(p) \/ ReadRecord(p) \/ Redundant(p) \/ Recover(p)
    \/ ClearTest(p) \/ ClearNot(p) \/ ClearUnlink(p)
    \/ ClearSocket(p) \/ ListenFails(p)
    \/ IdleTimeout(p) \/ Closed(p) \/ Cleanup(p) \/ UnlinkPid(p)

Step(p) == Run(p) \/ Listen(p) \/ UnlinkSocket(p)

Event(p, c) == HelloTimeout(p, c) \/ HelloClosed(p, c) \/ SocketClose(p, c)

Outside ==
    \/ \E p \in Process : Sweep(p) \/ Backstop(p) \/ Signal(p) \/ Crash(p)
    \/ \E p \in Process, c \in Client : Accept(p, c) \/ ClientHello(p, c) \/ Event(p, c)
    \/ \E c \in Client : Leave(c)

Next == (\E p \in Process : Step(p)) \/ Outside

Spec == Init /\ [][Next]_vars

Attended(p) == \E c \in Lingering(p) : peer[c] = "open"

(* What a process does for sure: the backstop only where nobody can send   *)
(* anything any more.                                                      *)
Duty(p) == Sweep(p) \/ (~Attended(p) /\ Backstop(p))

(* A process that has something to do does something of it, timers fire    *)
(* and closes are delivered.                                               *)
Fairness ==
    /\ \A p \in Process : WF_vars(Step(p) \/ Duty(p))
    /\ \A c \in Client : WF_vars(\E p \in Process : Event(p, c))

FairSpec == Spec /\ Fairness
-----------------------------------------------------------------------------
TypeOK ==
    /\ pidFile \in Record /\ socketFile \in Process \cup {None, Dead}
    /\ pc \in [Process -> Candidate \cup {"bind", "listen", "serving"} \cup Stopping \cup {"gone"}]
    /\ seen \in [Process -> Record] /\ attempts \in [Process -> 0..MaxAttempts]
    /\ \A p \in Process : pc[p] \in Candidate => attempts[p] < MaxAttempts
    /\ clients \in [Process -> SUBSET Client] /\ timer \in [Process -> BOOLEAN]
    /\ server \in [Client -> Process \cup {None}]
    /\ conn \in [Client -> {"new", "hello", "closed"} \cup Session]
    /\ peer \in [Client -> {"open", "left", "vanished"}]
    /\ stolen \in BOOLEAN

Owning(p) == pc[p] \in {"bind", "listen", "serving", "closing", "cleanup", "unlinkPid"}

(* As long as no clear has removed a record it had not read, the pid file  *)
(* names whoever owns the project, so there is one daemon: link() is       *)
(* atomic, an exit removes its own record only, and a crash leaves one     *)
(* that names nobody alive.                                                *)
OneDaemon ==
    ~stolen => \A p \in Process : Owning(p) => pidFile = p

(* A daemon counts every session it serves, and its idle timer runs        *)
(* exactly while it counts none: it neither ends under a client nor        *)
(* outlives the last one because a close, a reaping or a late hello came   *)
(* in another order.                                                       *)
IdleOnlyWhenUnused ==
    \A p \in Process :
        /\ \A c \in Of(p) : conn[c] \in Session => c \in clients[p]
        /\ timer[p] <=> pc[p] = "serving" /\ clients[p] = {}

(* A daemon that nobody is connected to stops in the end, or somebody      *)
(* connects: neither vanished peers nor phantom clients pin it for ever.   *)
NoAbandonedDaemon ==
    \A p \in Process : pc[p] = "serving" ~> pc[p] # "serving" \/ Attended(p)

Late(p) == {c \in Of(p) : (conn[c] = "hello" \/ c \in clients[p]) /\ peer[c] # "left"}

(* A daemon that stops ends, and frees the project, unless a connection    *)
(* that was in its hello stage holds it until its peer leaves.             *)
StopEnds ==
    \A p \in Process : pc[p] = "closing" /\ Late(p) = {} ~> pc[p] = "gone"
=============================================================================
