------------------------------ MODULE Registry ------------------------------
(***************************************************************************)
(* The daemon with its record in the registry (mcp/daemon-registry.ts) and *)
(* one run of the `codegraph daemon' command, which lists the daemons and  *)
(* stops the one that its user picks.                                      *)
(*                                                                         *)
(* The record is a file per project that a daemon writes once it listens   *)
(* and unlinks when it has closed.  The command reads it, reads the pid    *)
(* file, signals, waits, and sweeps away the daemon's three files, while   *)
(* other processes may be taking over the project.                         *)
(***************************************************************************)
EXTENDS Daemon

VARIABLES record,        \* whose record the registry has
          deregistered,  \* the processes that have unlinked it
          cmd, target    \* the next step of the command, and the process to stop

command == <<cmd, target>>
registry == <<record, deregistered>>
rvars == <<vars, registry, command>>

RInit ==
    /\ Init
    /\ record \in {None, Dead} /\ deregistered = {}
    /\ cmd = "list" /\ target = None

To(from, to) == cmd = from /\ cmd' = to
-----------------------------------------------------------------------------
(* The daemon.                                                             *)

(* registerDaemon(), which may fail, once start() listens.                 *)
Register(p) ==
    /\ Listen(p)
    /\ record' \in {record, p}
    /\ UNCHANGED <<deregistered, command>>

deregisterDaemon(p) ==
    /\ pc[p] = "unlinkSocket" /\ p \notin deregistered
    /\ deregistered' = deregistered \cup {p}
    /\ record' = None
    /\ UNCHANGED <<vars, command>>

UnlinkLast(p) ==
    /\ p \in deregistered
    /\ UnlinkSocket(p)
    /\ UNCHANGED <<registry, command>>

RStep(p) ==
    \/ Run(p) /\ UNCHANGED <<registry, command>>
    \/ Register(p) \/ deregisterDaemon(p) \/ UnlinkLast(p)
-----------------------------------------------------------------------------
(* listDaemons() for the picker: a record of a process that is not alive   *)
(* is unlinked, or whatever record there is by then.                       *)

Listed ==
    /\ isProcessAlive(record) /\ To("list", "pick")
    /\ UNCHANGED <<vars, registry, target>>

Unlisted ==
    /\ ~isProcessAlive(record)
    /\ To("list", IF record = None THEN "done" ELSE "prune")
    /\ UNCHANGED <<vars, registry, target>>

Prune ==
    /\ To("prune", "done")
    /\ record' = None
    /\ UNCHANGED <<vars, deregistered, target>>

Pick ==
    /\ To("pick", "read") \/ To("pick", "done")
    /\ UNCHANGED <<vars, registry, target>>

(* stopDaemonAt()                                                          *)

Found(p) == target' = p /\ To(cmd, IF isProcessAlive(p) THEN "signal" ELSE "sweepPid")

ReadPid ==
    /\ cmd = "read"
    /\ \/ pidFile \notin {None, Corrupt} /\ Found(pidFile)
       \/ pidFile \in {None, Corrupt} /\ cmd' = "lookup" /\ UNCHANGED target
    /\ UNCHANGED <<vars, registry>>

(* listDaemons({ prune: false }) has live daemons only.                    *)
Lookup ==
    /\ cmd = "lookup"
    /\ Found(IF isProcessAlive(record) THEN record ELSE None)
    /\ UNCHANGED <<vars, registry>>

(* Before start() has set its handlers a signal ends the process, and one  *)
(* that is stopping ignores it.                                            *)
Sigterm ==
    /\ To("signal", "wait")
    /\ \/ pc[target] = "serving" /\ Signal(target)
       \/ pc[target] \in Candidate \cup {"bind", "listen"} /\ Crash(target)
       \/ pc[target] \in Stopping \cup {"gone"} /\ UNCHANGED vars
    /\ UNCHANGED <<registry, target>>

Died ==
    /\ ~isProcessAlive(target) /\ To("wait", "sweepPid")
    /\ UNCHANGED <<vars, registry, target>>

(* Mutant: no second signal after the three seconds.                       *)
BugSigkill == To("wait", "sweepPid") /\ UNCHANGED <<vars, registry, target>>

Sigkill ==
    /\ isProcessAlive(target) /\ To("wait", "sweepPid")
    /\ Crash(target)
    /\ UNCHANGED <<registry, target>>

(* cleanupDaemonArtifacts() unlinks what is there now.                     *)
SweepPid ==
    /\ To("sweepPid", "sweepSocket")
    /\ pidFile' = None
    /\ stolen' = (stolen \/ isProcessAlive(pidFile))
    /\ UNCHANGED <<socketFile, pc, takeover, inside, wire, registry, target>>

SweepSocket ==
    /\ To("sweepSocket", "sweepRecord")
    /\ socketFile' = None
    /\ UNCHANGED <<pidFile, pc, takeover, inside, wire, stolen, registry, target>>

SweepRecord ==
    /\ To("sweepRecord", "done")
    /\ record' = None
    /\ UNCHANGED <<vars, deregistered, target>>

CommandStep ==
    \/ ReadPid \/ Lookup \/ Sigterm \/ Died \/ Sigkill
    \/ SweepPid \/ SweepSocket \/ SweepRecord
-----------------------------------------------------------------------------
Quiet == UNCHANGED <<registry, command>>

RNext ==
    \/ \E p \in Process : RStep(p)
    \/ Outside /\ Quiet
    \/ Listed \/ Unlisted \/ Prune \/ Pick \/ CommandStep

RSpec == RInit /\ [][RNext]_rvars

(* As for the daemon; once its user has picked a daemon, the command runs  *)
(* to its end.                                                             *)
RFairness ==
    /\ \A p \in Process : WF_rvars(RStep(p) \/ (Duty(p) /\ Quiet))
    /\ \A c \in Client : WF_rvars(\E p \in Process : Event(p, c) /\ Quiet)
    /\ WF_rvars(CommandStep)

RFairSpec == RSpec /\ RFairness
-----------------------------------------------------------------------------
RTypeOK ==
    /\ TypeOK
    /\ record \in Process \cup {None, Dead} /\ deregistered \subseteq Process
    /\ cmd \in {"list", "prune", "pick", "read", "lookup", "signal", "wait",
                "sweepPid", "sweepSocket", "sweepRecord", "done", "none"}
    /\ target \in Process \cup {None, Dead}
    /\ cmd \in {"signal", "wait"} => target \in Process

(* The command ends the daemon that it has found, in whatever state it is, *)
(* one that waits in server.close() for a late connection too, and leaves  *)
(* neither pid file, socket nor record behind that names it.               *)
CommandStops ==
    cmd = "signal" ~>
        cmd = "done" /\ ~isProcessAlive(target) /\ target \notin {pidFile, socketFile, record}
=============================================================================
