------------------------------ MODULE MCDaemon ------------------------------
(* Two processes that race for a project and two connections, without the  *)
(* command; the command with one process and one connection, and with two  *)
(* processes and no connection.                                            *)
EXTENDS Registry

CONSTANTS d1, d2, c1, c2

(* Who has gone before the start.                                          *)
Gone(processes, connections) ==
    /\ \A p \in Process : pc[p] = IF p \in processes THEN "gone" ELSE "link"
    /\ \A c \in Client : conn[c] = IF c \in connections THEN "closed" ELSE "new"

MCInit ==
    /\ pidFile \in {None, Dead, Corrupt} /\ socketFile \in {None, Dead}
    /\ pc \in [Process -> {"link", "gone"}] /\ conn \in [Client -> {"new", "closed"}]
    /\ seen = [p \in Process |-> None] /\ attempts = [p \in Process |-> 0]
    /\ clients = [p \in Process |-> {}] /\ timer = [p \in Process |-> FALSE]
    /\ server = [c \in Client |-> None] /\ peer = [c \in Client |-> "open"]
    /\ stolen = FALSE /\ deregistered \in {{}, Process} /\ target = None
    /\ record \in {None, Dead} /\ cmd \in {"list", "none"}
    /\ \/ cmd = "none" /\ Gone({}, {}) /\ record = None /\ deregistered = Process
       \/ cmd = "list" /\ Gone({d2}, {c2}) /\ deregistered = {}
       \/ cmd = "list" /\ Gone({}, Client) /\ record = None /\ deregistered = {}

(* Where there is no command, the registry cannot be written.              *)
MCNext == RNext /\ (cmd = "none" => record' = None)

MCSpec == MCInit /\ [][MCNext]_rvars /\ RFairness
=============================================================================
