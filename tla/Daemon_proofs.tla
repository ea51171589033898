---------------------------- MODULE Daemon_proofs ----------------------------
(***************************************************************************)
(* For any number of racing processes and of clients: as long as no clear  *)
(* removes a record that it had not read, one process owns the project;    *)
(* and the idle timer of a daemon runs exactly while it counts no client.  *)
(***************************************************************************)
EXTENDS Registry, TLAPS

State == Candidate \cup {"bind", "listen", "serving"} \cup Stopping \cup {"gone"}

(* What a clear has tested stays dead until it unlinks.                    *)
TestedIsDead == \A p \in Process : pc[p] = "unlink" => ~isProcessAlive(seen[p])

(* Who does not listen yet has no connections.                             *)
NotYetServing ==
    \A p \in Process :
        pc[p] \in Candidate \cup {"bind", "listen"} => Of(p) = {} /\ clients[p] = {}

OwnInv == TestedIsDead /\ OneDaemon
ClientInv == NotYetServing /\ IdleOnlyWhenUnused
IInv == TypeOK /\ OwnInv /\ ClientInv

(* Where a process goes, the others stay.                                  *)
LEMMA AtFacts ==
    ASSUME TypeOK, NEW p \in Process, NEW from, NEW to \in State, At(p, from, to)
    PROVE  /\ pc' \in [Process -> State] /\ pc[p] = from /\ pc'[p] = to
           /\ \A q \in Process : q # p => pc'[q] = pc[q]
BY DEF At, TypeOK, State

LEMMA ExitFacts ==
    ASSUME TypeOK, NEW p \in Process, Exit(p)
    PROVE  /\ pc' \in [Process -> State] /\ pc'[p] = "gone"
           /\ clients' \in [Process -> SUBSET Client] /\ clients'[p] = {}
           /\ timer' \in [Process -> BOOLEAN] /\ timer'[p] = FALSE
           /\ conn' \in [Client -> {"new", "hello", "closed"} \cup Session]
           /\ \A q \in Process : q # p =>
                pc'[q] = pc[q] /\ clients'[q] = clients[q] /\ timer'[q] = timer[q]
           /\ \A c \in Client : conn'[c] = IF c \in Of(p) THEN "closed" ELSE conn[c]
           /\ UNCHANGED <<seen, attempts, server, peer>>
<1>1. /\ pc' = [pc EXCEPT ![p] = "gone"] /\ clients' = [clients EXCEPT ![p] = {}]
      /\ timer' = [timer EXCEPT ![p] = FALSE]
      /\ conn' = [c \in Client |-> IF c \in Of(p) THEN "closed" ELSE conn[c]]
      /\ UNCHANGED <<seen, attempts, server, peer>>
  BY DEF Exit, takeover
<1>2. pc' \in [Process -> State] /\ clients' \in [Process -> SUBSET Client]
  BY <1>1 DEF TypeOK, State
<1>3. timer' \in [Process -> BOOLEAN] /\ timer'[p] = FALSE
  BY <1>1, Zenon DEF TypeOK
<1>4. conn' \in [Client -> {"new", "hello", "closed"} \cup Session]
  BY <1>1 DEF TypeOK
<1>5. QED  BY <1>1, <1>2, <1>3, <1>4 DEF TypeOK

(* The clients' side is left alone by a step that neither reaches nor      *)
(* leaves "serving".                                                       *)
LEMMA SameClients ==
    ASSUME ClientInv, NEW p \in Process, UNCHANGED <<inside, server, conn>>,
           \A q \in Process : q # p => pc'[q] = pc[q],
           pc[p] # "serving", pc'[p] # "serving",
           pc'[p] \in Candidate \cup {"bind", "listen"} => pc[p] \in Candidate \cup {"bind", "listen"}
    PROVE  ClientInv'
<1>1. UNCHANGED <<clients, timer, server, conn>> /\ \A q \in Process : Of(q)' = Of(q)
  BY DEF inside, Of
<1>2. NotYetServing'
  BY <1>1 DEF ClientInv, NotYetServing
<1>3. IdleOnlyWhenUnused'
  BY <1>1 DEF ClientInv, IdleOnlyWhenUnused
<1>4. QED  BY <1>2, <1>3 DEF ClientInv

(* The owner's side is left alone by a step that changes no record, and    *)
(* makes no process an owner.                                              *)
LEMMA SameOwner ==
    ASSUME OwnInv, NEW p \in Process, UNCHANGED <<pidFile, seen, stolen>>,
           \A q \in Process : q # p => pc'[q] = pc[q],
           Owning(p)' => Owning(p),
           pc'[p] # "unlink", pc[p] = "gone" => pc'[p] = "gone"
    PROVE  OwnInv'
<1>1. \A q \in Process : isProcessAlive(seen[q])' => isProcessAlive(seen[q])
  BY DEF isProcessAlive
<1>2. TestedIsDead'
  BY <1>1 DEF OwnInv, TestedIsDead
<1>3. \A q \in Process : Owning(q)' => Owning(q)
  BY DEF Owning
<1>4. OneDaemon'
  BY <1>3 DEF OwnInv, OneDaemon
<1>5. QED  BY <1>2, <1>4 DEF OwnInv

LEMMA ExitInv ==
    ASSUME IInv, NEW p \in Process, Exit(p), UNCHANGED <<pidFile, stolen>>
    PROVE  OwnInv' /\ ClientInv'
<1>1. TypeOK /\ OwnInv /\ ClientInv
  BY DEF IInv
<1> USE <1>1, ExitFacts
<1>2. OwnInv'
  <2>1. ~Owning(p)' /\ pc'[p] # "unlink"
    BY DEF Owning
  <2>2. QED  BY <2>1, SameOwner
<1>3. \A q \in Process : Of(q)' = Of(q)
  BY DEF Of
<1>4. NotYetServing'
  BY <1>3 DEF ClientInv, NotYetServing, Candidate
<1>5. ASSUME NEW q \in Process
      PROVE  /\ \A c \in Of(q)' : conn'[c] \in Session => c \in clients'[q]
             /\ timer'[q] <=> pc'[q] = "serving" /\ clients'[q] = {}
  <2>1. CASE q = p
    <3>1. \A c \in Of(q)' : conn'[c] \notin Session
      BY <1>3, <2>1 DEF Of, Session
    <3>2. QED  BY <2>1, <3>1
  <2>2. CASE q # p
    <3>1. \A c \in Of(q)' : conn'[c] \in Session => conn[c] \in Session
      BY <1>3 DEF Of, Session
    <3>2. /\ clients'[q] = clients[q] /\ timer'[q] = timer[q] /\ pc'[q] = pc[q]
          /\ \A c \in Of(q) : conn[c] \in Session => c \in clients[q]
          /\ timer[q] <=> pc[q] = "serving" /\ clients[q] = {}
      BY <2>2 DEF ClientInv, IdleOnlyWhenUnused
    <3>3. timer'[q] <=> pc'[q] = "serving" /\ clients'[q] = {}
      BY <3>2, Zenon
    <3>4. \A c \in Of(q)' : conn'[c] \in Session => c \in clients'[q]
      BY <1>3, <3>1, <3>2
    <3>5. QED  BY <3>3, <3>4
  <2>3. QED  BY <2>1, <2>2
<1>6. IdleOnlyWhenUnused'
  BY <1>5 DEF IdleOnlyWhenUnused
<1>7. QED  BY <1>2, <1>4, <1>6 DEF ClientInv
-----------------------------------------------------------------------------
(* Type correctness.                                                       *)

LEMMA TypeInit == Init => TypeOK
<1> SUFFICES ASSUME Init  PROVE TypeOK
  OBVIOUS
<1>1. /\ pidFile \in Record /\ socketFile \in Process \cup {None, Dead}
      /\ pc \in [Process -> State] /\ stolen \in BOOLEAN
  BY DEF Init, Record, State, Candidate
<1>2. seen \in [Process -> Record] /\ attempts \in [Process -> 0..MaxAttempts]
  BY DaemonAssumption DEF Init, Record
<1>3. \A p \in Process : pc[p] \in Candidate => attempts[p] < MaxAttempts
  BY DaemonAssumption DEF Init
<1>4. clients \in [Process -> SUBSET Client] /\ timer \in [Process -> BOOLEAN]
  BY DEF Init
<1>5. /\ server \in [Client -> Process \cup {None}] /\ peer \in [Client -> {"open", "left", "vanished"}]
      /\ conn \in [Client -> {"new", "hello", "closed"} \cup Session]
  BY DEF Init
<1>6. QED  BY <1>1, <1>2, <1>3, <1>4, <1>5 DEF TypeOK, State

(* The part of the type that most steps of a process touch.                *)
LEMMA TypeByPc ==
    ASSUME TypeOK, NEW p \in Process,
           pidFile' \in Record, socketFile' \in Process \cup {None, Dead},
           pc' \in [Process -> State], \A q \in Process : q # p => pc'[q] = pc[q],
           pc'[p] \in Candidate => pc[p] \in Candidate,
           seen' \in [Process -> Record], stolen' \in BOOLEAN,
           UNCHANGED <<attempts, inside, wire>>
    PROVE  TypeOK'
<1>1. UNCHANGED <<attempts, clients, timer, server, conn, peer>>
  BY DEF inside, wire
<1>2. \A q \in Process : pc'[q] \in Candidate => pc[q] \in Candidate
  OBVIOUS
<1>3. /\ seen' \in [Process -> Record] /\ attempts' \in [Process -> 0..MaxAttempts]
      /\ \A q \in Process : pc'[q] \in Candidate => attempts'[q] < MaxAttempts
  BY <1>1, <1>2 DEF TypeOK
<1>4. clients' \in [Process -> SUBSET Client] /\ timer' \in [Process -> BOOLEAN]
  BY <1>1 DEF TypeOK
<1>5. /\ server' \in [Client -> Process \cup {None}] /\ peer' \in [Client -> {"open", "left", "vanished"}]
      /\ conn' \in [Client -> {"new", "hello", "closed"} \cup Session]
  BY <1>1 DEF TypeOK
<1>6. QED  BY <1>3, <1>4, <1>5 DEF TypeOK, State

LEMMA ExitType ==
    ASSUME TypeOK, NEW p \in Process, Exit(p), UNCHANGED <<pidFile, stolen>>,
           socketFile' \in Process \cup {None, Dead}
    PROVE  TypeOK'
<1> USE ExitFacts
<1>1. \A q \in Process : pc'[q] \in Candidate => pc[q] \in Candidate
  BY DEF Candidate
<1>2. /\ attempts' \in [Process -> 0..MaxAttempts] /\ seen' \in [Process -> Record]
      /\ \A q \in Process : pc'[q] \in Candidate => attempts'[q] < MaxAttempts
  BY <1>1 DEF TypeOK
<1>3. /\ clients' \in [Process -> SUBSET Client] /\ timer' \in [Process -> BOOLEAN]
      /\ pc' \in [Process -> State] /\ pidFile' \in Record /\ stolen' \in BOOLEAN
  BY DEF TypeOK
<1>4. /\ server' \in [Client -> Process \cup {None}] /\ peer' \in [Client -> {"open", "left", "vanished"}]
      /\ conn' \in [Client -> {"new", "hello", "closed"} \cup Session]
  BY DEF TypeOK
<1>5. QED  BY <1>2, <1>3, <1>4 DEF TypeOK, State

(* A failed round: the process starts another or gives up.                 *)
LEMMA AttemptFacts ==
    ASSUME TypeOK, NEW p \in Process, pc[p] \in Candidate, NextAttempt(p)
    PROVE  /\ pc' \in [Process -> State] /\ pc'[p] \in {"link", "gone"}
           /\ \A q \in Process : q # p => pc'[q] = pc[q]
           /\ attempts' \in [Process -> 0..MaxAttempts]
           /\ \A q \in Process : pc'[q] \in Candidate => attempts'[q] < MaxAttempts
           /\ UNCHANGED <<socketFile, seen, inside, wire>>
<1>1. /\ attempts' = [attempts EXCEPT ![p] = attempts[p] + 1]
      /\ pc' = [pc EXCEPT ![p] = IF LastAttempt(p) THEN "gone" ELSE "link"]
      /\ UNCHANGED <<socketFile, seen, inside, wire>>
  BY DEF NextAttempt
<1>2. /\ attempts \in [Process -> 0..MaxAttempts] /\ attempts[p] < MaxAttempts /\ MaxAttempts \in Nat
      /\ \A q \in Process : pc[q] \in Candidate => attempts[q] < MaxAttempts
      /\ pc \in [Process -> State]
  BY DaemonAssumption DEF TypeOK, State
<1>3. /\ pc' \in [Process -> State] /\ pc'[p] \in {"link", "gone"}
      /\ \A q \in Process : q # p => pc'[q] = pc[q]
  BY <1>1, <1>2 DEF State, Candidate
<1>4. attempts[p] + 1 \in 0..MaxAttempts /\ attempts' \in [Process -> 0..MaxAttempts]
  BY <1>1, <1>2
<1>5. pc'[p] \in Candidate => attempts'[p] < MaxAttempts
  <2>1. pc'[p] = (IF LastAttempt(p) THEN "gone" ELSE "link") /\ attempts'[p] = attempts[p] + 1
    BY <1>1, <1>2
  <2>2. "gone" \notin Candidate
    BY DEF Candidate
  <2>3. QED  BY <1>2, <2>1, <2>2 DEF LastAttempt
<1>6. \A q \in Process : q # p => attempts'[q] = attempts[q]
  BY <1>1, <1>2
<1>7. QED  BY <1>1, <1>2, <1>3, <1>4, <1>5, <1>6
-----------------------------------------------------------------------------
(* The takeover of the project.                                            *)

LEMMA LinkInv ==
    ASSUME IInv, NEW p \in Process, Link(p)
    PROVE  IInv'
<1>1. TypeOK /\ OwnInv /\ ClientInv /\ UNCHANGED <<socketFile, seen, attempts, inside, wire, stolen>>
  BY DEF IInv, Link, takeover
<1>2. \/ pidFile = None /\ At(p, "link", "bind") /\ pidFile' = p
      \/ At(p, "link", "read") /\ pidFile' = pidFile
  BY DEF Link, Exclusive
<1>3. /\ pc' \in [Process -> State] /\ pc[p] = "link" /\ pc'[p] \in {"bind", "read"}
      /\ \A q \in Process : q # p => pc'[q] = pc[q]
  BY <1>1, <1>2, AtFacts DEF State, Candidate
<1>4. TypeOK'
  BY <1>1, <1>2, <1>3, TypeByPc DEF Record, Candidate, TypeOK
<1>5. ClientInv'
  BY <1>1, <1>3, SameClients DEF wire, Candidate
<1>6. OwnInv'
  <2>1. CASE pidFile' = pidFile /\ At(p, "link", "read")
    <3>1. pc'[p] = "read"
      BY <1>1, <2>1, AtFacts DEF State, Candidate
    <3>2. QED  BY <1>1, <1>3, <2>1, <3>1, SameOwner DEF Owning
  <2>2. CASE pidFile = None /\ At(p, "link", "bind") /\ pidFile' = p
    <3>1. \A q \in Process : isProcessAlive(seen[q])' => isProcessAlive(seen[q])
      BY <1>1, <1>3 DEF isProcessAlive
    <3>2. TestedIsDead'
      BY <1>1, <1>3, <3>1 DEF OwnInv, TestedIsDead
    <3>3. stolen \/ \A q \in Process : ~Owning(q)
      BY <1>1, <2>2, DaemonAssumption DEF OwnInv, OneDaemon
    <3>4. OneDaemon'
      BY <1>1, <1>3, <2>2, <3>3 DEF OneDaemon, Owning
    <3>5. QED  BY <3>2, <3>4 DEF OwnInv
  <2>3. QED  BY <1>2, <2>1, <2>2
<1>7. QED  BY <1>4, <1>5, <1>6 DEF IInv

LEMMA ReadRecordInv ==
    ASSUME IInv, NEW p \in Process, ReadRecord(p)
    PROVE  IInv'
<1>1. TypeOK /\ OwnInv /\ ClientInv /\ UNCHANGED <<pidFile, socketFile, attempts, inside, wire, stolen>>
  BY DEF IInv, ReadRecord, files
<1>2. /\ pc' \in [Process -> State] /\ pc[p] = "read" /\ pc'[p] = "check"
      /\ \A q \in Process : q # p => pc'[q] = pc[q]
  BY <1>1, AtFacts DEF ReadRecord, State, Candidate
<1>3. seen' \in [Process -> Record] /\ \A q \in Process : q # p => seen'[q] = seen[q]
  BY <1>1 DEF ReadRecord, TypeOK
<1>4. TypeOK'
  BY <1>1, <1>2, <1>3, TypeByPc DEF Candidate, TypeOK
<1>5. ClientInv'
  BY <1>1, <1>2, SameClients DEF wire, Candidate
<1>6. \A q \in Process : q # p => (isProcessAlive(seen[q])' => isProcessAlive(seen[q]))
  BY <1>2, <1>3 DEF isProcessAlive
<1>7. TestedIsDead'
  BY <1>1, <1>2, <1>6 DEF OwnInv, TestedIsDead
<1>8. OneDaemon'
  BY <1>1, <1>2 DEF OwnInv, OneDaemon, Owning
<1>9. QED  BY <1>4, <1>5, <1>7, <1>8 DEF IInv, OwnInv

LEMMA RecoverInv ==
    ASSUME IInv, NEW p \in Process, Recover(p)
    PROVE  IInv'
<1>1. /\ TypeOK /\ OwnInv /\ ClientInv
      /\ UNCHANGED <<pidFile, socketFile, seen, attempts, inside, wire, stolen>>
  BY DEF IInv, Recover, files, takeover
<1>2. /\ pc' \in [Process -> State] /\ pc[p] = "check" /\ pc'[p] = "clear"
      /\ \A q \in Process : q # p => pc'[q] = pc[q]
  BY <1>1, AtFacts DEF Recover, State, Candidate
<1>3. TypeOK'
  BY <1>1, <1>2, TypeByPc DEF Candidate, TypeOK
<1>4. ClientInv'
  BY <1>1, <1>2, SameClients DEF wire, Candidate
<1>5. OwnInv'
  BY <1>1, <1>2, SameOwner DEF Owning
<1>6. QED  BY <1>3, <1>4, <1>5 DEF IInv

LEMMA ClearTestInv ==
    ASSUME IInv, NEW p \in Process, ClearTest(p)
    PROVE  IInv'
<1>1. TypeOK /\ OwnInv /\ ClientInv /\ UNCHANGED <<pidFile, socketFile, attempts, inside, wire, stolen>>
  BY DEF IInv, ClearTest, files
<1>2. /\ pc' \in [Process -> State] /\ pc[p] = "clear" /\ pc'[p] = "unlink"
      /\ \A q \in Process : q # p => pc'[q] = pc[q]
  BY <1>1, AtFacts DEF ClearTest, State, Candidate
<1>3. /\ seen' \in [Process -> Record] /\ seen'[p] = pidFile
      /\ \A q \in Process : q # p => seen'[q] = seen[q]
  BY <1>1 DEF ClearTest, TypeOK
<1>4. TypeOK'
  BY <1>1, <1>2, <1>3, TypeByPc DEF Candidate, TypeOK
<1>5. ClientInv'
  BY <1>1, <1>2, SameClients DEF wire, Candidate
<1>6. \A q \in Process : q # p => (isProcessAlive(seen[q])' => isProcessAlive(seen[q]))
  BY <1>2, <1>3 DEF isProcessAlive
<1>7. ~isProcessAlive(seen[p])'
  <2>1. ~isProcessAlive(pidFile)
    BY DEF ClearTest, Clearable
  <2>2. QED  BY <1>2, <1>3, <2>1 DEF isProcessAlive
<1>8. TestedIsDead'
  BY <1>1, <1>2, <1>6, <1>7 DEF OwnInv, TestedIsDead
<1>9. OneDaemon'
  BY <1>1, <1>2 DEF OwnInv, OneDaemon, Owning
<1>10. QED  BY <1>4, <1>5, <1>8, <1>9 DEF IInv, OwnInv

LEMMA ClearEndInv ==
    ASSUME IInv, NEW p \in Process, ClearNot(p) \/ ClearUnlink(p)
    PROVE  IInv'
<1>1. TypeOK /\ OwnInv /\ ClientInv /\ pc[p] \in {"clear", "unlink"} /\ NextAttempt(p)
  BY DEF IInv, ClearNot, ClearUnlink
<1>2. /\ pc' \in [Process -> State] /\ pc'[p] \in {"link", "gone"}
      /\ \A q \in Process : q # p => pc'[q] = pc[q]
      /\ attempts' \in [Process -> 0..MaxAttempts]
      /\ \A q \in Process : pc'[q] \in Candidate => attempts'[q] < MaxAttempts
      /\ UNCHANGED <<socketFile, seen, inside, wire>>
  BY <1>1, AttemptFacts DEF Candidate
<1>3. /\ pidFile' \in {None, pidFile} /\ stolen' \in BOOLEAN
      /\ pidFile' = None => ClearUnlink(p) \/ pidFile = None
  BY <1>1 DEF ClearNot, ClearUnlink, TypeOK
<1>4. TypeOK'
  <2>1. clients' \in [Process -> SUBSET Client] /\ timer' \in [Process -> BOOLEAN]
    BY <1>1, <1>2 DEF TypeOK, inside
  <2>2. /\ server' \in [Client -> Process \cup {None}] /\ peer' \in [Client -> {"open", "left", "vanished"}]
        /\ conn' \in [Client -> {"new", "hello", "closed"} \cup Session]
    BY <1>1, <1>2 DEF TypeOK, wire
  <2>3. /\ pidFile' \in Record /\ socketFile' \in Process \cup {None, Dead}
        /\ seen' \in [Process -> Record]
    BY <1>1, <1>2, <1>3 DEF TypeOK, Record
  <2>4. QED  BY <1>2, <1>3, <2>1, <2>2, <2>3 DEF TypeOK, State
<1>5. ClientInv'
  BY <1>1, <1>2, SameClients DEF wire, Candidate
<1>6. \A q \in Process : isProcessAlive(seen[q])' => isProcessAlive(seen[q])
  BY <1>1, <1>2 DEF isProcessAlive
<1>7. TestedIsDead'
  BY <1>1, <1>2, <1>6 DEF OwnInv, TestedIsDead
<1>8. \A q \in Process : Owning(q)' => Owning(q) /\ q # p
  BY <1>2 DEF Owning
<1>9. OneDaemon'
  <2>1. CASE ClearNot(p)
    BY <1>1, <1>8, <2>1 DEF ClearNot, OwnInv, OneDaemon
  <2>2. CASE ClearUnlink(p)
    <3>1. /\ pc[p] = "unlink" /\ pidFile' = None
          /\ stolen' = (stolen \/ (pidFile # seen[p] /\ isProcessAlive(pidFile)))
      BY <2>2 DEF ClearUnlink
    <3>2. ~isProcessAlive(seen[p])
      BY <1>1, <3>1 DEF OwnInv, TestedIsDead
    <3>3. ~stolen' => ~stolen /\ ~isProcessAlive(pidFile)
      BY <3>1, <3>2, Zenon
    <3>4. \A q \in Process : Owning(q) => isProcessAlive(q)
      BY DEF Owning, isProcessAlive
    <3>5. ~stolen' => \A q \in Process : ~Owning(q)
      BY <1>1, <3>3, <3>4 DEF OwnInv, OneDaemon
    <3>6. QED  BY <1>8, <3>5 DEF OneDaemon
  <2>3. QED  BY <2>1, <2>2
<1>10. QED  BY <1>4, <1>5, <1>7, <1>9 DEF IInv, OwnInv
-----------------------------------------------------------------------------
(* Life as the daemon.                                                     *)

LEMMA SamePc ==
    ASSUME OwnInv, UNCHANGED <<pidFile, pc, seen, stolen>>
    PROVE  OwnInv'
<1>1. \A q \in Process : isProcessAlive(seen[q])' = isProcessAlive(seen[q])
  BY DEF isProcessAlive
<1>2. QED  BY <1>1 DEF OwnInv, TestedIsDead, OneDaemon, Owning

(* Type correctness of a step of a daemon that runs.                       *)
LEMMA TypeByClients ==
    ASSUME TypeOK, NEW p \in Process,
           pidFile' \in Record, socketFile' \in Process \cup {None, Dead},
           pc' \in [Process -> State], \A q \in Process : q # p => pc'[q] = pc[q],
           pc'[p] \notin Candidate,
           clients' \in [Process -> SUBSET Client], timer' \in [Process -> BOOLEAN],
           server' \in [Client -> Process \cup {None}],
           conn' \in [Client -> {"new", "hello", "closed"} \cup Session],
           peer' \in [Client -> {"open", "left", "vanished"}],
           UNCHANGED <<takeover, stolen>>
    PROVE  TypeOK'
<1>1. /\ seen' \in [Process -> Record] /\ attempts' \in [Process -> 0..MaxAttempts]
      /\ \A q \in Process : pc'[q] \in Candidate => attempts'[q] < MaxAttempts
  BY DEF TypeOK, takeover
<1>2. stolen' \in BOOLEAN
  BY DEF TypeOK
<1>3. QED  BY <1>1, <1>2 DEF TypeOK, State

LEMMA ClearSocketInv ==
    ASSUME IInv, NEW p \in Process, ClearSocket(p)
    PROVE  IInv'
<1>1. /\ TypeOK /\ OwnInv /\ ClientInv /\ socketFile' = None
      /\ UNCHANGED <<pidFile, seen, attempts, inside, wire, stolen>>
  BY DEF IInv, ClearSocket, takeover
<1>2. /\ pc' \in [Process -> State] /\ pc[p] = "bind" /\ pc'[p] = "listen"
      /\ \A q \in Process : q # p => pc'[q] = pc[q]
  BY <1>1, AtFacts DEF ClearSocket, State
<1>3. TypeOK'
  BY <1>1, <1>2, TypeByPc DEF Candidate, TypeOK
<1>4. ClientInv'
  BY <1>1, <1>2, SameClients DEF wire, Candidate
<1>5. OwnInv'
  BY <1>1, <1>2, SameOwner DEF Owning
<1>6. QED  BY <1>3, <1>4, <1>5 DEF IInv

LEMMA ListenInv ==
    ASSUME IInv, NEW p \in Process, Listen(p)
    PROVE  IInv'
<1>1. /\ TypeOK /\ OwnInv /\ ClientInv /\ socketFile' = p /\ timer' = [timer EXCEPT ![p] = TRUE]
      /\ UNCHANGED <<pidFile, takeover, clients, server, conn, peer, stolen>>
  BY DEF IInv, Listen, wire
<1>2. /\ pc' \in [Process -> State] /\ pc[p] = "listen" /\ pc'[p] = "serving"
      /\ \A q \in Process : q # p => pc'[q] = pc[q]
  BY <1>1, AtFacts DEF Listen, State
<1>3. /\ timer' \in [Process -> BOOLEAN] /\ timer'[p] = TRUE
      /\ \A q \in Process : q # p => timer'[q] = timer[q]
  BY <1>1, Zenon DEF TypeOK
<1>4. TypeOK'
  BY <1>1, <1>2, <1>3, TypeByClients DEF Candidate, TypeOK
<1>5. OwnInv'
  BY <1>1, <1>2, SameOwner DEF Owning, takeover
<1>6. \A q \in Process : Of(q)' = Of(q)
  BY <1>1 DEF Of
<1>7. NotYetServing'
  BY <1>1, <1>2, <1>6 DEF ClientInv, NotYetServing, Candidate
<1>8. Of(p) = {} /\ clients[p] = {}
  BY <1>1, <1>2 DEF ClientInv, NotYetServing
<1>9. ASSUME NEW q \in Process
      PROVE  /\ \A c \in Of(q)' : conn'[c] \in Session => c \in clients'[q]
             /\ timer'[q] <=> pc'[q] = "serving" /\ clients'[q] = {}
  BY <1>1, <1>2, <1>3, <1>6, <1>8 DEF ClientInv, IdleOnlyWhenUnused
<1>10. IdleOnlyWhenUnused'
  BY <1>9 DEF IdleOnlyWhenUnused
<1>11. QED  BY <1>4, <1>5, <1>7, <1>10 DEF IInv, ClientInv

LEMMA AcceptInv ==
    ASSUME IInv, NEW p \in Process, NEW c \in Client, Accept(p, c)
    PROVE  IInv'
<1>1. /\ TypeOK /\ OwnInv /\ ClientInv /\ pc[p] = "serving"
      /\ conn' = [conn EXCEPT ![c] = "hello"] /\ server' = [server EXCEPT ![c] = p]
      /\ UNCHANGED <<pidFile, socketFile, pc, seen, attempts, clients, timer, peer, stolen>>
  BY DEF IInv, Accept, files, takeover, inside
<1>2. /\ conn' \in [Client -> {"new", "hello", "closed"} \cup Session]
      /\ server' \in [Client -> Process \cup {None}]
      /\ \A d \in Client : /\ conn'[d] = IF d = c THEN "hello" ELSE conn[d]
                           /\ server'[d] = IF d = c THEN p ELSE server[d]
  BY <1>1 DEF TypeOK
<1>3. TypeOK'
  BY <1>1, <1>2 DEF TypeOK
<1>4. OwnInv'
  BY <1>1, SamePc
<1>5. \A q \in Process : Of(q)' \subseteq Of(q) \cup (IF q = p THEN {c} ELSE {})
  BY <1>2 DEF Of
<1>6. NotYetServing'
  BY <1>1, <1>5 DEF ClientInv, NotYetServing, Candidate
<1>7. ASSUME NEW q \in Process, NEW d \in Of(q)', conn'[d] \in Session
      PROVE  d \in clients'[q]
  <2>1. d \in Client /\ d # c
    BY <1>2, <1>7 DEF Session, Of
  <2>2. d \in Of(q) /\ conn[d] \in Session
    BY <1>2, <1>5, <1>7, <2>1
  <2>3. QED  BY <1>1, <2>2 DEF ClientInv, IdleOnlyWhenUnused
<1>8. IdleOnlyWhenUnused'
  BY <1>1, <1>7 DEF ClientInv, IdleOnlyWhenUnused
<1>9. QED  BY <1>3, <1>4, <1>6, <1>8 DEF IInv, ClientInv

LEMMA AddSessionInv ==
    ASSUME IInv, NEW p \in Process, NEW c \in Client,
           NEW outcome \in {"closed"} \cup Session, AddSession(p, c, outcome)
    PROVE  IInv'
<1>1. /\ TypeOK /\ OwnInv /\ ClientInv /\ server[c] = p
      /\ conn' = [conn EXCEPT ![c] = outcome] /\ clients' = [clients EXCEPT ![p] = clients[p] \cup {c}]
      /\ timer' = [timer EXCEPT ![p] = FALSE]
      /\ UNCHANGED <<pidFile, socketFile, pc, seen, attempts, server, peer, stolen>>
  BY DEF IInv, AddSession, files, takeover
<1>2. /\ conn' \in [Client -> {"new", "hello", "closed"} \cup Session]
      /\ \A d \in Client : d # c => conn'[d] = conn[d]
      /\ clients' \in [Process -> SUBSET Client] /\ clients'[p] = clients[p] \cup {c}
      /\ \A q \in Process : q # p => clients'[q] = clients[q]
  BY <1>1 DEF TypeOK, Session
<1>3. /\ timer' \in [Process -> BOOLEAN] /\ timer'[p] = FALSE
      /\ \A q \in Process : q # p => timer'[q] = timer[q]
  BY <1>1, Zenon DEF TypeOK
<1>4. TypeOK'
  BY <1>1, <1>2, <1>3 DEF TypeOK
<1>5. OwnInv'
  BY <1>1, SamePc
<1>6. c \in Of(p) /\ \A q \in Process : Of(q)' = Of(q) /\ (c \in Of(q) => q = p)
  BY <1>1 DEF Of
<1>7. NotYetServing'
  BY <1>1, <1>2, <1>6 DEF ClientInv, NotYetServing
<1>8. ASSUME NEW q \in Process, NEW d \in Of(q)', conn'[d] \in Session
      PROVE  d \in clients'[q]
  <2>1. CASE d = c
    BY <1>2, <1>6, <1>8, <2>1
  <2>2. CASE d # c
    <3>1. d \in Of(q) /\ conn[d] \in Session
      BY <1>2, <1>6, <1>8, <2>2 DEF Of
    <3>2. d \in clients[q] /\ clients[q] \subseteq clients'[q]
      BY <1>1, <1>2, <3>1 DEF ClientInv, IdleOnlyWhenUnused
    <3>3. QED  BY <3>2
  <2>3. QED  BY <2>1, <2>2
<1>9. ASSUME NEW q \in Process
      PROVE  timer'[q] <=> pc'[q] = "serving" /\ clients'[q] = {}
  BY <1>1, <1>2, <1>3 DEF ClientInv, IdleOnlyWhenUnused
<1>10. IdleOnlyWhenUnused'
  BY <1>8, <1>9 DEF IdleOnlyWhenUnused
<1>11. QED  BY <1>4, <1>5, <1>7, <1>10 DEF IInv, ClientInv

LEMMA DropInv ==
    ASSUME IInv, NEW p \in Process, NEW gone \in SUBSET Client, Drop(p, gone)
    PROVE  IInv'
<1>1. /\ TypeOK /\ OwnInv /\ ClientInv
      /\ clients' = [clients EXCEPT ![p] = clients[p] \ gone]
      /\ timer' = [timer EXCEPT ![p] = Armed(p, clients[p] \ gone)]
      /\ conn' = [c \in Client |-> IF c \in gone THEN "closed" ELSE conn[c]]
      /\ UNCHANGED <<pidFile, socketFile, pc, seen, attempts, server, peer, stolen>>
  BY DEF IInv, Drop, files, takeover
<1>2. /\ conn' \in [Client -> {"new", "hello", "closed"} \cup Session]
      /\ \A c \in Client : conn'[c] = IF c \in gone THEN "closed" ELSE conn[c]
      /\ clients' \in [Process -> SUBSET Client] /\ clients'[p] = clients[p] \ gone
      /\ \A q \in Process : q # p => clients'[q] = clients[q]
  BY <1>1 DEF TypeOK
<1>3. /\ timer' \in [Process -> BOOLEAN] /\ timer'[p] = Armed(p, clients[p] \ gone)
      /\ \A q \in Process : q # p => timer'[q] = timer[q]
  <2>1. timer \in [Process -> BOOLEAN] /\ Armed(p, clients[p] \ gone) \in BOOLEAN
    BY <1>1, Zenon DEF TypeOK, Armed
  <2>2. QED  BY <1>1, <2>1, Zenon
<1>4. TypeOK'
  BY <1>1, <1>2, <1>3 DEF TypeOK
<1>5. OwnInv'
  BY <1>1, SamePc
<1>6. \A q \in Process : Of(q)' = Of(q)
  BY <1>1 DEF Of
<1>7. NotYetServing'
  BY <1>1, <1>2, <1>6 DEF ClientInv, NotYetServing
<1>8. ASSUME NEW q \in Process, NEW c \in Of(q)', conn'[c] \in Session
      PROVE  c \in clients'[q]
  <2>1. c \in Of(q) /\ conn[c] \in Session /\ c \notin gone
    BY <1>2, <1>6, <1>8 DEF Of, Session
  <2>2. QED  BY <1>1, <1>2, <2>1 DEF ClientInv, IdleOnlyWhenUnused
<1>9. timer'[p] <=> pc'[p] = "serving" /\ clients'[p] = {}
  <2>1. timer[p] <=> pc[p] = "serving" /\ clients[p] = {}
    BY <1>1 DEF ClientInv, IdleOnlyWhenUnused
  <2>2. clients[p] = {} => clients'[p] = {}
    BY <1>2
  <2>3. timer'[p] <=> (pc[p] = "serving" /\ clients'[p] = {}) \/ timer[p]
    BY <1>2, <1>3 DEF Armed
  <2>4. pc'[p] = pc[p]
    BY <1>1
  <2>5. QED  BY <2>1, <2>2, <2>3, <2>4
<1>10. \A q \in Process : timer'[q] <=> pc'[q] = "serving" /\ clients'[q] = {}
  BY <1>1, <1>2, <1>3, <1>9 DEF ClientInv, IdleOnlyWhenUnused
<1>11. IdleOnlyWhenUnused'
  BY <1>8, <1>10 DEF IdleOnlyWhenUnused
<1>12. QED  BY <1>4, <1>5, <1>7, <1>11 DEF IInv, ClientInv

LEMMA LeaveInv ==
    ASSUME IInv, NEW c \in Client, Leave(c)
    PROVE  IInv'
<1>1. /\ TypeOK /\ OwnInv /\ ClientInv
      /\ UNCHANGED <<pidFile, socketFile, pc, seen, attempts, clients, timer, server, conn, stolen>>
  BY DEF IInv, Leave, files, takeover, inside
<1>2. peer' \in [Client -> {"open", "left", "vanished"}]
  BY <1>1 DEF Leave, TypeOK
<1>3. TypeOK'
  BY <1>1, <1>2 DEF TypeOK
<1>4. OwnInv'
  BY <1>1, SamePc
<1>5. ClientInv'
  <2>1. \A q \in Process : Of(q)' = Of(q)
    BY <1>1 DEF Of
  <2>2. QED  BY <1>1, <2>1 DEF ClientInv, NotYetServing, IdleOnlyWhenUnused
<1>6. QED  BY <1>3, <1>4, <1>5 DEF IInv

LEMMA StopInv ==
    ASSUME IInv, NEW p \in Process, stop(p)
    PROVE  IInv'
<1>1. /\ TypeOK /\ OwnInv /\ ClientInv /\ socketFile' = None
      /\ clients' = [clients EXCEPT ![p] = {}] /\ timer' = [timer EXCEPT ![p] = FALSE]
      /\ conn' = [c \in Client |-> IF c \in clients[p] THEN "closed" ELSE conn[c]]
      /\ UNCHANGED <<pidFile, takeover, server, peer, stolen>>
  BY DEF IInv, stop, Stopped
<1>2. /\ pc' \in [Process -> State] /\ pc[p] = "serving" /\ pc'[p] = "closing"
      /\ \A q \in Process : q # p => pc'[q] = pc[q]
  BY <1>1, AtFacts DEF stop, State, Stopping
<1>3. /\ conn' \in [Client -> {"new", "hello", "closed"} \cup Session]
      /\ \A c \in Client : conn'[c] = IF c \in clients[p] THEN "closed" ELSE conn[c]
      /\ clients' \in [Process -> SUBSET Client] /\ clients'[p] = {}
      /\ \A q \in Process : q # p => clients'[q] = clients[q]
  BY <1>1 DEF TypeOK
<1>4. /\ timer' \in [Process -> BOOLEAN] /\ timer'[p] = FALSE
      /\ \A q \in Process : q # p => timer'[q] = timer[q]
  BY <1>1, Zenon DEF TypeOK
<1>5. TypeOK'
  BY <1>1, <1>2, <1>3, <1>4, TypeByClients DEF Candidate, TypeOK
<1>6. OwnInv'
  BY <1>1, <1>2, SameOwner DEF Owning, takeover
<1>7. \A q \in Process : Of(q)' = Of(q)
  BY <1>1 DEF Of
<1>8. NotYetServing'
  BY <1>1, <1>2, <1>3, <1>7 DEF ClientInv, NotYetServing, Candidate
<1>9. ASSUME NEW q \in Process, NEW c \in Of(q)', conn'[c] \in Session
      PROVE  c \in clients'[q]
  <2>1. c \in Of(q) /\ conn[c] \in Session /\ c \notin clients[p]
    BY <1>3, <1>7, <1>9 DEF Of, Session
  <2>2. c \in clients[q]
    BY <1>1, <2>1 DEF ClientInv, IdleOnlyWhenUnused
  <2>3. QED  BY <1>3, <2>1, <2>2
<1>10. ASSUME NEW q \in Process
       PROVE  timer'[q] <=> pc'[q] = "serving" /\ clients'[q] = {}
  BY <1>1, <1>2, <1>3, <1>4 DEF ClientInv, IdleOnlyWhenUnused
<1>11. IdleOnlyWhenUnused'
  BY <1>9, <1>10 DEF IdleOnlyWhenUnused
<1>12. QED  BY <1>5, <1>6, <1>8, <1>11 DEF IInv, ClientInv

LEMMA CleanupInv ==
    ASSUME IInv, NEW p \in Process, Closed(p) \/ Cleanup(p)
    PROVE  IInv'
<1>1. /\ TypeOK /\ OwnInv /\ ClientInv
      /\ UNCHANGED <<pidFile, socketFile, seen, attempts, inside, wire, stolen>>
  BY DEF IInv, Closed, Cleanup, files, takeover
<1>2. /\ pc' \in [Process -> State] /\ pc[p] \in {"closing", "cleanup"}
      /\ pc'[p] \in {"cleanup", "unlinkPid", "unlinkSocket"}
      /\ \A q \in Process : q # p => pc'[q] = pc[q]
  BY <1>1 DEF Closed, Cleanup, At, TypeOK, State, Stopping
<1>3. TypeOK'
  BY <1>1, <1>2, TypeByPc DEF Candidate, TypeOK
<1>4. ClientInv'
  BY <1>1, <1>2, SameClients DEF wire, Candidate
<1>5. OwnInv'
  BY <1>1, <1>2, SameOwner DEF Owning
<1>6. QED  BY <1>3, <1>4, <1>5 DEF IInv

LEMMA UnlinkPidInv ==
    ASSUME IInv, NEW p \in Process, UnlinkPid(p)
    PROVE  IInv'
<1>1. /\ TypeOK /\ OwnInv /\ ClientInv /\ pidFile' = None
      /\ UNCHANGED <<socketFile, seen, attempts, inside, wire, stolen>>
  BY DEF IInv, UnlinkPid, takeover
<1>2. /\ pc' \in [Process -> State] /\ pc[p] = "unlinkPid" /\ pc'[p] = "unlinkSocket"
      /\ \A q \in Process : q # p => pc'[q] = pc[q]
  BY <1>1, AtFacts DEF UnlinkPid, State, Stopping
<1>3. TypeOK'
  BY <1>1, <1>2, TypeByPc DEF Candidate, Record, TypeOK
<1>4. ClientInv'
  BY <1>1, <1>2, SameClients DEF wire, Candidate
<1>5. TestedIsDead'
  BY <1>1, <1>2 DEF OwnInv, TestedIsDead, isProcessAlive
<1>6. OneDaemon'
  <2>1. Owning(p) /\ ~Owning(p)' /\ \A q \in Process : Owning(q)' => Owning(q)
    BY <1>2 DEF Owning
  <2>2. ~stolen => \A q \in Process : Owning(q) => q = p
    BY <1>1, <2>1 DEF OwnInv, OneDaemon
  <2>3. QED  BY <1>1, <2>1, <2>2 DEF OneDaemon
<1>7. QED  BY <1>3, <1>4, <1>5, <1>6 DEF IInv, OwnInv

LEMMA EndInv ==
    ASSUME IInv, NEW p \in Process,
           Redundant(p) \/ ListenFails(p) \/ UnlinkSocket(p) \/ Crash(p)
    PROVE  IInv'
<1>1. TypeOK /\ Exit(p) /\ UNCHANGED <<pidFile, stolen>> /\ socketFile' \in Process \cup {None, Dead}
  BY DEF IInv, TypeOK, Redundant, ListenFails, UnlinkSocket, Crash, files
<1>2. OwnInv' /\ ClientInv'
  BY <1>1, ExitInv
<1>3. TypeOK'
  BY <1>1, ExitType
<1>4. QED  BY <1>2, <1>3 DEF IInv
-----------------------------------------------------------------------------
LEMMA InitInv == Init => IInv
<1> SUFFICES ASSUME Init  PROVE IInv
  OBVIOUS
<1>1. TypeOK
  BY TypeInit
<1>2. OwnInv
  BY DEF Init, OwnInv, TestedIsDead, OneDaemon, Owning
<1>3. \A p \in Process : Of(p) = {} /\ clients[p] = {} /\ timer[p] = FALSE /\ pc[p] = "link"
  BY DaemonAssumption DEF Init, Of
<1>4. ClientInv
  BY <1>3 DEF ClientInv, NotYetServing, IdleOnlyWhenUnused
<1>5. QED  BY <1>1, <1>2, <1>4 DEF IInv

LEMMA StepInv ==
    ASSUME IInv, NEW p \in Process, Step(p) \/ Backstop(p) \/ Signal(p) \/ Crash(p)
    PROVE  IInv'
<1>1. CASE Link(p)
  BY <1>1, LinkInv
<1>2. CASE ReadRecord(p)
  BY <1>2, ReadRecordInv
<1>3. CASE Recover(p)
  BY <1>3, RecoverInv
<1>4. CASE ClearTest(p)
  BY <1>4, ClearTestInv
<1>5. CASE ClearNot(p) \/ ClearUnlink(p)
  BY <1>5, ClearEndInv
<1>6. CASE ClearSocket(p)
  BY <1>6, ClearSocketInv
<1>7. CASE Listen(p)
  BY <1>7, ListenInv
<1>8. CASE IdleTimeout(p) \/ Backstop(p) \/ Signal(p)
  BY <1>8, StopInv DEF IdleTimeout, Backstop, Signal
<1>9. CASE Closed(p) \/ Cleanup(p)
  BY <1>9, CleanupInv
<1>10. CASE UnlinkPid(p)
  BY <1>10, UnlinkPidInv
<1>11. CASE Redundant(p) \/ ListenFails(p) \/ UnlinkSocket(p) \/ Crash(p)
  BY <1>11, EndInv
<1>12. QED  BY <1>1, <1>2, <1>3, <1>4, <1>5, <1>6, <1>7, <1>8, <1>9, <1>10, <1>11 DEF Step, Run

LEMMA ConnectionInv ==
    ASSUME IInv, NEW p \in Process, NEW c \in Client,
           Accept(p, c) \/ ClientHello(p, c) \/ Event(p, c)
    PROVE  IInv'
<1>1. CASE Accept(p, c)
  BY <1>1, AcceptInv
<1>2. CASE ClientHello(p, c)
  BY <1>2, AddSessionInv DEF ClientHello, Session
<1>3. CASE HelloTimeout(p, c)
  BY <1>3, AddSessionInv DEF HelloTimeout, Session
<1>4. CASE HelloClosed(p, c)
  BY <1>4, AddSessionInv DEF HelloClosed
<1>5. CASE SocketClose(p, c)
  <2>1. {c} \in SUBSET Client /\ Drop(p, {c})
    BY <1>5 DEF SocketClose
  <2>2. QED  BY <2>1, DropInv
<1>6. QED  BY <1>1, <1>2, <1>3, <1>4, <1>5 DEF Event

LEMMA SweepInv ==
    ASSUME IInv, NEW p \in Process, Sweep(p)
    PROVE  IInv'
<1> DEFINE dead == {c \in clients[p] : conn[c] = "known" /\ peer[c] = "vanished"}
<1>1. Drop(p, dead)
  BY DEF Sweep
<1>2. dead \in SUBSET Client
  BY DEF IInv, TypeOK
<1> HIDE DEF dead
<1>3. QED  BY <1>1, <1>2, DropInv

LEMMA StutterInv == IInv /\ UNCHANGED vars => IInv'
<1> SUFFICES ASSUME IInv, UNCHANGED vars  PROVE IInv'
  OBVIOUS
<1>1. UNCHANGED <<pidFile, socketFile, pc, seen, attempts, clients, timer, server, conn, peer, stolen>>
  BY DEF vars, files, takeover, inside, wire
<1>2. TypeOK'
  BY <1>1 DEF IInv, TypeOK
<1>3. OwnInv'
  BY <1>1, SamePc DEF IInv
<1>4. \A q \in Process : Of(q)' = Of(q)
  BY <1>1 DEF Of
<1>5. ClientInv'
  BY <1>1, <1>4 DEF IInv, ClientInv, NotYetServing, IdleOnlyWhenUnused
<1>6. QED  BY <1>2, <1>3, <1>5 DEF IInv

LEMMA NextInv == IInv /\ [Next]_vars => IInv'
BY StepInv, SweepInv, ConnectionInv, LeaveInv, StutterInv DEF Next, Outside

LEMMA Inductive == Spec => []IInv
BY InitInv, NextInv, PTL DEF Spec

(* The daemon's variables stay in their types, and the rounds of a         *)
(* takeover within their bound.                                            *)
THEOREM TypeCorrect == Spec => []TypeOK
<1>1. IInv => TypeOK
  BY DEF IInv
<1>2. QED  BY Inductive, <1>1, PTL

(* However many processes race, crash and stop: one owns the project, and  *)
(* the pid file names it, unless a clear has removed a live process's      *)
(* record that it had not read.                                            *)
THEOREM OneDaemonHolds == Spec => []OneDaemon
<1>1. IInv => OneDaemon
  BY DEF IInv, OwnInv
<1>2. QED  BY Inductive, <1>1, PTL

(* The idle timer of a daemon runs exactly while it counts no client, and  *)
(* every session is counted.                                               *)
THEOREM IdleOnlyWhenUnusedHolds == Spec => []IdleOnlyWhenUnused
<1>1. IInv => IdleOnlyWhenUnused
  BY DEF IInv, ClientInv
<1>2. QED  BY Inductive, <1>1, PTL
-----------------------------------------------------------------------------
(* The registry and the command: all but the sweep are steps of the        *)
(* daemon, or leave it alone.                                              *)
CommandInv == cmd \in {"signal", "wait"} => target \in Process

RInv == IInv /\ CommandInv

LEMMA SweptInv ==
    ASSUME IInv, SweepPid \/ SweepSocket
    PROVE  IInv'
<1>1. /\ UNCHANGED <<pc, seen, attempts, clients, timer, server, conn, peer>>
      /\ \A q \in Process : Of(q)' = Of(q)
  BY DEF SweepPid, SweepSocket, takeover, inside, wire, Of
<1>2. ClientInv'
  BY <1>1 DEF IInv, ClientInv, NotYetServing, IdleOnlyWhenUnused
<1>3. CASE SweepPid
  <2>1. pidFile' = None /\ socketFile' = socketFile /\ stolen' = (stolen \/ isProcessAlive(pidFile))
    BY <1>3 DEF SweepPid
  <2>2. stolen' \in BOOLEAN
    BY <2>1, Zenon DEF IInv, TypeOK
  <2>3. TypeOK'
    BY <1>1, <2>1, <2>2 DEF IInv, TypeOK, Record
  <2>4. TestedIsDead'
    BY <1>1 DEF IInv, OwnInv, TestedIsDead, isProcessAlive
  <2>5. ASSUME NEW p \in Process, Owning(p), ~stolen  PROVE isProcessAlive(pidFile)
    BY <2>5 DEF IInv, OwnInv, OneDaemon, Owning, isProcessAlive
  <2>6. ~stolen' => \A p \in Process : ~Owning(p)
    BY <2>1, <2>5, Zenon
  <2>7. OneDaemon'
    BY <1>1, <2>6 DEF OneDaemon, Owning
  <2>8. QED  BY <1>2, <2>3, <2>4, <2>7 DEF IInv, OwnInv
<1>4. CASE SweepSocket
  <2>1. pidFile' = pidFile /\ socketFile' = None /\ stolen' = stolen
    BY <1>4 DEF SweepSocket
  <2>2. TypeOK'
    BY <1>1, <2>1 DEF IInv, TypeOK
  <2>3. OwnInv'
    BY <1>1, <2>1, SamePc DEF IInv
  <2>4. QED  BY <1>2, <2>2, <2>3 DEF IInv
<1>5. QED  BY <1>3, <1>4

LEMMA SigtermInv ==
    ASSUME RInv, Sigterm \/ Sigkill
    PROVE  IInv'
<1>1. IInv /\ target \in Process
  BY DEF RInv, CommandInv, Sigterm, Sigkill, To
<1>2. Signal(target) \/ Crash(target) \/ UNCHANGED vars
  BY DEF Sigterm, Sigkill
<1>3. QED  BY <1>1, <1>2, StepInv, StutterInv

LEMMA CommandKept ==
    ASSUME RInv, [RNext]_rvars
    PROVE  CommandInv'
<1>1. CASE UNCHANGED command
  BY <1>1 DEF RInv, CommandInv, command
<1>2. CASE Listed \/ Unlisted \/ Prune \/ Pick \/ Died \/ Sigkill \/ SweepPid \/ SweepSocket \/ SweepRecord
  BY <1>2 DEF Listed, Unlisted, Prune, Pick, Died, Sigkill, SweepPid, SweepSocket, SweepRecord, To,
              CommandInv
<1>3. CASE Sigterm
  BY <1>3 DEF Sigterm, To, RInv, CommandInv
<1>4. ASSUME NEW p, Found(p)  PROVE CommandInv'
  BY <1>4 DEF Found, To, CommandInv, isProcessAlive
<1>5. CASE ReadPid
  BY <1>4, <1>5 DEF ReadPid, CommandInv
<1>6. CASE Lookup
  BY <1>4, <1>6 DEF Lookup
<1>7. CASE \E p \in Process : RStep(p)
  BY <1>1, <1>7 DEF RStep, Register, deregisterDaemon, UnlinkLast, command
<1>8. CASE Outside /\ Quiet
  BY <1>1, <1>8 DEF Quiet, command
<1>9. CASE UNCHANGED rvars
  BY <1>1, <1>9 DEF rvars
<1>10. QED  BY <1>2, <1>3, <1>5, <1>6, <1>7, <1>8, <1>9 DEF RNext, CommandStep

LEMMA DaemonKept ==
    ASSUME RInv, [RNext]_rvars
    PROVE  IInv'
<1>1. IInv
  BY DEF RInv
<1>2. CASE UNCHANGED vars
  BY <1>1, <1>2, StutterInv
<1>3. CASE \E p \in Process : RStep(p)
  <2>1. PICK p \in Process : RStep(p)
    BY <1>3
  <2>2. Step(p) \/ UNCHANGED vars
    BY <2>1 DEF RStep, Register, deregisterDaemon, UnlinkLast, Step
  <2>3. QED  BY <1>1, <2>2, StepInv, StutterInv
<1>4. CASE Outside
  BY <1>1, <1>4, NextInv DEF Next
<1>5. CASE Sigterm \/ Sigkill
  BY <1>5, SigtermInv
<1>6. CASE SweepPid \/ SweepSocket
  BY <1>1, <1>6, SweptInv
<1>7. CASE Listed \/ Unlisted \/ Prune \/ Pick \/ ReadPid \/ Lookup \/ Died \/ SweepRecord
  <2>1. UNCHANGED vars
    BY <1>7 DEF Listed, Unlisted, Prune, Pick, ReadPid, Lookup, Died, SweepRecord
  <2>2. QED  BY <1>2, <2>1
<1>8. QED  BY <1>2, <1>3, <1>4, <1>5, <1>6, <1>7 DEF RNext, CommandStep, rvars

LEMMA RNextInv == RInv /\ [RNext]_rvars => RInv'
BY DaemonKept, CommandKept DEF RInv

LEMMA RInductive == RSpec => []RInv
<1>1. RInit => RInv
  BY InitInv DEF RInit, RInv, CommandInv
<1>2. QED  BY <1>1, RNextInv, PTL DEF RSpec

(* The command changes nothing of it: as long as neither a clear nor the   *)
(* sweep of the command removes the record of a live process, one process  *)
(* owns the project, whatever the command signals and unlinks.             *)
THEOREM OneDaemonWithCommand == RSpec => []OneDaemon
<1>1. RInv => OneDaemon
  BY DEF RInv, IInv, OwnInv
<1>2. QED  BY RInductive, <1>1, PTL
=============================================================================
