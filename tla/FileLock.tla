------------------------------ MODULE FileLock ------------------------------
(***************************************************************************)
(* class FileLock (codegraph/src/utils.ts): the lock file that keeps two   *)
(* processes (git hook, CLI, MCP daemon) from writing one index together.  *)
(*                                                                         *)
(* acquire() and release() are synchronous, so two instances of one        *)
(* process never interleave inside them; two processes do, after every     *)
(* system call.  An action is one system call and the code up to the next. *)
(***************************************************************************)
EXTENDS FiniteSets

CONSTANTS Instance,    \* the FileLock objects that name one lock file
          Pid,         \* the processes; a pid is used once by CodeGraph
          PidOf,       \* the process an instance lives in
          NoPid,       \* what parseInt makes of an empty lock file: NaN
          NoFile       \* there is no lock file

ASSUME FileLockAssumption ==
    /\ PidOf \in [Instance -> Pid] /\ NoPid \notin Pid
    /\ NoFile \notin [by : Instance, written : BOOLEAN, old : BOOLEAN]

VARIABLES file,    \* the lock file: who created it, whether the pid is in it
                   \* yet, whether it is older than STALE_TIMEOUT_MS
          call,    \* the next system call of each instance
          seen,    \* the pid acquire() has read
          reused,  \* dead pids the operating system gave to another program
          overlapped,  \* history: did calls of two processes overlap in time?
          overran      \* history: was a lock held beyond STALE_TIMEOUT_MS?

history == <<overlapped, overran>>
fileLockVars == <<file, call, seen, reused, history>>

Lockfile == [by : Instance, written : BOOLEAN, old : BOOLEAN]

InCall == {"read", "stat", "unlink", "unlinkAgain", "create", "write", "relUnlink"}

FileLockInit ==
    /\ file = NoFile
    /\ call = [i \in Instance |-> "idle"]
    /\ seen = [i \in Instance |-> NoPid]
    /\ reused = {}
    /\ overlapped = FALSE /\ overran = FALSE

Dead(p) == \E i \in Instance : PidOf[i] = p /\ call[i] = "dead"

isProcessAlive(p) == ~Dead(p) \/ p \in reused

Content == IF file.written THEN PidOf[file.by] ELSE NoPid

(* A call starts: no other of its process is in progress, because calls    *)
(* are synchronous, but one of another process may be.                     *)
StartCall(i) ==
    LET others == {j \in Instance \ {i} : call[j] \in InCall} IN
    /\ \A j \in others : PidOf[j] # PidOf[i]
    /\ overlapped' = (overlapped \/ others # {})
    /\ UNCHANGED overran

Goto(i, l) == call' = [call EXCEPT ![i] = l]

AcquireExists(i) ==
    /\ call[i] = "idle" /\ StartCall(i)
    /\ Goto(i, IF file = NoFile THEN "create" ELSE "read")
    /\ UNCHANGED <<file, seen, reused>>

AcquireRead(i) ==
    /\ call[i] = "read"
    /\ IF file = NoFile
       THEN Goto(i, "unlinkAgain") /\ UNCHANGED seen
       ELSE Goto(i, "stat") /\ seen' = [seen EXCEPT ![i] = Content]
    /\ UNCHANGED <<file, reused, history>>

(* Mutants: no staleness by age; a lock of the own process taken as stale. *)
BugNoTimeout(i) == seen[i] # NoPid /\ isProcessAlive(seen[i])

BugOwnIsStale(i) ==
    ~file.old /\ seen[i] \notin {NoPid, PidOf[i]} /\ isProcessAlive(seen[i])

HeldByAnother(i) == ~file.old /\ seen[i] # NoPid /\ isProcessAlive(seen[i])

AcquireStat(i) ==
    /\ call[i] = "stat"
    /\ Goto(i, IF file = NoFile THEN "unlinkAgain"
               ELSE IF HeldByAnother(i) THEN "idle" ELSE "unlink")
    /\ seen' = [seen EXCEPT ![i] = NoPid]
    /\ UNCHANGED <<file, reused, history>>

AcquireUnlink(i) ==
    /\ call[i] = "unlink"
    /\ Goto(i, IF file = NoFile THEN "unlinkAgain" ELSE "create")
    /\ file' = NoFile
    /\ UNCHANGED <<seen, reused, history>>

AcquireUnlinkAgain(i) ==
    /\ call[i] = "unlinkAgain"
    /\ Goto(i, "create")
    /\ file' = NoFile
    /\ UNCHANGED <<seen, reused, history>>

AcquireCreate(i) ==
    /\ call[i] = "create"
    /\ \/ /\ file = NoFile
          /\ file' = [by |-> i, written |-> FALSE, old |-> FALSE]
          /\ Goto(i, "write")
       \/ /\ file # NoFile
          /\ Goto(i, "idle") /\ UNCHANGED file
    /\ UNCHANGED <<seen, reused, history>>

(* The pid goes to the inode this instance created, which may have been    *)
(* unlinked, and the path taken by another one's file, in the meantime.    *)
AcquireWrite(i) ==
    /\ call[i] = "write"
    /\ Goto(i, "held")
    /\ file' = IF file # NoFile /\ file.by = i THEN [file EXCEPT !.written = TRUE] ELSE file
    /\ UNCHANGED <<seen, reused, history>>

(* An error that is not EEXIST (a full disk) leaves the empty file behind. *)
AcquireWriteFails(i) ==
    /\ call[i] = "write"
    /\ Goto(i, "idle")
    /\ UNCHANGED <<file, seen, reused, history>>

OwnFile(i) == file # NoFile /\ Content = PidOf[i]

ReleaseRead(i) ==
    /\ call[i] = "held" /\ StartCall(i)
    /\ Goto(i, IF OwnFile(i) THEN "relUnlink" ELSE "idle")
    /\ UNCHANGED <<file, seen, reused>>

ReleaseUnlink(i) ==
    /\ call[i] = "relUnlink"
    /\ Goto(i, "idle")
    /\ file' = NoFile
    /\ UNCHANGED <<seen, reused, history>>

Step(i) ==
    \/ AcquireRead(i) \/ AcquireStat(i) \/ AcquireUnlink(i)
    \/ AcquireUnlinkAgain(i) \/ AcquireCreate(i) \/ ReleaseUnlink(i)

(* The process dies between two system calls; what it left stays on disk.  *)
Crash(p) ==
    /\ ~Dead(p)
    /\ call' = [i \in Instance |-> IF PidOf[i] = p THEN "dead" ELSE call[i]]
    /\ seen' = [i \in Instance |-> IF PidOf[i] = p THEN NoPid ELSE seen[i]]
    /\ UNCHANGED <<file, reused, history>>

Reuse(p) ==
    /\ Dead(p) /\ p \notin reused
    /\ reused' = reused \cup {p}
    /\ UNCHANGED <<file, call, seen, history>>

Holding(i) == call[i] \in {"write", "held", "relUnlink"}

Age ==
    /\ file # NoFile /\ ~file.old
    /\ overran' = (overran \/ Holding(file.by))
    /\ file' = [file EXCEPT !.old = TRUE]
    /\ UNCHANGED <<call, seen, reused, overlapped>>

(* `codegraph unlock', run as its help says: on a lock nobody holds.       *)
UnlockCommand ==
    /\ file # NoFile
    /\ \A i \in Instance : call[i] \in {"idle", "dead"}
    /\ file' = NoFile
    /\ UNCHANGED <<call, seen, reused, history>>

FileLockNext ==
    \/ \E i \in Instance :
          \/ AcquireExists(i) \/ Step(i) \/ AcquireWrite(i)
          \/ AcquireWriteFails(i) \/ ReleaseRead(i)
    \/ \E p \in Pid : Crash(p) \/ Reuse(p)
    \/ Age \/ UnlockCommand

FileLockSpec == FileLockInit /\ [][FileLockNext]_fileLockVars

(* Instances retry (the watcher, the next hook), a call in progress goes   *)
(* on, the disk is not full at every write, operations end, files age.     *)
FileLockFairness ==
    /\ \A i \in Instance :
          /\ SF_fileLockVars(AcquireExists(i)) /\ WF_fileLockVars(Step(i))
          /\ SF_fileLockVars(AcquireWrite(i)) /\ WF_fileLockVars(ReleaseRead(i))
    /\ WF_fileLockVars(Age)

FileLockFairSpec == FileLockSpec /\ FileLockFairness
-----------------------------------------------------------------------------
FileLockTypeOK ==
    /\ file \in Lockfile \cup {NoFile}
    /\ call \in [Instance -> InCall \cup {"idle", "held", "dead"}]
    /\ seen \in [Instance -> Pid \cup {NoPid}]
    /\ reused \in SUBSET Pid
    /\ overlapped \in BOOLEAN /\ overran \in BOOLEAN

OneWriter ==
    \A i, j \in Instance : call[i] = "held" /\ call[j] = "held" => i = j

(* Two processes are never both past acquire(), whatever crashed at which  *)
(* system call, as long as calls did not overlap and no hold outlived the  *)
(* stale timeout.                                                          *)
AtMostOneWriter == ~overlapped /\ ~overran => OneWriter

(* The holder's pid is in the lock file for as long as it holds, so every  *)
(* later acquire() can see it.                                             *)
HolderOwnsFile ==
    ~overlapped /\ ~overran =>
        \A i \in Instance : call[i] = "held" =>
            file # NoFile /\ file.by = i /\ file.written /\ ~file.old

(* Whatever crashes, and whichever pid is reused, while some process       *)
(* survives the lock is taken again and again: no lock file blocks the     *)
(* index for ever.                                                         *)
LockAlwaysRecovers ==
    (\A p \in Pid : <>Dead(p)) \/ []<>(\E i \in Instance : call[i] = "held")
=============================================================================
