------------------------------- MODULE Facade -------------------------------
(***************************************************************************)
(* class CodeGraph (codegraph/src/index.ts): indexAll, indexFiles and sync *)
(* inside the mutex of the instance and under the lock file of the index,  *)
(* close(), and reopenIfReplaced(), which moves the instance to the index  *)
(* that somebody made at the same path.                                    *)
(*                                                                         *)
(* The mutex is module Mutex.  The lock file is what module FileLock shows *)
(* of it while holds stay under two minutes: free, this process's or       *)
(* another's.  A database file is known by its generation; the instance    *)
(* has one open connection.  An action is what runs between two awaits.    *)
(* An operation takes this.orchestrator once and this.resolver after the   *)
(* orchestrator has returned, so a reopen in between gives it another      *)
(* database; a query on a connection that was closed throws.               *)
(***************************************************************************)
EXTENDS Mutex

CONSTANTS Does,         \* Does[c]: "indexAll", "indexFiles" or "sync"
          MaxReplaced   \* bound: times the index is replaced on disk

ASSUME FacadeAssumption ==
    /\ Does \in [Caller -> {"indexAll", "indexFiles", "sync"}]
    /\ MaxReplaced \in Nat

Closed == 0

VARIABLES stage,      \* what the function inside withLock is at
          at,         \* at[c]: the generation its layers write
          lockFile,   \* codegraph.lock: "free", "us" or "them"
          held,       \* fileLock.held
          disk,       \* the generation at the path
          conn,       \* the generation of this.db, or Closed
          moved       \* history: operations under way at a reopen

facade == <<stage, at, lockFile, held, disk, conn, moved>>
mutex == <<locked, waitQueue, jobs, pc>>
allVars == <<mutex, facade>>

Working == {c \in Caller : stage[c] \in {"extract", "resolve"}}

(* sync() resolves in one turn: no other code of this process runs then.   *)
TurnIsOver == \A c \in Caller : stage[c] = "resolve" => Does[c] # "sync"

FacadeInit ==
    /\ Init
    /\ stage = [c \in Caller |-> "out"]
    /\ at = [c \in Caller |-> Closed]
    /\ lockFile = "free" /\ held = FALSE
    /\ disk = 1 /\ conn = 1
    /\ moved = {}
-----------------------------------------------------------------------------
(* FileLock.release(): a file that is no longer ours stays.                *)
ReleaseFile ==
    /\ held' = FALSE
    /\ lockFile' = IF held /\ lockFile = "us" THEN "free" ELSE lockFile

Settle(c) == stage' = [stage EXCEPT ![c] = "settled"] /\ moved' = moved \ {c}

(* The call, and the retry of a waiter whose turn it is.                   *)
Call(c) == TurnIsOver /\ stage[c] = "out" /\ Acquire(c) /\ UNCHANGED facade
Retry(c) == TurnIsOver /\ Resume(c) /\ UNCHANGED facade

Start(c) == pc[c] = "holding" /\ stage[c] = "out" /\ UNCHANGED <<mutex, disk, conn>>

(* acquire() throws: another process, or this one, is alive behind the file.*)
Refused(c) ==
    /\ Start(c)
    /\ lockFile # "free"
    /\ Settle(c)
    /\ UNCHANGED <<at, lockFile, held>>

(* Mutant: every operation returns the promise, as indexFiles does.        *)
BugBegin(c) ==
    /\ Start(c)
    /\ lockFile = "free"
    /\ stage' = [stage EXCEPT ![c] = "extract"]
    /\ at' = [at EXCEPT ![c] = conn]
    /\ UNCHANGED <<lockFile, held, moved>>

(* indexAll and sync await the orchestrator inside try, indexFiles only    *)
(* returns its promise: its finally runs before the first file is read.    *)
Begin(c) ==
    /\ Start(c)
    /\ lockFile = "free"
    /\ stage' = [stage EXCEPT ![c] = "extract"]
    /\ at' = [at EXCEPT ![c] = conn]
    /\ IF Does[c] = "indexFiles" THEN UNCHANGED <<lockFile, held>>
                                 ELSE lockFile' = "us" /\ held' = TRUE
    /\ UNCHANGED moved

(* The end of the function, by return or by throw, and its finally block.  *)
EndOperation(c) ==
    /\ Settle(c)
    /\ IF Does[c] = "indexFiles" THEN UNCHANGED <<lockFile, held>> ELSE ReleaseFile
    /\ UNCHANGED <<mutex, at, disk, conn>>

(* Mutant: an exception skips the release of the lock file.                *)
BugThrows(c) ==
    /\ c \in Working /\ (conn = Closed \/ at[c] # conn)
    /\ Settle(c)
    /\ UNCHANGED <<mutex, at, lockFile, held, disk, conn>>

(* A query of the operation finds its connection closed.                   *)
Throws(c) == c \in Working /\ (conn = Closed \/ at[c] # conn) /\ EndOperation(c)

(* Nothing changed, nothing was indexed, or it was indexFiles().           *)
NothingToResolve(c) == stage[c] = "extract" /\ EndOperation(c)

(* this.resolver is that of the connection there is now.                   *)
Resolve(c) ==
    /\ stage[c] = "extract" /\ Does[c] # "indexFiles" /\ conn # Closed
    /\ stage' = [stage EXCEPT ![c] = "resolve"]
    /\ at' = [at EXCEPT ![c] = conn]
    /\ UNCHANGED <<mutex, lockFile, held, disk, conn, moved>>

Resolved(c) == stage[c] = "resolve" /\ EndOperation(c)

(* withLock() gives the mutex back when the function's promise settles.    *)
Return(c) ==
    /\ stage[c] = "settled"
    /\ Release(c)
    /\ stage' = [stage EXCEPT ![c] = "out"]
    /\ UNCHANGED <<at, lockFile, held, disk, conn, moved>>
-----------------------------------------------------------------------------
(* close() waits for nobody.                                               *)
Close ==
    /\ conn # Closed /\ TurnIsOver
    /\ conn' = Closed
    /\ ReleaseFile
    /\ UNCHANGED <<mutex, stage, at, disk, moved>>

(* reopenIfReplaced(), at the start of a tool call: the live file is       *)
(* opened, every layer rebuilt over it, and the stale connection closed.   *)
Reopen ==
    /\ conn \notin {Closed, disk} /\ TurnIsOver
    /\ conn' = disk
    /\ moved' = Working
    /\ UNCHANGED <<mutex, stage, at, lockFile, held, disk>>

(* .codegraph, with the lock file in it, is removed and made again.        *)
ReplacedOnDisk ==
    /\ disk <= MaxReplaced
    /\ disk' = disk + 1
    /\ lockFile' = "free"
    /\ UNCHANGED <<mutex, stage, at, held, conn, moved>>

TheyAcquire ==
    /\ lockFile = "free"
    /\ lockFile' = "them"
    /\ UNCHANGED <<mutex, stage, at, held, disk, conn, moved>>

TheyRelease ==
    /\ lockFile = "them"
    /\ lockFile' = "free"
    /\ UNCHANGED <<mutex, stage, at, held, disk, conn, moved>>
-----------------------------------------------------------------------------
Operation(c) ==
    \/ Call(c) \/ Retry(c) \/ Refused(c) \/ Begin(c) \/ Throws(c)
    \/ NothingToResolve(c) \/ Resolve(c) \/ Resolved(c) \/ Return(c)

FacadeNext ==
    \/ \E c \in Caller : Operation(c)
    \/ Close \/ Reopen \/ ReplacedOnDisk \/ TheyAcquire \/ TheyRelease

(* Queued microtasks run, a started operation comes to its end (it is       *)
(* finite, and each of its awaits settles), and its promise settles.       *)
FacadeFairness ==
    \A c \in Caller :
        /\ WF_allVars(Retry(c))
        /\ WF_allVars(Refused(c) \/ Begin(c))
        /\ WF_allVars(Throws(c) \/ NothingToResolve(c) \/ Resolved(c))
        /\ WF_allVars(Return(c))

FacadeSpec == FacadeInit /\ [][FacadeNext]_allVars /\ FacadeFairness
-----------------------------------------------------------------------------
(* While another process holds the lock file, no operation of ours can     *)
(* write the database at the path, also when close() gave the lock file up *)
(* under it: its connection is closed by then.  The exceptions are what    *)
(* the code does: indexFiles() lets the lock file go at once, and an       *)
(* operation that a reopen moved to the new index resolves there without a *)
(* lock.                                                                   *)
WritersExclude ==
    lockFile = "them" =>
        \A c \in Working : \/ at[c] # disk \/ at[c] # conn
                           \/ Does[c] = "indexFiles" \/ c \in moved

(* The lock file is ours only while an operation is at work under it:      *)
(* neither a throw nor a refusal, a close, a reopen or a replaced index    *)
(* leaves a lock behind that this living process would keep valid.         *)
NoLeakedLock ==
    lockFile = "us" => \E c \in Working : Does[c] # "indexFiles"
=============================================================================
