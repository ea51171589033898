------------------------------- MODULE Mutex -------------------------------
(***************************************************************************)
(* class Mutex (codegraph/src/utils.ts), the promise-based mutex that      *)
(* serialises indexAll, indexFiles and sync inside one process.            *)
(*                                                                         *)
(* JavaScript runs one job at a time, so the unit of interleaving is the   *)
(* code between two awaits.  acquire() tests `locked' and either takes the *)
(* lock or parks a resolver in waitQueue; release() clears `locked' and    *)
(* resolves the oldest resolver, which only SCHEDULES the waiter: its loop *)
(* tests `locked' again in a later microtask.  Between the two a caller    *)
(* that runs in a microtask queued earlier can take the lock (barging).    *)
(***************************************************************************)
EXTENDS Sequences, Naturals

CONSTANTS Caller,     \* the async operations that share the mutex
          NoCaller,   \* stands for "nobody"
          Barger      \* callers that may call acquire() from a microtask that
                      \* is already queued; the others call from a macrotask
                      \* (timer, socket), which runs only once no woken waiter
                      \* is left

ASSUME MutexAssumption == NoCaller \notin Caller /\ Barger \subseteq Caller

VARIABLES locked,     \* the field of the same name
          waitQueue,  \* the parked resolvers, oldest first
          jobs,       \* waiters whose resolver ran: reactions queued, FIFO
          pc          \* where each caller is in withLock()

vars == <<locked, waitQueue, jobs, pc>>

Init ==
    /\ locked = FALSE
    /\ waitQueue = << >>
    /\ jobs = << >>
    /\ pc = [c \in Caller |-> "idle"]

Take(c) ==
    /\ ~locked
    /\ locked' = TRUE
    /\ pc' = [pc EXCEPT ![c] = "holding"]
    /\ UNCHANGED waitQueue

Park(c) ==
    /\ locked
    /\ waitQueue' = Append(waitQueue, c)
    /\ pc' = [pc EXCEPT ![c] = "waiting"]
    /\ UNCHANGED locked

Loop(c) == Take(c) \/ Park(c)

Acquire(c) ==
    /\ pc[c] = "idle"
    /\ c \in Barger \/ jobs = << >>
    /\ Loop(c)
    /\ UNCHANGED jobs

(* Mutant: `if (this.locked)' where acquire() says `while'.                *)
BugResumeWithoutTest(c) ==
    /\ jobs # << >> /\ c = Head(jobs)
    /\ jobs' = Tail(jobs)
    /\ locked' = TRUE
    /\ pc' = [pc EXCEPT ![c] = "holding"]
    /\ UNCHANGED waitQueue

Resume(c) ==
    /\ jobs # << >> /\ c = Head(jobs)
    /\ jobs' = Tail(jobs)
    /\ Loop(c)

(* Mutants: release() that forgets the queue, or takes the newest waiter.  *)
BugWakeNobody(c) == pc' = [pc EXCEPT ![c] = "idle"] /\ UNCHANGED <<waitQueue, jobs>>

BugWakeNewest(c) ==
    LET last == Len(waitQueue) IN
    IF waitQueue = << >> THEN BugWakeNobody(c)
    ELSE /\ waitQueue' = SubSeq(waitQueue, 1, last - 1)
         /\ jobs' = Append(jobs, waitQueue[last])
         /\ pc' = [pc EXCEPT ![c] = "idle", ![waitQueue[last]] = "woken"]

WakeNext(c) ==
    IF waitQueue = << >>
    THEN /\ pc' = [pc EXCEPT ![c] = "idle"]
         /\ UNCHANGED <<waitQueue, jobs>>
    ELSE /\ waitQueue' = Tail(waitQueue)
         /\ jobs' = Append(jobs, Head(waitQueue))
         /\ pc' = [pc EXCEPT ![c] = "idle", ![Head(waitQueue)] = "woken"]

Release(c) ==
    /\ pc[c] = "holding"
    /\ locked' = FALSE
    /\ WakeNext(c)

Next == \E c \in Caller : Acquire(c) \/ Resume(c) \/ Release(c)

(* A queued microtask runs, and a critical section ends: its function      *)
(* settles, and withLock releases in a finally block.                      *)
Fairness == \A c \in Caller : WF_vars(Resume(c)) /\ WF_vars(Release(c))

Spec == Init /\ [][Next]_vars

FairSpec == Spec /\ Fairness
-----------------------------------------------------------------------------
TypeOK ==
    /\ locked \in BOOLEAN
    /\ waitQueue \in Seq(Caller)
    /\ jobs \in Seq(Caller)
    /\ pc \in [Caller -> {"idle", "waiting", "woken", "holding"}]

(* At most one operation of a process is inside withLock's function, also  *)
(* when a barging caller overtakes a waiter that is already woken.         *)
MutualExclusion ==
    \A a, b \in Caller : pc[a] = "holding" /\ pc[b] = "holding" => a = b

(* While the mutex is free and a caller is parked, a wake-up is on its     *)
(* way: release() passes the turn on, and a waiter that loses it to a      *)
(* barger parks again only while somebody (who will wake it) holds.        *)
NoLostWakeup ==
    ~locked /\ (\E c \in Caller : pc[c] = "waiting") => jobs # << >>

(* Each waiter is served once the callers that can barge leave the mutex   *)
(* alone: those that come in macrotasks do not overtake it for ever.       *)
EveryWaiterServed ==
    (\A b \in Barger : <>[](pc[b] = "idle"))
        => \A c \in Caller : pc[c] = "waiting" ~> pc[c] = "holding"
-----------------------------------------------------------------------------
(* The refinement mapping onto what the mutex promises.                    *)
Holders == {c \in Caller : pc[c] = "holding"}

Owner == IF Holders = {} THEN NoCaller ELSE CHOOSE c \in Holders : TRUE

Asking == {c \in Caller : pc[c] \in {"waiting", "woken"}}

Abstract == INSTANCE MutexSpec WITH owner <- Owner, asking <- Asking

(* Every behaviour of the mutex is one of the abstract lock, progress      *)
(* included: it is never left free while a caller is asking.               *)
ImplementsMutexSpec == Abstract!SSpec
=============================================================================
