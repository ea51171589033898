------------------------------- MODULE Watcher -------------------------------
(***************************************************************************)
(* class FileWatcher (codegraph/src/sync/watcher.ts) with the disk it      *)
(* watches and the sync it triggers (CodeGraph.watch/sync in               *)
(* codegraph/src/index.ts): a change event marks its file pending and arms *)
(* one debounce timer; the timer starts a sync unless one runs; a sync     *)
(* that succeeds clears the files whose last event it covers, the ones it  *)
(* had to pass over included; one that finds the lock file taken retries   *)
(* with backoff and gives up past a budget.                                *)
(*                                                                         *)
(* Everything runs in one JavaScript thread, so a handler is one action.   *)
(* Edits, event delivery, the timer, the other process that holds the lock *)
(* and the file reads of a sync interleave.  Timestamps matter to the code *)
(* only as lastSeenMs <= syncStartedMs, so a pending entry is "covered" by *)
(* the sync in flight or seen "after" it began.                            *)
(***************************************************************************)
EXTENDS Naturals, FiniteSets

CONSTANTS File,            \* source files of the project
          MaxLockRetries,  \* MAX_LOCK_RETRIES (5 in the code)
          RetryCap,        \* MAX_LOCK_RETRY_DELAY_MS, in debounce periods
          MaxEdits,        \* bound: edits in a behaviour
          MaxErrors        \* bound: syncs that throw and files passed over in a behaviour

ASSUME WatcherAssumption ==
    /\ MaxLockRetries \in Nat \ {0} /\ RetryCap \in Nat \ {0}
    /\ MaxEdits \in Nat /\ MaxErrors \in Nat

(* Arithmetic of the backoff: powers of two are positive.                  *)
ASSUME PowerAssumption == \A n \in 1..MaxLockRetries : 2 ^ (n - 1) \in Nat \ {0}

VARIABLES stale,     \* files whose indexed content is not the one on disk
          read,      \* what the sync in flight has of each file: nothing ("no"),
                     \* its content of "now", an "old" one, or it is "done" with it
          events,    \* change notifications the OS has not delivered yet
          missed,    \* stale files the watcher was not there to see: the
                     \* catch-up sync's business, not the watcher's
          skipped,   \* history: stale files that the last sync to come to them passed
                     \* over, and that have not changed since
          pending,   \* pendingFiles: "none", "covered" or "after"
          timer,     \* delay of the armed debounceTimer, in debounce periods; 0: none
          sync,      \* the sync in flight: "idle", "locking" or "running"
          retries,   \* lockRetryCount
          active,    \* OS watches are open and `ready' is set
          stopped,   \* the field of the same name
          degraded,  \* degradedReason is set
          foreign,   \* another process holds the lock file
          edits, errors  \* the counters the bounds refer to

world == <<stale, events, missed, skipped>>
watch == <<active, stopped, degraded>>
bounds == <<edits, errors>>
vars == <<stale, read, events, missed, skipped, pending, timer, sync, retries,
          active, stopped, degraded, foreign, edits, errors>>

NotRead == [f \in File |-> "no"]
NonePending == [f \in File |-> "none"]
HasPending(p) == \E f \in File : p[f] # "none"

Init ==
    /\ stale = {} /\ missed = {} /\ skipped = {} /\ events = {}
    /\ read = NotRead
    /\ pending = NonePending
    /\ timer = 0 /\ sync = "idle" /\ retries = 0
    /\ active = FALSE /\ stopped = FALSE /\ degraded = FALSE
    /\ foreign = FALSE
    /\ edits = 0 /\ errors = 0
-----------------------------------------------------------------------------
(* The disk and the other process.                                         *)

(* A file changes, seen by a watch or not (which is up to WatchTree).      *)
Changed(f, seen) ==
    /\ edits < MaxEdits
    /\ edits' = edits + 1
    /\ stale' = stale \cup {f}
    /\ read' = IF read[f] = "now" THEN [read EXCEPT ![f] = "old"] ELSE read
    /\ missed' = IF seen THEN missed \ {f} ELSE missed \cup {f}
    /\ skipped' = skipped \ {f}
    /\ UNCHANGED <<pending, timer, sync, retries, watch, foreign, errors>>

Edit(f, seen) ==
    /\ seen => active
    /\ events' = IF seen THEN events \cup {f} ELSE events
    /\ Changed(f, seen)

(* The watches change.  What is no longer going to be reported, as a       *)
(* watch cannot be set or fails, is missed; what was missed may come, as   *)
(* it does when the stale watch of a directory made again is dropped.      *)
Rewatch(F) ==
    /\ active \/ F \subseteq events
    /\ events' = F
    /\ missed' = (missed \cup (stale \cap (events \ F))) \ (F \ events)
    /\ UNCHANGED <<stale, skipped, read, pending, timer, sync, retries, watch, foreign, bounds>>

ForeignTake ==
    /\ ~foreign /\ sync # "running"
    /\ foreign' = TRUE
    /\ UNCHANGED <<world, read, pending, timer, sync, retries, watch, bounds>>

ForeignLeave ==
    /\ foreign
    /\ foreign' = FALSE
    /\ UNCHANGED <<world, read, pending, timer, sync, retries, watch, bounds>>
-----------------------------------------------------------------------------
(* Events and the timer.                                                   *)

(* Mutant: a second event keeps the first one's time stamp.                *)
BugKeepFirstSeen(f) ==
    /\ pending' = [pending EXCEPT ![f] = IF @ = "none" THEN "after" ELSE @]
    /\ timer' = 1

handleChange(f) ==
    /\ pending' = [pending EXCEPT ![f] = "after"]
    /\ timer' = 1

(* A change may be reported more than once.                                *)
DeliverEvent(f) ==
    /\ active /\ f \in events
    /\ events' \in {events, events \ {f}}
    /\ handleChange(f)
    /\ UNCHANGED <<stale, missed, skipped, read, sync, retries, watch, foreign, bounds>>

FlushStarts == sync = "idle" /\ ~stopped

flush ==
    /\ timer > 0
    /\ timer' = 0
    /\ IF FlushStarts
       THEN /\ sync' = "locking"
            /\ pending' = [f \in File |-> IF pending[f] = "none" THEN "none" ELSE "covered"]
       ELSE UNCHANGED <<sync, pending>>
    /\ UNCHANGED <<world, read, retries, watch, foreign, bounds>>
-----------------------------------------------------------------------------
(* The sync in flight and what flush() does when it settles.               *)

RetryDelay(n) == IF 2 ^ (n - 1) < RetryCap THEN 2 ^ (n - 1) ELSE RetryCap

reschedule(p, n) ==
    timer' = IF HasPending(p) /\ ~stopped
             THEN IF n > 0 THEN RetryDelay(n) ELSE 1
             ELSE timer

(* stop(): the watches are closed, what was tracked is forgotten.          *)
stop ==
    /\ stopped' = TRUE /\ active' = FALSE
    /\ retries' = 0 /\ pending' = NonePending
    /\ events' = {} /\ missed' = missed \cup stale /\ skipped' = {}

PastBudget(n) == n > MaxLockRetries

(* Mutant: each contention counts as the first one.                        *)
BugForgetsAttempts == 1

Attempt == retries + 1

SyncLocks ==
    /\ sync = "locking" /\ ~foreign
    /\ sync' = "running"
    /\ UNCHANGED <<world, read, pending, timer, retries, watch, foreign, bounds>>

LockUnavailable ==
    /\ sync = "locking" /\ foreign
    /\ sync' = "idle"
    /\ IF PastBudget(Attempt) /\ ~degraded
       THEN /\ degraded' = TRUE
            /\ stop
            /\ timer' = 0
       ELSE /\ retries' = Attempt
            /\ reschedule(pending, Attempt)
            /\ UNCHANGED <<pending, events, missed, skipped, watch>>
    /\ UNCHANGED <<stale, read, foreign, bounds>>

SyncRead(f) ==
    /\ sync = "running" /\ read[f] = "no"
    /\ read' = [read EXCEPT ![f] = "now"]
    /\ UNCHANGED <<world, pending, timer, sync, retries, watch, foreign, bounds>>

SyncStore(f) ==
    /\ sync = "running" /\ read[f] \in {"now", "old"}
    /\ read' = [read EXCEPT ![f] = "done"]
    /\ stale' = IF read[f] = "now" THEN stale \ {f} ELSE stale
    /\ missed' = IF read[f] = "now" THEN missed \ {f} ELSE missed
    /\ skipped' = IF read[f] = "now" THEN skipped \ {f} ELSE skipped
    /\ UNCHANGED <<events, pending, timer, sync, retries, watch, foreign, bounds>>

(* The sync passes over a file and goes on as if nothing had happened: it  *)
(* has the recorded size and time stamp, cannot be read, is too large or   *)
(* in no language known, or nothing could be extracted from it.  That      *)
(* matters while the index lacks what the sync would have read: otherwise  *)
(* it leaves things as SyncStore does.                                     *)
SyncSkip(f) ==
    /\ sync = "running" /\ f \in stale /\ read[f] \in {"no", "now"}
    /\ errors < MaxErrors /\ errors' = errors + 1
    /\ read' = [read EXCEPT ![f] = "done"]
    /\ skipped' = skipped \cup {f}
    /\ UNCHANGED <<stale, events, missed, pending, timer, sync, retries, watch, foreign, edits>>

(* Mutant: a sync that succeeds clears every pending file.                 *)
BugClearAll == NonePending

StillPending == [f \in File |-> IF pending[f] = "covered" THEN "none" ELSE pending[f]]

(* A sync succeeds whatever it passed over.                                *)
SyncSucceeds ==
    /\ sync = "running" /\ \A f \in File : read[f] = "done"
    /\ sync' = "idle" /\ read' = NotRead
    /\ retries' = 0
    /\ pending' = StillPending
    /\ reschedule(StillPending, 0)
    /\ UNCHANGED <<world, watch, foreign, bounds>>

SyncThrows ==
    /\ sync = "running" /\ errors < MaxErrors
    /\ errors' = errors + 1
    /\ sync' = "idle" /\ read' = NotRead
    /\ retries' = 0
    /\ reschedule(pending, 0)
    /\ UNCHANGED <<world, pending, watch, foreign, edits>>
-----------------------------------------------------------------------------
(* The watcher's own life.                                                 *)

StartSucceeds ==
    /\ ~active
    /\ active' = TRUE /\ stopped' = FALSE /\ degraded' = FALSE
    /\ retries' = 0 /\ pending' = NonePending
    /\ UNCHANGED <<world, read, timer, sync, foreign, bounds>>

(* watchDisabledReason() answers: nothing is installed.                    *)
StartRefused ==
    /\ ~active
    /\ stopped' = FALSE /\ degraded' = FALSE /\ retries' = 0
    /\ UNCHANGED <<world, read, pending, timer, sync, active, foreign, bounds>>

(* Installing the watches throws: EMFILE/ENFILE degrades, the rest stops.  *)
StartFails ==
    /\ ~active
    /\ degraded' \in BOOLEAN
    /\ stop /\ timer' = 0
    /\ UNCHANGED <<stale, read, sync, foreign, bounds>>

Stop ==
    /\ stop /\ timer' = 0
    /\ UNCHANGED <<stale, read, sync, degraded, foreign, bounds>>

(* A watch fails with EMFILE/ENFILE: degrade().  When that happens while   *)
(* watchTree() walks a new directory, the walk goes on over the siblings   *)
(* of the failed directory and handleChange() arms the timer once more.    *)
Exhausted ==
    /\ active
    /\ degraded' = TRUE
    /\ stop /\ timer' \in {0, 1}
    /\ UNCHANGED <<stale, read, sync, foreign, bounds>>

Next ==
    \/ \E f \in File, seen \in BOOLEAN : Edit(f, seen)
    \/ \E F \in SUBSET File : Rewatch(F)
    \/ \E f \in File : DeliverEvent(f) \/ SyncRead(f) \/ SyncStore(f) \/ SyncSkip(f)
    \/ flush \/ SyncLocks \/ LockUnavailable \/ SyncSucceeds \/ SyncThrows
    \/ ForeignTake \/ ForeignLeave
    \/ StartSucceeds \/ StartRefused \/ StartFails \/ Stop \/ Exhausted

Spec == Init /\ [][Next]_vars
-----------------------------------------------------------------------------
TypeOK ==
    /\ stale \in SUBSET File /\ missed \in SUBSET File /\ skipped \in SUBSET File
    /\ events \in SUBSET File
    /\ read \in [File -> {"no", "now", "old", "done"}]
    /\ pending \in [File -> {"none", "covered", "after"}]
    /\ timer \in 0..RetryCap
    /\ sync \in {"idle", "locking", "running"}
    /\ retries \in 0..MaxLockRetries
    /\ active \in BOOLEAN /\ stopped \in BOOLEAN /\ degraded \in BOOLEAN
    /\ foreign \in BOOLEAN
    /\ edits \in 0..MaxEdits /\ errors \in 0..MaxErrors

(* No file is shown fresh while it is stale: a file that was edited under  *)
(* the watcher's eyes is pending from the moment its event arrives until a *)
(* sync that read it after its last edit has committed.  One exception: a  *)
(* sync that passes over a file clears its entry as well ("those edits are *)
(* now in the DB", flush), so it is shown fresh until it changes again or  *)
(* a later sync stores it.                                                 *)
NoFalseFresh ==
    stale \subseteq {f \in File : pending[f] # "none"} \cup events \cup missed \cup skipped

(* A pending file always has a sync coming: a timer is armed, or a sync    *)
(* is in flight whose end will look at the pending files again.            *)
WorkIsScheduled == HasPending(pending) => active /\ (timer > 0 \/ sync # "idle")

(* A watcher that has given up leaves the index and its lock alone until   *)
(* it is started again, whatever timer was armed on the way down.          *)
DegradedIsQuiet == [][degraded /\ degraded' => ~(sync = "idle" /\ sync' # "idle")]_vars

(* Under contention that never ends the watcher does not retry for ever:   *)
(* it does not stay active with work pending.                              *)
ContentionGivesUp == []<>(~foreign \/ ~active \/ ~HasPending(pending))

(* The edits the watcher saw are all indexed again and again, unless it    *)
(* stops or gives up: none waits for ever.  One exception: an edited file  *)
(* that a sync passes over, which no one tries again before the next event *)
(* of some file.                                                           *)
EditsReachIndex == []<>(stale \subseteq missed \cup skipped)
=============================================================================
