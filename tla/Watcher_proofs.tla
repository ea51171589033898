--------------------------- MODULE Watcher_proofs ---------------------------
(***************************************************************************)
(* Proofs about class FileWatcher for any set of files, retry budget and   *)
(* number of edits: while time stamps tell an event after the start of a   *)
(* sync from that start, no file it watches is shown fresh while stale     *)
(* except one that a sync passed over, and no pending file is left without *)
(* a timer or a sync.                                                      *)
(*                                                                         *)
(* Then about its watches of single directories, for any tree of           *)
(* directories and any changes to it: each directory is watched or about   *)
(* to be, and the watches implement the watcher.                           *)
(***************************************************************************)
EXTENDS WatchTree, TLAPS

(* What the sync in flight has of a file does not outlive the sync.        *)
ReadOK ==
    /\ sync # "running" => read = NotRead
    /\ \A f \in File : read[f] = "old" => f \in stale

(* A file that changed after the sync read it is not one this sync clears, *)
(* and one that it passed over is known to be stale.                       *)
EditedSinceRead ==
    \A f \in stale : read[f] \in {"old", "done"} =>
        pending[f] = "after" \/ f \in events \cup missed \cup skipped

(* A watcher that is not active tracks nothing.                            *)
Life ==
    /\ active => ~stopped /\ ~degraded
    /\ ~active => pending = NonePending /\ events = {}
    /\ degraded => stopped /\ (sync = "locking" => retries = 0)

IInv == TypeOK /\ ReadOK /\ EditedSinceRead /\ Life /\ WorkIsScheduled /\ NoFalseFresh
-----------------------------------------------------------------------------
LEMMA DelayPositive == \A n \in 1..MaxLockRetries : RetryDelay(n) \in 1..RetryCap
BY WatcherAssumption, PowerAssumption DEF RetryDelay

LEMMA InitInv == Init => IInv
<1> SUFFICES ASSUME Init PROVE IInv
  OBVIOUS
<1>1. /\ NotRead \in [File -> {"no", "now", "old", "done"}]
      /\ NonePending \in [File -> {"none", "covered", "after"}]
      /\ \A f \in File : NotRead[f] = "no" /\ NonePending[f] = "none"
  BY DEF NotRead, NonePending
<1>2. TypeOK
  <2>1. /\ active \in BOOLEAN /\ stopped \in BOOLEAN /\ degraded \in BOOLEAN
        /\ foreign \in BOOLEAN
    BY Zenon DEF Init
  <2>2. timer \in 0..RetryCap /\ retries \in 0..MaxLockRetries
        /\ edits \in 0..MaxEdits /\ errors \in 0..MaxErrors
    BY WatcherAssumption DEF Init
  <2>3. /\ stale \in SUBSET File /\ missed \in SUBSET File /\ skipped \in SUBSET File
        /\ events \in SUBSET File
        /\ sync \in {"idle", "locking", "running"}
    BY DEF Init
  <2>4. QED  BY <1>1, <2>1, <2>2, <2>3, Zenon DEF Init, TypeOK
<1>3. ReadOK /\ EditedSinceRead /\ Life /\ WorkIsScheduled /\ NoFalseFresh
  BY <1>1 DEF Init, ReadOK, EditedSinceRead, Life, WorkIsScheduled, NoFalseFresh, HasPending
<1>4. QED  BY <1>2, <1>3 DEF IInv

(* Every way down goes through stop(): what was tracked becomes missed.    *)
LEMMA StopInv ==
    ASSUME IInv, stop, timer' \in {0, 1}, stale' = stale, read' = read, edits' = edits,
           errors' = errors, foreign' = foreign, degraded' \in BOOLEAN,
           sync' \in {sync, "idle"}, sync = "running" => sync' = sync
    PROVE  IInv'
<1> USE WatcherAssumption DEF IInv
<1>1. /\ stopped' = TRUE /\ active' = FALSE /\ retries' = 0 /\ pending' = NonePending
      /\ events' = {} /\ missed' = missed \cup stale /\ skipped' = {}
  BY DEF stop
<1>2. NonePending \in [File -> {"none", "covered", "after"}]
      /\ \A f \in File : NonePending[f] = "none"
  BY DEF NonePending
<1>3. TypeOK'
  <2>1. /\ active' \in BOOLEAN /\ stopped' \in BOOLEAN /\ foreign' \in BOOLEAN
    BY <1>1, Zenon DEF TypeOK
  <2>2. timer' \in 0..RetryCap /\ retries' \in 0..MaxLockRetries
        /\ edits' \in 0..MaxEdits /\ errors' \in 0..MaxErrors
    BY <1>1 DEF TypeOK
  <2>3. /\ stale' \in SUBSET File /\ missed' \in SUBSET File /\ skipped' \in SUBSET File
        /\ events' \in SUBSET File
        /\ sync' \in {"idle", "locking", "running"}
        /\ pending' \in [File -> {"none", "covered", "after"}]
        /\ read' \in [File -> {"no", "now", "old", "done"}]
    BY <1>1, <1>2 DEF TypeOK
  <2>4. QED  BY <2>1, <2>2, <2>3, Zenon DEF TypeOK
<1>4. ReadOK' /\ EditedSinceRead' /\ NoFalseFresh'
  BY <1>1 DEF TypeOK, ReadOK, EditedSinceRead, NoFalseFresh
<1>5. Life' /\ WorkIsScheduled'
  BY <1>1, <1>2 DEF Life, WorkIsScheduled, HasPending
<1>6. QED  BY <1>3, <1>4, <1>5

LEMMA EditInv ==
    ASSUME IInv, NEW f \in File, NEW seen \in BOOLEAN, Edit(f, seen)
    PROVE  IInv'
<1> USE WatcherAssumption DEF IInv
<1>1. /\ edits < MaxEdits /\ edits' = edits + 1 /\ stale' = stale \cup {f}
      /\ read' = IF read[f] = "now" THEN [read EXCEPT ![f] = "old"] ELSE read
      /\ skipped' = skipped \ {f}
      /\ UNCHANGED <<pending, timer, sync, retries, active, stopped, degraded, foreign, errors>>
  BY DEF Edit, Changed, watch
<1>2. \/ active /\ events' = events \cup {f} /\ missed' = missed \ {f}
      \/ events' = events /\ missed' = missed \cup {f}
  BY DEF Edit, Changed
<1>3. TypeOK'
  BY <1>1, <1>2 DEF TypeOK
<1>4. ReadOK'
  BY <1>1 DEF TypeOK, ReadOK, NotRead
<1>5. EditedSinceRead' /\ NoFalseFresh'
  BY <1>1, <1>2 DEF TypeOK, EditedSinceRead, NoFalseFresh
<1>6. Life' /\ WorkIsScheduled'
  BY <1>1, <1>2 DEF Life, WorkIsScheduled, HasPending
<1>7. QED  BY <1>3, <1>4, <1>5, <1>6

(* What is not reported any more is missed.                                *)
LEMMA RewatchInv ==
    ASSUME IInv, NEW F \in SUBSET File, Rewatch(F)
    PROVE  IInv'
<1>1. /\ events' = F /\ missed' = (missed \cup (stale \cap (events \ F))) \ (F \ events)
      /\ active \/ F \subseteq events
      /\ UNCHANGED <<stale, skipped, read, pending, timer, sync, retries, active, stopped,
                     degraded, foreign, edits, errors>>
  BY DEF Rewatch, watch, bounds
<1>2. TypeOK'
  BY <1>1 DEF IInv, TypeOK
<1>3. EditedSinceRead' /\ NoFalseFresh'
  BY <1>1 DEF IInv, TypeOK, EditedSinceRead, NoFalseFresh
<1>4. ReadOK' /\ Life' /\ WorkIsScheduled'
  BY <1>1 DEF IInv, ReadOK, Life, WorkIsScheduled, HasPending
<1>5. QED  BY <1>2, <1>3, <1>4 DEF IInv

(* The world outside: the other process takes or leaves the lock file.     *)
LEMMA ForeignInv ==
    ASSUME IInv, ForeignTake \/ ForeignLeave
    PROVE  IInv'
<1>1. /\ UNCHANGED <<stale, read, events, missed, skipped, pending, timer, sync, retries, active,
                     stopped, degraded, edits, errors>>
  BY DEF ForeignTake, ForeignLeave, watch, world, bounds
<1>2. foreign' \in BOOLEAN
  BY Zenon DEF ForeignTake, ForeignLeave
<1>3. TypeOK'
  BY <1>1, <1>2, Zenon DEF IInv, TypeOK
<1>4. QED
  BY <1>1, <1>3
  DEF IInv, ReadOK, EditedSinceRead, Life, WorkIsScheduled, NoFalseFresh, HasPending

LEMMA DeliverInv ==
    ASSUME IInv, NEW f \in File, DeliverEvent(f)
    PROVE  IInv'
<1>1. /\ active /\ f \in events /\ events' \in {events, events \ {f}} /\ timer' = 1
      /\ pending' = [pending EXCEPT ![f] = "after"]
      /\ UNCHANGED <<stale, missed, skipped, read, sync, retries, active, stopped, degraded,
                     foreign, edits, errors>>
  BY DEF DeliverEvent, handleChange, watch, bounds
<1>2. QED
  BY <1>1, WatcherAssumption
  DEF IInv, TypeOK, ReadOK, EditedSinceRead, Life, WorkIsScheduled, NoFalseFresh, HasPending

LEMMA FlushInv ==
    ASSUME IInv, flush
    PROVE  IInv'
<1> USE WatcherAssumption DEF IInv
<1>1. /\ timer' = 0
      /\ UNCHANGED <<stale, events, missed, skipped, read, retries, active, stopped, degraded,
                     foreign, edits, errors>>
  BY DEF flush, world, watch, bounds
<1>2. CASE FlushStarts
  <2>1. /\ sync = "idle" /\ ~stopped /\ sync' = "locking"
        /\ pending' = [f \in File |-> IF pending[f] = "none" THEN "none" ELSE "covered"]
    BY <1>2 DEF flush, FlushStarts
  <2>2. TypeOK' /\ ReadOK'
    BY <1>1, <2>1 DEF TypeOK, ReadOK
  <2>3. EditedSinceRead' /\ NoFalseFresh'
    BY <1>1, <2>1 DEF TypeOK, ReadOK, EditedSinceRead, NoFalseFresh, NotRead
  <2>4. Life'
    BY <1>1, <2>1 DEF Life, NonePending, TypeOK
  <2>5. WorkIsScheduled'
    BY <1>1, <2>1 DEF WorkIsScheduled, HasPending
  <2>6. QED  BY <2>2, <2>3, <2>4, <2>5
<1>3. CASE ~FlushStarts
  <2>1. (sync # "idle" \/ stopped) /\ sync' = sync /\ pending' = pending
    BY <1>3 DEF flush, FlushStarts
  <2>2. TypeOK' /\ ReadOK' /\ EditedSinceRead' /\ NoFalseFresh' /\ Life'
    BY <1>1, <2>1 DEF TypeOK, ReadOK, EditedSinceRead, NoFalseFresh, Life
  <2>3. WorkIsScheduled'
    BY <1>1, <2>1 DEF WorkIsScheduled, HasPending, Life
  <2>4. QED  BY <2>2, <2>3
<1>4. QED  BY <1>2, <1>3

LEMMA SyncLocksInv ==
    ASSUME IInv, SyncLocks
    PROVE  IInv'
BY DEF SyncLocks, watch, world, bounds, IInv, TypeOK, ReadOK,
       EditedSinceRead, Life, WorkIsScheduled, NoFalseFresh, HasPending

(* The post-sync check arms a timer whenever something is left pending.    *)
LEMMA RescheduleArms ==
    ASSUME IInv, NEW p \in [File -> {"none", "covered", "after"}],
           NEW n \in 0..MaxLockRetries, reschedule(p, n)
    PROVE  /\ timer' \in 0..RetryCap
           /\ HasPending(p) /\ ~stopped => timer' > 0
<1>1. n > 0 => RetryDelay(n) \in 1..RetryCap
  BY DelayPositive
<1>2. QED  BY <1>1, WatcherAssumption DEF reschedule, IInv, TypeOK

LEMMA LockUnavailableInv ==
    ASSUME IInv, LockUnavailable
    PROVE  IInv'
<1> USE WatcherAssumption DEF IInv
<1>1. CASE PastBudget(Attempt) /\ ~degraded
  BY <1>1, StopInv DEF LockUnavailable, bounds
<1>2. CASE ~(PastBudget(Attempt) /\ ~degraded)
  <2>1. /\ sync = "locking" /\ sync' = "idle" /\ retries' = retries + 1
        /\ reschedule(pending, retries + 1)
        /\ UNCHANGED <<stale, events, missed, skipped, read, pending, active, stopped, degraded,
                       foreign, edits, errors>>
    BY <1>2 DEF LockUnavailable, Attempt, watch, bounds
  <2>2. retries + 1 \in 0..MaxLockRetries
    BY <1>2, <2>1 DEF PastBudget, Attempt, TypeOK, Life
  <2>3. timer' \in 0..RetryCap /\ (HasPending(pending) /\ ~stopped => timer' > 0)
    BY <2>1, <2>2, RescheduleArms DEF TypeOK
  <2>4. TypeOK' /\ ReadOK' /\ EditedSinceRead' /\ NoFalseFresh' /\ Life'
    BY <2>1, <2>2, <2>3 DEF TypeOK, ReadOK, EditedSinceRead, NoFalseFresh, Life
  <2>5. WorkIsScheduled'
    BY <2>1, <2>3 DEF WorkIsScheduled, HasPending, Life
  <2>6. QED  BY <2>4, <2>5
<1>3. QED  BY <1>1, <1>2

LEMMA SyncReadInv ==
    ASSUME IInv, NEW f \in File, SyncRead(f)
    PROVE  IInv'
BY DEF SyncRead, watch, world, bounds, IInv, TypeOK, ReadOK,
       EditedSinceRead, Life, WorkIsScheduled, NoFalseFresh, HasPending

LEMMA SyncStoreInv ==
    ASSUME IInv, NEW f \in File, SyncStore(f)
    PROVE  IInv'
BY DEF SyncStore, watch, bounds, IInv, TypeOK, ReadOK,
       EditedSinceRead, Life, WorkIsScheduled, NoFalseFresh, HasPending

(* A file passed over is left to the exception.                            *)
LEMMA SyncSkipInv ==
    ASSUME IInv, NEW f \in File, SyncSkip(f)
    PROVE  IInv'
<1>1. /\ sync = "running" /\ f \in stale
      /\ errors < MaxErrors /\ errors' = errors + 1
      /\ read' = [read EXCEPT ![f] = "done"] /\ skipped' = skipped \cup {f}
      /\ UNCHANGED <<stale, events, missed, pending, timer, sync, retries, active, stopped,
                     degraded, foreign, edits>>
  BY DEF SyncSkip, watch
<1>2. TypeOK'
  BY <1>1, WatcherAssumption DEF IInv, TypeOK
<1>3. ReadOK' /\ EditedSinceRead' /\ NoFalseFresh'
  BY <1>1 DEF IInv, TypeOK, ReadOK, EditedSinceRead, NoFalseFresh
<1>4. Life' /\ WorkIsScheduled'
  BY <1>1 DEF IInv, Life, WorkIsScheduled, HasPending
<1>5. QED  BY <1>2, <1>3, <1>4 DEF IInv

LEMMA SyncSucceedsInv ==
    ASSUME IInv, SyncSucceeds
    PROVE  IInv'
<1> USE WatcherAssumption DEF IInv
<1>1. /\ sync = "running" /\ \A f \in File : read[f] = "done"
      /\ sync' = "idle" /\ read' = NotRead /\ retries' = 0 /\ pending' = StillPending
      /\ reschedule(StillPending, 0)
      /\ UNCHANGED <<stale, events, missed, skipped, active, stopped, degraded, foreign, edits,
                     errors>>
  BY DEF SyncSucceeds, world, watch, bounds
<1>2. /\ StillPending \in [File -> {"none", "covered", "after"}]
      /\ \A f \in File : pending[f] = "after" => StillPending[f] = "after"
      /\ \A f \in File : StillPending[f] # "none" => pending[f] # "none"
  BY DEF StillPending, TypeOK
<1>3. timer' \in 0..RetryCap /\ (HasPending(StillPending) /\ ~stopped => timer' > 0)
  BY <1>1, <1>2, RescheduleArms
<1>4. TypeOK' /\ ReadOK'
  BY <1>1, <1>2, <1>3 DEF TypeOK, ReadOK, NotRead
<1>5. NoFalseFresh'
  BY <1>1, <1>2 DEF NoFalseFresh, EditedSinceRead, TypeOK
<1>6. EditedSinceRead'
  BY <1>1 DEF EditedSinceRead, NotRead, TypeOK
<1>7. Life'
  <2>1. pending = NonePending => StillPending = NonePending
    BY DEF StillPending, NonePending
  <2>2. QED  BY <1>1, <2>1 DEF Life
<1>8. WorkIsScheduled'
  <2>1. HasPending(StillPending) => HasPending(pending)
    BY <1>2 DEF HasPending
  <2>2. HasPending(pending') => active /\ timer' > 0
    BY <1>1, <1>3, <2>1 DEF WorkIsScheduled, Life
  <2>3. QED  BY <1>1, <2>2 DEF WorkIsScheduled
<1>9. QED  BY <1>4, <1>5, <1>6, <1>7, <1>8

LEMMA SyncThrowsInv ==
    ASSUME IInv, SyncThrows
    PROVE  IInv'
<1> USE WatcherAssumption DEF IInv
<1>1. /\ sync = "running" /\ sync' = "idle" /\ read' = NotRead /\ retries' = 0
      /\ errors < MaxErrors /\ errors' = errors + 1
      /\ reschedule(pending, 0)
      /\ UNCHANGED <<stale, events, missed, skipped, pending, active, stopped, degraded, foreign,
                     edits>>
  BY DEF SyncThrows, world, watch
<1>2. timer' \in 0..RetryCap /\ (HasPending(pending) /\ ~stopped => timer' > 0)
  BY <1>1, RescheduleArms DEF TypeOK
<1>3. TypeOK' /\ ReadOK'
  BY <1>1, <1>2 DEF TypeOK, ReadOK, NotRead
<1>4. EditedSinceRead' /\ NoFalseFresh' /\ Life'
  BY <1>1 DEF EditedSinceRead, NoFalseFresh, Life, NotRead, TypeOK
<1>5. WorkIsScheduled'
  BY <1>1, <1>2 DEF WorkIsScheduled, HasPending, Life
<1>6. QED  BY <1>3, <1>4, <1>5

LEMMA StartInv ==
    ASSUME IInv, StartSucceeds \/ StartRefused
    PROVE  IInv'
<1> USE WatcherAssumption DEF IInv
<1>1. /\ ~active /\ pending = NonePending /\ pending' = pending /\ retries' = 0
      /\ stopped' = FALSE /\ degraded' = FALSE
      /\ UNCHANGED <<stale, read, events, missed, skipped, timer, sync, foreign, edits, errors>>
  BY DEF StartSucceeds, StartRefused, world, bounds, Life
<1>2. active' \in BOOLEAN /\ stopped' \in BOOLEAN /\ degraded' \in BOOLEAN
  BY Zenon DEF StartSucceeds, StartRefused, TypeOK
<1>3. retries' \in 0..MaxLockRetries
  BY <1>1
<1>4. TypeOK'
  BY <1>1, <1>2, <1>3, Zenon DEF TypeOK
<1>5. ReadOK' /\ EditedSinceRead' /\ NoFalseFresh' /\ Life'
  BY <1>1 DEF ReadOK, EditedSinceRead, NoFalseFresh, Life
<1>6. WorkIsScheduled'
  BY <1>1 DEF WorkIsScheduled, HasPending, NonePending
<1>7. QED  BY <1>4, <1>5, <1>6

LEMMA StepInv ==
    ASSUME IInv, [Next]_vars
    PROVE  IInv'
<1>1. ASSUME StartFails \/ Stop \/ Exhausted  PROVE IInv'
  <2>1. /\ stop /\ timer' \in {0, 1}
        /\ UNCHANGED <<stale, read, sync, foreign, edits, errors>>
    BY <1>1 DEF StartFails, Stop, Exhausted, bounds
  <2>2. degraded' \in BOOLEAN
    BY <1>1 DEF StartFails, Stop, Exhausted, IInv, TypeOK
  <2>3. QED  BY <2>1, <2>2, StopInv
<1>2. CASE UNCHANGED vars
  BY <1>2 DEF vars, IInv, TypeOK, ReadOK, EditedSinceRead, Life, WorkIsScheduled,
              NoFalseFresh, HasPending
<1>3. QED
  BY <1>1, <1>2, EditInv, RewatchInv, ForeignInv, DeliverInv, FlushInv, SyncLocksInv,
     LockUnavailableInv, SyncReadInv, SyncStoreInv, SyncSkipInv, SyncSucceedsInv,
     SyncThrowsInv, StartInv
  DEF Next

LEMMA Invariance == Spec => []IInv
<1>1. IInv /\ [Next]_vars => IInv'
  BY StepInv
<1>2. QED  BY InitInv, <1>1, PTL DEF Spec

(* The pending list never vouches for a stale file the watcher has seen    *)
(* change, unless a sync passed over that file since and it has not        *)
(* changed again.                                                          *)
THEOREM NoFalseFreshHolds == Spec => []NoFalseFresh
<1>1. IInv => NoFalseFresh
  BY DEF IInv
<1>2. QED  BY Invariance, <1>1, PTL

(* No pending file is ever left without a timer or a sync in flight.       *)
THEOREM WorkIsScheduledHolds == Spec => []WorkIsScheduled
<1>1. IInv => WorkIsScheduled
  BY DEF IInv
<1>2. QED  BY Invariance, <1>1, PTL

(* Nothing is started by a watcher that has given up, whatever timer was   *)
(* armed on the way down.                                                  *)
THEOREM DegradedIsQuietHolds == Spec => DegradedIsQuiet
<1>1. IInv /\ [Next]_vars => (degraded /\ degraded' => ~(sync = "idle" /\ sync' # "idle"))
  <2> SUFFICES ASSUME IInv, [Next]_vars, degraded, degraded', sync = "idle", sync' # "idle"
               PROVE FALSE
    OBVIOUS
  <2>1. stopped
    BY DEF IInv, Life
  <2>2. ~flush
    BY <2>1 DEF flush, FlushStarts
  <2>3. QED
    BY <2>2 DEF Next, vars, Edit, Changed, Rewatch, DeliverEvent, SyncRead, SyncStore, SyncSkip,
       SyncLocks, LockUnavailable, SyncSucceeds, SyncThrows, ForeignTake, ForeignLeave, StartSucceeds,
       StartRefused, StartFails, Stop, Exhausted
<1>2. IInv /\ [Next]_vars => [degraded /\ degraded' => ~(sync = "idle" /\ sync' # "idle")]_vars
  BY <1>1
<1>3. QED  BY Invariance, <1>2, PTL DEF Spec, DegradedIsQuiet
-----------------------------------------------------------------------------
(* The tree of watches.  A directory that is not watched has, above the    *)
(* last unwatched directory on the way to it or there, one that explains   *)
(* why: it is to be walked, is being walked, or could not be watched; or   *)
(* the watch above is dead.  Stronger than DirectoriesCovered in that no   *)
(* watch lies between a directory and its explanation, so that a walk that *)
(* comes to the explaining directory goes on to the explained one.         *)

Below(a, d) == Path[d] \ Path[a]

Way(a, d) ==
    /\ Below(a, d) \cap dirWatchers = {}
    /\ a \in listing \/ (a \in todo \cup dirEvents /\ a \notin dirWatchers)

Explains(a, d) ==
    /\ Below(a, d) \cap dirWatchers = {}
    /\ \/ a \in listing \cup dead
       \/ a \in todo \cup dirEvents \cup blind /\ a \notin dirWatchers

Tree ==
    /\ present \subseteq Dir /\ there \subseteq File
    /\ \A d \in present : Path[d] \subseteq present
    /\ \A f \in there : In[f] \in present \cup {Root}

Watches ==
    /\ dirWatchers \subseteq Dir \cup {Root} /\ dead \subseteq dirWatchers \ {Root}
    /\ dirWatchers \ dead \subseteq present \cup {Root}
    /\ dirEvents \subseteq Dir /\ fileEvents \subseteq File
    /\ todo \subseteq Dir /\ listing \subseteq dirWatchers \ {Root} /\ marks \subseteq File
    /\ inotifyLimitWarned => listing = {}
    /\ active => Root \in dirWatchers
    /\ ~active => dirWatchers = {} /\ dirEvents = {} /\ fileEvents = {} /\ todo = {} /\ marks = {}

Explained == active => \A d \in present : Live(d) \/ \E a \in Path[d] : Explains(a, d)

TInv == Tree /\ Watches /\ events = Coming /\ Explained

(* What TreeAssumption says of one directory and one on the way to it.     *)
LEMMA Paths ==
    ASSUME NEW d \in Dir
    PROVE  /\ Path[d] \subseteq Dir /\ d \in Path[d] /\ Root # d
           /\ \E p \in Dir \cup {Root} : ParentIs(d, p)
           /\ \A a \in Path[d] : /\ Path[a] \subseteq Path[d] /\ a \in Path[a] /\ a # Root
                                 /\ d \in Path[a] => a = d
                                 /\ a # d => \E c \in Path[d] : ParentIs(c, a)
           /\ \A a, b \in Path[d] : a \in Path[b] \/ b \in Path[a]
  BY TreeAssumption

LEMMA ListedBy ==
    ASSUME NEW d
    PROVE  /\ WillBeListed(d) <=>
                 \/ d \in listing
                 \/ /\ d # Root /\ Path[d] \subseteq present /\ ~inotifyLimitWarned
                    /\ \E a \in Path[d] : Way(a, d)
           /\ WillBeListed(d)' <=>
                 \/ d \in listing'
                 \/ /\ d # Root /\ Path[d] \subseteq present' /\ ~inotifyLimitWarned'
                    /\ \E a \in Path[d] : Way(a, d)'
  BY DEF WillBeListed, Way, Below

(* A child lies on the way: what is below it is below its parent.          *)
LEMMA ChildBelow ==
    ASSUME NEW d \in Dir, NEW a \in Path[d], NEW c \in Path[d], ParentIs(c, a)
    PROVE  /\ Below(a, d) = Below(c, d) \cup {c} /\ Path[c] = {c} \cup Path[a] /\ c # a
<1>1. a # Root /\ a \in Dir /\ c \in Dir
  BY Paths
<1>2. Path[c] = {c} \cup Path[a] /\ c # a
  BY <1>1 DEF ParentIs
<1>3. a \in Path[c]
  BY <1>1, <1>2, Paths
<1>4. c \notin Path[a]
  BY <1>1, <1>2, <1>3, Paths
<1> QED  BY <1>2, <1>4 DEF Below

(* Nothing that the watches or the tree consist of changes.                *)
LEMMA StillTree ==
    ASSUME TInv, UNCHANGED <<disk, os, events, active>>
    PROVE  TInv'
  BY DEF TInv, Tree, Watches, Coming, WillBeListed, Explained, Explains, Below, Live, disk, os, walk

(* Files are made, changed and removed, and their events delivered.        *)
LEMMA FilesTree ==
    ASSUME TInv, UNCHANGED <<present, dirWatchers, dead, dirEvents, todo, listing,
                             inotifyLimitWarned, blind, active>>,
           events' = Coming', fileEvents' \subseteq File, marks' \subseteq File,
           there' \subseteq File, \A f \in there' \ there : In[f] \in present \cup {Root},
           ~active => fileEvents' = {} /\ marks' = {}
    PROVE  TInv'
  BY DEF TInv, Tree, Watches, Explained, Explains, Below, Live

LEMMA SameComing ==
    ASSUME UNCHANGED <<there, fileEvents, marks>>,
           \A f \in there : WillBeListed(In[f])' <=> WillBeListed(In[f])
    PROVE  Coming' = Coming
  BY DEF Coming

LEMMA RewriteTree ==
    ASSUME TInv, NEW f \in File, Rewrite(f)
    PROVE  TInv' /\ [Next]_vars
<1>1. /\ In[f] \in present \cup {Root}
      /\ UNCHANGED <<present, changes, dirWatchers, dead, dirEvents, todo, listing, marks,
                     inotifyLimitWarned, blind, active>>
      /\ fileEvents' = IF Live(In[f]) THEN fileEvents \cup {f} ELSE fileEvents
      /\ events' = Coming' /\ Changed(f, f \in events')
      /\ \/ there' = there \cup {f}
         \/ f \in there /\ there' = there \ {f} /\ (Live(In[f]) \/ ~WillBeListed(In[f]))
  BY DEF Rewrite, walk, Changed, watch
<1>2. \A d : WillBeListed(d)' <=> WillBeListed(d)
  BY <1>1 DEF WillBeListed
<1>3. Coming = events
  BY DEF TInv
<1>4. ~active => ~Live(In[f]) /\ ~WillBeListed(In[f]) /\ marks = {} /\ fileEvents = {}
  BY DEF TInv, Watches, Live, WillBeListed
<1>5. TInv'
  BY <1>1, <1>4, FilesTree DEF TInv, Tree, Watches
<1>6. CASE f \in events'
  <2>1. f \in fileEvents' \cup marks \/ WillBeListed(In[f])
    BY <1>1, <1>2, <1>6 DEF Coming
  <2>2. active
    BY <1>1, <1>4, <2>1
  <2>3. events' = events \cup {f}
    BY <1>1, <1>2, <1>3, <1>6 DEF Coming
  <2>4. Edit(f, TRUE)
    BY <1>1, <1>6, <2>2, <2>3 DEF Edit, Changed
  <2> QED  BY <1>5, <2>4 DEF Next
<1>7. CASE f \notin events'
  <2>1. events' = events
    BY <1>1, <1>2, <1>3, <1>7 DEF Coming
  <2>2. Edit(f, FALSE)
    BY <1>1, <1>7, <2>1 DEF Edit, Changed
  <2> QED  BY <1>5, <2>2 DEF Next
<1> QED  BY <1>6, <1>7

LEMMA DeliverTree ==
    ASSUME TInv, NEW f \in File, FileEvent(f) \/ Mark(f)
    PROVE  TInv' /\ [Next]_vars
<1>1. /\ UNCHANGED <<present, there, changes, dirWatchers, dead, dirEvents, todo, listing,
                     inotifyLimitWarned, blind, active>>
      /\ UNCHANGED <<stale, missed, skipped, read, sync, retries, watch, foreign, bounds>>
      /\ events' = Coming' /\ handleChange(f)
      /\ f \in fileEvents \cup marks
      /\ fileEvents' \subseteq fileEvents /\ marks' \subseteq marks
      /\ fileEvents \cup marks \subseteq fileEvents' \cup marks' \cup {f}
  BY DEF FileEvent, Mark, walk, disk, watch
<1>2. \A d : WillBeListed(d)' <=> WillBeListed(d)
  BY <1>1 DEF WillBeListed
<1>3. Coming = events /\ f \in events
  BY <1>1 DEF TInv, Coming
<1>4. active
  BY <1>1 DEF TInv, Watches
<1>5. TInv'
  BY <1>1, <1>4, FilesTree DEF TInv, Watches, Tree
<1>6. events' \in {events, events \ {f}}
  BY <1>1, <1>2, <1>3 DEF Coming
<1>7. DeliverEvent(f)
  BY <1>1, <1>3, <1>4, <1>6 DEF DeliverEvent
<1> QED  BY <1>5, <1>7 DEF Next

(* A directory is made: if its parent is watched, that is reported; if     *)
(* not, what explains the parent explains it too.                          *)
LEMMA MkdirTree ==
    ASSUME TInv, NEW d \in Dir, Mkdir(d)
    PROVE  TInv'
<1>1. /\ UNCHANGED <<there, dirWatchers, dead, fileEvents, todo, listing, marks, inotifyLimitWarned,
                     blind, active, events>>
      /\ d \notin present /\ Path[d] \ {d} \subseteq present /\ present' = present \cup {d}
      /\ dirEvents' = dirEvents \cup Report(d)
  BY DEF Mkdir, walk, vars
<1>2. Tree'
  <2>1. Path[d] \subseteq present'
    BY <1>1
  <2> QED  BY <1>1, <2>1 DEF TInv, Tree
<1>3. ~active => Report(d) = {}
  BY DEF TInv, Watches, Report
<1>4. Watches'
  BY <1>1, <1>3 DEF TInv, Watches, Report
<1>5. Coming' = Coming
  <2> SUFFICES ASSUME NEW f \in there PROVE WillBeListed(In[f])' <=> WillBeListed(In[f])
    BY <1>1, SameComing
  <2>1. In[f] \in present \cup {Root}
    BY DEF TInv, Tree
  <2>2. CASE In[f] = Root
    BY <1>1, <2>2, ListedBy DEF TInv, Watches
  <2>3. CASE In[f] \in present
    <3>1. Path[In[f]] \subseteq present /\ d \notin Path[In[f]]
      BY <1>1, <2>3 DEF TInv, Tree
    <3>2. \A a \in Path[In[f]] : Way(a, In[f])' <=> Way(a, In[f])
      BY <1>1, <3>1 DEF Way, Below, Report
    <3> QED  BY <1>1, <3>1, <3>2, ListedBy
  <2> QED  BY <2>1, <2>2, <2>3
<1>6. Explained'
  <2> SUFFICES ASSUME active, NEW e \in present'
               PROVE  Live(e)' \/ \E a \in Path[e] : Explains(a, e)'
    BY <1>1 DEF Explained
  <2>1. \A a, e2 : Explains(a, e2) => Explains(a, e2)'
    BY <1>1 DEF Explains, Below
  <2>2. CASE e # d
    BY <1>1, <2>1, <2>2 DEF TInv, Explained, Live
  <2>3. CASE e = d /\ d \in dirWatchers
    <3>1. d \in dead
      BY <1>1, <2>3, Paths DEF TInv, Watches
    <3>2. Explains(d, d)'
      BY <1>1, <3>1 DEF Explains, Below
    <3> QED  BY <2>3, <3>2, Paths
  <2>4. CASE e = d /\ d \notin dirWatchers
    <3>1. PICK p \in Dir \cup {Root} : ParentIs(d, p)
      BY Paths
    <3>2. CASE Live(p)
      <4>1. d \in dirEvents'
        BY <1>1, <3>1, <3>2 DEF Report, Live
      <4>2. Explains(d, d)'
        BY <1>1, <2>4, <4>1 DEF Explains, Below
      <4> QED  BY <2>4, <4>2, Paths
    <3>3. CASE ~Live(p)
      <4>1. p # Root
        BY <3>3 DEF TInv, Watches, Live
      <4>2. p \in Path[p] /\ p # d /\ Path[d] = {d} \cup Path[p]
        BY <3>1, <4>1, Paths DEF ParentIs
      <4>3. p \in present
        BY <1>1, <4>2
      <4>4. PICK a \in Path[p] : Explains(a, p)
        BY <3>3, <4>3 DEF TInv, Explained
      <4>5. Below(a, d) \subseteq Below(a, p) \cup {d}
        BY <4>2 DEF Below
      <4>6. Explains(a, d)
        BY <2>4, <4>4, <4>5 DEF Explains
      <4> QED  BY <2>1, <2>4, <4>2, <4>6
    <3> QED  BY <3>2, <3>3
  <2> QED  BY <2>2, <2>3, <2>4
<1> QED  BY <1>1, <1>2, <1>4, <1>5, <1>6 DEF TInv

(* No directory that there is lies below one that has no children.         *)
LEMMA NothingBelow ==
    ASSUME TInv, NEW d \in Dir, Children(d) = {}, NEW e \in present, e # d
    PROVE  d \notin Path[e]
<1> SUFFICES ASSUME d \in Path[e] PROVE FALSE
  OBVIOUS
<1>1. e \in Dir /\ Path[e] \subseteq present
  BY DEF TInv, Tree
<1>2. PICK c \in Path[e] : ParentIs(c, d)
  BY <1>1, Paths
<1> QED  BY <1>1, <1>2 DEF Children

LEMMA RmdirTree ==
    ASSUME TInv, NEW d \in Dir, Rmdir(d)
    PROVE  TInv'
<1>1. /\ UNCHANGED <<there, dirWatchers, fileEvents, todo, listing, marks, inotifyLimitWarned,
                     active, events>>
      /\ d \in present /\ Children(d) = {} /\ present' = present \ {d}
      /\ \A f \in there : In[f] # d
      /\ dead' = dead \cup ({d} \cap dirWatchers)
      /\ dirEvents' = dirEvents \cup Report(d) /\ blind' = blind \ {d}
  BY DEF Rmdir, walk, vars
<1>2. \A e \in present' : e \in Dir /\ d \notin Path[e] /\ Path[e] \subseteq present'
  BY <1>1, NothingBelow DEF TInv, Tree
<1>3. Tree'
  BY <1>1, <1>2 DEF TInv, Tree
<1>4. ~active => Report(d) = {}
  BY DEF TInv, Watches, Report
<1>5. Watches'
  BY <1>1, <1>4, Paths DEF TInv, Watches, Report
<1>6. Coming' = Coming
  <2> SUFFICES ASSUME NEW f \in there PROVE WillBeListed(In[f])' <=> WillBeListed(In[f])
    BY <1>1, SameComing
  <2>1. In[f] \in present' \cup {Root}
    BY <1>1 DEF TInv, Tree
  <2>2. CASE In[f] = Root
    BY <1>1, <2>2, ListedBy DEF TInv, Watches
  <2>3. CASE In[f] \in present'
    <3>1. \A a \in Path[In[f]] : Way(a, In[f])' <=> Way(a, In[f])
      BY <1>1, <1>2, <2>3 DEF Way, Below, Report
    <3> QED  BY <1>1, <1>2, <2>3, <3>1, ListedBy
  <2> QED  BY <2>1, <2>2, <2>3
<1>7. Explained'
  <2>1. \A e \in present' : \A a \in Path[e] : Explains(a, e) => Explains(a, e)'
    BY <1>1, <1>2 DEF Explains, Below
  <2>2. \A e \in present' : e # d /\ e \in present
    BY <1>1
  <2> QED  BY <1>1, <2>1, <2>2 DEF TInv, Explained, Live
<1> QED  BY <1>1, <1>3, <1>5, <1>6, <1>7 DEF TInv

(* A reported directory is the first to be visited.                        *)
LEMMA DirEventTree ==
    ASSUME TInv, NEW d \in Dir, DirEvent(d)
    PROVE  TInv'
<1>1. /\ UNCHANGED <<present, there, dirWatchers, dead, fileEvents, listing, marks,
                     inotifyLimitWarned, blind, active, events>>
      /\ d \in dirEvents /\ dirEvents' = dirEvents \ {d}
      /\ todo = {} /\ listing = {} /\ todo' = {d} \cap present
  BY DEF DirEvent, Walking, disk, vars
<1>2. Tree' /\ Watches'
  BY <1>1 DEF TInv, Tree, Watches
<1>3. \A e : Path[e] \subseteq present => \A a \in Path[e] :
          /\ Way(a, e)' <=> Way(a, e)
          /\ Explains(a, e) => Explains(a, e)'
  BY <1>1 DEF Way, Explains, Below
<1>4. Coming' = Coming
  <2> SUFFICES ASSUME NEW f \in there PROVE WillBeListed(In[f])' <=> WillBeListed(In[f])
    BY <1>1, SameComing
  <2> QED  BY <1>1, <1>3, ListedBy
<1>5. Explained'
  BY <1>1, <1>3 DEF TInv, Explained, Live, Tree
<1> QED  BY <1>1, <1>2, <1>4, <1>5 DEF TInv

LEMMA SkipTree ==
    ASSUME TInv, NEW d \in Dir, Skip(d)
    PROVE  TInv'
<1>1. /\ UNCHANGED <<present, there, dirWatchers, dead, dirEvents, fileEvents, listing, marks,
                     inotifyLimitWarned, active, events>>
      /\ d \in todo /\ (d \in dirWatchers \/ inotifyLimitWarned \/ d \notin present)
      /\ todo' = todo \ {d}
      /\ blind' = IF d \notin dirWatchers /\ d \in present THEN blind \cup {d} ELSE blind
  BY DEF Skip, disk, vars
<1>2. Tree' /\ Watches'
  BY <1>1 DEF TInv, Tree, Watches
<1>3. \A e : Path[e] \subseteq present => \A a \in Path[e] :
          /\ ~inotifyLimitWarned => (Way(a, e)' <=> Way(a, e))
          /\ Explains(a, e) => Explains(a, e)'
  BY <1>1 DEF Way, Explains, Below
<1>4. Coming' = Coming
  <2> SUFFICES ASSUME NEW f \in there PROVE WillBeListed(In[f])' <=> WillBeListed(In[f])
    BY <1>1, SameComing
  <2> QED  BY <1>1, <1>3, ListedBy
<1>5. Explained'
  BY <1>1, <1>3 DEF TInv, Explained, Live, Tree
<1> QED  BY <1>1, <1>2, <1>4, <1>5 DEF TInv

(* A visited directory takes over whatever lay above it and went past it.  *)
LEMMA VisitTree ==
    ASSUME TInv, NEW d \in Dir, Visit(d)
    PROVE  TInv'
<1>1. /\ UNCHANGED <<present, there, dead, dirEvents, fileEvents, marks, inotifyLimitWarned,
                     active, events>>
      /\ listing = {} /\ d \in todo /\ d \in present /\ d \notin dirWatchers /\ ~inotifyLimitWarned
      /\ todo' = todo \ {d} /\ dirWatchers' = dirWatchers \cup {d} /\ listing' = {d}
      /\ blind' = blind \ {d}
  BY DEF Visit, disk, vars
<1>2. Tree' /\ Watches'
  BY <1>1, Paths DEF TInv, Tree, Watches
<1>3. ASSUME NEW e \in Dir, NEW a \in Path[e], d \in Below(a, e)
      PROVE  d \in Path[e] /\ Below(d, e) \subseteq Below(a, e)
  <2>1. d \in Path[e] /\ d \notin Path[a]
    BY <1>3 DEF Below
  <2>2. Path[a] \subseteq Path[d]
    <3>1. a \in Path[d]
      BY <2>1, Paths
    <3> QED  BY <3>1, Paths
  <2> QED  BY <2>1, <2>2 DEF Below
<1>4. ASSUME NEW e \in Dir, d \in Path[e], Below(d, e) \cap dirWatchers = {}
      PROVE  Way(d, e)' /\ Explains(d, e)'
  <2>1. d \notin Below(d, e)
    BY Paths DEF Below
  <2> QED  BY <1>1, <1>4, <2>1 DEF Way, Explains, Below
<1>5. ASSUME NEW e \in Dir, NEW a \in Path[e], d \notin Below(a, e), a # d
      PROVE  (Way(a, e)' <=> Way(a, e)) /\ (Explains(a, e) => Explains(a, e)')
  BY <1>1, <1>5 DEF Way, Explains, Below
<1>6. ASSUME NEW e \in Dir, NEW a \in Path[e]
      PROVE  /\ Way(a, e) => \E b \in Path[e] : Way(b, e)'
             /\ Explains(a, e) => \E b \in Path[e] : Explains(b, e)'
  <2>1. CASE d \in Below(a, e)
    BY <1>3, <1>4, <2>1 DEF Way, Explains
  <2>2. CASE d \notin Below(a, e) /\ a = d
    BY <1>4, <2>2 DEF Way, Explains
  <2>3. CASE d \notin Below(a, e) /\ a # d
    BY <1>5, <2>3
  <2> QED  BY <2>1, <2>2, <2>3
<1>7. ASSUME NEW e \in Dir, NEW a \in Path[e], Way(a, e)'
      PROVE  Way(a, e)
  BY <1>1, <1>7 DEF Way, Below
<1>8. Coming' = Coming
  <2> SUFFICES ASSUME NEW f \in there PROVE WillBeListed(In[f])' <=> WillBeListed(In[f])
    BY <1>1, SameComing
  <2>1. In[f] \in present \cup {Root} /\ Root # d
    BY Paths DEF TInv, Tree
  <2>2. CASE In[f] = Root
    BY <1>1, <2>1, <2>2, ListedBy
  <2>3. CASE In[f] \in present
    <3>1. In[f] \in Dir /\ In[f] # Root /\ Path[In[f]] \subseteq present
      BY <2>3, Paths DEF TInv, Tree
    <3>2. In[f] = d => Way(d, d)
      BY <1>1 DEF Way, Below
    <3> QED  BY <1>1, <1>6, <1>7, <3>1, <3>2, Paths, ListedBy
  <2> QED  BY <2>1, <2>2, <2>3
<1>9. Explained'
  <2> SUFFICES ASSUME active, NEW e \in present
               PROVE  Live(e)' \/ \E a \in Path[e] : Explains(a, e)'
    BY <1>1 DEF Explained
  <2>1. e \in Dir /\ (Live(e) \/ \E a \in Path[e] : Explains(a, e))
    BY DEF TInv, Explained, Tree
  <2> QED  BY <1>1, <1>6, <2>1 DEF Live
<1> QED  BY <1>1, <1>2, <1>8, <1>9 DEF TInv

(* What is no longer coming, or comes after all, is a change of watches.   *)
LEMMA RewatchStep ==
    ASSUME TInv, Rewatch(Coming'), Tree', Watches', active' = active
    PROVE  events' = Coming' /\ [Next]_vars
<1>1. Coming' \in SUBSET File
  BY DEF Coming, Watches, Tree
<1> QED  BY <1>1 DEF Rewatch, Next

LEMMA RefusedTree ==
    ASSUME TInv, NEW d \in Dir, Refused(d)
    PROVE  TInv' /\ [Next]_vars
<1>1. /\ UNCHANGED <<present, there, dirWatchers, dead, dirEvents, fileEvents, listing, marks,
                     active>>
      /\ listing = {} /\ d \in todo /\ d \notin dirWatchers /\ Rewatch(Coming')
      /\ todo' = todo \ {d} /\ blind' = blind \cup {d}
  BY DEF Refused, Rewatch, disk, watch
<1>2. Tree' /\ Watches'
  BY <1>1 DEF TInv, Tree, Watches
<1>3. \A a, e : Explains(a, e) => Explains(a, e)'
  BY <1>1 DEF Explains, Below
<1>4. Explained'
  BY <1>1, <1>3 DEF TInv, Explained, Live
<1> QED  BY <1>1, <1>2, <1>4, RewatchStep DEF TInv

(* Listing a directory hands over to its children and marks its files.     *)
LEMMA ListTree ==
    ASSUME TInv, NEW d \in Dir, List(d)
    PROVE  TInv' /\ [Next]_vars
<1>1. /\ UNCHANGED <<present, there, dirWatchers, dead, dirEvents, fileEvents, inotifyLimitWarned,
                     blind, active>>
      /\ d \in listing /\ listing' = listing \ {d} /\ todo' = todo \cup Children(d)
      /\ marks' = marks \cup {f \in there : In[f] = d} /\ events' = Coming'
      /\ UNCHANGED <<stale, missed, skipped, read, pending, timer, sync, retries, watch, foreign, bounds>>
  BY DEF List, Subdirectories, Existing, disk, watch
<1>2. ~inotifyLimitWarned /\ d \in dirWatchers /\ active
  BY <1>1 DEF TInv, Watches
<1>3. Tree' /\ Watches'
  BY <1>1, <1>2 DEF TInv, Tree, Watches, Children
<1>4. ASSUME NEW e \in Dir, Path[e] \subseteq present, e # d, d \in Path[e],
             Below(d, e) \cap dirWatchers = {}
      PROVE  \E c \in Path[e] : Way(c, e)' /\ Explains(c, e)'
  <2>1. PICK c \in Path[e] : ParentIs(c, d)
    BY <1>4, Paths
  <2>2. Below(d, e) = Below(c, e) \cup {c}
    BY <1>4, <2>1, ChildBelow
  <2>3. c \in todo'
    BY <1>1, <1>4, <2>1 DEF Children
  <2> QED  BY <1>1, <1>4, <2>2, <2>3 DEF Way, Explains, Below
<1>5. ASSUME NEW e \in Dir, NEW a \in Path[e], a # d
      PROVE  (Way(a, e) => Way(a, e)') /\ (Explains(a, e) => Explains(a, e)')
  BY <1>1, <1>5 DEF Way, Explains, Below
<1>6. ASSUME NEW e \in Dir, NEW a \in Path[e], Way(a, e)', ~Way(a, e)
      PROVE  d \in Path[e] /\ Way(d, e)
  <2>1. a \in Children(d) /\ a \notin dirWatchers /\ Below(a, e) \cap dirWatchers = {}
    BY <1>1, <1>6 DEF Way, Below
  <2>2. a \in Dir /\ ParentIs(a, d)
    BY <2>1 DEF Children, TInv, Tree
  <2>3. d \in Path[a] /\ Path[a] = {a} \cup Path[d]
    BY <2>2, Paths DEF ParentIs
  <2>4. d \in Path[e]
    BY <2>3, Paths
  <2>5. Below(d, e) \subseteq Below(a, e) \cup {a}
    BY <2>3 DEF Below
  <2> QED  BY <1>1, <2>1, <2>4, <2>5 DEF Way
<1>7. Coming' = Coming
  <2> SUFFICES ASSUME NEW f \in there, In[f] # d PROVE WillBeListed(In[f])' <=> WillBeListed(In[f])
    <3>1. \A f \in there : In[f] = d => f \in Coming /\ f \in marks'
      BY <1>1 DEF Coming, WillBeListed
    <3> QED  BY <1>1, <3>1 DEF Coming
  <2>1. In[f] \in present \cup {Root}
    BY DEF TInv, Tree
  <2>2. CASE In[f] = Root
    BY <1>1, <2>2, ListedBy
  <2>3. CASE In[f] \in present
    <3> DEFINE e == In[f]
    <3>1. e \in Dir /\ e # Root /\ Path[e] \subseteq present /\ e # d
      BY <2>3, Paths DEF TInv, Tree
    <3>2. ASSUME NEW a \in Path[e], Way(a, e) PROVE \E b \in Path[e] : Way(b, e)'
      <4>1. CASE a = d
        BY <1>4, <3>1, <3>2, <4>1 DEF Way
      <4>2. CASE a # d
        BY <1>5, <3>1, <3>2, <4>2
      <4> QED  BY <4>1, <4>2
    <3>3. ASSUME NEW a \in Path[e], Way(a, e)' PROVE \E b \in Path[e] : Way(b, e)
      BY <1>6, <3>1, <3>3
    <3> HIDE DEF e
    <3>4. WillBeListed(e)' <=> WillBeListed(e)
      BY <1>1, <3>1, <3>2, <3>3, ListedBy
    <3> QED  BY <3>4 DEF e
  <2> QED  BY <2>1, <2>2, <2>3
<1>8. Explained'
  <2> SUFFICES ASSUME NEW e \in present, ~Live(e)
               PROVE  \E a \in Path[e] : Explains(a, e)'
    BY <1>1 DEF Explained, Live
  <2>1. e \in Dir /\ Path[e] \subseteq present
    BY DEF TInv, Tree
  <2>2. PICK a \in Path[e] : Explains(a, e)
    BY <1>2 DEF TInv, Explained
  <2>3. CASE a # d
    BY <1>5, <2>1, <2>2, <2>3
  <2>4. CASE a = d /\ e # d
    BY <1>4, <2>1, <2>2, <2>4 DEF Explains
  <2>5. CASE a = d /\ e = d
    <3>1. d \in dead
      BY <1>2, <2>5 DEF Live
    <3> QED  BY <1>1, <2>2, <2>5, <3>1 DEF Explains, Below
  <2> QED  BY <2>3, <2>4, <2>5
<1>9. UNCHANGED vars
  BY <1>1, <1>7 DEF TInv, vars, watch, bounds
<1> QED  BY <1>1, <1>3, <1>7, <1>8, <1>9 DEF TInv

LEMMA WatchErrorTree ==
    ASSUME TInv, NEW d \in Dir, WatchError(d)
    PROVE  TInv' /\ [Next]_vars
<1>1. /\ UNCHANGED <<present, there, todo, listing, marks, active>>
      /\ listing = {} /\ todo = {} /\ d \in dirWatchers /\ Rewatch(Coming')
      /\ dirWatchers' = dirWatchers \ {d} /\ dead' = dead \ {d}
      /\ dirEvents' = dirEvents \ Children(d) /\ fileEvents' \subseteq fileEvents
      /\ blind' = blind \cup ({d} \cap present)
  BY DEF WatchError, Walking, Rewatch, walk, watch
<1>2. active /\ d # Root
  BY <1>1, Paths DEF TInv, Watches
<1>3. Tree' /\ Watches'
  BY <1>1, <1>2 DEF TInv, Tree, Watches
<1>4. ASSUME NEW e \in present, ~Live(e)'
      PROVE  \E a \in Path[e] : Explains(a, e)'
  <2>1. e \in Dir /\ Path[e] \subseteq present
    BY DEF TInv, Tree
  <2>2. ASSUME d \in Path[e], Below(d, e) \cap dirWatchers = {} PROVE Explains(d, e)'
    BY <1>1, <2>1, <2>2 DEF Explains, Below
  <2>3. CASE Live(e)
    <3>1. e = d
      BY <1>1, <1>4, <2>3 DEF Live
    <3> QED  BY <2>1, <2>2, <3>1, Paths DEF Below
  <2>4. CASE ~Live(e)
    <3>1. PICK a \in Path[e] : Explains(a, e)
      BY <1>2, <2>4 DEF TInv, Explained
    <3>2. CASE a = d
      BY <2>2, <3>1, <3>2 DEF Explains
    <3>3. CASE a # d /\ a \in dirEvents \ dirWatchers /\ ParentIs(a, d)
      <4>1. a \in Dir /\ a \in Path[a]
        BY <2>1, Paths
      <4>2. Path[a] = {a} \cup Path[d] /\ d \in Path[a]
        BY <1>2, <3>3, <4>1, Paths DEF ParentIs
      <4>3. d \in Path[e] /\ Below(d, e) \subseteq Below(a, e) \cup {a}
        BY <2>1, <4>2, Paths DEF Below
      <4> QED  BY <2>2, <3>1, <3>3, <4>3 DEF Explains
    <3>4. CASE a # d /\ ~(a \in dirEvents \ dirWatchers /\ ParentIs(a, d))
      BY <1>1, <3>1, <3>4 DEF Explains, Below, Children
    <3> QED  BY <3>2, <3>3, <3>4
  <2> QED  BY <2>3, <2>4
<1>5. Explained'
  BY <1>1, <1>4 DEF Explained
<1> QED  BY <1>1, <1>3, <1>5, RewatchStep DEF TInv

(* start() leaves out what it could not watch; stop() closes everything.   *)
LEMMA InstalledTree ==
    ASSUME TInv, StartSucceeds, Installed
    PROVE  TInv'
<1>1. /\ ~active /\ active' = TRUE /\ UNCHANGED events
      /\ UNCHANGED <<present, there, dead, dirEvents, fileEvents, todo, listing, marks>>
  BY DEF StartSucceeds, Installed, world, disk, walk
<1>2. PICK W \in SUBSET present : dirWatchers' = W \cup {Root} /\ blind' = present \ W
  BY DEF Installed
<1>3. dead = {} /\ listing = {} /\ todo = {} /\ dirEvents = {} /\ fileEvents = {} /\ marks = {}
  BY <1>1 DEF TInv, Watches
<1>4. Tree' /\ Watches'
  BY <1>1, <1>2, <1>3 DEF TInv, Tree, Watches
<1>5. Coming = {} /\ Coming' = {}
  BY <1>1, <1>3 DEF Coming, WillBeListed
<1>6. ASSUME NEW e \in present, e \notin W PROVE e \in Path[e] /\ Explains(e, e)'
  <2>1. e \in Dir /\ e \in Path[e] /\ e # Root
    BY Paths DEF TInv, Tree
  <2> QED  BY <1>2, <1>6, <2>1 DEF Explains, Below
<1>7. Explained'
  BY <1>1, <1>2, <1>3, <1>6 DEF Explained, Live
<1> QED  BY <1>1, <1>4, <1>5, <1>7 DEF TInv

LEMMA ClosedTree ==
    ASSUME TInv, Closed, ~active', events' = {}
    PROVE  TInv'
<1> USE DEF Closed, disk
<1>1. Tree' /\ Watches'
  BY DEF TInv, Tree, Watches
<1>2. Coming' = {}
  BY DEF Coming, WillBeListed
<1> QED  BY <1>1, <1>2 DEF TInv, Explained

LEMMA SyncTurnTree ==
    ASSUME TInv, SyncTurn
    PROVE  TInv' /\ [Next]_vars
<1>1. CASE (SyncLocks \/ SyncSucceeds) /\ UNCHANGED <<disk, os>>
  <2>1. UNCHANGED <<events, active>>
    BY <1>1 DEF SyncLocks, SyncSucceeds, world, watch
  <2> QED  BY <1>1, <2>1, StillTree DEF Next
<1>2. CASE LockUnavailable /\ active' /\ UNCHANGED <<disk, os>>
  <2>1. UNCHANGED <<events, active>>
    BY <1>2 DEF LockUnavailable, stop, watch
  <2> QED  BY <1>2, <2>1, StillTree DEF Next
<1>3. CASE LockUnavailable /\ ~active' /\ Closed
  <2>1. events' = {} \/ (events' = events /\ ~active)
    BY <1>3 DEF LockUnavailable, stop, watch
  <2>2. ~active => events = {}
    BY DEF TInv, Watches, Coming, WillBeListed
  <2> QED  BY <1>3, <2>1, <2>2, ClosedTree DEF Next
<1> QED  BY <1>1, <1>2, <1>3 DEF SyncTurn

LEMMA TreeStep ==
    ASSUME TInv, [TreeNext]_treeVars
    PROVE  TInv' /\ [Next]_vars
<1>1. ASSUME NEW f \in File, Rewrite(f) \/ FileEvent(f) \/ Mark(f) PROVE TInv' /\ [Next]_vars
  BY <1>1, RewriteTree, DeliverTree
<1>2. ASSUME NEW d \in Dir, Mkdir(d) \/ Rmdir(d) \/ DirEvent(d) \/ Skip(d) \/ Visit(d)
      PROVE  TInv' /\ [Next]_vars
  <2>1. UNCHANGED vars
    BY <1>2 DEF Mkdir, Rmdir, DirEvent, Skip, Visit
  <2> QED  BY <1>2, <2>1, MkdirTree, RmdirTree, DirEventTree, SkipTree, VisitTree
<1>3. ASSUME NEW d \in Dir, Refused(d) \/ List(d) \/ WatchError(d) PROVE TInv' /\ [Next]_vars
  BY <1>3, RefusedTree, ListTree, WatchErrorTree
<1>4. ASSUME UNCHANGED <<disk, os>>,
             \/ flush \/ SyncThrows \/ ForeignTake \/ ForeignLeave \/ StartRefused
             \/ \E f \in File : SyncRead(f) \/ SyncStore(f) \/ SyncSkip(f)
      PROVE  TInv' /\ [Next]_vars
  <2>1. UNCHANGED <<events, active>>
    BY <1>4 DEF flush, SyncThrows, ForeignTake, ForeignLeave, StartRefused, SyncRead, SyncStore,
                SyncSkip,
                world, watch
  <2> QED  BY <1>4, <2>1, StillTree DEF Next
<1>5. CASE SyncTurn
  BY <1>5, SyncTurnTree
<1>6. CASE StartSucceeds /\ Installed
  BY <1>6, InstalledTree DEF Next
<1>7. CASE (StartFails \/ Stop \/ Exhausted) /\ Closed
  <2>1. ~active' /\ events' = {}
    BY <1>7 DEF StartFails, Stop, Exhausted, stop
  <2> QED  BY <1>7, <2>1, ClosedTree DEF Next
<1>8. CASE UNCHANGED treeVars
  BY <1>8, StillTree DEF treeVars, vars
<1> QED
  BY <1>1, <1>2, <1>3, <1>4, <1>5, <1>6, <1>7, <1>8
  DEF TreeNext, OnDisk, Turn, WalkStep, Delivery, Timer, SyncFile

LEMMA TreeInvariance == TreeSpec => []TInv
<1>1. TreeInit => TInv
  <2> SUFFICES ASSUME TreeInit PROVE TInv
    OBVIOUS
  <2>1. Tree /\ Watches /\ Explained
    BY DEF TreeInit, Init, Tree, Watches, Explained
  <2>2. Coming = {} /\ events = {}
    BY DEF TreeInit, Init, Coming, WillBeListed
  <2> QED  BY <2>1, <2>2 DEF TInv
<1>2. TInv /\ [TreeNext]_treeVars => TInv'
  BY TreeStep
<1> QED  BY <1>1, <1>2, PTL DEF TreeSpec

(* While the watcher is active each directory is watched or about to be    *)
(* listed, but for the ones that the OS refused to watch and the ones that *)
(* were removed and made again under the watch of the removed one.         *)
THEOREM DirectoriesCoveredHolds == TreeSpec => []DirectoriesCovered
<1>1. TInv => DirectoriesCovered
  <2> SUFFICES ASSUME TInv, active, NEW d \in present, ~Live(d)
               PROVE  WillBeListed(d) \/ Recreated(d) \/ Unwatched(d)
    BY DEF DirectoriesCovered
  <2>1. PICK a \in Path[d] : Explains(a, d)
    BY DEF TInv, Explained
  <2>2. d # Root /\ Path[d] \subseteq present
    BY Paths DEF TInv, Tree
  <2>3. CASE a \in dead \cup blind
    BY <2>3 DEF Recreated, Unwatched
  <2>4. CASE a \in (todo \cup dirEvents) \ dirWatchers /\ inotifyLimitWarned
    BY <2>4 DEF Unwatched
  <2>5. CASE Way(a, d) /\ ~inotifyLimitWarned
    BY <2>2, <2>5, ListedBy
  <2>6. a \in listing => ~inotifyLimitWarned
    BY DEF TInv, Watches
  <2> QED  BY <2>1, <2>3, <2>4, <2>5, <2>6 DEF Explains, Way
<1> QED  BY TreeInvariance, <1>1, PTL

(* Each step of the watch tree is a step of the watcher or leaves it       *)
(* alone: no change that was to be reported gets lost in a walk, whatever  *)
(* is made, removed and written meanwhile.                                 *)
THEOREM ImplementsWatcherHolds == TreeSpec => ImplementsWatcher
<1>1. TreeInit => Init
  BY DEF TreeInit
<1>2. TInv /\ [TreeNext]_treeVars => [Next]_vars
  BY TreeStep
<1> QED  BY <1>1, <1>2, TreeInvariance, PTL DEF TreeSpec, ImplementsWatcher, Spec
=============================================================================
