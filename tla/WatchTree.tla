----------------------------- MODULE WatchTree -----------------------------
(***************************************************************************)
(* The watches of FileWatcher where the OS has no recursive one (Linux):   *)
(* one watch for each directory, which reports changes of its direct       *)
(* children.  A directory that appears is walked: a watch is set, what is  *)
(* in it is listed, files are taken for changed and subdirectories walked  *)
(* in turn.  The walk is one turn of the event loop, but the disk changes  *)
(* between its system calls.                                               *)
(*                                                                         *)
(* The rest of the watcher is Watcher, whose variable events is kept to be *)
(* the set of files whose change will be reported (Coming).                *)
(***************************************************************************)
EXTENDS Watcher

CONSTANTS Dir,         \* directories below the root, none of them ignored
          Root,
          Path,        \* the directories on the way to a directory, itself included
          In,          \* the directory of a file, or Root
          MaxChanges   \* bound: directories made or removed, and watches that fail

ParentIs(d, p) == d # p /\ Path[d] = {d} \cup (IF p = Root THEN {} ELSE Path[p])

(* Paths in a tree of directories.                                         *)
ASSUME TreeAssumption ==
    /\ Root \notin Dir /\ MaxChanges \in Nat
    /\ In \in [File -> Dir \cup {Root}] /\ Path \in [Dir -> SUBSET Dir]
    /\ \A d \in Dir : d \in Path[d] /\ \E p \in Dir \cup {Root} : ParentIs(d, p)
    /\ \A d \in Dir : \A a \in Path[d] :
          /\ Path[a] \subseteq Path[d] /\ (d \in Path[a] => a = d)
          /\ a # d => \E c \in Path[d] : ParentIs(c, a)
          /\ \A b \in Path[d] : a \in Path[b] \/ b \in Path[a]

VARIABLES present, there,   \* the directories and files there are
          dirWatchers,      \* the keys of the map of that name
          dead,             \* those of them whose directory has been removed
          dirEvents, fileEvents,      \* reported by the OS, not delivered
          todo, listing, marks,       \* of a walk: directories to visit, watched but not
                                      \* yet listed; files to call handleChange() for
          inotifyLimitWarned,
          blind,            \* history: directories that could not be watched
          changes

disk == <<present, there, changes>>
walk == <<todo, listing, marks>>
os == <<dirWatchers, dead, dirEvents, fileEvents, walk, inotifyLimitWarned, blind>>
treeVars == <<vars, disk, os>>

Walking == todo \cup listing \cup marks # {}
Children(p) == {d \in present : ParentIs(d, p)}
Live(d) == d \in dirWatchers \ dead

(* Whether directory d will be listed in this or a coming walk.            *)
WillBeListed(d) ==
    \/ d \in listing
    \/ /\ d # Root /\ Path[d] \subseteq present /\ ~inotifyLimitWarned
       /\ \E a \in Path[d] : LET below == Path[d] \ Path[a] IN
             \/ a \in listing /\ below \cap dirWatchers = {}
             \/ a \in todo \cup dirEvents /\ (below \cup {a}) \cap dirWatchers = {}

Coming == fileEvents \cup marks \cup {f \in there : WillBeListed(In[f])}

TreeInit ==
    /\ Init
    /\ present \in {D \in SUBSET Dir : \A d \in D : Path[d] \subseteq D}
    /\ there = {} /\ dirWatchers = {} /\ dead = {} /\ dirEvents = {} /\ fileEvents = {}
    /\ todo = {} /\ listing = {} /\ marks = {}
    /\ inotifyLimitWarned = FALSE /\ blind = {} /\ changes = 0
-----------------------------------------------------------------------------
(* The disk.  A file made in a directory yet to be listed is not removed   *)
(* before: nobody knows of it.                                             *)

Rewrite(f) ==
    /\ In[f] \in present \cup {Root}
    /\ \/ there' = there \cup {f}
       \/ f \in there /\ there' = there \ {f} /\ (Live(In[f]) \/ ~WillBeListed(In[f]))
    /\ fileEvents' = IF Live(In[f]) THEN fileEvents \cup {f} ELSE fileEvents
    /\ UNCHANGED <<present, changes, dirWatchers, dead, dirEvents, walk, inotifyLimitWarned, blind>>
    /\ events' = Coming'
    /\ Changed(f, f \in events')

Report(d) == {e \in {d} : \E p \in dirWatchers \ dead : ParentIs(d, p)}

Mkdir(d) ==
    /\ d \notin present /\ Path[d] \ {d} \subseteq present /\ changes < MaxChanges
    /\ present' = present \cup {d} /\ changes' = changes + 1
    /\ dirEvents' = dirEvents \cup Report(d)
    /\ UNCHANGED <<vars, there, dirWatchers, dead, fileEvents, walk, inotifyLimitWarned, blind>>

(* The watch of a removed directory reports nothing any more, but stays.   *)
Rmdir(d) ==
    /\ d \in present /\ Children(d) = {} /\ \A f \in there : In[f] # d
    /\ changes < MaxChanges
    /\ present' = present \ {d} /\ changes' = changes + 1
    /\ dead' = dead \cup ({d} \cap dirWatchers)
    /\ dirEvents' = dirEvents \cup Report(d)
    /\ blind' = blind \ {d}
    /\ UNCHANGED <<vars, there, dirWatchers, fileEvents, walk, inotifyLimitWarned>>
-----------------------------------------------------------------------------
(* handleDirEvent(): a directory is walked, anything else is a change of a *)
(* file (that of a directory which has gone is none of a source file).     *)

FileEvent(f) ==
    /\ ~Walking /\ f \in fileEvents
    /\ fileEvents' = fileEvents \ {f}
    /\ handleChange(f)
    /\ UNCHANGED <<disk, dirWatchers, dead, dirEvents, walk, inotifyLimitWarned, blind>>
    /\ events' = Coming'
    /\ UNCHANGED <<stale, missed, skipped, read, sync, retries, watch, foreign, bounds>>

DirEvent(d) ==
    /\ ~Walking /\ d \in dirEvents
    /\ dirEvents' = dirEvents \ {d}
    /\ todo' = {d} \cap present
    /\ UNCHANGED <<vars, disk, dirWatchers, dead, fileEvents, listing, marks, inotifyLimitWarned, blind>>

(* watchTree(), which lists a directory as soon as it is watched, before   *)
(* it goes to another.  It does nothing where there is a watch already, or *)
(* the budget of the kernel is used up, or the directory has gone.         *)
Skip(d) ==
    /\ listing = {} /\ d \in todo
    /\ d \in dirWatchers \/ inotifyLimitWarned \/ d \notin present
    /\ todo' = todo \ {d}
    /\ blind' = IF d \notin dirWatchers /\ d \in present THEN blind \cup {d} ELSE blind
    /\ UNCHANGED <<vars, disk, dirWatchers, dead, dirEvents, fileEvents, listing, marks, inotifyLimitWarned>>

Visit(d) ==
    /\ listing = {} /\ d \in todo \cap present
    /\ d \notin dirWatchers /\ ~inotifyLimitWarned
    /\ todo' = todo \ {d}
    /\ dirWatchers' = dirWatchers \cup {d} /\ listing' = listing \cup {d}
    /\ blind' = blind \ {d}
    /\ UNCHANGED <<vars, disk, dead, dirEvents, fileEvents, marks, inotifyLimitWarned>>

(* No more watches: by our cap this one, by the kernel's (ENOSPC) none.    *)
Refused(d) ==
    /\ listing = {} /\ d \in todo \cap present
    /\ d \notin dirWatchers /\ ~inotifyLimitWarned
    /\ todo' = todo \ {d} /\ blind' = blind \cup {d}
    /\ inotifyLimitWarned' \in BOOLEAN
    /\ UNCHANGED <<disk, dirWatchers, dead, dirEvents, fileEvents, listing, marks>>
    /\ Rewatch(Coming')

(* Mutant: the directories in a new directory are not visited.             *)
BugSubdirectories(d) == {}

Subdirectories(d) == Children(d)

(* Mutant: what is in a new directory is not marked.                       *)
BugExisting(d) == {}

(* markExisting, which is set after the start.                             *)
Existing(d) == {f \in there : In[f] = d}

List(d) ==
    /\ d \in listing
    /\ listing' = listing \ {d}
    /\ todo' = todo \cup Subdirectories(d)
    /\ marks' = marks \cup Existing(d)
    /\ UNCHANGED <<disk, dirWatchers, dead, dirEvents, fileEvents, inotifyLimitWarned, blind>>
    /\ events' = Coming'
    /\ UNCHANGED <<stale, missed, skipped, read, pending, timer, sync, retries, watch, foreign, bounds>>

Mark(f) ==
    /\ f \in marks
    /\ marks' = marks \ {f}
    /\ handleChange(f)
    /\ UNCHANGED <<disk, dirWatchers, dead, dirEvents, fileEvents, todo, listing, inotifyLimitWarned, blind>>
    /\ events' = Coming'
    /\ UNCHANGED <<stale, missed, skipped, read, sync, retries, watch, foreign, bounds>>

(* The watch of a directory fails: unwatchDir(), and what it had reported  *)
(* is lost with it.                                                        *)
WatchError(d) ==
    /\ ~Walking /\ d \in dirWatchers \ {Root} /\ changes < MaxChanges
    /\ changes' = changes + 1
    /\ dirWatchers' = dirWatchers \ {d} /\ dead' = dead \ {d}
    /\ inotifyLimitWarned' \in {inotifyLimitWarned, TRUE}
    /\ dirEvents' = dirEvents \ Children(d)
    /\ fileEvents' = {f \in fileEvents : In[f] # d}
    /\ blind' = blind \cup ({d} \cap present)
    /\ UNCHANGED <<present, there, walk>>
    /\ Rewatch(Coming')
-----------------------------------------------------------------------------
(* Starting and stopping.                                                  *)

(* stop() closes the watches; a walk it interrupts ends.                   *)
Closed ==
    /\ dirWatchers' = {} /\ dead' = {} /\ dirEvents' = {} /\ fileEvents' = {}
    /\ todo' = {} /\ listing' = {} /\ marks' = {}
    /\ inotifyLimitWarned' = FALSE /\ blind' = {}
    /\ UNCHANGED disk

(* start(): the walk over the tree there is, whose files are the catch-up  *)
(* sync's.  It may end before the tree does.                               *)
Installed ==
    \E W \in SUBSET present :
       /\ \A d \in W : Path[d] \subseteq W
       /\ dirWatchers' = W \cup {Root} /\ blind' = present \ W
       /\ inotifyLimitWarned' \in (IF W = present THEN {FALSE} ELSE BOOLEAN)
       /\ UNCHANGED <<disk, dead, dirEvents, fileEvents, walk>>

OnDisk ==
    \/ \E f \in File : Rewrite(f)
    \/ \E d \in Dir : Mkdir(d) \/ Rmdir(d)
WalkStep ==
    \/ \E d \in Dir : Skip(d) \/ Visit(d) \/ Refused(d) \/ List(d)
    \/ \E f \in File : Mark(f)
Delivery == (\E f \in File : FileEvent(f)) \/ (\E d \in Dir : DirEvent(d))
SyncFile(f) == SyncRead(f) \/ (~Walking /\ (SyncStore(f) \/ SyncSkip(f)))
SyncTurn ==
    /\ ~Walking
    /\ \/ (SyncLocks \/ SyncSucceeds) /\ UNCHANGED <<disk, os>>
       \/ LockUnavailable /\ IF active' THEN UNCHANGED <<disk, os>> ELSE Closed
Timer == ~Walking /\ flush /\ UNCHANGED <<disk, os>>

(* The event loop has a turn: it delivers an event, goes on with a walk,   *)
(* fires an armed timer (edits pause for a debounce period) or goes on     *)
(* with a sync.  Nothing makes the other process leave.                    *)
Turn ==
    \/ WalkStep \/ Delivery \/ Timer \/ SyncTurn
    \/ \E f \in File : SyncFile(f) /\ UNCHANGED <<disk, os>>

TreeNext ==
    \/ OnDisk \/ Turn
    \/ \E d \in Dir : WatchError(d)
    \/ ~Walking /\ SyncThrows /\ UNCHANGED <<disk, os>>
    \/ (ForeignTake \/ ForeignLeave) /\ UNCHANGED <<disk, os>>
    \/ ~Walking /\ StartSucceeds /\ Installed
    \/ ~Walking /\ StartRefused /\ UNCHANGED <<disk, os>>
    \/ ~Walking /\ (StartFails \/ Stop) /\ Closed
    \/ Exhausted /\ Closed

TreeSpec == TreeInit /\ [][TreeNext]_treeVars

FairTreeSpec == TreeSpec /\ WF_treeVars(Turn)
-----------------------------------------------------------------------------
(* Whatever is made, removed and written while the tree is walked, each    *)
(* change reaches the watcher as Watcher has it: it is reported, or was    *)
(* made where no watch could be set.  This is the race of mkdir and write  *)
(* that markExisting closes (watchTree).                                   *)
ImplementsWatcher == Spec

Recreated(d) == Path[d] \cap dead # {}
Unwatched(d) ==
    Path[d] \cap (blind \cup IF inotifyLimitWarned THEN todo \cup dirEvents ELSE {}) # {}

(* While the watcher is active each directory is watched, or is about to   *)
(* be listed.  Not so where the OS refused a watch; nor where a directory  *)
(* was removed and made again: the watch of the removed one is taken for   *)
(* its own (dirWatchers.has).                                              *)
DirectoriesCovered ==
    active => \A d \in present : Live(d) \/ WillBeListed(d) \/ Recreated(d) \/ Unwatched(d)
=============================================================================
