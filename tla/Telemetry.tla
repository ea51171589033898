----------------------------- MODULE Telemetry -----------------------------
(***************************************************************************)
(* class Telemetry (codegraph/src/telemetry/index.ts): the usage lines     *)
(* that every process of the user buffers in one queue file and sends, and *)
(* the stored choice that turns this off.                                  *)
(*                                                                         *)
(* A process is one node process with one lifetime, hence one pid: a       *)
(* server (daemon, proxy or direct) that flushes on a timer, or a command  *)
(* that flushes at most twice and ends.  It runs one turn of its event     *)
(* loop at a time; between two file-system calls of a turn other processes *)
(* take theirs.  A call that tests a file and the one that then reads it   *)
(* are one action.  DO_NOT_TRACK and CODEGRAPH_TELEMETRY are not set, and  *)
(* writes succeed.                                                         *)
(*                                                                         *)
(* A line is a value: a lifecycle event, which may be sent at once, or the *)
(* count of one key on one day, which may be sent when the day is over.    *)
(***************************************************************************)
EXTENDS Naturals, Sequences, SequencesExt

CONSTANTS Process,
          Server,       \* the processes that live on and flush on a timer
          Line,
          Event,        \* the lines that are lifecycle events
          Cap,          \* MAX_BUFFER_BYTES, in lines
          Chunk,        \* MAX_EVENTS_PER_REQUEST
          MaxFaults,    \* bound: requests that fail, and crashes
          MaxQuiet      \* bound: times the queue lies untouched for an hour

ASSUME TelemetryAssumption ==
    /\ Server \subseteq Process /\ Event \subseteq Line
    /\ Cap \in Nat \ {0} /\ Chunk \in Nat \ {0}
    /\ MaxFaults \in Nat /\ MaxQuiet \in Nat

VARIABLES config,        \* telemetry.json: "none", "on" or "off"
          queue, quiet,  \* telemetry-queue.jsonl, <<>> when there is none, and
                         \* whether it is older than STALE_CLAIM_MS
          claim, stale,  \* the same of telemetry-queue.sending.<pid>.jsonl
          cache,         \* configCache, or "unread"
          mem,           \* counts and events
          flights,       \* the flushes that await send(): what is left to send,
                         \* and what goes back to the queue
          flushes,       \* how often a command has flushed
          doing, after,     \* the next call of a turn; what follows appendLines()
          buf, base,     \* the lines to append, and the queue as it was read
          victim,        \* recoverStaleClaims(): whose claim it is at
          past,          \* the lines whose day is over
          sent,          \* how often the endpoint received a line, up to twice
          faults, quiets,
          recorded,      \* history: the lines recorded
          again, gone    \* history: lines for which the code allows, for a reason
                         \* named where it is set, to be sent twice, or to be lost

consent == <<config, cache>>
queueFile == <<queue, quiet>>
claims == <<claim, stale>>
memory == <<mem, flights, flushes>>
turn == <<doing, after, buf, base, victim>>
outside == <<past, sent, faults, quiets>>
accounts == <<recorded, again, gone>>
telemetryVars == <<consent, queueFile, claims, memory, turn, outside, accounts>>

TelemetryInit ==
    /\ config \in {"none", "on", "off"}
    /\ queue = <<>> /\ quiet = FALSE
    /\ claim = [p \in Process |-> <<>>] /\ stale = [p \in Process |-> FALSE]
    /\ cache = [p \in Process |-> "unread"]
    /\ mem = [p \in Process |-> <<>>] /\ flights = [p \in Process |-> <<>>]
    /\ flushes = [p \in Process |-> 0]
    /\ doing = [p \in Process |-> "idle"] /\ after = [p \in Process |-> "end"]
    /\ buf = [p \in Process |-> <<>>] /\ base = [p \in Process |-> <<>>]
    /\ victim = [p \in Process |-> p]
    /\ past = {} /\ sent = [l \in Line |-> 0]
    /\ faults = 0 /\ quiets = 0
    /\ recorded = {} /\ again = {} /\ gone = {}

GoOn(p, label) == doing' = [doing EXCEPT ![p] = label]

(* readConfig() looks at the file once in the life of a process, whatever  *)
(* others store afterwards.                                                *)
Choice(p) == IF cache[p] = "unread" THEN config ELSE cache[p]
ReadsChoice(p) == cache' = [cache EXCEPT ![p] = Choice(p)]
isEnabled(p) == Choice(p) # "off"

Sendable == Event \cup past

Received(lines) ==
    sent' = [l \in Line |-> IF l \in lines /\ sent[l] < 2 THEN sent[l] + 1 ELSE sent[l]]
-----------------------------------------------------------------------------
(* recordUsage(), and recordLifecycle() in a command; nothing when off.    *)
Record(p, l) ==
    /\ doing[p] = "idle" /\ l \notin recorded
    /\ l \in Event => p \notin Server
    /\ ReadsChoice(p)
    /\ IF isEnabled(p)
       THEN mem' = [mem EXCEPT ![p] = Append(@, l)] /\ recorded' = recorded \cup {l}
       ELSE UNCHANGED <<mem, recorded>>
    /\ UNCHANGED <<config, queueFile, claims, flights, flushes, turn, outside, again, gone>>

(* setEnabled(), by `codegraph telemetry on|off', which records nothing,   *)
(* or by an installer that has found no choice, before it flushes.         *)
SetEnabled(p, choice) ==
    /\ doing[p] = "idle" /\ p \notin Server /\ flushes[p] = 0
    /\ cache[p] = "none" \/ (cache[p] = "unread" /\ mem[p] = <<>>)
    /\ config' = choice /\ cache' = [cache EXCEPT ![p] = choice]
    /\ IF choice = "off"
       THEN queue' = <<>> /\ quiet' = FALSE /\ gone' = gone \cup Range(queue)
       ELSE UNCHANGED <<queueFile, gone>>
    /\ UNCHANGED <<claims, memory, turn, outside, recorded, again>>
-----------------------------------------------------------------------------
(* filter(), for the lines in S.  In place of SelectSeq, whose definition  *)
(* is recursive: the k-th line selected is the one at the place with k - 1 *)
(* selected places before it.                                              *)
Selected(lines, S) ==
    LET places == {i \in DOMAIN lines : lines[i] \in S} IN
    [k \in 1..Cardinality(places) |->
        lines[CHOOSE i \in places : Cardinality({j \in places : j < i}) = k - 1]]

(* persistSync(), which looks at the choice again, and appendLines().      *)

CountsFirst(lines) == Selected(lines, Line \ Event) \o Selected(lines, Event)

AppendThen(p, lines, next) ==
    /\ IF lines = <<>> THEN GoOn(p, next) /\ UNCHANGED <<buf, after>>
       ELSE /\ GoOn(p, "append")
            /\ buf' = [buf EXCEPT ![p] = lines] /\ after' = [after EXCEPT ![p] = next]
    /\ UNCHANGED <<base, victim>>

PersistThen(p, next) ==
    /\ mem' = [mem EXCEPT ![p] = <<>>]
    /\ IF isEnabled(p)
       THEN AppendThen(p, CountsFirst(mem[p]), next) /\ UNCHANGED gone
       ELSE AppendThen(p, <<>>, next) /\ gone' = gone \cup Range(mem[p])

AppendRead(p) ==
    /\ doing[p] = "append"
    /\ base' = [base EXCEPT ![p] = queue]
    /\ GoOn(p, "write")
    /\ UNCHANGED <<consent, queueFile, claims, memory, after, buf, victim, outside, accounts>>

Capped(lines) == SubSeq(lines, IF Len(lines) > Cap THEN Len(lines) - Cap + 1 ELSE 1, Len(lines))

(* What the queue got since it was read is lost, what was taken from it    *)
(* comes back, and what exceeds the cap goes.                              *)
AppendWrite(p) ==
    /\ doing[p] = "write"
    /\ queue' = Capped(base[p] \o buf[p]) /\ quiet' = FALSE
    /\ again' = again \cup (Range(base[p]) \ Range(queue))
    /\ gone' = gone \cup ((Range(base[p] \o buf[p]) \cup Range(queue)) \ Range(queue'))
    /\ GoOn(p, after[p]) /\ after' = [after EXCEPT ![p] = "end"]
    /\ buf' = [buf EXCEPT ![p] = <<>>] /\ base' = [base EXCEPT ![p] = <<>>]
    /\ UNCHANGED <<consent, claims, memory, victim, outside, recorded>>
-----------------------------------------------------------------------------
(* flushNow(): persistSync, recoverStaleClaims, claimQueue, send, and what *)
(* was not sent goes back.                                                 *)

MayFlush(p) == IF p \in Server THEN flights[p] = <<>> ELSE flushes[p] < 2

Flush(p) ==
    /\ doing[p] = "idle" /\ MayFlush(p) /\ isEnabled(p)
    /\ ReadsChoice(p)
    /\ flushes' = IF p \in Server THEN flushes ELSE [flushes EXCEPT ![p] = @ + 1]
    /\ PersistThen(p, "recover")
    /\ UNCHANGED <<config, queueFile, claims, flights, outside, recorded, again>>

Stale(q) == claim[q] # <<>> /\ stale[q]

(* A claim has the mtime of the queue it was: it is stale from the start   *)
(* when nobody wrote the queue for an hour.                                *)
StaleRead(p, q) ==
    /\ doing[p] = "recover" /\ Stale(q)
    /\ GoOn(p, "unlink")
    /\ buf' = [buf EXCEPT ![p] = claim[q]] /\ victim' = [victim EXCEPT ![p] = q]
    /\ again' = IF doing[q] # "down" \/ \E o \in Process : doing[o] = "unlink" /\ victim[o] = q
                THEN again \cup Range(claim[q]) ELSE again
    /\ UNCHANGED <<consent, queueFile, claims, memory, after, base, outside, recorded, gone>>

StaleUnlink(p) ==
    LET q == victim[p] IN
    /\ doing[p] = "unlink"
    /\ claim' = [claim EXCEPT ![q] = <<>>] /\ stale' = [stale EXCEPT ![q] = FALSE]
    /\ gone' = gone \cup (Range(claim[q]) \ Range(buf[p]))
    /\ GoOn(p, "putBack")
    /\ UNCHANGED <<consent, queueFile, memory, after, buf, base, victim, outside, recorded, again>>

StalePutBack(p) ==
    /\ doing[p] = "putBack"
    /\ queue' = queue \o buf[p] /\ quiet' = FALSE
    /\ buf' = [buf EXCEPT ![p] = <<>>] /\ victim' = [victim EXCEPT ![p] = p]
    /\ GoOn(p, "recover")
    /\ UNCHANGED <<consent, claims, memory, after, base, outside, accounts>>

(* Mutant: the queue is copied instead of renamed.                         *)
BugTaken == queue

(* The queue after the rename.                                             *)
Taken == <<>>

(* A second flush of a command renames over the claim of the first.        *)
ClaimQueue(p) ==
    /\ doing[p] = "recover" /\ \A q \in Process : Stale(q) => doing[q] # "down"
    /\ IF queue = <<>> THEN GoOn(p, "idle") /\ UNCHANGED <<queueFile, claims, gone>>
       ELSE /\ GoOn(p, "read")
            /\ claim' = [claim EXCEPT ![p] = queue] /\ stale' = [stale EXCEPT ![p] = quiet]
            /\ queue' = Taken /\ quiet' = FALSE
            /\ gone' = IF flights[p] = <<>> THEN gone ELSE gone \cup Range(queue) \cup Range(claim[p])
    /\ UNCHANGED <<consent, memory, after, buf, base, victim, outside, recorded, again>>

(* Mutant: the notice stores "on" for every process that sends.            *)
BugFirstRunNotice(p) == config' = "on" /\ cache' = [cache EXCEPT ![p] = "on"]

(* The notice goes out before the first bytes do, once: any stored choice  *)
(* stands for a notice shown.                                              *)
firstRunNotice(p) ==
    IF cache[p] = "none" THEN config' = "on" /\ cache' = [cache EXCEPT ![p] = "on"]
    ELSE UNCHANGED consent

(* Mutant: what is not due yet is not put back.                            *)
BugKept(lines) == <<>>

Kept(lines) == Selected(lines, Line \ Sendable)

ReadClaim(p) ==
    LET send == Selected(claim[p], Sendable)
        keep == Kept(claim[p]) IN
    /\ doing[p] = "read"
    /\ \/ /\ send = <<>>
          /\ AppendThen(p, keep, "release")
          /\ UNCHANGED <<consent, flights>>
       \/ /\ send # <<>>
          /\ firstRunNotice(p)
          /\ flights' = [flights EXCEPT ![p] = Append(@, [send |-> send, keep |-> keep])]
          /\ GoOn(p, "idle") /\ UNCHANGED <<after, buf, base, victim>>
    /\ UNCHANGED <<queueFile, claims, mem, flushes, outside, accounts>>

First(flight) == SubSeq(flight.send, 1, IF Chunk < Len(flight.send) THEN Chunk ELSE Len(flight.send))
Rest(flight) == SubSeq(flight.send, Len(First(flight)) + 1, Len(flight.send))

FlightEnds(p, i, back) ==
    /\ flights' = [flights EXCEPT ![p] = RemoveAt(@, i)]
    /\ AppendThen(p, back, "release")

(* Any answer is final.                                                    *)
FetchAnswered(p) ==
    /\ doing[p] = "idle"
    /\ \E i \in DOMAIN flights[p] :
        LET flight == flights[p][i] IN
        /\ Received(Range(First(flight)))
        /\ IF Rest(flight) = <<>> THEN FlightEnds(p, i, flight.keep)
           ELSE flights' = [flights EXCEPT ![p][i].send = Rest(flight)] /\ UNCHANGED turn
    /\ UNCHANGED <<consent, queueFile, claims, mem, flushes, past, faults, quiets, accounts>>

(* No answer in time: this request and the rest go back, although it may   *)
(* have arrived.                                                           *)
FetchFails(p) ==
    /\ doing[p] = "idle" /\ faults < MaxFaults
    /\ faults' = faults + 1
    /\ \E i \in DOMAIN flights[p] : \E arrived \in {{}, Range(First(flights[p][i]))} :
        /\ Received(arrived) /\ again' = again \cup arrived
        /\ FlightEnds(p, i, flights[p][i].send \o flights[p][i].keep)
    /\ UNCHANGED <<consent, queueFile, claims, mem, flushes, past, quiets, recorded, gone>>

ReleaseClaim(p) ==
    /\ doing[p] = "release"
    /\ claim' = [claim EXCEPT ![p] = <<>>] /\ stale' = [stale EXCEPT ![p] = FALSE]
    /\ GoOn(p, "idle")
    /\ UNCHANGED <<consent, queueFile, memory, after, buf, base, victim, outside, accounts>>
-----------------------------------------------------------------------------
(* What was sent of a claim that is left behind will be sent again, as     *)
(* will be what was put back already.                                      *)
Abandons(p) ==
    /\ \E arrived \in SUBSET UNION {Range(First(flights[p][i])) : i \in DOMAIN flights[p]} : Received(arrived)
    /\ again' = again \cup {l \in Range(claim[p]) : sent'[l] > 0 \/ doing[p] = "release"}
    /\ flights' = [flights EXCEPT ![p] = <<>>]

(* The end of the process: its requests are dropped, the 'exit' listener   *)
(* persists.                                                               *)
Exit(p) ==
    /\ doing[p] = "idle"
    /\ Abandons(p)
    /\ ReadsChoice(p)
    /\ PersistThen(p, "end")
    /\ UNCHANGED <<config, queueFile, claims, flushes, past, faults, quiets, recorded>>

(* The process is gone, and its memory with it.                            *)
End(p) ==
    /\ doing[p] = "end"
    /\ GoOn(p, "down") /\ cache' = [cache EXCEPT ![p] = "unread"]
    /\ flushes' = [flushes EXCEPT ![p] = 0]
    /\ UNCHANGED <<config, queueFile, claims, mem, flights, after, buf, base, victim, outside, accounts>>

Die(p) ==
    /\ doing[p] # "down" /\ faults < MaxFaults
    /\ faults' = faults + 1
    /\ Abandons(p)
    /\ mem' = [mem EXCEPT ![p] = <<>>]
    /\ gone' = gone \cup Range(mem[p]) \cup Range(buf[p])
    /\ GoOn(p, "down") /\ cache' = [cache EXCEPT ![p] = "unread"]
    /\ flushes' = [flushes EXCEPT ![p] = 0]
    /\ buf' = [buf EXCEPT ![p] = <<>>] /\ base' = [base EXCEPT ![p] = <<>>]
    /\ after' = [after EXCEPT ![p] = "end"]
    /\ victim' = [victim EXCEPT ![p] = p]
    /\ UNCHANGED <<config, queueFile, claims, past, quiets, recorded>>

NextDay ==
    /\ past # recorded
    /\ past' = recorded
    /\ UNCHANGED <<consent, queueFile, claims, memory, turn, sent, faults, quiets, accounts>>

(* An hour goes by: nobody is at work on the claim for that long.          *)
ClaimAges(q) ==
    /\ claim[q] # <<>> /\ ~stale[q] /\ doing[q] = "down"
    /\ stale' = [stale EXCEPT ![q] = TRUE]
    /\ UNCHANGED <<consent, queueFile, claim, memory, turn, outside, accounts>>

QueueAges ==
    /\ queue # <<>> /\ ~quiet /\ quiets < MaxQuiet
    /\ quiets' = quiets + 1 /\ quiet' = TRUE
    /\ UNCHANGED <<consent, queue, claims, memory, turn, past, sent, faults, accounts>>

(* The rest of a turn.                                                     *)
Work(p) ==
    \/ AppendRead(p) \/ AppendWrite(p) \/ StaleUnlink(p) \/ StalePutBack(p)
    \/ (\E q \in Process : StaleRead(p, q))
    \/ ClaimQueue(p) \/ ReadClaim(p) \/ ReleaseClaim(p) \/ End(p)

TelemetryNext ==
    \/ \E p \in Process :
          \/ \E l \in Line : Record(p, l)
          \/ \E choice \in {"on", "off"} : SetEnabled(p, choice)
          \/ Flush(p) \/ FetchAnswered(p) \/ FetchFails(p) \/ Work(p)
          \/ Exit(p) \/ Die(p) \/ ClaimAges(p)
    \/ NextDay \/ QueueAges

TelemetrySpec == TelemetryInit /\ [][TelemetryNext]_telemetryVars
-----------------------------------------------------------------------------
(* "Off is off": a process that knows of the choice writes no line and has *)
(* no request open, and a stored "off" is undone only by an explicit "on", *)
(* or by the notice of a process that looked before any choice was stored. *)
OffIsOff ==
    /\ [](\A p \in Process : cache[p] = "off" => doing[p] \in {"idle", "end"} /\ flights[p] = <<>>)
    /\ [][config = "off" /\ config' # "off" =>
             \E p \in Process : \/ SetEnabled(p, "on")
                                \/ cache[p] = "none" /\ cache'[p] = "on"]_telemetryVars

(* A line that was recorded is received, or in memory, in the queue or in  *)
(* a claim, whatever ends or crashes, except what the code lets go: when   *)
(* turned off or over the cap, with a crashed process's memory, by an      *)
(* append that overwrites another one, by two flushes of one command or a  *)
(* recovery that removes another claim than it read.                       *)
NothingForgotten ==
    \A l \in recorded \ gone :
        \/ sent[l] > 0 \/ l \in Range(queue)
        \/ \E p \in Process : \/ l \in Range(claim[p]) \cup Range(mem[p]) \cup Range(buf[p])
                              \/ \E i \in DOMAIN flights[p] : l \in Range(flights[p][i].send \o flights[p][i].keep)

(* "Concurrent processes can't double-send": except when an answer came    *)
(* too late, a sender ended before it removed its claim, an append brought *)
(* lines back that were claimed meanwhile, or a claim was stale when taken.*)
SentOnce == \A l \in Line \ again : sent[l] <= 1
=============================================================================
