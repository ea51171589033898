------------------------------ MODULE IndexAll ------------------------------
(***************************************************************************)
(* The parsing of indexAll() (codegraph/src/extraction/index.ts): files    *)
(* are parsed one after the other by a worker thread (parse-worker.ts)     *)
(* that may crash, run out of memory or hang on a file.  A request has a   *)
(* timer; a worker that is slow, or old, is terminated without waiting for *)
(* its exit, which is delivered later.  Files that failed with the worker  *)
(* are tried again on a fresh one, and once more without their comments.   *)
(*                                                                         *)
(* What is in the store is the file whose symbols are there; how they get  *)
(* there is IndexStore's subject.                                          *)
(***************************************************************************)
EXTENDS Integers, Sequences, FiniteSets

CONSTANTS File,
          NoFile,
          Outcomes,         \* what an attempt to parse each file may come to
          RecycleInterval   \* WORKER_RECYCLE_INTERVAL

(* The worker answers: nodes and no errors, neither, both ("swallowed" if  *)
(* an embedded extractor caught a memory error), or errors only.           *)
Answers == {"nodes", "empty", "partial", "swallowed", "failed"}
(* The worker calls process.exit(1), hits its memory limit, or runs on.    *)
Deaths == {"crash", "oom"}
(* The file is not given to the worker.                                    *)
Unparsed == {"unreadable", "large"}

ASSUME IndexAllAssumption ==
    /\ NoFile \notin File /\ IsFiniteSet(File)
    /\ RecycleInterval \in Nat \ {0}
    /\ Outcomes \in [File -> SUBSET (Answers \cup Deaths \cup Unparsed \cup {"hang"})]

VARIABLES pass,      \* "first", "retry", "strip" (the loops), or how the call ended:
                     \* "done", "aborted" or "failed" (it threw)
          step,      \* "next" file, "loading" the grammars, "waiting" for a parse
          todo, cur, again,          \* files left in the pass, at hand, in stillFailing
          parseWorker,               \* the worker: "none", "loading", "ready", "crashed" or
                                     \* "oom" (dead, its exit not delivered yet)
          workerParseCount, queue,   \* its parses, and the requests in its queue
          ending,                    \* terminated workers whose exit is still to come
          mail,                      \* results that were posted and not delivered
          nextId, pendingParses,     \* the variables of the same names
          stored, errors, count,     \* the store, the errors, the counters of the result
          aborted,                   \* signal.aborted
          unlucky, miscounted        \* history: files posted behind another one, or cut off
                                     \* in the last pass; a file counted as indexed twice

control == <<pass, step, todo, cur>>
pool == <<parseWorker, workerParseCount, queue, ending>>
requests == <<mail, nextId, pendingParses>>
books == <<again, stored, errors, count, miscounted>>
vars == <<control, pool, requests, books, aborted, unlucky>>

Job == [id : Nat, file : File]
Counters == {"indexed", "skipped", "errored"}
Rejections == {"exited", "error", "timeout"}
Finished == pass \in {"done", "aborted", "failed"}

Init ==
    /\ pass = "first" /\ step = "loading" /\ todo = File /\ cur = NoFile /\ again = {}
    /\ parseWorker = "loading" /\ workerParseCount = 0 /\ queue = <<>> /\ ending = 0
    /\ mail = {} /\ nextId = 0 /\ pendingParses = {}
    /\ stored = [f \in File |-> NoFile] /\ errors = {}
    /\ count = [c \in Counters |-> 0]
    /\ aborted = FALSE /\ unlucky = {} /\ miscounted = FALSE
-----------------------------------------------------------------------------
(* What becomes of a file.                                                 *)

(* Mutant: a result is stored whatever its errors.                         *)
BugStorable == Answers

Storable == Answers \ {"failed"}

(* Where a file counts.  "empty" stands for all results without symbols and *)
(* errors, warnings or not; left out is that such a file counts as indexed *)
(* where its language is tracked by file only (yaml, properties): a file   *)
(* counts once either way.                                                 *)
Counter(result) ==
    CASE result \in {"nodes", "partial", "swallowed"} -> "indexed"
      [] result \in {"empty", "large"} -> "skipped"
      [] OTHER -> "errored"

(* The first loop: the symbols of g arrived for f, or none did.            *)
Record(f, g, result) ==
    /\ stored' = IF result \in Storable THEN [stored EXCEPT ![f] = g] ELSE stored
    /\ errors' = IF result \in {"nodes", "empty"} THEN errors ELSE errors \cup {<<f, result>>}
    /\ count' = [count EXCEPT ![Counter(result)] = @ + 1]
    /\ UNCHANGED <<pass, again, miscounted>>

(* The retry loops: only a rejected request is tried a third time, and the *)
(* stat() before the store may throw out of indexAll().                    *)
RecordRetry(f, g, result) ==
    \/ /\ result \in Storable
       /\ stored' = [stored EXCEPT ![f] = g]
       /\ errors' = {e \in errors : e[1] # f}
       /\ count' = [count EXCEPT !["errored"] = @ - 1, !["indexed"] = @ + 1]
       /\ miscounted' = (miscounted \/ stored[f] # NoFile)
       /\ UNCHANGED <<pass, again>>
    \/ /\ result \in Storable
       /\ pass' = "failed"
       /\ UNCHANGED books
    \/ /\ result \notin Storable
       /\ again' = IF pass = "retry" /\ result \in Rejections THEN again \cup {f} ELSE again
       /\ UNCHANGED <<pass, stored, errors, count, miscounted>>

(* The request for the file at hand settles.                               *)
Settle(g, result) ==
    /\ step' = "next"
    /\ \/ pass = "first" /\ Record(cur, g, result)
       \/ pass # "first" /\ RecordRetry(cur, g, result)
    /\ UNCHANGED <<todo, cur>>

(* Mutant: nobody hears of the exit.                                       *)
BugReject(reason) == UNCHANGED <<pendingParses, control, books>>

rejectAllPending(reason) ==
    /\ pendingParses' = {}
    /\ \/ pendingParses # {} /\ Settle(NoFile, reason)
       \/ pendingParses = {} /\ UNCHANGED <<control, books>>
-----------------------------------------------------------------------------
(* The loops and requestParse().                                           *)

(* terminate(), not awaited: what the worker is at may still be posted.    *)
Terminate ==
    /\ ending' = IF parseWorker = "none" THEN ending ELSE ending + 1
    /\ workerParseCount' = 0 /\ queue' = <<>>
    /\ \/ UNCHANGED mail
       \/ /\ parseWorker = "ready" /\ queue # <<>>
          /\ \E r \in Answers \cap Outcomes[Head(queue).file] :
                mail' = mail \cup {[job |-> Head(queue), result |-> r]}

MayTake(f) == step = "next" /\ pass \in {"first", "retry", "strip"} /\ ~aborted /\ f \in todo

(* Mutant: requests are numbered per worker.                               *)
BugId == workerParseCount

RequestId == nextId

Post(f) ==
    /\ queue' = Append(queue, [id |-> RequestId, file |-> f])
    /\ pendingParses' = pendingParses \cup {RequestId}
    /\ nextId' = nextId + 1
    /\ workerParseCount' = workerParseCount + 1
    /\ step' = "waiting"

(* Not read, or too large to parse; retries recycle before they read.      *)
SkipFile(f) ==
    /\ MayTake(f) /\ todo' = todo \ {f}
    /\ \/ /\ pass = "first"
          /\ \E r \in Unparsed \cap Outcomes[f] : Record(f, NoFile, r)
          /\ UNCHANGED <<pool, mail>>
       \/ /\ pass # "first" /\ "unreadable" \in Outcomes[f]
          /\ parseWorker' = "none" /\ Terminate
          /\ UNCHANGED <<pass, books>>
    /\ UNCHANGED <<step, cur, nextId, pendingParses, aborted, unlucky>>

(* The worker at hand gets the next file ...                               *)
Reuse == pass = "first" /\ parseWorker # "none" /\ workerParseCount < RecycleInterval

RequestHere(f) ==
    /\ MayTake(f) /\ Reuse
    /\ todo' = todo \ {f} /\ cur' = f
    /\ Post(f)
    /\ unlucky' = IF queue = <<>> THEN unlucky ELSE unlucky \cup {f}
    /\ UNCHANGED <<pass, parseWorker, ending, mail, books, aborted>>

(* ... or is recycled, and ensureWorker() starts another one.              *)
RequestFresh(f) ==
    /\ MayTake(f) /\ ~Reuse
    /\ todo' = todo \ {f} /\ cur' = f
    /\ Terminate
    /\ parseWorker' = "loading" /\ step' = "loading"
    /\ UNCHANGED <<pass, nextId, pendingParses, books, aborted, unlucky>>

Loaded ==
    /\ step = "loading" /\ parseWorker = "loading"
    /\ parseWorker' = "ready"
    /\ \/ cur # NoFile /\ Post(cur)
       \/ cur = NoFile /\ step' = "next" /\ UNCHANGED <<queue, workerParseCount, nextId, pendingParses>>
    /\ UNCHANGED <<pass, todo, cur, ending, mail, books, aborted, unlucky>>

(* Mutant: requests that a worker's exit rejected are not tried again.     *)
BugRetryable == {"swallowed"}

(* The messages that the retry pass looks for.                             *)
Retryable == {"exited", "swallowed"}

EndPass ==
    /\ step = "next"
    /\ todo = {} \/ (aborted /\ pass # "first")
    /\ \/ /\ pass = "first" /\ pass' = "retry"
          /\ todo' = {f \in File : \E r \in Retryable : <<f, r>> \in errors}
          /\ UNCHANGED <<pool, mail>>
       \/ /\ pass = "retry" /\ pass' = "strip"
          /\ todo' = again
          /\ UNCHANGED <<pool, mail>>
       \/ /\ pass = "strip" /\ pass' = "done"
          /\ parseWorker' = "none" /\ Terminate
          /\ UNCHANGED todo
    /\ UNCHANGED <<step, cur, nextId, pendingParses, books, aborted, unlucky>>

Abort ==
    /\ ~aborted /\ ~Finished
    /\ aborted' = TRUE
    /\ UNCHANGED <<control, pool, requests, books, unlucky>>

AbortReturn ==
    /\ step = "next" /\ aborted /\ pass = "first" /\ todo # {}
    /\ pass' = "aborted"
    /\ parseWorker' = "none" /\ Terminate
    /\ UNCHANGED <<step, todo, cur, nextId, pendingParses, books, aborted, unlucky>>
-----------------------------------------------------------------------------
(* The worker, and what it makes the main thread do.                       *)

Parse ==
    /\ parseWorker = "ready" /\ queue # <<>>
    /\ \E r \in Answers \cap Outcomes[Head(queue).file] :
          mail' = mail \cup {[job |-> Head(queue), result |-> r]}
    /\ queue' = Tail(queue)
    /\ UNCHANGED <<control, parseWorker, workerParseCount, ending, nextId, pendingParses, books, aborted, unlucky>>

Die ==
    /\ parseWorker = "ready" /\ queue # <<>>
    /\ \/ "crash" \in Outcomes[Head(queue).file] /\ parseWorker' = "crashed"
       \/ "oom" \in Outcomes[Head(queue).file] /\ parseWorker' = "oom"
    /\ UNCHANGED <<control, workerParseCount, queue, ending, requests, books, aborted, unlucky>>

(* ensureWorker() waits for one message, not for an exit.                  *)
DieLoading ==
    /\ parseWorker = "loading"
    /\ parseWorker' = "none"
    /\ UNCHANGED <<control, workerParseCount, queue, ending, requests, books, aborted, unlucky>>

Deliver(m) ==
    /\ m \in mail /\ mail' = mail \ {m}
    /\ pendingParses' = pendingParses \ {m.job.id}
    /\ \/ m.job.id \in pendingParses /\ Settle(m.job.file, m.result)
       \/ m.job.id \notin pendingParses /\ UNCHANGED <<control, books>>
    /\ UNCHANGED <<pool, nextId, aborted, unlucky>>

(* The exit of the worker at hand; at the memory limit an error precedes   *)
(* it in the same turn.                                                    *)
WorkerExits ==
    /\ parseWorker \in {"crashed", "oom"}
    /\ rejectAllPending(IF parseWorker = "oom" THEN "error" ELSE "exited")
    /\ parseWorker' = "none" /\ workerParseCount' = 0 /\ queue' = <<>>
    /\ UNCHANGED <<ending, mail, nextId, aborted, unlucky>>

(* The exit of a terminated worker rejects what its successor is at.       *)
TerminatedExits ==
    /\ ending > 0 /\ ending' = ending - 1
    /\ rejectAllPending("exited")
    /\ unlucky' = IF pass = "strip" /\ step = "waiting" THEN unlucky \cup {cur} ELSE unlucky
    /\ UNCHANGED <<parseWorker, workerParseCount, queue, mail, nextId, aborted>>

Slow(f) == "hang" \in Outcomes[f]

Expired == {}

(* The timer of a request that is slow itself, or waits behind one.        *)
Timeout ==
    /\ step = "waiting"
    /\ Slow(cur) \/ \E i \in 1..Len(queue) : Slow(queue[i].file)
    /\ pendingParses' = Expired
    /\ Settle(NoFile, "timeout")
    /\ parseWorker' = "none" /\ Terminate
    /\ UNCHANGED <<nextId, aborted, unlucky>>
-----------------------------------------------------------------------------
Loop(f) == SkipFile(f) \/ RequestHere(f) \/ RequestFresh(f)
Main == (\E f \in File : Loop(f)) \/ Loaded \/ EndPass \/ AbortReturn
Work == Parse \/ Die
Delivery == \E m \in mail : Deliver(m)

Next == Main \/ Abort \/ Work \/ DieLoading \/ Delivery \/ WorkerExits \/ TerminatedExits \/ Timeout

Spec == Init /\ [][Next]_vars

(* The event loop runs, a worker that has work ends it, dies or is slow    *)
(* until the timer fires, and an exit of the worker at hand is delivered;  *)
(* terminate() may hang (the comment of recycleWorker), so that the exits  *)
(* of terminated workers may never come.                                   *)
Fairness ==
    WF_vars(Main) /\ WF_vars(Work) /\ WF_vars(Delivery) /\ WF_vars(WorkerExits) /\ WF_vars(Timeout)

FairSpec == Spec /\ Fairness
-----------------------------------------------------------------------------
Result == Answers \cup Unparsed \cup Rejections

TypeOK ==
    /\ pass \in {"first", "retry", "strip", "done", "aborted", "failed"}
    /\ step \in {"next", "loading", "waiting"}
    /\ todo \subseteq File /\ cur \in File \cup {NoFile} /\ again \subseteq File
    /\ parseWorker \in {"none", "loading", "ready", "crashed", "oom"}
    /\ workerParseCount \in 0..RecycleInterval
    /\ queue \in Seq(Job) /\ ending \in Nat
    /\ mail \subseteq [job : Job, result : Answers]
    /\ nextId \in Nat /\ pendingParses \subseteq Nat
    /\ stored \in [File -> File \cup {NoFile}] /\ errors \subseteq File \X Result
    /\ count \in [Counters -> Int]
    /\ aborted \in BOOLEAN /\ unlucky \subseteq File /\ miscounted \in BOOLEAN

(* Symbols are stored under the file they were extracted from: an answer   *)
(* of a worker that was given up, or that was given the next file while it *)
(* was still at the one before, is never taken for another file's.         *)
NoMixUp == \A f \in File : stored[f] \in {f, NoFile}

(* While the loop waits, exactly its own request is pending, and nothing   *)
(* is when it does not: each await is settled once, by the result, the     *)
(* timer or an exit, and never by what was meant for an earlier request.   *)
OneInFlight ==
    pendingParses = IF step = "waiting" THEN {nextId - 1} ELSE {}

Filed == {e[1] : e \in errors}

(* An indexAll() that runs to its end has stored each file or says why     *)
(* not, and its counters add up: as many files failed as are reported and  *)
(* not in the store (unless one whose extractor swallowed a memory error   *)
(* was counted twice).                                                     *)
AccountedFor ==
    pass = "done" =>
        /\ \A f \in File : stored[f] # NoFile \/ f \in Filed
        /\ count["indexed"] + count["skipped"] + count["errored"] = Cardinality(File)
        /\ miscounted \/ count["errored"] =
             Cardinality({f \in File : stored[f] = NoFile /\ <<f, "large">> \notin errors})

Healthy == {f \in File : Outcomes[f] \subseteq {"nodes", "empty"}}

(* A file that any worker parses is in the store in the end, whatever      *)
(* becomes of the workers and the files before it: the exit of a           *)
(* terminated worker may reject its request, and it is tried again, unless *)
(* it was queued behind another file or cut off in the third attempt too.  *)
HealthyIsIndexed ==
    pass = "done" /\ ~aborted => \A f \in Healthy : stored[f] = f \/ f \in unlucky

Stuck == step = "loading" /\ parseWorker = "none"

(* What the comment of PARSE_TIMEOUT_MS is about: crashes and hangs do not *)
(* freeze the run, which ends unless a worker dies while it loads the      *)
(* grammars.                                                               *)
RunEnds == <>(Finished \/ Stuck)
=============================================================================
