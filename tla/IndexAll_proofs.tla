-------------------------- MODULE IndexAll_proofs --------------------------
(***************************************************************************)
(* For any files, whatever they do to the workers: the request at hand is  *)
(* the one that is pending, symbols are stored under their own file, and   *)
(* a healthy file is stored, or is one of the two unlucky kinds; and the   *)
(* counters of the result add up.                                          *)
(***************************************************************************)
EXTENDS IndexAll, TLAPS, FiniteSetTheorems

(* Requests in the queue and results in the mail were numbered before; the *)
(* last number is the file's at hand.                                      *)
Known(j) == j.id < nextId /\ (step = "waiting" /\ j.id = nextId - 1 => j.file = cur)

Numbered ==
    /\ \A i \in 1..Len(queue) : Known(queue[i])
    /\ \A m \in mail : Known(m.job)

(* The worker and the step of the main thread fit.                         *)
Fits ==
    /\ step = "waiting" => cur \in File /\ nextId > 0 /\ parseWorker # "none"
    /\ step # "next" => pass \in {"first", "retry", "strip"}
    /\ parseWorker = "loading" => step = "loading" /\ workerParseCount = 0 /\ queue = <<>>

SafetyInv == TypeOK /\ OneInFlight /\ NoMixUp /\ Numbered /\ Fits

(* The three parts of the type invariant.                                  *)
BooksType ==
    /\ pass \in {"first", "retry", "strip", "done", "aborted", "failed"}
    /\ again \subseteq File
    /\ stored \in [File -> File \cup {NoFile}] /\ errors \subseteq File \X Result
    /\ count \in [Counters -> Int] /\ miscounted \in BOOLEAN

PoolType ==
    /\ parseWorker \in {"none", "loading", "ready", "crashed", "oom"}
    /\ workerParseCount \in 0..RecycleInterval
    /\ queue \in Seq(Job) /\ ending \in Nat
    /\ mail \subseteq [job : Job, result : Answers]
    /\ nextId \in Nat /\ pendingParses \subseteq Nat

LoopType ==
    /\ step \in {"next", "loading", "waiting"}
    /\ todo \subseteq File /\ cur \in File \cup {NoFile}
    /\ aborted \in BOOLEAN /\ unlucky \subseteq File

LEMMA TypeParts == TypeOK <=> BooksType /\ PoolType /\ LoopType
BY DEF TypeOK, BooksType, PoolType, LoopType
-----------------------------------------------------------------------------
(* What the bookkeeping of a result leaves true.                           *)
LEMMA RecordFacts ==
    ASSUME BooksType, NoMixUp, NEW f \in File, NEW g, NEW result \in Result,
           result \in Storable => g = f, Record(f, g, result)
    PROVE  BooksType' /\ NoMixUp'
<1>1. stored' \in [File -> File \cup {NoFile}] /\ NoMixUp'
  BY DEF Record, BooksType, NoMixUp
<1>2. errors' \subseteq File \X Result
  BY DEF Record, BooksType
<1>3. Counter(result) \in Counters
  BY DEF Counter, Counters
<1>4. count' \in [Counters -> Int]
  BY <1>3 DEF Record, BooksType
<1>5. QED  BY <1>1, <1>2, <1>4 DEF Record, BooksType

LEMMA RecordRetryFacts ==
    ASSUME BooksType, NoMixUp, NEW f \in File, NEW g, NEW result \in Result,
           result \in Storable => g = f, RecordRetry(f, g, result)
    PROVE  BooksType' /\ NoMixUp'
<1>1. CASE result \in Storable /\ pass' = pass /\ stored' = [stored EXCEPT ![f] = g]
           /\ errors' = {e \in errors : e[1] # f} /\ again' = again
           /\ count' = [count EXCEPT !["errored"] = @ - 1, !["indexed"] = @ + 1]
           /\ miscounted' = (miscounted \/ stored[f] # NoFile)
  <2>1. stored' \in [File -> File \cup {NoFile}] /\ NoMixUp'
    BY <1>1 DEF BooksType, NoMixUp
  <2>2. errors' \subseteq File \X Result
    BY <1>1 DEF BooksType
  <2>3. count' \in [Counters -> Int]
    BY <1>1 DEF BooksType, Counters
  <2>4. miscounted' \in BOOLEAN
    BY <1>1 DEF BooksType
  <2>5. QED  BY <1>1, <2>1, <2>2, <2>3, <2>4 DEF BooksType
<1>2. CASE pass' = "failed" /\ UNCHANGED books
  BY <1>2 DEF BooksType, NoMixUp, books
<1>3. CASE /\ again' = IF pass = "retry" /\ result \in Rejections THEN again \cup {f} ELSE again
           /\ UNCHANGED <<pass, stored, errors, count, miscounted>>
  BY <1>3 DEF BooksType, NoMixUp
<1>4. QED  BY <1>1, <1>2, <1>3 DEF RecordRetry

LEMMA SettleFacts ==
    ASSUME BooksType, NoMixUp, cur \in File, NEW g, NEW result \in Result,
           result \in Storable => g = cur, Settle(g, result)
    PROVE  BooksType' /\ NoMixUp' /\ step' = "next" /\ UNCHANGED <<todo, cur>>
BY RecordFacts, RecordRetryFacts DEF Settle

(* Terminating leaves no worker, and no result but for known requests.     *)
LEMMA TerminateFacts ==
    ASSUME PoolType, Numbered, Terminate
    PROVE  /\ ending' \in Nat /\ workerParseCount' = 0 /\ queue' = <<>>
           /\ mail' \subseteq [job : Job, result : Answers]
           /\ \A m \in mail' : Known(m.job)
<1>1. ending' \in Nat /\ workerParseCount' = 0 /\ queue' = <<>>
  BY DEF Terminate, PoolType
<1>2. CASE mail' = mail
  BY <1>1, <1>2 DEF PoolType, Numbered
<1>3. CASE /\ queue # <<>>
           /\ \E r \in Answers \cap Outcomes[Head(queue).file] :
                mail' = mail \cup {[job |-> Head(queue), result |-> r]}
  <2>1. PICK r \in Answers : mail' = mail \cup {[job |-> Head(queue), result |-> r]}
    BY <1>3
  <2>2. Len(queue) \in Nat /\ Len(queue) > 0 /\ Head(queue) = queue[1] /\ queue[1] \in Job
    BY <1>3 DEF PoolType
  <2>3. Known(Head(queue))
    BY <2>2 DEF Numbered
  <2>4. [job |-> Head(queue), result |-> r] \in [job : Job, result : Answers]
    BY <2>2
  <2>5. QED  BY <1>1, <2>1, <2>3, <2>4 DEF PoolType, Numbered
<1>4. QED  BY <1>2, <1>3 DEF Terminate
-----------------------------------------------------------------------------
LEMMA InitSafety == Init => SafetyInv
<1> SUFFICES ASSUME Init  PROVE SafetyInv
  OBVIOUS
<1>1. BooksType
  <2>1. stored \in [File -> File \cup {NoFile}] /\ count \in [Counters -> Int]
    BY DEF Init
  <2>2. errors \subseteq File \X Result /\ again \subseteq File /\ miscounted \in BOOLEAN
    BY DEF Init
  <2>3. QED  BY <2>1, <2>2 DEF Init, BooksType
<1>2. PoolType
  BY IndexAllAssumption DEF Init, PoolType
<1>3. LoopType
  BY DEF Init, LoopType
<1>4. OneInFlight /\ NoMixUp /\ Fits
  BY DEF Init, OneInFlight, NoMixUp, Fits
<1>5. Numbered
  BY DEF Init, Numbered
<1>6. QED  BY <1>1, <1>2, <1>3, <1>4, <1>5, TypeParts DEF SafetyInv
-----------------------------------------------------------------------------
(* The invariant after a step, from its parts.                             *)
LEMMA Assemble ==
    ASSUME BooksType', PoolType', LoopType', OneInFlight', NoMixUp', Numbered', Fits'
    PROVE  SafetyInv'
BY TypeParts, PTL DEF SafetyInv

LEMMA Parts ==
    ASSUME SafetyInv
    PROVE  BooksType /\ PoolType /\ LoopType /\ OneInFlight /\ NoMixUp /\ Numbered /\ Fits
BY TypeParts DEF SafetyInv

(* A request for f, on a worker that may take it.                          *)
LEMMA PostFacts ==
    ASSUME SafetyInv, NEW f \in File, Post(f), step # "waiting",
           workerParseCount < RecycleInterval, mail' = mail, cur' = f
    PROVE  /\ queue' \in Seq(Job) /\ workerParseCount' \in 0..RecycleInterval
           /\ nextId' \in Nat /\ pendingParses' \subseteq Nat
           /\ step' = "waiting" /\ nextId' > 0
           /\ OneInFlight' /\ Numbered'
<1>1. BooksType /\ PoolType /\ LoopType /\ OneInFlight /\ Numbered
  BY Parts
<1>3. nextId \in Nat /\ queue \in Seq(Job) /\ RecycleInterval \in Nat
  BY <1>1, IndexAllAssumption DEF PoolType
<1>4. PICK j \in Job : j = [id |-> nextId, file |-> f]
  BY <1>3 DEF Job
<1>2. /\ queue' = Append(queue, j) /\ pendingParses' = pendingParses \cup {nextId}
      /\ nextId' = nextId + 1 /\ workerParseCount' = workerParseCount + 1 /\ step' = "waiting"
      /\ j.id = nextId /\ j.file = f
  BY <1>4 DEF Post, RequestId
<1>5. /\ Len(queue') = Len(queue) + 1 /\ Len(queue) \in Nat /\ queue'[Len(queue) + 1] = j
      /\ \A i \in 1..Len(queue) : queue'[i] = queue[i] /\ queue[i] \in Job
  BY <1>2, <1>3
<1>6. ASSUME NEW k \in Job, Known(k)  PROVE Known(k)'
  BY <1>2, <1>3, <1>6 DEF Known, Job
<1>7. Known(j)'
  BY <1>2, <1>3 DEF Known
<1>8. Numbered'
  <2>1. ASSUME NEW i \in 1..Len(queue')  PROVE Known(queue[i])' 
    <3>1. CASE i = Len(queue) + 1
      BY <1>5, <1>7, <3>1 DEF Known
    <3>2. CASE i \in 1..Len(queue)
      BY <1>1, <1>5, <1>6, <3>2 DEF Known, Numbered
    <3>3. QED  BY <1>5, <2>1, <3>1, <3>2
  <2>2. ASSUME NEW m \in mail'  PROVE Known(m.job)'
    BY <1>1, <1>6, <2>2 DEF Numbered, PoolType
  <2>3. QED  BY <2>1, <2>2 DEF Numbered
<1>9. OneInFlight'
  BY <1>1, <1>2, <1>3 DEF OneInFlight
<1>10. QED
  BY <1>1, <1>2, <1>3, <1>5, <1>8, <1>9 DEF PoolType
-----------------------------------------------------------------------------
(* Jobs that were known stay known when no request is added and the loop   *)
(* goes on to the next file, or stays where it is.                         *)
LEMMA StillKnown ==
    ASSUME nextId' = nextId, step' # "waiting" \/ (step' = step /\ cur' = cur), NEW j, Known(j)
    PROVE  Known(j)'
BY DEF Known

LEMMA MailFiles ==
    ASSUME PoolType, NEW m \in mail
    PROVE  m.job \in Job /\ m.job.file \in File /\ m.job.id \in Nat /\ m.result \in Answers
BY DEF PoolType, Job

(* The request settles: the loop is at the next file, no request pending.  *)
LEMMA SettledInv ==
    ASSUME SafetyInv, step = "waiting", NEW g, NEW result \in Result,
           result \in Storable => g = cur, Settle(g, result), pendingParses' = {},
           PoolType', UNCHANGED <<nextId, aborted>>, unlucky' \subseteq File,
           \A i \in 1..Len(queue') : Known(queue[i])',
           \A m \in mail' : Known(m.job)', parseWorker' # "loading"
    PROVE  SafetyInv'
<1>1. cur \in File /\ BooksType /\ NoMixUp /\ LoopType
  BY Parts DEF Fits
<1>2. BooksType' /\ NoMixUp' /\ step' = "next" /\ UNCHANGED <<todo, cur>>
  BY <1>1, SettleFacts
<1>3. LoopType'
  BY <1>1, <1>2 DEF LoopType
<1>4. OneInFlight' /\ Fits'
  BY <1>2 DEF OneInFlight, Fits
<1>5. Numbered'
  BY DEF Numbered
<1>6. QED  BY <1>2, <1>3, <1>4, <1>5, Assemble

LEMMA DeliverSafe ==
    ASSUME SafetyInv, NEW m, Deliver(m)
    PROVE  SafetyInv'
<1>1. /\ BooksType /\ PoolType /\ LoopType /\ OneInFlight /\ NoMixUp /\ Numbered /\ Fits
      /\ m \in mail /\ mail' = mail \ {m} /\ pendingParses' = pendingParses \ {m.job.id}
      /\ UNCHANGED <<pool, nextId, aborted, unlucky>>
  BY Parts DEF Deliver
<1>2. m.job \in Job /\ m.job.file \in File /\ m.job.id \in Nat /\ m.result \in Answers
  BY <1>1, MailFiles
<1>3. PoolType'
  BY <1>1 DEF PoolType, pool
<1>4. CASE m.job.id \in pendingParses
  <2>1. step = "waiting" /\ m.job.id = nextId - 1 /\ m.job.file = cur /\ pendingParses' = {}
    BY <1>1, <1>2, <1>4 DEF OneInFlight, Numbered, Known
  <2>2. Settle(m.job.file, m.result) /\ m.result \in Result
    BY <1>2, <1>4 DEF Deliver, Result
  <2>3. step' # "waiting"
    BY <2>2 DEF Settle
  <2>4. /\ \A i \in 1..Len(queue') : Known(queue[i])'
        /\ \A n \in mail' : Known(n.job)'
    BY <1>1, <2>3 DEF Known, Numbered, pool
  <2>5. parseWorker' # "loading" /\ unlucky' \subseteq File
    BY <1>1, <2>1 DEF Fits, pool, LoopType
  <2>6. QED  BY <1>1, <1>3, <2>1, <2>2, <2>4, <2>5, SettledInv
<1>5. CASE m.job.id \notin pendingParses
  <2>1. UNCHANGED <<control, books>> /\ pendingParses' = pendingParses
    BY <1>1, <1>5 DEF Deliver
  <2>2. BooksType' /\ NoMixUp' /\ LoopType'
    BY <1>1, <2>1 DEF BooksType, NoMixUp, LoopType, control, books
  <2>3. OneInFlight' /\ Fits'
    BY <1>1, <2>1 DEF OneInFlight, Fits, control, pool
  <2>4. Numbered'
    BY <1>1, <2>1 DEF Numbered, Known, control, pool
  <2>5. QED  BY <1>3, <2>2, <2>3, <2>4, Assemble
<1>6. QED  BY <1>4, <1>5

(* Exits: what is pending is rejected.                                     *)
LEMMA RejectSafe ==
    ASSUME SafetyInv, NEW reason \in Rejections, rejectAllPending(reason),
           PoolType', UNCHANGED <<mail, nextId, aborted>>, unlucky' \subseteq File,
           (parseWorker' = "none" /\ queue' = <<>>) \/ UNCHANGED <<parseWorker, workerParseCount, queue>>,
           parseWorker' # "none" \/ step # "waiting" \/ pendingParses # {}
    PROVE  SafetyInv'
<1>1. BooksType /\ PoolType /\ LoopType /\ OneInFlight /\ NoMixUp /\ Numbered /\ Fits
  BY Parts
<1>2. reason \in Result /\ reason \notin Storable /\ pendingParses' = {}
  BY DEF Result, Rejections, Storable, Answers, rejectAllPending
<1>3. CASE pendingParses # {}
  <2>1. step = "waiting" /\ Settle(NoFile, reason)
    BY <1>1, <1>3 DEF OneInFlight, rejectAllPending
  <2>2. step' # "waiting"
    BY <2>1 DEF Settle
  <2>3. queue' = <<>> \/ queue' = queue
    OBVIOUS
  <2>4. \A i \in 1..Len(queue') : Known(queue[i])'
    BY <1>1, <2>2, <2>3 DEF Numbered, Known
  <2>5. \A m \in mail' : Known(m.job)'
    BY <1>1, <2>2 DEF Numbered, Known
  <2>6. parseWorker' # "loading"
    BY <1>1, <2>1 DEF Fits
  <2>7. QED  BY <1>2, <2>1, <2>4, <2>5, <2>6, SettledInv
<1>4. CASE pendingParses = {}
  <2>1. UNCHANGED <<control, books>> /\ step # "waiting" /\ pendingParses' = pendingParses
    BY <1>1, <1>2, <1>4 DEF OneInFlight, rejectAllPending, PoolType
  <2>2. BooksType' /\ NoMixUp' /\ LoopType'
    BY <1>1, <2>1 DEF BooksType, NoMixUp, LoopType, control, books
  <2>3. OneInFlight' /\ Fits'
    BY <1>1, <2>1 DEF OneInFlight, Fits, control
  <2>4. Numbered'
    BY <1>1, <2>1 DEF Numbered, Known, control
  <2>5. QED  BY <2>2, <2>3, <2>4, Assemble
<1>5. QED  BY <1>3, <1>4

LEMMA ExitsSafe ==
    ASSUME SafetyInv, WorkerExits \/ TerminatedExits
    PROVE  SafetyInv'
<1>1. PoolType /\ LoopType /\ OneInFlight /\ Fits
  BY Parts
<1>2. CASE WorkerExits
  <2>1. PICK reason \in Rejections : rejectAllPending(reason)
    BY <1>2 DEF WorkerExits, Rejections
  <2>2. PoolType' /\ unlucky' \subseteq File
    BY <1>1, <1>2, <2>1, IndexAllAssumption DEF WorkerExits, PoolType, LoopType, rejectAllPending
  <2>3. step # "waiting" \/ pendingParses # {}
    BY <1>1 DEF OneInFlight
  <2>4. QED  BY <1>2, <2>1, <2>2, <2>3, RejectSafe DEF WorkerExits
<1>3. CASE TerminatedExits
  <2>1. "exited" \in Rejections /\ rejectAllPending("exited")
    BY <1>3 DEF TerminatedExits, Rejections
  <2>2. PoolType'
    BY <1>1, <1>3, <2>1 DEF TerminatedExits, PoolType, rejectAllPending
  <2>3. unlucky' \subseteq File
    BY <1>1, <1>3 DEF TerminatedExits, LoopType, Fits
  <2>4. parseWorker' # "none" \/ step # "waiting"
    BY <1>1, <1>3 DEF TerminatedExits, Fits
  <2>5. QED  BY <1>3, <2>1, <2>2, <2>3, <2>4, RejectSafe DEF TerminatedExits
<1>4. QED  BY <1>2, <1>3

LEMMA TimeoutSafe ==
    ASSUME SafetyInv, Timeout
    PROVE  SafetyInv'
<1>1. PoolType /\ LoopType /\ Numbered
  BY Parts
<1>2. /\ step = "waiting" /\ pendingParses' = {} /\ Settle(NoFile, "timeout")
      /\ parseWorker' = "none" /\ Terminate /\ UNCHANGED <<nextId, aborted, unlucky>>
  BY DEF Timeout, Expired
<1>3. /\ ending' \in Nat /\ workerParseCount' = 0 /\ queue' = <<>>
      /\ mail' \subseteq [job : Job, result : Answers]
      /\ \A m \in mail' : Known(m.job)
  BY <1>1, <1>2, TerminateFacts
<1>4. PoolType'
  BY <1>1, <1>2, <1>3, IndexAllAssumption DEF PoolType
<1>5. step' # "waiting"
  BY <1>2 DEF Settle
<1>6. \A m \in mail' : Known(m.job)'
  BY <1>2, <1>3, <1>5 DEF Known
<1>7. "timeout" \in Result /\ "timeout" \notin Storable /\ unlucky' \subseteq File
  BY <1>1, <1>2 DEF Result, Rejections, Storable, Answers, LoopType
<1>8. \A i \in 1..Len(queue') : Known(queue[i])'
  BY <1>3
<1>9. QED  BY <1>2, <1>4, <1>6, <1>7, <1>8, SettledInv
-----------------------------------------------------------------------------
(* A step of the loop that adds no request and does not wait.              *)
LEMMA LoopSafe ==
    ASSUME SafetyInv, step # "waiting", step' # "waiting", BooksType', NoMixUp', LoopType', PoolType',
           UNCHANGED <<nextId, pendingParses>>, Fits',
           queue' = queue \/ queue' = <<>>,
           \A m \in mail' : Known(m.job)
    PROVE  SafetyInv'
<1>1. OneInFlight /\ Numbered
  BY Parts
<1>2. OneInFlight'
  BY <1>1 DEF OneInFlight
<1>3. Numbered'
  BY <1>1 DEF Numbered, Known
<1>4. QED  BY <1>2, <1>3, Assemble

LEMMA SkipSafe ==
    ASSUME SafetyInv, NEW f \in File, SkipFile(f)
    PROVE  SafetyInv'
<1>1. /\ BooksType /\ PoolType /\ LoopType /\ OneInFlight /\ NoMixUp /\ Numbered /\ Fits
      /\ step = "next" /\ step' = "next" /\ todo' = todo \ {f} /\ UNCHANGED <<cur, nextId, pendingParses, aborted, unlucky>>
  BY Parts DEF SkipFile, MayTake
<1>2. LoopType'
  BY <1>1 DEF LoopType
<1>3. CASE (\E r \in Unparsed \cap Outcomes[f] : Record(f, NoFile, r)) /\ UNCHANGED <<pool, mail>>
  <2>1. PICK r \in Unparsed : Record(f, NoFile, r)
    BY <1>3
  <2>2. r \in Result /\ r \notin Storable
    BY DEF Result, Unparsed, Storable, Answers
  <2>3. BooksType' /\ NoMixUp'
    BY <1>1, <2>1, <2>2, RecordFacts
  <2>4. PoolType' /\ Fits'
    BY <1>1, <1>3 DEF PoolType, Fits, pool
  <2>5. \A m \in mail' : Known(m.job)
    BY <1>1, <1>3 DEF Numbered
  <2>6. QED  BY <1>1, <1>2, <1>3, <2>3, <2>4, <2>5, LoopSafe DEF pool
<1>4. CASE parseWorker' = "none" /\ Terminate /\ UNCHANGED <<pass, books>>
  <2>1. /\ ending' \in Nat /\ workerParseCount' = 0 /\ queue' = <<>>
        /\ mail' \subseteq [job : Job, result : Answers]
        /\ \A m \in mail' : Known(m.job)
    BY <1>1, <1>4, TerminateFacts
  <2>2. PoolType' /\ Fits'
    BY <1>1, <1>4, <2>1, IndexAllAssumption DEF PoolType, Fits
  <2>3. BooksType' /\ NoMixUp'
    BY <1>1, <1>4 DEF BooksType, NoMixUp, books
  <2>4. QED  BY <1>1, <1>2, <2>1, <2>2, <2>3, LoopSafe
<1>5. QED  BY <1>3, <1>4 DEF SkipFile

LEMMA RequestSafe ==
    ASSUME SafetyInv, NEW f \in File, RequestHere(f) \/ RequestFresh(f)
    PROVE  SafetyInv'
<1>1. /\ BooksType /\ PoolType /\ LoopType /\ OneInFlight /\ NoMixUp /\ Numbered /\ Fits
      /\ step = "next" /\ pass \in {"first", "retry", "strip"}
      /\ todo' = todo \ {f} /\ cur' = f /\ UNCHANGED <<pass, books, aborted>>
  BY Parts DEF RequestHere, RequestFresh, MayTake
<1>2. BooksType' /\ NoMixUp'
  BY <1>1 DEF BooksType, NoMixUp, books
<1>3. CASE RequestHere(f)
  <2>1. /\ workerParseCount < RecycleInterval /\ parseWorker # "none" /\ parseWorker # "loading" /\ Post(f)
        /\ UNCHANGED <<parseWorker, ending, mail>>
        /\ unlucky' = IF queue = <<>> THEN unlucky ELSE unlucky \cup {f}
    BY <1>1, <1>3 DEF RequestHere, Reuse, Fits
  <2>2. /\ queue' \in Seq(Job) /\ workerParseCount' \in 0..RecycleInterval
        /\ nextId' \in Nat /\ pendingParses' \subseteq Nat
        /\ step' = "waiting" /\ nextId' > 0
        /\ OneInFlight' /\ Numbered'
    BY <1>1, <2>1, PostFacts
  <2>3. PoolType'
    BY <1>1, <2>1, <2>2 DEF PoolType
  <2>4. LoopType'
    BY <1>1, <2>1, <2>2 DEF LoopType
  <2>5. Fits'
    BY <1>1, <2>1, <2>2 DEF Fits
  <2>6. QED  BY <1>2, <2>2, <2>3, <2>4, <2>5, Assemble
<1>4. CASE RequestFresh(f)
  <2>1. /\ Terminate /\ parseWorker' = "loading" /\ step' = "loading"
        /\ UNCHANGED <<nextId, pendingParses, unlucky>>
    BY <1>4 DEF RequestFresh
  <2>2. /\ ending' \in Nat /\ workerParseCount' = 0 /\ queue' = <<>>
        /\ mail' \subseteq [job : Job, result : Answers]
        /\ \A m \in mail' : Known(m.job)
    BY <1>1, <2>1, TerminateFacts
  <2>3. PoolType' /\ LoopType' /\ Fits'
    BY <1>1, <2>1, <2>2, IndexAllAssumption DEF PoolType, LoopType, Fits
  <2>4. QED  BY <1>1, <1>2, <2>1, <2>2, <2>3, LoopSafe
<1>5. QED  BY <1>3, <1>4

LEMMA LoadedSafe ==
    ASSUME SafetyInv, Loaded
    PROVE  SafetyInv'
<1>1. /\ BooksType /\ PoolType /\ LoopType /\ OneInFlight /\ NoMixUp /\ Numbered /\ Fits
      /\ step = "loading" /\ parseWorker = "loading" /\ parseWorker' = "ready"
      /\ workerParseCount = 0 /\ queue = <<>> /\ pass \in {"first", "retry", "strip"}
      /\ UNCHANGED <<pass, todo, cur, ending, mail, books, aborted, unlucky>>
  BY Parts DEF Loaded, Fits
<1>2. BooksType' /\ NoMixUp'
  BY <1>1 DEF BooksType, NoMixUp, books
<1>3. CASE cur # NoFile /\ Post(cur)
  <2>1. cur \in File /\ workerParseCount < RecycleInterval
    BY <1>1, <1>3, IndexAllAssumption DEF LoopType
  <2>2. /\ queue' \in Seq(Job) /\ workerParseCount' \in 0..RecycleInterval
        /\ nextId' \in Nat /\ pendingParses' \subseteq Nat
        /\ step' = "waiting" /\ nextId' > 0
        /\ OneInFlight' /\ Numbered'
    BY <1>1, <1>3, <2>1, PostFacts
  <2>3. PoolType' /\ LoopType' /\ Fits'
    BY <1>1, <2>1, <2>2 DEF PoolType, LoopType, Fits
  <2>4. QED  BY <1>2, <2>2, <2>3, Assemble
<1>4. CASE step' = "next" /\ UNCHANGED <<queue, workerParseCount, nextId, pendingParses>>
  <2>1. PoolType' /\ LoopType' /\ Fits'
    BY <1>1, <1>4 DEF PoolType, LoopType, Fits
  <2>2. \A m \in mail' : Known(m.job)
    BY <1>1 DEF Numbered
  <2>3. QED  BY <1>1, <1>2, <1>4, <2>1, <2>2, LoopSafe
<1>5. QED  BY <1>3, <1>4 DEF Loaded

LEMMA EndsSafe ==
    ASSUME SafetyInv, EndPass \/ AbortReturn
    PROVE  SafetyInv'
<1>1. /\ BooksType /\ PoolType /\ LoopType /\ OneInFlight /\ NoMixUp /\ Numbered /\ Fits
      /\ step = "next" /\ UNCHANGED <<step, cur, nextId, pendingParses, books, aborted, unlucky>>
  BY Parts DEF EndPass, AbortReturn
<1>2. pass' \in {"retry", "strip", "done", "aborted"} /\ todo' \subseteq File
  BY <1>1 DEF EndPass, AbortReturn, BooksType, LoopType
<1>3. BooksType' /\ NoMixUp' /\ LoopType'
  BY <1>1, <1>2 DEF BooksType, NoMixUp, LoopType, books
<1>4. CASE UNCHANGED <<pool, mail>>
  <2>1. PoolType' /\ Fits'
    BY <1>1, <1>4 DEF PoolType, Fits, pool
  <2>2. \A m \in mail' : Known(m.job)
    BY <1>1, <1>4 DEF Numbered
  <2>3. QED  BY <1>1, <1>3, <1>4, <2>1, <2>2, LoopSafe DEF pool
<1>5. CASE parseWorker' = "none" /\ Terminate
  <2>1. /\ ending' \in Nat /\ workerParseCount' = 0 /\ queue' = <<>>
        /\ mail' \subseteq [job : Job, result : Answers]
        /\ \A m \in mail' : Known(m.job)
    BY <1>1, <1>5, TerminateFacts
  <2>2. PoolType' /\ Fits'
    BY <1>1, <1>5, <2>1, IndexAllAssumption DEF PoolType, Fits
  <2>3. QED  BY <1>1, <1>3, <2>1, <2>2, LoopSafe
<1>6. QED  BY <1>4, <1>5 DEF EndPass, AbortReturn
-----------------------------------------------------------------------------
LEMMA WorkerSafe ==
    ASSUME SafetyInv, Parse \/ Die \/ DieLoading \/ Abort
    PROVE  SafetyInv'
<1>1. /\ BooksType /\ PoolType /\ LoopType /\ OneInFlight /\ NoMixUp /\ Numbered /\ Fits
      /\ UNCHANGED <<control, ending, nextId, pendingParses, books, unlucky>>
  BY Parts DEF Parse, Die, DieLoading, Abort, pool, requests
<1>2. BooksType' /\ NoMixUp' /\ OneInFlight' /\ aborted' \in BOOLEAN
  BY <1>1 DEF BooksType, NoMixUp, OneInFlight, LoopType, control, books, Parse, Die, DieLoading, Abort
<1>3. LoopType'
  BY <1>1, <1>2 DEF LoopType, control
<1>4. CASE Parse
  <2>1. PICK r \in Answers : mail' = mail \cup {[job |-> Head(queue), result |-> r]}
    BY <1>4 DEF Parse
  <2>2. /\ queue # <<>> /\ queue' = Tail(queue) /\ parseWorker = "ready"
        /\ UNCHANGED <<parseWorker, workerParseCount>>
    BY <1>4 DEF Parse
  <2>3. /\ Len(queue) \in Nat /\ Len(queue) > 0 /\ Head(queue) = queue[1] /\ queue[1] \in Job
        /\ queue' \in Seq(Job) /\ Len(queue') = Len(queue) - 1
        /\ \A i \in 1..Len(queue') : queue'[i] = queue[i + 1]
    BY <1>1, <2>2 DEF PoolType
  <2>4. [job |-> Head(queue), result |-> r] \in [job : Job, result : Answers] /\ Known(Head(queue))
    BY <1>1, <2>3 DEF Numbered
  <2>5. PoolType' /\ Fits'
    BY <1>1, <2>1, <2>2, <2>3, <2>4 DEF PoolType, Fits, control
  <2>6. \A i \in 1..Len(queue') : Known(queue'[i])
    BY <1>1, <2>3 DEF Numbered
  <2>7. \A m \in mail' : Known(m.job)
    BY <1>1, <2>1, <2>4 DEF Numbered
  <2>8. Numbered'
    BY <1>1, <2>6, <2>7 DEF Numbered, Known, control
  <2>9. QED  BY <1>2, <1>3, <2>5, <2>8, Assemble
<1>5. CASE Die \/ DieLoading \/ Abort
  <2>1. UNCHANGED <<workerParseCount, queue, mail>> /\ parseWorker' \in {parseWorker, "crashed", "oom", "none"}
    BY <1>5 DEF Die, DieLoading, Abort, requests, pool
  <2>2. parseWorker' = "none" => parseWorker = "loading" \/ parseWorker = "none"
    BY <1>5 DEF Die, DieLoading, Abort, pool
  <2>3. PoolType' /\ Fits'
    BY <1>1, <2>1, <2>2 DEF PoolType, Fits, control
  <2>4. Numbered'
    BY <1>1, <2>1 DEF Numbered, Known, control
  <2>5. QED  BY <1>2, <1>3, <2>3, <2>4, Assemble
<1>6. QED  BY <1>4, <1>5

LEMMA StutterSafe ==
    ASSUME SafetyInv, UNCHANGED vars
    PROVE  SafetyInv'
<1>1. BooksType /\ PoolType /\ LoopType /\ OneInFlight /\ NoMixUp /\ Numbered /\ Fits
  BY Parts
<1>2. BooksType' /\ PoolType' /\ LoopType'
  BY <1>1 DEF BooksType, PoolType, LoopType, vars, control, pool, requests, books
<1>3. OneInFlight' /\ NoMixUp' /\ Numbered' /\ Fits'
  BY <1>1 DEF OneInFlight, NoMixUp, Numbered, Known, Fits, vars, control, pool, requests, books
<1>4. QED  BY <1>2, <1>3, Assemble

LEMMA NextSafe ==
    ASSUME SafetyInv, [Next]_vars
    PROVE  SafetyInv'
<1>1. CASE Main
  BY <1>1, SkipSafe, RequestSafe, LoadedSafe, EndsSafe DEF Main, Loop
<1>2. CASE Abort \/ Work \/ DieLoading
  BY <1>2, WorkerSafe DEF Work
<1>3. CASE Delivery
  BY <1>3, DeliverSafe DEF Delivery
<1>4. CASE WorkerExits \/ TerminatedExits
  BY <1>4, ExitsSafe
<1>5. CASE Timeout
  BY <1>5, TimeoutSafe
<1>6. CASE UNCHANGED vars
  BY <1>6, StutterSafe
<1>7. QED  BY <1>1, <1>2, <1>3, <1>4, <1>5, <1>6 DEF Next

LEMMA Safety == Spec => []SafetyInv
BY InitSafety, NextSafe, PTL DEF Spec
-----------------------------------------------------------------------------
(* A healthy file is stored, unlucky, or still to be parsed: in this pass  *)
(* or, its request having been rejected by an exit, in the next.           *)
Covered ==
    ~aborted /\ pass \in {"first", "retry", "strip"} =>
        \A f \in Healthy :
            \/ stored[f] = f \/ f \in unlucky \/ f \in todo
            \/ step # "next" /\ cur = f
            \/ pass = "first" /\ <<f, "exited">> \in errors
            \/ pass = "retry" /\ f \in again

(* A worker does to a file what the file can do to it, and a request that  *)
(* was not posted behind another one has the worker for itself.            *)
AnswersFit == \A m \in mail : m.result \in Outcomes[m.job.file]

DeathsFit ==
    /\ parseWorker = "crashed" => queue # <<>> /\ "crash" \in Outcomes[queue[1].file]
    /\ parseWorker = "oom" => queue # <<>> /\ "oom" \in Outcomes[queue[1].file]

Alone ==
    step = "waiting" /\ cur \notin unlucky => \A i \in 1..Len(queue) : queue[i].file = cur

HealthyInv == Covered /\ AnswersFit /\ DeathsFit /\ Alone /\ HealthyIsIndexed

LEMMA InitHealthy == Init => HealthyInv
<1> SUFFICES ASSUME Init  PROVE HealthyInv
  OBVIOUS
<1>1. Covered /\ HealthyIsIndexed
  BY DEF Init, Covered, HealthyIsIndexed, Healthy
<1>2. AnswersFit /\ DeathsFit /\ Alone
  BY DEF Init, AnswersFit, DeathsFit, Alone
<1>3. QED  BY <1>1, <1>2 DEF HealthyInv

(* A request for a healthy file settles: stored, tried again, or unlucky.  *)
LEMMA SettleCovered ==
    ASSUME SafetyInv, HealthyInv, step = "waiting", NEW g, NEW result \in Result,
           result \in Storable => g = cur, Settle(g, result),
           aborted' = aborted, unlucky \subseteq unlucky',
           cur \in Healthy =>
               result \in Storable \/ cur \in unlucky' \/ (result = "exited" /\ pass # "strip")
    PROVE  Covered' /\ HealthyIsIndexed'
<1>1. /\ cur \in File /\ BooksType /\ pass \in {"first", "retry", "strip"} /\ Covered
      /\ step' = "next" /\ UNCHANGED <<todo, cur>>
  BY Parts DEF Fits, Settle, HealthyInv
<1>2. pass' \in {pass, "failed"}
  BY <1>1 DEF Settle, Record, RecordRetry
<1>3. HealthyIsIndexed'
  BY <1>1, <1>2 DEF HealthyIsIndexed
<1>4. CASE pass' = "failed"
  BY <1>3, <1>4 DEF Covered
<1>5. ASSUME pass' = pass, ~aborted, NEW f \in Healthy
      PROVE  \/ stored'[f] = f \/ f \in unlucky' \/ f \in todo'
             \/ pass = "first" /\ <<f, "exited">> \in errors'
             \/ pass = "retry" /\ f \in again'
  <2>1. f \in File
    BY DEF Healthy
  <2>2. /\ pass = "first" => errors \subseteq errors'
        /\ again \subseteq again'
        /\ f # cur => stored'[f] = stored[f]
    BY <1>1, <1>5, <2>1 DEF Settle, Record, RecordRetry, BooksType, books
  <2>3. CASE f # cur
    BY <1>1, <1>5, <2>2, <2>3 DEF Covered
  <2>4. CASE f = cur /\ result \in Storable
    <3>1. result # "failed" /\ g = cur
      BY <2>4 DEF Storable
    <3>2. stored' = [stored EXCEPT ![cur] = g]
      BY <1>1, <1>5, <2>4, <3>1 DEF Settle, Record, RecordRetry
    <3>3. QED  BY <1>1, <2>1, <2>4, <3>1, <3>2 DEF BooksType
  <2>5. CASE f = cur /\ result = "exited" /\ pass # "strip"
    <3>1. result \notin Storable /\ result \in Rejections
      BY <2>5 DEF Storable, Rejections, Answers
    <3>2. CASE pass = "first"
      BY <2>5, <3>1, <3>2 DEF Settle, Record
    <3>3. CASE pass = "retry"
      BY <2>5, <3>1, <3>3 DEF Settle, RecordRetry
    <3>4. QED  BY <1>1, <2>5, <3>2, <3>3
  <2>6. CASE f = cur /\ cur \in unlucky'
    BY <2>6
  <2>7. QED  BY <1>5, <2>3, <2>4, <2>5, <2>6
<1>6. CASE pass' = pass
  BY <1>1, <1>3, <1>5, <1>6 DEF Covered, Healthy
<1>7. QED  BY <1>2, <1>4, <1>6

(* A step that leaves the books, and what is covered, alone.               *)
LEMMA CoveredQuiet ==
    ASSUME HealthyInv, SafetyInv, UNCHANGED <<pass, books>>, unlucky \subseteq unlucky',
           aborted => aborted',
           \A f \in Healthy : f \in todo \/ (step # "next" /\ cur = f)
                => f \in todo' \/ (step' # "next" /\ cur' = f)
    PROVE  Covered' /\ HealthyIsIndexed'
<1>1. Covered /\ HealthyIsIndexed /\ aborted \in BOOLEAN
  BY Parts DEF HealthyInv, LoopType
<1>2. ~aborted' => ~aborted
  BY <1>1
<1>3. HealthyIsIndexed'
  BY <1>1, <1>2 DEF HealthyIsIndexed, Healthy, books
<1>4. Covered'
  BY <1>1, <1>2 DEF Covered, Healthy, books
<1>5. QED  BY <1>3, <1>4

LEMMA HealthyAnswers ==
    ASSUME NEW f \in Healthy, NEW r \in Outcomes[f]
    PROVE  f \in File /\ r \in {"nodes", "empty"} /\ r \in Storable
BY DEF Healthy, Storable, Answers

(* Terminating keeps the mail in order.                                    *)
LEMMA TerminateHealthy ==
    ASSUME SafetyInv, HealthyInv, Terminate
    PROVE  AnswersFit' /\ queue' = <<>>
<1>1. AnswersFit /\ PoolType
  BY Parts DEF HealthyInv
<1>2. \/ mail' = mail
      \/ \E r \in Outcomes[Head(queue).file] : mail' = mail \cup {[job |-> Head(queue), result |-> r]}
  BY DEF Terminate
<1>3. QED  BY <1>1, <1>2 DEF AnswersFit, Terminate

LEMMA DeliverHealthy ==
    ASSUME SafetyInv, HealthyInv, NEW m, Deliver(m)
    PROVE  HealthyInv'
<1>1. /\ BooksType /\ PoolType /\ LoopType /\ OneInFlight /\ Numbered /\ Fits
      /\ m \in mail /\ mail' = mail \ {m} /\ UNCHANGED <<pool, nextId, aborted, unlucky>>
      /\ Covered /\ AnswersFit /\ DeathsFit /\ Alone /\ HealthyIsIndexed
  BY Parts DEF Deliver, HealthyInv
<1>2. AnswersFit' /\ DeathsFit'
  BY <1>1 DEF AnswersFit, DeathsFit, pool
<1>3. CASE m.job.id \in pendingParses
  <2>1. m.job.file \in File /\ m.job.id \in Nat /\ m.result \in Answers
    BY <1>1, MailFiles
  <2>2. step = "waiting" /\ m.job.file = cur
    BY <1>1, <1>3, <2>1 DEF OneInFlight, Numbered, Known
  <2>3. Settle(m.job.file, m.result) /\ m.result \in Result /\ step' = "next"
    BY <1>3, <2>1 DEF Deliver, Result, Settle
  <2>4. m.result \in Outcomes[cur]
    BY <1>1, <2>2 DEF AnswersFit
  <2>5. cur \in Healthy => m.result \in Storable
    BY <2>4, HealthyAnswers
  <2>6. Covered' /\ HealthyIsIndexed'
    BY <1>1, <2>2, <2>3, <2>5, SettleCovered
  <2>7. Alone'
    BY <2>3 DEF Alone
  <2>8. QED  BY <1>2, <2>6, <2>7 DEF HealthyInv
<1>4. CASE m.job.id \notin pendingParses
  <2>1. UNCHANGED <<control, books>>
    BY <1>4 DEF Deliver
  <2>2. Covered' /\ HealthyIsIndexed'
    BY <1>1, <2>1, CoveredQuiet DEF control
  <2>3. Alone'
    BY <1>1, <2>1 DEF Alone, control, pool
  <2>4. QED  BY <1>2, <2>2, <2>3 DEF HealthyInv
<1>5. QED  BY <1>3, <1>4

(* An exit spares healthy files that are not unlucky for another pass.     *)
LEMMA RejectCovered ==
    ASSUME SafetyInv, HealthyInv, NEW reason \in Rejections, rejectAllPending(reason),
           aborted' = aborted, unlucky \subseteq unlucky',
           step = "waiting" /\ cur \in Healthy => cur \in unlucky' \/ (reason = "exited" /\ pass # "strip")
    PROVE  Covered' /\ HealthyIsIndexed' /\ (step' # "waiting" \/ UNCHANGED <<step, cur>>)
<1>1. OneInFlight /\ reason \in Result /\ reason \notin Storable
  BY Parts DEF Result, Rejections, Storable, Answers
<1>2. CASE pendingParses # {}
  <2>1. step = "waiting" /\ Settle(NoFile, reason) /\ step' = "next"
    BY <1>1, <1>2 DEF OneInFlight, rejectAllPending, Settle
  <2>2. Covered' /\ HealthyIsIndexed'
    BY <1>1, <2>1, SettleCovered
  <2>3. QED  BY <2>1, <2>2
<1>3. CASE UNCHANGED <<control, books>>
  <2>1. Covered' /\ HealthyIsIndexed'
    BY <1>3, CoveredQuiet DEF control
  <2>2. QED  BY <1>3, <2>1 DEF control
<1>4. QED  BY <1>2, <1>3 DEF rejectAllPending

LEMMA ExitsHealthy ==
    ASSUME SafetyInv, HealthyInv, WorkerExits \/ TerminatedExits
    PROVE  HealthyInv'
<1>1. PoolType /\ Fits /\ AnswersFit /\ DeathsFit /\ Alone /\ mail' = mail /\ aborted' = aborted
  BY Parts DEF HealthyInv, WorkerExits, TerminatedExits
<1>2. AnswersFit'
  BY <1>1 DEF AnswersFit
<1>3. CASE WorkerExits
  <2>1. PICK reason \in Rejections : rejectAllPending(reason)
    BY <1>3 DEF WorkerExits, Rejections
  <2>2. parseWorker' = "none" /\ queue' = <<>> /\ parseWorker \in {"crashed", "oom"} /\ unlucky' = unlucky
    BY <1>3 DEF WorkerExits
  <2>3. step = "waiting" /\ cur \in Healthy => cur \in unlucky'
    <3>1. queue # <<>> /\ Outcomes[queue[1].file] \cap Deaths # {}
      BY <1>1, <2>2 DEF DeathsFit, Deaths
    <3>2. 1 \in 1..Len(queue)
      BY <1>1, <3>1 DEF PoolType
    <3>3. cur \in Healthy => queue[1].file # cur
      BY <3>1 DEF Healthy, Deaths
    <3>4. QED  BY <1>1, <2>2, <3>2, <3>3 DEF Alone
  <2>4. Covered' /\ HealthyIsIndexed'
    BY <1>1, <2>1, <2>2, <2>3, RejectCovered
  <2>5. DeathsFit' /\ Alone'
    BY <2>2 DEF DeathsFit, Alone
  <2>6. QED  BY <1>2, <2>4, <2>5 DEF HealthyInv
<1>4. CASE TerminatedExits
  <2>1. /\ "exited" \in Rejections /\ rejectAllPending("exited") /\ UNCHANGED <<parseWorker, queue>>
        /\ unlucky' = IF pass = "strip" /\ step = "waiting" THEN unlucky \cup {cur} ELSE unlucky
    BY <1>4 DEF TerminatedExits, Rejections
  <2>2. Covered' /\ HealthyIsIndexed' /\ (step' # "waiting" \/ UNCHANGED <<step, cur>>)
    BY <1>1, <2>1, RejectCovered
  <2>3. DeathsFit' /\ Alone'
    BY <1>1, <2>1, <2>2 DEF DeathsFit, Alone
  <2>4. QED  BY <1>2, <2>2, <2>3 DEF HealthyInv
<1>5. QED  BY <1>3, <1>4

LEMMA TimeoutHealthy ==
    ASSUME SafetyInv, HealthyInv, Timeout
    PROVE  HealthyInv'
<1>1. /\ step = "waiting" /\ Settle(NoFile, "timeout") /\ step' = "next"
      /\ Slow(cur) \/ \E i \in 1..Len(queue) : Slow(queue[i].file)
      /\ parseWorker' = "none" /\ Terminate /\ UNCHANGED <<aborted, unlucky>> /\ Alone
  BY DEF Timeout, Settle, HealthyInv
<1>2. AnswersFit' /\ DeathsFit' /\ Alone'
  BY <1>1, TerminateHealthy DEF DeathsFit, Alone
<1>3. "timeout" \in Result /\ "timeout" \notin Storable
  BY DEF Result, Rejections, Storable, Answers
<1>4. cur \in Healthy => cur \in unlucky'
  BY <1>1 DEF Alone, Slow, Healthy
<1>5. Covered' /\ HealthyIsIndexed'
  BY <1>1, <1>3, <1>4, SettleCovered
<1>6. QED  BY <1>2, <1>5 DEF HealthyInv

LEMMA SkipHealthy ==
    ASSUME SafetyInv, HealthyInv, NEW f \in File, SkipFile(f)
    PROVE  HealthyInv'
<1>1. /\ step = "next" /\ step' = "next" /\ todo' = todo \ {f} /\ UNCHANGED <<cur, aborted, unlucky>>
      /\ Covered /\ HealthyIsIndexed /\ AnswersFit /\ DeathsFit /\ BooksType /\ pass \in {"first", "retry", "strip"}
  BY Parts DEF SkipFile, MayTake, HealthyInv
<1>2. f \notin Healthy
  BY DEF SkipFile, Healthy, Unparsed
<1>3. Alone'
  BY <1>1 DEF Alone
<1>4. CASE (\E r \in Unparsed \cap Outcomes[f] : Record(f, NoFile, r)) /\ UNCHANGED <<pool, mail>>
  <2>1. AnswersFit' /\ DeathsFit'
    BY <1>1, <1>4 DEF AnswersFit, DeathsFit, pool
  <2>2. /\ pass' = pass /\ again' = again /\ errors \subseteq errors' /\ stored' = stored
    BY <1>4 DEF Record, Unparsed, Storable, Answers
  <2>3. Covered'
    BY <1>1, <1>2, <2>2 DEF Covered
  <2>4. HealthyIsIndexed'
    BY <1>1, <2>2 DEF HealthyIsIndexed
  <2>5. QED  BY <1>3, <2>1, <2>3, <2>4 DEF HealthyInv
<1>5. CASE parseWorker' = "none" /\ Terminate /\ UNCHANGED <<pass, books>>
  <2>1. AnswersFit' /\ DeathsFit'
    BY <1>5, TerminateHealthy DEF DeathsFit
  <2>2. Covered' /\ HealthyIsIndexed'
    BY <1>1, <1>2, <1>5, CoveredQuiet
  <2>3. QED  BY <1>3, <2>1, <2>2 DEF HealthyInv
<1>6. QED  BY <1>4, <1>5 DEF SkipFile

LEMMA RequestHealthy ==
    ASSUME SafetyInv, HealthyInv, NEW f \in File, RequestHere(f) \/ RequestFresh(f)
    PROVE  HealthyInv'
<1>1. /\ step = "next" /\ step' # "next" /\ todo' = todo \ {f} /\ cur' = f /\ UNCHANGED <<pass, books, aborted>>
      /\ PoolType /\ AnswersFit /\ DeathsFit
  BY Parts DEF RequestHere, RequestFresh, MayTake, HealthyInv, Post
<1>2. unlucky \subseteq unlucky'
  BY DEF RequestHere, RequestFresh
<1>3. Covered' /\ HealthyIsIndexed'
  BY <1>1, <1>2, CoveredQuiet
<1>4. CASE RequestHere(f)
  <2>1. PICK j \in Job : j.file = f /\ queue' = Append(queue, j)
    BY <1>1, <1>4 DEF RequestHere, Post, RequestId, PoolType, Job
  <2>2. /\ UNCHANGED <<parseWorker, mail>>
        /\ unlucky' = IF queue = <<>> THEN unlucky ELSE unlucky \cup {f}
    BY <1>4 DEF RequestHere
  <2>3. queue # <<>> => queue' # <<>> /\ queue'[1] = queue[1]
    BY <1>1, <2>1 DEF PoolType
  <2>4. AnswersFit' /\ DeathsFit'
    BY <1>1, <2>2, <2>3 DEF AnswersFit, DeathsFit
  <2>5. queue = <<>> => Len(queue') = 1 /\ queue'[1] = j
    BY <2>1
  <2>6. Alone'
    BY <1>1, <2>1, <2>2, <2>5 DEF Alone
  <2>7. QED  BY <1>3, <2>4, <2>6 DEF HealthyInv
<1>5. CASE RequestFresh(f)
  <2>1. Terminate /\ parseWorker' = "loading" /\ step' = "loading"
    BY <1>5 DEF RequestFresh
  <2>2. AnswersFit' /\ DeathsFit' /\ Alone'
    BY <2>1, TerminateHealthy DEF DeathsFit, Alone
  <2>3. QED  BY <1>3, <2>2 DEF HealthyInv
<1>6. QED  BY <1>4, <1>5

LEMMA LoadedHealthy ==
    ASSUME SafetyInv, HealthyInv, Loaded
    PROVE  HealthyInv'
<1>1. /\ step = "loading" /\ parseWorker' = "ready" /\ queue = <<>> /\ PoolType /\ LoopType
      /\ UNCHANGED <<pass, todo, cur, mail, books, aborted, unlucky>> /\ AnswersFit
  BY Parts DEF Loaded, HealthyInv, Fits
<1>2. AnswersFit' /\ DeathsFit'
  BY <1>1 DEF AnswersFit, DeathsFit
<1>3. CASE cur # NoFile /\ Post(cur)
  <2>1. PICK j \in Job : j.file = cur /\ queue' = Append(queue, j)
    BY <1>1, <1>3 DEF Post, RequestId, PoolType, LoopType, Job
  <2>2. Len(queue') = 1 /\ queue'[1] = j
    BY <1>1, <2>1
  <2>3. Alone' /\ step' # "next"
    BY <1>1, <1>3, <2>1, <2>2 DEF Alone, Post
  <2>4. Covered' /\ HealthyIsIndexed'
    BY <1>1, <2>3, CoveredQuiet
  <2>5. QED  BY <1>2, <2>3, <2>4 DEF HealthyInv
<1>4. CASE cur = NoFile /\ step' = "next"
  <2>1. Alone'
    BY <1>4 DEF Alone
  <2>2. \A f \in Healthy : cur # f
    BY <1>4, IndexAllAssumption DEF Healthy
  <2>3. Covered' /\ HealthyIsIndexed'
    BY <1>1, <2>2, CoveredQuiet
  <2>4. QED  BY <1>2, <2>1, <2>3 DEF HealthyInv
<1>5. QED  BY <1>3, <1>4 DEF Loaded

LEMMA EndsHealthy ==
    ASSUME SafetyInv, HealthyInv, EndPass \/ AbortReturn
    PROVE  HealthyInv'
<1>1. /\ step = "next" /\ step' = "next" /\ UNCHANGED <<cur, books, aborted, unlucky>>
      /\ Covered /\ HealthyIsIndexed /\ AnswersFit /\ DeathsFit
  BY DEF EndPass, AbortReturn, HealthyInv
<1>2. Alone'
  BY <1>1 DEF Alone
<1>3. \/ UNCHANGED <<pool, mail>>
      \/ parseWorker' = "none" /\ Terminate
  BY DEF EndPass, AbortReturn
<1>4. AnswersFit' /\ DeathsFit'
  BY <1>1, <1>3, TerminateHealthy DEF AnswersFit, DeathsFit, pool
<1>5. CASE AbortReturn
  BY <1>1, <1>2, <1>4, <1>5 DEF AbortReturn, Covered, HealthyIsIndexed, HealthyInv
<1>6. CASE EndPass /\ aborted
  <2>1. Covered' /\ HealthyIsIndexed'
    BY <1>1, <1>6 DEF Covered, HealthyIsIndexed
  <2>2. QED  BY <1>2, <1>4, <2>1 DEF HealthyInv
<1>7. CASE EndPass /\ ~aborted
  <2>1. todo = {} /\ \A f \in Healthy : f \in File
    BY <1>7 DEF EndPass, Healthy
  <2>2. CASE pass = "first"
    <3>1. pass' = "retry" /\ todo' = {f \in File : \E r \in Retryable : <<f, r>> \in errors}
      BY <1>7, <2>2 DEF EndPass
    <3>2. \A f \in File : <<f, "exited">> \in errors => f \in todo'
      BY <3>1 DEF Retryable
    <3>3. Covered' /\ HealthyIsIndexed'
      BY <1>1, <1>7, <2>1, <2>2, <3>1, <3>2 DEF Covered, HealthyIsIndexed, books
    <3>4. QED  BY <1>2, <1>4, <3>3 DEF HealthyInv
  <2>3. CASE pass = "retry"
    <3>1. pass' = "strip" /\ todo' = again
      BY <1>7, <2>3 DEF EndPass
    <3>2. Covered' /\ HealthyIsIndexed'
      BY <1>1, <1>7, <2>1, <2>3, <3>1 DEF Covered, HealthyIsIndexed, books
    <3>3. QED  BY <1>2, <1>4, <3>2 DEF HealthyInv
  <2>4. CASE pass = "strip"
    <3>1. pass' = "done"
      BY <1>7, <2>4 DEF EndPass
    <3>2. Covered' /\ HealthyIsIndexed'
      BY <1>1, <1>7, <2>1, <2>4, <3>1 DEF Covered, HealthyIsIndexed, books
    <3>3. QED  BY <1>2, <1>4, <3>2 DEF HealthyInv
  <2>5. QED  BY <1>7, <2>2, <2>3, <2>4 DEF EndPass
<1>8. QED  BY <1>5, <1>6, <1>7

LEMMA WorkerHealthy ==
    ASSUME SafetyInv, HealthyInv, Parse \/ Die \/ DieLoading \/ Abort \/ UNCHANGED vars
    PROVE  HealthyInv'
<1>1. /\ UNCHANGED <<control, books, unlucky>> /\ PoolType /\ LoopType /\ Fits
      /\ AnswersFit /\ DeathsFit /\ Alone
  BY Parts DEF Parse, Die, DieLoading, Abort, vars, HealthyInv
<1>2. aborted => aborted'
  BY DEF Parse, Die, DieLoading, Abort, vars
<1>3. Covered' /\ HealthyIsIndexed'
  BY <1>1, <1>2, CoveredQuiet DEF control
<1>4. CASE Parse
  <2>1. PICK r \in Outcomes[Head(queue).file] : mail' = mail \cup {[job |-> Head(queue), result |-> r]}
    BY <1>4 DEF Parse
  <2>2. queue # <<>> /\ queue' = Tail(queue) /\ parseWorker = "ready" /\ parseWorker' = "ready"
    BY <1>4 DEF Parse
  <2>3. /\ Len(queue') \in Nat /\ Len(queue) = Len(queue') + 1
        /\ \A i \in 1..Len(queue') : queue'[i] = queue[i + 1]
    BY <1>1, <2>2 DEF PoolType
  <2>4. AnswersFit' /\ DeathsFit'
    BY <1>1, <2>1, <2>2 DEF AnswersFit, DeathsFit
  <2>5. Alone'
    BY <1>1, <2>3 DEF Alone, control
  <2>6. QED  BY <1>3, <2>4, <2>5 DEF HealthyInv
<1>5. CASE Die \/ DieLoading \/ Abort \/ UNCHANGED vars
  <2>1. UNCHANGED <<queue, mail>>
    BY <1>5 DEF Die, DieLoading, Abort, vars, pool, requests
  <2>2. queue # <<>> /\ queue \in Seq(Job) => Head(queue) = queue[1]
    OBVIOUS
  <2>3. DeathsFit'
    BY <1>1, <1>5, <2>1, <2>2 DEF DeathsFit, Die, DieLoading, Abort, vars, pool, PoolType
  <2>4. AnswersFit' /\ Alone'
    BY <1>1, <2>1 DEF AnswersFit, Alone, control
  <2>5. QED  BY <1>3, <2>3, <2>4 DEF HealthyInv
<1>6. QED  BY <1>4, <1>5

LEMMA NextHealthy ==
    ASSUME SafetyInv, HealthyInv, [Next]_vars
    PROVE  HealthyInv'
<1>1. CASE Main
  BY <1>1, SkipHealthy, RequestHealthy, LoadedHealthy, EndsHealthy DEF Main, Loop
<1>2. CASE Abort \/ Work \/ DieLoading \/ UNCHANGED vars
  BY <1>2, WorkerHealthy DEF Work
<1>3. CASE Delivery
  BY <1>3, DeliverHealthy DEF Delivery
<1>4. CASE WorkerExits \/ TerminatedExits
  BY <1>4, ExitsHealthy
<1>5. CASE Timeout
  BY <1>5, TimeoutHealthy
<1>6. QED  BY <1>1, <1>2, <1>3, <1>4, <1>5 DEF Next
-----------------------------------------------------------------------------
(* The books.  In the first pass a file that is not open any more has been *)
(* entered once; the retries only move a file from failed to indexed.      *)

Open == todo \cup (IF step # "next" /\ cur # NoFile THEN {cur} ELSE {})
Entered == IF pass = "first" THEN File \ Open ELSE File
Failures == {f \in Entered : stored[f] = NoFile /\ <<f, "large">> \notin errors}

OneEntry ==
    /\ step # "next" => cur \notin todo
    /\ \A f \in File \ Entered : stored[f] = NoFile /\ f \notin Filed
    /\ \A f \in Entered : stored[f] # NoFile \/ f \in Filed
    /\ \A e, d \in errors : e[1] = d[1] => e = d

(* What is tried again has failed for another reason than its size.        *)
TriedAgain ==
    /\ pass = "first" => again = {}
    /\ pass \in {"retry", "strip"} => \A f \in Open \cup again : <<f, "large">> \notin errors

Sums ==
    /\ count["indexed"] + count["skipped"] + count["errored"] = Cardinality(Entered)
    /\ miscounted \/ count["errored"] = Cardinality(Failures)

Balanced == pass \in {"first", "retry", "strip", "done"} => OneEntry /\ TriedAgain /\ Sums

LEMMA InitBalanced == Init => Balanced
<1> SUFFICES ASSUME Init  PROVE OneEntry /\ TriedAgain /\ Sums
  BY DEF Balanced
<1>1. Open = File /\ Entered = {} /\ Failures = {}
  BY DEF Init, Open, Entered, Failures
<1>2. Cardinality({}) = 0
  BY FS_EmptySet
<1>3. OneEntry /\ TriedAgain
  BY <1>1, IndexAllAssumption DEF Init, OneEntry, TriedAgain, Filed
<1>4. Sums
  BY <1>1, <1>2 DEF Init, Sums, Counters
<1>5. QED  BY <1>3, <1>4

(* Steps that enter nothing, of a loop that goes on in the same pass.      *)
LEMMA BalancedQuiet ==
    ASSUME SafetyInv, Balanced, UNCHANGED <<pass, books>>,
           step' # "next" => cur' \notin todo',
           Open' \subseteq Open, pass = "first" => Open' = Open
    PROVE  Balanced'
<1> SUFFICES ASSUME OneEntry, TriedAgain, Sums  PROVE OneEntry' /\ TriedAgain' /\ Sums'
  BY DEF Balanced
<1>1. Entered' = Entered /\ Failures' = Failures
  BY DEF Entered, Failures, books
<1>2. OneEntry'
  BY <1>1 DEF OneEntry, Filed, books
<1>3. TriedAgain' /\ Sums'
  BY <1>1 DEF TriedAgain, Sums, books
<1>4. QED  BY <1>2, <1>3

LEMMA EnteredFinite ==
    ASSUME LoopType
    PROVE  /\ IsFiniteSet(Entered) /\ Cardinality(Entered) \in Nat
           /\ IsFiniteSet(Failures) /\ Cardinality(Failures) \in Nat
<1>1. IsFiniteSet(File) /\ Entered \in SUBSET File /\ Failures \in SUBSET File
  BY IndexAllAssumption DEF Entered, Failures
<1>2. IsFiniteSet(Entered) /\ IsFiniteSet(Failures)
  BY <1>1, FS_Subset
<1>3. QED  BY <1>2, FS_CardinalityType

(* A file is entered: in one counter, as stored or with its error.         *)
LEMMA RecordBalanced ==
    ASSUME SafetyInv, Balanced, pass = "first", NEW f \in File, f \in Open, Open' = Open \ {f},
           NEW g, NEW result \in Result, result \in Storable => g = f,
           Record(f, g, result), step' = "next"
    PROVE  Balanced'
<1>1. BooksType /\ LoopType /\ OneEntry /\ TriedAgain /\ Sums
  BY Parts DEF Balanced
<1>2. /\ pass' = "first" /\ again' = again /\ miscounted' = miscounted
      /\ stored' = IF result \in Storable THEN [stored EXCEPT ![f] = g] ELSE stored
      /\ errors' = IF result \in {"nodes", "empty"} THEN errors ELSE errors \cup {<<f, result>>}
      /\ count' = [count EXCEPT ![Counter(result)] = @ + 1]
  BY DEF Record
<1>3. f \notin Entered /\ Entered' = Entered \cup {f} /\ Entered \subseteq File
  BY <1>2 DEF Entered
<1>4. f \notin Filed /\ stored[f] = NoFile /\ NoFile # f
  BY <1>1, <1>3, IndexAllAssumption DEF OneEntry
<1>5. \A e \in errors : e[1] \in File /\ e[1] # f /\ e = <<e[1], e[2]>>
  BY <1>1, <1>4 DEF BooksType, Filed
<1>6. stored'[f] = (IF result \in Storable THEN f ELSE NoFile)
      /\ \A h \in File : h # f => stored'[h] = stored[h]
  BY <1>1, <1>2, <1>4 DEF BooksType
<1>7. OneEntry'
  <2>1. \A h \in File : h # f => (h \in Filed' <=> h \in Filed)
    BY <1>2 DEF Filed
  <2>2. result \notin {"nodes", "empty"} => f \in Filed'
    <3>1. <<f, result>>[1] = f
      OBVIOUS
    <3>2. result \notin {"nodes", "empty"} => <<f, result>> \in errors'
      BY <1>2
    <3>3. QED  BY <3>1, <3>2 DEF Filed
  <2>3. \A h \in File \ Entered' : stored'[h] = NoFile /\ h \notin Filed'
    BY <1>1, <1>3, <1>6, <2>1 DEF OneEntry
  <2>4. \A h \in Entered' : stored'[h] # NoFile \/ h \in Filed'
    BY <1>1, <1>3, <1>4, <1>6, <2>1, <2>2 DEF OneEntry, Storable, Answers
  <2>5. \A e, d \in errors' : e[1] = d[1] => e = d
    BY <1>1, <1>2, <1>5 DEF OneEntry
  <2>6. QED  BY <2>3, <2>4, <2>5 DEF OneEntry
<1>8. TriedAgain'
  BY <1>1, <1>2 DEF TriedAgain
<1>9. Failures' = IF Counter(result) = "errored" THEN Failures \cup {f} ELSE Failures
  <2>1. \A h \in Entered : <<h, "large">> \in errors' <=> <<h, "large">> \in errors
    BY <1>2, <1>3
  <2>2. <<f, "large">> \in errors' <=> result = "large"
    BY <1>2, <1>5
  <2>3. Counter(result) = "errored" <=> result \notin Storable /\ result # "large"
    BY DEF Counter, Storable, Answers, Result, Unparsed, Rejections
  <2>4. QED  BY <1>3, <1>4, <1>6, <2>1, <2>2, <2>3 DEF Failures
<1>10. Sums'
  <2>1. Counter(result) \in Counters /\ count \in [Counters -> Int]
    BY <1>1 DEF Counter, Counters, BooksType
  <2>2. /\ count'["indexed"] + count'["skipped"] + count'["errored"]
             = count["indexed"] + count["skipped"] + count["errored"] + 1
        /\ count'["errored"] = IF Counter(result) = "errored" THEN count["errored"] + 1 ELSE count["errored"]
    BY <1>2, <2>1 DEF Counters
  <2>3. Cardinality(Entered') = Cardinality(Entered) + 1
    BY <1>1, <1>3, EnteredFinite, FS_AddElement
  <2>4. Cardinality(Failures \cup {f}) = Cardinality(Failures) + 1
    <3>1. f \notin Failures
      BY <1>3 DEF Failures
    <3>2. QED  BY <1>1, <3>1, EnteredFinite, FS_AddElement
  <2>5. QED  BY <1>1, <1>2, <1>9, <2>2, <2>3, <2>4 DEF Sums
<1>11. QED  BY <1>7, <1>8, <1>10 DEF Balanced

(* A retry that succeeds moves the file from failed to indexed.            *)
LEMMA RecordRetryBalanced ==
    ASSUME SafetyInv, Balanced, pass \in {"retry", "strip"}, NEW f \in File, f \in Open,
           Open' \subseteq Open, NEW g, NEW result \in Result, result \in Storable => g = f,
           RecordRetry(f, g, result), step' = "next"
    PROVE  Balanced'
<1>1. BooksType /\ LoopType /\ OneEntry /\ TriedAgain /\ Sums
  BY Parts DEF Balanced
<1>2. <<f, "large">> \notin errors /\ Entered = File
  BY <1>1 DEF TriedAgain, Entered
<1>3. CASE /\ result \in Storable /\ pass' = pass /\ again' = again
           /\ stored' = [stored EXCEPT ![f] = g]
           /\ errors' = {e \in errors : e[1] # f}
           /\ count' = [count EXCEPT !["errored"] = @ - 1, !["indexed"] = @ + 1]
           /\ miscounted' = (miscounted \/ stored[f] # NoFile)
  <2>1. Entered' = File /\ NoFile # f /\ stored'[f] = f /\ \A h \in File : h # f => stored'[h] = stored[h]
    BY <1>1, <1>3, IndexAllAssumption DEF Entered, BooksType
  <2>2. \A h : h # f => (h \in Filed' <=> h \in Filed)
    BY <1>3 DEF Filed
  <2>3. OneEntry'
    BY <1>1, <1>2, <1>3, <2>1, <2>2 DEF OneEntry
  <2>4. TriedAgain'
    BY <1>1, <1>3 DEF TriedAgain
  <2>5. Failures' = Failures \ {f}
    <3>1. \A h \in File : h # f => (<<h, "large">> \in errors' <=> <<h, "large">> \in errors)
      BY <1>3
    <3>2. QED  BY <1>2, <2>1, <3>1 DEF Failures
  <2>6. stored[f] = NoFile => Cardinality(Failures') = Cardinality(Failures) - 1
    <3>1. stored[f] = NoFile => f \in Failures
      BY <1>2 DEF Failures
    <3>2. QED  BY <1>1, <2>5, <3>1, EnteredFinite, FS_RemoveElement
  <2>7. /\ count'["indexed"] + count'["skipped"] + count'["errored"]
             = count["indexed"] + count["skipped"] + count["errored"]
        /\ count'["errored"] = count["errored"] - 1
    BY <1>1, <1>3 DEF BooksType, Counters
  <2>8. Sums'
    BY <1>1, <1>2, <1>3, <2>1, <2>6, <2>7 DEF Sums, BooksType
  <2>9. QED  BY <2>3, <2>4, <2>8 DEF Balanced
<1>4. CASE pass' = "failed"
  BY <1>4 DEF Balanced
<1>5. CASE /\ again' \subseteq again \cup {f}
           /\ UNCHANGED <<pass, stored, errors, count, miscounted>>
  <2>1. Entered' = Entered /\ Failures' = Failures
    BY <1>5 DEF Entered, Failures
  <2>2. OneEntry' /\ Sums'
    BY <1>1, <1>5, <2>1 DEF OneEntry, Sums, Filed
  <2>3. TriedAgain'
    BY <1>1, <1>2, <1>5 DEF TriedAgain
  <2>4. QED  BY <2>2, <2>3 DEF Balanced
<1>6. QED  BY <1>3, <1>4, <1>5 DEF RecordRetry

LEMMA SettleBalanced ==
    ASSUME SafetyInv, Balanced, step = "waiting", NEW g, NEW result \in Result,
           result \in Storable => g = cur, Settle(g, result)
    PROVE  Balanced'
<1>1. /\ cur \in File /\ cur # NoFile /\ step' = "next" /\ UNCHANGED <<todo, cur>>
      /\ pass \in {"first", "retry", "strip"}
  BY Parts, IndexAllAssumption DEF Fits, Settle
<1>2. cur \in Open /\ Open' = Open \ {cur}
  BY <1>1 DEF Balanced, OneEntry, Open
<1>3. CASE pass = "first"
  <2>1. Record(cur, g, result)
    BY <1>3 DEF Settle
  <2>2. QED  BY <1>1, <1>2, <1>3, <2>1, RecordBalanced
<1>4. CASE pass # "first"
  <2>1. RecordRetry(cur, g, result)
    BY <1>4 DEF Settle
  <2>2. Open' \subseteq Open
    BY <1>2
  <2>3. QED  BY <1>1, <1>2, <1>4, <2>1, <2>2, RecordRetryBalanced
<1>5. QED  BY <1>3, <1>4

(* Nothing about the loop changes.                                         *)
LEMMA BalancedIdle ==
    ASSUME SafetyInv, Balanced, UNCHANGED <<control, books>>
    PROVE  Balanced'
  BY DEF Balanced, OneEntry, TriedAgain, Sums, Entered, Failures, Open, Filed, control, books

LEMMA RejectBalanced ==
    ASSUME SafetyInv, Balanced, NEW reason \in Rejections, rejectAllPending(reason)
    PROVE  Balanced'
<1>1. OneInFlight /\ reason \in Result /\ reason \notin Storable
  BY Parts DEF Result, Rejections, Storable, Answers
<1>2. CASE pendingParses # {}
  <2>1. step = "waiting" /\ Settle(NoFile, reason)
    BY <1>1, <1>2 DEF OneInFlight, rejectAllPending
  <2>2. QED  BY <1>1, <2>1, SettleBalanced
<1>3. CASE UNCHANGED <<control, books>>
  BY <1>3, BalancedIdle
<1>4. QED  BY <1>2, <1>3 DEF rejectAllPending

LEMMA DeliverBalanced ==
    ASSUME SafetyInv, Balanced, NEW m, Deliver(m)
    PROVE  Balanced'
<1>1. PoolType /\ OneInFlight /\ Numbered /\ m \in mail
  BY Parts DEF Deliver
<1>2. m.job.id \in Nat /\ m.result \in Answers
  BY <1>1, MailFiles
<1>3. CASE m.job.id \in pendingParses
  <2>1. step = "waiting" /\ m.job.file = cur
    BY <1>1, <1>2, <1>3 DEF OneInFlight, Numbered, Known
  <2>2. Settle(m.job.file, m.result) /\ m.result \in Result
    BY <1>2, <1>3 DEF Deliver, Result
  <2>3. QED  BY <2>1, <2>2, SettleBalanced
<1>4. CASE UNCHANGED <<control, books>>
  BY <1>4, BalancedIdle
<1>5. QED  BY <1>3, <1>4 DEF Deliver

LEMMA TakeBalanced ==
    ASSUME SafetyInv, Balanced, NEW f \in File, Loop(f)
    PROVE  Balanced'
<1>1. /\ f \in todo /\ step = "next" /\ todo' = todo \ {f} /\ f # NoFile
      /\ pass \in {"first", "retry", "strip"}
  BY IndexAllAssumption DEF Loop, SkipFile, RequestHere, RequestFresh, MayTake
<1>2. CASE RequestHere(f) \/ RequestFresh(f)
  <2>1. cur' = f /\ step' # "next" /\ UNCHANGED <<pass, books>>
    BY <1>2 DEF RequestHere, RequestFresh, Post
  <2>2. Open' = Open
    BY <1>1, <2>1 DEF Open
  <2>3. QED  BY <1>1, <2>1, <2>2, BalancedQuiet
<1>3. CASE SkipFile(f)
  <2>1. step' = "next" /\ cur' = cur
    BY <1>1, <1>3 DEF SkipFile
  <2>2. f \in Open /\ Open' = Open \ {f}
    BY <1>1, <2>1 DEF Open
  <2>3. CASE pass = "first" /\ \E r \in Unparsed \cap Outcomes[f] : Record(f, NoFile, r)
    <3>1. PICK r \in Unparsed : Record(f, NoFile, r)
      BY <2>3
    <3>2. r \in Result /\ r \notin Storable
      BY DEF Result, Unparsed, Storable, Answers
    <3>3. QED  BY <2>1, <2>2, <2>3, <3>1, <3>2, RecordBalanced
  <2>4. CASE pass # "first" /\ UNCHANGED <<pass, books>>
    BY <2>1, <2>2, <2>4, BalancedQuiet
  <2>5. QED  BY <1>3, <2>3, <2>4 DEF SkipFile
<1>4. QED  BY <1>2, <1>3 DEF Loop

(* When a pass ends nothing is open.                                       *)
LEMMA EndBalanced ==
    ASSUME SafetyInv, Balanced, EndPass
    PROVE  Balanced'
<1>1. step = "next" /\ step' = "next" /\ UNCHANGED books /\ (todo = {} \/ pass # "first")
  BY DEF EndPass
<1>2. /\ pass \in {"first", "retry", "strip"} /\ pass' \in {"retry", "strip", "done"}
      /\ pass = "first" => todo = {} /\ pass' = "retry"
                           /\ todo' = {f \in File : \E r \in Retryable : <<f, r>> \in errors}
      /\ pass = "retry" => pass' = "strip" /\ todo' = again
      /\ pass = "strip" => pass' = "done"
  BY DEF EndPass
<1>3. OneEntry /\ TriedAgain /\ Sums
  BY <1>2 DEF Balanced
<1>4. Entered = File /\ Entered' = File /\ Failures' = Failures /\ Open' = todo'
  BY <1>1, <1>2 DEF Entered, Failures, Open, books
<1>5. OneEntry' /\ Sums'
  BY <1>1, <1>3, <1>4 DEF OneEntry, Sums, Filed, books
<1>6. TriedAgain'
  <2>1. CASE pass = "first"
    <3>1. \A f \in todo' : <<f, "large">> \notin errors
      <4> SUFFICES ASSUME NEW f, NEW r \in Retryable, <<f, r>> \in errors, <<f, "large">> \in errors
                   PROVE  FALSE
        BY <1>2, <2>1
      <4>1. <<f, r>>[1] = f /\ <<f, "large">>[1] = f /\ r # "large"
        BY DEF Retryable
      <4>2. <<f, r>> = <<f, "large">>
        BY <1>3, <4>1 DEF OneEntry
      <4>3. QED  BY <4>1, <4>2
    <3>2. QED  BY <1>1, <1>2, <1>3, <1>4, <2>1, <3>1 DEF TriedAgain, books
  <2>2. CASE pass # "first"
    BY <1>1, <1>2, <1>3, <1>4, <2>2 DEF TriedAgain, books
  <2>3. QED  BY <2>1, <2>2
<1>7. QED  BY <1>5, <1>6 DEF Balanced

LEMMA NextBalanced ==
    ASSUME SafetyInv, Balanced, [Next]_vars
    PROVE  Balanced'
<1>1. CASE \E f \in File : Loop(f)
  BY <1>1, TakeBalanced
<1>2. CASE Loaded
  <2>1. /\ step = "loading" /\ UNCHANGED <<pass, todo, cur, books>> /\ step' \in {"next", "waiting"}
        /\ step' = "next" => cur = NoFile
    BY <1>2 DEF Loaded, Post
  <2>2. Open' = Open /\ (pass \in {"first", "retry", "strip"} => cur \notin todo)
    BY <2>1 DEF Open, Balanced, OneEntry
  <2>3. pass \in {"first", "retry", "strip"}
    BY <2>1, Parts DEF Fits
  <2>4. QED  BY <2>1, <2>2, <2>3, BalancedQuiet
<1>3. CASE EndPass
  BY <1>3, EndBalanced
<1>4. CASE AbortReturn
  BY <1>4 DEF AbortReturn, Balanced
<1>5. CASE Abort \/ Work \/ DieLoading \/ UNCHANGED vars
  BY <1>5, BalancedIdle DEF Abort, Work, Parse, Die, DieLoading, vars
<1>6. CASE Delivery
  BY <1>6, DeliverBalanced DEF Delivery
<1>7. CASE WorkerExits \/ TerminatedExits
  <2>1. PICK reason \in Rejections : rejectAllPending(reason)
    BY <1>7 DEF WorkerExits, TerminatedExits, Rejections
  <2>2. QED  BY <2>1, RejectBalanced
<1>8. CASE Timeout
  <2>1. "timeout" \in Result /\ "timeout" \notin Storable
    BY DEF Result, Rejections, Storable, Answers
  <2>2. QED  BY <1>8, <2>1, SettleBalanced DEF Timeout
<1>9. QED  BY <1>1, <1>2, <1>3, <1>4, <1>5, <1>6, <1>7, <1>8 DEF Next, Main

-----------------------------------------------------------------------------
(* The shapes of all variables, with the bound on a worker's parses:       *)
(* workers are recycled in time whatever resets their count.               *)
THEOREM TypeCorrect == Spec => []TypeOK
<1>1. SafetyInv => TypeOK
  BY DEF SafetyInv
<1>2. QED  BY Safety, <1>1, PTL

(* Every await of the loop has its own request pending, and no other.      *)
THEOREM OneInFlightHolds == Spec => []OneInFlight
<1>1. SafetyInv => OneInFlight
  BY DEF SafetyInv
<1>2. QED  BY Safety, <1>1, PTL

(* No late or stale answer is stored as the symbols of another file.       *)
THEOREM NoMixUpHolds == Spec => []NoMixUp
<1>1. SafetyInv => NoMixUp
  BY DEF SafetyInv
<1>2. QED  BY Safety, <1>1, PTL

(* A healthy file is in the store when indexAll() ends, unless its request *)
(* was queued behind another file's or was cut off in the third attempt.   *)
THEOREM HealthyIsIndexedHolds == Spec => []HealthyIsIndexed
<1>1. HealthyInv => HealthyIsIndexed
  BY DEF HealthyInv
<1>2. QED  BY Safety, InitHealthy, NextHealthy, <1>1, PTL DEF Spec

(* A call that runs to its end has stored each file or says why not, and   *)
(* its counters add up to the files and to the failures reported.          *)
THEOREM AccountedForHolds == Spec => []AccountedFor
<1>1. Balanced => AccountedFor
  BY DEF Balanced, OneEntry, Sums, Entered, Failures, AccountedFor
<1>2. SafetyInv /\ Balanced /\ [Next]_vars => Balanced'
  BY NextBalanced
<1>3. QED  BY Safety, InitBalanced, <1>1, <1>2, PTL DEF Spec
=============================================================================
