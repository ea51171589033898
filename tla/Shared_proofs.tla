---------------------------- MODULE Shared_proofs ---------------------------
(***************************************************************************)
(* Proofs about what the operations of one process, or the processes of    *)
(* one user, share: class Mutex and the operations of class CodeGraph that *)
(* use it, for any set of callers, any choice of the callers that may      *)
(* barge and of what each caller does; the lock file, for any number of    *)
(* processes and lock objects; and the telemetry queue with its claims,    *)
(* for any number of processes, lines, failures and crashes.               *)
(***************************************************************************)
EXTENDS Facade, FileLock, Telemetry, FiniteSetTheorems, TLAPS

(* The flag tells the truth about the critical section.                    *)
FlagOK == locked <=> \E c \in Caller : pc[c] = "holding"

(* Queue q holds each caller that f puts in state s, once, and no other.   *)
Lists(f, q, s) ==
    /\ q \in Seq(Caller)
    /\ \A i, j \in 1..Len(q) : q[i] = q[j] => i = j
    /\ \A i \in 1..Len(q) : f[q[i]] = s
    /\ \A c \in Caller : f[c] = s => \E i \in 1..Len(q) : q[i] = c

QueuesOK == Lists(pc, waitQueue, "waiting") /\ Lists(pc, jobs, "woken")

(* NoLostWakeup speaks of parked callers, the code of its queue: QueuesOK  *)
(* ties the two together, and FlagOK the flag to the callers inside.       *)
IInv == TypeOK /\ FlagOK /\ MutualExclusion /\ QueuesOK /\ NoLostWakeup
-----------------------------------------------------------------------------
(* A list stays exact while nobody enters or leaves state s.               *)
LEMMA SameLists ==
    ASSUME NEW f, NEW g, NEW q, NEW s, Lists(f, q, s),
           \A d \in Caller : g[d] = s <=> f[d] = s
    PROVE  Lists(g, q, s)
<1>1. \A i \in 1..Len(q) : q[i] \in Caller
  BY DEF Lists
<1>2. QED  BY <1>1 DEF Lists

(* The head of a list is a caller in state s.                              *)
LEMMA HeadLists ==
    ASSUME NEW f, NEW q, NEW s, Lists(f, q, s), q # << >>
    PROVE  Head(q) \in Caller /\ f[Head(q)] = s
<1>1. q \in Seq(Caller) /\ 1 \in 1..Len(q) /\ Head(q) = q[1]
  BY DEF Lists
<1>2. QED  BY <1>1 DEF Lists

(* Appending the caller that enters state s keeps the list exact.          *)
LEMMA AppendLists ==
    ASSUME NEW f, NEW g, NEW q, NEW s, NEW c \in Caller, Lists(f, q, s),
           f[c] # s, g[c] = s,
           \A d \in Caller \ {c} : g[d] = s <=> f[d] = s
    PROVE  Lists(g, Append(q, c), s)
<1> DEFINE r == Append(q, c)
<1>1. /\ r \in Seq(Caller) /\ Len(r) = Len(q) + 1 /\ Len(q) \in Nat
      /\ \A i \in 1..Len(q) : r[i] = q[i] /\ q[i] \in Caller
      /\ r[Len(q) + 1] = c
  BY DEF Lists
<1> HIDE DEF r
<1>2. \A i \in 1..Len(q) : q[i] # c
  BY DEF Lists
<1>3. \A i \in 1..Len(r) : i \in 1..Len(q) \/ i = Len(q) + 1
  BY <1>1
<1>4. \A i, j \in 1..Len(r) : r[i] = r[j] => i = j
  BY <1>1, <1>2, <1>3 DEF Lists
<1>5. \A i \in 1..Len(r) : g[r[i]] = s
  BY <1>1, <1>2, <1>3 DEF Lists
<1>6. ASSUME NEW d \in Caller, g[d] = s
      PROVE  \E i \in 1..Len(r) : r[i] = d
  <2>1. CASE d = c
    BY <2>1, <1>1
  <2>2. CASE d # c
    <3>1. PICK i \in 1..Len(q) : q[i] = d
      BY <2>2, <1>6 DEF Lists
    <3>2. i \in 1..Len(r) /\ r[i] = d
      BY <3>1, <1>1
    <3>3. QED  BY <3>2
  <2>3. QED  BY <2>1, <2>2
<1>7. QED  BY <1>1, <1>4, <1>5, <1>6 DEF r, Lists

(* Removing the head, which leaves state s, keeps the list exact.          *)
LEMMA TailLists ==
    ASSUME NEW f, NEW g, NEW q, NEW s, Lists(f, q, s), q # << >>,
           g[Head(q)] # s,
           \A d \in Caller \ {Head(q)} : g[d] = s <=> f[d] = s
    PROVE  Lists(g, Tail(q), s)
<1> DEFINE r == Tail(q)
<1>1. /\ r \in Seq(Caller) /\ Len(r) = Len(q) - 1 /\ Len(q) \in Nat /\ Len(q) > 0
      /\ \A i \in 1..Len(r) : r[i] = q[i + 1]
      /\ Head(q) = q[1]
      /\ \A i \in 1..Len(q) : q[i] \in Caller
  BY DEF Lists
<1> HIDE DEF r
<1>2. \A i \in 1..Len(r) : i + 1 \in 1..Len(q) /\ r[i] \in Caller \ {Head(q)}
  BY <1>1 DEF Lists
<1>3. \A i, j \in 1..Len(r) : r[i] = r[j] => i = j
  <2>1. SUFFICES ASSUME NEW i \in 1..Len(r), NEW j \in 1..Len(r), r[i] = r[j]
                 PROVE  i = j
    OBVIOUS
  <2>2. q[i + 1] = q[j + 1]
    BY <2>1, <1>1
  <2>3. i + 1 = j + 1
    BY <2>2, <1>2 DEF Lists
  <2>4. QED  BY <2>3
<1>4. \A i \in 1..Len(r) : g[r[i]] = s
  BY <1>1, <1>2 DEF Lists
<1>5. ASSUME NEW d \in Caller, g[d] = s
      PROVE  \E i \in 1..Len(r) : r[i] = d
  <2>1. d # Head(q) /\ f[d] = s
    BY <1>5
  <2>2. PICK i \in 1..Len(q) : q[i] = d
    BY <2>1 DEF Lists
  <2>3. i # 1
    BY <2>1, <2>2, <1>1
  <2>4. i - 1 \in 1..Len(r) /\ r[i - 1] = q[(i - 1) + 1] /\ (i - 1) + 1 = i
    BY <2>3, <1>1
  <2>5. QED  BY <2>2, <2>4
<1>6. QED  BY <1>1, <1>3, <1>4, <1>5 DEF r, Lists
-----------------------------------------------------------------------------
LEMMA InitInv == Init => IInv
<1> SUFFICES ASSUME Init PROVE IInv
  OBVIOUS
<1>1. \A c \in Caller : pc[c] = "idle"
  BY DEF Init
<1>2. TypeOK
  <2>1. << >> \in Seq(Caller)
    OBVIOUS
  <2>2. pc \in [Caller -> {"idle", "waiting", "woken", "holding"}]
    BY DEF Init
  <2>3. QED  BY <2>1, <2>2 DEF Init, TypeOK
<1>3. FlagOK /\ MutualExclusion /\ NoLostWakeup
  BY <1>1 DEF Init, FlagOK, MutualExclusion, NoLostWakeup
<1>4. << >> \in Seq(Caller) /\ 1..Len(<< >>) = {}
  OBVIOUS
<1>5. QueuesOK
  BY <1>1, <1>4 DEF Init, QueuesOK, Lists
<1>6. QED  BY <1>2, <1>3, <1>5 DEF IInv

(* Taking a free mutex, from either place where acquire() tests the flag.  *)
LEMMA TakeInv ==
    ASSUME IInv, NEW c \in Caller, Take(c), pc[c] \notin {"waiting", "holding"}
    PROVE  /\ locked' \in BOOLEAN /\ pc' \in [Caller -> {"idle", "waiting", "woken", "holding"}]
           /\ FlagOK' /\ MutualExclusion' /\ NoLostWakeup'
           /\ Lists(pc', waitQueue', "waiting")
<1>1. /\ locked' = TRUE /\ waitQueue' = waitQueue /\ ~locked
      /\ pc' = [pc EXCEPT ![c] = "holding"]
  BY DEF Take
<1>2. TypeOK /\ FlagOK /\ MutualExclusion /\ Lists(pc, waitQueue, "waiting")
  BY DEF IInv, QueuesOK
<1>3. \A d \in Caller : pc'[d] = "waiting" <=> pc[d] = "waiting"
  BY <1>1, <1>2 DEF TypeOK
<1>4. Lists(pc', waitQueue', "waiting")
  BY <1>1, <1>2, <1>3, SameLists
<1>5. FlagOK' /\ MutualExclusion' /\ NoLostWakeup'
  BY <1>1, <1>2 DEF TypeOK, FlagOK, MutualExclusion, NoLostWakeup
<1>6. QED  BY <1>1, <1>2, <1>4, <1>5 DEF TypeOK

(* Parking on a busy mutex, from either place.                             *)
LEMMA ParkInv ==
    ASSUME IInv, NEW c \in Caller, Park(c), pc[c] \notin {"waiting", "holding"}
    PROVE  /\ locked' \in BOOLEAN /\ pc' \in [Caller -> {"idle", "waiting", "woken", "holding"}]
           /\ FlagOK' /\ MutualExclusion' /\ NoLostWakeup'
           /\ Lists(pc', waitQueue', "waiting")
<1>1. /\ locked /\ locked' = locked /\ waitQueue' = Append(waitQueue, c)
      /\ pc' = [pc EXCEPT ![c] = "waiting"]
  BY DEF Park
<1>2. TypeOK /\ FlagOK /\ MutualExclusion /\ Lists(pc, waitQueue, "waiting")
  BY DEF IInv, QueuesOK
<1>3. /\ pc'[c] = "waiting" /\ pc[c] # "waiting"
      /\ \A d \in Caller \ {c} : pc'[d] = "waiting" <=> pc[d] = "waiting"
  BY <1>1, <1>2 DEF TypeOK
<1>4. Lists(pc', waitQueue', "waiting")
  BY <1>1, <1>2, <1>3, AppendLists
<1>5. FlagOK' /\ MutualExclusion' /\ NoLostWakeup'
  BY <1>1, <1>2 DEF TypeOK, FlagOK, MutualExclusion, NoLostWakeup
<1>6. QED  BY <1>1, <1>2, <1>4, <1>5 DEF TypeOK

(* The first test of acquire().                                            *)
LEMMA AcquireInv ==
    ASSUME IInv, NEW c \in Caller, Acquire(c)
    PROVE  IInv'
<1>1. pc[c] = "idle" /\ jobs' = jobs
  BY DEF Acquire
<1>2. TypeOK /\ Lists(pc, jobs, "woken")
  BY DEF IInv, QueuesOK
<1>3. Take(c) \/ Park(c)
  BY DEF Acquire, Loop
<1>4. \A d \in Caller : pc'[d] = "woken" <=> pc[d] = "woken"
  BY <1>1, <1>2, <1>3 DEF Take, Park, TypeOK
<1>5. Lists(pc', jobs', "woken")
  BY <1>1, <1>2, <1>4, SameLists
<1>6. QED
  BY <1>1, <1>3, <1>5, TakeInv, ParkInv DEF IInv, TypeOK, QueuesOK, Lists

(* A woken waiter leaves jobs and tests the flag again.                    *)
LEMMA ResumeInv ==
    ASSUME IInv, NEW c \in Caller, Resume(c)
    PROVE  IInv'
<1>1. jobs # << >> /\ c = Head(jobs) /\ jobs' = Tail(jobs)
  BY DEF Resume
<1>2. TypeOK /\ Lists(pc, jobs, "woken")
  BY DEF IInv, QueuesOK
<1>3. pc[c] = "woken"
  BY <1>1, <1>2, HeadLists
<1>4. Take(c) \/ Park(c)
  BY DEF Resume, Loop
<1>5. /\ pc'[c] # "woken"
      /\ \A d \in Caller \ {c} : pc'[d] = "woken" <=> pc[d] = "woken"
  BY <1>2, <1>4 DEF Take, Park, TypeOK
<1>6. Lists(pc', jobs', "woken")
  BY <1>1, <1>2, <1>5, TailLists
<1>7. QED
  BY <1>3, <1>4, <1>6, TakeInv, ParkInv DEF IInv, TypeOK, QueuesOK, Lists

(* release(): the holder leaves, and the oldest waiter moves to jobs.      *)
LEMMA ReleaseInv ==
    ASSUME IInv, NEW c \in Caller, Release(c)
    PROVE  IInv'
<1>1. pc[c] = "holding" /\ locked' = FALSE
  BY DEF Release
<1>2. /\ TypeOK /\ FlagOK /\ MutualExclusion
      /\ Lists(pc, waitQueue, "waiting") /\ Lists(pc, jobs, "woken")
  BY DEF IInv, QueuesOK
<1>3. CASE waitQueue = << >>
  <2>1. pc' = [pc EXCEPT ![c] = "idle"] /\ waitQueue' = waitQueue /\ jobs' = jobs
    BY <1>3 DEF Release, WakeNext
  <2>2. \A d \in Caller : pc[d] # "waiting"
    BY <1>2, <1>3 DEF Lists
  <2>3. \A d \in Caller, s \in {"waiting", "woken"} : pc'[d] = s <=> pc[d] = s
    BY <1>1, <1>2, <2>1 DEF TypeOK
  <2>4. QueuesOK'
    BY <1>2, <2>1, <2>3, SameLists DEF QueuesOK
  <2>5. TypeOK' /\ FlagOK' /\ MutualExclusion' /\ NoLostWakeup'
    BY <1>1, <1>2, <2>1, <2>2
    DEF TypeOK, FlagOK, MutualExclusion, NoLostWakeup
  <2>6. QED  BY <2>4, <2>5 DEF IInv
<1>4. CASE waitQueue # << >>
  <2> DEFINE w == Head(waitQueue)
  <2>1. /\ waitQueue' = Tail(waitQueue) /\ jobs' = Append(jobs, w)
        /\ pc' = [pc EXCEPT ![c] = "idle", ![w] = "woken"]
    BY <1>4 DEF Release, WakeNext
  <2>2. w \in Caller /\ pc[w] = "waiting"
    BY <1>2, <1>4, HeadLists
  <2>3. /\ pc' \in [Caller -> {"idle", "waiting", "woken", "holding"}]
        /\ pc'[w] = "woken" /\ pc'[c] = "idle" /\ w # c
        /\ \A d \in Caller \ {c, w} : pc'[d] = pc[d]
    <3> HIDE DEF w
    <3>1. QED  BY <1>1, <1>2, <2>1, <2>2 DEF TypeOK
  <2>4. Lists(pc', waitQueue', "waiting")
    <3>1. /\ pc'[w] # "waiting"
          /\ \A d \in Caller \ {w} : pc'[d] = "waiting" <=> pc[d] = "waiting"
      BY <1>1, <2>3
    <3>2. QED  BY <1>2, <1>4, <2>1, <3>1, TailLists
  <2>5. Lists(pc', jobs', "woken")
    <3>1. /\ pc[w] # "woken" /\ pc'[w] = "woken"
          /\ \A d \in Caller \ {w} : pc'[d] = "woken" <=> pc[d] = "woken"
      BY <1>1, <2>2, <2>3
    <3> HIDE DEF w
    <3>2. QED  BY <1>2, <2>1, <2>2, <3>1, AppendLists
  <2>6. FlagOK' /\ MutualExclusion'
    <3> HIDE DEF w
    <3>1. QED  BY <1>1, <1>2, <2>2, <2>3 DEF FlagOK, MutualExclusion
  <2>7. jobs' # << >>
    <3> HIDE DEF w
    <3>1. jobs \in Seq(Caller)
      BY <1>2 DEF Lists
    <3>2. QED  BY <2>1, <2>2, <3>1
  <2>8. TypeOK'
    BY <1>1, <2>3, <2>4, <2>5 DEF TypeOK, Lists
  <2>9. QED  BY <2>4, <2>5, <2>6, <2>7, <2>8 DEF IInv, QueuesOK, NoLostWakeup
<1>5. QED  BY <1>3, <1>4

LEMMA StutterInv == IInv /\ UNCHANGED vars => IInv'
BY DEF vars, IInv, TypeOK, FlagOK, MutualExclusion, QueuesOK, Lists, NoLostWakeup

(* The conjunction is inductive.                                           *)
LEMMA Invariance == Spec => []IInv
<1>1. IInv /\ [Next]_vars => IInv'
  BY AcquireInv, ResumeInv, ReleaseInv, StutterInv DEF Next
<1>2. QED  BY InitInv, <1>1, PTL DEF Spec

(* Two callers are never inside the critical section together, whatever    *)
(* the number of callers and whoever barges.                               *)
THEOREM MutualExclusionHolds == Spec => []MutualExclusion
<1>1. IInv => MutualExclusion
  BY DEF IInv
<1>2. QED  BY Invariance, <1>1, PTL

(* release() and the retest in acquire() never lose the last wake-up.      *)
THEOREM NoLostWakeupHolds == Spec => []NoLostWakeup
<1>1. IInv => NoLostWakeup
  BY DEF IInv
<1>2. QED  BY Invariance, <1>1, PTL
-----------------------------------------------------------------------------
(* The mapping sends the caller inside, if any, to the abstract owner.     *)
OwnerTells ==
    /\ \A c \in Caller : pc[c] = "holding" => Owner = c
    /\ (\A c \in Caller : pc[c] # "holding") => Owner = NoCaller

LEMMA OwnerOf == MutualExclusion => OwnerTells
<1> SUFFICES ASSUME MutualExclusion PROVE OwnerTells
  OBVIOUS
<1>1. ASSUME NEW c \in Caller, pc[c] = "holding"  PROVE Owner = c
  <2>1. Holders = {c}
    BY <1>1 DEF MutualExclusion, Holders
  <2>2. QED  BY <2>1 DEF Owner
<1>2. ASSUME \A c \in Caller : pc[c] # "holding"  PROVE Owner = NoCaller
  BY <1>2 DEF Owner, Holders
<1>3. QED  BY <1>1, <1>2 DEF OwnerTells

(* Each step of the mutex is a step of the abstract lock or leaves it as   *)
(* it is: a woken waiter that parks again is still asking.                 *)
LEMMA StepRefines ==
    ASSUME IInv, IInv', [Next]_vars
    PROVE  [Abstract!SNext]_(Abstract!svars)
<1> USE DEF Abstract!SNext, Abstract!svars
<1>1. /\ TypeOK /\ FlagOK /\ MutualExclusion /\ MutualExclusion'
      /\ Lists(pc, waitQueue, "waiting") /\ Lists(pc, jobs, "woken")
  BY DEF IInv, QueuesOK
<1>2. OwnerTells /\ OwnerTells'
  BY <1>1, OwnerOf, PTL
<1>3. ASSUME NEW c \in Caller, Take(c), pc[c] \in {"idle", "woken"}
      PROVE  Abstract!SEnter(c)
  <2>1. Owner = NoCaller
    BY <1>1, <1>2, <1>3 DEF Take, FlagOK, OwnerTells
  <2>2. pc' = [pc EXCEPT ![c] = "holding"]
    BY <1>3 DEF Take
  <2>3. Owner' = c /\ Asking' = Asking \ {c} /\ (c \in Asking <=> pc[c] = "woken")
    BY <1>1, <1>2, <1>3, <2>2 DEF TypeOK, Asking, OwnerTells
  <2>4. QED
    BY <1>3, <2>1, <2>3
    DEF Abstract!SEnter, Abstract!SEnterAtOnce, Abstract!SGrant, Asking
<1>4. ASSUME NEW c \in Caller, Park(c), pc[c] \in {"idle", "woken"}
      PROVE  Abstract!SAsk(c) \/ UNCHANGED <<Owner, Asking>>
  <2>1. locked /\ pc' = [pc EXCEPT ![c] = "waiting"]
    BY <1>4 DEF Park
  <2>2. PICK h \in Caller : pc[h] = "holding"
    BY <1>1, <2>1 DEF FlagOK
  <2>3. Owner = h /\ h # c /\ pc'[h] = "holding"
    BY <1>1, <1>2, <1>4, <2>1, <2>2 DEF TypeOK, OwnerTells
  <2>4. Owner' = Owner
    BY <1>2, <2>3 DEF OwnerTells
  <2>5. Asking' = Asking \cup {c}
    BY <1>1, <2>1 DEF TypeOK, Asking
  <2>6. QED  BY <2>3, <2>4, <2>5 DEF Abstract!SAsk
<1>5. ASSUME NEW c \in Caller, Acquire(c)  PROVE Abstract!SNext \/ UNCHANGED <<Owner, Asking>>
  BY <1>3, <1>4, <1>5 DEF Acquire, Loop
<1>6. ASSUME NEW c \in Caller, Resume(c)  PROVE Abstract!SNext \/ UNCHANGED <<Owner, Asking>>
  <2>1. pc[c] = "woken"
    BY <1>1, <1>6, HeadLists DEF Resume
  <2>2. QED  BY <1>3, <1>4, <1>6, <2>1 DEF Resume, Loop
<1>7. ASSUME NEW c \in Caller, Release(c)  PROVE Abstract!SLeave(c)
  <2>1. pc[c] = "holding" /\ Owner = c
    BY <1>1, <1>2, <1>7 DEF Release, OwnerTells
  <2>2. waitQueue # << >> =>
           Head(waitQueue) \in Caller /\ pc[Head(waitQueue)] = "waiting"
    BY <1>1, HeadLists
  <2>3. /\ \A d \in Caller : pc'[d] # "holding"
        /\ \A d \in Caller : pc'[d] \in {"waiting", "woken"} <=> pc[d] \in {"waiting", "woken"}
    BY <1>1, <1>7, <2>1, <2>2 DEF Release, WakeNext, TypeOK, MutualExclusion
  <2>4. Owner' = NoCaller /\ Asking' = Asking
    BY <1>2, <2>3 DEF Asking, OwnerTells
  <2>5. QED  BY <2>1, <2>4 DEF Abstract!SLeave
<1>8. CASE UNCHANGED vars
  BY <1>8 DEF vars, Owner, Asking, Holders
<1>9. QED  BY <1>5, <1>6, <1>7, <1>8 DEF Next

(* The promise-based mutex implements the abstract lock, for every set of  *)
(* callers: the safety half of ImplementsMutexSpec.                        *)
THEOREM Refinement == Spec => Abstract!SSafety
<1>1. Init => Abstract!SInit
  BY DEF Init, Abstract!SInit, Owner, Asking, Holders
<1>2. QED  BY Invariance, StepRefines, <1>1, PTL DEF Spec, Abstract!SSafety
-----------------------------------------------------------------------------
(* The facade.  Its steps are steps of the mutex, so that what is proved   *)
(* of the mutex holds of it.                                               *)
LEMMA FacadeStep == [FacadeNext]_allVars => [Next]_vars
<1> SUFFICES ASSUME [FacadeNext]_allVars PROVE [Next]_vars
  OBVIOUS
<1> USE DEF mutex, vars
<1>1. ASSUME NEW c \in Caller, Operation(c)  PROVE [Next]_vars
  <2>1. Call(c) \/ Retry(c) \/ Return(c) => Next
    BY DEF Call, Retry, Return, Next
  <2>2. Refused(c) \/ Begin(c) => UNCHANGED vars
    BY DEF Refused, Begin, Start
  <2>3. Throws(c) \/ NothingToResolve(c) \/ Resolved(c) => UNCHANGED vars
    BY DEF Throws, NothingToResolve, Resolved, EndOperation
  <2>4. Resolve(c) => UNCHANGED vars
    BY DEF Resolve
  <2>5. QED  BY <1>1, <2>1, <2>2, <2>3, <2>4 DEF Operation
<1>2. Close \/ Reopen \/ ReplacedOnDisk \/ TheyAcquire \/ TheyRelease => UNCHANGED vars
  BY DEF Close, Reopen, ReplacedOnDisk, TheyAcquire, TheyRelease
<1>3. UNCHANGED allVars => UNCHANGED vars
  BY DEF allVars
<1>4. QED  BY <1>1, <1>2, <1>3 DEF FacadeNext

(* Every behaviour of the facade is one of the mutex.                      *)
THEOREM FacadeUsesMutex == FacadeSpec => Spec
<1>1. FacadeInit => Init
  BY DEF FacadeInit
<1>2. QED  BY <1>1, FacadeStep, PTL DEF FacadeSpec, Spec
-----------------------------------------------------------------------------
FacadeTypeOK ==
    /\ stage \in [Caller -> {"out", "extract", "resolve", "settled"}]
    /\ at \in [Caller -> Nat]
    /\ lockFile \in {"free", "us", "them"}
    /\ held \in BOOLEAN
    /\ disk \in Nat /\ conn \in Nat /\ disk > 0 /\ conn <= disk
    /\ \A c \in Caller : at[c] <= disk
    /\ moved \in SUBSET Caller

(* Who is inside the function holds the mutex.                             *)
InsideHolds == \A c \in Caller : stage[c] # "out" => pc[c] = "holding"

(* The lock file is ours only if fileLock.held says so, and that only      *)
(* while an operation is there that will release it.                       *)
HeldByWork ==
    /\ lockFile = "us" => held
    /\ held => \E c \in Working : Does[c] # "indexFiles"

(* An operation that writes the live database and was not moved there has  *)
(* the lock file: nobody else removes it without replacing the database.   *)
KeepsLock ==
    \A c \in Working :
        Does[c] # "indexFiles" /\ c \notin moved /\ at[c] = disk /\ at[c] = conn
            => lockFile = "us"

(* Only a reopen separates an operation from the open connection.          *)
FollowsConnection ==
    \A c \in Working : conn # Closed => at[c] = conn \/ c \in moved

FInv == FacadeTypeOK /\ InsideHolds /\ HeldByWork /\ KeepsLock /\ FollowsConnection

LEMMA FacadeInitInv == FacadeInit => FInv
<1> SUFFICES ASSUME FacadeInit PROVE FInv
  OBVIOUS
<1>1. /\ \A c \in Caller : stage[c] = "out" /\ at[c] = 0
      /\ Working = {}
  BY DEF FacadeInit, Closed, Working
<1>2. at \in [Caller -> Nat] /\ \A c \in Caller : at[c] <= 1
  BY DEF FacadeInit, Closed
<1>3. FacadeTypeOK
  <2>1. stage \in [Caller -> {"out", "extract", "resolve", "settled"}]
    BY DEF FacadeInit
  <2>2. disk = 1 /\ conn = 1 /\ moved \in SUBSET Caller
    BY DEF FacadeInit
  <2>3. lockFile \in {"free", "us", "them"} /\ held \in BOOLEAN
    BY DEF FacadeInit
  <2>4. QED  BY <1>2, <2>1, <2>2, <2>3 DEF FacadeTypeOK
<1>4. QED  BY <1>1, <1>3 DEF FacadeInit, FInv, InsideHolds, HeldByWork, KeepsLock, FollowsConnection

LEMMA OneAtWork ==
    ASSUME FInv, MutualExclusion, NEW c \in Caller, NEW d \in Caller,
           stage[c] # "out" \/ pc[c] = "holding", stage[d] # "out"
    PROVE  c = d
BY DEF FInv, InsideHolds, MutualExclusion

(* What the end of an operation does to the invariant.                     *)
LEMMA EndInv ==
    ASSUME FInv, MutualExclusion, NEW c \in Caller, c \in Working, EndOperation(c)
    PROVE  FInv'
<1>1. /\ stage' = [stage EXCEPT ![c] = "settled"] /\ moved' = moved \ {c}
      /\ at' = at /\ disk' = disk /\ conn' = conn /\ pc' = pc
  BY DEF EndOperation, Settle, mutex
<1>2. Working = {c}
  <2>1. \A d \in Working : d = c
    BY OneAtWork DEF Working
  <2>2. QED  BY <2>1
<1>3. Working' = {}
  BY <1>1, <1>2 DEF FInv, FacadeTypeOK, Working
<1>4. ~held' /\ lockFile' # "us" /\ lockFile' \in {"free", "us", "them"}
  <2>1. CASE Does[c] = "indexFiles"
    BY <2>1, <1>2 DEF EndOperation, FInv, HeldByWork, FacadeTypeOK
  <2>2. CASE Does[c] # "indexFiles"
    BY <2>2 DEF EndOperation, ReleaseFile, FInv, HeldByWork, FacadeTypeOK
  <2>3. QED  BY <2>1, <2>2
<1>5. FacadeTypeOK'
  <2>1. held' \in BOOLEAN
    BY DEF EndOperation, ReleaseFile, FInv, FacadeTypeOK
  <2>2. QED  BY <1>1, <1>4, <2>1 DEF FInv, FacadeTypeOK
<1>6. InsideHolds'
  BY <1>1 DEF FInv, InsideHolds, FacadeTypeOK, Working
<1>7. HeldByWork'
  BY <1>4 DEF HeldByWork
<1>8. KeepsLock' /\ FollowsConnection'
  BY <1>3 DEF KeepsLock, FollowsConnection
<1>9. QED  BY <1>5, <1>6, <1>7, <1>8 DEF FInv

LEMMA BeginInv ==
    ASSUME FInv, MutualExclusion, NEW c \in Caller, Begin(c)
    PROVE  FInv'
<1> USE DEF Start, mutex
<1>1. /\ stage' = [stage EXCEPT ![c] = "extract"] /\ at' = [at EXCEPT ![c] = conn]
      /\ pc' = pc /\ disk' = disk /\ conn' = conn /\ moved' = moved
      /\ pc[c] = "holding" /\ stage[c] = "out" /\ lockFile = "free"
  BY DEF Begin
<1>2. Working = {}
  <2>1. \A d \in Working : d = c
    BY <1>1, OneAtWork DEF Working
  <2>2. QED  BY <1>1, <2>1 DEF Working
<1>3. Working' = {c}
  BY <1>1, <1>2 DEF FInv, FacadeTypeOK, Working
<1>4. IF Does[c] = "indexFiles" THEN lockFile' = "free" /\ ~held' ELSE lockFile' = "us" /\ held'
  BY <1>1, <1>2 DEF Begin, FInv, HeldByWork
<1>5. held' \in BOOLEAN
  BY DEF Begin, FInv, FacadeTypeOK
<1>6. conn <= disk
  BY DEF FInv, FacadeTypeOK
<1>7. FacadeTypeOK'
  BY <1>1, <1>4, <1>5, <1>6 DEF FInv, FacadeTypeOK
<1>8. InsideHolds'
  BY <1>1 DEF FInv, InsideHolds, FacadeTypeOK
<1>9. HeldByWork' /\ KeepsLock'
  BY <1>3, <1>4 DEF HeldByWork, KeepsLock
<1>10. FollowsConnection'
  BY <1>1, <1>3 DEF FollowsConnection, FInv, FacadeTypeOK
<1>11. QED  BY <1>7, <1>8, <1>9, <1>10 DEF FInv

LEMMA ResolveInv ==
    ASSUME FInv, MutualExclusion, NEW c \in Caller, Resolve(c)
    PROVE  FInv'
<1>1. /\ stage' = [stage EXCEPT ![c] = "resolve"] /\ at' = [at EXCEPT ![c] = conn]
      /\ pc' = pc /\ disk' = disk /\ conn' = conn /\ moved' = moved
      /\ lockFile' = lockFile /\ held' = held
      /\ stage[c] = "extract" /\ conn # Closed
  BY DEF Resolve, mutex
<1>2. Working' = Working /\ c \in Working
  BY <1>1 DEF FInv, FacadeTypeOK, Working
<1>3. \A d \in Working : d = c
  BY <1>1, OneAtWork DEF Working
<1>4. at[c] = conn \/ c \in moved
  BY <1>1, <1>2 DEF FInv, FollowsConnection
<1>5. at'[c] = conn /\ (c \notin moved => at'[c] = at[c])
  BY <1>1, <1>4 DEF FInv, FacadeTypeOK
<1>6. FacadeTypeOK'
  BY <1>1 DEF FInv, FacadeTypeOK
<1>7. InsideHolds' /\ HeldByWork'
  BY <1>1, <1>2 DEF FInv, InsideHolds, HeldByWork, FacadeTypeOK
<1>8. KeepsLock' /\ FollowsConnection'
  BY <1>1, <1>2, <1>3, <1>5 DEF FInv, KeepsLock, FollowsConnection
<1>9. QED  BY <1>6, <1>7, <1>8 DEF FInv

LEMMA OthersInv ==
    ASSUME FInv, IInv, NEW c \in Caller, Refused(c) \/ Return(c) \/ Call(c) \/ Retry(c)
    PROVE  FInv'
<1>1. CASE Refused(c)
  <2>1. /\ stage' = [stage EXCEPT ![c] = "settled"] /\ moved' = moved \ {c}
        /\ UNCHANGED <<pc, at, lockFile, held, disk, conn>>
        /\ pc[c] = "holding" /\ stage[c] = "out"
    BY <1>1 DEF Refused, Start, Settle, mutex
  <2>2. Working' = Working /\ c \notin Working
    BY <2>1 DEF FInv, FacadeTypeOK, Working
  <2>3. FacadeTypeOK' /\ InsideHolds'
    BY <2>1 DEF FInv, FacadeTypeOK, InsideHolds
  <2>4. HeldByWork' /\ KeepsLock' /\ FollowsConnection'
    BY <2>1, <2>2 DEF FInv, HeldByWork, KeepsLock, FollowsConnection
  <2>5. QED  BY <2>3, <2>4 DEF FInv
<1>2. CASE Return(c)
  <2>1. /\ stage' = [stage EXCEPT ![c] = "out"] /\ stage[c] = "settled"
        /\ UNCHANGED <<at, lockFile, held, disk, conn, moved>>
    BY <1>2 DEF Return
  <2>2. Working' = Working
    BY <2>1 DEF FInv, FacadeTypeOK, Working
  <2>3. \A d \in Caller : stage'[d] # "out" => FALSE
    BY <2>1, OneAtWork DEF IInv, FInv, FacadeTypeOK
  <2>4. FacadeTypeOK' /\ InsideHolds'
    BY <2>1, <2>3 DEF FInv, FacadeTypeOK, InsideHolds
  <2>5. HeldByWork' /\ KeepsLock' /\ FollowsConnection'
    BY <2>1, <2>2 DEF FInv, HeldByWork, KeepsLock, FollowsConnection
  <2>6. QED  BY <2>4, <2>5 DEF FInv
<1>3. CASE Call(c) \/ Retry(c)
  <2>1. UNCHANGED facade
    BY <1>3 DEF Call, Retry
  <2>2. \A d \in Caller : pc[d] = "holding" => pc'[d] = "holding"
    <3>1. pc[c] # "holding"
      <4>1. CASE Call(c)
        BY <4>1 DEF Call, Acquire
      <4>2. CASE Retry(c)
        BY <4>2, HeadLists DEF Retry, Resume, IInv, QueuesOK
      <4>3. QED  BY <1>3, <4>1, <4>2
    <3>2. \E p : pc' = [pc EXCEPT ![c] = p]
      BY <1>3 DEF Call, Acquire, Retry, Resume, Loop, Take, Park
    <3>3. pc \in [Caller -> {"idle", "waiting", "woken", "holding"}]
      BY DEF IInv, TypeOK
    <3>4. QED  BY <3>1, <3>2, <3>3
  <2>3. QED
    BY <2>1, <2>2 DEF facade, FInv, FacadeTypeOK, InsideHolds, HeldByWork, KeepsLock,
                      FollowsConnection, Working
<1>4. QED  BY <1>1, <1>2, <1>3

LEMMA OutsideInv ==
    ASSUME FInv, Close \/ Reopen \/ ReplacedOnDisk \/ TheyAcquire \/ TheyRelease
    PROVE  FInv'
<1>1. stage' = stage /\ at' = at /\ pc' = pc
  BY DEF Close, Reopen, ReplacedOnDisk, TheyAcquire, TheyRelease, mutex
<1>2. Working' = Working /\ InsideHolds'
  BY <1>1 DEF FInv, InsideHolds, Working
<1>3. CASE Close
  <2>1. conn' = Closed /\ disk' = disk /\ moved' = moved /\ ~held' /\ lockFile' # "us"
        /\ held' \in BOOLEAN /\ lockFile' \in {"free", "us", "them"}
    BY <1>3 DEF Close, ReleaseFile, FInv, FacadeTypeOK, HeldByWork
  <2>2. FacadeTypeOK' /\ HeldByWork'
    BY <1>1, <2>1 DEF FInv, FacadeTypeOK, HeldByWork, Closed
  <2>3. KeepsLock' /\ FollowsConnection'
    BY <1>1, <1>2, <2>1 DEF FInv, FacadeTypeOK, KeepsLock, FollowsConnection, Closed
  <2>4. QED  BY <1>2, <2>2, <2>3 DEF FInv
<1>4. CASE Reopen
  <2>1. conn' = disk /\ disk' = disk /\ moved' = Working /\ held' = held /\ lockFile' = lockFile
    BY <1>4 DEF Reopen
  <2>2. Working \subseteq Caller
    BY DEF Working
  <2>3. FacadeTypeOK' /\ HeldByWork'
    BY <1>1, <1>2, <2>1, <2>2 DEF FInv, FacadeTypeOK, HeldByWork
  <2>4. KeepsLock' /\ FollowsConnection'
    BY <1>1, <1>2, <2>1 DEF KeepsLock, FollowsConnection
  <2>5. QED  BY <1>2, <2>3, <2>4 DEF FInv
<1>5. CASE ReplacedOnDisk
  <2>1. conn' = conn /\ disk' = disk + 1 /\ moved' = moved /\ held' = held /\ lockFile' = "free"
    BY <1>5 DEF ReplacedOnDisk
  <2>2. FacadeTypeOK' /\ HeldByWork'
    BY <1>1, <1>2, <2>1 DEF FInv, FacadeTypeOK, HeldByWork
  <2>3. \A c \in Working : at'[c] # disk'
    BY <1>1, <2>1 DEF FInv, FacadeTypeOK, Working
  <2>4. KeepsLock' /\ FollowsConnection'
    BY <1>1, <1>2, <2>1, <2>3 DEF FInv, KeepsLock, FollowsConnection
  <2>5. QED  BY <1>2, <2>2, <2>4 DEF FInv
<1>6. CASE TheyAcquire \/ TheyRelease
  <2>1. conn' = conn /\ disk' = disk /\ moved' = moved /\ held' = held
        /\ lockFile # "us" /\ lockFile' # "us" /\ lockFile' \in {"free", "us", "them"}
    BY <1>6 DEF TheyAcquire, TheyRelease
  <2>2. FacadeTypeOK' /\ HeldByWork'
    BY <1>1, <1>2, <2>1 DEF FInv, FacadeTypeOK, HeldByWork
  <2>3. KeepsLock' /\ FollowsConnection'
    BY <1>1, <1>2, <2>1 DEF FInv, KeepsLock, FollowsConnection
  <2>4. QED  BY <1>2, <2>2, <2>3 DEF FInv
<1>7. QED  BY <1>3, <1>4, <1>5, <1>6

LEMMA FacadeInvariance == FacadeSpec => []FInv
<1>1. FInv /\ IInv /\ [FacadeNext]_allVars => FInv'
  <2> SUFFICES ASSUME FInv, IInv, [FacadeNext]_allVars PROVE FInv'
    OBVIOUS
  <2> MutualExclusion
    BY DEF IInv
  <2>1. ASSUME NEW c \in Caller, Operation(c)  PROVE FInv'
    <3>1. CASE Throws(c) \/ NothingToResolve(c) \/ Resolved(c)
      <4>1. c \in Working /\ EndOperation(c)
        BY <3>1 DEF Throws, NothingToResolve, Resolved, Working
      <4>2. QED  BY <4>1, EndInv
    <3>2. QED
      BY <2>1, <3>1, BeginInv, ResolveInv, OthersInv DEF Operation
  <2>2. CASE UNCHANGED allVars
    BY <2>2 DEF allVars, mutex, facade, FInv, FacadeTypeOK, InsideHolds, HeldByWork,
                KeepsLock, FollowsConnection, Working
  <2>3. QED  BY <2>1, <2>2, OutsideInv DEF FacadeNext
<1>2. QED
  BY <1>1, FacadeInitInv, FacadeUsesMutex, Invariance, PTL DEF FacadeSpec

(* While another process holds the lock file, no operation but indexFiles  *)
(* and one that a reopen has moved can write the database at the path.     *)
THEOREM WritersExcludeHolds == FacadeSpec => []WritersExclude
<1>1. FInv => WritersExclude
  BY DEF FInv, KeepsLock, WritersExclude
<1>2. QED  BY FacadeInvariance, <1>1, PTL

(* The lock file is this process's only while an operation is at work that *)
(* will release it, whatever throws, closes, reopens or replaces.          *)
THEOREM NoLeakedLockHolds == FacadeSpec => []NoLeakedLock
<1>1. FInv => NoLeakedLock
  BY DEF FInv, HeldByWork, NoLeakedLock
<1>2. QED  BY FacadeInvariance, <1>1, PTL
-----------------------------------------------------------------------------
(* The lock file, for as long as the two conditions it needs have held:    *)
(* acquire and release calls of different processes have not overlapped in *)
(* time, and no lock was held for longer than the stale timeout.  Crashes  *)
(* at any system call and reused pids are allowed.                         *)

(* At most one call is between its first and its last system call.         *)
OneInCall == \A i, j \in Instance : call[i] \in InCall /\ call[j] \in InCall => i = j

(* A process dies with all its lock objects.                               *)
DieTogether ==
    \A i, j \in Instance : PidOf[i] = PidOf[j] /\ call[i] = "dead" => call[j] = "dead"

(* What the lock file is at each system call of the one call in progress.  *)
FileAtStep ==
    \A i \in Instance :
        /\ call[i] # "unlinkAgain"
        /\ call[i] \in {"read", "stat", "unlink"} => file # NoFile
        /\ call[i] = "stat" => seen[i] = Content
        /\ call[i] = "unlink" => \A j \in Instance : call[j] # "held"
        /\ call[i] = "create" => file = NoFile
        /\ call[i] = "write" => file # NoFile /\ file.by = i /\ ~file.written /\ ~file.old
        /\ call[i] \in {"held", "relUnlink"} =>
               file # NoFile /\ file.by = i /\ file.written /\ ~file.old

Serial == ~overlapped /\ ~overran

LockInv == FileLockTypeOK /\ DieTogether /\ (Serial => OneInCall /\ FileAtStep)
-----------------------------------------------------------------------------
LEMMA LockInitInv == FileLockInit => LockInv
BY DEF FileLockInit, LockInv, FileLockTypeOK, OneInCall, DieTogether, FileAtStep, InCall

(* Types and joint deaths do not depend on the conditions.                 *)
LEMMA StepTypes ==
    ASSUME FileLockTypeOK, DieTogether, FileLockNext
    PROVE  FileLockTypeOK' /\ DieTogether'
<1> USE FileLockAssumption DEF Goto, FileLockTypeOK, DieTogether, InCall, history
<1>1. ASSUME NEW i \in Instance, AcquireExists(i) \/ ReleaseRead(i)
      PROVE  FileLockTypeOK' /\ DieTogether'
  BY <1>1 DEF AcquireExists, ReleaseRead, StartCall
<1>2. ASSUME NEW i \in Instance, AcquireRead(i)  PROVE FileLockTypeOK' /\ DieTogether'
  BY <1>2 DEF AcquireRead, Content, Lockfile
<1>3. ASSUME NEW i \in Instance, AcquireStat(i) \/ AcquireUnlink(i) \/ AcquireUnlinkAgain(i)
      PROVE  FileLockTypeOK' /\ DieTogether'
  BY <1>3 DEF AcquireStat, AcquireUnlink, AcquireUnlinkAgain
<1>4. ASSUME NEW i \in Instance, AcquireCreate(i)  PROVE FileLockTypeOK' /\ DieTogether'
  <2>1. [by |-> i, written |-> FALSE, old |-> FALSE] \in Lockfile
    BY DEF Lockfile
  <2>2. file' \in Lockfile \cup {NoFile} /\ reused' = reused /\ seen' = seen
    BY <1>4, <2>1 DEF AcquireCreate
  <2>3. QED  BY <1>4, <2>2 DEF AcquireCreate
<1>5. ASSUME NEW i \in Instance, AcquireWrite(i)  PROVE FileLockTypeOK' /\ DieTogether'
  BY <1>5 DEF AcquireWrite, Lockfile
<1>6. ASSUME NEW i \in Instance, AcquireWriteFails(i) \/ ReleaseUnlink(i)
      PROVE  FileLockTypeOK' /\ DieTogether'
  BY <1>6 DEF AcquireWriteFails, ReleaseUnlink
<1>7. ASSUME NEW p \in Pid, Crash(p) \/ Reuse(p)  PROVE FileLockTypeOK' /\ DieTogether'
  BY <1>7 DEF Crash, Reuse, Dead
<1>8. ASSUME Age  PROVE FileLockTypeOK' /\ DieTogether'
  BY <1>8 DEF Age, Lockfile, Holding
<1>9. ASSUME UnlockCommand  PROVE FileLockTypeOK' /\ DieTogether'
  BY <1>9 DEF UnlockCommand
<1>10. QED
  BY <1>1, <1>2, <1>3, <1>4, <1>5, <1>6, <1>7, <1>8, <1>9 DEF FileLockNext, Step

(* In a serial history a call starts when no other is in progress.         *)
LEMMA Alone ==
    ASSUME NEW i \in Instance, StartCall(i), Serial'
    PROVE  Serial /\ \A j \in Instance \ {i} : call[j] \notin InCall
BY DEF StartCall, Serial

LEMMA StepSerial ==
    ASSUME LockInv, FileLockNext, Serial'
    PROVE  OneInCall' /\ FileAtStep'
<1>0. FileLockTypeOK /\ DieTogether /\ Serial /\ OneInCall /\ FileAtStep
  <2>1. Serial
    BY FileLockAssumption
    DEF Serial, LockInv, FileLockTypeOK, FileLockNext, Step, AcquireExists, StartCall, AcquireRead, AcquireStat,
        AcquireUnlink, AcquireUnlinkAgain, AcquireCreate, AcquireWrite, AcquireWriteFails,
        ReleaseRead, ReleaseUnlink, Crash, Reuse, Age, UnlockCommand, history
  <2>2. QED  BY <2>1 DEF LockInv
<1> USE FileLockAssumption, <1>0 DEF Goto, FileLockTypeOK, OneInCall, FileAtStep, InCall, Content
<1>1. ASSUME NEW i \in Instance, AcquireExists(i)  PROVE OneInCall' /\ FileAtStep'
  BY <1>1, Alone DEF AcquireExists
<1>2. ASSUME NEW i \in Instance, AcquireRead(i)  PROVE OneInCall' /\ FileAtStep'
  BY <1>2 DEF AcquireRead, Lockfile
<1>3. ASSUME NEW i \in Instance, AcquireStat(i)  PROVE OneInCall' /\ FileAtStep'
  BY <1>3 DEF AcquireStat, HeldByAnother, isProcessAlive, Dead, DieTogether, Lockfile
<1>4. ASSUME NEW i \in Instance, AcquireUnlink(i)  PROVE OneInCall' /\ FileAtStep'
  BY <1>4 DEF AcquireUnlink
<1>5. ASSUME NEW i \in Instance, AcquireUnlinkAgain(i)  PROVE OneInCall' /\ FileAtStep'
  BY <1>5 DEF AcquireUnlinkAgain
<1>6. ASSUME NEW i \in Instance, AcquireCreate(i)  PROVE OneInCall' /\ FileAtStep'
  <2>1. /\ call[i] = "create" /\ file = NoFile /\ seen' = seen /\ reused' = reused
        /\ file' = [by |-> i, written |-> FALSE, old |-> FALSE]
        /\ call' = [call EXCEPT ![i] = "write"]
    BY <1>6 DEF AcquireCreate
  <2>2. file' \in Lockfile
    BY <2>1 DEF Lockfile
  <2>3. file' # NoFile /\ file'.by = i /\ ~file'.written /\ ~file'.old
    BY <2>1, <2>2 DEF Lockfile
  <2>4. QED  BY <2>1, <2>3
<1>7. ASSUME NEW i \in Instance, AcquireWrite(i)  PROVE OneInCall' /\ FileAtStep'
  <2>1. /\ call[i] = "write" /\ file # NoFile /\ file.by = i /\ ~file.old
        /\ file \in Lockfile
        /\ file' = [file EXCEPT !.written = TRUE] /\ seen' = seen /\ reused' = reused
        /\ call' = [call EXCEPT ![i] = "held"]
    BY <1>7 DEF AcquireWrite
  <2>2. file' \in Lockfile /\ file'.by = i /\ file'.written /\ ~file'.old
    BY <2>1 DEF Lockfile
  <2>3. \A j \in Instance \ {i} : call[j] \notin InCall \cup {"held"}
    BY <2>1
  <2>4. file' # NoFile
    BY <2>2 DEF Lockfile
  <2>5. QED  BY <2>1, <2>2, <2>3, <2>4
<1>8. ASSUME NEW i \in Instance, AcquireWriteFails(i)  PROVE OneInCall' /\ FileAtStep'
  BY <1>8 DEF AcquireWriteFails
<1>9. ASSUME NEW i \in Instance, ReleaseRead(i)  PROVE OneInCall' /\ FileAtStep'
  BY <1>9, Alone DEF ReleaseRead, OwnFile
<1>10. ASSUME NEW i \in Instance, ReleaseUnlink(i)  PROVE OneInCall' /\ FileAtStep'
  BY <1>10 DEF ReleaseUnlink
<1>11. ASSUME NEW p \in Pid, Crash(p)  PROVE OneInCall' /\ FileAtStep'
  BY <1>11 DEF Crash, Dead
<1>12. ASSUME NEW p \in Pid, Reuse(p)  PROVE OneInCall' /\ FileAtStep'
  BY <1>12 DEF Reuse
<1>13. ASSUME Age  PROVE OneInCall' /\ FileAtStep'
  <2>1. /\ file # NoFile /\ file \in Lockfile /\ ~Holding(file.by)
        /\ file' = [file EXCEPT !.old = TRUE]
        /\ call' = call /\ seen' = seen /\ reused' = reused
    BY <1>13 DEF Age, Serial, Holding
  <2>2. /\ file' \in Lockfile /\ file'.by = file.by /\ file'.written = file.written
        /\ file' # NoFile
    BY <2>1 DEF Lockfile
  <2>3. Content' = Content
    BY <2>1, <2>2
  <2>4. QED  BY <2>1, <2>2, <2>3 DEF Holding
<1>14. ASSUME UnlockCommand  PROVE OneInCall' /\ FileAtStep'
  BY <1>14 DEF UnlockCommand
<1>15. QED
  BY <1>1, <1>2, <1>3, <1>4, <1>5, <1>6, <1>7, <1>8, <1>9, <1>10, <1>11, <1>12,
     <1>13, <1>14 DEF FileLockNext, Step

LEMMA LockStutterInv == LockInv /\ UNCHANGED fileLockVars => LockInv'
BY DEF fileLockVars, history, LockInv, Serial, FileLockTypeOK, OneInCall, DieTogether, FileAtStep, InCall, Content

LEMMA LockInvariance == FileLockSpec => []LockInv
<1>1. LockInv /\ [FileLockNext]_fileLockVars => LockInv'
  BY StepTypes, StepSerial, LockStutterInv DEF LockInv
<1>2. QED  BY LockInitInv, <1>1, PTL DEF FileLockSpec

(* While calls have not overlapped and no hold has overrun, no two lock    *)
(* objects are past acquire(), whichever process crashes at whichever call.*)
THEOREM AtMostOneWriterHolds == FileLockSpec => []AtMostOneWriter
<1>1. LockInv => AtMostOneWriter
  BY DEF LockInv, Serial, FileAtStep, AtMostOneWriter, OneWriter
<1>2. QED  BY LockInvariance, <1>1, PTL

(* Under the same conditions a held lock is always visible on disk.        *)
THEOREM HolderOwnsFileHolds == FileLockSpec => []HolderOwnsFile
<1>1. LockInv => HolderOwnsFile
  BY DEF LockInv, Serial, FileAtStep, HolderOwnsFile
<1>2. QED  BY LockInvariance, <1>1, PTL

-----------------------------------------------------------------------------
(* Putting back what was claimed and not sent; the last turn of a process. *)
Appending(p) == doing[p] \in {"append", "write"}
Back(p) == Appending(p) /\ after[p] = "release"
Leaving(p) == doing[p] = "end" \/ (Appending(p) /\ after[p] = "end")

(* A flush that awaits send(): what is left to send and what goes back.    *)
Flight == [send : Seq(Line), keep : Seq(Line)]

TelemetryTypes ==
    /\ config \in {"none", "on", "off"}
    /\ queue \in Seq(Line) /\ quiet \in BOOLEAN
    /\ claim \in [Process -> Seq(Line)] /\ mem \in [Process -> Seq(Line)]
    /\ buf \in [Process -> Seq(Line)] /\ base \in [Process -> Seq(Line)]
    /\ stale \in [Process -> BOOLEAN]
    /\ cache \in [Process -> {"unread", "none", "on", "off"}]
    /\ flights \in [Process -> Seq(Flight)]
    /\ flushes \in [Process -> Nat]
    /\ doing \in [Process -> {"idle", "append", "write", "recover", "unlink", "putBack", "read", "release", "end", "down"}]
    /\ after \in [Process -> {"end", "recover", "release"}]
    /\ victim \in [Process -> Process]
    /\ sent \in [Line -> Nat]
    /\ past \subseteq Line /\ recorded \subseteq Line

(* What a turn leaves behind at each of its calls.                         *)
Turns ==
    \A p \in Process :
        /\ mem[p] # <<>> => doing[p] \in {"idle", "release"} \/ Back(p)
        /\ buf[p] # <<>> => doing[p] \in {"append", "write", "unlink", "putBack"}
        /\ base[p] # <<>> => doing[p] = "write"
        /\ Leaving(p) \/ doing[p] = "down" => flights[p] = <<>>

(* Only a process that has read the choice, and not read "off", sends; a   *)
(* command does so in a flush.                                             *)
Knows ==
    \A p \in Process :
        /\ cache[p] = "unread" => flights[p] = <<>> /\ doing[p] \in {"idle", "down"}
        /\ cache[p] = "off" => flights[p] = <<>> /\ doing[p] \in {"idle", "end"}
        /\ p \notin Server /\ flushes[p] = 0 =>
              flights[p] = <<>> /\ (doing[p] \in {"idle", "end", "down"} \/ Leaving(p))

(* The line is in the flight; in one of the flights of p; in what p puts   *)
(* back after a flight.                                                    *)
Carries(flight, l) == l \in Range(flight.send) \/ l \in Range(flight.keep)
InFlight(p, l) == \E i \in DOMAIN flights[p] : Carries(flights[p][i], l)
BackBuf(p, l) == Back(p) /\ l \in Range(buf[p])

(* Process p has line l: in memory, in a recovery or a first append, or in *)
(* a claim that it is not about to remove.                                 *)
Holds(p, l) ==
    \/ l \in Range(mem[p])
    \/ l \in Range(buf[p]) /\ ~Back(p)
    \/ l \in Range(claim[p]) /\ doing[p] # "release"
Somewhere(l) == sent[l] > 0 \/ l \in Range(queue) \/ \E p \in Process : Holds(p, l)
Anywhere == \A l \in recorded \ gone : Somewhere(l)

(* A claim that its process gives up has nothing that is not elsewhere.    *)
Tended(p, l) ==
    \/ doing[p] \in {"read", "release", "down"} \/ Leaving(p)
    \/ sent[l] > 0 \/ InFlight(p, l) \/ BackBuf(p, l)
Covered == \A p \in Process : \A l \in Range(claim[p]) \ gone : Tended(p, l)

(* Two flushes of a command, or one that has begun while another awaits:   *)
(* the second has renamed over the claim of the first, whose lines the     *)
(* code lets go.                                                           *)
Crowd(p) ==
    \/ Len(flights[p]) >= 2
    \/ flights[p] # <<>> /\ (doing[p] \in {"read", "release"} \/ Back(p))
Crowded == \A p \in Process : Crowd(p) => Range(claim[p]) \subseteq gone

(* Line l is at most once in s.                                            *)
Once(l, s) == \A i, j \in DOMAIN s : s[i] = l /\ s[j] = l => i = j

(* Line l is p's alone, not claimed from the queue: in its memory, or on   *)
(* its way to the queue.                                                   *)
Mine(p, l) == l \in Range(mem[p]) \/ (l \in Range(buf[p]) /\ ~Back(p) /\ doing[p] # "unlink")

(* Line l was claimed by p: in a flight, on its way back, or in the claim. *)
(* These three are one place, for the claim is removed last.               *)
Claimed(p, l) == InFlight(p, l) \/ BackBuf(p, l) \/ (l \in Range(claim[p]) /\ doing[p] # "release")

(* Nothing is written or sent that was not recorded.                       *)
Known ==
    /\ Range(queue) \subseteq recorded
    /\ \A l \in Line : sent[l] > 0 => l \in recorded
    /\ \A p \in Process :
        /\ Range(mem[p]) \cup Range(buf[p]) \cup Range(base[p]) \cup Range(claim[p]) \subseteq recorded
        /\ \A l \in Line : InFlight(p, l) => l \in recorded

(* Line l is nowhere twice in the same sequence.                           *)
OnceAt(p, l) ==
    /\ Once(l, mem[p]) /\ Once(l, buf[p]) /\ Once(l, base[p]) /\ Once(l, claim[p])
    /\ \A i \in DOMAIN flights[p] :
        /\ Once(l, flights[p][i].send) /\ Once(l, flights[p][i].keep)
        /\ ~(l \in Range(flights[p][i].send) /\ l \in Range(flights[p][i].keep))
OnceEach(l) == Once(l, queue) /\ \A p \in Process : OnceAt(p, l)

(* Line l is in one place only: the queue, one process's own lines, or     *)
(* what one process has claimed.                                           *)
OnePlace(l) ==
    /\ \A p \in Process : l \in Range(queue) => ~Mine(p, l) /\ ~Claimed(p, l)
    /\ \A p, q \in Process :
        /\ ~(Mine(p, l) /\ Claimed(q, l))
        /\ Mine(p, l) /\ Mine(q, l) => p = q
        /\ Claimed(p, l) /\ Claimed(q, l) => p = q
Nowhere(l) == l \notin Range(queue) /\ \A p \in Process : ~Mine(p, l) /\ ~Claimed(p, l)

(* Line l is in one flight only, which has ended before the line is put    *)
(* back and begins when the claim is read.                                 *)
FlightAt(p, l) ==
    /\ \A i, j \in DOMAIN flights[p] : Carries(flights[p][i], l) /\ Carries(flights[p][j], l) => i = j
    /\ InFlight(p, l) => ~BackBuf(p, l) /\ ~(doing[p] = "read" /\ l \in Range(claim[p]))
OneFlight(l) == \A p \in Process : FlightAt(p, l)

(* What a recovery has read and not yet unlinked is the claim of a process *)
(* that is gone, and nobody else recovers it.                              *)
Recovered(l) ==
    \A o \in Process : doing[o] = "unlink" /\ l \in Range(buf[o]) =>
        /\ doing[victim[o]] = "down" /\ l \in Range(claim[victim[o]])
        /\ \A p \in Process : doing[p] = "unlink" /\ victim[p] = victim[o] => p = o

(* A line received has left every place but the claim, which its process   *)
(* will remove.                                                            *)
DoneAt(p, l) ==
    /\ ~Mine(p, l) /\ ~InFlight(p, l) /\ ~BackBuf(p, l)
    /\ l \in Range(claim[p]) => doing[p] \notin {"read", "down"} /\ ~Leaving(p)
Done(l) ==
    sent[l] > 0 => sent[l] = 1 /\ l \notin Range(queue) /\ \A p \in Process : DoneAt(p, l)

CustodyOf(l) == OnceEach(l) /\ OnePlace(l) /\ OneFlight(l) /\ Recovered(l) /\ Done(l)

(* SentOnce by itself is not inductive: a line is sent once because, while *)
(* it is not sent, it is in one place, and once sent, in none.             *)
Custody == \A l \in Line \ again : CustodyOf(l)

-----------------------------------------------------------------------------
(* How many of the places come before i.                                   *)
Before(i, places) == Cardinality({j \in places : j < i})

(* The places before each place of a finite set of places number them from *)
(* 0 on without a gap.                                                     *)
LEMMA PlacesCount ==
    ASSUME NEW I, IsFiniteSet(I), I \subseteq Nat
    PROVE  /\ \A i \in I : Before(i, I) \in 0..(Cardinality(I) - 1)
           /\ \A i, h \in I : Before(i, I) = Before(h, I) => i = h
           /\ \A k \in 1..Cardinality(I) : \E i \in I : Before(i, I) = k - 1
<1> DEFINE Rank(i) == Cardinality({j \in I : j < i})
           N == Cardinality(I)
<1>n. N \in Nat
  BY FS_CardinalityType
<1>1. \A i \in I : IsFiniteSet({j \in I : j < i}) /\ Rank(i) \in 0..(N - 1)
  <2> SUFFICES ASSUME NEW i \in I PROVE IsFiniteSet({j \in I : j < i}) /\ Rank(i) \in 0..(N - 1)
    OBVIOUS
  <2>1. {j \in I : j < i} \subseteq I /\ i \notin {j \in I : j < i}
    OBVIOUS
  <2>2. IsFiniteSet({j \in I : j < i}) /\ Rank(i) <= N /\ (Rank(i) = N => {j \in I : j < i} = I)
    BY <2>1, FS_Subset
  <2>3. Rank(i) \in Nat
    BY <2>2, FS_CardinalityType
  <2> QED  BY <2>1, <2>2, <2>3, <1>n
<1>2. \A i, h \in I : i < h => Rank(i) < Rank(h)
  <2> SUFFICES ASSUME NEW i \in I, NEW h \in I, i < h PROVE Rank(i) < Rank(h)
    OBVIOUS
  <2> DEFINE A == {j \in I : j < i}
             B == {j \in I : j < h}
  <2>0. \A j \in I : j \in Nat
    OBVIOUS
  <2>a. \A j \in I : j < i => j < h
    BY <2>0
  <2>b. ~(i < i)
    BY <2>0
  <2>1. A \subseteq B /\ i \in B /\ i \notin A
    BY <2>a, <2>b
  <2>2. IsFiniteSet(B) /\ Rank(i) \in Nat /\ Rank(h) \in Nat
    BY <1>1, <1>n
  <2>3. Cardinality(A) <= Cardinality(B) /\ (Cardinality(A) = Cardinality(B) => A = B)
    BY <2>1, <2>2, FS_Subset
  <2> QED  BY <2>1, <2>2, <2>3
<1> HIDE DEF Rank
<1>r. \A i \in I : Rank(i) \in 0..(N - 1)
  BY <1>1 DEF Rank
<1>s. \A i, h \in I : Rank(i) = Rank(h) => i = h
  <2> SUFFICES ASSUME NEW i \in I, NEW h \in I, Rank(i) = Rank(h), i # h PROVE FALSE
    OBVIOUS
  <2>1. i < h \/ h < i
    OBVIOUS
  <2>2. Rank(i) \in Nat
    BY <1>r, <1>n
  <2> QED  BY <1>2, <2>1, <2>2
<1> SUFFICES ASSUME NEW k \in 1..N, \A i \in I : Rank(i) # k - 1 PROVE FALSE
  BY <1>r, <1>s DEF Rank, Before
<1> DEFINE T == (0..(N - 1)) \ {k - 1}
           f == [i \in I |-> Rank(i)]
<1>3. f \in [I -> T]
  BY <1>1
<1>4. IsFiniteSet(0..(N - 1)) /\ Cardinality(0..(N - 1)) = N
  <2>1. 0 \in Int /\ N - 1 \in Int /\ (IF 0 > N - 1 THEN 0 ELSE (N - 1) - 0 + 1) = N
    BY <1>n
  <2> HIDE DEF N
  <2> QED  BY <2>1, FS_Interval
<1>5. IsFiniteSet(T) /\ Cardinality(T) = N - 1
  <2>1. k - 1 \in 0..(N - 1)
    BY <1>n
  <2> DEFINE B == 0..(N - 1)
             x == k - 1
  <2>2. IsFiniteSet(B) /\ Cardinality(B) = N /\ x \in B
    BY <2>1, <1>4
  <2>3. T = B \ {x}
    OBVIOUS
  <2> HIDE DEF N, B, x, T
  <2>4. IsFiniteSet(B \ {x}) /\ Cardinality(B \ {x}) = IF x \in B THEN Cardinality(B) - 1 ELSE Cardinality(B)
    BY <2>2, FS_RemoveElement
  <2> QED  BY <2>2, <2>3, <2>4
<1>6. PICK i \in I, h \in I : i # h /\ f[i] = f[h]
  <2>1. Cardinality(T) < Cardinality(I)
    BY <1>5, <1>n
  <2> HIDE DEF T, f
  <2> QED  BY <2>1, <1>3, <1>5, FS_PigeonHole
<1>7. Rank(i) = Rank(h)
  BY <1>6
<1> QED  BY <1>s, <1>6, <1>7

(* filter(): exactly the lines in S are left, each as often as before.     *)
LEMMA SelectedLines ==
    ASSUME NEW s \in Seq(Line), NEW S
    PROVE  /\ Selected(s, S) \in Seq(Line)
           /\ Range(Selected(s, S)) = Range(s) \cap S
           /\ \A l : Once(l, s) => Once(l, Selected(s, S))
<1> DEFINE I == {i \in DOMAIN s : s[i] \in S}
           N == Cardinality(I)
           place(k) == CHOOSE i \in I : Before(i, I) = k - 1
           sel == [k \in 1..N |-> s[place(k)]]
<1>0. Selected(s, S) = sel
  BY DEF Selected, Before
<1>1. IsFiniteSet(I) /\ I \subseteq Nat /\ N \in Nat
  <2>1. DOMAIN s = 1..Len(s) /\ Len(s) \in Nat
    OBVIOUS
  <2>2. IsFiniteSet(DOMAIN s)
    BY <2>1, FS_Interval
  <2>3. I \subseteq DOMAIN s
    OBVIOUS
  <2>4. IsFiniteSet(I)
    BY <2>2, <2>3, FS_Subset
  <2> QED  BY <2>1, <2>3, <2>4, FS_CardinalityType
<1>2. \A i \in I : i \in DOMAIN s /\ s[i] \in S /\ s[i] \in Line
  OBVIOUS
<1>3. \A i \in DOMAIN s : s[i] \in S => i \in I
  OBVIOUS
<1> HIDE DEF I
<1>4. /\ \A i \in I : Before(i, I) \in 0..(N - 1)
      /\ \A i, h \in I : Before(i, I) = Before(h, I) => i = h
      /\ \A k \in 1..N : \E i \in I : Before(i, I) = k - 1
  BY <1>1, PlacesCount
<1>5. \A k \in 1..N : place(k) \in I /\ Before(place(k), I) = k - 1
  BY <1>4
<1> HIDE DEF place
<1>6. sel \in Seq(Line) /\ DOMAIN sel = 1..N
  <2>1. \A k \in 1..N : s[place(k)] \in Line
    BY <1>2, <1>5
  <2> HIDE DEF N
  <2> QED  BY <1>1, <2>1
<1>7. \A k, m \in 1..N : place(k) = place(m) => k = m
  BY <1>1, <1>5
<1>8. \A i \in I : \E k \in 1..N : place(k) = i
  <2> TAKE i \in I
  <2> DEFINE k == Before(i, I) + 1
  <2>1. k \in 1..N /\ k - 1 = Before(i, I)
    BY <1>1, <1>4
  <2>2. place(k) = i
    BY <1>4, <1>5, <2>1
  <2> QED  BY <2>1, <2>2
<1>9. Range(sel) = Range(s) \cap S
  <2>1. \A k \in 1..N : sel[k] \in Range(s) \cap S
    BY <1>2, <1>5 DEF Range
  <2>2. \A l \in Range(s) \cap S : \E k \in 1..N : sel[k] = l
    <3> TAKE l \in Range(s) \cap S
    <3>1. PICK i \in DOMAIN s : s[i] = l
      BY DEF Range
    <3>2. PICK k \in 1..N : place(k) = i
      BY <1>3, <1>8, <3>1
    <3> QED  BY <3>1, <3>2
  <2> HIDE DEF sel
  <2> QED  BY <2>1, <2>2, <1>6 DEF Range
<1>10. ASSUME NEW l, Once(l, s) PROVE Once(l, sel)
  BY <1>2, <1>5, <1>6, <1>7, <1>10 DEF Once
<1> QED  BY <1>0, <1>6, <1>9, <1>10

(* The lines of two sequences in one, and when a line is in it once.       *)
LEMMA ConcatLines ==
    ASSUME NEW s \in Seq(Line), NEW t \in Seq(Line)
    PROVE  /\ s \o t \in Seq(Line)
           /\ Range(s \o t) = Range(s) \cup Range(t)
           /\ \A l : Once(l, s) /\ Once(l, t) /\ ~(l \in Range(s) /\ l \in Range(t)) => Once(l, s \o t)
<1> DEFINE u == s \o t
<1>1. /\ u \in Seq(Line) /\ Len(s) \in Nat /\ Len(t) \in Nat
      /\ DOMAIN s = 1..Len(s) /\ DOMAIN t = 1..Len(t) /\ DOMAIN u = 1..(Len(s) + Len(t))
      /\ \A i \in DOMAIN u : u[i] = IF i <= Len(s) THEN s[i] ELSE t[i - Len(s)]
  OBVIOUS
<1> HIDE DEF u
<1>2. Range(u) = Range(s) \cup Range(t)
  <2>1. \A i \in DOMAIN u : u[i] \in Range(s) \cup Range(t)
    BY <1>1 DEF Range
  <2>2. \A i \in DOMAIN s : i \in DOMAIN u /\ u[i] = s[i]
    BY <1>1
  <2>3. \A i \in DOMAIN t : i + Len(s) \in DOMAIN u /\ u[i + Len(s)] = t[i]
    BY <1>1
  <2> QED  BY <2>1, <2>2, <2>3 DEF Range
<1>3. ASSUME NEW l, Once(l, s), Once(l, t), ~(l \in Range(s) /\ l \in Range(t)) PROVE Once(l, u)
  <2> SUFFICES ASSUME NEW i \in DOMAIN u, NEW j \in DOMAIN u, u[i] = l, u[j] = l PROVE i = j
    BY DEF Once
  <2>1. \A k \in DOMAIN u : k <= Len(s) => k \in DOMAIN s /\ u[k] = s[k]
    BY <1>1
  <2>2. \A k \in DOMAIN u : ~(k <= Len(s)) => k - Len(s) \in DOMAIN t /\ u[k] = t[k - Len(s)]
    BY <1>1
  <2>3. \A k \in DOMAIN u : k <= Len(s) => u[k] \in Range(s)
    BY <2>1 DEF Range
  <2>4. \A k \in DOMAIN u : ~(k <= Len(s)) => u[k] \in Range(t)
    BY <2>2 DEF Range
  <2>5. CASE i <= Len(s) /\ j <= Len(s)
    BY <1>3, <2>1, <2>5 DEF Once
  <2>6. CASE ~(i <= Len(s)) /\ ~(j <= Len(s))
    <3>1. i - Len(s) = j - Len(s)
      BY <1>3, <2>2, <2>6 DEF Once
    <3> QED  BY <1>1, <3>1
  <2> QED  BY <1>3, <2>3, <2>4, <2>5, <2>6
<1> QED  BY <1>1, <1>2, <1>3 DEF u

(* The lines of a part of a sequence: those between its ends.              *)
LEMMA PartOfLines ==
    ASSUME NEW s \in Seq(Line), NEW m \in Nat \ {0}, NEW n \in Nat, n <= Len(s)
    PROVE  /\ SubSeq(s, m, n) \in Seq(Line)
           /\ \A l : l \in Range(SubSeq(s, m, n)) <=> \E i \in DOMAIN s : m <= i /\ i <= n /\ s[i] = l
           /\ \A l : Once(l, s) => Once(l, SubSeq(s, m, n))
<1> DEFINE u == SubSeq(s, m, n)
<1>1. /\ u \in Seq(Line) /\ DOMAIN s = 1..Len(s) /\ Len(s) \in Nat
      /\ DOMAIN u = 1..(n - m + 1)
      /\ \A i \in DOMAIN u : u[i] = s[m + i - 1]
  OBVIOUS
<1> HIDE DEF u
<1>2. ASSUME NEW l PROVE l \in Range(u) <=> \E i \in DOMAIN s : m <= i /\ i <= n /\ s[i] = l
  <2>1. \A i \in DOMAIN u : m + i - 1 \in DOMAIN s /\ m <= m + i - 1 /\ m + i - 1 <= n
    BY <1>1
  <2>2. \A i \in DOMAIN s : m <= i /\ i <= n => i - m + 1 \in DOMAIN u /\ m + (i - m + 1) - 1 = i
    BY <1>1
  <2> QED  BY <1>1, <2>1, <2>2 DEF Range
<1>3. ASSUME NEW l, Once(l, s) PROVE Once(l, u)
  <2>1. \A i \in DOMAIN u : m + i - 1 \in DOMAIN s
    BY <1>1
  <2>2. \A i, j \in DOMAIN u : m + i - 1 = m + j - 1 => i = j
    BY <1>1
  <2> QED  BY <1>1, <1>3, <2>1, <2>2 DEF Once
<1> QED  BY <1>1, <1>2, <1>3 DEF u

(* push(): one line more.                                                  *)
LEMMA AppendedLine ==
    ASSUME NEW s \in Seq(Line), NEW l \in Line
    PROVE  /\ Append(s, l) \in Seq(Line)
           /\ Range(Append(s, l)) = Range(s) \cup {l}
           /\ \A m : Once(m, s) /\ (m = l => m \notin Range(s)) => Once(m, Append(s, l))
<1> DEFINE u == Append(s, l)
<1>1. /\ u \in Seq(Line) /\ Len(s) \in Nat /\ DOMAIN s = 1..Len(s)
      /\ DOMAIN u = 1..(Len(s) + 1)
      /\ \A i \in DOMAIN s : u[i] = s[i]
      /\ u[Len(s) + 1] = l
  OBVIOUS
<1> HIDE DEF u
<1>2. \A i \in DOMAIN u : i \in DOMAIN s \/ i = Len(s) + 1
  BY <1>1
<1>3. DOMAIN s \subseteq DOMAIN u /\ Len(s) + 1 \in DOMAIN u
  BY <1>1
<1>4. Range(u) = Range(s) \cup {l}
  BY <1>1, <1>2, <1>3 DEF Range
<1>5. ASSUME NEW m, Once(m, s), m = l => m \notin Range(s) PROVE Once(m, u)
  BY <1>1, <1>2, <1>5 DEF Once, Range
<1> QED  BY <1>1, <1>4, <1>5 DEF u

(* What persistSync() writes: every line of the memory, reordered.         *)
LEMMA CountsFirstLines ==
    ASSUME NEW s \in Seq(Line)
    PROVE  /\ CountsFirst(s) \in Seq(Line) /\ Range(CountsFirst(s)) = Range(s)
           /\ \A l : Once(l, s) => Once(l, CountsFirst(s))
<1> DEFINE a == Selected(s, Line \ Event)
           b == Selected(s, Event)
<1>1. /\ a \in Seq(Line) /\ b \in Seq(Line)
      /\ Range(a) = Range(s) \cap (Line \ Event) /\ Range(b) = Range(s) \cap Event
      /\ \A l : Once(l, s) => Once(l, a) /\ Once(l, b)
  BY SelectedLines
<1>2. Range(s) \subseteq Line
  BY DEF Range
<1> HIDE DEF a, b
<1>3. /\ a \o b \in Seq(Line) /\ Range(a \o b) = Range(a) \cup Range(b)
      /\ \A l : Once(l, a) /\ Once(l, b) /\ ~(l \in Range(a) /\ l \in Range(b)) => Once(l, a \o b)
  BY <1>1, ConcatLines
<1>4. CountsFirst(s) = a \o b
  BY DEF CountsFirst, a, b
<1> QED  BY <1>1, <1>2, <1>3, <1>4

(* What the cap leaves: some of the lines, none twice that was there once. *)
LEMMA CappedLines ==
    ASSUME NEW s \in Seq(Line)
    PROVE  /\ Capped(s) \in Seq(Line) /\ Range(Capped(s)) \subseteq Range(s)
           /\ \A l : Once(l, s) => Once(l, Capped(s))
<1> DEFINE m == IF Len(s) > Cap THEN Len(s) - Cap + 1 ELSE 1
<1>1. m \in Nat \ {0} /\ Len(s) \in Nat
  BY TelemetryAssumption
<1>2. Capped(s) = SubSeq(s, m, Len(s))
  BY DEF Capped
<1> HIDE DEF m
<1>3. /\ SubSeq(s, m, Len(s)) \in Seq(Line)
      /\ \A l : l \in Range(SubSeq(s, m, Len(s))) <=> \E i \in DOMAIN s : m <= i /\ i <= Len(s) /\ s[i] = l
      /\ \A l : Once(l, s) => Once(l, SubSeq(s, m, Len(s)))
  BY <1>1, PartOfLines
<1> QED  BY <1>2, <1>3 DEF Range

(* A request takes the first lines of a flight and leaves the rest.        *)
LEMMA FlightParts ==
    ASSUME NEW f \in Flight
    PROVE  /\ First(f) \in Seq(Line) /\ Rest(f) \in Seq(Line)
           /\ Range(First(f)) \cup Range(Rest(f)) = Range(f.send)
           /\ \A l : Once(l, f.send) => Once(l, Rest(f)) /\ ~(l \in Range(First(f)) /\ l \in Range(Rest(f)))
<1> DEFINE s == f.send
           n == IF Chunk < Len(s) THEN Chunk ELSE Len(s)
<1>1. s \in Seq(Line) /\ n \in Nat /\ n <= Len(s) /\ Len(s) \in Nat /\ DOMAIN s = 1..Len(s) /\ n + 1 \in Nat \ {0}
  BY TelemetryAssumption DEF Flight
<1>2. First(f) = SubSeq(s, 1, n)
  BY DEF First
<1>3. Len(First(f)) = n
  BY <1>1, <1>2
<1>4. Rest(f) = SubSeq(s, n + 1, Len(s))
  BY <1>3 DEF Rest
<1> HIDE DEF s, n
<1>5. /\ First(f) \in Seq(Line)
      /\ \A l : l \in Range(First(f)) <=> \E i \in DOMAIN s : 1 <= i /\ i <= n /\ s[i] = l
  <2> DEFINE one == 1
  <2>1. one \in Nat \ {0}
    OBVIOUS
  <2>2. First(f) = SubSeq(s, one, n)
    BY <1>2
  <2> HIDE DEF one
  <2>3. /\ First(f) \in Seq(Line)
        /\ \A l : l \in Range(First(f)) <=> \E i \in DOMAIN s : one <= i /\ i <= n /\ s[i] = l
    <3>1. s \in Seq(Line) /\ n \in Nat /\ n <= Len(s)
      BY <1>1
    <3>2. /\ SubSeq(s, one, n) \in Seq(Line)
          /\ \A l : l \in Range(SubSeq(s, one, n)) <=> \E i \in DOMAIN s : one <= i /\ i <= n /\ s[i] = l
      BY <2>1, <3>1, PartOfLines
    <3> QED  BY <2>2, <3>2
  <2> QED  BY <2>3 DEF one
<1> DEFINE h == n + 1
<1>6. /\ Rest(f) \in Seq(Line)
      /\ \A l : l \in Range(Rest(f)) <=> \E i \in DOMAIN s : h <= i /\ i <= Len(s) /\ s[i] = l
      /\ \A l : Once(l, s) => Once(l, Rest(f))
  <2>1. h \in Nat \ {0} /\ Len(s) <= Len(s)
    BY <1>1
  <2>2. Rest(f) = SubSeq(s, h, Len(s))
    BY <1>4
  <2> HIDE DEF h
  <2> QED  BY <1>1, <2>1, <2>2, PartOfLines
<1>7. \A i \in DOMAIN s : (1 <= i /\ i <= n) \/ (n + 1 <= i /\ i <= Len(s))
  BY <1>1
<1>8. \A l : l \in Range(s) <=> \E i \in DOMAIN s : s[i] = l
  BY DEF Range
<1>9. Range(First(f)) \cup Range(Rest(f)) = Range(s)
  BY <1>5, <1>6, <1>7, <1>8
<1>10. ASSUME NEW l, Once(l, s) PROVE ~(l \in Range(First(f)) /\ l \in Range(Rest(f)))
  <2> SUFFICES ASSUME l \in Range(First(f)), l \in Range(Rest(f)) PROVE FALSE
    OBVIOUS
  <2>1. PICK i \in DOMAIN s : i <= n /\ s[i] = l
    BY <1>5
  <2>2. PICK j \in DOMAIN s : n + 1 <= j /\ s[j] = l
    BY <1>6
  <2>3. i # j
    BY <1>1, <2>1, <2>2
  <2> QED  BY <1>10, <2>1, <2>2, <2>3 DEF Once
<1> QED  BY <1>5, <1>6, <1>9, <1>10 DEF s

(* Where the k-th flight was before the i-th was removed.                  *)
Was(k, i) == IF k < i THEN k ELSE k + 1

(* The places of two sequences in one.                                     *)
LEMMA Joined ==
    ASSUME NEW S, NEW s \in Seq(S), NEW t \in Seq(S)
    PROVE  /\ s \o t \in Seq(S) /\ Len(s \o t) = Len(s) + Len(t) /\ DOMAIN (s \o t) = 1..(Len(s) + Len(t))
           /\ \A k \in 1..(Len(s) + Len(t)) : (s \o t)[k] = IF k <= Len(s) THEN s[k] ELSE t[k - Len(s)]
OBVIOUS

(* A list of flights without the i-th: where each of the others was.       *)
LEMMA RemovedFlight ==
    ASSUME NEW s \in Seq(Flight), NEW i \in DOMAIN s
    PROVE  /\ RemoveAt(s, i) \in Seq(Flight)
           /\ Len(RemoveAt(s, i)) = Len(s) - 1
           /\ \A k \in DOMAIN RemoveAt(s, i) : /\ Was(k, i) \in DOMAIN s /\ Was(k, i) # i
                                               /\ RemoveAt(s, i)[k] = s[Was(k, i)]
           /\ \A j, k \in DOMAIN RemoveAt(s, i) : Was(j, i) = Was(k, i) => j = k
<1> DEFINE u == SubSeq(s, 1, i - 1)
           v == SubSeq(s, i + 1, Len(s))
<1>1. /\ Len(s) \in Nat /\ DOMAIN s = 1..Len(s) /\ i \in Nat /\ 1 <= i /\ i <= Len(s)
  OBVIOUS
<1>2. /\ u \in Seq(Flight) /\ Len(u) = i - 1 /\ DOMAIN u = 1..(i - 1)
      /\ \A k \in DOMAIN u : u[k] = s[k]
  BY <1>1
<1>3. /\ v \in Seq(Flight) /\ Len(v) = Len(s) - i /\ DOMAIN v = 1..(Len(s) - i)
      /\ \A k \in DOMAIN v : v[k] = s[i + k]
  BY <1>1
<1> DEFINE w == u \o v
<1>4. RemoveAt(s, i) = w
  BY DEF RemoveAt
<1> HIDE DEF u, v
<1>5. /\ w \in Seq(Flight) /\ Len(w) = Len(s) - 1 /\ DOMAIN w = 1..(Len(s) - 1)
      /\ \A k \in 1..(Len(s) - 1) : w[k] = IF k <= i - 1 THEN u[k] ELSE v[k - (i - 1)]
  <2>1. /\ w \in Seq(Flight) /\ Len(w) = Len(u) + Len(v) /\ DOMAIN w = 1..(Len(u) + Len(v))
        /\ \A k \in 1..(Len(u) + Len(v)) : w[k] = IF k <= Len(u) THEN u[k] ELSE v[k - Len(u)]
    BY <1>2, <1>3, Joined
  <2>2. Len(u) + Len(v) = Len(s) - 1
    BY <1>1, <1>2, <1>3
  <2> QED  BY <1>2, <2>1, <2>2
<1> HIDE DEF w
<1>6. ASSUME NEW k \in DOMAIN w
      PROVE  Was(k, i) \in DOMAIN s /\ Was(k, i) # i /\ w[k] = s[Was(k, i)]
  <2>1. CASE k < i
    BY <1>1, <1>2, <1>5, <2>1 DEF Was
  <2>2. CASE ~(k < i)
    <3>1. k - (i - 1) \in DOMAIN v /\ i + (k - (i - 1)) = k + 1
      BY <1>1, <1>3, <1>5, <2>2
    <3> QED  BY <1>1, <1>3, <1>5, <2>2, <3>1 DEF Was
  <2> QED  BY <2>1, <2>2
<1>7. \A j, k \in DOMAIN w : Was(j, i) = Was(k, i) => j = k
  BY <1>1, <1>5 DEF Was
<1> QED  BY <1>4, <1>5, <1>6, <1>7

-----------------------------------------------------------------------------
(* Appending, as a turn leaves it.                                         *)
LEMMA AppendThenTypes ==
    ASSUME TelemetryTypes, NEW p \in Process, NEW lines \in Seq(Line), NEW next \in {"idle", "recover", "release", "end"},
           next \in {"end", "recover", "release"} \/ lines = <<>>,
           AppendThen(p, lines, next)
    PROVE  /\ doing' = [doing EXCEPT ![p] = IF lines = <<>> THEN next ELSE "append"]
           /\ buf' = IF lines = <<>> THEN buf ELSE [buf EXCEPT ![p] = lines]
           /\ after' = IF lines = <<>> THEN after ELSE [after EXCEPT ![p] = next]
           /\ base' = base /\ victim' = victim
           /\ doing' \in [Process -> {"idle", "append", "write", "recover", "unlink", "putBack", "read", "release", "end", "down"}]
           /\ buf' \in [Process -> Seq(Line)] /\ after' \in [Process -> {"end", "recover", "release"}]
           /\ base' \in [Process -> Seq(Line)] /\ victim' \in [Process -> Process]
<1>1. CASE lines = <<>>
  BY <1>1 DEF AppendThen, GoOn, TelemetryTypes
<1>2. CASE lines # <<>>
  <2>1. /\ doing' = [doing EXCEPT ![p] = "append"] /\ buf' = [buf EXCEPT ![p] = lines]
        /\ after' = [after EXCEPT ![p] = next] /\ base' = base /\ victim' = victim
    BY <1>2 DEF AppendThen, GoOn
  <2>2. next \in {"end", "recover", "release"}
    BY <1>2
  <2> QED  BY <1>2, <2>1, <2>2 DEF TelemetryTypes
<1> QED  BY <1>1, <1>2

(* Persisting, as a turn goes on.                                          *)
LEMMA PersistThenTypes ==
    ASSUME TelemetryTypes, NEW p \in Process, NEW next \in {"recover", "end"}, PersistThen(p, next)
    PROVE  LET lines == IF isEnabled(p) THEN CountsFirst(mem[p]) ELSE <<>> IN
           /\ mem' = [mem EXCEPT ![p] = <<>>]
           /\ gone' = IF isEnabled(p) THEN gone ELSE gone \cup Range(mem[p])
           /\ lines \in Seq(Line) /\ AppendThen(p, lines, next)
           /\ mem' \in [Process -> Seq(Line)]
<1>1. mem[p] \in Seq(Line) /\ mem' = [mem EXCEPT ![p] = <<>>]
  BY DEF TelemetryTypes, PersistThen
<1>2. mem' \in [Process -> Seq(Line)]
  BY <1>1 DEF TelemetryTypes
<1>3. CountsFirst(mem[p]) \in Seq(Line)
  BY <1>1, CountsFirstLines
<1>4. CASE isEnabled(p)
  BY <1>1, <1>2, <1>3, <1>4 DEF PersistThen
<1>5. CASE ~isEnabled(p)
  BY <1>1, <1>2, <1>3, <1>5 DEF PersistThen
<1> QED  BY <1>4, <1>5

(* What the endpoint has got after it got some lines.                      *)
LEMMA ReceivedTypes ==
    ASSUME TelemetryTypes, NEW lines, Received(lines)
    PROVE  /\ sent' \in [Line -> Nat]
           /\ \A l \in Line : /\ sent[l] > 0 => sent'[l] > 0
                              /\ l \notin lines => sent'[l] = sent[l]
                              /\ l \in lines => sent'[l] > 0
                              /\ l \in lines /\ sent[l] = 0 => sent'[l] = 1
<1>1. sent' = [l \in Line |-> IF l \in lines /\ sent[l] < 2 THEN sent[l] + 1 ELSE sent[l]]
  BY DEF Received
<1> QED  BY <1>1 DEF TelemetryTypes

(* What a process knows once it has read the choice.                       *)
LEMMA ChoiceTypes ==
    ASSUME TelemetryTypes, NEW p \in Process, ReadsChoice(p)
    PROVE  /\ Choice(p) \in {"none", "on", "off"}
           /\ cache' = [cache EXCEPT ![p] = Choice(p)]
           /\ cache' \in [Process -> {"unread", "none", "on", "off"}]
<1>1. Choice(p) \in {"none", "on", "off"}
  BY DEF Choice, TelemetryTypes
<1> QED  BY <1>1 DEF ReadsChoice, TelemetryTypes

(* The flight is taken off the list, and what goes back is appended.       *)
LEMMA FlightIsOver ==
    ASSUME TelemetryTypes, NEW p \in Process, NEW i \in DOMAIN flights[p], NEW back \in Seq(Line), FlightEnds(p, i, back)
    PROVE  /\ flights' = [flights EXCEPT ![p] = RemoveAt(flights[p], i)]
           /\ RemoveAt(flights[p], i) \in Seq(Flight)
           /\ flights' \in [Process -> Seq(Flight)]
           /\ AppendThen(p, back, "release")
<1>1. flights[p] \in Seq(Flight)
  BY DEF TelemetryTypes
<1>2. RemoveAt(flights[p], i) \in Seq(Flight)
  BY <1>1, RemovedFlight
<1> QED  BY <1>1, <1>2 DEF FlightEnds, TelemetryTypes

(* Every action keeps the types.                                           *)
LEMMA TelemetryTypesStep == TelemetryTypes /\ TelemetryNext => TelemetryTypes'
<1> SUFFICES ASSUME TelemetryTypes, TelemetryNext PROVE TelemetryTypes'
  OBVIOUS
<1> USE DEF consent, queueFile, claims, memory, turn, outside, accounts, GoOn
<1>1. ASSUME NEW p \in Process, NEW l \in Line, Record(p, l) PROVE TelemetryTypes'
  <2>1. cache' \in [Process -> {"unread", "none", "on", "off"}]
    BY <1>1, ChoiceTypes DEF Record
  <2>2. Append(mem[p], l) \in Seq(Line)
    BY AppendedLine DEF TelemetryTypes
  <2>3. mem' \in [Process -> Seq(Line)] /\ recorded' \subseteq Line
    <3>1. CASE isEnabled(p)
      <4>1. mem' = [mem EXCEPT ![p] = Append(mem[p], l)] /\ recorded' = recorded \cup {l}
        BY <1>1, <3>1 DEF Record
      <4> QED  BY <2>2, <4>1 DEF TelemetryTypes
    <3>2. CASE ~isEnabled(p)
      BY <1>1, <3>2 DEF Record, TelemetryTypes
    <3> QED  BY <3>1, <3>2
  <2> QED  BY <1>1, <2>1, <2>3 DEF Record, TelemetryTypes
<1>2. ASSUME NEW p \in Process, NEW choice \in {"on", "off"}, SetEnabled(p, choice) PROVE TelemetryTypes'
  <2>1. cache' \in [Process -> {"unread", "none", "on", "off"}] /\ config' \in {"none", "on", "off"}
    BY <1>2 DEF SetEnabled, TelemetryTypes
  <2>2. queue' \in Seq(Line) /\ quiet' \in BOOLEAN
    <3>1. CASE choice = "off"
      <4>1. queue' = <<>> /\ quiet' = FALSE
        BY <1>2, <3>1 DEF SetEnabled
      <4>2. queue' \in Seq(Line)
        BY <4>1
      <4>3. quiet' \in BOOLEAN
        BY <4>1
      <4> QED  BY <4>2, <4>3
    <3>2. CASE choice # "off"
      BY <1>2, <3>2 DEF SetEnabled, TelemetryTypes
    <3> QED  BY <3>1, <3>2
  <2> QED  BY <1>2, <2>1, <2>2 DEF SetEnabled, TelemetryTypes
<1>3. ASSUME NEW p \in Process, Flush(p) PROVE TelemetryTypes'
  <2> DEFINE lines == IF isEnabled(p) THEN CountsFirst(mem[p]) ELSE <<>>
  <2>1. cache' \in [Process -> {"unread", "none", "on", "off"}]
    BY <1>3, ChoiceTypes DEF Flush
  <2>2. mem' \in [Process -> Seq(Line)] /\ lines \in Seq(Line) /\ AppendThen(p, lines, "recover")
    BY <1>3, PersistThenTypes DEF Flush
  <2> HIDE DEF lines
  <2>3. /\ doing' \in [Process -> {"idle", "append", "write", "recover", "unlink", "putBack", "read", "release", "end", "down"}]
        /\ buf' \in [Process -> Seq(Line)] /\ after' \in [Process -> {"end", "recover", "release"}]
        /\ base' \in [Process -> Seq(Line)] /\ victim' \in [Process -> Process]
    BY <2>2, AppendThenTypes
  <2>4. flushes' \in [Process -> Nat]
    BY <1>3 DEF Flush, TelemetryTypes
  <2> QED  BY <1>3, <2>1, <2>2, <2>3, <2>4 DEF Flush, TelemetryTypes
<1>4. ASSUME NEW p \in Process, FetchAnswered(p) PROVE TelemetryTypes'
  <2>1. PICK i \in DOMAIN flights[p] :
          /\ Received(Range(First(flights[p][i])))
          /\ IF Rest(flights[p][i]) = <<>> THEN FlightEnds(p, i, flights[p][i].keep)
             ELSE flights' = [flights EXCEPT ![p][i].send = Rest(flights[p][i])] /\ UNCHANGED turn
    BY <1>4 DEF FetchAnswered
  <2>2. sent' \in [Line -> Nat]
    BY <2>1, ReceivedTypes
  <2>3. flights[p] \in Seq(Flight) /\ flights[p][i] \in Flight
    BY DEF TelemetryTypes
  <2>4. flights[p][i].keep \in Seq(Line) /\ Rest(flights[p][i]) \in Seq(Line)
    BY <2>3, FlightParts DEF Flight
  <2>5. CASE Rest(flights[p][i]) = <<>>
    <3>1. flights' \in [Process -> Seq(Flight)] /\ AppendThen(p, flights[p][i].keep, "release")
      BY <2>1, <2>4, <2>5, FlightIsOver
    <3>2. /\ doing' \in [Process -> {"idle", "append", "write", "recover", "unlink", "putBack", "read", "release", "end", "down"}]
          /\ buf' \in [Process -> Seq(Line)] /\ after' \in [Process -> {"end", "recover", "release"}]
          /\ base' \in [Process -> Seq(Line)] /\ victim' \in [Process -> Process]
      BY <2>4, <3>1, AppendThenTypes
    <3> QED  BY <1>4, <2>2, <3>1, <3>2 DEF FetchAnswered, TelemetryTypes
  <2>6. CASE Rest(flights[p][i]) # <<>>
    <3>1. [flights[p][i] EXCEPT !.send = Rest(flights[p][i])] \in Flight
      BY <2>3, <2>4 DEF Flight
    <3>2. [flights[p] EXCEPT ![i] = [flights[p][i] EXCEPT !.send = Rest(flights[p][i])]] \in Seq(Flight)
      BY <2>3, <3>1
    <3>3. flights' \in [Process -> Seq(Flight)]
      BY <2>1, <2>6, <3>2 DEF TelemetryTypes
    <3> QED  BY <1>4, <2>1, <2>2, <2>6, <3>3 DEF FetchAnswered, TelemetryTypes
  <2> QED  BY <2>5, <2>6
<1>5. ASSUME NEW p \in Process, FetchFails(p) PROVE TelemetryTypes'
  <2>1. PICK i \in DOMAIN flights[p] : \E arrived \in {{}, Range(First(flights[p][i]))} :
          /\ Received(arrived)
          /\ FlightEnds(p, i, flights[p][i].send \o flights[p][i].keep)
    BY <1>5 DEF FetchFails
  <2>2. sent' \in [Line -> Nat]
    BY <2>1, ReceivedTypes
  <2>3. flights[p][i] \in Flight
    BY DEF TelemetryTypes
  <2> DEFINE back == flights[p][i].send \o flights[p][i].keep
  <2>4. back \in Seq(Line)
    BY <2>3, ConcatLines DEF Flight
  <2>5. FlightEnds(p, i, back)
    BY <2>1
  <2> HIDE DEF back
  <2>6. flights' \in [Process -> Seq(Flight)] /\ AppendThen(p, back, "release")
    BY <2>4, <2>5, FlightIsOver
  <2>7. /\ doing' \in [Process -> {"idle", "append", "write", "recover", "unlink", "putBack", "read", "release", "end", "down"}]
        /\ buf' \in [Process -> Seq(Line)] /\ after' \in [Process -> {"end", "recover", "release"}]
        /\ base' \in [Process -> Seq(Line)] /\ victim' \in [Process -> Process]
    BY <2>4, <2>6, AppendThenTypes
  <2> QED  BY <1>5, <2>2, <2>6, <2>7 DEF FetchFails, TelemetryTypes
<1>6. ASSUME NEW p \in Process, AppendRead(p) PROVE TelemetryTypes'
  BY <1>6 DEF AppendRead, TelemetryTypes
<1>7. ASSUME NEW p \in Process, AppendWrite(p) PROVE TelemetryTypes'
  <2>1. base[p] \o buf[p] \in Seq(Line)
    BY ConcatLines DEF TelemetryTypes
  <2>2. Capped(base[p] \o buf[p]) \in Seq(Line)
    BY <2>1, CappedLines
  <2>a. quiet' \in BOOLEAN
    BY <1>7 DEF AppendWrite
  <2>b. queue' \in Seq(Line)
    BY <1>7, <2>2 DEF AppendWrite
  <2>3. /\ buf' \in [Process -> Seq(Line)] /\ base' \in [Process -> Seq(Line)]
        /\ after' \in [Process -> {"end", "recover", "release"}]
    BY <1>7 DEF AppendWrite, TelemetryTypes
  <2>4. doing' \in [Process -> {"idle", "append", "write", "recover", "unlink", "putBack", "read", "release", "end", "down"}]
    BY <1>7 DEF AppendWrite, TelemetryTypes
  <2> QED  BY <1>7, <2>a, <2>b, <2>3, <2>4 DEF AppendWrite, TelemetryTypes
<1>8. ASSUME NEW p \in Process, StaleUnlink(p) PROVE TelemetryTypes'
  <2>1. /\ claim' = [claim EXCEPT ![victim[p]] = <<>>] /\ stale' = [stale EXCEPT ![victim[p]] = FALSE]
        /\ doing' = [doing EXCEPT ![p] = "putBack"]
    BY <1>8 DEF StaleUnlink
  <2>2. claim' \in [Process -> Seq(Line)] /\ stale' \in [Process -> BOOLEAN]
    BY <2>1 DEF TelemetryTypes
  <2> QED  BY <1>8, <2>1, <2>2 DEF StaleUnlink, TelemetryTypes
<1>9. ASSUME NEW p \in Process, StalePutBack(p) PROVE TelemetryTypes'
  <2>1. queue \o buf[p] \in Seq(Line)
    BY ConcatLines DEF TelemetryTypes
  <2>2. queue' \in Seq(Line) /\ quiet' \in BOOLEAN
    BY <1>9, <2>1 DEF StalePutBack
  <2>3. /\ buf' \in [Process -> Seq(Line)] /\ victim' \in [Process -> Process]
        /\ doing' \in [Process -> {"idle", "append", "write", "recover", "unlink", "putBack", "read", "release", "end", "down"}]
    BY <1>9 DEF StalePutBack, TelemetryTypes
  <2> QED  BY <1>9, <2>2, <2>3 DEF StalePutBack, TelemetryTypes
<1>10. ASSUME NEW p \in Process, NEW q \in Process, StaleRead(p, q) PROVE TelemetryTypes'
  BY <1>10 DEF StaleRead, TelemetryTypes
<1>11. ASSUME NEW p \in Process, ClaimQueue(p) PROVE TelemetryTypes'
  <2>1. CASE queue = <<>>
    BY <1>11, <2>1 DEF ClaimQueue, TelemetryTypes
  <2>2. CASE queue # <<>>
    <3>1. /\ doing' = [doing EXCEPT ![p] = "read"] /\ claim' = [claim EXCEPT ![p] = queue] /\ queue' = <<>>
          /\ stale' = [stale EXCEPT ![p] = quiet] /\ quiet' = FALSE
      BY <1>11, <2>2 DEF ClaimQueue, Taken
    <3>2. claim' \in [Process -> Seq(Line)] /\ queue' \in Seq(Line) /\ stale' \in [Process -> BOOLEAN]
      BY <3>1 DEF TelemetryTypes
    <3> QED  BY <1>11, <3>1, <3>2 DEF ClaimQueue, TelemetryTypes
  <2> QED  BY <2>1, <2>2
<1>12. ASSUME NEW p \in Process, ReadClaim(p) PROVE TelemetryTypes'
  <2> DEFINE send == Selected(claim[p], Sendable)
             keep == Kept(claim[p])
  <2>1. send \in Seq(Line) /\ keep \in Seq(Line)
    BY SelectedLines DEF TelemetryTypes, Kept
  <2>2. CASE send = <<>>
    <3>1. AppendThen(p, keep, "release") /\ UNCHANGED <<consent, flights>>
      BY <1>12, <2>2 DEF ReadClaim
    <3> HIDE DEF send, keep
    <3>2. /\ doing' \in [Process -> {"idle", "append", "write", "recover", "unlink", "putBack", "read", "release", "end", "down"}]
          /\ buf' \in [Process -> Seq(Line)] /\ after' \in [Process -> {"end", "recover", "release"}]
          /\ base' \in [Process -> Seq(Line)] /\ victim' \in [Process -> Process]
      BY <2>1, <3>1, AppendThenTypes
    <3> QED  BY <1>12, <3>1, <3>2 DEF ReadClaim, TelemetryTypes
  <2>3. CASE send # <<>>
    <3>1. /\ firstRunNotice(p) /\ doing' = [doing EXCEPT ![p] = "idle"] /\ UNCHANGED <<after, buf, base, victim>>
          /\ flights' = [flights EXCEPT ![p] = Append(@, [send |-> send, keep |-> keep])]
      BY <1>12, <2>3 DEF ReadClaim
    <3>2. [send |-> send, keep |-> keep] \in Flight
      BY <2>1 DEF Flight
    <3> HIDE DEF send, keep
    <3>3. Append(flights[p], [send |-> send, keep |-> keep]) \in Seq(Flight)
      BY <3>2 DEF TelemetryTypes
    <3>4. flights' \in [Process -> Seq(Flight)] /\ doing' \in [Process -> {"idle", "append", "write", "recover", "unlink", "putBack", "read", "release", "end", "down"}]
      BY <3>1, <3>3 DEF TelemetryTypes
    <3>5. config' \in {"none", "on", "off"} /\ cache' \in [Process -> {"unread", "none", "on", "off"}]
      BY <3>1 DEF firstRunNotice, TelemetryTypes
    <3> QED  BY <1>12, <3>1, <3>4, <3>5 DEF ReadClaim, TelemetryTypes
  <2> QED  BY <2>2, <2>3
<1>13. ASSUME NEW p \in Process, ReleaseClaim(p) PROVE TelemetryTypes'
  BY <1>13 DEF ReleaseClaim, TelemetryTypes
<1>14. ASSUME NEW p \in Process, End(p) PROVE TelemetryTypes'
  BY <1>14 DEF End, TelemetryTypes
<1>15. ASSUME NEW p \in Process, Exit(p) PROVE TelemetryTypes'
  <2> DEFINE lines == IF isEnabled(p) THEN CountsFirst(mem[p]) ELSE <<>>
  <2>1. cache' \in [Process -> {"unread", "none", "on", "off"}]
    BY <1>15, ChoiceTypes DEF Exit
  <2>2. mem' \in [Process -> Seq(Line)] /\ lines \in Seq(Line) /\ AppendThen(p, lines, "end")
    BY <1>15, PersistThenTypes DEF Exit
  <2> HIDE DEF lines
  <2>3. /\ doing' \in [Process -> {"idle", "append", "write", "recover", "unlink", "putBack", "read", "release", "end", "down"}]
        /\ buf' \in [Process -> Seq(Line)] /\ after' \in [Process -> {"end", "recover", "release"}]
        /\ base' \in [Process -> Seq(Line)] /\ victim' \in [Process -> Process]
    BY <2>2, AppendThenTypes
  <2>4. sent' \in [Line -> Nat]
    BY <1>15, ReceivedTypes DEF Exit, Abandons
  <2>5. flights' \in [Process -> Seq(Flight)]
    BY <1>15 DEF Exit, Abandons, TelemetryTypes
  <2> QED  BY <1>15, <2>1, <2>2, <2>3, <2>4, <2>5 DEF Exit, TelemetryTypes
<1>16. ASSUME NEW p \in Process, Die(p) PROVE TelemetryTypes'
  <2>1. sent' \in [Line -> Nat]
    BY <1>16, ReceivedTypes DEF Die, Abandons
  <2>2. flights' \in [Process -> Seq(Flight)]
    BY <1>16 DEF Die, Abandons, TelemetryTypes
  <2>3. /\ mem' \in [Process -> Seq(Line)] /\ buf' \in [Process -> Seq(Line)] /\ base' \in [Process -> Seq(Line)]
        /\ flushes' \in [Process -> Nat] /\ victim' \in [Process -> Process]
    BY <1>16 DEF Die, TelemetryTypes
  <2> QED  BY <1>16, <2>1, <2>2, <2>3 DEF Die, TelemetryTypes
<1>17. ASSUME NEW p \in Process, ClaimAges(p) PROVE TelemetryTypes'
  BY <1>17 DEF ClaimAges, TelemetryTypes
<1>18. CASE NextDay
  BY <1>18 DEF NextDay, TelemetryTypes
<1>19. CASE QueueAges
  BY <1>19 DEF QueueAges, TelemetryTypes
<1> QED
  BY <1>1, <1>2, <1>3, <1>4, <1>5, <1>6, <1>7, <1>8, <1>9, <1>10, <1>11, <1>12, <1>13, <1>14, <1>15, <1>16, <1>17,
     <1>18, <1>19 DEF TelemetryNext, Work

(* Every action keeps the order of the calls of a turn, and what a process *)
(* may be at by what it knows of the choice.                               *)
LEMMA TurnsStep == TelemetryTypes /\ Turns /\ Knows /\ TelemetryNext => Turns' /\ Knows'
<1> SUFFICES ASSUME TelemetryTypes, Turns, Knows, TelemetryNext PROVE Turns' /\ Knows'
  OBVIOUS
<1> USE DEF consent, queueFile, claims, memory, turn, outside, accounts, GoOn, Turns, Knows, Leaving, Back, Appending
<1>1. ASSUME NEW p \in Process, NEW l \in Line, Record(p, l) PROVE Turns' /\ Knows'
  <2>1. /\ Choice(p) \in {"none", "on", "off"} /\ cache' = [cache EXCEPT ![p] = Choice(p)]
        /\ cache[p] # "unread" => Choice(p) = cache[p]
    BY <1>1, ChoiceTypes DEF Record, Choice
  <2>2. /\ doing[p] = "idle" /\ mem' = [mem EXCEPT ![p] = mem'[p]]
        /\ UNCHANGED <<flights, flushes, doing, after, buf, base>>
    BY <1>1 DEF Record, TelemetryTypes
  <2>3. /\ cache'[p] = Choice(p)
        /\ \A o \in Process \ {p} : mem'[o] = mem[o] /\ cache'[o] = cache[o]
    BY <2>1, <2>2 DEF TelemetryTypes
  <2>4. Turns'
    BY <2>2, <2>3
  <2>5. Knows'
    BY <2>1, <2>2, <2>3
  <2> QED  BY <2>4, <2>5
<1>2. ASSUME NEW p \in Process, NEW choice \in {"on", "off"}, SetEnabled(p, choice) PROVE Turns' /\ Knows'
  BY <1>2 DEF SetEnabled, TelemetryTypes
<1>3. ASSUME NEW p \in Process, Flush(p) PROVE Turns' /\ Knows'
  <2> DEFINE lines == IF isEnabled(p) THEN CountsFirst(mem[p]) ELSE <<>>
  <2>1. /\ Choice(p) \in {"none", "on"} /\ cache' = [cache EXCEPT ![p] = Choice(p)]
    BY <1>3, ChoiceTypes DEF Flush, isEnabled
  <2>2. mem' = [mem EXCEPT ![p] = <<>>] /\ lines \in Seq(Line) /\ AppendThen(p, lines, "recover")
    BY <1>3, PersistThenTypes DEF Flush
  <2> HIDE DEF lines
  <2>3. /\ doing' = [doing EXCEPT ![p] = IF lines = <<>> THEN "recover" ELSE "append"]
        /\ buf' = IF lines = <<>> THEN buf ELSE [buf EXCEPT ![p] = lines]
        /\ after' = IF lines = <<>> THEN after ELSE [after EXCEPT ![p] = "recover"]
        /\ base' = base /\ victim' = victim
    BY <2>2, AppendThenTypes
  <2>4. doing[p] = "idle" /\ flights' = flights /\ flushes' = IF p \in Server THEN flushes ELSE [flushes EXCEPT ![p] = @ + 1]
    BY <1>3 DEF Flush
  <2>5. \A q \in Process : q \notin Server /\ flushes'[q] = 0 => q # p /\ flushes[q] = 0
    <3>1. flushes[p] \in Nat
      BY DEF TelemetryTypes
    <3> QED  BY <2>4, <3>1 DEF TelemetryTypes
  <2>6. Turns'
    <3>1. CASE lines = <<>>
      BY <2>2, <2>3, <2>4, <3>1 DEF TelemetryTypes
    <3>2. CASE lines # <<>>
      BY <2>2, <2>3, <2>4, <3>2 DEF TelemetryTypes
    <3> QED  BY <3>1, <3>2
  <2>7. Knows'
    <3>1. CASE lines = <<>>
      BY <2>1, <2>3, <2>4, <2>5, <3>1 DEF TelemetryTypes
    <3>2. CASE lines # <<>>
      BY <2>1, <2>3, <2>4, <2>5, <3>2 DEF TelemetryTypes
    <3> QED  BY <3>1, <3>2
  <2> QED  BY <2>6, <2>7
<1>4. ASSUME NEW p \in Process, NEW i \in DOMAIN flights[p], NEW back \in Seq(Line), FlightEnds(p, i, back),
             doing[p] = "idle", UNCHANGED <<mem, cache, flushes>>
      PROVE  Turns' /\ Knows'
  <2>1. /\ flights' = [flights EXCEPT ![p] = RemoveAt(flights[p], i)]
        /\ AppendThen(p, back, "release")
    BY <1>4, FlightIsOver
  <2>2. /\ doing' = [doing EXCEPT ![p] = IF back = <<>> THEN "release" ELSE "append"]
        /\ buf' = IF back = <<>> THEN buf ELSE [buf EXCEPT ![p] = back]
        /\ after' = IF back = <<>> THEN after ELSE [after EXCEPT ![p] = "release"]
        /\ base' = base /\ victim' = victim
    BY <2>1, AppendThenTypes
  <2>3. flights[p] # <<>>
    BY <1>4
  <2>4. \A o \in Process \ {p} :
            /\ flights'[o] = flights[o] /\ doing'[o] = doing[o]
            /\ buf'[o] = buf[o] /\ after'[o] = after[o]
    BY <2>1, <2>2 DEF TelemetryTypes
  <2>5. doing[p] = "idle" /\ UNCHANGED <<mem, cache, flushes>>
    BY <1>4
  <2>6. CASE back = <<>>
    <3>1. doing'[p] = "release" /\ UNCHANGED <<buf, after>>
      BY <2>2, <2>6 DEF TelemetryTypes
    <3>2. Turns'
      BY <2>2, <2>4, <2>5, <3>1
    <3>3. Knows'
      BY <2>3, <2>4, <2>5, <3>1
    <3> QED  BY <3>2, <3>3
  <2>7. CASE back # <<>>
    <3>1. doing'[p] = "append" /\ after'[p] = "release"
      BY <2>2, <2>7 DEF TelemetryTypes
    <3>2. Turns'
      BY <2>2, <2>4, <2>5, <3>1
    <3>3. Knows'
      BY <2>3, <2>4, <2>5, <3>1
    <3> QED  BY <3>2, <3>3
  <2> QED  BY <2>6, <2>7
<1>5. ASSUME NEW p \in Process, FetchAnswered(p) PROVE Turns' /\ Knows'
  <2>1. PICK i \in DOMAIN flights[p] :
          IF Rest(flights[p][i]) = <<>> THEN FlightEnds(p, i, flights[p][i].keep)
          ELSE flights' = [flights EXCEPT ![p][i].send = Rest(flights[p][i])] /\ UNCHANGED turn
    BY <1>5 DEF FetchAnswered
  <2>2. doing[p] = "idle" /\ UNCHANGED <<mem, cache, flushes>>
    BY <1>5 DEF FetchAnswered
  <2>f. flights[p][i] \in Flight
    BY DEF TelemetryTypes
  <2>3. flights[p][i].keep \in Seq(Line) /\ flights[p] # <<>>
    BY <2>f DEF Flight
  <2>4. CASE Rest(flights[p][i]) = <<>>
    BY <1>4, <2>1, <2>2, <2>3, <2>4
  <2>5. CASE Rest(flights[p][i]) # <<>>
    BY <2>1, <2>2, <2>3, <2>5 DEF TelemetryTypes
  <2> QED  BY <2>4, <2>5
<1>6. ASSUME NEW p \in Process, FetchFails(p) PROVE Turns' /\ Knows'
  <2>1. PICK i \in DOMAIN flights[p] : FlightEnds(p, i, flights[p][i].send \o flights[p][i].keep)
    BY <1>6 DEF FetchFails
  <2>2. doing[p] = "idle" /\ UNCHANGED <<mem, cache, flushes>>
    BY <1>6 DEF FetchFails
  <2>3. flights[p][i] \in Flight
    BY DEF TelemetryTypes
  <2>4. flights[p][i].send \o flights[p][i].keep \in Seq(Line)
    BY <2>3, ConcatLines DEF Flight
  <2> QED  BY <1>4, <2>1, <2>2, <2>4
<1>7. ASSUME NEW p \in Process, AppendRead(p) PROVE Turns' /\ Knows'
  <2>1. /\ doing[p] = "append" /\ doing' = [doing EXCEPT ![p] = "write"] /\ base' = [base EXCEPT ![p] = queue]
        /\ UNCHANGED <<cache, mem, flights, flushes, after, buf>>
    BY <1>7 DEF AppendRead
  <2>2. /\ doing'[p] = "write"
        /\ \A o \in Process \ {p} : doing'[o] = doing[o] /\ base'[o] = base[o]
    BY <2>1 DEF TelemetryTypes
  <2>3. Turns'
    BY <2>1, <2>2
  <2>4. Knows'
    BY <2>1, <2>2
  <2> QED  BY <2>3, <2>4
<1>8. ASSUME NEW p \in Process, AppendWrite(p) PROVE Turns' /\ Knows'
  <2>1. /\ doing[p] = "write" /\ doing' = [doing EXCEPT ![p] = after[p]] /\ after' = [after EXCEPT ![p] = "end"]
        /\ buf' = [buf EXCEPT ![p] = <<>>] /\ base' = [base EXCEPT ![p] = <<>>]
        /\ UNCHANGED <<cache, mem, flights, flushes>>
    BY <1>8 DEF AppendWrite
  <2>2. /\ doing'[p] = after[p] /\ after[p] \in {"end", "recover", "release"} /\ after'[p] = "end"
        /\ buf'[p] = <<>> /\ base'[p] = <<>>
        /\ \A o \in Process \ {p} :
              doing'[o] = doing[o] /\ after'[o] = after[o] /\ buf'[o] = buf[o] /\ base'[o] = base[o]
    BY <2>1 DEF TelemetryTypes
  <2>3. Turns'
    BY <2>1, <2>2
  <2>4. Knows'
    BY <2>1, <2>2
  <2> QED  BY <2>3, <2>4
<1>9. ASSUME NEW p \in Process, StaleUnlink(p) PROVE Turns' /\ Knows'
  <2>1. /\ doing[p] = "unlink" /\ doing' = [doing EXCEPT ![p] = "putBack"]
        /\ UNCHANGED <<cache, mem, flights, flushes, after, buf, base>>
    BY <1>9 DEF StaleUnlink
  <2>2. doing'[p] = "putBack" /\ \A o \in Process \ {p} : doing'[o] = doing[o]
    BY <2>1 DEF TelemetryTypes
  <2>3. Turns'
    BY <2>1, <2>2
  <2>4. Knows'
    BY <2>1, <2>2
  <2> QED  BY <2>3, <2>4
<1>10. ASSUME NEW p \in Process, StalePutBack(p) PROVE Turns' /\ Knows'
  <2>1. /\ doing[p] = "putBack" /\ doing' = [doing EXCEPT ![p] = "recover"] /\ buf' = [buf EXCEPT ![p] = <<>>]
        /\ UNCHANGED <<cache, mem, flights, flushes, after, base>>
    BY <1>10 DEF StalePutBack
  <2>2. /\ doing'[p] = "recover" /\ buf'[p] = <<>>
        /\ \A o \in Process \ {p} : doing'[o] = doing[o] /\ buf'[o] = buf[o]
    BY <2>1 DEF TelemetryTypes
  <2>3. Turns'
    BY <2>1, <2>2
  <2>4. Knows'
    BY <2>1, <2>2
  <2> QED  BY <2>3, <2>4
<1>11. ASSUME NEW p \in Process, NEW q \in Process, StaleRead(p, q) PROVE Turns' /\ Knows'
  <2>1. /\ doing[p] = "recover" /\ doing' = [doing EXCEPT ![p] = "unlink"] /\ buf' = [buf EXCEPT ![p] = claim[q]]
        /\ UNCHANGED <<cache, mem, flights, flushes, after, base>>
    BY <1>11 DEF StaleRead
  <2>2. /\ doing'[p] = "unlink"
        /\ \A o \in Process \ {p} : doing'[o] = doing[o] /\ buf'[o] = buf[o]
    BY <2>1 DEF TelemetryTypes
  <2>3. Turns'
    BY <2>1, <2>2
  <2>4. Knows'
    BY <2>1, <2>2
  <2> QED  BY <2>3, <2>4
<1>12. ASSUME NEW p \in Process, ClaimQueue(p) PROVE Turns' /\ Knows'
  <2>1. doing[p] = "recover" /\ UNCHANGED <<consent, memory, after, buf, base, victim>>
    BY <1>12 DEF ClaimQueue
  <2>2. doing' = [doing EXCEPT ![p] = "idle"] \/ doing' = [doing EXCEPT ![p] = "read"]
    BY <1>12 DEF ClaimQueue
  <2>3. /\ doing'[p] \in {"idle", "read"}
        /\ \A o \in Process \ {p} : doing'[o] = doing[o]
    BY <2>2 DEF TelemetryTypes
  <2>4. cache[p] \notin {"unread", "off"} /\ (p \notin Server => flushes[p] # 0)
    BY <2>1
  <2>5. Turns'
    BY <2>1, <2>3
  <2>6. Knows'
    BY <2>1, <2>3, <2>4
  <2> QED  BY <2>5, <2>6
<1>13. ASSUME NEW p \in Process, ReadClaim(p) PROVE Turns' /\ Knows'
  <2> DEFINE send == Selected(claim[p], Sendable)
             keep == Kept(claim[p])
  <2>1. send \in Seq(Line) /\ keep \in Seq(Line)
    BY SelectedLines DEF TelemetryTypes, Kept
  <2>2. doing[p] = "read" /\ UNCHANGED <<mem, flushes>>
    BY <1>13 DEF ReadClaim
  <2>3. CASE send = <<>>
    <3>1. AppendThen(p, keep, "release") /\ UNCHANGED <<consent, flights>>
      BY <1>13, <2>3 DEF ReadClaim
    <3> HIDE DEF send, keep
    <3>2. /\ doing' = [doing EXCEPT ![p] = IF keep = <<>> THEN "release" ELSE "append"]
          /\ buf' = IF keep = <<>> THEN buf ELSE [buf EXCEPT ![p] = keep]
          /\ after' = IF keep = <<>> THEN after ELSE [after EXCEPT ![p] = "release"]
          /\ base' = base /\ victim' = victim
      BY <2>1, <3>1, AppendThenTypes
    <3>3. \A o \in Process \ {p} : doing'[o] = doing[o] /\ buf'[o] = buf[o] /\ after'[o] = after[o]
      BY <3>2 DEF TelemetryTypes
    <3>4. cache[p] \notin {"unread", "off"} /\ (p \notin Server => flushes[p] # 0) /\ mem[p] = <<>>
      BY <2>2
    <3>5. \/ doing'[p] = "release" /\ UNCHANGED <<buf, after>>
          \/ doing'[p] = "append" /\ after'[p] = "release"
      BY <3>2 DEF TelemetryTypes
    <3>6. Turns'
      BY <2>2, <3>1, <3>2, <3>3, <3>4, <3>5
    <3>7. Knows'
      BY <2>2, <3>1, <3>2, <3>3, <3>4, <3>5
    <3> QED  BY <3>6, <3>7
  <2>4. CASE send # <<>>
    <3>1. /\ firstRunNotice(p) /\ doing' = [doing EXCEPT ![p] = "idle"] /\ UNCHANGED <<after, buf, base, victim>>
          /\ flights' = [flights EXCEPT ![p] = Append(@, [send |-> send, keep |-> keep])]
      BY <1>13, <2>4 DEF ReadClaim
    <3> DEFINE more == Append(flights[p], [send |-> send, keep |-> keep])
    <3>2. flights' = [flights EXCEPT ![p] = more]
      BY <3>1
    <3> HIDE DEF send, keep, more
    <3>3. \A q \in Process : cache'[q] = cache[q] \/ (q = p /\ cache'[q] = "on")
      BY <3>1 DEF firstRunNotice, TelemetryTypes
    <3>4. cache[p] \notin {"unread", "off"} /\ (p \notin Server => flushes[p] # 0)
      BY <2>2
    <3>5. /\ flights'[p] = more /\ doing'[p] = "idle"
          /\ \A q \in Process \ {p} : flights'[q] = flights[q] /\ doing'[q] = doing[q]
      BY <3>1, <3>2 DEF TelemetryTypes
    <3>6. Turns'
      BY <2>2, <3>1, <3>5
    <3>7. Knows'
      BY <2>2, <3>1, <3>3, <3>4, <3>5
    <3> QED  BY <3>6, <3>7
  <2> QED  BY <2>3, <2>4
<1>14. ASSUME NEW p \in Process, ReleaseClaim(p) PROVE Turns' /\ Knows'
  <2>1. /\ doing[p] = "release" /\ doing' = [doing EXCEPT ![p] = "idle"]
        /\ UNCHANGED <<cache, mem, flights, flushes, after, buf, base>>
    BY <1>14 DEF ReleaseClaim
  <2>2. doing'[p] = "idle" /\ \A o \in Process \ {p} : doing'[o] = doing[o]
    BY <2>1 DEF TelemetryTypes
  <2>3. Turns'
    BY <2>1, <2>2
  <2>4. Knows'
    BY <2>1, <2>2
  <2> QED  BY <2>3, <2>4
<1>15. ASSUME NEW p \in Process, End(p) PROVE Turns' /\ Knows'
  <2>1. /\ doing[p] = "end" /\ doing' = [doing EXCEPT ![p] = "down"]
        /\ cache' = [cache EXCEPT ![p] = "unread"] /\ flushes' = [flushes EXCEPT ![p] = 0]
        /\ UNCHANGED <<mem, flights, after, buf, base>>
    BY <1>15 DEF End
  <2>2. /\ doing'[p] = "down" /\ cache'[p] = "unread"
        /\ \A o \in Process \ {p} : doing'[o] = doing[o] /\ cache'[o] = cache[o] /\ flushes'[o] = flushes[o]
    BY <2>1 DEF TelemetryTypes
  <2>3. Turns'
    BY <2>1, <2>2
  <2>4. Knows'
    BY <2>1, <2>2
  <2> QED  BY <2>3, <2>4
<1>16. ASSUME NEW p \in Process, Exit(p) PROVE Turns' /\ Knows'
  <2> DEFINE lines == IF isEnabled(p) THEN CountsFirst(mem[p]) ELSE <<>>
  <2>1. /\ Choice(p) \in {"none", "on", "off"} /\ cache' = [cache EXCEPT ![p] = Choice(p)]
        /\ Choice(p) = "off" => lines = <<>>
    BY <1>16, ChoiceTypes DEF Exit, isEnabled
  <2>2. mem' = [mem EXCEPT ![p] = <<>>] /\ lines \in Seq(Line) /\ AppendThen(p, lines, "end")
    BY <1>16, PersistThenTypes DEF Exit
  <2> HIDE DEF lines
  <2>3. /\ doing' = [doing EXCEPT ![p] = IF lines = <<>> THEN "end" ELSE "append"]
        /\ buf' = IF lines = <<>> THEN buf ELSE [buf EXCEPT ![p] = lines]
        /\ after' = IF lines = <<>> THEN after ELSE [after EXCEPT ![p] = "end"]
        /\ base' = base /\ victim' = victim
    BY <2>2, AppendThenTypes
  <2>4. doing[p] = "idle" /\ flights' = [flights EXCEPT ![p] = <<>>] /\ flushes' = flushes
    BY <1>16 DEF Exit, Abandons
  <2>5. CASE lines = <<>>
    BY <2>1, <2>2, <2>3, <2>4, <2>5 DEF TelemetryTypes
  <2>6. CASE lines # <<>>
    BY <2>1, <2>2, <2>3, <2>4, <2>6 DEF TelemetryTypes
  <2> QED  BY <2>5, <2>6
<1>17. ASSUME NEW p \in Process, Die(p) PROVE Turns' /\ Knows'
  BY <1>17 DEF Die, Abandons, TelemetryTypes
<1>18. ASSUME NEW p \in Process, ClaimAges(p) PROVE Turns' /\ Knows'
  BY <1>18 DEF ClaimAges
<1>19. CASE NextDay
  BY <1>19 DEF NextDay
<1>20. CASE QueueAges
  BY <1>20 DEF QueueAges
<1> QED
  BY <1>1, <1>2, <1>3, <1>5, <1>6, <1>7, <1>8, <1>9, <1>10, <1>11, <1>12, <1>13, <1>14, <1>15, <1>16, <1>17,
     <1>18, <1>19, <1>20 DEF TelemetryNext, Work

-----------------------------------------------------------------------------
(* What the end of a flight, the next request of one and a new one change. *)
LEMMA FlightOver ==
    ASSUME TelemetryTypes, NEW p \in Process, NEW i \in DOMAIN flights[p], NEW back \in Seq(Line), FlightEnds(p, i, back)
    PROVE  /\ \A q \in Process \ {p} : flights'[q] = flights[q]
           /\ Len(flights'[p]) = Len(flights[p]) - 1
           /\ \A k \in DOMAIN flights'[p] : /\ Was(k, i) \in DOMAIN flights[p] /\ Was(k, i) # i
                                            /\ flights'[p][k] = flights[p][Was(k, i)]
           /\ \A j, k \in DOMAIN flights'[p] : Was(j, i) = Was(k, i) => j = k
<1>1. flights[p] \in Seq(Flight)
  BY DEF TelemetryTypes
<1>2. flights' = [flights EXCEPT ![p] = RemoveAt(flights[p], i)]
  BY FlightIsOver
<1>3. flights'[p] = RemoveAt(flights[p], i) /\ \A q \in Process \ {p} : flights'[q] = flights[q]
  BY <1>2 DEF TelemetryTypes
<1> QED  BY <1>1, <1>3, RemovedFlight

(* An answer with lines left: only this flight changes, and it is shorter. *)
LEMMA NextChunk ==
    ASSUME TelemetryTypes, NEW p \in Process, NEW i \in DOMAIN flights[p],
           flights' = [flights EXCEPT ![p][i].send = Rest(flights[p][i])]
    PROVE  /\ \A q \in Process \ {p} : flights'[q] = flights[q]
           /\ Len(flights'[p]) = Len(flights[p]) /\ DOMAIN flights'[p] = DOMAIN flights[p]
           /\ \A k \in DOMAIN flights[p] : k # i => flights'[p][k] = flights[p][k]
           /\ flights'[p][i].send = Rest(flights[p][i]) /\ flights'[p][i].keep = flights[p][i].keep
<1>1. flights[p] \in Seq(Flight) /\ flights[p][i] \in Flight
  BY DEF TelemetryTypes
<1> DEFINE f == [flights[p][i] EXCEPT !.send = Rest(flights[p][i])]
<1>2. flights' = [flights EXCEPT ![p] = [flights[p] EXCEPT ![i] = f]]
  OBVIOUS
<1>3. f.send = Rest(flights[p][i]) /\ f.keep = flights[p][i].keep
  BY <1>1 DEF Flight
<1> HIDE DEF f
<1>4. flights'[p] = [flights[p] EXCEPT ![i] = f] /\ \A q \in Process \ {p} : flights'[q] = flights[q]
  BY <1>2 DEF TelemetryTypes
<1> QED  BY <1>1, <1>3, <1>4

(* A flight more: at the end of the list.                                  *)
LEMMA NewFlight ==
    ASSUME TelemetryTypes, NEW p \in Process, NEW f \in Flight,
           flights' = [flights EXCEPT ![p] = Append(@, f)]
    PROVE  /\ \A q \in Process \ {p} : flights'[q] = flights[q]
           /\ Len(flights[p]) \in Nat /\ DOMAIN flights[p] = 1..Len(flights[p])
           /\ Len(flights'[p]) = Len(flights[p]) + 1 /\ DOMAIN flights'[p] = 1..(Len(flights[p]) + 1)
           /\ \A k \in DOMAIN flights[p] : flights'[p][k] = flights[p][k]
           /\ flights'[p][Len(flights[p]) + 1] = f
<1>1. flights[p] \in Seq(Flight)
  BY DEF TelemetryTypes
<1>2. flights' = [flights EXCEPT ![p] = Append(flights[p], f)]
  OBVIOUS
<1>3. flights'[p] = Append(flights[p], f) /\ \A q \in Process \ {p} : flights'[q] = flights[q]
  BY <1>2 DEF TelemetryTypes
<1> QED  BY <1>1, <1>3

(* The lines of a claim, read: what is due, and what is not.               *)
LEMMA ClaimParts ==
    ASSUME TelemetryTypes, NEW p \in Process
    PROVE  LET send == Selected(claim[p], Sendable)
               keep == Kept(claim[p]) IN
           /\ send \in Seq(Line) /\ keep \in Seq(Line)
           /\ Range(send) \cup Range(keep) = Range(claim[p])
           /\ Range(send) \cap Range(keep) = {}
           /\ \A l : Once(l, claim[p]) => Once(l, send) /\ Once(l, keep)
<1>1. claim[p] \in Seq(Line)
  BY DEF TelemetryTypes
<1>2. Range(claim[p]) \subseteq Line
  BY <1>1 DEF Range
<1> QED  BY <1>1, <1>2, SelectedLines DEF Kept

(* Reading a claim.                                                        *)
LEMMA ReadClaimEffect ==
    ASSUME TelemetryTypes, NEW p \in Process, ReadClaim(p)
    PROVE  LET send == Selected(claim[p], Sendable)
               keep == Kept(claim[p]) IN
           /\ doing[p] = "read"
           /\ UNCHANGED <<queue, claim, mem, flushes, sent, recorded, again, gone, base, victim>>
           /\ \/ /\ send = <<>>
                 /\ UNCHANGED <<consent, flights>> /\ AppendThen(p, keep, "release")
              \/ /\ [send |-> send, keep |-> keep] \in Flight
                 /\ flights' = [flights EXCEPT ![p] = Append(@, [send |-> send, keep |-> keep])]
                 /\ doing' = [doing EXCEPT ![p] = "idle"] /\ UNCHANGED <<buf, after>>
<1>1. Selected(claim[p], Sendable) \in Seq(Line) /\ Kept(claim[p]) \in Seq(Line)
  BY ClaimParts
<1>2. [send |-> Selected(claim[p], Sendable), keep |-> Kept(claim[p])] \in Flight
  BY <1>1 DEF Flight
<1>3. /\ doing[p] = "read"
      /\ UNCHANGED <<queue, claim, mem, flushes, sent, recorded, again, gone>>
  BY DEF ReadClaim, queueFile, claims, outside, accounts
<1>4. CASE Selected(claim[p], Sendable) = <<>>
  BY <1>3, <1>4 DEF ReadClaim, AppendThen
<1>5. CASE Selected(claim[p], Sendable) # <<>>
  BY <1>2, <1>3, <1>5 DEF ReadClaim, GoOn
<1> QED  BY <1>4, <1>5

(* Persisting what is in memory.                                           *)
LEMMA PersistEffect ==
    ASSUME TelemetryTypes, NEW p \in Process, NEW next \in {"recover", "end"}, PersistThen(p, next)
    PROVE  \E lines \in Seq(Line) :
              /\ Range(lines) \subseteq Range(mem[p]) /\ Range(mem[p]) \subseteq Range(lines) \cup gone'
              /\ gone \subseteq gone'
              /\ \A l : Once(l, mem[p]) => Once(l, lines)
              /\ mem' = [mem EXCEPT ![p] = <<>>]
              /\ doing' = [doing EXCEPT ![p] = IF lines = <<>> THEN next ELSE "append"]
              /\ buf' = IF lines = <<>> THEN buf ELSE [buf EXCEPT ![p] = lines]
              /\ after' = IF lines = <<>> THEN after ELSE [after EXCEPT ![p] = next]
              /\ base' = base /\ victim' = victim
<1> DEFINE lines == IF isEnabled(p) THEN CountsFirst(mem[p]) ELSE <<>>
<1>1. /\ mem' = [mem EXCEPT ![p] = <<>>]
      /\ gone' = IF isEnabled(p) THEN gone ELSE gone \cup Range(mem[p])
      /\ lines \in Seq(Line) /\ AppendThen(p, lines, next)
  BY PersistThenTypes
<1>2. mem[p] \in Seq(Line)
  BY DEF TelemetryTypes
<1>3. /\ Range(lines) \subseteq Range(mem[p]) /\ Range(mem[p]) \subseteq Range(lines) \cup gone' /\ gone \subseteq gone'
      /\ \A l : Once(l, mem[p]) => Once(l, lines)
  <2>1. CASE isEnabled(p)
    BY <1>1, <1>2, <2>1, CountsFirstLines
  <2>2. CASE ~isEnabled(p)
    <3>1. Range(<<>>) = {} /\ \A l : Once(l, <<>>)
      BY DEF Range, Once
    <3> QED  BY <1>1, <2>2, <3>1
  <2> QED  BY <2>1, <2>2
<1> HIDE DEF lines
<1>4. /\ doing' = [doing EXCEPT ![p] = IF lines = <<>> THEN next ELSE "append"]
      /\ buf' = IF lines = <<>> THEN buf ELSE [buf EXCEPT ![p] = lines]
      /\ after' = IF lines = <<>> THEN after ELSE [after EXCEPT ![p] = next]
      /\ base' = base /\ victim' = victim
  BY <1>1, AppendThenTypes
<1> QED  BY <1>1, <1>3, <1>4

(* There is no line in the empty sequence.                                 *)
LEMMA NothingInEmpty == Range(<<>>) = {} /\ \A l : Once(l, <<>>)
BY DEF Range, Once

(* Nothing is written or sent that was not recorded.                       *)
LEMMA KnownStep == TelemetryTypes /\ Known /\ TelemetryNext => Known'
<1> SUFFICES ASSUME TelemetryTypes, Known, TelemetryNext PROVE Known'
  OBVIOUS
<1> USE NothingInEmpty DEF consent, queueFile, claims, memory, turn, outside, accounts, GoOn, Known, InFlight, Carries
<1>1. ASSUME NEW p \in Process, NEW l \in Line, Record(p, l) PROVE Known'
  <2>1. Range(Append(mem[p], l)) = Range(mem[p]) \cup {l}
    BY AppendedLine DEF TelemetryTypes
  <2>2. \A q \in Process : Range(mem'[q]) \subseteq recorded' /\ recorded \subseteq recorded'
    BY <1>1, <2>1 DEF Record, TelemetryTypes
  <2> QED  BY <1>1, <2>2 DEF Record
<1>2. ASSUME NEW p \in Process, NEW choice \in {"on", "off"}, SetEnabled(p, choice) PROVE Known'
  BY <1>2 DEF SetEnabled
<1>3. ASSUME NEW p \in Process, NEW next \in {"recover", "end"}, PersistThen(p, next),
             flights' = flights \/ flights' = [flights EXCEPT ![p] = <<>>],
             \A l \in Line : sent'[l] > 0 => sent[l] > 0 \/ InFlight(p, l),
             UNCHANGED <<queue, claim, recorded>>
      PROVE  Known'
  <2>1. PICK lines \in Seq(Line) :
              /\ Range(lines) \subseteq Range(mem[p]) /\ mem' = [mem EXCEPT ![p] = <<>>]
              /\ buf' = IF lines = <<>> THEN buf ELSE [buf EXCEPT ![p] = lines]
              /\ base' = base
    BY <1>3, PersistEffect
  <2>2. \A q \in Process : /\ Range(mem'[q]) \subseteq Range(mem[q])
                           /\ Range(buf'[q]) \subseteq Range(mem[q]) \cup Range(buf[q])
    BY <2>1 DEF TelemetryTypes
  <2>3. \A q \in Process : flights'[q] = flights[q] \/ flights'[q] = <<>>
    BY <1>3 DEF TelemetryTypes
  <2> QED  BY <1>3, <2>1, <2>2, <2>3
<1>4. ASSUME NEW p \in Process, Flush(p) PROVE Known'
  BY <1>3, <1>4 DEF Flush
<1>5. ASSUME NEW p \in Process, Abandons(p)
      PROVE  /\ \A l \in Line : sent'[l] > 0 => sent[l] > 0 \/ InFlight(p, l)
             /\ flights' = [flights EXCEPT ![p] = <<>>]
  <2>1. PICK arrived \in SUBSET UNION {Range(First(flights[p][i])) : i \in DOMAIN flights[p]} : Received(arrived)
    BY <1>5 DEF Abandons
  <2>2. \A i \in DOMAIN flights[p] : flights[p][i] \in Flight
    BY DEF TelemetryTypes
  <2>3. \A i \in DOMAIN flights[p] : Range(First(flights[p][i])) \subseteq Range(flights[p][i].send)
    BY <2>2, FlightParts
  <2>4. \A l \in arrived : InFlight(p, l)
    BY <2>3
  <2> QED  BY <1>5, <2>1, <2>4, ReceivedTypes DEF Abandons
<1>6. ASSUME NEW p \in Process, Exit(p) PROVE Known'
  BY <1>3, <1>5, <1>6 DEF Exit
<1>7. ASSUME NEW p \in Process, Die(p) PROVE Known'
  <2>1. /\ \A l \in Line : sent'[l] > 0 => sent[l] > 0 \/ InFlight(p, l)
        /\ \A q \in Process : flights'[q] = flights[q] \/ flights'[q] = <<>>
    BY <1>5, <1>7 DEF Die, TelemetryTypes
  <2>2. /\ \A q \in Process : mem'[q] = mem[q] \/ mem'[q] = <<>>
        /\ \A q \in Process : buf'[q] = buf[q] \/ buf'[q] = <<>>
        /\ \A q \in Process : base'[q] = base[q] \/ base'[q] = <<>>
    BY <1>7 DEF Die, TelemetryTypes
  <2> QED  BY <1>7, <2>1, <2>2 DEF Die
<1>8. ASSUME NEW p \in Process, NEW i \in DOMAIN flights[p], NEW back \in Seq(Line), FlightEnds(p, i, back),
             Range(back) \subseteq Range(flights[p][i].send) \cup Range(flights[p][i].keep),
             NEW arrived, arrived \subseteq Range(flights[p][i].send), Received(arrived),
             UNCHANGED <<queue, claim, mem, recorded>>
      PROVE  Known'
  <2>1. \A l \in Line : Carries(flights[p][i], l) => l \in recorded
    OBVIOUS
  <2>2. \A q \in Process : \A l \in Line : InFlight(q, l)' => InFlight(q, l)
    BY <1>8, FlightOver
  <2>b. buf' = IF back = <<>> THEN buf ELSE [buf EXCEPT ![p] = back]
    BY <1>8, FlightIsOver, AppendThenTypes
  <2>3. \A q \in Process : buf'[q] = buf[q] \/ buf'[q] = back
    BY <2>b DEF TelemetryTypes
  <2>4. base' = base
    BY <1>8, FlightIsOver, AppendThenTypes
  <2>5. Range(back) \subseteq Line
    BY DEF Range
  <2>6. \A l \in Line : sent'[l] > 0 => sent[l] > 0 \/ l \in arrived
    BY <1>8, ReceivedTypes
  <2> QED  BY <1>8, <2>1, <2>2, <2>3, <2>4, <2>5, <2>6
<1>9. ASSUME NEW p \in Process, FetchAnswered(p) PROVE Known'
  <2>1. PICK i \in DOMAIN flights[p] :
          /\ Received(Range(First(flights[p][i])))
          /\ IF Rest(flights[p][i]) = <<>> THEN FlightEnds(p, i, flights[p][i].keep)
             ELSE flights' = [flights EXCEPT ![p][i].send = Rest(flights[p][i])] /\ UNCHANGED turn
    BY <1>9 DEF FetchAnswered
  <2>2. flights[p][i] \in Flight
    BY DEF TelemetryTypes
  <2>3. /\ Range(First(flights[p][i])) \subseteq Range(flights[p][i].send)
        /\ Range(Rest(flights[p][i])) \subseteq Range(flights[p][i].send)
        /\ flights[p][i].keep \in Seq(Line)
    BY <2>2, FlightParts DEF Flight
  <2>4. UNCHANGED <<queue, claim, mem, recorded>>
    BY <1>9 DEF FetchAnswered
  <2>5. CASE Rest(flights[p][i]) = <<>>
    BY <1>8, <2>1, <2>3, <2>4, <2>5
  <2>6. CASE Rest(flights[p][i]) # <<>>
    <3>1. flights' = [flights EXCEPT ![p][i].send = Rest(flights[p][i])] /\ UNCHANGED <<buf, base>>
      BY <2>1, <2>6
    <3>2. \A q \in Process : \A l \in Line : InFlight(q, l)' => InFlight(q, l)
      BY <2>3, <3>1, NextChunk
    <3>3. \A l \in Line : sent'[l] > 0 => sent[l] > 0 \/ InFlight(p, l)
      BY <2>1, <2>3, ReceivedTypes
    <3> QED  BY <2>4, <3>1, <3>2, <3>3
  <2> QED  BY <2>5, <2>6
<1>10. ASSUME NEW p \in Process, FetchFails(p) PROVE Known'
  <2>1. PICK i \in DOMAIN flights[p] : \E arrived \in {{}, Range(First(flights[p][i]))} :
          Received(arrived) /\ FlightEnds(p, i, flights[p][i].send \o flights[p][i].keep)
    BY <1>10 DEF FetchFails
  <2>2. flights[p][i] \in Flight
    BY DEF TelemetryTypes
  <2> DEFINE back == flights[p][i].send \o flights[p][i].keep
  <2>3. /\ Range(First(flights[p][i])) \subseteq Range(flights[p][i].send)
        /\ back \in Seq(Line) /\ Range(back) = Range(flights[p][i].send) \cup Range(flights[p][i].keep)
    BY <2>2, FlightParts, ConcatLines DEF Flight
  <2>4. UNCHANGED <<queue, claim, mem, recorded>>
    BY <1>10 DEF FetchFails
  <2>5. PICK arrived \in {{}, Range(First(flights[p][i]))} : Received(arrived) /\ FlightEnds(p, i, back)
    BY <2>1
  <2> HIDE DEF back
  <2> QED  BY <1>8, <2>3, <2>4, <2>5
<1>11. ASSUME NEW p \in Process, AppendRead(p) PROVE Known'
  <2>1. \A q \in Process : base'[q] = base[q] \/ base'[q] = queue
    BY <1>11 DEF AppendRead, TelemetryTypes
  <2> QED  BY <1>11, <2>1 DEF AppendRead
<1>12. ASSUME NEW p \in Process, AppendWrite(p) PROVE Known'
  <2>1. base[p] \o buf[p] \in Seq(Line) /\ Range(base[p] \o buf[p]) = Range(base[p]) \cup Range(buf[p])
    BY ConcatLines DEF TelemetryTypes
  <2>2. Range(queue') \subseteq recorded
    BY <1>12, <2>1, CappedLines DEF AppendWrite
  <2>3. /\ \A q \in Process : buf'[q] = buf[q] \/ buf'[q] = <<>>
        /\ \A q \in Process : base'[q] = base[q] \/ base'[q] = <<>>
    BY <1>12 DEF AppendWrite, TelemetryTypes
  <2> QED  BY <1>12, <2>2, <2>3 DEF AppendWrite
<1>13. ASSUME NEW p \in Process, StaleUnlink(p) PROVE Known'
  <2>1. \A q \in Process : claim'[q] = claim[q] \/ claim'[q] = <<>>
    BY <1>13 DEF StaleUnlink, TelemetryTypes
  <2> QED  BY <1>13, <2>1 DEF StaleUnlink
<1>14. ASSUME NEW p \in Process, StalePutBack(p) PROVE Known'
  <2>1. Range(queue') = Range(queue) \cup Range(buf[p])
    BY <1>14, ConcatLines DEF StalePutBack, TelemetryTypes
  <2>2. \A q \in Process : buf'[q] = buf[q] \/ buf'[q] = <<>>
    BY <1>14 DEF StalePutBack, TelemetryTypes
  <2> QED  BY <1>14, <2>1, <2>2 DEF StalePutBack
<1>15. ASSUME NEW p \in Process, NEW q \in Process, StaleRead(p, q) PROVE Known'
  <2>1. \A o \in Process : buf'[o] = buf[o] \/ buf'[o] = claim[q]
    BY <1>15 DEF StaleRead, TelemetryTypes
  <2> QED  BY <1>15, <2>1 DEF StaleRead
<1>16. ASSUME NEW p \in Process, ClaimQueue(p) PROVE Known'
  <2>1. \A q \in Process : claim'[q] = claim[q] \/ claim'[q] = queue
    BY <1>16 DEF ClaimQueue, TelemetryTypes
  <2>2. queue' = queue \/ queue' = <<>>
    BY <1>16 DEF ClaimQueue, Taken
  <2> QED  BY <1>16, <2>1, <2>2 DEF ClaimQueue
<1>17. ASSUME NEW p \in Process, ReadClaim(p) PROVE Known'
  <2> DEFINE send == Selected(claim[p], Sendable)
             keep == Kept(claim[p])
  <2>1. send \in Seq(Line) /\ keep \in Seq(Line) /\ Range(send) \cup Range(keep) = Range(claim[p])
    BY ClaimParts
  <2>2. /\ UNCHANGED <<queue, claim, mem, sent, recorded, base>>
        /\ \/ flights' = flights /\ AppendThen(p, keep, "release")
           \/ /\ [send |-> send, keep |-> keep] \in Flight
              /\ flights' = [flights EXCEPT ![p] = Append(@, [send |-> send, keep |-> keep])]
              /\ buf' = buf
    BY <1>17, ReadClaimEffect
  <2> HIDE DEF send, keep
  <2>3. CASE flights' = flights /\ AppendThen(p, keep, "release")
    <3>b. buf' = IF keep = <<>> THEN buf ELSE [buf EXCEPT ![p] = keep]
      BY <2>1, <2>3, AppendThenTypes
    <3>1. \A q \in Process : buf'[q] = buf[q] \/ buf'[q] = keep
      BY <3>b DEF TelemetryTypes
    <3> QED  BY <2>1, <2>2, <2>3, <3>1
  <2>4. CASE /\ [send |-> send, keep |-> keep] \in Flight
             /\ flights' = [flights EXCEPT ![p] = Append(@, [send |-> send, keep |-> keep])]
             /\ buf' = buf
    <3>1. \A q \in Process : \A l \in Line : InFlight(q, l)' => InFlight(q, l) \/ l \in Range(claim[p])
      <4> DEFINE f == [send |-> send, keep |-> keep]
      <4>1. f.send = send /\ f.keep = keep
        OBVIOUS
      <4> HIDE DEF f
      <4>2. /\ \A q \in Process \ {p} : flights'[q] = flights[q]
            /\ \A k \in DOMAIN flights'[p] : \/ k \in DOMAIN flights[p] /\ flights'[p][k] = flights[p][k]
                                             \/ flights'[p][k] = f
        <5>1. f \in Flight /\ flights' = [flights EXCEPT ![p] = Append(@, f)]
          BY <2>4 DEF f
        <5> QED  BY <5>1, NewFlight
      <4> QED  BY <2>1, <4>1, <4>2
    <3> QED  BY <2>2, <2>4, <3>1
  <2> QED  BY <2>2, <2>3, <2>4
<1>18. ASSUME NEW p \in Process, ReleaseClaim(p) PROVE Known'
  <2>1. \A q \in Process : claim'[q] = claim[q] \/ claim'[q] = <<>>
    BY <1>18 DEF ReleaseClaim, TelemetryTypes
  <2> QED  BY <1>18, <2>1 DEF ReleaseClaim
<1>19. ASSUME NEW p \in Process, End(p) PROVE Known'
  BY <1>19 DEF End
<1>20. ASSUME NEW p \in Process, ClaimAges(p) PROVE Known'
  BY <1>20 DEF ClaimAges
<1>21. CASE NextDay
  BY <1>21 DEF NextDay
<1>22. CASE QueueAges
  BY <1>22 DEF QueueAges
<1> QED
  BY <1>1, <1>2, <1>4, <1>6, <1>7, <1>9, <1>10, <1>11, <1>12, <1>13, <1>14, <1>15, <1>16, <1>17,
     <1>18, <1>19, <1>20, <1>21, <1>22 DEF TelemetryNext, Work

-----------------------------------------------------------------------------

(* A step of one process that leaves the others as they are, up to a claim *)
(* of theirs that it removes.                                              *)
LEMMA OwnStep ==
    ASSUME TelemetryTypes, Anywhere, Covered, Crowded, NEW p \in Process,
           \A q \in Process \ {p} :
              /\ mem'[q] = mem[q] /\ buf'[q] = buf[q]
              /\ doing'[q] = doing[q] /\ after'[q] = after[q] /\ flights'[q] = flights[q]
              /\ \/ claim'[q] = claim[q]
                 \/ claim'[q] = <<>> /\ \A l \in Range(claim[q]) \ gone' : Somewhere(l)',
           \A l \in Line : sent[l] > 0 => sent'[l] > 0,
           gone \subseteq gone', recorded' \subseteq recorded \cup Range(mem'[p]), recorded' \subseteq Line,
           \A l \in recorded \ gone' : l \in Range(queue) \/ Holds(p, l) => Somewhere(l)',
           Range(claim'[p]) \subseteq Line,
           \A l \in Range(claim'[p]) \ gone' : Tended(p, l)',
           Crowd(p)' => Range(claim'[p]) \subseteq gone'
    PROVE  Anywhere' /\ Covered' /\ Crowded'
<1>1. \A q \in Process \ {p} : \A l \in Line :
          /\ Tended(q, l) => Tended(q, l)'
          /\ Crowd(q)' => Crowd(q)
          /\ Range(claim'[q]) \subseteq Range(claim[q])
          /\ Holds(q, l) => Holds(q, l)' \/ (claim'[q] = <<>> /\ l \in Range(claim[q]))
  <2> SUFFICES ASSUME NEW q \in Process \ {p}, NEW l \in Line
               PROVE  /\ Tended(q, l) => Tended(q, l)'
                      /\ Crowd(q)' => Crowd(q)
                      /\ Range(claim'[q]) \subseteq Range(claim[q])
                      /\ Holds(q, l) => Holds(q, l)' \/ (claim'[q] = <<>> /\ l \in Range(claim[q]))
    OBVIOUS
  <2>1. Tended(q, l) => Tended(q, l)'
    BY DEF Tended, Back, Appending, Leaving, InFlight, BackBuf
  <2>2. Len(flights'[q]) = Len(flights[q])
    OBVIOUS
  <2>3. Crowd(q)' => Crowd(q)
    BY <2>2 DEF Crowd, Back, Appending
  <2>4. Range(claim'[q]) \subseteq Range(claim[q])
    BY NothingInEmpty
  <2>5. Holds(q, l) => Holds(q, l)' \/ (claim'[q] = <<>> /\ l \in Range(claim[q]))
    BY DEF Holds, Back, Appending
  <2> QED  BY <2>1, <2>3, <2>4, <2>5
<1>2. Anywhere'
  <2> SUFFICES ASSUME NEW l \in recorded', l \notin gone' PROVE Somewhere(l)'
    BY DEF Anywhere
  <2>1. CASE l \in Range(mem'[p])
    BY <2>1 DEF Somewhere, Holds
  <2>2. CASE l \in recorded
    <3>1. sent[l] > 0 \/ l \in Range(queue) \/ \E q \in Process : Holds(q, l)
      BY <2>2 DEF Anywhere, Somewhere
    <3>2. CASE sent[l] > 0
      BY <3>2 DEF Somewhere
    <3>3. CASE l \in Range(queue) \/ Holds(p, l)
      BY <2>2, <3>3
    <3>4. ASSUME NEW q \in Process \ {p}, Holds(q, l) PROVE Somewhere(l)'
      <4>1. Holds(q, l)' \/ (claim'[q] = <<>> /\ l \in Range(claim[q]))
        BY <1>1, <3>4
      <4>2. CASE Holds(q, l)'
        BY <4>2 DEF Somewhere
      <4>3. CASE claim'[q] = <<>> /\ l \in Range(claim[q])
        <5>1. CASE claim'[q] = claim[q]
          BY <4>3, <5>1, NothingInEmpty
        <5> QED  BY <4>3, <5>1
      <4> QED  BY <4>1, <4>2, <4>3
    <3> QED  BY <3>1, <3>2, <3>3, <3>4
  <2> QED  BY <2>1, <2>2
<1>3. Covered'
  <2> SUFFICES ASSUME NEW q \in Process, NEW l \in Range(claim'[q]), l \notin gone' PROVE Tended(q, l)'
    BY DEF Covered
  <2>1. CASE q = p
    BY <2>1
  <2>2. CASE q # p
    <3>1. claim[q] \in Seq(Line)
      BY DEF TelemetryTypes
    <3>2. Range(claim[q]) \subseteq Line
      BY <3>1 DEF Range
    <3>3. claim'[q] = claim[q] \/ claim'[q] = <<>>
      BY <2>2
    <3>4. l \in Range(claim[q])
      BY <3>3, NothingInEmpty
    <3> QED  BY <1>1, <2>2, <3>2, <3>4 DEF Covered
  <2> QED  BY <2>1, <2>2
<1>4. Crowded'
  <2> SUFFICES ASSUME NEW q \in Process, Crowd(q)' PROVE Range(claim'[q]) \subseteq gone'
    BY DEF Crowded
  <2>1. CASE q # p
    <3>1. claim'[q] = claim[q] \/ claim'[q] = <<>>
      BY <2>1
    <3>2. Crowd(q)
      <4>1. Len(flights'[q]) = Len(flights[q])
        BY <2>1
      <4> QED  BY <2>1, <4>1 DEF Crowd, Back, Appending
    <3> QED  BY <2>1, <3>1, <3>2, NothingInEmpty DEF Crowded
  <2> QED  BY <2>1
<1> QED  BY <1>2, <1>3, <1>4

(* What is sent or given up when a process ends.                           *)
LEMMA AbandonsEffect ==
    ASSUME TelemetryTypes, NEW p \in Process, Abandons(p)
    PROVE  /\ flights' = [flights EXCEPT ![p] = <<>>]
           /\ again' = again \cup {l \in Range(claim[p]) : sent'[l] > 0 \/ doing[p] = "release"}
           /\ \A l \in Line : /\ sent[l] > 0 => sent'[l] > 0
                              /\ ~InFlight(p, l) => sent'[l] = sent[l]
                              /\ sent[l] = 0 => sent'[l] \in {0, 1}
<1>1. PICK arrived \in SUBSET UNION {Range(First(flights[p][i])) : i \in DOMAIN flights[p]} : Received(arrived)
  BY DEF Abandons
<1>2. \A i \in DOMAIN flights[p] : flights[p][i] \in Flight
  BY DEF TelemetryTypes
<1>3. \A i \in DOMAIN flights[p] : Range(First(flights[p][i])) \subseteq Range(flights[p][i].send)
  BY <1>2, FlightParts
<1>4. \A l \in arrived : InFlight(p, l)
  BY <1>3 DEF InFlight, Carries
<1> QED  BY <1>1, <1>4, ReceivedTypes DEF Abandons

(* Every action keeps a recorded line somewhere, or has a reason to lose   *)
(* it.                                                                     *)
LEMMA ForgottenStep ==
    TelemetryTypes /\ Turns /\ Anywhere /\ Covered /\ Crowded /\ TelemetryNext => Anywhere' /\ Covered' /\ Crowded'
<1> DEFINE StillSomewhere == Anywhere' /\ Covered' /\ Crowded'
<1> SUFFICES ASSUME TelemetryTypes, Turns, Anywhere, Covered, Crowded, TelemetryNext PROVE StillSomewhere
  OBVIOUS
<1> HIDE DEF StillSomewhere
<1> USE DEF consent, queueFile, claims, memory, turn, outside, accounts, GoOn
<1>0. TelemetryTypes'
  BY TelemetryTypesStep
<1>t. recorded' \subseteq Line /\ \A q \in Process : Range(claim'[q]) \subseteq Line
  <2>1. \A q \in Process : claim'[q] \in Seq(Line)
    BY <1>0 DEF TelemetryTypes
  <2>2. \A q \in Process : Range(claim'[q]) \subseteq Line
    BY <2>1 DEF Range
  <2>3. recorded' \subseteq Line
    BY <1>0 DEF TelemetryTypes
  <2> QED  BY <2>2, <2>3
<1>1. ASSUME NEW p \in Process, NEW l \in Line, Record(p, l) PROVE StillSomewhere
  <2>1. Range(Append(mem[p], l)) = Range(mem[p]) \cup {l}
    BY AppendedLine DEF TelemetryTypes
  <2>2. /\ Range(mem[p]) \subseteq Range(mem'[p]) /\ recorded' \subseteq recorded \cup Range(mem'[p])
        /\ \A q \in Process \ {p} : mem'[q] = mem[q]
        /\ UNCHANGED <<queue, claim, buf, doing, after, flights, sent, gone>>
    BY <1>1, <2>1 DEF Record, TelemetryTypes
  <2>3. \A m \in recorded \ gone' : m \in Range(queue) \/ Holds(p, m) => Somewhere(m)'
    BY <2>2 DEF Holds, Somewhere, Back, Appending
  <2>4. \A m \in Range(claim'[p]) \ gone' : Tended(p, m)'
    BY <2>2 DEF Covered, Tended, Back, Appending, Leaving, InFlight, BackBuf
  <2>5. Crowd(p)' => Range(claim'[p]) \subseteq gone'
    BY <2>2 DEF Crowded, Crowd, Back, Appending
  <2> QED  BY <1>t, <2>2, <2>3, <2>4, <2>5, OwnStep DEF StillSomewhere
<1>2. ASSUME NEW p \in Process, NEW choice \in {"on", "off"}, SetEnabled(p, choice) PROVE StillSomewhere
  <2>1. /\ UNCHANGED <<claim, mem, flights, buf, doing, after, sent, recorded>>
        /\ gone \subseteq gone' /\ Range(queue) \subseteq Range(queue') \cup gone'
    BY <1>2 DEF SetEnabled
  <2>2. \A l \in recorded \ gone' : l \in Range(queue) \/ Holds(p, l) => Somewhere(l)'
    BY <2>1 DEF Holds, Somewhere, Back, Appending
  <2>3. \A l \in Range(claim'[p]) \ gone' : Tended(p, l)'
    BY <2>1 DEF Covered, Tended, Back, Appending, Leaving, InFlight, BackBuf
  <2>4. Crowd(p)' => Range(claim'[p]) \subseteq gone'
    BY <2>1 DEF Crowded, Crowd, Back, Appending
  <2> QED  BY <1>t, <2>1, <2>2, <2>3, <2>4, OwnStep DEF StillSomewhere
<1>3. ASSUME NEW p \in Process, NEW next \in {"recover", "end"}, PersistThen(p, next), doing[p] = "idle",
             next = "end" => flights' = [flights EXCEPT ![p] = <<>>],
             next = "recover" => flights' = flights,
             \A l \in Line : sent[l] > 0 => sent'[l] > 0,
             UNCHANGED <<queue, claim, recorded>>
      PROVE  StillSomewhere
  <2>1. PICK lines \in Seq(Line) :
              /\ Range(lines) \subseteq Range(mem[p]) /\ Range(mem[p]) \subseteq Range(lines) \cup gone'
              /\ gone \subseteq gone'
              /\ mem' = [mem EXCEPT ![p] = <<>>]
              /\ doing' = [doing EXCEPT ![p] = IF lines = <<>> THEN next ELSE "append"]
              /\ buf' = IF lines = <<>> THEN buf ELSE [buf EXCEPT ![p] = lines]
              /\ after' = IF lines = <<>> THEN after ELSE [after EXCEPT ![p] = next]
    BY <1>3, PersistEffect
  <2>2. buf[p] = <<>>
    BY <1>3 DEF Turns
  <2>3. /\ \A q \in Process \ {p} : mem'[q] = mem[q] /\ buf'[q] = buf[q] /\ doing'[q] = doing[q] /\ after'[q] = after[q] /\ flights'[q] = flights[q]
        /\ \/ lines = <<>> /\ doing'[p] = next
           \/ doing'[p] = "append" /\ buf'[p] = lines /\ after'[p] = next
    BY <1>3, <2>1 DEF TelemetryTypes
  <2>4. flights'[p] = IF next = "end" THEN <<>> ELSE flights[p]
    BY <1>3 DEF TelemetryTypes
  <2>5. \A l \in recorded \ gone' : l \in Range(queue) \/ Holds(p, l) => Somewhere(l)'
    <3> SUFFICES ASSUME NEW l \in recorded \ gone', Holds(p, l) PROVE Somewhere(l)'
      BY <1>3 DEF Somewhere
    <3>1. doing'[p] # "release" /\ ~Back(p)'
      BY <2>3 DEF Back, Appending
    <3>2. l \in Range(lines) \/ l \in Range(claim[p])
      BY <2>1, <2>2, NothingInEmpty DEF Holds
    <3> QED  BY <1>3, <2>3, <3>1, <3>2, NothingInEmpty DEF Somewhere, Holds
  <2>6. \A l \in Range(claim'[p]) \ gone' : Tended(p, l)'
    <3> SUFFICES ASSUME NEW l \in Range(claim[p]), l \notin gone, l \in Line, next = "recover" PROVE Tended(p, l)'
      BY <1>3, <1>t, <2>1, <2>3 DEF Tended, Leaving, Appending
    <3>1. sent[l] > 0 \/ InFlight(p, l)
      BY <1>3 DEF Covered, Tended, BackBuf, Back, Leaving, Appending
    <3> QED  BY <1>3, <2>4, <3>1 DEF Tended, InFlight
  <2>7. Crowd(p)' => Range(claim'[p]) \subseteq gone'
    <3>1. CASE next = "end"
      <4>1. flights'[p] = <<>> /\ Len(flights'[p]) = 0
        BY <2>4, <3>1
      <4> QED  BY <4>1 DEF Crowd
    <3>2. CASE next = "recover"
      <4>1. flights'[p] = flights[p] /\ doing'[p] \notin {"read", "release"} /\ ~Back(p)'
        BY <2>3, <2>4, <3>2 DEF Back, Appending
      <4> QED  BY <1>3, <2>1, <4>1 DEF Crowd, Crowded
    <3> QED  BY <3>1, <3>2
  <2> QED  BY <1>3, <1>t, <2>1, <2>3, <2>5, <2>6, <2>7, OwnStep DEF StillSomewhere
<1>4. ASSUME NEW p \in Process, Flush(p) PROVE StillSomewhere
  BY <1>3, <1>4 DEF Flush
<1>5. ASSUME NEW p \in Process, Exit(p) PROVE StillSomewhere
  BY <1>3, <1>5, AbandonsEffect DEF Exit
<1>6. ASSUME NEW p \in Process, Die(p) PROVE StillSomewhere
  <2>1. flights' = [flights EXCEPT ![p] = <<>>] /\ \A l \in Line : sent[l] > 0 => sent'[l] > 0
    BY <1>6, AbandonsEffect DEF Die
  <2>2. /\ mem' = [mem EXCEPT ![p] = <<>>] /\ buf' = [buf EXCEPT ![p] = <<>>]
        /\ doing' = [doing EXCEPT ![p] = "down"] /\ after' = [after EXCEPT ![p] = "end"]
        /\ gone' = gone \cup Range(mem[p]) \cup Range(buf[p])
        /\ UNCHANGED <<queue, claim, recorded>>
    BY <1>6 DEF Die
  <2>3. /\ \A q \in Process \ {p} : mem'[q] = mem[q] /\ buf'[q] = buf[q] /\ doing'[q] = doing[q] /\ after'[q] = after[q] /\ flights'[q] = flights[q]
        /\ doing'[p] = "down" /\ flights'[p] = <<>> /\ Len(flights'[p]) = 0
    BY <2>1, <2>2 DEF TelemetryTypes
  <2>4. \A l \in recorded \ gone' : l \in Range(queue) \/ Holds(p, l) => Somewhere(l)'
    BY <2>2, <2>3 DEF Holds, Somewhere
  <2>5. \A l \in Range(claim'[p]) \ gone' : Tended(p, l)'
    BY <2>3 DEF Tended
  <2>6. ~Crowd(p)'
    BY <2>3 DEF Crowd
  <2> QED  BY <1>t, <2>1, <2>2, <2>3, <2>4, <2>5, <2>6, OwnStep DEF StillSomewhere

<1>7. ASSUME NEW p \in Process, NEW i \in DOMAIN flights[p], NEW back \in Seq(Line), FlightEnds(p, i, back),
             doing[p] = "idle",
             \A l \in Line : /\ sent[l] > 0 => sent'[l] > 0
                             /\ Carries(flights[p][i], l) => sent'[l] > 0 \/ l \in Range(back),
             UNCHANGED <<queue, claim, mem, recorded, gone>>
      PROVE  StillSomewhere
  <2>1. /\ flights[p] \in Seq(Flight) /\ Len(flights[p]) \in Nat /\ DOMAIN flights[p] = 1..Len(flights[p])
    BY DEF TelemetryTypes
  <2>2. /\ \A q \in Process \ {p} : flights'[q] = flights[q]
        /\ Len(flights'[p]) = Len(flights[p]) - 1
    BY <1>7, FlightOver
  <2>a. /\ doing' = [doing EXCEPT ![p] = IF back = <<>> THEN "release" ELSE "append"]
        /\ buf' = IF back = <<>> THEN buf ELSE [buf EXCEPT ![p] = back]
        /\ after' = IF back = <<>> THEN after ELSE [after EXCEPT ![p] = "release"]
    BY <1>7, FlightIsOver, AppendThenTypes
  <2>3. /\ \A q \in Process \ {p} : buf'[q] = buf[q] /\ doing'[q] = doing[q] /\ after'[q] = after[q]
        /\ \/ back = <<>> /\ doing'[p] = "release"
           \/ back # <<>> /\ doing'[p] = "append" /\ buf'[p] = back /\ Back(p)'
    BY <2>a DEF TelemetryTypes, Back, Appending
  <2>4. Len(flights[p]) >= 2 => Range(claim[p]) \subseteq gone
    BY DEF Crowded, Crowd
  <2>5. \A l \in Range(claim[p]) \ gone : sent'[l] > 0 \/ l \in Range(back)
    <3> SUFFICES ASSUME NEW l \in Range(claim[p]), l \notin gone, l \in Line PROVE sent'[l] > 0 \/ l \in Range(back)
      BY <1>7, <1>t
    <3>1. sent[l] > 0 \/ InFlight(p, l)
      BY <1>7 DEF Covered, Tended, BackBuf, Back, Leaving, Appending
    <3>2. ASSUME NEW k \in DOMAIN flights[p], Carries(flights[p][k], l) PROVE k = i
      BY <2>1, <2>4
    <3> QED  BY <1>7, <3>1, <3>2 DEF InFlight
  <2>6. buf[p] = <<>>
    BY <1>7 DEF Turns
  <2>7. \A l \in recorded \ gone' : l \in Range(queue) \/ Holds(p, l) => Somewhere(l)'
    <3> SUFFICES ASSUME NEW l \in recorded \ gone', Holds(p, l) PROVE Somewhere(l)'
      BY <1>7 DEF Somewhere
    <3>1. l \in Range(mem[p]) \/ l \in Range(claim[p])
      BY <2>6, NothingInEmpty DEF Holds
    <3>2. CASE l \in Range(mem[p])
      BY <1>7, <3>2 DEF Somewhere, Holds
    <3>3. CASE l \in Range(claim[p])
      <4>1. sent'[l] > 0 \/ doing'[p] = "append"
        BY <1>7, <2>3, <2>5, <3>3, NothingInEmpty
      <4> QED  BY <1>7, <3>3, <4>1 DEF Somewhere, Holds
    <3> QED  BY <3>1, <3>2, <3>3
  <2>8. \A l \in Range(claim'[p]) \ gone' : Tended(p, l)'
    <3> SUFFICES ASSUME NEW l \in Range(claim[p]), l \notin gone PROVE Tended(p, l)'
      BY <1>7
    <3>1. sent'[l] > 0 \/ doing'[p] = "release" \/ BackBuf(p, l)'
      BY <2>3, <2>5 DEF BackBuf
    <3> QED  BY <3>1 DEF Tended
  <2>9. Crowd(p)' => Range(claim'[p]) \subseteq gone'
    <3> SUFFICES ASSUME Crowd(p)' PROVE Len(flights[p]) >= 2
      BY <1>7, <2>4
    <3>1. Len(flights'[p]) >= 1
      <4>1. flights'[p] \in Seq(Flight)
        BY <1>0 DEF TelemetryTypes
      <4> QED  BY <4>1 DEF Crowd
    <3> QED  BY <2>1, <2>2, <3>1
  <2> QED  BY <1>7, <1>t, <2>2, <2>3, <2>7, <2>8, <2>9, OwnStep DEF StillSomewhere
<1>8. ASSUME NEW p \in Process, FetchAnswered(p) PROVE StillSomewhere
  <2>1. PICK i \in DOMAIN flights[p] :
          /\ Received(Range(First(flights[p][i])))
          /\ IF Rest(flights[p][i]) = <<>> THEN FlightEnds(p, i, flights[p][i].keep)
             ELSE flights' = [flights EXCEPT ![p][i].send = Rest(flights[p][i])] /\ UNCHANGED turn
    BY <1>8 DEF FetchAnswered
  <2>2. doing[p] = "idle" /\ UNCHANGED <<queue, claim, mem, recorded, gone>>
    BY <1>8 DEF FetchAnswered
  <2>f. flights[p][i] \in Flight
    BY DEF TelemetryTypes
  <2>3. /\ Range(First(flights[p][i])) \cup Range(Rest(flights[p][i])) = Range(flights[p][i].send)
        /\ flights[p][i].keep \in Seq(Line)
    BY <2>f, FlightParts DEF Flight
  <2>4. \A l \in Line : /\ sent[l] > 0 => sent'[l] > 0
                        /\ l \in Range(First(flights[p][i])) => sent'[l] > 0
    BY <2>1, ReceivedTypes
  <2>5. CASE Rest(flights[p][i]) = <<>>
    <3>1. \A l \in Line : Carries(flights[p][i], l) => sent'[l] > 0 \/ l \in Range(flights[p][i].keep)
      BY <2>3, <2>4, <2>5, NothingInEmpty DEF Carries
    <3> QED  BY <1>7, <2>1, <2>2, <2>3, <2>4, <2>5, <3>1
  <2>6. CASE Rest(flights[p][i]) # <<>>
    <3>1. flights' = [flights EXCEPT ![p][i].send = Rest(flights[p][i])] /\ UNCHANGED <<doing, after, buf>>
      BY <2>1, <2>6
    <3>2. /\ \A q \in Process \ {p} : flights'[q] = flights[q]
          /\ Len(flights'[p]) = Len(flights[p]) /\ DOMAIN flights'[p] = DOMAIN flights[p]
          /\ \A k \in DOMAIN flights[p] : k # i => flights'[p][k] = flights[p][k]
          /\ flights'[p][i].send = Rest(flights[p][i]) /\ flights'[p][i].keep = flights[p][i].keep
      BY <3>1, NextChunk
    <3>3. \A l \in recorded \ gone' : l \in Range(queue) \/ Holds(p, l) => Somewhere(l)'
      BY <2>2, <3>1 DEF Somewhere, Holds, Back, Appending
    <3>4. \A l \in Range(claim'[p]) \ gone' : Tended(p, l)'
      <4> SUFFICES ASSUME NEW l \in Range(claim[p]), l \notin gone, l \in Line PROVE sent'[l] > 0 \/ InFlight(p, l)'
        BY <1>t, <2>2 DEF Tended
      <4>1. sent[l] > 0 \/ InFlight(p, l)
        BY <2>2 DEF Covered, Tended, BackBuf, Back, Leaving, Appending
      <4>2. ASSUME NEW k \in DOMAIN flights[p], Carries(flights[p][k], l) PROVE sent'[l] > 0 \/ Carries(flights'[p][k], l)
        <5>1. CASE k # i
          BY <3>2, <4>2, <5>1
        <5>2. CASE k = i
          BY <2>3, <2>4, <3>2, <4>2, <5>2 DEF Carries
        <5> QED  BY <5>1, <5>2
      <4>3. InFlight(p, l) => sent'[l] > 0 \/ InFlight(p, l)'
        BY <3>2, <4>2 DEF InFlight
      <4> QED  BY <2>4, <4>1, <4>3
    <3>5. Crowd(p)' => Range(claim'[p]) \subseteq gone'
      <4>1. doing'[p] = "idle" /\ ~Back(p)'
        BY <2>2, <3>1 DEF Back, Appending
      <4> QED  BY <2>2, <3>2, <4>1 DEF Crowd, Crowded
    <3> QED  BY <1>t, <2>2, <2>4, <3>1, <3>2, <3>3, <3>4, <3>5, OwnStep DEF StillSomewhere
  <2> QED  BY <2>5, <2>6
<1>9. ASSUME NEW p \in Process, FetchFails(p) PROVE StillSomewhere
  <2>1. PICK i \in DOMAIN flights[p] : \E arrived \in {{}, Range(First(flights[p][i]))} :
          Received(arrived) /\ FlightEnds(p, i, flights[p][i].send \o flights[p][i].keep)
    BY <1>9 DEF FetchFails
  <2>2. doing[p] = "idle" /\ UNCHANGED <<queue, claim, mem, recorded, gone>>
    BY <1>9 DEF FetchFails
  <2>f. flights[p][i] \in Flight
    BY DEF TelemetryTypes
  <2> DEFINE back == flights[p][i].send \o flights[p][i].keep
  <2>3. back \in Seq(Line) /\ \A l : Carries(flights[p][i], l) => l \in Range(back)
    BY <2>f, ConcatLines DEF Flight, Carries
  <2>4. \A l \in Line : sent[l] > 0 => sent'[l] > 0
    BY <2>1, ReceivedTypes
  <2>5. FlightEnds(p, i, back)
    BY <2>1
  <2> HIDE DEF back
  <2> QED  BY <1>7, <2>2, <2>3, <2>4, <2>5
<1>10. ASSUME NEW p \in Process, AppendRead(p) PROVE StillSomewhere
  <2>1. /\ doing[p] = "append" /\ doing' = [doing EXCEPT ![p] = "write"]
        /\ UNCHANGED <<queue, claim, mem, flights, after, buf, sent, recorded, gone>>
    BY <1>10 DEF AppendRead
  <2>2. doing'[p] = "write" /\ \A q \in Process \ {p} : doing'[q] = doing[q]
    BY <2>1 DEF TelemetryTypes
  <2>3. \A l \in recorded \ gone' : l \in Range(queue) \/ Holds(p, l) => Somewhere(l)'
    BY <2>1, <2>2 DEF Somewhere, Holds, Back, Appending
  <2>4. \A l \in Range(claim'[p]) \ gone' : Tended(p, l)'
    BY <2>1, <2>2 DEF Covered, Tended, Back, Appending, Leaving, InFlight, BackBuf
  <2>5. Crowd(p)' => Range(claim'[p]) \subseteq gone'
    BY <2>1, <2>2 DEF Crowded, Crowd, Back, Appending
  <2> QED  BY <1>t, <2>1, <2>2, <2>3, <2>4, <2>5, OwnStep DEF StillSomewhere
<1>11. ASSUME NEW p \in Process, AppendWrite(p) PROVE StillSomewhere
  <2>1. /\ doing[p] = "write" /\ doing' = [doing EXCEPT ![p] = after[p]]
        /\ after' = [after EXCEPT ![p] = "end"] /\ buf' = [buf EXCEPT ![p] = <<>>]
        /\ gone' = gone \cup ((Range(base[p] \o buf[p]) \cup Range(queue)) \ Range(queue'))
        /\ UNCHANGED <<claim, mem, flights, sent, recorded>>
    BY <1>11 DEF AppendWrite
  <2>2. Range(base[p] \o buf[p]) = Range(base[p]) \cup Range(buf[p])
    BY ConcatLines DEF TelemetryTypes
  <2>3. /\ doing'[p] = after[p] /\ after[p] \in {"end", "recover", "release"}
        /\ \A q \in Process \ {p} : doing'[q] = doing[q] /\ after'[q] = after[q] /\ buf'[q] = buf[q]
    BY <2>1 DEF TelemetryTypes
  <2>4. \A l \in Range(buf[p]) \cup Range(queue) : l \in Range(queue') \/ l \in gone'
    BY <2>1, <2>2
  <2>5. Back(p) <=> after[p] = "release"
    BY <2>1 DEF Back, Appending
  <2>6. after[p] = "release" => \A l \in Range(claim[p]) \ gone' : sent[l] > 0 \/ l \in Range(queue')
    <3> SUFFICES ASSUME after[p] = "release", NEW l \in Range(claim[p]), l \notin gone' PROVE sent[l] > 0 \/ l \in Range(queue')
      OBVIOUS
    <3>1. l \notin gone /\ Tended(p, l)
      BY <2>1 DEF Covered
    <3>2. flights[p] = <<>>
      BY <2>1, <2>5, <3>1 DEF Crowded, Crowd
    <3>3. ~InFlight(p, l)
      BY <3>2 DEF InFlight
    <3> QED  BY <2>1, <2>4, <3>1, <3>3 DEF Tended, Leaving, BackBuf
  <2>7. \A l \in recorded \ gone' : l \in Range(queue) \/ Holds(p, l) => Somewhere(l)'
    <3> SUFFICES ASSUME NEW l \in recorded \ gone', Holds(p, l) PROVE Somewhere(l)'
      BY <2>4 DEF Somewhere
    <3>1. l \in Range(mem[p]) \/ l \in Range(buf[p]) \/ l \in Range(claim[p])
      BY DEF Holds
    <3>2. CASE l \in Range(mem[p])
      BY <2>1, <3>2 DEF Somewhere, Holds
    <3>3. CASE l \in Range(buf[p])
      BY <2>4, <3>3 DEF Somewhere
    <3>4. CASE l \in Range(claim[p])
      <4>1. CASE after[p] = "release"
        BY <2>1, <2>6, <3>4, <4>1 DEF Somewhere
      <4>2. CASE after[p] # "release"
        BY <2>1, <2>3, <3>4, <4>2 DEF Somewhere, Holds
      <4> QED  BY <4>1, <4>2
    <3> QED  BY <3>1, <3>2, <3>3, <3>4
  <2>8. \A l \in Range(claim'[p]) \ gone' : Tended(p, l)'
    <3> SUFFICES ASSUME NEW l \in Range(claim[p]), l \notin gone', after[p] = "recover" PROVE Tended(p, l)'
      BY <2>1, <2>3 DEF Tended, Leaving
    <3>1. Tended(p, l)
      BY <2>1 DEF Covered
    <3>2. sent[l] > 0 \/ InFlight(p, l)
      BY <2>1, <3>1 DEF Tended, Leaving, BackBuf, Back
    <3> QED  BY <2>1, <3>2 DEF Tended, InFlight
  <2>9. Crowd(p)' => Range(claim'[p]) \subseteq gone'
    <3>1. Crowd(p)' => Crowd(p)
      BY <2>1, <2>3, <2>5 DEF Crowd, Back, Appending
    <3> QED  BY <2>1, <3>1 DEF Crowded
  <2> QED  BY <1>t, <2>1, <2>3, <2>7, <2>8, <2>9, OwnStep DEF StillSomewhere
<1>12. ASSUME NEW p \in Process, StaleUnlink(p) PROVE StillSomewhere
  <2>1. /\ doing[p] = "unlink" /\ doing' = [doing EXCEPT ![p] = "putBack"]
        /\ claim' = [claim EXCEPT ![victim[p]] = <<>>]
        /\ gone' = gone \cup (Range(claim[victim[p]]) \ Range(buf[p]))
        /\ UNCHANGED <<queue, mem, flights, after, buf, sent, recorded>>
    BY <1>12 DEF StaleUnlink
  <2>2. /\ doing'[p] = "putBack" /\ \A q \in Process \ {p} : doing'[q] = doing[q]
        /\ \A q \in Process : claim'[q] = claim[q] \/ (q = victim[p] /\ claim'[q] = <<>>)
    BY <2>1 DEF TelemetryTypes
  <2>3. ~Back(p)' /\ ~Back(p)
    BY <2>1, <2>2 DEF Back, Appending
  <2>4. \A l \in Range(buf[p]) : Somewhere(l)'
    BY <2>1, <2>3 DEF Somewhere, Holds
  <2>5. \A q \in Process : \/ claim'[q] = claim[q]
                           \/ claim'[q] = <<>> /\ \A l \in Range(claim[q]) \ gone' : Somewhere(l)'
    BY <2>1, <2>2, <2>4
  <2>6. \A l \in recorded \ gone' : l \in Range(queue) \/ Holds(p, l) => Somewhere(l)'
    <3> SUFFICES ASSUME NEW l \in recorded \ gone', Holds(p, l) PROVE Somewhere(l)'
      BY <2>1 DEF Somewhere
    <3>1. CASE l \in Range(mem[p])
      BY <2>1, <3>1 DEF Somewhere, Holds
    <3>2. CASE l \in Range(claim[p])
      <4>1. CASE claim'[p] = claim[p]
        BY <2>2, <3>2, <4>1 DEF Somewhere, Holds
      <4> QED  BY <2>5, <3>2, <4>1
    <3> QED  BY <2>4, <3>1, <3>2 DEF Holds
  <2>7. Range(claim'[p]) \subseteq Range(claim[p])
    BY <2>2, NothingInEmpty
  <2>8. \A l \in Range(claim'[p]) \ gone' : Tended(p, l)'
    <3> SUFFICES ASSUME NEW l \in Range(claim[p]), l \notin gone' PROVE Tended(p, l)'
      BY <2>7
    <3>1. Tended(p, l)
      BY <2>1 DEF Covered
    <3> QED  BY <2>1, <2>3, <3>1 DEF Tended, Leaving, Appending, BackBuf, InFlight
  <2>9. Crowd(p)' => Range(claim'[p]) \subseteq gone'
    BY <2>1, <2>2, <2>3, <2>7 DEF Crowded, Crowd
  <2> QED  BY <1>t, <2>1, <2>2, <2>5, <2>6, <2>8, <2>9, OwnStep DEF StillSomewhere
<1>13. ASSUME NEW p \in Process, StalePutBack(p) PROVE StillSomewhere
  <2>1. /\ doing[p] = "putBack" /\ doing' = [doing EXCEPT ![p] = "recover"]
        /\ buf' = [buf EXCEPT ![p] = <<>>] /\ queue' = queue \o buf[p]
        /\ UNCHANGED <<claim, mem, flights, after, sent, recorded, gone>>
    BY <1>13 DEF StalePutBack
  <2>2. doing'[p] = "recover" /\ \A q \in Process \ {p} : doing'[q] = doing[q] /\ buf'[q] = buf[q]
    BY <2>1 DEF TelemetryTypes
  <2>3. Range(queue') = Range(queue) \cup Range(buf[p])
    BY <2>1, ConcatLines DEF TelemetryTypes
  <2>4. ~Back(p)' /\ ~Back(p)
    BY <2>1, <2>2 DEF Back, Appending
  <2>5. \A l \in recorded \ gone' : l \in Range(queue) \/ Holds(p, l) => Somewhere(l)'
    BY <2>1, <2>2, <2>3 DEF Somewhere, Holds
  <2>6. \A l \in Range(claim'[p]) \ gone' : Tended(p, l)'
    <3> SUFFICES ASSUME NEW l \in Range(claim[p]), l \notin gone, Tended(p, l) PROVE Tended(p, l)'
      BY <2>1 DEF Covered
    <3> QED  BY <2>1, <2>4 DEF Tended, Leaving, Appending, BackBuf, InFlight
  <2>7. Crowd(p)' => Range(claim'[p]) \subseteq gone'
    BY <2>1, <2>2, <2>4 DEF Crowded, Crowd
  <2> QED  BY <1>t, <2>1, <2>2, <2>5, <2>6, <2>7, OwnStep DEF StillSomewhere
<1>14. ASSUME NEW p \in Process, NEW v \in Process, StaleRead(p, v) PROVE StillSomewhere
  <2>1. /\ doing[p] = "recover" /\ doing' = [doing EXCEPT ![p] = "unlink"]
        /\ buf' = [buf EXCEPT ![p] = claim[v]]
        /\ UNCHANGED <<queue, claim, mem, flights, after, sent, recorded, gone>>
    BY <1>14 DEF StaleRead
  <2>2. doing'[p] = "unlink" /\ \A q \in Process \ {p} : doing'[q] = doing[q] /\ buf'[q] = buf[q]
    BY <2>1 DEF TelemetryTypes
  <2>3. buf[p] = <<>>
    BY <2>1 DEF Turns
  <2>4. ~Back(p)' /\ ~Back(p)
    BY <2>1, <2>2 DEF Back, Appending
  <2>5. \A l \in recorded \ gone' : l \in Range(queue) \/ Holds(p, l) => Somewhere(l)'
    BY <2>1, <2>2, <2>3, NothingInEmpty DEF Somewhere, Holds
  <2>6. \A l \in Range(claim'[p]) \ gone' : Tended(p, l)'
    <3> SUFFICES ASSUME NEW l \in Range(claim[p]), l \notin gone, Tended(p, l) PROVE Tended(p, l)'
      BY <2>1 DEF Covered
    <3> QED  BY <2>1, <2>4 DEF Tended, Leaving, Appending, BackBuf, InFlight
  <2>7. Crowd(p)' => Range(claim'[p]) \subseteq gone'
    BY <2>1, <2>2, <2>4 DEF Crowded, Crowd
  <2> QED  BY <1>t, <2>1, <2>2, <2>5, <2>6, <2>7, OwnStep DEF StillSomewhere
<1>15. ASSUME NEW p \in Process, ClaimQueue(p) PROVE StillSomewhere
  <2>1. doing[p] = "recover" /\ UNCHANGED <<mem, flights, after, buf, sent, recorded>>
    BY <1>15 DEF ClaimQueue
  <2>2. ~Back(p) /\ ~Leaving(p) /\ buf[p] = <<>>
    BY <2>1 DEF Back, Leaving, Appending, Turns
  <2>3. \A l \in Range(claim[p]) \ gone : sent[l] > 0 \/ InFlight(p, l)
    BY <2>1, <2>2 DEF Covered, Tended, BackBuf
  <2>4. CASE queue = <<>>
    <3>1. doing' = [doing EXCEPT ![p] = "idle"] /\ UNCHANGED <<queue, claim, gone>>
      BY <1>15, <2>4 DEF ClaimQueue
    <3>2. doing'[p] = "idle" /\ \A q \in Process \ {p} : doing'[q] = doing[q]
      BY <3>1 DEF TelemetryTypes
    <3>3. \A l \in recorded \ gone' : l \in Range(queue) \/ Holds(p, l) => Somewhere(l)'
      BY <2>1, <2>2, <3>1, <3>2, NothingInEmpty DEF Somewhere, Holds
    <3>4. \A l \in Range(claim'[p]) \ gone' : Tended(p, l)'
      BY <2>1, <2>3, <3>1 DEF Tended, InFlight
    <3>5. Crowd(p)' => Range(claim'[p]) \subseteq gone'
      BY <2>1, <3>1, <3>2 DEF Crowded, Crowd, Back, Appending
    <3> QED  BY <1>t, <2>1, <3>1, <3>2, <3>3, <3>4, <3>5, OwnStep DEF StillSomewhere
  <2>5. CASE queue # <<>>
    <3>1. /\ doing' = [doing EXCEPT ![p] = "read"] /\ claim' = [claim EXCEPT ![p] = queue]
          /\ gone' = IF flights[p] = <<>> THEN gone ELSE gone \cup Range(queue) \cup Range(claim[p])
      BY <1>15, <2>5 DEF ClaimQueue
    <3>2. /\ doing'[p] = "read" /\ claim'[p] = queue
          /\ \A q \in Process \ {p} : doing'[q] = doing[q] /\ claim'[q] = claim[q]
      BY <3>1 DEF TelemetryTypes
    <3>3. \A l \in recorded \ gone' : l \in Range(queue) \/ Holds(p, l) => Somewhere(l)'
      <4> SUFFICES ASSUME NEW l \in recorded \ gone', l \in Range(queue) \/ Holds(p, l) PROVE Somewhere(l)'
        OBVIOUS
      <4>1. CASE l \in Range(queue)
        BY <3>2, <4>1 DEF Somewhere, Holds
      <4>2. CASE l \in Range(mem[p])
        BY <2>1, <4>2 DEF Somewhere, Holds
      <4>3. CASE l \in Range(claim[p])
        <5>1. flights[p] = <<>> /\ l \notin gone
          BY <3>1, <4>3
        <5> QED  BY <2>1, <2>3, <4>3, <5>1 DEF Somewhere, InFlight
      <4> QED  BY <2>2, <4>1, <4>2, <4>3, NothingInEmpty DEF Holds
    <3>4. \A l \in Range(claim'[p]) \ gone' : Tended(p, l)'
      BY <3>2 DEF Tended
    <3>5. Crowd(p)' => Range(claim'[p]) \subseteq gone'
      <4>1. Crowd(p)' => flights[p] # <<>>
        <5>1. Len(<<>>) = 0
          OBVIOUS
        <5> QED  BY <2>1, <5>1 DEF Crowd
      <4> QED  BY <3>1, <3>2, <4>1
    <3> QED  BY <1>t, <2>1, <3>1, <3>2, <3>3, <3>4, <3>5, OwnStep DEF StillSomewhere
  <2> QED  BY <2>4, <2>5
<1>16. ASSUME NEW p \in Process, ReadClaim(p) PROVE StillSomewhere
  <2> DEFINE send == Selected(claim[p], Sendable)
             keep == Kept(claim[p])
             f == [send |-> send, keep |-> keep]
  <2>1. send \in Seq(Line) /\ keep \in Seq(Line) /\ Range(send) \cup Range(keep) = Range(claim[p])
    BY ClaimParts
  <2>2. /\ doing[p] = "read"
        /\ UNCHANGED <<queue, claim, mem, sent, recorded, gone>>
        /\ \/ send = <<>> /\ flights' = flights /\ AppendThen(p, keep, "release")
           \/ /\ f \in Flight
              /\ flights' = [flights EXCEPT ![p] = Append(@, f)]
              /\ doing' = [doing EXCEPT ![p] = "idle"] /\ UNCHANGED <<buf, after>>
    BY <1>16, ReadClaimEffect
  <2>3. f.send = send /\ f.keep = keep
    OBVIOUS
  <2> HIDE DEF send, keep, f
  <2>4. ~Back(p) /\ ~Leaving(p) /\ buf[p] = <<>>
    BY <2>2 DEF Back, Leaving, Appending, Turns
  <2>5. flights[p] # <<>> => Range(claim[p]) \subseteq gone
    BY <2>2 DEF Crowded, Crowd
  <2>6. CASE send = <<>> /\ flights' = flights /\ AppendThen(p, keep, "release")
    <3>a. /\ doing' = [doing EXCEPT ![p] = IF keep = <<>> THEN "release" ELSE "append"]
          /\ buf' = IF keep = <<>> THEN buf ELSE [buf EXCEPT ![p] = keep]
          /\ after' = IF keep = <<>> THEN after ELSE [after EXCEPT ![p] = "release"]
      BY <2>1, <2>6, AppendThenTypes
    <3>1. /\ \A q \in Process \ {p} : buf'[q] = buf[q] /\ doing'[q] = doing[q] /\ after'[q] = after[q]
          /\ \/ keep = <<>> /\ doing'[p] = "release"
             \/ doing'[p] = "append" /\ buf'[p] = keep /\ Back(p)'
      BY <3>a DEF TelemetryTypes, Back, Appending
    <3>2. Range(claim[p]) = Range(keep)
      BY <2>1, <2>6, NothingInEmpty
    <3>3. \A l \in recorded \ gone' : l \in Range(queue) \/ Holds(p, l) => Somewhere(l)'
      BY <2>2, <2>4, <3>1, <3>2, NothingInEmpty DEF Somewhere, Holds
    <3>4. \A l \in Range(claim'[p]) \ gone' : Tended(p, l)'
      BY <2>2, <3>1, <3>2 DEF Tended, BackBuf
    <3>5. Crowd(p)' => Range(claim'[p]) \subseteq gone'
      <4>1. Crowd(p)' => flights[p] # <<>>
        <5>1. Len(<<>>) = 0
          OBVIOUS
        <5> QED  BY <2>6, <5>1 DEF Crowd
      <4> QED  BY <2>2, <2>5, <4>1
    <3> QED  BY <1>t, <2>2, <2>6, <3>1, <3>3, <3>4, <3>5, OwnStep DEF StillSomewhere
  <2>7. CASE /\ f \in Flight /\ flights' = [flights EXCEPT ![p] = Append(@, f)]
             /\ doing' = [doing EXCEPT ![p] = "idle"] /\ UNCHANGED <<buf, after>>
    <3>1. /\ \A q \in Process \ {p} : flights'[q] = flights[q]
          /\ Len(flights[p]) \in Nat
          /\ Len(flights'[p]) = Len(flights[p]) + 1 /\ DOMAIN flights'[p] = 1..(Len(flights[p]) + 1)
          /\ flights'[p][Len(flights[p]) + 1] = f
      BY <2>7, NewFlight
    <3>2. doing'[p] = "idle" /\ \A q \in Process \ {p} : doing'[q] = doing[q]
      BY <2>7 DEF TelemetryTypes
    <3>3. \A l \in recorded \ gone' : l \in Range(queue) \/ Holds(p, l) => Somewhere(l)'
      BY <2>2, <2>4, <2>7, <3>2, NothingInEmpty DEF Somewhere, Holds
    <3>4. \A l \in Range(claim'[p]) : InFlight(p, l)'
      <4>1. Len(flights[p]) + 1 \in DOMAIN flights'[p]
        BY <3>1
      <4> QED  BY <2>1, <2>2, <2>3, <3>1, <4>1 DEF InFlight, Carries
    <3>5. Crowd(p)' => Range(claim'[p]) \subseteq gone'
      <4>1. ~Back(p)'
        BY <3>2 DEF Back, Appending
      <4>2. Crowd(p)' => Len(flights[p]) >= 1
        BY <3>1, <3>2, <4>1 DEF Crowd
      <4>3. Len(<<>>) = 0
        OBVIOUS
      <4> QED  BY <2>2, <2>5, <4>2, <4>3
    <3> QED  BY <1>t, <2>2, <2>7, <3>1, <3>2, <3>3, <3>4, <3>5, OwnStep DEF StillSomewhere, Tended
  <2> QED  BY <2>2, <2>6, <2>7
<1>17. ASSUME NEW p \in Process, ReleaseClaim(p) PROVE StillSomewhere
  <2>1. /\ doing[p] = "release" /\ doing' = [doing EXCEPT ![p] = "idle"] /\ claim' = [claim EXCEPT ![p] = <<>>]
        /\ UNCHANGED <<queue, mem, flights, after, buf, sent, recorded, gone>>
    BY <1>17 DEF ReleaseClaim
  <2>2. /\ doing'[p] = "idle" /\ claim'[p] = <<>>
        /\ \A q \in Process \ {p} : doing'[q] = doing[q] /\ claim'[q] = claim[q]
    BY <2>1 DEF TelemetryTypes
  <2>3. buf[p] = <<>>
    BY <2>1 DEF Turns
  <2>4. \A l \in recorded \ gone' : l \in Range(queue) \/ Holds(p, l) => Somewhere(l)'
    BY <2>1, <2>2, <2>3, NothingInEmpty DEF Somewhere, Holds
  <2> QED  BY <1>t, <2>1, <2>2, <2>4, NothingInEmpty, OwnStep DEF StillSomewhere
<1>18. ASSUME NEW p \in Process, End(p) PROVE StillSomewhere
  <2>1. /\ doing[p] = "end" /\ doing' = [doing EXCEPT ![p] = "down"]
        /\ UNCHANGED <<queue, claim, mem, flights, after, buf, sent, recorded, gone>>
    BY <1>18 DEF End
  <2>2. doing'[p] = "down" /\ \A q \in Process \ {p} : doing'[q] = doing[q]
    BY <2>1 DEF TelemetryTypes
  <2>3. ~Back(p) /\ ~Back(p)'
    BY <2>1, <2>2 DEF Back, Appending
  <2>4. \A l \in recorded \ gone' : l \in Range(queue) \/ Holds(p, l) => Somewhere(l)'
    BY <2>1, <2>2, <2>3 DEF Somewhere, Holds
  <2>5. \A l \in Range(claim'[p]) \ gone' : Tended(p, l)'
    BY <2>2 DEF Tended
  <2>6. Crowd(p)' => Range(claim'[p]) \subseteq gone'
    BY <2>1, <2>2, <2>3 DEF Crowded, Crowd
  <2> QED  BY <1>t, <2>1, <2>2, <2>4, <2>5, <2>6, OwnStep DEF StillSomewhere
<1>19. ASSUME UNCHANGED <<queue, claim, mem, flights, doing, after, buf, sent, recorded, gone>> PROVE StillSomewhere
  BY <1>19 DEF StillSomewhere, Anywhere, Somewhere, Holds, Covered, Tended, Crowded, Crowd, InFlight, BackBuf, Back, Leaving, Appending
<1>20. ASSUME NEW p \in Process, ClaimAges(p) PROVE StillSomewhere
  BY <1>19, <1>20 DEF ClaimAges
<1>21. CASE NextDay
  BY <1>19, <1>21 DEF NextDay
<1>22. CASE QueueAges
  BY <1>19, <1>22 DEF QueueAges
<1> QED
  BY <1>1, <1>2, <1>4, <1>5, <1>6, <1>8, <1>9, <1>10, <1>11, <1>12, <1>13, <1>14, <1>15, <1>16, <1>17,
     <1>18, <1>20, <1>21, <1>22 DEF TelemetryNext, Work

-----------------------------------------------------------------------------
(* A line that one process moves on is still in one place.                 *)
LEMMA OnePlaceStep ==
    ASSUME NEW p \in Process, NEW l \in Line, OnePlace(l),
           \A q \in Process \ {p} : (Mine(q, l)' => Mine(q, l)) /\ (Claimed(q, l)' => Claimed(q, l)),
           l \in Range(queue') => ~Mine(p, l)' /\ ~Claimed(p, l)',
           ~(Mine(p, l)' /\ Claimed(p, l)'),
           l \in Range(queue') \/ Mine(p, l)' \/ Claimed(p, l)' =>
              \/ l \in Range(queue) \/ Mine(p, l) \/ Claimed(p, l) \/ Nowhere(l)
              \/ \E v \in Process \ {p} : Claimed(v, l) /\ ~Claimed(v, l)'
    PROVE  OnePlace(l)'
<1>1. ASSUME l \in Range(queue') \/ Mine(p, l)' \/ Claimed(p, l)'
      PROVE  \A q \in Process \ {p} : ~Mine(q, l)' /\ ~Claimed(q, l)'
  <2>1. CASE l \in Range(queue) \/ Mine(p, l) \/ Claimed(p, l) \/ Nowhere(l)
    BY <2>1 DEF OnePlace, Nowhere
  <2>2. ASSUME NEW v \in Process \ {p}, Claimed(v, l), ~Claimed(v, l)' PROVE \A q \in Process \ {p} : ~Mine(q, l)' /\ ~Claimed(q, l)'
    BY <2>2 DEF OnePlace
  <2> QED  BY <1>1, <2>1, <2>2
<1>2. \A q, r \in Process \ {p} : /\ ~(Mine(q, l)' /\ Claimed(r, l)')
                                  /\ Mine(q, l)' /\ Mine(r, l)' => q = r
                                  /\ Claimed(q, l)' /\ Claimed(r, l)' => q = r
  BY DEF OnePlace
<1>3. \A q \in Process : l \in Range(queue') => ~Mine(q, l)' /\ ~Claimed(q, l)'
  BY <1>1
<1>4. \A q, r \in Process : /\ ~(Mine(q, l)' /\ Claimed(r, l)')
                            /\ Mine(q, l)' /\ Mine(r, l)' => q = r
                            /\ Claimed(q, l)' /\ Claimed(r, l)' => q = r
  BY <1>1, <1>2
<1> QED  BY <1>3, <1>4 DEF OnePlace

(* A step of one process that leaves the others as they are, up to a claim *)
(* of theirs that it recovers.                                             *)
LEMMA CustodyOwnStep ==
    ASSUME TelemetryTypes, TelemetryTypes', NEW l \in Line, CustodyOf(l), NEW p \in Process, doing[p] # "down",
           \A q \in Process \ {p} :
              /\ mem'[q] = mem[q] /\ buf'[q] = buf[q] /\ base'[q] = base[q] /\ victim'[q] = victim[q]
              /\ doing'[q] = doing[q] /\ after'[q] = after[q] /\ flights'[q] = flights[q]
              /\ \/ claim'[q] = claim[q]
                 \/ claim'[q] = <<>> /\ doing[p] = "unlink" /\ victim[p] = q,
           Once(l, queue'), OnceAt(p, l)', FlightAt(p, l)',
           l \in Range(queue') => ~Mine(p, l)' /\ ~Claimed(p, l)',
           ~(Mine(p, l)' /\ Claimed(p, l)'),
           l \in Range(queue') \/ Mine(p, l)' \/ Claimed(p, l)' =>
              \/ l \in Range(queue) \/ Mine(p, l) \/ Claimed(p, l) \/ Nowhere(l)
              \/ \E v \in Process \ {p} : Claimed(v, l) /\ ~Claimed(v, l)',
           doing'[p] = "unlink" =>
              /\ l \in Range(buf'[p]) => doing[victim'[p]] = "down" /\ l \in Range(claim'[victim'[p]]) /\ victim'[p] # p
              /\ \A o \in Process \ {p} : doing[o] = "unlink" /\ victim[o] = victim'[p] =>
                    l \notin Range(buf[o]) /\ l \notin Range(buf'[p]),
           sent'[l] > 0 => /\ sent'[l] = 1 /\ l \notin Range(queue') /\ DoneAt(p, l)'
                           /\ sent[l] > 0 \/ Claimed(p, l)
    PROVE  CustodyOf(l)'
<1>1. \A q \in Process \ {p} :
          /\ Range(claim'[q]) \subseteq Range(claim[q]) /\ \A m : Once(m, claim[q]) => Once(m, claim'[q])
          /\ InFlight(q, l)' <=> InFlight(q, l)
          /\ BackBuf(q, l)' <=> BackBuf(q, l)
          /\ Mine(q, l)' <=> Mine(q, l)
          /\ Leaving(q)' <=> Leaving(q)
  BY NothingInEmpty DEF InFlight, BackBuf, Mine, Leaving, Back, Appending
<1>2. \A q \in Process \ {p} : Claimed(q, l)' => Claimed(q, l)
  BY <1>1 DEF Claimed
<1>3. OnceEach(l)'
  <2>1. ASSUME NEW q \in Process \ {p} PROVE OnceAt(q, l)'
    <3>1. OnceAt(q, l)
      BY DEF CustodyOf, OnceEach
    <3> QED  BY <1>1, <3>1 DEF OnceAt
  <2> QED  BY <2>1 DEF OnceEach
<1>4. OnePlace(l)'
  BY <1>1, <1>2, OnePlaceStep DEF CustodyOf
<1>5. OneFlight(l)'
  <2>1. ASSUME NEW q \in Process \ {p} PROVE FlightAt(q, l)'
    <3>1. FlightAt(q, l)
      BY DEF CustodyOf, OneFlight
    <3> QED  BY <1>1, <3>1 DEF FlightAt
  <2> QED  BY <2>1 DEF OneFlight
<1>6. Recovered(l)'
  <2> SUFFICES ASSUME NEW o \in Process, doing'[o] = "unlink", l \in Range(buf'[o])
               PROVE  /\ doing'[victim'[o]] = "down" /\ l \in Range(claim'[victim'[o]])
                      /\ \A r \in Process : doing'[r] = "unlink" /\ victim'[r] = victim'[o] => r = o
    BY DEF Recovered
  <2>1. CASE o = p
    <3>1. doing[victim'[p]] = "down" /\ l \in Range(claim'[victim'[p]]) /\ victim'[p] # p
      BY <2>1
    <3>2. victim'[p] \in Process
      BY <2>1, <3>1 DEF TelemetryTypes
    <3> QED  BY <2>1, <3>1, <3>2
  <2>2. CASE o # p
    <3>1. doing[o] = "unlink" /\ l \in Range(buf[o]) /\ victim'[o] = victim[o] /\ victim[o] \in Process
      BY <2>2 DEF TelemetryTypes
    <3>2. /\ doing[victim[o]] = "down" /\ l \in Range(claim[victim[o]])
          /\ \A r \in Process : doing[r] = "unlink" /\ victim[r] = victim[o] => r = o
      BY <3>1 DEF CustodyOf, Recovered
    <3>3. victim[o] # p
      BY <3>2
    <3>4. doing'[victim[o]] = "down" /\ claim'[victim[o]] = claim[victim[o]]
      BY <2>2, <3>1, <3>2, <3>3
    <3>5. ASSUME NEW r \in Process, doing'[r] = "unlink", victim'[r] = victim[o] PROVE r = o
      BY <2>2, <3>1, <3>2, <3>5
    <3> QED  BY <3>1, <3>2, <3>4, <3>5
  <2> QED  BY <2>1, <2>2
<1>7. Done(l)'
  <2> SUFFICES ASSUME sent'[l] > 0, NEW q \in Process \ {p} PROVE DoneAt(q, l)'
    BY DEF Done
  <2>1. DoneAt(q, l)
    <3>1. CASE sent[l] > 0
      BY <3>1 DEF CustodyOf, Done
    <3>2. CASE Claimed(p, l)
      <4>1. ~Mine(q, l) /\ ~Claimed(q, l)
        BY <3>2 DEF CustodyOf, OnePlace
      <4> QED  BY <4>1 DEF DoneAt, Claimed, Leaving, Appending
    <3> QED  BY <3>1, <3>2
  <2> QED  BY <1>1, <2>1 DEF DoneAt
<1> QED  BY <1>3, <1>4, <1>5, <1>6, <1>7 DEF CustodyOf

(* Every action keeps a line in one place, and what was sent in none, or   *)
(* has a reason to let it be sent again.                                   *)
LEMMA CustodyOfStep ==
    ASSUME TelemetryTypes, Turns, Known, TelemetryNext, NEW l \in Line, l \notin again', CustodyOf(l)
    PROVE  CustodyOf(l)'
<1> DEFINE K == CustodyOf(l)'
<1> SUFFICES K
  OBVIOUS
<1> HIDE DEF K
<1> USE DEF consent, queueFile, claims, memory, turn, outside, accounts, GoOn
<1>0. TelemetryTypes'
  BY TelemetryTypesStep
<1>a. /\ Once(l, queue) /\ \A q \in Process : OnceAt(q, l) /\ FlightAt(q, l)
      /\ OnePlace(l) /\ Recovered(l)
      /\ sent[l] > 0 => sent[l] = 1 /\ l \notin Range(queue) /\ \A q \in Process : DoneAt(q, l)
      /\ sent[l] \in Nat
  BY DEF CustodyOf, OnceEach, OneFlight, Done, TelemetryTypes
<1>1. ASSUME NEW p \in Process, NEW m \in Line, Record(p, m) PROVE K
  <2>1. /\ Range(Append(mem[p], m)) = Range(mem[p]) \cup {m}
        /\ Once(l, mem[p]) /\ (l = m => l \notin Range(mem[p])) => Once(l, Append(mem[p], m))
    BY AppendedLine DEF TelemetryTypes
  <2>2. /\ doing[p] = "idle" /\ m \notin recorded
        /\ UNCHANGED <<queue, claim, buf, base, doing, after, victim, flights, sent>>
        /\ \A q \in Process \ {p} : mem'[q] = mem[q]
        /\ mem'[p] = mem[p] \/ mem'[p] = Append(mem[p], m)
    BY <1>1 DEF Record, TelemetryTypes
  <2>3. l = m => Nowhere(l) /\ ~(sent[l] > 0) /\ l \notin Range(mem[p])
    BY <2>2 DEF Known, Nowhere, Mine, Claimed, BackBuf
  <2>4. /\ Mine(p, l)' => Mine(p, l) \/ (l = m)
        /\ Claimed(p, l)' <=> Claimed(p, l)
        /\ InFlight(p, l)' <=> InFlight(p, l)
        /\ BackBuf(p, l)' <=> BackBuf(p, l)
        /\ Leaving(p)' <=> Leaving(p)
    BY <2>1, <2>2 DEF Mine, Claimed, InFlight, BackBuf, Back, Appending, Leaving
  <2>5. OnceAt(p, l)'
    BY <1>a, <2>1, <2>2, <2>3 DEF OnceAt
  <2>6. FlightAt(p, l)'
    BY <1>a, <2>2, <2>4 DEF FlightAt
  <2>7. /\ l \in Range(queue') => ~Mine(p, l)' /\ ~Claimed(p, l)'
        /\ ~(Mine(p, l)' /\ Claimed(p, l)')
        /\ l \in Range(queue') \/ Mine(p, l)' \/ Claimed(p, l)' =>
              l \in Range(queue) \/ Mine(p, l) \/ Claimed(p, l) \/ Nowhere(l)
    BY <1>a, <2>2, <2>3, <2>4 DEF OnePlace, Nowhere
  <2>8. sent'[l] > 0 => /\ sent'[l] = 1 /\ l \notin Range(queue') /\ DoneAt(p, l)'
                        /\ sent[l] > 0 \/ Claimed(p, l)
    BY <1>a, <2>2, <2>3, <2>4 DEF DoneAt
  <2> QED  BY <1>0, <1>a, <2>2, <2>5, <2>6, <2>7, <2>8, CustodyOwnStep DEF K
<1>2. ASSUME NEW p \in Process, NEW choice \in {"on", "off"}, SetEnabled(p, choice) PROVE K
  <2>1. /\ UNCHANGED <<claim, mem, flights, buf, base, doing, after, victim, sent>>
        /\ queue' = queue \/ queue' = <<>>
        /\ doing[p] = "idle"
    BY <1>2 DEF SetEnabled
  <2>2. Once(l, queue') /\ (l \in Range(queue') => l \in Range(queue))
    BY <1>a, <2>1, NothingInEmpty
  <2>3. /\ Mine(p, l)' <=> Mine(p, l)
        /\ Claimed(p, l)' <=> Claimed(p, l)
        /\ OnceAt(p, l)' <=> OnceAt(p, l)
        /\ FlightAt(p, l)' <=> FlightAt(p, l)
        /\ DoneAt(p, l)' <=> DoneAt(p, l)
    BY <2>1 DEF Mine, Claimed, InFlight, BackBuf, Back, Appending, Leaving, OnceAt, FlightAt, DoneAt
  <2>4. /\ l \in Range(queue') => ~Mine(p, l)' /\ ~Claimed(p, l)'
        /\ ~(Mine(p, l)' /\ Claimed(p, l)')
        /\ l \in Range(queue') \/ Mine(p, l)' \/ Claimed(p, l)' => l \in Range(queue) \/ Mine(p, l) \/ Claimed(p, l)
    BY <1>a, <2>2, <2>3 DEF OnePlace
  <2> QED  BY <1>0, <1>a, <2>1, <2>2, <2>3, <2>4, CustodyOwnStep DEF K
<1>3. ASSUME NEW p \in Process, NEW next \in {"recover", "end"}, PersistThen(p, next), doing[p] = "idle",
             next = "end" => /\ flights' = [flights EXCEPT ![p] = <<>>]
                             /\ sent'[l] > 0 => l \notin Range(claim[p]),
             next = "recover" => flights' = flights /\ sent' = sent,
             ~InFlight(p, l) => sent'[l] = sent[l],
             sent[l] = 0 => sent'[l] \in {0, 1},
             UNCHANGED <<queue, claim>>
      PROVE  K
  <2>1. PICK lines \in Seq(Line) :
              /\ Range(lines) \subseteq Range(mem[p])
              /\ Once(l, mem[p]) => Once(l, lines)
              /\ mem' = [mem EXCEPT ![p] = <<>>]
              /\ doing' = [doing EXCEPT ![p] = IF lines = <<>> THEN next ELSE "append"]
              /\ buf' = IF lines = <<>> THEN buf ELSE [buf EXCEPT ![p] = lines]
              /\ after' = IF lines = <<>> THEN after ELSE [after EXCEPT ![p] = next]
              /\ base' = base /\ victim' = victim
    BY <1>3, PersistEffect
  <2>2. buf[p] = <<>>
    BY <1>3 DEF Turns
  <2>3. /\ \A q \in Process \ {p} : mem'[q] = mem[q] /\ buf'[q] = buf[q] /\ doing'[q] = doing[q] /\ after'[q] = after[q] /\ flights'[q] = flights[q]
        /\ mem'[p] = <<>>
        /\ \/ lines = <<>> /\ doing'[p] = next /\ buf'[p] = <<>>
           \/ doing'[p] = "append" /\ buf'[p] = lines /\ after'[p] = next
    BY <1>3, <2>1, <2>2 DEF TelemetryTypes
  <2>4. flights'[p] = IF next = "end" THEN <<>> ELSE flights[p]
    BY <1>3 DEF TelemetryTypes
  <2>5. ~Back(p)' /\ doing'[p] \notin {"read", "down", "release", "unlink"} /\ (Leaving(p)' => next = "end")
    BY <2>3 DEF Back, Leaving, Appending
  <2>6. Mine(p, l)' => Mine(p, l)
    BY <2>1, <2>3, NothingInEmpty DEF Mine
  <2>7. (InFlight(p, l)' => InFlight(p, l) /\ next = "recover") /\ ~BackBuf(p, l)'
    BY <2>4, <2>5 DEF InFlight, BackBuf
  <2>8. Claimed(p, l)' => Claimed(p, l)
    BY <1>3, <2>7 DEF Claimed
  <2>9. OnceAt(p, l)'
    <3>1. Once(l, buf'[p]) /\ Once(l, mem'[p])
      BY <1>a, <2>1, <2>3, NothingInEmpty DEF OnceAt
    <3> QED  BY <1>3, <1>a, <2>1, <2>4, <3>1 DEF OnceAt
  <2>10. FlightAt(p, l)'
    BY <1>a, <2>4, <2>5, <2>7 DEF FlightAt
  <2>11. /\ l \in Range(queue') => ~Mine(p, l)' /\ ~Claimed(p, l)'
         /\ ~(Mine(p, l)' /\ Claimed(p, l)')
         /\ l \in Range(queue') \/ Mine(p, l)' \/ Claimed(p, l)' => l \in Range(queue) \/ Mine(p, l) \/ Claimed(p, l)
    BY <1>3, <1>a, <2>6, <2>8 DEF OnePlace
  <2>12. ASSUME sent'[l] > 0
         PROVE  /\ sent'[l] = 1 /\ l \notin Range(queue') /\ DoneAt(p, l)'
                /\ sent[l] > 0 \/ Claimed(p, l)
    <3>1. CASE sent[l] > 0
      <4>1. sent[l] = 1 /\ l \notin Range(queue) /\ DoneAt(p, l)
        BY <1>a, <3>1
      <4>2. sent'[l] = 1
        BY <1>3, <4>1 DEF DoneAt
      <4> QED  BY <1>3, <2>5, <2>6, <2>7, <2>12, <3>1, <4>1, <4>2 DEF DoneAt
    <3>2. CASE ~(sent[l] > 0)
      <4>1. sent[l] = 0
        BY <1>a, <3>2
      <4>2. sent'[l] = 1 /\ InFlight(p, l) /\ next = "end"
        BY <1>3, <2>12, <4>1
      <4>3. Claimed(p, l)
        BY <4>2 DEF Claimed
      <4>4. l \notin Range(queue) /\ ~Mine(p, l)
        BY <1>a, <4>3 DEF OnePlace
      <4> QED  BY <1>3, <2>5, <2>6, <2>7, <2>12, <4>2, <4>3, <4>4 DEF DoneAt
    <3> QED  BY <3>1, <3>2
  <2> QED  BY <1>0, <1>3, <1>a, <2>1, <2>3, <2>5, <2>9, <2>10, <2>11, <2>12, CustodyOwnStep DEF K
<1>4. ASSUME NEW p \in Process, Flush(p) PROVE K
  BY <1>3, <1>4, <1>a DEF Flush
<1>5. ASSUME NEW p \in Process, Exit(p) PROVE K
  <2>1. /\ doing[p] = "idle" /\ PersistThen(p, "end") /\ UNCHANGED <<queue, claim>>
        /\ flights' = [flights EXCEPT ![p] = <<>>]
        /\ again' = again \cup {m \in Range(claim[p]) : sent'[m] > 0 \/ doing[p] = "release"}
        /\ ~InFlight(p, l) => sent'[l] = sent[l]
        /\ sent[l] = 0 => sent'[l] \in {0, 1}
    BY <1>5, AbandonsEffect DEF Exit
  <2> QED  BY <1>3, <2>1
<1>6. ASSUME NEW p \in Process, Die(p) PROVE K
  <2>1. /\ flights' = [flights EXCEPT ![p] = <<>>]
        /\ again' = again \cup {m \in Range(claim[p]) : sent'[m] > 0 \/ doing[p] = "release"}
        /\ ~InFlight(p, l) => sent'[l] = sent[l]
        /\ sent[l] = 0 => sent'[l] \in {0, 1}
    BY <1>6, AbandonsEffect DEF Die
  <2>2. /\ mem' = [mem EXCEPT ![p] = <<>>] /\ buf' = [buf EXCEPT ![p] = <<>>] /\ base' = [base EXCEPT ![p] = <<>>]
        /\ doing' = [doing EXCEPT ![p] = "down"] /\ after' = [after EXCEPT ![p] = "end"]
        /\ victim' = [victim EXCEPT ![p] = p]
        /\ doing[p] # "down"
        /\ UNCHANGED <<queue, claim>>
    BY <1>6 DEF Die
  <2>3. /\ \A q \in Process \ {p} : /\ mem'[q] = mem[q] /\ buf'[q] = buf[q] /\ base'[q] = base[q] /\ victim'[q] = victim[q]
                                    /\ doing'[q] = doing[q] /\ after'[q] = after[q] /\ flights'[q] = flights[q]
        /\ doing'[p] = "down" /\ mem'[p] = <<>> /\ buf'[p] = <<>> /\ base'[p] = <<>> /\ flights'[p] = <<>>
    BY <2>1, <2>2 DEF TelemetryTypes
  <2>4. ~Mine(p, l)' /\ ~InFlight(p, l)' /\ ~BackBuf(p, l)' /\ ~Leaving(p)'
    BY <2>3, NothingInEmpty DEF Mine, InFlight, BackBuf, Leaving, Appending
  <2>5. Claimed(p, l)' => Claimed(p, l)
    BY <2>1, <2>2, <2>4 DEF Claimed
  <2>6. OnceAt(p, l)' /\ FlightAt(p, l)'
    BY <1>a, <2>2, <2>3, <2>4, NothingInEmpty DEF OnceAt, FlightAt
  <2>7. /\ l \in Range(queue') => ~Mine(p, l)' /\ ~Claimed(p, l)'
        /\ ~(Mine(p, l)' /\ Claimed(p, l)')
        /\ l \in Range(queue') \/ Mine(p, l)' \/ Claimed(p, l)' => l \in Range(queue) \/ Mine(p, l) \/ Claimed(p, l)
    BY <1>a, <2>2, <2>4, <2>5 DEF OnePlace
  <2>8. ASSUME sent'[l] > 0
        PROVE  /\ sent'[l] = 1 /\ l \notin Range(queue') /\ DoneAt(p, l)'
               /\ sent[l] > 0 \/ Claimed(p, l)
    <3>1. l \notin Range(claim'[p])
      BY <2>1, <2>2, <2>8
    <3>2. CASE sent[l] > 0
      <4>1. sent[l] = 1 /\ l \notin Range(queue) /\ DoneAt(p, l)
        BY <1>a, <3>2
      <4>2. sent'[l] = 1
        BY <2>1, <4>1 DEF DoneAt
      <4> QED  BY <2>2, <2>4, <3>1, <3>2, <4>1, <4>2 DEF DoneAt
    <3>3. CASE ~(sent[l] > 0)
      <4>1. sent[l] = 0
        BY <1>a, <3>3
      <4>2. sent'[l] = 1 /\ InFlight(p, l)
        BY <2>1, <2>8, <4>1
      <4>3. Claimed(p, l)
        BY <4>2 DEF Claimed
      <4>4. l \notin Range(queue)
        BY <1>a, <4>3 DEF OnePlace
      <4> QED  BY <2>2, <2>4, <3>1, <4>2, <4>3, <4>4 DEF DoneAt
    <3> QED  BY <3>2, <3>3
  <2> QED  BY <1>0, <1>a, <2>2, <2>3, <2>6, <2>7, <2>8, CustodyOwnStep DEF K

<1>7. ASSUME NEW p \in Process, NEW i \in DOMAIN flights[p], NEW back \in Seq(Line), FlightEnds(p, i, back),
             doing[p] = "idle", Once(l, back), l \in Range(back) => Carries(flights[p][i], l) /\ sent'[l] = sent[l],
             sent'[l] = sent[l] \/ (Carries(flights[p][i], l) /\ (sent[l] = 0 => sent'[l] = 1)),
             UNCHANGED <<queue, claim, mem>>
      PROVE  K
  <2>1. /\ \A q \in Process \ {p} : flights'[q] = flights[q]
        /\ \A k \in DOMAIN flights'[p] : /\ Was(k, i) \in DOMAIN flights[p] /\ Was(k, i) # i
                                         /\ flights'[p][k] = flights[p][Was(k, i)]
        /\ \A j, k \in DOMAIN flights'[p] : Was(j, i) = Was(k, i) => j = k
    BY <1>7, FlightOver
  <2>a. /\ doing' = [doing EXCEPT ![p] = IF back = <<>> THEN "release" ELSE "append"]
        /\ buf' = IF back = <<>> THEN buf ELSE [buf EXCEPT ![p] = back]
        /\ after' = IF back = <<>> THEN after ELSE [after EXCEPT ![p] = "release"]
        /\ base' = base /\ victim' = victim
    BY <1>7, FlightIsOver, AppendThenTypes
  <2>2. buf[p] = <<>>
    BY <1>7 DEF Turns
  <2>3. /\ \A q \in Process \ {p} : buf'[q] = buf[q] /\ doing'[q] = doing[q] /\ after'[q] = after[q]
        /\ buf'[p] = back
        /\ \/ back = <<>> /\ doing'[p] = "release"
           \/ doing'[p] = "append" /\ Back(p)'
        /\ doing'[p] \notin {"unlink", "read", "down"} /\ ~Leaving(p)'
    BY <2>a, <2>2 DEF TelemetryTypes, Back, Leaving, Appending
  <2>4. l \in Range(back) => Back(p)'
    BY <2>3, NothingInEmpty
  <2>5. Mine(p, l)' => Mine(p, l)
    BY <1>7, <2>3, <2>4 DEF Mine
  <2>6. Carries(flights[p][i], l) => InFlight(p, l) /\ Claimed(p, l)
    BY DEF InFlight, Claimed
  <2>7. InFlight(p, l)' => InFlight(p, l) /\ ~Carries(flights[p][i], l)
    <3> SUFFICES ASSUME NEW k \in DOMAIN flights'[p], Carries(flights'[p][k], l)
                 PROVE  InFlight(p, l) /\ ~Carries(flights[p][i], l)
      BY DEF InFlight
    <3>1. Was(k, i) \in DOMAIN flights[p] /\ Was(k, i) # i /\ Carries(flights[p][Was(k, i)], l)
      BY <2>1
    <3> QED  BY <1>a, <3>1 DEF FlightAt, InFlight
  <2>8. BackBuf(p, l)' => Carries(flights[p][i], l)
    BY <1>7, <2>3 DEF BackBuf
  <2>9. Claimed(p, l)' => Claimed(p, l)
    BY <1>7, <2>6, <2>7, <2>8 DEF Claimed
  <2>10. OnceAt(p, l)'
    <3>1. OnceAt(p, l)
      BY <1>a
    <3> QED  BY <1>7, <2>1, <2>a, <2>3, <3>1 DEF OnceAt
  <2>11. FlightAt(p, l)'
    <3>1. ASSUME NEW j \in DOMAIN flights'[p], NEW k \in DOMAIN flights'[p],
                 Carries(flights'[p][j], l), Carries(flights'[p][k], l)
          PROVE  j = k
      <4>1. Carries(flights[p][Was(j, i)], l) /\ Carries(flights[p][Was(k, i)], l)
        BY <2>1, <3>1
      <4>2. Was(j, i) = Was(k, i)
        BY <1>a, <2>1, <4>1 DEF FlightAt
      <4> QED  BY <2>1, <4>2
    <3> QED  BY <2>3, <2>7, <2>8, <3>1 DEF FlightAt
  <2>12. /\ l \in Range(queue') => ~Mine(p, l)' /\ ~Claimed(p, l)'
         /\ ~(Mine(p, l)' /\ Claimed(p, l)')
         /\ l \in Range(queue') \/ Mine(p, l)' \/ Claimed(p, l)' => l \in Range(queue) \/ Mine(p, l) \/ Claimed(p, l)
    BY <1>7, <1>a, <2>5, <2>9 DEF OnePlace
  <2>13. ASSUME sent'[l] > 0
         PROVE  /\ sent'[l] = 1 /\ l \notin Range(queue') /\ DoneAt(p, l)'
                /\ sent[l] > 0 \/ Claimed(p, l)
    <3>1. CASE sent[l] > 0
      <4>1. sent[l] = 1 /\ l \notin Range(queue) /\ DoneAt(p, l)
        BY <1>a, <3>1
      <4>2. ~Carries(flights[p][i], l) /\ ~Mine(p, l)
        BY <2>6, <4>1 DEF DoneAt
      <4>3. ~Mine(p, l)' /\ ~InFlight(p, l)' /\ ~BackBuf(p, l)'
        BY <2>5, <2>7, <2>8, <4>1, <4>2 DEF DoneAt
      <4> QED  BY <1>7, <2>3, <3>1, <4>1, <4>2, <4>3 DEF DoneAt
    <3>2. CASE ~(sent[l] > 0)
      <4>1. sent[l] = 0
        BY <1>a, <3>2
      <4>2. sent'[l] = 1 /\ Carries(flights[p][i], l) /\ l \notin Range(back)
        BY <1>7, <2>13, <4>1
      <4>3. Claimed(p, l) /\ l \notin Range(queue) /\ ~Mine(p, l)
        BY <1>a, <2>6, <4>2 DEF OnePlace
      <4>4. ~Mine(p, l)' /\ ~InFlight(p, l)' /\ ~BackBuf(p, l)'
        BY <2>3, <2>5, <2>7, <4>2, <4>3 DEF BackBuf
      <4> QED  BY <1>7, <2>3, <4>2, <4>3, <4>4 DEF DoneAt
    <3> QED  BY <3>1, <3>2
  <2> QED  BY <1>0, <1>7, <1>a, <2>1, <2>a, <2>3, <2>10, <2>11, <2>12, <2>13, CustodyOwnStep DEF K
<1>8. ASSUME NEW p \in Process, FetchAnswered(p) PROVE K
  <2>1. PICK i \in DOMAIN flights[p] :
          /\ Received(Range(First(flights[p][i])))
          /\ IF Rest(flights[p][i]) = <<>> THEN FlightEnds(p, i, flights[p][i].keep)
             ELSE flights' = [flights EXCEPT ![p][i].send = Rest(flights[p][i])] /\ UNCHANGED turn
    BY <1>8 DEF FetchAnswered
  <2>2. doing[p] = "idle" /\ UNCHANGED <<queue, claim, mem>>
    BY <1>8 DEF FetchAnswered
  <2>f. flights[p][i] \in Flight
    BY DEF TelemetryTypes
  <2>o. /\ Once(l, flights[p][i].send) /\ Once(l, flights[p][i].keep)
        /\ ~(l \in Range(flights[p][i].send) /\ l \in Range(flights[p][i].keep))
    BY <1>a DEF OnceAt
  <2>3. /\ Range(First(flights[p][i])) \cup Range(Rest(flights[p][i])) = Range(flights[p][i].send)
        /\ flights[p][i].keep \in Seq(Line)
        /\ Once(l, Rest(flights[p][i]))
        /\ ~(l \in Range(First(flights[p][i])) /\ l \in Range(Rest(flights[p][i])))
    BY <2>f, <2>o, FlightParts DEF Flight
  <2>4. /\ l \notin Range(First(flights[p][i])) => sent'[l] = sent[l]
        /\ l \in Range(First(flights[p][i])) /\ sent[l] = 0 => sent'[l] = 1
    BY <2>1, ReceivedTypes
  <2>5. CASE Rest(flights[p][i]) = <<>>
    <3>1. l \in Range(flights[p][i].keep) => Carries(flights[p][i], l) /\ sent'[l] = sent[l]
      BY <2>3, <2>4, <2>o DEF Carries
    <3>2. sent'[l] = sent[l] \/ (Carries(flights[p][i], l) /\ (sent[l] = 0 => sent'[l] = 1))
      BY <2>3, <2>4 DEF Carries
    <3> QED  BY <1>7, <2>1, <2>2, <2>3, <2>5, <2>o, <3>1, <3>2
  <2>6. CASE Rest(flights[p][i]) # <<>>
    <3>1. flights' = [flights EXCEPT ![p][i].send = Rest(flights[p][i])] /\ UNCHANGED <<doing, after, buf, base, victim>>
      BY <2>1, <2>6
    <3>2. /\ \A q \in Process \ {p} : flights'[q] = flights[q]
          /\ DOMAIN flights'[p] = DOMAIN flights[p]
          /\ \A k \in DOMAIN flights[p] : k # i => flights'[p][k] = flights[p][k]
          /\ flights'[p][i].send = Rest(flights[p][i]) /\ flights'[p][i].keep = flights[p][i].keep
      BY <3>1, NextChunk
    <3>3. \A k \in DOMAIN flights[p] : Carries(flights'[p][k], l) => Carries(flights[p][k], l)
      BY <2>3, <3>2 DEF Carries
    <3>4. /\ Mine(p, l)' <=> Mine(p, l)
          /\ BackBuf(p, l)' <=> BackBuf(p, l)
          /\ InFlight(p, l)' => InFlight(p, l)
          /\ ~Leaving(p)'
      BY <2>2, <3>1, <3>2, <3>3 DEF Mine, BackBuf, InFlight, Back, Leaving, Appending
    <3>5. Claimed(p, l)' => Claimed(p, l)
      BY <2>2, <3>1, <3>4 DEF Claimed
    <3>6. OnceAt(p, l)'
      <4>1. ASSUME NEW k \in DOMAIN flights'[p]
            PROVE  /\ Once(l, flights'[p][k].send) /\ Once(l, flights'[p][k].keep)
                   /\ ~(l \in Range(flights'[p][k].send) /\ l \in Range(flights'[p][k].keep))
        <5>1. CASE k = i
          BY <2>3, <2>o, <3>2, <5>1
        <5>2. CASE k # i
          BY <1>a, <3>2, <5>2 DEF OnceAt
        <5> QED  BY <5>1, <5>2
      <4> QED  BY <1>a, <2>2, <3>1, <4>1 DEF OnceAt
    <3>7. FlightAt(p, l)'
      <4>1. \A j, k \in DOMAIN flights'[p] : Carries(flights'[p][j], l) /\ Carries(flights'[p][k], l) => j = k
        BY <1>a, <3>2, <3>3 DEF FlightAt
      <4> QED  BY <1>a, <2>2, <3>1, <3>4, <4>1 DEF FlightAt
    <3>8. /\ l \in Range(queue') => ~Mine(p, l)' /\ ~Claimed(p, l)'
          /\ ~(Mine(p, l)' /\ Claimed(p, l)')
          /\ l \in Range(queue') \/ Mine(p, l)' \/ Claimed(p, l)' => l \in Range(queue) \/ Mine(p, l) \/ Claimed(p, l)
      BY <1>a, <2>2, <3>4, <3>5 DEF OnePlace
    <3>9. ASSUME sent'[l] > 0
          PROVE  /\ sent'[l] = 1 /\ l \notin Range(queue') /\ DoneAt(p, l)'
                 /\ sent[l] > 0 \/ Claimed(p, l)
      <4>1. CASE sent[l] > 0
        <5>1. sent[l] = 1 /\ l \notin Range(queue) /\ DoneAt(p, l)
          BY <1>a, <4>1
        <5>2. l \notin Range(First(flights[p][i]))
          BY <2>3, <5>1 DEF DoneAt, InFlight, Carries
        <5> QED  BY <2>2, <2>4, <3>1, <3>4, <4>1, <5>1, <5>2 DEF DoneAt
      <4>2. CASE ~(sent[l] > 0)
        <5>1. sent[l] = 0
          BY <1>a, <4>2
        <5>2. sent'[l] = 1 /\ l \in Range(First(flights[p][i]))
          BY <2>4, <3>9, <5>1
        <5>3. l \in Range(flights[p][i].send) /\ l \notin Range(flights[p][i].keep) /\ l \notin Range(Rest(flights[p][i]))
          BY <2>3, <2>o, <5>2
        <5>4. InFlight(p, l) /\ Claimed(p, l)
          BY <5>3 DEF InFlight, Carries, Claimed
        <5>5. ~InFlight(p, l)'
          <6> SUFFICES ASSUME NEW k \in DOMAIN flights'[p], Carries(flights'[p][k], l) PROVE FALSE
            BY DEF InFlight
          <6>1. k = i
            BY <1>a, <3>2, <3>3, <5>3 DEF FlightAt, Carries
          <6> QED  BY <3>2, <5>3, <6>1 DEF Carries
        <5>6. l \notin Range(queue) /\ ~Mine(p, l) /\ ~BackBuf(p, l)
          BY <1>a, <5>4 DEF OnePlace, FlightAt
        <5> QED  BY <2>2, <3>1, <3>4, <5>2, <5>4, <5>5, <5>6 DEF DoneAt
      <4> QED  BY <4>1, <4>2
    <3> QED  BY <1>0, <1>a, <2>2, <3>1, <3>2, <3>6, <3>7, <3>8, <3>9, CustodyOwnStep DEF K
  <2> QED  BY <2>5, <2>6
<1>9. ASSUME NEW p \in Process, FetchFails(p) PROVE K
  <2>i. PICK i \in DOMAIN flights[p] : \E arrived \in {{}, Range(First(flights[p][i]))} :
          /\ Received(arrived) /\ again' = again \cup arrived
          /\ FlightEnds(p, i, flights[p][i].send \o flights[p][i].keep)
    BY <1>9 DEF FetchFails
  <2>1. PICK arrived \in {{}, Range(First(flights[p][i]))} :
          /\ Received(arrived) /\ again' = again \cup arrived
          /\ FlightEnds(p, i, flights[p][i].send \o flights[p][i].keep)
    BY <2>i
  <2>2. doing[p] = "idle" /\ UNCHANGED <<queue, claim, mem>>
    BY <1>9 DEF FetchFails
  <2>f. flights[p][i] \in Flight
    BY DEF TelemetryTypes
  <2> DEFINE back == flights[p][i].send \o flights[p][i].keep
  <2>o. /\ Once(l, flights[p][i].send) /\ Once(l, flights[p][i].keep)
        /\ ~(l \in Range(flights[p][i].send) /\ l \in Range(flights[p][i].keep))
    BY <1>a DEF OnceAt
  <2>3. back \in Seq(Line) /\ Once(l, back) /\ (l \in Range(back) => Carries(flights[p][i], l))
    BY <2>f, <2>o, ConcatLines DEF Flight, Carries
  <2>4. sent'[l] = sent[l]
    BY <2>1, ReceivedTypes
  <2>5. FlightEnds(p, i, back)
    BY <2>1
  <2> HIDE DEF back
  <2> QED  BY <1>7, <2>2, <2>3, <2>4, <2>5
<1>10. ASSUME NEW p \in Process, AppendRead(p) PROVE K
  <2>1. /\ doing[p] = "append" /\ doing' = [doing EXCEPT ![p] = "write"] /\ base' = [base EXCEPT ![p] = queue]
        /\ UNCHANGED <<queue, claim, mem, flights, after, buf, victim, sent>>
    BY <1>10 DEF AppendRead
  <2>2. doing'[p] = "write" /\ base'[p] = queue /\ \A q \in Process \ {p} : doing'[q] = doing[q] /\ base'[q] = base[q]
    BY <2>1 DEF TelemetryTypes
  <2>3. /\ Mine(p, l)' <=> Mine(p, l)
        /\ InFlight(p, l)' <=> InFlight(p, l)
        /\ BackBuf(p, l)' <=> BackBuf(p, l)
        /\ Leaving(p)' <=> Leaving(p)
    BY <2>1, <2>2 DEF Mine, InFlight, BackBuf, Back, Leaving, Appending
  <2>4. Claimed(p, l)' <=> Claimed(p, l)
    BY <2>1, <2>2, <2>3 DEF Claimed
  <2>5. OnceAt(p, l)' /\ FlightAt(p, l)'
    BY <1>a, <2>1, <2>2, <2>3 DEF OnceAt, FlightAt
  <2>6. /\ l \in Range(queue') => ~Mine(p, l)' /\ ~Claimed(p, l)'
        /\ ~(Mine(p, l)' /\ Claimed(p, l)')
        /\ l \in Range(queue') \/ Mine(p, l)' \/ Claimed(p, l)' => l \in Range(queue) \/ Mine(p, l) \/ Claimed(p, l)
    BY <1>a, <2>1, <2>3, <2>4 DEF OnePlace
  <2>7. sent'[l] > 0 => /\ sent'[l] = 1 /\ l \notin Range(queue') /\ DoneAt(p, l)'
                        /\ sent[l] > 0 \/ Claimed(p, l)
    BY <1>a, <2>1, <2>2, <2>3 DEF DoneAt
  <2> QED  BY <1>0, <1>a, <2>1, <2>2, <2>5, <2>6, <2>7, CustodyOwnStep DEF K
<1>11. ASSUME NEW p \in Process, AppendWrite(p) PROVE K
  <2>1. /\ doing[p] = "write" /\ doing' = [doing EXCEPT ![p] = after[p]]
        /\ after' = [after EXCEPT ![p] = "end"] /\ buf' = [buf EXCEPT ![p] = <<>>] /\ base' = [base EXCEPT ![p] = <<>>]
        /\ queue' = Capped(base[p] \o buf[p])
        /\ again' = again \cup (Range(base[p]) \ Range(queue))
        /\ UNCHANGED <<claim, mem, flights, victim, sent>>
    BY <1>11 DEF AppendWrite
  <2>2. /\ doing'[p] = after[p] /\ after[p] \in {"end", "recover", "release"} /\ buf'[p] = <<>> /\ base'[p] = <<>>
        /\ \A q \in Process \ {p} : doing'[q] = doing[q] /\ after'[q] = after[q] /\ buf'[q] = buf[q] /\ base'[q] = base[q]
    BY <2>1 DEF TelemetryTypes
  <2>3. l \in Range(base[p]) => l \in Range(queue)
    BY <2>1
  <2>4. (Back(p) <=> after[p] = "release") /\ (Leaving(p) <=> after[p] = "end") /\ ~Back(p)' /\ (Leaving(p)' <=> after[p] = "end")
    BY <2>1, <2>2 DEF Back, Leaving, Appending
  <2>5. ~Back(p) => mem[p] = <<>>
    BY <2>1 DEF Turns
  <2>6. l \in Range(buf[p]) => IF Back(p) THEN BackBuf(p, l) /\ Claimed(p, l) ELSE Mine(p, l)
    BY <2>1 DEF Mine, Claimed, BackBuf
  <2>7. l \in Range(buf[p]) => l \notin Range(queue)
    BY <1>a, <2>6 DEF OnePlace
  <2>8. Once(l, queue') /\ (l \in Range(queue') => l \in Range(base[p]) \/ l \in Range(buf[p]))
    <3>1. base[p] \in Seq(Line) /\ buf[p] \in Seq(Line) /\ Once(l, base[p]) /\ Once(l, buf[p])
      BY <1>a DEF TelemetryTypes, OnceAt
    <3> DEFINE all == base[p] \o buf[p]
    <3>2. all \in Seq(Line) /\ Range(all) = Range(base[p]) \cup Range(buf[p]) /\ Once(l, all)
      BY <2>3, <2>7, <3>1, ConcatLines
    <3>3. queue' = Capped(all)
      BY <2>1
    <3> HIDE DEF all
    <3> QED  BY <3>2, <3>3, CappedLines
  <2>9. /\ Mine(p, l)' => l \in Range(mem[p]) /\ Mine(p, l) /\ Back(p)
        /\ InFlight(p, l)' <=> InFlight(p, l)
        /\ ~BackBuf(p, l)'
    BY <2>1, <2>2, <2>4, <2>5, NothingInEmpty DEF Mine, InFlight, BackBuf
  <2>10. Claimed(p, l)' => Claimed(p, l) /\ (InFlight(p, l) \/ ~Back(p))
    BY <2>1, <2>2, <2>4, <2>9 DEF Claimed
  <2>11. OnceAt(p, l)' /\ FlightAt(p, l)'
    BY <1>a, <2>1, <2>2, <2>9, NothingInEmpty DEF OnceAt, FlightAt
  <2>12. l \in Range(queue') => ~Mine(p, l)' /\ ~Claimed(p, l)'
    <3>1. CASE l \in Range(base[p])
      BY <1>a, <2>3, <2>9, <2>10, <3>1 DEF OnePlace
    <3>2. CASE l \in Range(buf[p])
      BY <1>a, <2>6, <2>9, <2>10, <3>2 DEF OnePlace, FlightAt
    <3> QED  BY <2>8, <3>1, <3>2
  <2>13. /\ ~(Mine(p, l)' /\ Claimed(p, l)')
         /\ l \in Range(queue') \/ Mine(p, l)' \/ Claimed(p, l)' => l \in Range(queue) \/ Mine(p, l) \/ Claimed(p, l)
    BY <1>a, <2>3, <2>6, <2>8, <2>9, <2>10 DEF OnePlace
  <2>14. ASSUME sent'[l] > 0
         PROVE  /\ sent'[l] = 1 /\ l \notin Range(queue') /\ DoneAt(p, l)'
                /\ sent[l] > 0 \/ Claimed(p, l)
    <3>1. sent[l] = 1 /\ sent[l] > 0 /\ l \notin Range(queue) /\ DoneAt(p, l)
      BY <1>a, <2>1, <2>14
    <3>2. l \notin Range(queue')
      BY <2>3, <2>6, <2>8, <3>1 DEF DoneAt
    <3>3. DoneAt(p, l)'
      BY <2>1, <2>2, <2>4, <2>9, <3>1 DEF DoneAt
    <3> QED  BY <2>1, <3>1, <3>2, <3>3
  <2> QED  BY <1>0, <1>a, <2>1, <2>2, <2>8, <2>11, <2>12, <2>13, <2>14, CustodyOwnStep DEF K

<1>12. ASSUME NEW p \in Process, StaleUnlink(p) PROVE K
  <2>v. PICK v \in Process : v = victim[p]
    BY DEF TelemetryTypes
  <2>1. /\ doing[p] = "unlink" /\ doing' = [doing EXCEPT ![p] = "putBack"]
        /\ claim' = [claim EXCEPT ![v] = <<>>]
        /\ UNCHANGED <<queue, mem, flights, after, buf, base, victim, sent>>
    BY <1>12, <2>v DEF StaleUnlink
  <2>2. /\ doing'[p] = "putBack" /\ \A q \in Process \ {p} : doing'[q] = doing[q]
        /\ \A q \in Process : claim'[q] = claim[q] \/ (q = v /\ claim'[q] = <<>>)
        /\ claim'[v] = <<>>
    BY <2>1, <2>v DEF TelemetryTypes
  <2>3. /\ Range(claim'[p]) \subseteq Range(claim[p]) /\ (Once(l, claim[p]) => Once(l, claim'[p]))
    BY <2>2, NothingInEmpty
  <2>4. ~Back(p) /\ ~Back(p)' /\ ~Leaving(p)'
    BY <2>1, <2>2 DEF Back, Leaving, Appending
  <2>5. mem[p] = <<>>
    BY <2>1, <2>4 DEF Turns
  <2>6. l \in Range(buf[p]) => v # p /\ doing[v] = "down" /\ l \in Range(claim[v])
    BY <1>a, <2>1, <2>v DEF Recovered
  <2>7. l \in Range(buf[p]) => v # p /\ Claimed(v, l) /\ ~Claimed(v, l)'
    <3> SUFFICES ASSUME l \in Range(buf[p]) PROVE Claimed(v, l) /\ ~Claimed(v, l)'
      BY <2>6
    <3>1. v # p /\ doing[v] = "down" /\ l \in Range(claim[v])
      BY <2>6
    <3>2. flights[v] = <<>>
      BY <2>v, <3>1 DEF Turns
    <3>3. doing'[v] = "down" /\ flights'[v] = <<>> /\ claim'[v] = <<>>
      BY <2>1, <2>2, <2>v, <3>1, <3>2
    <3> QED  BY <3>1, <3>3, NothingInEmpty DEF Claimed, InFlight, BackBuf, Back, Appending
  <2>8. Mine(p, l)' => l \in Range(buf[p])
    BY <2>1, <2>5, NothingInEmpty DEF Mine
  <2>9. (InFlight(p, l)' <=> InFlight(p, l)) /\ ~BackBuf(p, l)'
    BY <2>1, <2>4 DEF InFlight, BackBuf
  <2>10. Claimed(p, l)' => Claimed(p, l)
    BY <2>1, <2>3, <2>9 DEF Claimed
  <2>11. OnceAt(p, l)' /\ FlightAt(p, l)'
    BY <1>a, <2>1, <2>2, <2>3, <2>9 DEF OnceAt, FlightAt
  <2>12. /\ l \in Range(queue') => ~Mine(p, l)' /\ ~Claimed(p, l)'
         /\ ~(Mine(p, l)' /\ Claimed(p, l)')
         /\ l \in Range(queue') \/ Mine(p, l)' \/ Claimed(p, l)' =>
              \/ l \in Range(queue) \/ Mine(p, l) \/ Claimed(p, l)
              \/ \E q \in Process \ {p} : Claimed(q, l) /\ ~Claimed(q, l)'
    BY <1>a, <2>1, <2>v, <2>7, <2>8, <2>10 DEF OnePlace
  <2>13. sent'[l] > 0 => /\ sent'[l] = 1 /\ l \notin Range(queue') /\ DoneAt(p, l)'
                         /\ sent[l] > 0 \/ Claimed(p, l)
    <3> SUFFICES ASSUME sent[l] > 0 PROVE sent[l] = 1 /\ l \notin Range(queue) /\ DoneAt(p, l)'
      BY <2>1
    <3>1. sent[l] = 1 /\ l \notin Range(queue) /\ DoneAt(p, l) /\ DoneAt(v, l)
      BY <1>a, <2>v
    <3>2. l \notin Range(buf[p])
      BY <2>6, <3>1 DEF DoneAt
    <3> QED  BY <2>2, <2>4, <2>8, <2>9, <3>1, <3>2 DEF DoneAt
  <2> QED  BY <1>0, <1>a, <2>1, <2>2, <2>v, <2>11, <2>12, <2>13, CustodyOwnStep DEF K
<1>13. ASSUME NEW p \in Process, StalePutBack(p) PROVE K
  <2>1. /\ doing[p] = "putBack" /\ doing' = [doing EXCEPT ![p] = "recover"]
        /\ buf' = [buf EXCEPT ![p] = <<>>] /\ queue' = queue \o buf[p] /\ victim' = [victim EXCEPT ![p] = p]
        /\ UNCHANGED <<claim, mem, flights, after, base, sent>>
    BY <1>13 DEF StalePutBack
  <2>2. /\ doing'[p] = "recover" /\ buf'[p] = <<>>
        /\ \A q \in Process \ {p} : doing'[q] = doing[q] /\ buf'[q] = buf[q] /\ victim'[q] = victim[q]
    BY <2>1 DEF TelemetryTypes
  <2>3. ~Back(p) /\ ~Back(p)' /\ ~Leaving(p)'
    BY <2>1, <2>2 DEF Back, Leaving, Appending
  <2>4. mem[p] = <<>>
    BY <2>1, <2>3 DEF Turns
  <2>5. l \in Range(buf[p]) => Mine(p, l) /\ l \notin Range(queue)
    BY <1>a, <2>1, <2>3 DEF Mine, OnePlace
  <2>6. Once(l, queue') /\ Range(queue') = Range(queue) \cup Range(buf[p])
    <3>1. queue \in Seq(Line) /\ buf[p] \in Seq(Line) /\ Once(l, queue) /\ Once(l, buf[p])
      BY <1>a DEF TelemetryTypes, OnceAt
    <3> QED  BY <2>1, <2>5, <3>1, ConcatLines
  <2>7. ~Mine(p, l)' /\ ~BackBuf(p, l)' /\ (InFlight(p, l)' <=> InFlight(p, l))
    BY <2>1, <2>2, <2>3, <2>4, NothingInEmpty DEF Mine, BackBuf, InFlight
  <2>8. Claimed(p, l)' => Claimed(p, l)
    BY <2>1, <2>7 DEF Claimed
  <2>9. OnceAt(p, l)' /\ FlightAt(p, l)'
    BY <1>a, <2>1, <2>2, <2>7, NothingInEmpty DEF OnceAt, FlightAt
  <2>10. /\ l \in Range(queue') => ~Mine(p, l)' /\ ~Claimed(p, l)'
         /\ ~(Mine(p, l)' /\ Claimed(p, l)')
         /\ l \in Range(queue') \/ Mine(p, l)' \/ Claimed(p, l)' => l \in Range(queue) \/ Mine(p, l) \/ Claimed(p, l)
    BY <1>a, <2>5, <2>6, <2>7, <2>8 DEF OnePlace
  <2>11. sent'[l] > 0 => /\ sent'[l] = 1 /\ l \notin Range(queue') /\ DoneAt(p, l)'
                         /\ sent[l] > 0 \/ Claimed(p, l)
    BY <1>a, <2>1, <2>2, <2>3, <2>5, <2>6, <2>7 DEF DoneAt
  <2> QED  BY <1>0, <1>a, <2>1, <2>2, <2>6, <2>9, <2>10, <2>11, CustodyOwnStep DEF K
<1>14. ASSUME NEW p \in Process, NEW v \in Process, StaleRead(p, v) PROVE K
  <2>1. /\ doing[p] = "recover" /\ doing' = [doing EXCEPT ![p] = "unlink"]
        /\ buf' = [buf EXCEPT ![p] = claim[v]] /\ victim' = [victim EXCEPT ![p] = v]
        /\ UNCHANGED <<queue, claim, mem, flights, after, base, sent>>
    BY <1>14 DEF StaleRead
  <2>2. /\ doing'[p] = "unlink" /\ buf'[p] = claim[v] /\ victim'[p] = v
        /\ \A q \in Process \ {p} : doing'[q] = doing[q] /\ buf'[q] = buf[q] /\ victim'[q] = victim[q]
    BY <2>1 DEF TelemetryTypes
  <2>3. ~Back(p) /\ ~Back(p)' /\ ~Leaving(p)'
    BY <2>1, <2>2 DEF Back, Leaving, Appending
  <2>4. mem[p] = <<>>
    BY <2>1, <2>3 DEF Turns
  <2>5. l \in Range(claim[v]) => doing[v] = "down" /\ \A o \in Process : ~(doing[o] = "unlink" /\ victim[o] = v)
    BY <1>14 DEF StaleRead
  <2>6. /\ l \in Range(buf'[p]) => doing[victim'[p]] = "down" /\ l \in Range(claim'[victim'[p]]) /\ victim'[p] # p
        /\ \A o \in Process \ {p} : doing[o] = "unlink" /\ victim[o] = victim'[p] =>
              l \notin Range(buf[o]) /\ l \notin Range(buf'[p])
    BY <1>a, <2>1, <2>2, <2>5 DEF Recovered
  <2>7. ~Mine(p, l)' /\ ~BackBuf(p, l)' /\ (InFlight(p, l)' <=> InFlight(p, l))
    BY <2>1, <2>2, <2>3, <2>4, NothingInEmpty DEF Mine, BackBuf, InFlight
  <2>8. Claimed(p, l)' => Claimed(p, l)
    BY <2>1, <2>7 DEF Claimed
  <2>9. OnceAt(p, l)' /\ FlightAt(p, l)'
    <3>1. Once(l, claim[v])
      BY <1>a DEF OnceAt
    <3> QED  BY <1>a, <2>1, <2>2, <2>7, <3>1 DEF OnceAt, FlightAt
  <2>10. /\ l \in Range(queue') => ~Mine(p, l)' /\ ~Claimed(p, l)'
         /\ ~(Mine(p, l)' /\ Claimed(p, l)')
         /\ l \in Range(queue') \/ Mine(p, l)' \/ Claimed(p, l)' => l \in Range(queue) \/ Mine(p, l) \/ Claimed(p, l)
    BY <1>a, <2>1, <2>7, <2>8 DEF OnePlace
  <2>11. sent'[l] > 0 => /\ sent'[l] = 1 /\ l \notin Range(queue') /\ DoneAt(p, l)'
                         /\ sent[l] > 0 \/ Claimed(p, l)
    BY <1>a, <2>1, <2>2, <2>3, <2>7 DEF DoneAt
  <2> QED  BY <1>0, <1>a, <2>1, <2>2, <2>6, <2>9, <2>10, <2>11, CustodyOwnStep DEF K
<1>15. ASSUME NEW p \in Process, ClaimQueue(p) PROVE K
  <2>1. doing[p] = "recover" /\ UNCHANGED <<mem, flights, after, buf, base, victim, sent>>
    BY <1>15 DEF ClaimQueue
  <2>2. \/ doing' = [doing EXCEPT ![p] = "idle"] /\ UNCHANGED <<queue, claim>>
        \/ doing' = [doing EXCEPT ![p] = "read"] /\ claim' = [claim EXCEPT ![p] = queue] /\ queue' = <<>>
    BY <1>15 DEF ClaimQueue, Taken
  <2>3. /\ doing'[p] \in {"idle", "read"}
        /\ \A q \in Process \ {p} : doing'[q] = doing[q] /\ claim'[q] = claim[q]
        /\ \/ doing'[p] = "idle" /\ queue' = queue /\ claim'[p] = claim[p]
           \/ queue' = <<>> /\ claim'[p] = queue
    BY <2>2 DEF TelemetryTypes
  <2>4. ~Back(p) /\ ~Back(p)' /\ ~Leaving(p)' /\ buf[p] = <<>>
    BY <2>1, <2>3 DEF Back, Leaving, Appending, Turns
  <2>5. (Mine(p, l)' <=> Mine(p, l)) /\ ~BackBuf(p, l)' /\ (InFlight(p, l)' <=> InFlight(p, l))
    BY <2>1, <2>4, NothingInEmpty DEF Mine, BackBuf, InFlight
  <2>6. InFlight(p, l) => Claimed(p, l) /\ l \notin Range(queue)
    BY <1>a DEF Claimed, OnePlace
  <2>7. Claimed(p, l)' => Claimed(p, l) \/ (l \in Range(queue) /\ l \notin Range(queue'))
    BY <2>1, <2>3, <2>5, NothingInEmpty DEF Claimed
  <2>8. OnceAt(p, l)' /\ Once(l, queue') /\ FlightAt(p, l)'
    <3>1. Once(l, queue') /\ Once(l, claim'[p]) /\ OnceAt(p, l)
      BY <1>a, <2>3, NothingInEmpty DEF OnceAt
    <3>2. OnceAt(p, l)'
      BY <2>1, <3>1 DEF OnceAt
    <3>3. FlightAt(p, l)'
      BY <1>a, <2>1, <2>3, <2>5, <2>6 DEF FlightAt
    <3> QED  BY <3>1, <3>2, <3>3
  <2>9. /\ l \in Range(queue') => l \in Range(queue) /\ ~Mine(p, l)' /\ ~Claimed(p, l)'
        /\ ~(Mine(p, l)' /\ Claimed(p, l)')
        /\ l \in Range(queue') \/ Mine(p, l)' \/ Claimed(p, l)' => l \in Range(queue) \/ Mine(p, l) \/ Claimed(p, l)
    <3>1. l \in Range(queue') => l \in Range(queue)
      BY <2>3, NothingInEmpty
    <3> QED  BY <1>a, <2>5, <2>7, <3>1 DEF OnePlace
  <2>10. sent'[l] > 0 => /\ sent'[l] = 1 /\ l \notin Range(queue') /\ DoneAt(p, l)'
                         /\ sent[l] > 0 \/ Claimed(p, l)
    <3> SUFFICES ASSUME sent[l] > 0 PROVE sent[l] = 1 /\ l \notin Range(queue') /\ DoneAt(p, l)'
      BY <2>1
    <3>1. sent[l] = 1 /\ l \notin Range(queue) /\ DoneAt(p, l)
      BY <1>a
    <3>2. l \in Range(claim'[p]) => doing'[p] = "idle"
      BY <2>3, <3>1
    <3> QED  BY <2>4, <2>5, <2>9, <3>1, <3>2 DEF DoneAt
  <2> QED  BY <1>0, <1>a, <2>1, <2>3, <2>8, <2>9, <2>10, CustodyOwnStep DEF K
<1>16. ASSUME NEW p \in Process, ReadClaim(p) PROVE K
  <2> DEFINE send == Selected(claim[p], Sendable)
             keep == Kept(claim[p])
             f == [send |-> send, keep |-> keep]
  <2>1. /\ send \in Seq(Line) /\ keep \in Seq(Line) /\ Range(send) \cup Range(keep) = Range(claim[p])
        /\ Range(send) \cap Range(keep) = {}
        /\ Once(l, claim[p]) => Once(l, send) /\ Once(l, keep)
    BY ClaimParts
  <2>2. /\ doing[p] = "read"
        /\ UNCHANGED <<queue, claim, mem, sent, base, victim>>
        /\ \/ flights' = flights /\ AppendThen(p, keep, "release")
           \/ /\ f \in Flight
              /\ flights' = [flights EXCEPT ![p] = Append(@, f)]
              /\ doing' = [doing EXCEPT ![p] = "idle"] /\ UNCHANGED <<buf, after>>
    BY <1>16, ReadClaimEffect
  <2>3. f.send = send /\ f.keep = keep
    OBVIOUS
  <2> HIDE DEF send, keep, f
  <2>4. ~Back(p) /\ ~Leaving(p) /\ buf[p] = <<>> /\ mem[p] = <<>>
    BY <2>2 DEF Back, Leaving, Appending, Turns
  <2>5. l \in Range(claim[p]) => Claimed(p, l) /\ ~InFlight(p, l)
    BY <1>a, <2>2 DEF Claimed, FlightAt
  <2>6. Once(l, send) /\ Once(l, keep)
    BY <1>a, <2>1 DEF OnceAt
  <2>7. sent[l] > 0 => sent[l] = 1 /\ l \notin Range(queue) /\ l \notin Range(claim[p]) /\ ~InFlight(p, l)
    BY <1>a, <2>2 DEF DoneAt
  <2>8. CASE flights' = flights /\ AppendThen(p, keep, "release")
    <3>a. /\ doing' = [doing EXCEPT ![p] = IF keep = <<>> THEN "release" ELSE "append"]
          /\ buf' = IF keep = <<>> THEN buf ELSE [buf EXCEPT ![p] = keep]
          /\ after' = IF keep = <<>> THEN after ELSE [after EXCEPT ![p] = "release"]
      BY <2>1, <2>8, AppendThenTypes
    <3>1. /\ \A q \in Process \ {p} : buf'[q] = buf[q] /\ doing'[q] = doing[q] /\ after'[q] = after[q]
          /\ buf'[p] = keep /\ doing'[p] \in {"append", "release"} /\ ~Leaving(p)'
          /\ keep # <<>> => Back(p)'
      BY <2>4, <3>a DEF TelemetryTypes, Back, Leaving, Appending
    <3>2. ~Mine(p, l)' /\ (InFlight(p, l)' <=> InFlight(p, l)) /\ (BackBuf(p, l)' => l \in Range(claim[p]))
      BY <2>1, <2>2, <2>4, <2>8, <3>1, NothingInEmpty DEF Mine, InFlight, BackBuf
    <3>3. Claimed(p, l)' => Claimed(p, l)
      BY <2>2, <2>5, <3>2 DEF Claimed
    <3>4. OnceAt(p, l)' /\ FlightAt(p, l)'
      BY <1>a, <2>2, <2>5, <2>6, <2>8, <3>1, <3>2 DEF OnceAt, FlightAt
    <3>5. /\ l \in Range(queue') => ~Mine(p, l)' /\ ~Claimed(p, l)'
          /\ ~(Mine(p, l)' /\ Claimed(p, l)')
          /\ l \in Range(queue') \/ Mine(p, l)' \/ Claimed(p, l)' => l \in Range(queue) \/ Mine(p, l) \/ Claimed(p, l)
      BY <1>a, <2>2, <3>2, <3>3 DEF OnePlace
    <3>6. sent'[l] > 0 => /\ sent'[l] = 1 /\ l \notin Range(queue') /\ DoneAt(p, l)'
                          /\ sent[l] > 0 \/ Claimed(p, l)
      BY <2>2, <2>7, <3>1, <3>2 DEF DoneAt
    <3> QED  BY <1>0, <1>a, <2>2, <2>8, <3>1, <3>4, <3>5, <3>6, CustodyOwnStep DEF K
  <2>9. CASE /\ f \in Flight /\ flights' = [flights EXCEPT ![p] = Append(@, f)]
             /\ doing' = [doing EXCEPT ![p] = "idle"] /\ UNCHANGED <<buf, after>>
    <3> DEFINE n == Len(flights[p]) + 1
    <3>1. /\ \A q \in Process \ {p} : flights'[q] = flights[q]
          /\ \A k \in DOMAIN flights'[p] : k \in DOMAIN flights[p] \/ k = n
          /\ \A k \in DOMAIN flights[p] : flights'[p][k] = flights[p][k]
          /\ flights'[p][n] = f
      <4>1. /\ \A q \in Process \ {p} : flights'[q] = flights[q]
            /\ Len(flights[p]) \in Nat /\ DOMAIN flights[p] = 1..Len(flights[p])
            /\ DOMAIN flights'[p] = 1..(Len(flights[p]) + 1)
            /\ \A k \in DOMAIN flights[p] : flights'[p][k] = flights[p][k]
            /\ flights'[p][Len(flights[p]) + 1] = f
        BY <2>9, NewFlight
      <4> QED  BY <4>1
    <3> HIDE DEF n
    <3>2. doing'[p] = "idle" /\ \A q \in Process \ {p} : doing'[q] = doing[q]
      BY <2>9 DEF TelemetryTypes
    <3>3. /\ Carries(f, l) <=> l \in Range(claim[p])
          /\ Carries(f, l) => ~InFlight(p, l)
      BY <2>1, <2>3, <2>5 DEF Carries
    <3>4. ~Mine(p, l)' /\ ~BackBuf(p, l)' /\ ~Leaving(p)'
      BY <2>2, <2>4, <2>9, <3>2, NothingInEmpty DEF Mine, BackBuf, Back, Leaving, Appending
    <3>5. InFlight(p, l)' => InFlight(p, l) \/ l \in Range(claim[p])
      BY <3>1, <3>3 DEF InFlight
    <3>6. Claimed(p, l)' => Claimed(p, l)
      BY <2>2, <2>5, <3>4, <3>5 DEF Claimed
    <3>7. OnceAt(p, l)'
      <4>1. ASSUME NEW k \in DOMAIN flights'[p]
            PROVE  /\ Once(l, flights'[p][k].send) /\ Once(l, flights'[p][k].keep)
                   /\ ~(l \in Range(flights'[p][k].send) /\ l \in Range(flights'[p][k].keep))
        <5>1. CASE k = n
          BY <2>1, <2>3, <2>6, <3>1, <5>1
        <5>2. CASE k \in DOMAIN flights[p]
          BY <1>a, <3>1, <5>2 DEF OnceAt
        <5> QED  BY <3>1, <5>1, <5>2
      <4> QED  BY <1>a, <2>2, <2>9, <4>1 DEF OnceAt
    <3>8. FlightAt(p, l)'
      <4>1. ASSUME NEW j \in DOMAIN flights'[p], NEW k \in DOMAIN flights'[p],
                   Carries(flights'[p][j], l), Carries(flights'[p][k], l)
            PROVE  j = k
        <5>1. CASE j \in DOMAIN flights[p] /\ k \in DOMAIN flights[p]
          BY <1>a, <3>1, <4>1, <5>1 DEF FlightAt
        <5>2. CASE j = n /\ k = n
          BY <5>2
        <5>3. CASE j \in DOMAIN flights[p] /\ k = n
          BY <3>1, <3>3, <4>1, <5>3 DEF InFlight
        <5>4. CASE k \in DOMAIN flights[p] /\ j = n
          BY <3>1, <3>3, <4>1, <5>4 DEF InFlight
        <5> QED  BY <3>1, <5>1, <5>2, <5>3, <5>4
      <4> QED  BY <3>2, <3>4, <4>1 DEF FlightAt
    <3>9. /\ l \in Range(queue') => ~Mine(p, l)' /\ ~Claimed(p, l)'
          /\ ~(Mine(p, l)' /\ Claimed(p, l)')
          /\ l \in Range(queue') \/ Mine(p, l)' \/ Claimed(p, l)' => l \in Range(queue) \/ Mine(p, l) \/ Claimed(p, l)
      BY <1>a, <2>2, <3>4, <3>6 DEF OnePlace
    <3>10. sent'[l] > 0 => /\ sent'[l] = 1 /\ l \notin Range(queue') /\ DoneAt(p, l)'
                           /\ sent[l] > 0 \/ Claimed(p, l)
      BY <2>2, <2>7, <3>2, <3>4, <3>5 DEF DoneAt
    <3> QED  BY <1>0, <1>a, <2>2, <2>9, <3>1, <3>2, <3>7, <3>8, <3>9, <3>10, CustodyOwnStep DEF K
  <2> QED  BY <2>2, <2>8, <2>9
<1>17. ASSUME NEW p \in Process, ReleaseClaim(p) PROVE K
  <2>1. /\ doing[p] = "release" /\ doing' = [doing EXCEPT ![p] = "idle"] /\ claim' = [claim EXCEPT ![p] = <<>>]
        /\ UNCHANGED <<queue, mem, flights, after, buf, base, victim, sent>>
    BY <1>17 DEF ReleaseClaim
  <2>2. /\ doing'[p] = "idle" /\ claim'[p] = <<>>
        /\ \A q \in Process \ {p} : doing'[q] = doing[q] /\ claim'[q] = claim[q]
    BY <2>1 DEF TelemetryTypes
  <2>3. buf[p] = <<>>
    BY <2>1 DEF Turns
  <2>4. /\ Mine(p, l)' <=> Mine(p, l)
        /\ ~BackBuf(p, l)' /\ (InFlight(p, l)' <=> InFlight(p, l))
    BY <2>1, <2>3, NothingInEmpty DEF Mine, InFlight, BackBuf
  <2>5. Claimed(p, l)' => Claimed(p, l)
    BY <2>2, <2>4, NothingInEmpty DEF Claimed
  <2>6. OnceAt(p, l)' /\ FlightAt(p, l)'
    BY <1>a, <2>1, <2>2, <2>4, NothingInEmpty DEF OnceAt, FlightAt
  <2>7. /\ l \in Range(queue') => ~Mine(p, l)' /\ ~Claimed(p, l)'
        /\ ~(Mine(p, l)' /\ Claimed(p, l)')
        /\ l \in Range(queue') \/ Mine(p, l)' \/ Claimed(p, l)' => l \in Range(queue) \/ Mine(p, l) \/ Claimed(p, l)
    BY <1>a, <2>1, <2>4, <2>5 DEF OnePlace
  <2>8. sent'[l] > 0 => /\ sent'[l] = 1 /\ l \notin Range(queue') /\ DoneAt(p, l)'
                        /\ sent[l] > 0 \/ Claimed(p, l)
    BY <1>a, <2>1, <2>2, <2>4, NothingInEmpty DEF DoneAt
  <2> QED  BY <1>0, <1>a, <2>1, <2>2, <2>6, <2>7, <2>8, CustodyOwnStep DEF K
<1>18. ASSUME NEW p \in Process, End(p) PROVE K
  <2>1. /\ doing[p] = "end" /\ doing' = [doing EXCEPT ![p] = "down"]
        /\ UNCHANGED <<queue, claim, mem, flights, after, buf, base, victim, sent>>
    BY <1>18 DEF End
  <2>2. doing'[p] = "down" /\ \A q \in Process \ {p} : doing'[q] = doing[q]
    BY <2>1 DEF TelemetryTypes
  <2>3. buf[p] = <<>> /\ Leaving(p) /\ ~Leaving(p)'
    BY <2>1, <2>2 DEF Turns, Leaving, Appending
  <2>4. /\ Mine(p, l)' <=> Mine(p, l)
        /\ ~BackBuf(p, l)' /\ (InFlight(p, l)' <=> InFlight(p, l))
    BY <2>1, <2>3, NothingInEmpty DEF Mine, InFlight, BackBuf
  <2>5. Claimed(p, l)' => Claimed(p, l)
    BY <2>1, <2>2, <2>4 DEF Claimed
  <2>6. OnceAt(p, l)' /\ FlightAt(p, l)'
    BY <1>a, <2>1, <2>2, <2>4 DEF OnceAt, FlightAt
  <2>7. /\ l \in Range(queue') => ~Mine(p, l)' /\ ~Claimed(p, l)'
        /\ ~(Mine(p, l)' /\ Claimed(p, l)')
        /\ l \in Range(queue') \/ Mine(p, l)' \/ Claimed(p, l)' => l \in Range(queue) \/ Mine(p, l) \/ Claimed(p, l)
    BY <1>a, <2>1, <2>4, <2>5 DEF OnePlace
  <2>8. sent'[l] > 0 => /\ sent'[l] = 1 /\ l \notin Range(queue') /\ DoneAt(p, l)'
                        /\ sent[l] > 0 \/ Claimed(p, l)
    BY <1>a, <2>1, <2>2, <2>3, <2>4 DEF DoneAt
  <2> QED  BY <1>0, <1>a, <2>1, <2>2, <2>6, <2>7, <2>8, CustodyOwnStep DEF K
<1>19. ASSUME UNCHANGED <<queue, claim, mem, flights, doing, after, buf, base, victim, sent>> PROVE K
  BY <1>19 DEF K, CustodyOf, OnceEach, OnceAt, OnePlace, Mine, Claimed, InFlight, BackBuf, Back, Leaving, Appending,
               OneFlight, FlightAt, Recovered, Done, DoneAt
<1>20. ASSUME NEW p \in Process, ClaimAges(p) PROVE K
  BY <1>19, <1>20 DEF ClaimAges
<1>21. CASE NextDay
  BY <1>19, <1>21 DEF NextDay
<1>22. CASE QueueAges
  BY <1>19, <1>22 DEF QueueAges
<1> QED
  BY <1>1, <1>2, <1>4, <1>5, <1>6, <1>8, <1>9, <1>10, <1>11, <1>12, <1>13, <1>14, <1>15, <1>16, <1>17,
     <1>18, <1>20, <1>21, <1>22 DEF TelemetryNext, Work

(* Every action keeps the lines without a reason to be sent again in       *)
(* custody.                                                                *)
LEMMA CustodyStep ==
    TelemetryTypes /\ Turns /\ Known /\ Custody /\ TelemetryNext => Custody'
<1> SUFFICES ASSUME TelemetryTypes, Turns, Known, Custody, TelemetryNext, NEW l \in Line, l \notin again' PROVE CustodyOf(l)'
  BY DEF Custody
<1>1. again \subseteq again'
  <2> USE DEF consent, queueFile, claims, memory, turn, outside, accounts
  <2>1. ASSUME NEW p \in Process, FetchFails(p) PROVE again \subseteq again'
    BY <2>1 DEF FetchFails
  <2>2. ASSUME NEW p \in Process, Exit(p) \/ Die(p) PROVE again \subseteq again'
    BY <2>2 DEF Exit, Die, Abandons
  <2>3. ASSUME NEW p \in Process, AppendWrite(p) \/ \E q \in Process : StaleRead(p, q) PROVE again \subseteq again'
    BY <2>3 DEF AppendWrite, StaleRead
  <2>4. ASSUME NEW p \in Process, NEW l1 \in Line, Record(p, l1) PROVE again' = again
    BY <2>4 DEF Record
  <2>5. ASSUME NEW p \in Process, NEW choice \in {"on", "off"}, SetEnabled(p, choice) PROVE again' = again
    BY <2>5 DEF SetEnabled
  <2>6. ASSUME NEW p \in Process, Flush(p) \/ FetchAnswered(p) \/ AppendRead(p) \/ StaleUnlink(p) \/ StalePutBack(p)
        PROVE  again' = again
    BY <2>6 DEF Flush, FetchAnswered, AppendRead, StaleUnlink, StalePutBack
  <2>7. ASSUME NEW p \in Process, ClaimQueue(p) \/ ReadClaim(p) \/ ReleaseClaim(p) \/ End(p) \/ ClaimAges(p)
        PROVE  again' = again
    BY <2>7 DEF ClaimQueue, ReadClaim, ReleaseClaim, End, ClaimAges
  <2>8. NextDay \/ QueueAges => again' = again
    BY DEF NextDay, QueueAges
  <2> QED  BY <2>1, <2>2, <2>3, <2>4, <2>5, <2>6, <2>7, <2>8 DEF TelemetryNext, Work
<1>2. CustodyOf(l)
  BY <1>1 DEF Custody
<1> QED  BY <1>2, CustodyOfStep

-----------------------------------------------------------------------------
(* The inductive invariant.                                                *)
TelemetryInv ==
    /\ TelemetryTypes /\ Turns /\ Knows /\ Known
    /\ Anywhere /\ Covered /\ Crowded /\ Custody

(* Initially there is no line anywhere.                                    *)
LEMMA TelemetryInitInv == TelemetryInit => TelemetryInv
<1> SUFFICES ASSUME TelemetryInit PROVE TelemetryInv
  OBVIOUS
<1> USE NothingInEmpty DEF TelemetryInit
<1>1. <<>> \in Seq(Line) /\ <<>> \in Seq(Flight) /\ Len(<<>>) = 0 /\ DOMAIN <<>> = {}
  OBVIOUS
<1>2. TelemetryTypes
  <2>1. config \in {"none", "on", "off"} /\ queue \in Seq(Line) /\ past \subseteq Line /\ recorded \subseteq Line
    BY <1>1
  <2>2. quiet \in BOOLEAN
    OBVIOUS
  <2>3. /\ claim \in [Process -> Seq(Line)] /\ mem \in [Process -> Seq(Line)]
        /\ buf \in [Process -> Seq(Line)] /\ base \in [Process -> Seq(Line)]
        /\ flights \in [Process -> Seq(Flight)] /\ flushes \in [Process -> Nat]
        /\ victim \in [Process -> Process] /\ sent \in [Line -> Nat]
    BY <1>1
  <2>4. stale \in [Process -> BOOLEAN]
    OBVIOUS
  <2>5. /\ cache \in [Process -> {"unread", "none", "on", "off"}]
        /\ doing \in [Process -> {"idle", "append", "write", "recover", "unlink", "putBack", "read", "release", "end", "down"}]
        /\ after \in [Process -> {"end", "recover", "release"}]
    OBVIOUS
  <2> QED  BY <2>1, <2>2, <2>3, <2>4, <2>5 DEF TelemetryTypes
<1>3. Turns /\ Knows
  BY DEF Turns, Knows, Leaving, Back, Appending
<1>4. \A p \in Process : \A l : ~InFlight(p, l) /\ ~BackBuf(p, l) /\ ~Mine(p, l) /\ ~Claimed(p, l)
  BY <1>1 DEF InFlight, BackBuf, Mine, Claimed
<1>5. Known
  BY <1>4 DEF Known
<1>6. Anywhere /\ Covered /\ Crowded
  BY DEF Anywhere, Covered, Crowded
<1>7. Custody
  BY <1>1, <1>4 DEF Custody, CustodyOf, OnceEach, OnceAt, OnePlace, OneFlight, FlightAt, Recovered, Done
<1> QED  BY <1>2, <1>3, <1>5, <1>6, <1>7 DEF TelemetryInv

(* Every step keeps the invariant, a stuttering one too.                   *)
LEMMA TelemetryInvStep == TelemetryInv /\ [TelemetryNext]_telemetryVars => TelemetryInv'
<1> SUFFICES ASSUME TelemetryInv, [TelemetryNext]_telemetryVars PROVE TelemetryInv'
  OBVIOUS
<1>1. CASE TelemetryNext
  BY <1>1, TelemetryTypesStep, TurnsStep, KnownStep, ForgottenStep, CustodyStep DEF TelemetryInv
<1>2. CASE UNCHANGED telemetryVars
  <2> USE <1>2 DEF telemetryVars, consent, queueFile, claims, memory, turn, outside, accounts
  <2>1. TelemetryTypes'
    BY DEF TelemetryInv, TelemetryTypes
  <2>2. Turns' /\ Knows'
    BY DEF TelemetryInv, Turns, Knows, Leaving, Back, Appending
  <2>3. Known'
    BY DEF TelemetryInv, Known, InFlight
  <2>4. Anywhere' /\ Covered' /\ Crowded'
    BY DEF TelemetryInv, Anywhere, Somewhere, Holds, Covered, Tended, Crowded, Crowd, InFlight, BackBuf, Back, Leaving, Appending
  <2>5. Custody'
    BY DEF TelemetryInv, Custody, CustodyOf, OnceEach, OnceAt, OnePlace, Mine, Claimed, InFlight, BackBuf, Back, Leaving, Appending,
           OneFlight, FlightAt, Recovered, Done, DoneAt
  <2> QED  BY <2>1, <2>2, <2>3, <2>4, <2>5 DEF TelemetryInv
<1> QED  BY <1>1, <1>2

(* The invariant always holds.                                             *)
THEOREM TelemetryInvariance == TelemetrySpec => []TelemetryInv
BY TelemetryInitInv, TelemetryInvStep, PTL DEF TelemetrySpec

(* The queue, the claims, the memories and the flights hold lines and the  *)
(* turns are at calls of the code, for any processes, lines, cap, chunk    *)
(* size and number of failures.                                            *)
THEOREM TelemetryTypesHold == TelemetrySpec => []TelemetryTypes
<1>1. TelemetryInv => TelemetryTypes
  BY DEF TelemetryInv
<1> QED  BY <1>1, TelemetryInvariance, PTL

(* A recorded line is received or still in memory, in the queue or in a    *)
(* claim, or has one of the code's reasons to be lost: for any number of   *)
(* processes, failures and crashes, at any interleaving of their file      *)
(* calls.                                                                  *)
THEOREM NothingForgottenHolds == TelemetrySpec => []NothingForgotten
<1>1. TelemetryInv => NothingForgotten
  <2> SUFFICES ASSUME TelemetryInv, NEW l \in recorded \ gone
               PROVE  \/ sent[l] > 0 \/ l \in Range(queue)
                      \/ \E p \in Process : l \in Range(claim[p]) \cup Range(mem[p]) \cup Range(buf[p])
    BY DEF NothingForgotten
  <2>1. Somewhere(l)
    BY DEF TelemetryInv, Anywhere
  <2> QED  BY <2>1 DEF Somewhere, Holds
<1> QED  BY <1>1, TelemetryInvariance, PTL

(* No line reaches the endpoint twice that has none of the code's reasons  *)
(* to be sent again, for any number of processes, failures and crashes.    *)
THEOREM SentOnceHolds == TelemetrySpec => []SentOnce
<1>1. TelemetryInv => SentOnce
  <2> SUFFICES ASSUME TelemetryInv, NEW l \in Line \ again PROVE sent[l] <= 1
    BY DEF SentOnce
  <2>1. sent[l] \in Nat
    BY DEF TelemetryInv, TelemetryTypes
  <2>2. sent[l] > 0 => sent[l] = 1
    BY DEF TelemetryInv, Custody, CustodyOf, Done
  <2> QED  BY <2>1, <2>2
<1> QED  BY <1>1, TelemetryInvariance, PTL

(* A stored "off" is changed by an explicit "on" only, or by the notice of *)
(* a process that looked when no choice was stored.                        *)
LEMMA ChoiceKept ==
    TelemetryInv /\ TelemetryNext =>
        (config = "off" /\ config' # "off" =>
             \E p \in Process : SetEnabled(p, "on") \/ (cache[p] = "none" /\ cache'[p] = "on"))
<1> SUFFICES ASSUME TelemetryInv, TelemetryNext, config = "off", config' # "off"
             PROVE  \E p \in Process : SetEnabled(p, "on") \/ (cache[p] = "none" /\ cache'[p] = "on")
  OBVIOUS
<1> USE DEF consent, queueFile, claims, memory, turn, outside, accounts
<1>1. ASSUME NEW p \in Process, NEW choice \in {"on", "off"}, SetEnabled(p, choice) PROVE SetEnabled(p, "on")
  <2>1. choice = "on"
    BY <1>1 DEF SetEnabled
  <2> QED  BY <1>1, <2>1
<1>2. ASSUME NEW p \in Process, ReadClaim(p) PROVE cache[p] = "none" /\ cache'[p] = "on"
  <2>1. firstRunNotice(p)
    BY <1>2 DEF ReadClaim
  <2>2. cache[p] = "none" /\ cache' = [cache EXCEPT ![p] = "on"]
    BY <2>1 DEF firstRunNotice
  <2> QED  BY <2>2 DEF TelemetryInv, TelemetryTypes
<1>3. ASSUME NEW p \in Process, NEW l \in Line, Record(p, l) PROVE FALSE
  BY <1>3 DEF Record
<1>4. ASSUME NEW p \in Process, Flush(p) \/ FetchAnswered(p) \/ FetchFails(p) \/ Exit(p) \/ Die(p) \/ ClaimAges(p) PROVE FALSE
  BY <1>4 DEF Flush, FetchAnswered, FetchFails, Exit, Die, ClaimAges
<1>5. ASSUME NEW p \in Process, AppendRead(p) \/ AppendWrite(p) \/ StaleUnlink(p) \/ StalePutBack(p) \/ \E q \in Process : StaleRead(p, q)
      PROVE  FALSE
  BY <1>5 DEF AppendRead, AppendWrite, StaleUnlink, StalePutBack, StaleRead
<1>6. ASSUME NEW p \in Process, ClaimQueue(p) \/ ReleaseClaim(p) \/ End(p) PROVE FALSE
  BY <1>6 DEF ClaimQueue, ReleaseClaim, End
<1>7. ~NextDay /\ ~QueueAges
  BY DEF NextDay, QueueAges
<1> QED  BY <1>1, <1>2, <1>3, <1>4, <1>5, <1>6, <1>7 DEF TelemetryNext, Work

(* A process that knows it is off writes and sends nothing, and the stored *)
(* "off" is undone only by an explicit choice or by the notice of a        *)
(* process that looked before.                                             *)
THEOREM OffIsOffHolds == TelemetrySpec => OffIsOff
<1> DEFINE Quiet == \A p \in Process : cache[p] = "off" => doing[p] \in {"idle", "end"} /\ flights[p] = <<>>
           Explicit == config = "off" /\ config' # "off" =>
               \E p \in Process : \/ SetEnabled(p, "on")
                                  \/ cache[p] = "none" /\ cache'[p] = "on"
<1>1. TelemetryInv => Quiet
  BY DEF TelemetryInv, Knows
<1>2. TelemetryInv /\ [TelemetryNext]_telemetryVars => [Explicit]_telemetryVars
  BY ChoiceKept
<1>3. OffIsOff <=> []Quiet /\ [][Explicit]_telemetryVars
  BY DEF OffIsOff
<1> HIDE DEF Quiet, Explicit
<1>4. TelemetrySpec => []Quiet /\ [][Explicit]_telemetryVars
  BY <1>1, <1>2, TelemetryInvariance, PTL DEF TelemetrySpec
<1> QED  BY <1>3, <1>4
=============================================================================
