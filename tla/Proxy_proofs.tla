---------------------------- MODULE Proxy_proofs ----------------------------
(***************************************************************************)
(* For any set of requests, the proxy drops no request and answers none    *)
(* twice: its lines are where OnePlace and InflightIsOwed say, so that it  *)
(* implements RequestService's safety, whenever the daemon comes, hangs or *)
(* dies.                                                                   *)
(***************************************************************************)
EXTENDS Launcher, TLAPS

(* Which buffers can hold lines in which status; all lines were asked.     *)
ByStatus ==
    /\ daemonStatus # "connecting" => pending = {}
    /\ daemonStatus # "ready" => inflight = {} /\ toDaemon = {} /\ serving = {} /\ toProxy = {}
    /\ daemonStatus # "failed" => buffered = {} /\ local = {} /\ awaiting = {}
    /\ pending \cup inflight \cup buffered \cup local \subseteq asked
    /\ toDaemon \cup serving \cup toProxy \subseteq asked

NothingUnasked == \A r \in Request \ asked : answers[r] = 0

InitializeAnswered == \A r \in Initialize \cap asked : answers[r] # 0

IInv ==
    TypeOK /\ OnePlace /\ InflightIsOwed /\ ByStatus /\ NothingUnasked /\ InitializeAnswered

(* What an answer to the requests in S does to the books.                  *)
LEMMA AnswerFacts ==
    ASSUME NEW S, answers \in [Request -> Nat], Answer(S)
    PROVE  /\ answers' \in [Request -> Nat]
           /\ \A r \in Request : answers'[r] = 0 <=> answers[r] = 0 /\ r \notin S
<1>1. answers' = [r \in Request |-> IF r \in S THEN answers[r] + 1 ELSE answers[r]]
  BY DEF Answer
<1>2. ASSUME NEW r \in Request
      PROVE  answers'[r] \in Nat /\ (answers'[r] = 0 <=> answers[r] = 0 /\ r \notin S)
  BY <1>1, <1>2
<1>3. QED  BY <1>1, <1>2

(* The methods exclude one another.                                        *)
LEMMA Kinds ==
    /\ OfMethod("call") \subseteq Request /\ Initialize \subseteq Request
    /\ OfMethod("call") \cap Initialize = {}
BY DEF OfMethod, Initialize
-----------------------------------------------------------------------------
LEMMA InitInv == Init => IInv
<1> SUFFICES ASSUME Init  PROVE IInv
  OBVIOUS
<1>1. TypeOK
  BY DEF Init, TypeOK
<1>2. ByStatus /\ NothingUnasked /\ InitializeAnswered /\ InflightIsOwed
  BY DEF Init, ByStatus, NothingUnasked, InitializeAnswered, InflightIsOwed
<1>3. OnePlace
  BY DEF Init, OnePlace, Unanswered
<1>4. QED  BY <1>1, <1>2, <1>3 DEF IInv

LEMMA StaticInv ==
    ASSUME IInv, NEW r \in Request, StaticRequest(r)
    PROVE  IInv'
<1>1. /\ r \notin asked /\ r \notin Initialize /\ asked' = asked \cup {r}
      /\ UNCHANGED <<conn, buffers, remote, inside>> /\ Answer({r})
  BY DEF StaticRequest, Initialize, OfMethod
<1>2. /\ answers' \in [Request -> Nat]
      /\ \A q \in Request : answers'[q] = 0 <=> answers[q] = 0 /\ q # r
  BY <1>1, AnswerFacts DEF IInv, TypeOK
<1> USE <1>1, <1>2 DEF conn, buffers, remote, inside
<1>3. TypeOK' /\ ByStatus' /\ InflightIsOwed'
  BY DEF IInv, TypeOK, ByStatus, InflightIsOwed
<1>4. NothingUnasked' /\ InitializeAnswered'
  BY Kinds DEF IInv, NothingUnasked, InitializeAnswered
<1>5. Unanswered' = Unanswered
  BY DEF Unanswered, IInv, TypeOK
<1>6. OnePlace'
  BY <1>5 DEF IInv, OnePlace
<1>7. QED  BY <1>3, <1>4, <1>6 DEF IInv

LEMMA RoutedInv ==
    ASSUME IInv, NEW r \in Request, RoutedRequest(r)
    PROVE  IInv'
<1> DEFINE S == IF r \in Initialize THEN {r}
                ELSE IF daemonStatus = "failed" THEN AnsweredAtOnce({r}) ELSE {}
<1>1. /\ r \notin asked /\ asked' = asked \cup {r} /\ Answer(S) /\ routeToDaemon(r)
      /\ UNCHANGED <<daemonStatus, daemon, closed, buffered, awaiting, serving, toProxy>>
  BY DEF RoutedRequest, conn
<1>2. /\ answers' \in [Request -> Nat]
      /\ \A q \in Request : answers'[q] = 0 <=> answers[q] = 0 /\ q \notin S
  BY <1>1, AnswerFacts DEF IInv, TypeOK
<1>3. /\ S \subseteq {r} /\ (r \in Initialize => r \in S)
      /\ r \notin Initialize /\ daemonStatus # "failed" => S = {}
      /\ r \notin Initialize /\ daemonStatus = "failed" => (r \in S <=> r \notin OfMethod("call"))
  BY DEF AnsweredAtOnce, Calls
<1> HIDE DEF S
<1>4. answers[r] = 0
  BY <1>1 DEF IInv, NothingUnasked
<1>5. NothingUnasked' /\ InitializeAnswered'
  BY <1>1, <1>2, <1>3, Kinds DEF IInv, NothingUnasked, InitializeAnswered
<1>6. Unanswered' = Unanswered \cup ({r} \ S)
  BY <1>1, <1>2, <1>3, <1>4 DEF Unanswered, IInv, TypeOK
<1>7. CASE daemonStatus = "ready"
  <2>1. /\ toDaemon' = toDaemon \cup {r} /\ inflight' = inflight \cup ({r} \ Initialize)
        /\ UNCHANGED <<pending, local, engine>>
    BY <1>1, <1>7 DEF routeToDaemon, Tracked, inside
  <2>2. TypeOK' /\ ByStatus'
    BY <1>1, <1>2, <1>7, <2>1, Kinds DEF IInv, TypeOK, ByStatus
  <2>3. InflightIsOwed'
    BY <1>1, <1>7, <2>1 DEF IInv, InflightIsOwed, ByStatus
  <2>4. OnePlace'
    BY <1>1, <1>3, <1>6, <1>7, <2>1 DEF IInv, OnePlace, ByStatus
  <2>5. QED  BY <1>5, <2>2, <2>3, <2>4 DEF IInv
<1>8. CASE daemonStatus = "connecting"
  <2>1. pending' = pending \cup {r} /\ UNCHANGED <<toDaemon, inflight, local, engine>>
    BY <1>1, <1>8 DEF routeToDaemon, inside
  <2>2. TypeOK' /\ ByStatus'
    BY <1>1, <1>2, <1>8, <2>1, Kinds DEF IInv, TypeOK, ByStatus
  <2>3. InflightIsOwed'
    BY <1>1, <1>8, <2>1 DEF IInv, InflightIsOwed
  <2>4. OnePlace'
    BY <1>1, <1>3, <1>6, <1>8, <2>1 DEF IInv, OnePlace, ByStatus
  <2>5. QED  BY <1>5, <2>2, <2>3, <2>4 DEF IInv
<1>9. CASE daemonStatus = "failed"
  <2>1. /\ local' = local \cup Calls({r}) /\ engine' \in {"none", "opening", "ready"}
        /\ UNCHANGED <<pending, toDaemon, inflight>>
    BY <1>1, <1>9 DEF routeToDaemon, handleLocally, IInv, TypeOK
  <2>2. Calls({r}) = {r} \cap OfMethod("call")
    BY DEF Calls
  <2>3. TypeOK' /\ ByStatus'
    BY <1>1, <1>2, <1>9, <2>1, <2>2, Kinds DEF IInv, TypeOK, ByStatus
  <2>4. InflightIsOwed'
    BY <1>1, <1>9, <2>1 DEF IInv, InflightIsOwed
  <2>5. OnePlace'
    BY <1>1, <1>3, <1>6, <1>9, <2>1, <2>2, Kinds DEF IInv, OnePlace, ByStatus
  <2>6. QED  BY <1>5, <2>3, <2>4, <2>5 DEF IInv
<1>10. QED  BY <1>7, <1>8, <1>9 DEF IInv, TypeOK

(* Steps that answer nothing keep the books as they are.                   *)
LEMMA NoAnswer ==
    ASSUME IInv, UNCHANGED <<asked, answers>>
    PROVE  NothingUnasked' /\ InitializeAnswered' /\ Unanswered' = Unanswered
BY DEF IInv, NothingUnasked, InitializeAnswered, Unanswered

LEMMA ConnectionInv ==
    ASSUME IInv, Connect \/ Unavailable
    PROVE  IInv'
<1>1. /\ NothingUnasked' /\ InitializeAnswered' /\ Unanswered' = Unanswered
      /\ daemonStatus = "connecting"
  BY NoAnswer DEF Connect, Unavailable, client
<1>2. CASE Connect
  <2>1. TypeOK' /\ ByStatus'
    BY <1>2 DEF Connect, Tracked, inside, client, IInv, TypeOK, ByStatus
  <2>2. InflightIsOwed'
    BY <1>2 DEF Connect, Tracked, IInv, InflightIsOwed, ByStatus
  <2>3. OnePlace'
    BY <1>1, <1>2 DEF Connect, Tracked, inside, IInv, OnePlace, ByStatus
  <2>4. QED  BY <1>1, <2>1, <2>2, <2>3 DEF IInv
<1>3. CASE Unavailable
  <2>1. TypeOK' /\ ByStatus'
    BY <1>3 DEF Unavailable, remote, inside, client, IInv, TypeOK, ByStatus
  <2>2. InflightIsOwed' /\ OnePlace'
    BY <1>1, <1>3 DEF Unavailable, remote, inside, IInv, InflightIsOwed, OnePlace, ByStatus
  <2>3. QED  BY <1>1, <2>1, <2>2 DEF IInv
<1>4. QED  BY <1>2, <1>3

LEMMA NextBufferedInv ==
    ASSUME IInv, NEW r \in Request, NextBuffered(r)
    PROVE  IInv'
<1> DEFINE S == AnsweredAtOnce({r})
<1>1. /\ r \in buffered /\ buffered' = buffered \ {r} /\ Answer(S) /\ asked' = asked
      /\ awaiting' = Calls({r}) /\ local' = local \cup Calls({r})
      /\ engine' \in {"none", "opening", "ready"}
      /\ UNCHANGED <<daemonStatus, daemon, closed, pending, inflight, toDaemon, serving, toProxy>>
  BY DEF NextBuffered, handleLocally, conn, remote, IInv, TypeOK
<1>2. /\ answers' \in [Request -> Nat]
      /\ \A q \in Request : answers'[q] = 0 <=> answers[q] = 0 /\ q \notin S
  BY <1>1, AnswerFacts DEF IInv, TypeOK
<1>3. /\ S = ({r} \ OfMethod("call")) \ Initialize /\ Calls({r}) = {r} \cap OfMethod("call")
      /\ daemonStatus = "failed"
  BY <1>1 DEF AnsweredAtOnce, Calls, IInv, ByStatus
<1> HIDE DEF S
<1>4. NothingUnasked' /\ InitializeAnswered'
  BY <1>1, <1>2, <1>3 DEF IInv, NothingUnasked, InitializeAnswered, ByStatus, Initialize, OfMethod
<1>5. Unanswered' = Unanswered \ S
  BY <1>1, <1>2 DEF Unanswered, IInv, TypeOK
<1>6. TypeOK' /\ ByStatus'
  BY <1>1, <1>2, <1>3, Kinds DEF IInv, TypeOK, ByStatus
<1>7. InflightIsOwed'
  BY <1>1, <1>3 DEF IInv, InflightIsOwed
<1>8. OnePlace'
  BY <1>1, <1>3, <1>5, Kinds DEF IInv, OnePlace, ByStatus
<1>9. QED  BY <1>4, <1>6, <1>7, <1>8 DEF IInv

LEMMA LocalAnswerInv ==
    ASSUME IInv, NEW r \in Request, LocalAnswer(r)
    PROVE  IInv'
<1>1. /\ r \in local /\ local' = local \ {r} /\ awaiting' = awaiting \ {r} /\ Answer({r})
      /\ UNCHANGED <<daemonStatus, daemon, closed, pending, inflight, buffered, toDaemon,
                     serving, toProxy, engine, asked>>
  BY DEF LocalAnswer, conn, remote
<1>2. /\ answers' \in [Request -> Nat]
      /\ \A q \in Request : answers'[q] = 0 <=> answers[q] = 0 /\ q # r
  BY <1>1, AnswerFacts DEF IInv, TypeOK
<1>3. NothingUnasked' /\ InitializeAnswered'
  BY <1>1, <1>2 DEF IInv, NothingUnasked, InitializeAnswered, ByStatus, Initialize, OfMethod
<1>4. Unanswered' = Unanswered \ {r}
  BY <1>1, <1>2 DEF Unanswered, IInv, TypeOK
<1>5. TypeOK' /\ ByStatus' /\ InflightIsOwed'
  BY <1>1, <1>2 DEF IInv, TypeOK, ByStatus, InflightIsOwed
<1>6. OnePlace'
  BY <1>1, <1>4, Kinds DEF IInv, OnePlace, TypeOK
<1>7. QED  BY <1>3, <1>5, <1>6 DEF IInv

LEMMA DaemonLineInv ==
    ASSUME IInv, NEW r \in Request, DaemonLine(r)
    PROVE  IInv'
<1>1. /\ r \in toProxy /\ toProxy' = toProxy \ {r} /\ inflight' = inflight \ {r}
      /\ daemonStatus = "ready" /\ Answer({r} \ Initialize)
      /\ UNCHANGED <<daemonStatus, daemon, closed, pending, buffered, awaiting, toDaemon,
                     serving, local, engine, asked>>
  BY DEF DaemonLine, StillInflight, Suppressed, conn, inside
<1>2. /\ answers' \in [Request -> Nat]
      /\ \A q \in Request : answers'[q] = 0 <=> answers[q] = 0 /\ q \notin {r} \ Initialize
  BY <1>1, AnswerFacts DEF IInv, TypeOK
<1>3. NothingUnasked' /\ InitializeAnswered'
  BY <1>1, <1>2 DEF IInv, NothingUnasked, InitializeAnswered, ByStatus, Initialize, OfMethod
<1>4. Unanswered' = Unanswered \ ({r} \ Initialize)
  BY <1>1, <1>2 DEF Unanswered, IInv, TypeOK
<1>5. TypeOK' /\ ByStatus' /\ InflightIsOwed'
  BY <1>1, <1>2 DEF IInv, TypeOK, ByStatus, InflightIsOwed
<1>6. OnePlace'
  BY <1>1, <1>4 DEF IInv, OnePlace, TypeOK, ByStatus
<1>7. QED  BY <1>3, <1>5, <1>6 DEF IInv

LEMMA DaemonLostInv ==
    ASSUME IInv, DaemonLost
    PROVE  IInv'
<1> DEFINE S == AnsweredAtOnce(inflight)
<1>1. /\ daemonStatus = "ready" /\ daemonStatus' = "failed" /\ Answer(S) /\ asked' = asked
      /\ toDaemon' = {} /\ serving' = {} /\ toProxy' = {} /\ inflight' = {}
      /\ local' = local \cup Calls(inflight) /\ engine' \in {"none", "opening", "ready"}
      /\ UNCHANGED <<daemon, closed, pending, buffered, awaiting>>
  BY DEF DaemonLost, Orphaned, handleLocally, IInv, TypeOK
<1>2. /\ answers' \in [Request -> Nat]
      /\ \A q \in Request : answers'[q] = 0 <=> answers[q] = 0 /\ q \notin S
  BY <1>1, AnswerFacts DEF IInv, TypeOK
<1>3. /\ S = inflight \ OfMethod("call") /\ Calls(inflight) = inflight \cap OfMethod("call")
  BY DEF AnsweredAtOnce, Calls, IInv, TypeOK
<1> HIDE DEF S
<1>4. NothingUnasked' /\ InitializeAnswered'
  BY <1>1, <1>2, <1>3 DEF IInv, NothingUnasked, InitializeAnswered, ByStatus, Initialize, OfMethod
<1>5. Unanswered' = Unanswered \ S
  BY <1>1, <1>2 DEF Unanswered, IInv, TypeOK
<1>6. TypeOK' /\ ByStatus' /\ InflightIsOwed'
  BY <1>1, <1>2, <1>3, Kinds DEF IInv, TypeOK, ByStatus, InflightIsOwed
<1>7. OnePlace'
  BY <1>1, <1>3, <1>5, Kinds DEF IInv, OnePlace, ByStatus
<1>8. QED  BY <1>4, <1>6, <1>7 DEF IInv

LEMMA DaemonInv ==
    ASSUME IInv, NEW r \in Request, DaemonTakes(r) \/ DaemonAnswers(r)
    PROVE  IInv'
<1>1. /\ NothingUnasked' /\ InitializeAnswered' /\ Unanswered' = Unanswered
      /\ UNCHANGED <<daemonStatus, daemon, closed, pending, inflight, buffered, awaiting, local,
                     engine, asked, answers>>
      /\ daemonStatus = "ready"
  BY NoAnswer DEF DaemonTakes, DaemonAnswers, client, conn, buffers, inside
<1>2. /\ TypeOK' /\ ByStatus' /\ InflightIsOwed'
  BY <1>1, Kinds
  DEF DaemonTakes, DaemonAnswers, Calls, IInv, TypeOK, ByStatus, InflightIsOwed
<1>3. OnePlace'
  BY <1>1 DEF IInv, OnePlace
<1>4. QED  BY <1>1, <1>2, <1>3 DEF IInv

LEMMA QuietInv ==
    ASSUME IInv, EngineReady \/ DaemonWedges \/ DaemonDies \/ WatchdogKills \/ shutdown
                 \/ UNCHANGED vars
    PROVE  IInv'
<1>1. /\ UNCHANGED <<daemonStatus, buffers, remote, local, client>>
      /\ engine' \in {"none", "opening", "ready"} /\ daemon' \in {"up", "wedged", "gone"}
      /\ closed' \in BOOLEAN
  BY DEF EngineReady, DaemonWedges, DaemonDies, WatchdogKills, shutdown, vars, conn, inside,
         IInv, TypeOK
<1>2. NothingUnasked' /\ InitializeAnswered' /\ Unanswered' = Unanswered
  BY <1>1, NoAnswer DEF client
<1>3. TypeOK' /\ ByStatus' /\ InflightIsOwed' /\ OnePlace'
  BY <1>1, <1>2
  DEF buffers, remote, client, IInv, TypeOK, ByStatus, InflightIsOwed, OnePlace
<1>4. QED  BY <1>2, <1>3 DEF IInv

LEMMA StepInv == IInv /\ [Next]_vars => IInv'
<1> SUFFICES ASSUME IInv, [Next]_vars  PROVE IInv'
  OBVIOUS
<1>1. CASE UNCHANGED vars
  BY <1>1, QuietInv
<1>2. CASE Next
  BY <1>2, StaticInv, RoutedInv, ConnectionInv, NextBufferedInv, LocalAnswerInv, DaemonLineInv,
     DaemonLostInv, DaemonInv, QuietInv DEF Next, Work
<1>3. QED  BY <1>1, <1>2

LEMMA Invariance == Spec => []IInv
BY InitInv, StepInv, PTL DEF Spec

(* A request without an answer is in exactly one place, for any requests.  *)
THEOREM OnePlaceHolds == Spec => []OnePlace
<1>1. IInv => OnePlace
  BY DEF IInv
<1>2. QED  BY Invariance, <1>1, PTL

(* What is in flight is owed by a living connection, for any requests.     *)
THEOREM InflightIsOwedHolds == Spec => []InflightIsOwed
<1>1. IInv => InflightIsOwed
  BY DEF IInv
<1>2. QED  BY Invariance, <1>1, PTL
-----------------------------------------------------------------------------
(* The refinement: what each step does to asked, answers and closed.       *)

LEMMA Exchanges ==
    ASSUME IInv, Next
    PROVE  Service!SNext \/ UNCHANGED Service!svars
<1> USE DEF Service!svars, Service!SExchange, Service!Open, Answer
<1>0. ~closed
  BY DEF Next
<1>1. ASSUME NEW r \in Request, StaticRequest(r)  PROVE Service!SNext
  <2>1. Service!SAskAndAnswer(r)
    BY <1>0, <1>1 DEF StaticRequest, conn, Service!SAskAndAnswer
  <2>2. QED  BY <2>1 DEF Service!SNext
<1>2. ASSUME NEW r \in Request, RoutedRequest(r)  PROVE Service!SNext
  <2> DEFINE S == IF r \in Initialize THEN {r}
                  ELSE IF daemonStatus = "failed" THEN AnsweredAtOnce({r}) ELSE {}
  <2>1. r \notin asked /\ asked' = asked \cup {r} /\ closed' = closed /\ Answer(S)
    BY <1>2 DEF RoutedRequest, conn
  <2>2. S = {r} \/ S = {}
    BY DEF AnsweredAtOnce
  <2> HIDE DEF S
  <2>3. Service!SAskAndAnswer(r) \/ Service!SAsk(r)
    BY <1>0, <2>1, <2>2 DEF Service!SAskAndAnswer, Service!SAsk
  <2>4. QED  BY <2>3 DEF Service!SNext
<1>3. ASSUME NEW r \in Request, NextBuffered(r) \/ LocalAnswer(r) \/ DaemonLine(r)
      PROVE  Service!SNext
  <2> DEFINE S == IF NextBuffered(r) THEN AnsweredAtOnce({r})
                  ELSE IF LocalAnswer(r) THEN {r} ELSE {r} \ Suppressed
  <2>1. asked' = asked /\ closed' = closed /\ Answer(S)
    BY <1>3 DEF NextBuffered, LocalAnswer, DaemonLine, conn
  <2>2. S \subseteq Unanswered
    BY <1>3 DEF NextBuffered, LocalAnswer, DaemonLine, AnsweredAtOnce, Suppressed,
                IInv, OnePlace, InflightIsOwed
  <2> HIDE DEF S
  <2>3. S \in SUBSET Request /\ Service!SAnswer(S)
    BY <1>0, <2>1, <2>2 DEF Service!SAnswer, Unanswered, IInv, TypeOK
  <2>4. QED  BY <2>3 DEF Service!SNext
<1>4. ASSUME DaemonLost  PROVE Service!SNext
  <2> DEFINE S == AnsweredAtOnce(inflight)
  <2>1. asked' = asked /\ closed' = closed /\ Answer(S)
    BY <1>4 DEF DaemonLost, Orphaned
  <2>2. S \subseteq Unanswered
    BY DEF AnsweredAtOnce, IInv, OnePlace
  <2> HIDE DEF S
  <2>3. S \in SUBSET Request /\ Service!SAnswer(S)
    BY <1>0, <2>1, <2>2 DEF Service!SAnswer, Unanswered, IInv, TypeOK
  <2>4. QED  BY <2>3 DEF Service!SNext
<1>5. ASSUME shutdown  PROVE Service!SNext
  BY <1>5 DEF shutdown, client, Service!SNext, Service!SClose
<1>6. ASSUME \/ Connect \/ Unavailable \/ EngineReady \/ DaemonWedges \/ DaemonDies
             \/ WatchdogKills \/ \E r \in Request : DaemonTakes(r) \/ DaemonAnswers(r)
      PROVE  UNCHANGED Service!svars
  BY <1>6 DEF Connect, Unavailable, EngineReady, DaemonWedges, DaemonDies, WatchdogKills,
              DaemonTakes, DaemonAnswers, client, conn
<1>7. QED  BY <1>1, <1>2, <1>3, <1>4, <1>5, <1>6 DEF Next, Work

(* The proxy gives exactly one answer, to requests only: it implements the *)
(* safety of RequestService (its liveness is left to the model checker).   *)
THEOREM Refinement == Spec => Service!SSafety
<1>1. Init => Service!SInit
  BY DEF Init, Service!SInit
<1>2. IInv /\ [Next]_vars => [Service!SNext]_(Service!svars)
  BY Exchanges DEF vars, client, conn, Service!svars
<1>3. QED  BY <1>1, <1>2, Invariance, PTL DEF Spec, Service!SSafety
-----------------------------------------------------------------------------
(* The start-up and the end of the process around it.                      *)

LEMMA LauncherStep == [LNext]_lvars => [Next]_vars
<1> SUFFICES ASSUME [LNext]_lvars  PROVE [Next]_vars
  OBVIOUS
<1>1. CASE UNCHANGED lvars
  BY <1>1 DEF lvars
<1>2. CASE ~closed /\ StartUp
  <2>1. Connect \/ Unavailable \/ UNCHANGED vars
    BY <1>2 DEF StartUp, Construct, startDirect, StartProxy, Hello, VersionMismatch, SpawnDaemon,
                Retry, GiveUp
  <2>2. QED  BY <1>2, <2>1 DEF Next
<1>3. CASE HostDies \/ ShimDies \/ StdinEnds
  BY <1>3 DEF HostDies, ShimDies, StdinEnds
<1>4. CASE ~closed /\ (StdinShutdown \/ PpidWatchdog \/ Terminated)
  BY <1>4 DEF StdinShutdown, PpidWatchdog, Terminated, Next
<1>5. CASE ~closed /\ Session
  BY <1>5 DEF Session, Ask, Next
<1>6. QED  BY <1>1, <1>2, <1>3, <1>4, <1>5 DEF LNext

(* However the daemon is looked for, and whoever ends the process, its     *)
(* requests are those of the proxy.                                        *)
THEOREM LauncherIsProxy == LSpec => Spec
<1>1. LInit => Init
  BY DEF LInit
<1>2. QED  BY <1>1, LauncherStep, PTL DEF LSpec, Spec

(* The whole process answers nothing twice and nothing unasked, in-process *)
(* or through a daemon, whatever becomes of its host.                      *)
THEOREM LauncherServes == LSpec => Service!SSafety
BY LauncherIsProxy, Refinement, PTL

(* What is known of parent and host was true when it was asked for.        *)
Known ==
    /\ originalPpid \in {None, Parent, Reaper} /\ hostPpid \in {Host, None}
    /\ originalPpid = None => phase = "load"
    /\ originalPpid = Reaper => Parent \notin alive /\ platform # "win32"

SInv == Known /\ NoEarlyExit

LEMMA PidFacts == Parent \in {Host, Shim} /\ Parent # Reaper /\ Parent # None /\ Reaper # None
BY LauncherAssumption DEF Parent

(* The watchdog is right.                                                  *)
LEMMA LostFacts ==
    ASSUME Known, Serving, supervisionLost
    PROVE  {Host, Parent} \ alive # {}
<1>1. originalPpid \in {Parent, Reaper}
  BY DEF Known, Serving
<1>2. CASE PpidOf(Parent) # originalPpid
  <2>1. originalPpid = Parent
    BY <1>1, <1>2 DEF PpidOf, Known
  <2>2. Parent \notin alive
    BY <1>2, <2>1 DEF PpidOf
  <2>3. QED  BY <2>2
<1>3. CASE originalPpid # Reaper /\ originalPpid \notin alive
  BY <1>1, <1>3
<1>4. CASE hostPpid # None /\ hostPpid \notin alive
  BY <1>4 DEF Known
<1>5. QED  BY <1>2, <1>3, <1>4 DEF supervisionLost

LEMMA SupervisionInit == LInit => SInv
<1> SUFFICES ASSUME LInit  PROVE SInv
  OBVIOUS
<1>1. hostPpid \in {Host, None} /\ originalPpid = None /\ phase = "load" /\ closed = FALSE
  BY DEF LInit, Init, parseHostPpid, PpidOf
<1>2. QED  BY <1>1, PidFacts DEF SInv, Known, NoEarlyExit

LEMMA SupervisionStep == SInv /\ [LNext]_lvars => SInv'
<1> SUFFICES ASSUME SInv, [LNext]_lvars  PROVE SInv'
  OBVIOUS
<1>1. Known /\ NoEarlyExit
  BY DEF SInv
<1>2. CASE UNCHANGED <<started, fixed, outside, closed>>
  BY <1>1, <1>2 DEF started, fixed, outside, SInv, Known, NoEarlyExit, Parent
<1>3. CASE UNCHANGED lvars
  BY <1>2, <1>3 DEF lvars, vars, conn
<1>4. CASE Session /\ Alone
  <2>1. UNCHANGED closed
    BY <1>4 DEF Session, Ask, Work, StaticRequest, RoutedRequest, NextBuffered, LocalAnswer,
                DaemonLine, DaemonTakes, DaemonAnswers, EngineReady, DaemonLost, DaemonWedges,
                DaemonDies, WatchdogKills, conn
  <2>2. QED  BY <1>2, <1>4, <2>1 DEF Alone
<1>5. CASE ~closed /\ (Construct \/ StartProxy)
  <2>1. /\ ~closed' /\ UNCHANGED <<hostPpid, platform, relaunched, alive>>
        /\ originalPpid' = PpidOf(Parent) /\ Parent' = Parent
    BY <1>5 DEF Construct, StartProxy, vars, conn, fixed, outside, Parent
  <2>2. /\ originalPpid' \in {Parent, Reaper}
        /\ originalPpid' = Reaper => Parent \notin alive /\ platform # "win32"
    BY <2>1, PidFacts DEF PpidOf
  <2>3. Known'
    BY <1>1, <2>1, <2>2, PidFacts DEF Known
  <2>4. QED  BY <2>1, <2>3 DEF SInv, NoEarlyExit
<1>6. CASE ~closed /\ (startDirect \/ Hello \/ VersionMismatch \/ SpawnDaemon \/ Retry \/ GiveUp)
  <2>1. ~closed' /\ UNCHANGED <<hostPpid, originalPpid, platform, relaunched, alive>> /\ phase # "load"
    BY <1>6 DEF startDirect, Hello, VersionMismatch, SpawnDaemon, Retry, GiveUp, Connecting, Phase,
                Connect, Unavailable, vars, conn, fixed, outside
  <2>2. Known'
    BY <1>1, <2>1 DEF Known, Parent
  <2>3. QED  BY <2>1, <2>2 DEF SInv, NoEarlyExit
<1>7. CASE ~closed /\ (HostDies \/ ShimDies \/ StdinEnds)
  <2>1. /\ ~closed' /\ UNCHANGED <<phase, hostPpid, originalPpid, platform, relaunched>>
        /\ alive' \subseteq alive
    BY <1>7 DEF HostDies, ShimDies, StdinEnds, vars, conn, started, fixed
  <2>2. Known'
    BY <1>1, <2>1 DEF Known, Parent
  <2>3. QED  BY <2>1, <2>2 DEF SInv, NoEarlyExit
<1>8. CASE StdinShutdown \/ PpidWatchdog \/ Terminated
  <2>1. UNCHANGED <<phase, hostPpid, originalPpid, platform, relaunched, alive, stdin>>
    BY <1>8 DEF StdinShutdown, PpidWatchdog, Terminated, started, fixed, outside
  <2>2. Known'
    BY <1>1, <2>1 DEF Known, Parent
  <2>3. stdin = "ended" \/ signalled' \/ {Host, Parent} \ alive # {}
    BY <1>1, <1>8, LostFacts DEF StdinShutdown, PpidWatchdog, Terminated
  <2>4. NoEarlyExit'
    BY <2>1, <2>3 DEF NoEarlyExit, Parent
  <2>5. QED  BY <2>2, <2>4 DEF SInv
<1>9. QED  BY <1>3, <1>4, <1>5, <1>6, <1>7, <1>8 DEF LNext, StartUp

(* The watchdog ends no process whose host and parent live, on no platform *)
(* and whether or not a process stands in between.                         *)
THEOREM NoEarlyExitHolds == LSpec => []NoEarlyExit
<1>1. SInv => NoEarlyExit
  BY DEF SInv
<1>2. QED  BY <1>1, SupervisionInit, SupervisionStep, PTL DEF LSpec
=============================================================================
