---------------------------- MODULE Engine_proofs ----------------------------
(***************************************************************************)
(* Proofs about the engine and its sessions, for any projects, any number  *)
(* of sessions and calls, as a daemon or as a direct process.              *)
(***************************************************************************)
EXTENDS Engine, TLAPS

Db == [root : Root, open : BOOLEAN, inode : Nat, sync : {"none", "running", "done", "failed"}]

Ids == 0..Len(dbs)

EngineTypes ==
    /\ indexed \subseteq Root /\ inode \in [Root -> Nat]
    /\ dbs \in Seq(Db)
    /\ cg \in Ids /\ default \in Ids /\ watching \in Ids /\ gate \in Ids
    /\ projectCache \in [Root -> Ids]
    /\ projectPath \in Root \cup {NoRoot} /\ opening \in Root \cup {NoRoot}
    /\ closed \in BOOLEAN /\ grammars \in BOOLEAN /\ watcherStarted \in BOOLEAN

SessionTypes ==
    /\ explicit \in [Session -> {Cwd, NoRoot}] /\ uri \in [Session -> Root \cup {NoRoot}]
    /\ roots \in [Session -> BOOLEAN]
    /\ greeted \in [Session -> BOOLEAN] /\ rootsAttempted \in [Session -> BOOLEAN]
    /\ resolvePromise \in [Session -> {"none", "engine", "roots"}]
    /\ rootsReply \in [Session -> {"none", "came"}]
    /\ pc \in [Call -> {"new", "resolve", "roots", "execute", "gate", "done"}]
    /\ gated \in [Call -> Nat]
    /\ answer \in [Call -> {"none", "listed", "other", "error", "replaced", "stale", "current"}]

(* The default instance is adopted once: never while there is one, and an  *)
(* open is under way only as long as there is none.                        *)
OneDefault ==
    /\ cg = default \/ (closed /\ cg = NoDb)
    /\ watcherStarted => default # NoDb
    /\ opening # NoRoot => default = NoDb

(* Who may ask for the project: a daemon's sessions are told it, and it is *)
(* being opened until the grammars are loaded; a direct process has one    *)
(* session.                                                                *)
Daemonic == projectPath # NoRoot /\ \A s \in Session : explicit[s] = Cwd
Direct == \A s \in Session : explicit[s] = NoRoot /\ (greeted[s] => s = Only)

Modes ==
    /\ Daemonic \/ Direct
    /\ Daemonic /\ ~grammars => opening # NoRoot
    /\ \A s \in Session : resolvePromise[s] # "none" => greeted[s]
    /\ \A c \in Call : pc[c] # "new" => greeted[SessionOf[c]]

(* While the project is being opened nobody gets past the promise: a call  *)
(* that has come waits for it, and so will one that is still to come, but  *)
(* for those that cannot come before the open has ended.                   *)
Waited ==
    opening # NoRoot =>
        /\ \A c \in Call : pc[c] \in {"resolve", "roots"} => resolvePromise[SessionOf[c]] # "none"
        /\ ~grammars => \A s \in Session : greeted[s] => resolvePromise[s] # "none"
        /\ Direct => greeted[Only]

(* A promise that settles has made the engine look for a project.          *)
Looked == projectPath # NoRoot \/ default # NoDb

HintKnown ==
    /\ opening # NoRoot => projectPath # NoRoot
    /\ \A s \in Session : resolvePromise[s] = "engine" \/ rootsReply[s] = "came" => Looked
    /\ \A c \in Call : pc[c] = "resolve" /\ resolvePromise[SessionOf[c]] = "none" => Looked

(* The catch-up of the default instance is waited for at the gate, or      *)
(* behind it; what has caught up is current.                               *)
Gated ==
    /\ gate # NoDb => gate = default
    /\ \A c \in Call : gated[c] # NoDb => gated[c] = default
    /\ \A c \in Call : pc[c] = "gate" => gated[c] # NoDb
    /\ default # NoDb => dbs[default].sync # "none"
    /\ default # NoDb /\ dbs[default].sync = "running" =>
          gate = default \/ \E c \in Call : pc[c] = "gate" /\ gated[c] = default

Current == \A d \in 1..Len(dbs) : dbs[d].sync = "done" => dbs[d].root \notin outdated

EngineOK == EngineTypes /\ OneDefault /\ NothingLeaks /\ WatchedIsServed /\ Current
SessionOK == SessionTypes /\ Modes /\ Waited /\ HintKnown

IInv == EngineOK /\ SessionOK /\ Gated
-----------------------------------------------------------------------------
(* The instances, one more of them, and one that is changed in place.      *)
LEMMA OneMoreDb ==
    ASSUME dbs \in Seq(Db), NEW x \in Db, dbs' = Append(dbs, x)
    PROVE  /\ dbs' \in Seq(Db) /\ Len(dbs') = Len(dbs) + 1 /\ Len(dbs) \in Nat
           /\ dbs'[Len(dbs) + 1] = x /\ \A d \in 1..Len(dbs) : dbs'[d] = dbs[d]
BY Z3

LEMMA ChangedDb ==
    ASSUME dbs \in Seq(Db), NEW i \in 1..Len(dbs), NEW x \in Db, dbs' = [dbs EXCEPT ![i] = x]
    PROVE  /\ dbs' \in Seq(Db) /\ Len(dbs') = Len(dbs) /\ Len(dbs) \in Nat
           /\ dbs'[i] = x /\ \A d \in 1..Len(dbs) : d # i => dbs'[d] = dbs[d]
BY Z3

LEMMA DbFields ==
    ASSUME dbs \in Seq(Db), NEW d \in 1..Len(dbs)
    PROVE  /\ dbs[d] \in Db /\ dbs[d].root \in Root /\ dbs[d].open \in BOOLEAN /\ dbs[d].inode \in Nat
           /\ dbs[d].sync \in {"none", "running", "done", "failed"}
<1>1. dbs[d] \in Db
  OBVIOUS
<1>2. QED  BY <1>1 DEF Db

LEMMA InitInv == Init => IInv
<1> SUFFICES ASSUME Init  PROVE IInv
  OBVIOUS
<1>1. /\ dbs = <<>> /\ Len(dbs) = 0 /\ dbs \in Seq(Db) /\ Ids = {0} /\ 1..Len(dbs) = {}
  BY DEF Init, Ids
<1>2. EngineTypes
  <2>1. /\ indexed \subseteq Root /\ inode \in [Root -> Nat] /\ projectCache \in [Root -> Ids]
        /\ cg \in Ids /\ default \in Ids /\ watching \in Ids /\ gate \in Ids
    BY <1>1 DEF Init, NoDb
  <2>2. projectPath \in Root \cup {NoRoot} /\ opening \in Root \cup {NoRoot}
    BY EngineAssumption DEF Init
  <2>3. closed \in BOOLEAN /\ grammars \in BOOLEAN /\ watcherStarted \in BOOLEAN
    BY DEF Init
  <2>4. QED  BY <1>1, <2>1, <2>2, <2>3 DEF EngineTypes
<1>3. SessionTypes
  <2>0. roots \in [Session -> BOOLEAN]
    <3>1. CASE roots = [s \in Session |-> FALSE]
      BY <3>1
    <3>2. ASSUME NEW b \in BOOLEAN, roots = [s \in Session |-> s = Only /\ b]
          PROVE  roots \in [Session -> BOOLEAN]
      BY <3>2
    <3>3. QED  BY <3>1, <3>2 DEF Init
  <2>1. explicit \in [Session -> {Cwd, NoRoot}] /\ uri \in [Session -> Root \cup {NoRoot}]
    BY EngineAssumption DEF Init
  <2>2. /\ greeted \in [Session -> BOOLEAN] /\ rootsAttempted \in [Session -> BOOLEAN]
        /\ resolvePromise \in [Session -> {"none", "engine", "roots"}]
        /\ rootsReply \in [Session -> {"none", "came"}]
    BY DEF Init
  <2>3. /\ pc \in [Call -> {"new", "resolve", "roots", "execute", "gate", "done"}]
        /\ gated \in [Call -> Nat]
        /\ answer \in [Call -> {"none", "listed", "other", "error", "replaced", "stale", "current"}]
    BY DEF Init, NoDb
  <2>4. QED  BY <2>0, <2>1, <2>2, <2>3 DEF SessionTypes
<1>4. OneDefault /\ NothingLeaks /\ WatchedIsServed /\ Current /\ Gated
  BY <1>1, EngineAssumption DEF Init, OneDefault, NothingLeaks, WatchedIsServed, Current, Gated
<1>5. Modes /\ Waited /\ HintKnown
  BY EngineAssumption DEF Init, Modes, Waited, HintKnown, Daemonic, Direct, Looked
<1>6. QED  BY <1>2, <1>3, <1>4, <1>5 DEF IInv, EngineOK, SessionOK
-----------------------------------------------------------------------------
(* What the steps do to the engine.  It may look for the project, or take  *)
(* the gate away, without touching an instance.                            *)
LEMMA LookOK ==
    ASSUME EngineOK, UNCHANGED <<disk, dbs, cg, default, watcherStarted, watching, closed, projectCache>>,
           gate' \in {gate, NoDb}, grammars' \in BOOLEAN, projectPath' \in Root \cup {NoRoot},
           opening' \in Root \cup {NoRoot}, opening' # NoRoot => default = NoDb
    PROVE  EngineOK'
<1>1. EngineTypes'
  <2>1. Len(dbs) \in Nat
    BY DEF EngineOK, EngineTypes
  <2>2. NoDb \in Ids
    BY <2>1 DEF Ids, NoDb
  <2>3. QED  BY <2>2 DEF EngineOK, EngineTypes, Ids, disk
<1>2. OneDefault' /\ NothingLeaks' /\ WatchedIsServed' /\ Current'
  BY DEF EngineOK, OneDefault, NothingLeaks, WatchedIsServed, Current, Cached, disk
<1>3. QED  BY <1>1, <1>2 DEF EngineOK

(* The first instance that is found becomes the default one.               *)
LEMMA AdoptOK ==
    ASSUME EngineOK, NEW r \in Root, default = NoDb, dbs' = Append(dbs, Opened(r, "running")),
           Adopt(Len(dbs) + 1), UNCHANGED <<disk, closed, projectCache>>, opening' = NoRoot,
           projectPath' \in Root \cup {NoRoot}, grammars' \in BOOLEAN
    PROVE  /\ EngineOK' /\ default' = Len(dbs) + 1 /\ default' # NoDb /\ gate' = default'
           /\ dbs'[default'].sync = "running"
<1> DEFINE n == Len(dbs) + 1
           x == Opened(r, "running")
<1>1. x \in Db /\ x.open /\ x.sync = "running"
  BY DEF Opened, Db, EngineOK, EngineTypes
<1>2. dbs \in Seq(Db)
  BY DEF EngineOK, EngineTypes
<1> HIDE DEF x
<1>3. /\ dbs' \in Seq(Db) /\ Len(dbs') = n /\ Len(dbs) \in Nat /\ dbs'[n] = x
      /\ \A d \in 1..Len(dbs) : dbs'[d] = dbs[d]
  BY <1>1, <1>2, OneMoreDb DEF x
<1>4. Ids' = 0..n /\ Ids \subseteq Ids' /\ n \in Ids' /\ n # NoDb /\ NoDb \in Ids'
      /\ \A d \in 1..n : d = n \/ d \in 1..Len(dbs)
  BY <1>3 DEF Ids, NoDb
<1>5. cg' = n /\ default' = n /\ gate' = n /\ watching' \in {n, NoDb, watching}
      /\ (watching' # watching => watching' \in {n, NoDb}) /\ watcherStarted' = TRUE
      /\ (watcherStarted => watching' = watching) /\ (~watcherStarted => watching' \in {n, NoDb})
  BY DEF Adopt
<1>6. watching' \in {n, NoDb}
  BY <1>5 DEF EngineOK, OneDefault
<1>7. EngineTypes'
  BY <1>3, <1>4, <1>5, <1>6 DEF EngineOK, EngineTypes, disk
<1>8. OneDefault' /\ WatchedIsServed'
  BY <1>1, <1>3, <1>4, <1>5, <1>6 DEF OneDefault, WatchedIsServed
<1>9. NothingLeaks'
  <2> SUFFICES ASSUME NEW d \in 1..n, dbs'[d].open
               PROVE  IF closed THEN d = n ELSE d = n \/ d \in Cached
    BY <1>3, <1>5 DEF NothingLeaks, Cached
  <2>1. CASE d = n
    BY <2>1
  <2>2. CASE d \in 1..Len(dbs)
    <3>1. dbs[d].open /\ d # NoDb
      BY <1>3, <2>2 DEF NoDb
    <3>2. QED  BY <2>2, <3>1 DEF EngineOK, NothingLeaks, OneDefault
  <2>3. QED  BY <1>4, <2>1, <2>2
<1>10. Current'
  BY <1>1, <1>3, <1>4 DEF EngineOK, Current, disk
<1>11. QED  BY <1>1, <1>3, <1>4, <1>5, <1>7, <1>8, <1>9, <1>10 DEF EngineOK

(* retryInitializeSync(), when no open is under way.                       *)
LEMMA RetryOK ==
    ASSUME EngineOK, opening = NoRoot, NEW p \in Root, retryInitializeSync(p),
           UNCHANGED <<disk, closed, grammars, projectCache>>
    PROVE  /\ EngineOK' /\ opening' = NoRoot /\ (Looked => Looked')
           /\ \/ UNCHANGED <<dbs, default, gate, projectPath>>
              \/ /\ default = NoDb /\ default' # NoDb /\ gate' = default'
                 /\ dbs'[default'].sync = "running"
<1>1. opening' = NoRoot /\ grammars \in BOOLEAN /\ projectPath \in Root \cup {NoRoot}
  BY DEF retryInitializeSync, EngineOK, EngineTypes
<1>2. CASE UNCHANGED <<dbs, cg, default, projectPath, watcherStarted, watching, gate>>
  BY <1>1, <1>2, LookOK DEF Looked
<1>3. CASE /\ default = NoDb
           /\ dbs' = Append(dbs, Opened(p, "running")) /\ Adopt(Len(dbs) + 1) /\ projectPath' = p
  BY <1>1, <1>3, AdoptOK DEF Looked
<1>4. QED  BY <1>2, <1>3 DEF retryInitializeSync

(* ensureInitialized() leaves a project to look for, or an instance.       *)
LEMMA EnsureOK ==
    ASSUME EngineOK, HintKnown, ~closed, NEW p \in Root, ensureInitialized(p), UNCHANGED grammars,
           UNCHANGED <<disk, dbs, cg, default, watcherStarted, watching, gate, closed, projectCache>>
    PROVE  /\ EngineOK' /\ Looked' /\ (opening' # NoRoot => projectPath' # NoRoot)
           /\ (projectPath # NoRoot => projectPath' # NoRoot)
           /\ (opening # NoRoot => opening' = opening)
<1>1. p # NoRoot
  BY EngineAssumption
<1>2. /\ opening' \in Root \cup {NoRoot} /\ projectPath' \in Root \cup {NoRoot} /\ grammars' \in BOOLEAN
      /\ (opening' # NoRoot => default = NoDb)
  BY DEF ensureInitialized, EngineOK, EngineTypes, OneDefault
<1>3. EngineOK'
  BY <1>2, LookOK
<1>4. QED
  BY <1>1, <1>3 DEF ensureInitialized, HintKnown, Looked
-----------------------------------------------------------------------------
(* The gate while nobody comes to it or leaves it.                         *)
LEMMA GatedSame ==
    ASSUME Gated, UNCHANGED gated, \A c \in Call : pc'[c] = "gate" <=> pc[c] = "gate",
           \/ UNCHANGED <<dbs, default, gate>>
           \/ /\ default = NoDb /\ default' # NoDb /\ gate' = default'
              /\ dbs'[default'].sync = "running"
    PROVE  Gated'
<1>1. CASE UNCHANGED <<dbs, default, gate>>
  BY <1>1 DEF Gated
<1>2. CASE /\ default = NoDb /\ default' # NoDb /\ gate' = default'
           /\ dbs'[default'].sync = "running"
  <2>1. \A c \in Call : gated[c] = NoDb /\ pc[c] # "gate"
    BY <1>2 DEF Gated
  <2>2. QED  BY <1>2, <2>1 DEF Gated
<1>3. QED  BY <1>1, <1>2

(* While nothing is ready every call that waits has a promise to wait for. *)
LEMMA IdleWaits ==
    ASSUME Idle, NEW c \in Call, pc[c] \in {"resolve", "roots"}
    PROVE  resolvePromise[SessionOf[c]] # "none"
BY DEF Idle, Ready, Settled

(* A call that may go on does so when no open is under way.                *)
LEMMA NobodyOpens ==
    ASSUME IInv, NEW c \in Call,
           \/ Idle /\ greeted[SessionOf[c]] /\ resolvePromise[SessionOf[c]] = "none"
           \/ pc[c] \in {"resolve", "roots"} /\ Settled(SessionOf[c])
    PROVE  opening = NoRoot
<1>1. SessionOf[c] \in Session
  BY EngineAssumption
<1>2. CASE Idle /\ greeted[SessionOf[c]] /\ resolvePromise[SessionOf[c]] = "none"
  BY <1>1, <1>2 DEF Idle, IInv, SessionOK, Waited
<1>3. CASE pc[c] \in {"resolve", "roots"} /\ Settled(SessionOf[c])
  BY <1>3 DEF Settled, IInv, SessionOK, Waited
<1>4. QED  BY <1>2, <1>3

(* The hint is missing only while nobody has looked.                       *)
LEMMA HintOrLooked ==
    ASSUME IInv, NEW c \in Call, pc[c] \in {"resolve", "roots"}, Settled(SessionOf[c])
    PROVE  Looked \/ (pc[c] = "roots" /\ resolvePromise[SessionOf[c]] = "none")
<1>1. SessionOf[c] \in Session
  BY EngineAssumption
<1>2. QED  BY <1>1 DEF Settled, IInv, SessionOK, HintKnown

(* The promise of a session is dropped, with no open under way.            *)
LEMMA DropPromise ==
    ASSUME IInv, NEW c \in Call, greeted[SessionOf[c]], opening' = NoRoot,
           resolvePromise' = [resolvePromise EXCEPT ![SessionOf[c]] = "none"],
           pc' = [pc EXCEPT ![c] = "execute"], grammars' = grammars,
           resolvePromise[SessionOf[c]] = "none" \/ Looked, Looked => Looked',
           projectPath # NoRoot => projectPath' # NoRoot, opening = NoRoot,
           UNCHANGED <<clients, greeted, rootsAttempted, rootsReply, gated, answer>>
    PROVE  SessionOK'
<1>1. SessionOf[c] \in Session /\ SessionOf \in [Call -> Session]
  BY EngineAssumption
<1>2. SessionTypes'
  BY <1>1 DEF IInv, SessionOK, SessionTypes, clients
<1>3. Modes'
  <2>1. explicit' = explicit /\ greeted' = greeted /\ Cwd # NoRoot
    BY EngineAssumption DEF clients
  <2>2. Daemonic' <=> Daemonic
    BY <1>1, <2>1 DEF IInv, SessionOK, Modes, Daemonic, Direct
  <2>3. Direct' <=> Direct
    BY <2>1 DEF Direct
  <2>4. \A s \in Session : resolvePromise'[s] # "none" => greeted'[s]
    BY <1>1, <2>1 DEF IInv, SessionOK, SessionTypes, Modes
  <2>5. QED  BY <2>2, <2>3, <2>4 DEF IInv, SessionOK, Modes
<1>4. Waited'
  BY DEF Waited
<1>5. HintKnown'
  <2>1. \A s \in Session : resolvePromise'[s] = "engine" \/ rootsReply'[s] = "came" => Looked
    BY <1>1 DEF IInv, SessionOK, SessionTypes, HintKnown
  <2>2. \A d \in Call : pc'[d] = "resolve" /\ resolvePromise'[SessionOf[d]] = "none" => Looked
    BY <1>1 DEF IInv, SessionOK, SessionTypes, HintKnown
  <2>3. QED  BY <2>1, <2>2 DEF HintKnown
<1>6. QED  BY <1>2, <1>3, <1>4, <1>5 DEF SessionOK
-----------------------------------------------------------------------------
(* The steps of a session.                                                 *)
LEMMA ModeKept ==
    ASSUME SessionOK, UNCHANGED explicit, projectPath # NoRoot => projectPath' # NoRoot
    PROVE  Daemonic' <=> Daemonic
<1>1. Only \in Session /\ Cwd # NoRoot
  BY EngineAssumption
<1>2. QED  BY <1>1 DEF SessionOK, Modes, Daemonic, Direct

(* Nobody has looked: the client is asked for its roots, or the project is *)
(* that of the working directory.  Only a direct process comes here.       *)
LEMMA AskInv ==
    ASSUME IInv, NEW c \in Call, Idle, ~closed, greeted[SessionOf[c]], pc[c] # "gate",
           resolvePromise[SessionOf[c]] = "none", explicit[SessionOf[c]] = NoRoot, ~Looked,
           rootsAttempted' = [rootsAttempted EXCEPT ![SessionOf[c]] = TRUE],
           resolvePromise' = [resolvePromise EXCEPT ![SessionOf[c]] =
                                  IF roots[SessionOf[c]] THEN "roots" ELSE "engine"],
           pc' = [pc EXCEPT ![c] = "roots"],
           \/ roots[SessionOf[c]] /\ UNCHANGED <<projectPath, opening>>
           \/ ~roots[SessionOf[c]] /\ ensureInitialized(Cwd),
           UNCHANGED <<dbs, cg, default, watcherStarted, watching, gate, disk, closed, grammars,
                       projectCache, clients, greeted, rootsReply, gated, answer>>
    PROVE  IInv'
<1> DEFINE s == SessionOf[c]
<1>1. s \in Session /\ SessionOf \in [Call -> Session] /\ Cwd \in Root /\ Cwd # NoRoot
  BY EngineAssumption
<1> HIDE DEF s
<1>2. opening = NoRoot /\ default = NoDb /\ projectPath = NoRoot
  BY NobodyOpens DEF Looked
<1>3. Direct /\ ~Daemonic /\ s = Only
  BY <1>1 DEF s, IInv, SessionOK, Modes, Daemonic, Direct
<1>4. UNCHANGED explicit /\ UNCHANGED uri /\ UNCHANGED roots
  BY DEF clients
<1>5. EngineOK' /\ (roots[s] \/ Looked') /\ (opening' # NoRoot => projectPath' # NoRoot) /\ ~Daemonic'
  <2>1. CASE roots[s] /\ UNCHANGED <<projectPath, opening>>
    <3>1. EngineOK'
      BY <1>2, <2>1, LookOK DEF IInv, EngineOK, EngineTypes
    <3>2. QED  BY <1>2, <2>1, <3>1 DEF Daemonic
  <2>2. CASE ~roots[s] /\ ensureInitialized(Cwd)
    <3>1. EngineOK' /\ Looked' /\ (opening' # NoRoot => projectPath' # NoRoot)
      BY <1>1, <2>2, EnsureOK DEF IInv, SessionOK
    <3>2. QED  BY <1>1, <1>3, <1>4, <3>1, ModeKept DEF IInv, SessionOK, Direct, Daemonic
  <2>3. QED  BY <2>1, <2>2 DEF s
<1>6. /\ \A d \in Call : pc'[d] = IF d = c THEN "roots" ELSE pc[d]
      /\ \A t \in Session : resolvePromise'[t] = IF t = s THEN (IF roots[s] THEN "roots" ELSE "engine")
                                                 ELSE resolvePromise[t]
      /\ resolvePromise'[s] # "none"
  BY <1>1 DEF s, IInv, SessionOK, SessionTypes
<1>7. SessionTypes'
  BY <1>1, <1>4 DEF s, IInv, SessionOK, SessionTypes
<1>8. Modes'
  BY <1>3, <1>4, <1>5, <1>6 DEF s, IInv, SessionOK, Modes, Direct
<1>9. Waited'
  <2>1. ASSUME NEW d \in Call, pc'[d] \in {"resolve", "roots"}
        PROVE  resolvePromise'[SessionOf[d]] # "none"
    <3>1. SessionOf[d] \in Session
      BY <1>1
    <3>2. CASE SessionOf[d] = s
      BY <1>6, <3>2
    <3>3. CASE SessionOf[d] # s
      <4>1. d # c
        BY <3>3 DEF s
      <4>2. resolvePromise[SessionOf[d]] # "none"
        BY <1>6, <2>1, <4>1, IdleWaits
      <4>3. QED  BY <1>6, <3>1, <3>3, <4>2
    <3>4. QED  BY <3>2, <3>3
  <2>2. \A t \in Session : greeted'[t] => t = s
    BY <1>3 DEF Direct
  <2>3. greeted'[Only]
    BY <1>3 DEF s
  <2>4. QED  BY <1>6, <2>1, <2>2, <2>3 DEF Waited
<1>10. HintKnown'
  <2>1. \A t \in Session : resolvePromise[t] # "engine" /\ rootsReply[t] # "came"
    BY DEF IInv, SessionOK, HintKnown
  <2>2. \A d \in Call : pc'[d] = "resolve" => resolvePromise'[SessionOf[d]] # "none"
    BY <1>1, <1>6, IdleWaits
  <2>3. QED  BY <1>5, <1>6, <2>1, <2>2 DEF HintKnown
<1>11. Gated'
  BY <1>6, GatedSame DEF IInv
<1>12. QED  BY <1>5, <1>7, <1>8, <1>9, <1>10, <1>11 DEF IInv, SessionOK

(* A call that has waited, or need not, looks for the project.             *)
LEMMA FindInv ==
    ASSUME IInv, NEW c \in Call, FindProject(c), ~closed, greeted[SessionOf[c]],
           pc[c] \in {"new", "resolve"},
           \/ Idle /\ resolvePromise[SessionOf[c]] = "none"
           \/ pc[c] = "resolve" /\ Settled(SessionOf[c]),
           UNCHANGED <<disk, closed, grammars, projectCache, clients, greeted, rootsReply, gated, answer>>
    PROVE  IInv'
<1> DEFINE s == SessionOf[c]
           hint == IF explicit[s] # NoRoot THEN explicit[s] ELSE projectPath
<1>1. s \in Session /\ Cwd \in Root /\ Cwd # NoRoot
  BY EngineAssumption
<1>2. opening = NoRoot
  BY NobodyOpens
<1>3. resolvePromise[s] = "none" \/ Looked
  BY HintOrLooked
<1>4. hint \in Root \cup {NoRoot}
  BY <1>1 DEF IInv, SessionOK, SessionTypes, EngineOK, EngineTypes
<1>5. CASE /\ default # NoDb /\ pc' = [pc EXCEPT ![c] = "execute"]
           /\ resolvePromise' = [resolvePromise EXCEPT ![s] = "none"]
           /\ UNCHANGED <<dbs, engine, rootsAttempted>>
  <2>1. SessionOK'
    BY <1>2, <1>3, <1>5, DropPromise DEF engine, Looked
  <2>2. Gated'
    BY <1>5, GatedSame DEF engine, IInv, SessionOK, SessionTypes
  <2>3. EngineOK'
    BY <1>2, <1>5, LookOK DEF engine, IInv, EngineOK, EngineTypes
  <2>4. QED  BY <2>1, <2>2, <2>3 DEF IInv
<1>6. CASE /\ default = NoDb /\ hint = NoRoot /\ ~rootsAttempted[s]
           /\ rootsAttempted' = [rootsAttempted EXCEPT ![s] = TRUE]
           /\ resolvePromise' = [resolvePromise EXCEPT ![s] = IF roots[s] THEN "roots" ELSE "engine"]
           /\ pc' = [pc EXCEPT ![c] = "roots"]
           /\ \/ roots[s] /\ UNCHANGED <<projectPath, opening>>
              \/ ~roots[s] /\ ensureInitialized(Cwd)
           /\ UNCHANGED <<dbs, cg, default, watcherStarted, watching, gate>>
  <2>1. explicit[s] = NoRoot /\ ~Looked
    BY <1>6 DEF Looked
  <2>2. Idle /\ resolvePromise[s] = "none"
    BY <2>1, HintOrLooked
  <2>3. QED  BY <1>6, <2>1, <2>2, AskInv
<1>7. CASE /\ default = NoDb
           /\ retryInitializeSync(IF hint # NoRoot THEN hint ELSE Cwd)
           /\ pc' = [pc EXCEPT ![c] = "execute"]
           /\ resolvePromise' = [resolvePromise EXCEPT ![s] = "none"]
           /\ UNCHANGED rootsAttempted
  <2> DEFINE p == IF hint # NoRoot THEN hint ELSE Cwd
  <2>1. p \in Root
    BY <1>1, <1>4
  <2> HIDE DEF p
  <2>2. /\ EngineOK' /\ opening' = NoRoot /\ (Looked => Looked')
        /\ \/ UNCHANGED <<dbs, default, gate, projectPath>>
           \/ /\ default = NoDb /\ default' # NoDb /\ gate' = default'
              /\ dbs'[default'].sync = "running"
    <3>1. retryInitializeSync(p)
      BY <1>7 DEF p
    <3>2. QED  BY <1>2, <2>1, <3>1, RetryOK DEF IInv
  <2>3. projectPath # NoRoot => projectPath' # NoRoot
    <3>1. projectPath' = projectPath \/ projectPath' = p
      BY <1>7 DEF retryInitializeSync, p
    <3>2. p # NoRoot
      BY <2>1, EngineAssumption
    <3>3. QED  BY <3>1, <3>2
  <2>4. SessionOK'
    BY <1>2, <1>3, <1>7, <2>2, <2>3, DropPromise
  <2>5. Gated'
    BY <1>7, <2>2, GatedSame DEF IInv, SessionOK, SessionTypes
  <2>6. QED  BY <2>2, <2>4, <2>5 DEF IInv
<1>8. QED  BY <1>5, <1>6, <1>7 DEF FindProject
LEMMA RequestInv ==
    ASSUME IInv, NEW c \in Call, Request(c)
    PROVE  IInv'
<1> DEFINE s == SessionOf[c]
<1>1. s \in Session
  BY EngineAssumption
<1>2. Idle /\ ~closed /\ greeted[s] /\ pc[c] = "new"
  BY DEF Request
<1>3. CASE resolvePromise[s] = "none" /\ FindProject(c)
  BY <1>2, <1>3, FindInv DEF Request
<1>4. CASE /\ resolvePromise[s] # "none" /\ pc' = [pc EXCEPT ![c] = "resolve"]
           /\ UNCHANGED <<dbs, engine, resolvePromise, rootsAttempted>>
  <2>1. UNCHANGED <<disk, closed, grammars, projectCache, clients, greeted, rootsReply, gated, answer>>
    BY DEF Request
  <2>2. EngineOK'
    BY <1>4, <2>1, LookOK DEF engine, IInv, EngineOK, EngineTypes, OneDefault
  <2>3. \A d \in Call : pc'[d] = IF d = c THEN "resolve" ELSE pc[d]
    BY <1>4 DEF IInv, SessionOK, SessionTypes
  <2>4. SessionTypes'
    BY <1>4, <2>1 DEF IInv, SessionOK, SessionTypes, clients
  <2>5. Modes' /\ Waited' /\ HintKnown'
    BY <1>2, <1>4, <2>1, <2>3
       DEF IInv, SessionOK, Modes, Waited, HintKnown, Daemonic, Direct, Looked, engine, clients
  <2>6. Gated'
    BY <1>2, <1>4, <2>1, <2>3, GatedSame DEF engine, IInv
  <2>7. QED  BY <2>2, <2>4, <2>5, <2>6 DEF IInv, SessionOK
<1>5. QED  BY <1>3, <1>4 DEF Request

LEMMA ResolvedInv ==
    ASSUME IInv, NEW c \in Call, Resolved(c)
    PROVE  IInv'
<1>1. SessionOf[c] \in Session /\ greeted[SessionOf[c]]
  BY EngineAssumption DEF Resolved, IInv, SessionOK, Modes
<1>2. QED  BY <1>1, FindInv DEF Resolved

LEMMA RootsResolvedInv ==
    ASSUME IInv, NEW c \in Call, RootsResolved(c)
    PROVE  IInv'
<1> DEFINE s == SessionOf[c]
<1>1. /\ s \in Session /\ Cwd \in Root /\ pc[c] = "roots" /\ Settled(s) /\ greeted[s]
      /\ resolvePromise' = [resolvePromise EXCEPT ![s] = "none"]
      /\ pc' = [pc EXCEPT ![c] = "execute"]
  BY EngineAssumption DEF RootsResolved, IInv, SessionOK, Modes
<1>2. UNCHANGED <<disk, closed, grammars, projectCache, clients, greeted, rootsAttempted, rootsReply,
                  gated, answer>>
  BY DEF RootsResolved
<1>3. opening = NoRoot /\ (Looked \/ resolvePromise[s] = "none")
  BY <1>1, NobodyOpens, HintOrLooked
<1>4. /\ EngineOK' /\ opening' = NoRoot /\ (Looked => Looked')
      /\ (projectPath # NoRoot => projectPath' # NoRoot)
      /\ \/ UNCHANGED <<dbs, default, gate>>
         \/ /\ default = NoDb /\ default' # NoDb /\ gate' = default'
            /\ dbs'[default'].sync = "running"
  <2>1. CASE UNCHANGED <<dbs, engine>>
    <3>1. EngineOK'
      BY <1>2, <1>3, <2>1, LookOK DEF engine, IInv, EngineOK, EngineTypes
    <3>2. QED  BY <1>3, <2>1, <3>1 DEF engine, Looked
  <2>2. CASE default = NoDb /\ retryInitializeSync(Cwd)
    <3>1. projectPath' \in {projectPath, Cwd} /\ Cwd # NoRoot
      BY <2>2, EngineAssumption DEF retryInitializeSync
    <3>2. QED  BY <1>1, <1>2, <1>3, <2>2, <3>1, RetryOK DEF IInv
  <2>3. QED  BY <2>1, <2>2 DEF RootsResolved
<1>5. SessionOK'
  BY <1>1, <1>2, <1>3, <1>4, DropPromise
<1>6. Gated'
  BY <1>1, <1>2, <1>4, GatedSame DEF IInv, SessionOK, SessionTypes
<1>7. QED  BY <1>4, <1>5, <1>6 DEF IInv

(* An open that a message begins finds every call waiting for its promise. *)
LEMMA MessageWaits ==
    ASSUME IInv, Idle, NEW s \in Session, explicit[s] # NoRoot \/ s = Only,
           UNCHANGED <<pc, explicit, grammars>>, resolvePromise'[s] # "none", greeted'[s],
           \A t \in Session : /\ resolvePromise[t] # "none" => resolvePromise'[t] # "none"
                              /\ greeted'[t] <=> greeted[t] \/ t = s,
           opening # NoRoot => opening' = opening
    PROVE  Waited'
<1>1. SessionOf \in [Call -> Session] /\ Only \in Session /\ Cwd # NoRoot
  BY EngineAssumption
<1>2. \A c \in Call : pc'[c] \in {"resolve", "roots"} => resolvePromise'[SessionOf[c]] # "none"
  BY <1>1, IdleWaits
<1>3. CASE opening # NoRoot
  BY <1>1, <1>2, <1>3 DEF IInv, SessionOK, Waited, Direct
<1>4. CASE opening = NoRoot
  <2>1. ~grammars => \A t \in Session : greeted'[t] => t = s
    BY <1>1, <1>4 DEF IInv, SessionOK, Modes, Direct
  <2>2. Direct' => greeted'[Only]
    BY DEF Direct
  <2>3. QED  BY <1>2, <2>1, <2>2 DEF Waited
<1>5. QED  BY <1>3, <1>4

LEMMA RootsAnswerInv ==
    ASSUME IInv, NEW s \in Session, NEW p \in Root, RootsAnswer(s, p)
    PROVE  IInv'
<1>1. /\ Idle /\ ~closed /\ resolvePromise[s] = "roots" /\ ensureInitialized(p)
      /\ rootsReply' = [rootsReply EXCEPT ![s] = "came"]
      /\ UNCHANGED <<dbs, cg, default, watcherStarted, watching, gate, closed, grammars, projectCache,
                     disk, explicit, uri, roots, greeted, resolvePromise, rootsAttempted, pc, gated, answer>>
  BY DEF RootsAnswer, clients, call
<1>2. /\ EngineOK' /\ Looked' /\ (opening' # NoRoot => projectPath' # NoRoot)
      /\ (projectPath # NoRoot => projectPath' # NoRoot) /\ (opening # NoRoot => opening' = opening)
  BY <1>1, EnsureOK DEF IInv, SessionOK
<1>3. SessionTypes' /\ greeted[s]
  BY <1>1 DEF IInv, SessionOK, SessionTypes, Modes
<1>4. Modes'
  BY <1>1, <1>2, ModeKept DEF IInv, SessionOK, Modes, Direct
<1>5. Waited'
  <2>1. explicit[s] # NoRoot \/ s = Only
    BY <1>3, EngineAssumption DEF IInv, SessionOK, Modes, Daemonic, Direct
  <2>2. QED  BY <1>1, <1>2, <1>3, <2>1, MessageWaits
<1>6. HintKnown'
  BY <1>2 DEF HintKnown
<1>7. Gated'
  BY <1>1, GatedSame DEF IInv
<1>8. QED  BY <1>2, <1>3, <1>4, <1>5, <1>6, <1>7 DEF IInv, SessionOK

LEMMA handleInitializeInv ==
    ASSUME IInv, NEW s \in Session, handleInitialize(s)
    PROVE  IInv'
<1> DEFINE p == IF uri[s] # NoRoot THEN uri[s] ELSE explicit[s]
<1>1. /\ Idle /\ ~closed /\ ~greeted[s] /\ (explicit[s] # NoRoot \/ s = Only)
      /\ greeted' = [greeted EXCEPT ![s] = TRUE]
      /\ UNCHANGED <<dbs, cg, default, watcherStarted, watching, gate, closed, grammars, projectCache,
                     disk, explicit, uri, roots, rootsReply, rootsAttempted, pc, gated, answer>>
      /\ p \in Root \cup {NoRoot}
  BY EngineAssumption DEF handleInitialize, MayConnect, clients, call, IInv, SessionOK, SessionTypes
<1>2. /\ \A t \in Session : greeted'[t] <=> greeted[t] \/ t = s
      /\ greeted' \in [Session -> BOOLEAN]
  BY <1>1 DEF IInv, SessionOK, SessionTypes
<1>3. Gated'
  BY <1>1, GatedSame DEF IInv
<1>4. Direct' <=> Direct
  BY <1>1, <1>2 DEF Direct
<1>5. CASE /\ p # NoRoot /\ ensureInitialized(p)
           /\ resolvePromise' = [resolvePromise EXCEPT ![s] = "engine"]
  <2>1. /\ EngineOK' /\ Looked' /\ (opening' # NoRoot => projectPath' # NoRoot)
        /\ (projectPath # NoRoot => projectPath' # NoRoot) /\ (opening # NoRoot => opening' = opening)
    BY <1>1, <1>5, EnsureOK DEF IInv, SessionOK
  <2>2. /\ SessionTypes'
        /\ \A t \in Session : resolvePromise'[t] = IF t = s THEN "engine" ELSE resolvePromise[t]
    BY <1>1, <1>2, <1>5 DEF IInv, SessionOK, SessionTypes
  <2>3. Modes'
    BY <1>1, <1>2, <1>4, <2>1, <2>2, ModeKept, EngineAssumption DEF IInv, SessionOK, Modes
  <2>4. Waited'
    BY <1>1, <1>2, <2>1, <2>2, MessageWaits
  <2>5. QED  BY <1>3, <2>1, <2>2, <2>3, <2>4 DEF IInv, SessionOK, HintKnown
<1>6. CASE p = NoRoot /\ UNCHANGED <<resolvePromise, projectPath, opening>>
  <2>1. EngineOK'
    BY <1>1, <1>6, LookOK DEF IInv, EngineOK, EngineTypes, OneDefault
  <2>2. explicit[s] = NoRoot /\ Direct /\ s = Only /\ ~Daemonic /\ ~Daemonic'
    BY <1>1, <1>6, EngineAssumption DEF IInv, SessionOK, Modes, Daemonic, Direct
  <2>3. opening' = NoRoot
    BY <1>1, <1>6, <2>2 DEF IInv, SessionOK, Waited
  <2>4. SessionTypes' /\ Modes' /\ Waited' /\ HintKnown'
    BY <1>1, <1>2, <1>4, <1>6, <2>2, <2>3, EngineAssumption
       DEF IInv, SessionOK, SessionTypes, Modes, Waited, HintKnown, Looked
  <2>5. QED  BY <1>3, <2>1, <2>4 DEF IInv, SessionOK
<1>7. QED  BY <1>5, <1>6 DEF handleInitialize
-----------------------------------------------------------------------------
(* The steps of the engine and of the disk.                                *)

(* A session does not notice what leaves its own state and the hint alone. *)
LEMMA SessionSame ==
    ASSUME IInv, UNCHANGED <<clients, session, projectPath>>, Looked => Looked',
           SessionTypes', (opening' = NoRoot /\ grammars') \/ UNCHANGED <<opening, grammars>>,
           \A c \in Call : pc'[c] = pc[c] \/ (pc'[c] \in {"gate", "done"} /\ pc[c] # "new")
    PROVE  SessionOK'
<1>1. UNCHANGED <<explicit, uri, roots, greeted, resolvePromise, rootsAttempted, rootsReply>>
  BY DEF clients, session
<1>2. (Daemonic' <=> Daemonic) /\ (Direct' <=> Direct)
  BY <1>1 DEF Daemonic, Direct
<1>3. Modes'
  BY <1>1, <1>2 DEF IInv, SessionOK, Modes
<1>4. Waited'
  BY <1>1, <1>2 DEF IInv, SessionOK, Waited
<1>5. HintKnown'
  BY <1>1 DEF IInv, SessionOK, HintKnown
<1>6. QED  BY <1>3, <1>4, <1>5 DEF SessionOK

LEMMA OpenEndsInv ==
    ASSUME IInv, OpenEnds
    PROVE  IInv'
<1>1. /\ opening # NoRoot /\ opening' = NoRoot /\ grammars' = TRUE /\ default = NoDb
      /\ UNCHANGED <<disk, projectPath, closed, projectCache, clients, session, pc, gated, answer>>
  BY DEF OpenEnds, call, IInv, EngineOK, OneDefault
<1>2. /\ EngineOK'
      /\ \/ UNCHANGED <<dbs, default, gate>>
         \/ default' # NoDb /\ gate' = default' /\ dbs'[default'].sync = "running"
  <2>1. CASE UNCHANGED <<dbs, cg, default, watcherStarted, watching, gate>>
    BY <1>1, <2>1, LookOK DEF IInv, EngineOK, EngineTypes
  <2>2. CASE /\ opening \in indexed /\ dbs' = Append(dbs, Opened(opening, "running"))
             /\ Adopt(Len(dbs) + 1)
    BY <1>1, <2>2, AdoptOK DEF IInv, EngineOK, EngineTypes
  <2>3. QED  BY <2>1, <2>2 DEF OpenEnds
<1>3. SessionTypes'
  BY <1>1 DEF IInv, SessionOK, SessionTypes, clients, session
<1>4. SessionOK'
  BY <1>1, <1>2, <1>3, SessionSame DEF Looked
<1>5. Gated'
  BY <1>1, <1>2, GatedSame DEF IInv
<1>6. QED  BY <1>2, <1>4, <1>5 DEF IInv

LEMMA SyncEndsInv ==
    ASSUME IInv, NEW i \in 1..Len(dbs), SyncEnds(i)
    PROVE  IInv'
<1>1. dbs \in Seq(Db) /\ dbs[i] \in Db /\ Len(dbs) \in Nat
  BY DEF IInv, EngineOK, EngineTypes
<1>2. /\ dbs[i].sync = "running"
      /\ UNCHANGED <<indexed, inode, engine, closed, grammars, projectCache, clients, session, pc, gated, answer>>
      /\ \/ outdated' = outdated \ {dbs[i].root} /\ dbs' = [dbs EXCEPT ![i].sync = "done"]
         \/ outdated' = outdated /\ dbs' = [dbs EXCEPT ![i].sync = "failed"]
  BY DEF SyncEnds, call
<1>3. PICK r \in {"done", "failed"} :
          /\ dbs' = [dbs EXCEPT ![i] = [dbs[i] EXCEPT !.sync = r]]
          /\ outdated' \subseteq outdated /\ (r = "done" => dbs[i].root \notin outdated')
  BY <1>1, <1>2
<1> DEFINE x == [dbs[i] EXCEPT !.sync = r]
<1>4. x \in Db /\ x.sync = r /\ x.open = dbs[i].open /\ x.root = dbs[i].root
  BY <1>1 DEF Db
<1> HIDE DEF x
<1>5. /\ dbs' \in Seq(Db) /\ Len(dbs') = Len(dbs) /\ dbs'[i] = x
      /\ \A d \in 1..Len(dbs) : d # i => dbs'[d] = dbs[d]
  BY <1>1, <1>3, <1>4, ChangedDb DEF x
<1>6. UNCHANGED <<cg, default, projectPath, opening, watcherStarted, watching, gate>>
  BY <1>2 DEF engine
<1>7. \A d \in 1..Len(dbs) : dbs'[d].open = dbs[d].open /\ dbs'[d].root = dbs[d].root
  BY <1>4, <1>5
<1>8. EngineTypes' /\ OneDefault'
  BY <1>2, <1>5, <1>6 DEF IInv, EngineOK, EngineTypes, OneDefault, Ids
<1>9. NothingLeaks'
  BY <1>2, <1>5, <1>6, <1>7 DEF IInv, EngineOK, NothingLeaks, Cached
<1>10. WatchedIsServed'
  BY <1>1, <1>6, <1>7 DEF IInv, EngineOK, EngineTypes, WatchedIsServed, NoDb, Ids
<1>11. Current'
  BY <1>3, <1>4, <1>5 DEF IInv, EngineOK, Current
<1>12. Gated'
  <2>1. default = NoDb \/ default \in 1..Len(dbs)
    BY <1>1 DEF IInv, EngineOK, EngineTypes, NoDb, Ids
  <2>2. default # NoDb => dbs'[default].sync # "none" /\
            (dbs'[default].sync = "running" => dbs[default].sync = "running")
    BY <1>3, <1>4, <1>5, <2>1 DEF IInv, Gated
  <2>3. QED  BY <1>2, <1>6, <2>2 DEF IInv, Gated
<1>13. SessionOK'
  <2>1. SessionTypes'
    BY <1>2 DEF IInv, SessionOK, SessionTypes, clients, session
  <2>2. QED  BY <1>2, <1>6, <2>1, SessionSame DEF Looked
<1>14. QED  BY <1>8, <1>9, <1>10, <1>11, <1>12, <1>13 DEF IInv, EngineOK

LEMMA stopInv ==
    ASSUME IInv, stop
    PROVE  IInv'
<1>1. dbs \in Seq(Db) /\ Len(dbs) \in Nat
  BY DEF IInv, EngineOK, EngineTypes
<1>2. /\ ~closed /\ closed' = TRUE /\ cg' = NoDb
      /\ dbs' = [d \in 1..Len(dbs) |-> IF d \in OnStop THEN [dbs[d] EXCEPT !.open = FALSE] ELSE dbs[d]]
      /\ projectCache' = [r \in Root |-> NoDb]
      /\ watching' = IF watching = cg THEN NoDb ELSE watching
      /\ UNCHANGED <<disk, default, projectPath, opening, watcherStarted, gate, grammars, clients, session,
                     pc, gated, answer>>
  BY DEF stop, call
<1>3. \A d \in 1..Len(dbs) :
          (IF d \in OnStop THEN [dbs[d] EXCEPT !.open = FALSE] ELSE dbs[d]) \in Db
  <2> SUFFICES ASSUME NEW d \in 1..Len(dbs)  PROVE [dbs[d] EXCEPT !.open = FALSE] \in Db
    BY <1>1, DbFields
  <2>1. dbs[d] \in Db
    BY <1>1, DbFields
  <2>2. QED  BY <2>1 DEF Db
<1>4. /\ dbs' \in Seq(Db) /\ Len(dbs') = Len(dbs)
      /\ \A d \in 1..Len(dbs) : dbs'[d] = IF d \in OnStop THEN [dbs[d] EXCEPT !.open = FALSE] ELSE dbs[d]
  BY <1>1, <1>2, <1>3, Z3
<1>5. \A d \in 1..Len(dbs) : /\ dbs'[d].root = dbs[d].root /\ dbs'[d].sync = dbs[d].sync
                             /\ dbs'[d].open => dbs[d].open /\ d \notin OnStop
  <2> SUFFICES ASSUME NEW d \in 1..Len(dbs)
               PROVE  /\ dbs'[d].root = dbs[d].root /\ dbs'[d].sync = dbs[d].sync
                      /\ dbs'[d].open => dbs[d].open /\ d \notin OnStop
    OBVIOUS
  <2>1. dbs[d] \in Db
    BY <1>1, DbFields
  <2>2. QED  BY <1>4, <2>1 DEF Db
<1>6. EngineTypes'
  <2>1. NoDb \in Ids /\ Ids' = Ids
    BY <1>1, <1>4 DEF Ids, NoDb
  <2>2. QED  BY <1>2, <1>4, <2>1 DEF IInv, EngineOK, EngineTypes, disk
<1>7. OneDefault'
  BY <1>2 DEF IInv, EngineOK, OneDefault
<1>8. NothingLeaks'
  BY <1>2, <1>4, <1>5 DEF IInv, EngineOK, NothingLeaks, OnStop
<1>9. WatchedIsServed'
  BY <1>2 DEF IInv, EngineOK, WatchedIsServed, OneDefault
<1>10. Current'
  BY <1>2, <1>4, <1>5 DEF IInv, EngineOK, Current, disk
<1>11. Gated'
  <2>1. default = NoDb \/ default \in 1..Len(dbs)
    BY <1>1 DEF IInv, EngineOK, EngineTypes, NoDb, Ids
  <2>2. QED  BY <1>2, <1>5, <2>1 DEF IInv, Gated
<1>12. SessionOK'
  <2>1. SessionTypes'
    BY <1>2 DEF IInv, SessionOK, SessionTypes, clients, session
  <2>2. QED  BY <1>2, <2>1, SessionSame DEF Looked
<1>13. QED  BY <1>6, <1>7, <1>8, <1>9, <1>10, <1>11, <1>12 DEF IInv, EngineOK

LEMMA WorldInv ==
    ASSUME IInv, NEW r \in Root, Create(r) \/ Remove(r)
    PROVE  IInv'
<1>1. /\ UNCHANGED <<dbs, engine, closed, grammars, projectCache, clients, session, pc, gated, answer>>
      /\ indexed' \subseteq Root /\ inode' \in [Root -> Nat] /\ outdated' \subseteq outdated
  BY DEF Create, Remove, call, IInv, EngineOK, EngineTypes
<1>2. EngineTypes' /\ OneDefault'
  BY <1>1 DEF IInv, EngineOK, EngineTypes, OneDefault, Ids, engine
<1>3. NothingLeaks' /\ WatchedIsServed' /\ Current'
  BY <1>1 DEF IInv, EngineOK, NothingLeaks, WatchedIsServed, Current, Cached, engine
<1>4. Gated'
  BY <1>1, GatedSame DEF IInv, engine
<1>5. SessionOK'
  <2>1. SessionTypes'
    BY <1>1 DEF IInv, SessionOK, SessionTypes, clients, session
  <2>2. QED  BY <1>1, <2>1, SessionSame DEF Looked, engine
<1>6. QED  BY <1>2, <1>3, <1>4, <1>5 DEF IInv, EngineOK
-----------------------------------------------------------------------------
(* The steps of a call at the tools.                                       *)
LEMMA FreshDb ==
    ASSUME EngineTypes, NEW d \in 1..Len(dbs), NEW db \in Fresh(d)
    PROVE  db \in Db /\ db.root = dbs[d].root /\ db.open = dbs[d].open /\ db.sync = dbs[d].sync
<1>1. dbs[d] \in Db /\ dbs[d].root \in Root
  BY DbFields DEF EngineTypes
<1>2. inode[dbs[d].root] \in Nat
  BY <1>1 DEF EngineTypes
<1>3. QED  BY <1>1, <1>2 DEF Fresh, Db

(* An answer opens one more project or refreshes an instance; it replaces  *)
(* none, and nobody's catch-up.                                            *)
LEMMA ReplyOK ==
    ASSUME EngineOK, NEW c \in Call, ~closed, Reply(c),
           UNCHANGED <<disk, engine, closed, grammars>>
    PROVE  /\ EngineOK' /\ pc' = [pc EXCEPT ![c] = "done"]
           /\ \E a \in {"other", "error", "replaced", "stale", "current"} :
                 answer' = [answer EXCEPT ![c] = a]
           /\ \A d \in 1..Len(dbs) : dbs'[d].sync = dbs[d].sync
<1>1. EngineTypes /\ dbs \in Seq(Db) /\ Len(dbs) \in Nat /\ indexed \subseteq Root
  BY DEF EngineOK, EngineTypes
<1>2. UNCHANGED <<cg, default, projectPath, opening, watcherStarted, watching, gate, indexed, inode, outdated>>
  BY DEF engine, disk
<1>3. \A a : Answer(c, a) <=> pc' = [pc EXCEPT ![c] = "done"] /\ answer' = [answer EXCEPT ![c] = a]
  BY DEF Answer
<1>4. OneDefault'
  BY <1>2 DEF EngineOK, OneDefault
<1>5. Asked(c) \in Ids /\ (Asked(c) # NoDb => Asked(c) \in 1..Len(dbs))
  <2>1. NoDb \in Ids /\ \A d \in Ids : d # NoDb => d \in 1..Len(dbs)
    BY <1>1 DEF Ids, NoDb
  <2>2. \A t \in indexed : projectCache[t] \in Ids
    BY <1>1 DEF EngineTypes
  <2>3. QED  BY <2>1, <2>2 DEF Asked, EngineOK, EngineTypes
<1>6. ASSUME Asked(c) # NoDb, NEW db \in Fresh(Asked(c)), dbs' = [dbs EXCEPT ![Asked(c)] = db],
             Answer(c, Rows(db)), UNCHANGED projectCache
      PROVE  EngineOK' /\ \A d \in 1..Len(dbs) : dbs'[d].sync = dbs[d].sync
  <2> DEFINE i == Asked(c)
  <2>1. i \in 1..Len(dbs)
    BY <1>5, <1>6
  <2> HIDE DEF i
  <2>2. db \in Db /\ db.root = dbs[i].root /\ db.open = dbs[i].open /\ db.sync = dbs[i].sync
    BY <1>1, <1>6, <2>1, FreshDb DEF i
  <2>3. /\ dbs' \in Seq(Db) /\ Len(dbs') = Len(dbs)
        /\ dbs'[i] = db /\ \A d \in 1..Len(dbs) : d # i => dbs'[d] = dbs[d]
    BY <1>1, <1>6, <2>1, <2>2, ChangedDb DEF i
  <2>4. \A d \in 1..Len(dbs) : /\ dbs'[d].root = dbs[d].root /\ dbs'[d].open = dbs[d].open
                               /\ dbs'[d].sync = dbs[d].sync
    BY <2>2, <2>3
  <2>5. EngineTypes'
    BY <1>2, <1>6, <2>3 DEF EngineOK, EngineTypes, Ids
  <2>6. NothingLeaks'
    BY <1>2, <1>6, <2>3, <2>4 DEF EngineOK, NothingLeaks, Cached
  <2>7. WatchedIsServed'
    BY <1>1, <1>2, <2>4 DEF EngineOK, EngineTypes, WatchedIsServed, NoDb, Ids
  <2>8. Current'
    BY <1>2, <2>3, <2>4 DEF EngineOK, Current
  <2>9. QED  BY <1>4, <2>4, <2>5, <2>6, <2>7, <2>8 DEF EngineOK
<1>7. ASSUME Asked(c) = NoDb, Target[c] \in indexed,
             dbs' = Append(dbs, Opened(Target[c], "none")),
             projectCache' = [projectCache EXCEPT ![Target[c]] = Len(dbs) + 1]
      PROVE  EngineOK' /\ \A d \in 1..Len(dbs) : dbs'[d].sync = dbs[d].sync
  <2> DEFINE t == Target[c]
             n == Len(dbs) + 1
             x == Opened(t, "none")
  <2>1. t \in Root /\ t # NoRoot /\ projectCache[t] = NoDb
    BY <1>1, <1>7, EngineAssumption DEF Asked
  <2>2. x \in Db /\ x.sync = "none"
    BY <1>1, <2>1 DEF Opened, Db, EngineTypes
  <2> HIDE DEF x, t
  <2>3. /\ dbs' \in Seq(Db) /\ Len(dbs') = n /\ dbs'[n] = x
        /\ \A d \in 1..Len(dbs) : dbs'[d] = dbs[d]
    BY <1>1, <1>7, <2>2, OneMoreDb DEF x, t
  <2>4. Ids \subseteq Ids' /\ n \in Ids' /\ n # NoDb /\ \A d \in 1..n : d = n \/ d \in 1..Len(dbs)
    BY <1>1, <2>3 DEF Ids, NoDb
  <2>5. projectCache' \in [Root -> Ids'] /\ projectCache'[t] = n
        /\ \A r \in Root : r # t => projectCache'[r] = projectCache[r]
    BY <1>7, <2>1, <2>4 DEF t, EngineOK, EngineTypes
  <2>6. EngineTypes'
    BY <1>2, <2>3, <2>4, <2>5 DEF EngineOK, EngineTypes
  <2>7. n \in Cached' /\ Cached \subseteq Cached'
    BY <2>1, <2>4, <2>5 DEF Cached
  <2>8. NothingLeaks'
    BY <1>2, <2>3, <2>4, <2>7 DEF EngineOK, NothingLeaks
  <2>9. WatchedIsServed'
    BY <1>1, <1>2, <2>3 DEF EngineOK, EngineTypes, WatchedIsServed, NoDb, Ids
  <2>10. Current'
    BY <1>2, <2>2, <2>3, <2>4 DEF EngineOK, Current
  <2>11. QED  BY <1>4, <2>3, <2>6, <2>8, <2>9, <2>10 DEF EngineOK
<1>8. ASSUME UNCHANGED <<dbs, projectCache>>
      PROVE  EngineOK' /\ \A d \in 1..Len(dbs) : dbs'[d].sync = dbs[d].sync
  BY <1>2, <1>8, LookOK DEF EngineOK, EngineTypes, OneDefault, disk
<1>9. \A db : Rows(db) \in {"error", "replaced", "stale", "current"}
  BY DEF Rows
<1>10. QED  BY <1>3, <1>6, <1>7, <1>8, <1>9 DEF Reply

LEMMA ToolTypes ==
    ASSUME SessionTypes, NEW c \in Call, UNCHANGED <<clients, session>>,
           \/ pc' = [pc EXCEPT ![c] = "gate"] /\ gated' = [gated EXCEPT ![c] = gate]
              /\ answer' = answer /\ gate \in Nat
           \/ pc' = [pc EXCEPT ![c] = "done"] /\ gated' = gated
              /\ \E a \in {"listed", "other", "error", "replaced", "stale", "current"} :
                    answer' = [answer EXCEPT ![c] = a]
    PROVE  /\ SessionTypes'
           /\ \A d \in Call : d # c => pc'[d] = pc[d]
           /\ pc'[c] \in {"gate", "done"}
BY DEF SessionTypes, clients, session

LEMMA executeInv ==
    ASSUME IInv, NEW c \in Call, execute(c)
    PROVE  IInv'
<1>1. /\ ~closed /\ pc[c] = "execute" /\ EngineOK /\ SessionTypes /\ Gated
      /\ UNCHANGED <<disk, cg, default, projectPath, opening, watcherStarted, watching, closed, grammars,
                     clients, session>>
  BY DEF execute, IInv, SessionOK
<1>2. gate \in Nat /\ (default = NoDb \/ default \in 1..Len(dbs)) /\ Len(dbs) \in Nat
  BY <1>1 DEF EngineOK, EngineTypes, Ids, NoDb
<1>3. CASE Answer(c, "listed") /\ UNCHANGED <<dbs, projectCache, gate, gated>>
  <2>1. EngineOK'
    BY <1>1, <1>3, LookOK DEF EngineOK, EngineTypes, OneDefault
  <2>2. /\ SessionTypes' /\ pc' = [pc EXCEPT ![c] = "done"]
        /\ pc'[c] \in {"gate", "done"} /\ \A d \in Call : d # c => pc'[d] = pc[d]
    BY <1>1, <1>3, ToolTypes DEF Answer
  <2>3. SessionOK'
    BY <1>1, <2>2, SessionSame DEF Looked
  <2>4. Gated'
    BY <1>1, <1>3, <2>2, GatedSame DEF SessionTypes
  <2>5. QED  BY <2>1, <2>3, <2>4 DEF IInv
<1>4. CASE /\ gate # NoDb /\ pc' = [pc EXCEPT ![c] = "gate"] /\ gated' = TakesGate(c)
           /\ gate' = NoDb /\ UNCHANGED <<dbs, projectCache, answer>>
  <2>1. EngineOK'
    BY <1>1, <1>4, LookOK DEF EngineOK, EngineTypes, OneDefault
  <2>2. SessionTypes' /\ pc'[c] \in {"gate", "done"} /\ \A d \in Call : d # c => pc'[d] = pc[d]
    BY <1>1, <1>2, <1>4, ToolTypes DEF TakesGate
  <2>3. SessionOK'
    BY <1>1, <2>2, SessionSame DEF Looked
  <2>4. gated'[c] = default /\ pc'[c] = "gate" /\ \A d \in Call : d # c => gated'[d] = gated[d]
    BY <1>1, <1>4 DEF SessionTypes, Gated, TakesGate
  <2>5. Gated'
    BY <1>1, <1>4, <2>2, <2>4 DEF Gated
  <2>6. QED  BY <2>1, <2>3, <2>5 DEF IInv
<1>5. CASE gate = NoDb /\ Reply(c) /\ UNCHANGED <<gate, gated>>
  <2>1. /\ EngineOK' /\ pc' = [pc EXCEPT ![c] = "done"]
        /\ \E a \in {"other", "error", "replaced", "stale", "current"} :
              answer' = [answer EXCEPT ![c] = a]
        /\ \A d \in 1..Len(dbs) : dbs'[d].sync = dbs[d].sync
    BY <1>1, <1>5, ReplyOK DEF engine
  <2>2. SessionTypes' /\ pc'[c] \in {"gate", "done"} /\ \A d \in Call : d # c => pc'[d] = pc[d]
    BY <1>1, <1>5, <2>1, ToolTypes
  <2>3. SessionOK'
    BY <1>1, <2>2, SessionSame DEF Looked
  <2>4. pc'[c] = "done"
    BY <1>1, <2>1 DEF SessionTypes
  <2>5. Gated'
    BY <1>1, <1>2, <1>5, <2>1, <2>2, <2>4 DEF Gated
  <2>6. QED  BY <2>1, <2>3, <2>5 DEF IInv
<1>6. QED  BY <1>3, <1>4, <1>5 DEF execute

LEMMA ServeInv ==
    ASSUME IInv, NEW c \in Call, Serve(c)
    PROVE  IInv'
<1>1. /\ ~closed /\ pc[c] = "gate" /\ CaughtUp(gated[c]) /\ EngineOK /\ SessionTypes /\ Gated
      /\ Reply(c) /\ UNCHANGED <<disk, engine, closed, grammars, clients, session, gated>>
  BY DEF Serve, IInv, SessionOK
<1>2. (default = NoDb \/ default \in 1..Len(dbs)) /\ Len(dbs) \in Nat
  BY <1>1 DEF EngineOK, EngineTypes, Ids, NoDb
<1>3. /\ EngineOK' /\ pc' = [pc EXCEPT ![c] = "done"]
      /\ \E a \in {"other", "error", "replaced", "stale", "current"} :
            answer' = [answer EXCEPT ![c] = a]
      /\ \A d \in 1..Len(dbs) : dbs'[d].sync = dbs[d].sync
  BY <1>1, ReplyOK
<1>4. SessionTypes' /\ pc'[c] \in {"gate", "done"} /\ \A d \in Call : d # c => pc'[d] = pc[d]
  BY <1>1, <1>3, ToolTypes
<1>5. SessionOK'
  BY <1>1, <1>4, SessionSame DEF Looked, engine
<1>6. pc'[c] = "done" /\ dbs[default].sync # "running"
  BY <1>1, <1>3 DEF SessionTypes, CaughtUp, Gated
<1>7. Gated'
  BY <1>1, <1>2, <1>3, <1>4, <1>6 DEF Gated, engine
<1>8. QED  BY <1>3, <1>5, <1>7 DEF IInv

LEMMA StepInv == IInv /\ [Next]_vars => IInv'
<1> SUFFICES ASSUME IInv, [Next]_vars  PROVE IInv'
  OBVIOUS
<1>1. CASE UNCHANGED vars
  <2>1. UNCHANGED <<indexed, inode, outdated, dbs, cg, default, projectPath, opening, watcherStarted, watching,
                    gate, closed, grammars, projectCache, explicit, uri, roots, greeted, resolvePromise,
                    rootsAttempted, rootsReply, pc, gated, answer>>
    BY <1>1 DEF vars, disk, engine, clients, session, call
  <2>2. EngineOK'
    BY <2>1 DEF IInv, EngineOK, EngineTypes, OneDefault, NothingLeaks, WatchedIsServed, Current, Ids, Cached
  <2>3. SessionOK' /\ Gated'
    BY <2>1 DEF IInv, SessionOK, SessionTypes, Modes, Waited, HintKnown, Gated, Daemonic, Direct, Looked
  <2>4. QED  BY <2>2, <2>3 DEF IInv
<1>2. CASE OpenEnds \/ stop
  BY <1>2, OpenEndsInv, stopInv
<1>3. CASE Syncs
  BY <1>3, SyncEndsInv DEF Syncs
<1>4. CASE Message \/ World
  BY <1>4, handleInitializeInv, RootsAnswerInv, WorldInv DEF Message, World
<1>5. CASE \E c \in Call : Request(c) \/ Continue(c)
  BY <1>5, RequestInv, ResolvedInv, RootsResolvedInv, executeInv, ServeInv DEF Continue
<1>6. QED  BY <1>1, <1>2, <1>3, <1>4, <1>5 DEF Next

LEMMA Invariance == Spec => []IInv
BY InitInv, StepInv, PTL DEF Spec
-----------------------------------------------------------------------------
(* Until stop() every open database is held where stop() will find it,     *)
(* however many sessions connect, ask again and open other projects while  *)
(* the default one is being opened.                                        *)
THEOREM NothingLeaksHolds == Spec => []NothingLeaks
<1>1. IInv => NothingLeaks
  BY DEF IInv, EngineOK
<1>2. QED  BY Invariance, <1>1, PTL

(* The instance whose watcher runs is the one that answers.                *)
THEOREM WatchedIsServedHolds == Spec => []WatchedIsServed
<1>1. IInv => WatchedIsServed
  BY DEF IInv, EngineOK
<1>2. QED  BY Invariance, <1>1, PTL

(* GateIsKept, of one call.                                                *)
GateStep(c) ==
    answer[c] = "none" /\ answer'[c] = "stale" =>
        \/ Asked(c) # default
        \/ dbs[default].sync = "failed"
        \/ \E d \in Call \ {c} : pc[d] = "gate" /\ gated[d] = default

(* Who serves rows from before the server is served them by the default    *)
(* instance, which has not caught up.                                      *)
LEMMA StaleReply ==
    ASSUME EngineOK, SessionTypes, NEW c \in Call, NEW d \in Call, Reply(d), UNCHANGED default,
           answer[c] = "none", answer'[c] = "stale", Asked(c) = default
    PROVE  c = d /\ default \in 1..Len(dbs) /\ dbs[default].sync # "done"
<1>1. answer \in [Call -> {"none", "listed", "other", "error", "replaced", "stale", "current"}]
  BY DEF SessionTypes
<1>2. \A a : Answer(d, a) => answer' = [answer EXCEPT ![d] = a]
  BY DEF Answer
<1>3. c = d
  BY <1>1, <1>2 DEF Reply
<1>4. PICK db \in Fresh(default) : Asked(c) # NoDb /\ Rows(db) = "stale"
  BY <1>1, <1>2, <1>3 DEF Reply
<1>5. default \in 1..Len(dbs)
  BY <1>4 DEF EngineOK, EngineTypes, Ids, NoDb
<1>6. db.root \in outdated /\ db.root = dbs[default].root
  BY <1>4, <1>5, FreshDb DEF Rows, EngineOK
<1>7. QED  BY <1>3, <1>5, <1>6 DEF EngineOK, Current

(* The catch-up gate lets no call pass to rows older than the server but   *)
(* those that overtake the one that waits there, or after a failed sync.   *)
THEOREM GateIsKeptHolds == Spec => GateIsKept
<1>1. ASSUME IInv, Next, NEW c \in Call, answer[c] = "none", answer'[c] = "stale", Asked(c) = default,
             dbs[default].sync # "failed"
      PROVE  \E d \in Call \ {c} : pc[d] = "gate" /\ gated[d] = default
  <2>1. EngineOK /\ SessionTypes /\ Gated
    BY <1>1 DEF IInv, SessionOK
  <2>2. PICK d \in Call : execute(d) \/ Serve(d)
    BY <1>1 DEF Next, Syncs, SyncEnds, OpenEnds, stop, Message, World, Create, Remove, handleInitialize,
       RootsAnswer, Request, Continue, Resolved, RootsResolved, call
  <2>3. Reply(d) /\ UNCHANGED default
    <3>1. answer' # answer
      BY <1>1
    <3>2. CASE execute(d) /\ Answer(d, "listed")
      BY <1>1, <2>1, <3>2 DEF Answer, SessionTypes
    <3>3. QED  BY <2>2, <3>1, <3>2 DEF execute, Serve, engine
  <2>4. c = d /\ default \in 1..Len(dbs) /\ dbs[default].sync # "done"
    BY <1>1, <2>1, <2>3, StaleReply
  <2>5. default # NoDb /\ dbs[default].sync = "running"
    <3>1. dbs[default].sync \in {"none", "running", "done", "failed"}
      BY <2>1, <2>4, DbFields DEF EngineOK, EngineTypes
    <3>2. default # NoDb
      BY <2>1, <2>4 DEF EngineOK, EngineTypes, NoDb
    <3>3. QED  BY <1>1, <2>1, <2>4, <3>1, <3>2 DEF Gated
  <2>6. CASE execute(d)
    <3>1. pc[d] = "execute" /\ gate = NoDb
      BY <1>1, <2>1, <2>4, <2>6 DEF execute, Answer, SessionTypes
    <3>2. QED  BY <2>1, <2>4, <2>5, <3>1 DEF Gated
  <2>7. CASE Serve(d)
    BY <2>1, <2>5, <2>7 DEF Serve, CaughtUp, Gated
  <2>8. QED  BY <2>2, <2>6, <2>7
<1>2. IInv /\ Next => \A c \in Call : GateStep(c)
  BY <1>1 DEF GateStep
<1>3. IInv /\ [Next]_vars => [\A c \in Call : GateStep(c)]_vars
  BY <1>2
<1>4. QED  BY Invariance, <1>3, PTL DEF Spec, GateIsKept, GateStep
=============================================================================
