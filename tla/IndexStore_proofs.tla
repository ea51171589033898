-------------------------- MODULE IndexStore_proofs --------------------------
(***************************************************************************)
(* sync() trusts size and mtime: it skips a file whose stamp is the        *)
(* recorded one.  That is sound because indexFile() stats before it reads: *)
(* what is read can only be newer than the stamp kept with it.  indexAll() *)
(* reads before it stats, and is sound for the files that nobody edits in  *)
(* between.  Proved for any files, contents, edits and crashes.            *)
(***************************************************************************)
EXTENDS IndexStore, TLAPS, FiniteSetTheorems, WellFoundedInduction

RecordType == [content : Content, stamp : Nat]

(* The part of the typing the argument needs.                              *)
Types ==
    /\ disk \in [File -> Content \cup {Absent}] /\ stamp \in [File -> Nat] /\ clock \in Nat
    /\ record \in [File -> RecordType \cup {NoRecord}]
    /\ got \in [content : Content \cup {Absent}, stamp : Nat]
    /\ cur \in File

(* Stamps come from the edit counter, so a later edit has a later stamp.   *)
StampsPast ==
    /\ \A f \in File : stamp[f] <= clock
    /\ \A f \in File : record[f] # NoRecord => record[f].stamp <= stamp[f]

(* What indexFile() and indexAll() hold of the file at hand.               *)
HeldStamp ==
    /\ pc = "read" /\ mode # "full" => got.stamp <= stamp[cur]
    /\ pc = "stat" /\ mode = "full" => got.content \in Content
    /\ pc \in Storing => got.content \in Content /\ got.stamp <= stamp[cur]
    /\ pc \in Storing /\ got.stamp = stamp[cur] /\ cur \notin torn => got.content = disk[cur]

IInv == Types /\ StampsPast /\ HeldStamp /\ PrefilterSound

-----------------------------------------------------------------------------
(* An edit: the new stamp exceeds every recorded or held one.              *)
LEMMA EditInv ==
    ASSUME IInv, NEW f \in File, Edit(f)
    PROVE  IInv'
<1> USE StoreAssumption DEF IInv, Types, database, loops, atHand, history
<1>1. PICK c \in (Versions[f] \cup {Absent}) \ {disk[f]} : disk' = [disk EXCEPT ![f] = c]
  BY DEF Edit
<1>2. /\ clock' = clock + 1 /\ stamp' = [stamp EXCEPT ![f] = clock + 1]
      /\ UNCHANGED <<nodes, edges, refs, record, pc, mode, cur, got, torn>>
  BY DEF Edit
<1>3. c \in Content \cup {Absent}
  OBVIOUS
<1>4. Types'
  BY <1>1, <1>2, <1>3
<1>5. StampsPast'
  BY <1>2 DEF StampsPast, RecordType
<1>6. HeldStamp'
  <2>1. CASE cur = f
    BY <1>1, <1>2, <2>1 DEF HeldStamp, StampsPast, Storing
  <2>2. CASE cur # f
    BY <1>1, <1>2, <2>2 DEF HeldStamp, StampsPast, Storing
  <2> QED  BY <2>1, <2>2
<1>7. PrefilterSound'
  BY <1>1, <1>2 DEF PrefilterSound, StampsPast, RecordType
<1> QED  BY <1>4, <1>5, <1>6, <1>7

(* Deleting a file's record keeps what is said of the others.              *)
LEMMA ForgetFile ==
    ASSUME IInv, NEW f \in File, record' = [record EXCEPT ![f] = NoRecord],
           UNCHANGED <<disk, stamp, clock, mode, cur, got, torn>>,
           pc' \notin Storing \/ pc \in Storing, pc' \notin {"stat", "read"}
    PROVE  IInv'
  BY DEF IInv, Types, StampsPast, HeldStamp, PrefilterSound

(* Steps that touch neither records, nor the tree, nor the file at hand.   *)
LEMMA QuietInv ==
    ASSUME IInv, UNCHANGED <<disk, stamp, clock, record, cur, got, torn>>,
           pc' \notin Storing \/ pc \in Storing,
           pc' \notin {"stat", "read"} \/ (pc' = pc /\ mode' = mode)
    PROVE  IInv'
  BY DEF IInv, Types, StampsPast, HeldStamp, PrefilterSound

(* The end of an operation, with what it held.                             *)
LEMMA ForgottenInv ==
    ASSUME IInv, UNCHANGED <<disk, stamp, clock, record, cur, torn>>,
           got' = NothingRead, pc' = "idle"
    PROVE  IInv'
<1>1. NothingRead \in [content : Content \cup {Absent}, stamp : Nat]
  BY DEF NothingRead
<1> QED  BY <1>1 DEF IInv, Types, StampsPast, HeldStamp, PrefilterSound, Storing

LEMMA NextFileInv ==
    ASSUME IInv, NEW f \in File, NextFile(f)
    PROVE  IInv'
<1>1. /\ UNCHANGED <<disk, stamp, clock, record, mode, torn>>
      /\ cur' = f /\ got' = NothingRead
      /\ pc' = IF mode = "full" THEN "read" ELSE "stat"
  BY DEF NextFile, ByMode, world, database, history
<1>2. /\ NothingRead \in [content : Content \cup {Absent}, stamp : Nat]
      /\ NothingRead.stamp = 0
  BY DEF NothingRead
<1> QED
  BY <1>1, <1>2
  DEF IInv, Types, StampsPast, HeldStamp, Storing, PrefilterSound

(* indexFile() takes the stamp first; indexAll() takes it last, of the     *)
(* content it has read unless the file is torn.                            *)
LEMMA StatFileInv ==
    ASSUME IInv, StatFile
    PROVE  IInv'
<1>1. UNCHANGED <<disk, stamp, clock, record, mode, cur>> /\ pc = "stat"
  BY DEF StatFile, world, database, loops
<1>2. CASE disk[cur] = Absent
  BY <1>1, <1>2, QuietInv DEF StatFile, Storing
<1>3. CASE disk[cur] # Absent
  <2>1. /\ pc' = IF mode = "full" THEN "store" ELSE "read"
        /\ got' = [got EXCEPT !.stamp = stamp[cur]]
        /\ torn' = IF mode = "full" /\ got.content # disk[cur] THEN torn \cup {cur} ELSE torn
    BY <1>3 DEF StatFile, ByMode
  <2>2. /\ got' \in [content : Content \cup {Absent}, stamp : Nat]
        /\ got'.stamp = stamp[cur] /\ got'.content = got.content
    BY <2>1 DEF IInv, Types
  <2>3. Types'
    BY <1>1, <2>2 DEF IInv, Types
  <2>4. HeldStamp'
    BY <1>1, <2>1, <2>2 DEF IInv, Types, HeldStamp, Storing
  <2>5. PrefilterSound'
    BY <1>1, <2>1 DEF IInv, PrefilterSound
  <2> QED
    BY <1>1, <2>3, <2>4, <2>5 DEF IInv, StampsPast
<1> QED  BY <1>2, <1>3

(* What indexFile() reads is not older than the stamp it has taken.        *)
LEMMA ReadFileInv ==
    ASSUME IInv, ReadFile
    PROVE  IInv'
<1>1. UNCHANGED <<disk, stamp, clock, record, mode, cur, torn>> /\ pc = "read"
  BY DEF ReadFile, world, database, loops, history
<1>2. CASE disk[cur] = Absent
  BY <1>1, <1>2, QuietInv DEF ReadFile, Storing
<1>3. CASE disk[cur] # Absent
  <2>1. /\ pc' = IF mode = "full" THEN "stat" ELSE "store"
        /\ got' = [got EXCEPT !.content = disk[cur]]
    BY <1>3 DEF ReadFile, ByMode
  <2>2. /\ got' \in [content : Content \cup {Absent}, stamp : Nat]
        /\ got'.content = disk[cur] /\ got'.content \in Content /\ got'.stamp = got.stamp
    BY <2>1, <1>3 DEF IInv, Types
  <2> QED
    BY <1>1, <2>1, <2>2
    DEF IInv, Types, StampsPast, HeldStamp, Storing, PrefilterSound
<1> QED  BY <1>2, <1>3

LEMMA UpsertFileInv ==
    ASSUME IInv, UpsertFile
    PROVE  IInv'
<1>1. /\ pc = "record" /\ pc' = "next" /\ record' = [record EXCEPT ![cur] = got]
      /\ UNCHANGED <<disk, stamp, clock, mode, cur, got, torn>>
  BY DEF UpsertFile, world, loops, atHand, history
<1>2. /\ got \in RecordType /\ got.stamp <= stamp[cur]
      /\ got.stamp = stamp[cur] /\ cur \notin torn => got.content = disk[cur]
  BY <1>1 DEF IInv, Types, HeldStamp, Storing, RecordType
<1> QED
  BY <1>1, <1>2
  DEF IInv, Types, StampsPast, HeldStamp, Storing, PrefilterSound

-----------------------------------------------------------------------------
LEMMA InitInv == Init => IInv
<1> SUFFICES ASSUME Init PROVE IInv
  OBVIOUS
<1>1. NothingRead \in [content : Content \cup {Absent}, stamp : Nat]
  BY DEF NothingRead
<1> QED
  BY <1>1, StoreAssumption
  DEF Init, IInv, Types, StampsPast, HeldStamp, Storing, PrefilterSound

LEMMA StepInv ==
    ASSUME IInv, [Next]_vars
    PROVE  IInv'
<1> USE DEF world, database, loops, atHand, history
<1>1. ASSUME NEW f \in File, Edit(f) PROVE IInv'
  BY <1>1, EditInv
<1>2. ASSUME NEW op \in {"files", "full"}, BeginFiles(op) PROVE IInv'
  BY <1>2, QuietInv DEF BeginFiles, Begin, Storing
<1>3. CASE Scan
  BY <1>3, QuietInv DEF Scan, Begin, Storing
<1>4. CASE PruneDone \/ CheckDone
  BY <1>4, QuietInv DEF PruneDone, CheckDone, Storing
<1>5. ASSUME NEW f \in File, Prune(f) PROVE IInv'
  <2>1. CASE f \notin present \/ disk[f] = Absent
    BY <1>5, <2>1, ForgetFile DEF Prune, deleteFile, Storing
  <2>2. CASE ~(f \notin present \/ disk[f] = Absent)
    BY <1>5, <2>2, QuietInv DEF Prune, Storing
  <2> QED  BY <2>1, <2>2
<1>6. ASSUME NEW f \in File, Check(f) PROVE IInv'
  BY <1>6, QuietInv DEF Check, Storing
<1>7. ASSUME NEW f \in File, NextFile(f) PROVE IInv'
  BY <1>7, NextFileInv
<1>8. CASE StatFile \/ ReadFile
  BY <1>8, StatFileInv, ReadFileInv
<1>9. CASE Store
  BY <1>9, QuietInv DEF Store, Storing
<1>10. CASE DeleteOld
  BY <1>10, ForgetFile DEF DeleteOld, deleteFile, Storing, IInv, Types
<1>11. CASE InsertNodes \/ InsertIncoming \/ InsertRefs
  BY <1>11, QuietInv DEF InsertNodes, InsertIncoming, InsertRefs, Storing
<1>12. CASE UpsertFile
  BY <1>12, UpsertFileInv
<1>13. CASE ResolveEdges
  BY <1>13, QuietInv DEF ResolveEdges, Storing
<1>14. CASE FilesDone
  BY <1>14, QuietInv, ForgottenInv DEF FilesDone, Forgotten, Storing
<1>15. CASE ForgetRefs \/ Crash
  BY <1>15, ForgottenInv DEF ForgetRefs, Crash, Forgotten
<1>16. CASE UNCHANGED vars
  BY <1>16, QuietInv DEF vars
<1> QED
  BY <1>1, <1>2, <1>3, <1>4, <1>5, <1>6, <1>7, <1>8, <1>9, <1>10, <1>11, <1>12, <1>13,
     <1>14, <1>15, <1>16 DEF Next, Step

(* A file that sync() will skip because its size and mtime are the         *)
(* recorded ones is indexed at the content it has on disk, unless it was   *)
(* edited between the two calls of an indexAll().                          *)
THEOREM PrefilterSoundHolds == Spec => []PrefilterSound
<1>1. Init => IInv
  BY InitInv
<1>2. IInv /\ [Next]_vars => IInv'
  BY StepInv
<1>3. IInv => PrefilterSound
  BY DEF IInv
<1> QED  BY <1>1, <1>2, <1>3, PTL DEF Spec
-----------------------------------------------------------------------------
(* Second result: without crashes the nodes of a recorded file are those   *)
(* of its recorded content.  The invariant follows one file through the    *)
(* transactions of storeExtractionResult.                                  *)

FileNodes(N, f) == {n \in N : n.file = f}

Written == {"incoming", "refs", "record"}

Expected(f) ==
    IF pc \in Written /\ cur = f THEN NodesOf(f, got.content)
    ELSE IF record[f] = NoRecord THEN {} ELSE NodesOf(f, record[f].content)

Whole == \A f \in File : FileNodes(nodes, f) = Expected(f)

Held ==
    /\ pc \in Storing => got.content \in Content
    /\ pc = "stat" /\ mode = "full" => got.content \in Content
    /\ pc \in Written \cup {"nodes"} => record[cur] = NoRecord

WInv == Types /\ Held /\ Whole

(* What a content defines lies in its own file.                            *)
LEMMA NodesOfFile ==
    ASSUME NEW f \in File, NEW c \in Content, NEW g \in File
    PROVE  FileNodes(NodesOf(f, c), g) = IF f = g THEN NodesOf(f, c) ELSE {}
  BY DEF FileNodes, NodesOf, Node

(* Steps outside the transactions that change nodes or records.            *)
LEMMA CalmInv ==
    ASSUME WInv, UNCHANGED <<nodes, record, cur>>, Types', Held',
           pc' \in Written <=> pc \in Written, pc \in Written => got' = got
    PROVE  WInv'
  BY DEF WInv, Whole, Expected

LEMMA QuietWhole ==
    ASSUME WInv, UNCHANGED <<disk, stamp, clock, nodes, record, cur, got>>,
           pc' \in Written <=> pc \in Written,
           pc' \in Storing => pc \in Storing,
           pc' = "stat" => pc = "stat" /\ mode' = mode,
           pc' = "nodes" => pc = "nodes" \/ record[cur] = NoRecord
    PROVE  WInv'
<1>1. Types' /\ Held'
  BY DEF WInv, Types, Held
<1> QED  BY <1>1, CalmInv

LEMMA ForgottenWhole ==
    ASSUME WInv, UNCHANGED <<disk, stamp, clock, nodes, record, cur>>,
           got' = NothingRead, pc \notin Written, pc' = "idle"
    PROVE  WInv'
<1>1. NothingRead \in [content : Content \cup {Absent}, stamp : Nat]
  BY DEF NothingRead
<1>2. Types' /\ Held'
  BY <1>1 DEF WInv, Types, Held, Storing, Written
<1> QED  BY <1>2, CalmInv DEF Written

LEMMA DeleteFileWhole ==
    ASSUME WInv, NEW f \in File, deleteFile(f), UNCHANGED <<disk, stamp, clock, cur, got>>,
           \/ pc = "prune" /\ pc' = "prune"
           \/ pc = "delete" /\ pc' = "nodes" /\ f = cur
    PROVE  WInv'
<1>1. record' = [record EXCEPT ![f] = NoRecord]
  BY DEF deleteFile
<1>2. nodes' = nodes \ FileNodes(nodes, f)
  BY DEF deleteFile, DeleteNodes, FileNodes
<1>3. Types' /\ Held'
  BY <1>1 DEF WInv, Types, Held, Storing, Written
<1>4. \A g \in File : FileNodes(nodes', g) = IF g = f THEN {} ELSE FileNodes(nodes, g)
  BY <1>2 DEF FileNodes
<1>5. Whole'
  BY <1>1, <1>4 DEF WInv, Types, Whole, Expected, Written
<1> QED  BY <1>3, <1>5 DEF WInv

LEMMA InsertNodesWhole ==
    ASSUME WInv, InsertNodes
    PROVE  WInv'
<1>1. /\ pc = "nodes" /\ pc' = "incoming"
      /\ nodes' = nodes \cup NodesOf(cur, got.content)
      /\ UNCHANGED <<disk, stamp, clock, record, mode, cur, got>>
  BY DEF InsertNodes, world, loops, atHand
<1>2. Types' /\ Held'
  BY <1>1 DEF WInv, Types, Held, Storing, Written
<1>3. cur \in File /\ got.content \in Content /\ record[cur] = NoRecord
  BY <1>1 DEF WInv, Types, Held, Storing, Written
<1>4. ASSUME NEW g \in File PROVE FileNodes(nodes', g) = Expected(g)'
  <2>1. FileNodes(nodes', g) = FileNodes(nodes, g) \cup FileNodes(NodesOf(cur, got.content), g)
    BY <1>1 DEF FileNodes
  <2>2. FileNodes(nodes, g) = IF record[g] = NoRecord THEN {} ELSE NodesOf(g, record[g].content)
    BY <1>1 DEF WInv, Whole, Expected, Written
  <2>3. Expected(g)' = IF cur = g THEN NodesOf(g, got.content)
                       ELSE IF record[g] = NoRecord THEN {} ELSE NodesOf(g, record[g].content)
    BY <1>1 DEF Expected, Written
  <2> QED  BY <1>3, <2>1, <2>2, <2>3, NodesOfFile
<1>5. Whole'
  BY <1>4 DEF Whole
<1> QED  BY <1>2, <1>5 DEF WInv

LEMMA UpsertFileWhole ==
    ASSUME WInv, UpsertFile
    PROVE  WInv'
<1>1. /\ pc = "record" /\ pc' = "next" /\ record' = [record EXCEPT ![cur] = got]
      /\ UNCHANGED <<disk, stamp, clock, nodes, mode, cur, got>>
  BY DEF UpsertFile, world, loops, atHand
<1>2. got \in RecordType /\ got # NoRecord
  BY <1>1, StoreAssumption DEF WInv, Types, Held, Storing, RecordType
<1>3. Types' /\ Held'
  BY <1>1, <1>2 DEF WInv, Types, Held, Storing, Written
<1>4. Whole'
  BY <1>1, <1>2 DEF WInv, Types, Whole, Expected, Written
<1> QED  BY <1>3, <1>4 DEF WInv

LEMMA ReadingWhole ==
    ASSUME WInv, StatFile \/ ReadFile
    PROVE  WInv'
<1>1. UNCHANGED <<disk, stamp, clock, nodes, record, mode, cur>> /\ pc \in {"stat", "read"}
  BY DEF StatFile, ReadFile, world, database, loops
<1>2. CASE disk[cur] = Absent
  BY <1>1, <1>2, QuietWhole DEF StatFile, ReadFile, Storing, Written
<1>3. CASE disk[cur] # Absent /\ StatFile
  <2>1. /\ pc = "stat" /\ pc' = ByMode("read", "store")
        /\ got' = [got EXCEPT !.stamp = stamp[cur]]
    BY <1>3 DEF StatFile
  <2>2. got' \in [content : Content \cup {Absent}, stamp : Nat] /\ got'.content = got.content
    BY <2>1 DEF WInv, Types
  <2>3. Types' /\ Held'
    BY <1>1, <2>1, <2>2 DEF WInv, Types, Held, Storing, Written, ByMode
  <2> QED  BY <1>1, <2>1, <2>3, CalmInv DEF Written, ByMode
<1>4. CASE disk[cur] # Absent /\ ReadFile
  <2>1. /\ pc = "read" /\ pc' = ByMode("store", "stat")
        /\ got' = [got EXCEPT !.content = disk[cur]]
    BY <1>4 DEF ReadFile
  <2>2. got' \in [content : Content \cup {Absent}, stamp : Nat] /\ got'.content \in Content
    BY <1>4, <2>1 DEF WInv, Types
  <2>3. Types' /\ Held'
    BY <1>1, <2>1, <2>2 DEF WInv, Types, Held, Storing, Written, ByMode
  <2> QED  BY <1>1, <2>1, <2>3, CalmInv DEF Written, ByMode
<1> QED  BY <1>2, <1>3, <1>4

LEMMA NextFileWhole ==
    ASSUME WInv, NEW f \in File, NextFile(f)
    PROVE  WInv'
<1>1. /\ UNCHANGED <<disk, stamp, clock, nodes, record, mode>> /\ pc = "next"
      /\ cur' = f /\ got' = NothingRead /\ pc' = ByMode("stat", "read")
  BY DEF NextFile, world, database
<1>2. NothingRead \in [content : Content \cup {Absent}, stamp : Nat]
  BY DEF NothingRead
<1>3. Types' /\ Held'
  BY <1>1, <1>2 DEF WInv, Types, Held, Storing, Written, ByMode
<1>4. Whole'
  BY <1>1 DEF WInv, Whole, Expected, Written, ByMode
<1> QED  BY <1>3, <1>4 DEF WInv

LEMMA EditWhole ==
    ASSUME WInv, NEW f \in File, Edit(f)
    PROVE  WInv'
<1>1. PICK c \in (Versions[f] \cup {Absent}) \ {disk[f]} : disk' = [disk EXCEPT ![f] = c]
  BY DEF Edit
<1>2. /\ clock' = clock + 1 /\ stamp' = [stamp EXCEPT ![f] = clock + 1]
      /\ UNCHANGED <<nodes, record, pc, mode, cur, got>>
  BY DEF Edit, database, loops, atHand
<1>3. c \in Content \cup {Absent}
  BY StoreAssumption
<1>4. Types'
  BY <1>1, <1>2, <1>3 DEF WInv, Types
<1>5. Held'
  BY <1>2 DEF WInv, Held
<1> QED  BY <1>2, <1>4, <1>5, CalmInv

LEMMA StepWhole ==
    ASSUME WInv, crashes \in Nat, crashes' = 0, [Next]_vars
    PROVE  WInv'
<1> USE DEF world, database, loops, atHand, history
<1>1. ASSUME NEW f \in File, Edit(f) PROVE WInv'
  BY <1>1, EditWhole
<1>2. ASSUME NEW op \in {"files", "full"}, BeginFiles(op) PROVE WInv'
  BY <1>2, QuietWhole DEF BeginFiles, Begin, Storing, Written
<1>3. CASE Scan
  BY <1>3, QuietWhole DEF Scan, Begin, Storing, Written
<1>4. CASE PruneDone \/ CheckDone
  BY <1>4, QuietWhole DEF PruneDone, CheckDone, Storing, Written
<1>5. ASSUME NEW f \in File, Prune(f) PROVE WInv'
  <2>1. CASE f \notin present \/ disk[f] = Absent
    BY <1>5, <2>1, DeleteFileWhole DEF Prune
  <2>2. CASE ~(f \notin present \/ disk[f] = Absent)
    BY <1>5, <2>2, QuietWhole DEF Prune, Storing, Written
  <2> QED  BY <2>1, <2>2
<1>6. ASSUME NEW f \in File, Check(f) PROVE WInv'
  BY <1>6, QuietWhole DEF Check, Storing, Written
<1>7. ASSUME NEW f \in File, NextFile(f) PROVE WInv'
  BY <1>7, NextFileWhole
<1>8. CASE StatFile \/ ReadFile
  BY <1>8, ReadingWhole
<1>9. CASE Store
  BY <1>9, QuietWhole DEF Store, Storing, Written
<1>10. CASE DeleteOld
  BY <1>10, DeleteFileWhole DEF DeleteOld, WInv, Types
<1>11. CASE InsertNodes
  BY <1>11, InsertNodesWhole
<1>12. CASE InsertIncoming \/ InsertRefs
  BY <1>12, QuietWhole DEF InsertIncoming, InsertRefs, Storing, Written
<1>13. CASE UpsertFile
  BY <1>13, UpsertFileWhole
<1>14. CASE ResolveEdges
  BY <1>14, QuietWhole DEF ResolveEdges, Storing, Written
<1>15. CASE FilesDone
  BY <1>15, QuietWhole, ForgottenWhole DEF FilesDone, Forgotten, Storing, Written
<1>16. CASE ForgetRefs
  BY <1>16, ForgottenWhole DEF ForgetRefs, Forgotten, Written
<1>17. CASE Crash
  BY <1>17 DEF Crash
<1>18. CASE UNCHANGED vars
  BY <1>18, QuietWhole DEF vars
<1> QED
  BY <1>1, <1>2, <1>3, <1>4, <1>5, <1>6, <1>7, <1>8, <1>9, <1>10, <1>11, <1>12, <1>13,
     <1>14, <1>15, <1>16, <1>17, <1>18 DEF Next, Step

LEMMA CrashesCounted ==
    ASSUME crashes \in Nat, [Next]_vars
    PROVE  crashes' \in Nat /\ (crashes' = 0 => crashes = 0)
  BY DEF Next, Step, Edit, BeginFiles, Scan, PruneDone, CheckDone, FilesDone, Prune, Check,
     NextFile, StatFile, ReadFile, Store, DeleteOld, InsertNodes, InsertIncoming, InsertRefs,
     UpsertFile, ResolveEdges, ForgetRefs, Crash, vars

(* Until an operation is broken off, a recorded file that is not being     *)
(* stored has exactly the nodes of its recorded content.                   *)
THEOREM RecordedFileIsWholeHolds == Spec => []RecordedFileIsWhole
<1> DEFINE Inv == crashes \in Nat /\ (crashes = 0 => WInv)
<1>1. Init => Inv
  <2>1. NothingRead \in [content : Content \cup {Absent}, stamp : Nat]
    BY DEF NothingRead
  <2> QED
    BY <2>1, StoreAssumption
    DEF Init, WInv, Types, Held, Whole, Expected, FileNodes, Storing, Written
<1>2. Inv /\ [Next]_vars => Inv'
  BY StepWhole, CrashesCounted
<1>3. Inv => RecordedFileIsWhole
  BY DEF WInv, Whole, Expected, RecordedFileIsWhole, FileNodes, Storing, Written
<1> QED  BY <1>1, <1>2, <1>3, PTL DEF Spec
-----------------------------------------------------------------------------
(* Third result: callers keep their edges.  The invariant follows a call   *)
(* that was linked when the operation began: it is linked; or in the       *)
(* snapshot of its callee's file; or back among the references, to be      *)
(* resolved at the end; or it is gone for a reason that CallersKept names. *)

AtWork == Reading \cup Storing
Indexing == {"next", "resolve", "forget"} \cup AtWork

SymbolsIn(c) == {d[1] : d \in Defines[c]}

FromVersions ==
    /\ \A f \in File : disk[f] \in Versions[f] \cup {Absent}
    /\ \A f \in File : record[f] # NoRecord => record[f].content \in Versions[f]
    /\ pc \in Storing \/ (pc = "stat" /\ mode = "full") => got.content \in Versions[cur]

RowsFit ==
    /\ nodes \subseteq [file : File, symbol : Symbol, line : Nat]
    /\ \A n \in nodes : n.symbol \in Vocabulary(n.file)
    /\ edges \subseteq [from : nodes, to : nodes]
    /\ refs \subseteq [from : nodes, symbol : Symbol]

(* Where the operation is, and what it has left to do.                     *)
OpFits ==
    /\ mode \in {"sync", "files", "full"}
    /\ pc \in {"idle", "prune", "check"} \cup Indexing
    /\ pc = "idle" => complete
    /\ pc \in {"prune", "check"} => mode = "sync" /\ changed = {}
    /\ pc \in {"idle", "resolve", "forget"} => queue = {}
    /\ queue \subseteq File
    /\ pc = "next" \/ pc \in AtWork =>
          /\ mode = "sync" => queue \subseteq changed
          /\ mode = "files" => queue \subseteq excused
    /\ pc \in AtWork =>
          /\ cur \notin queue
          /\ mode = "sync" => cur \in changed
          /\ mode = "files" => cur \in excused
    /\ pc = "delete" => incoming = IncomingEdges
    /\ pc = "record" => CallsOf(cur, got.content) \subseteq refs

Linked(l) == l \in Links

Snapped(l) ==
    /\ pc \in {"nodes", "incoming"} /\ cur = l[3] /\ l[1] # l[3]
    /\ \E i \in incoming : /\ i.from \in nodes /\ i.from.file = l[1] /\ i.from.symbol = l[2]
                           /\ i.name = SimpleName[l[4]]

ToResolve(l) ==
    /\ pc \notin {"forget", "idle"} /\ mode # "files"
    /\ mode = "full" \/ l[1] \in changed
    /\ \E r \in refs : r.from.file = l[1] /\ r.from.symbol = l[2] /\ r.symbol = l[4]

Forgiven(l) == (IF mode = "files" THEN l[1] ELSE l[3]) \in excused

(* The caller's file has no record, or one without the call.               *)
CallGone(l) == mode # "files" /\ <<l[2], l[4]>> \notin RecordedCalls(l[1])

(* The callee's file has been stored without the symbol.                   *)
CalleeGone(l) ==
    /\ pc \in Indexing \cup {"idle"} /\ l[3] \notin queue
    /\ IF pc \in AtWork /\ cur = l[3]
       THEN pc \in {"refs", "record"} /\ l[4] \notin SymbolsIn(got.content)
       ELSE l[4] \notin RecordedSymbols(l[3])

Kept(l) ==
    Linked(l) \/ Snapped(l) \/ ToResolve(l) \/ Forgiven(l) \/ CallGone(l) \/ CalleeGone(l)

CallTuple == {<<f, s, g, t>> : f \in File, s \in Symbol, g \in File, t \in Symbol}

BeforeFits == /\ before \subseteq CallTuple
              /\ \A l \in before : l[4] \in Vocabulary(l[3])

Fits == FromVersions /\ RowsFit /\ OpFits /\ BeforeFits

KInv == WInv /\ Fits /\ \A l \in before : Kept(l)

(* Among finitely many nodes one is last in its file.                      *)
LEMMA SomeLast ==
    ASSUME NEW N, IsFiniteSet(N), N # {}, \A n \in N : n.line \in Nat
    PROVE  \E m \in N : \A n \in N : n.line <= m.line
<1> DEFINE HasLast(M) == \E m \in M : \A n \in M : n.line <= m.line
           Bad == {M \in FiniteSubsetsOf(N) : M # {} /\ ~HasLast(M)}
<1>1. N \in FiniteSubsetsOf(N)
  BY DEF FiniteSubsetsOf
<1>2. SUFFICES ASSUME Bad # {} PROVE FALSE
  BY <1>1
<1>3. PICK M \in Bad : \A L \in Bad : <<L, M>> \notin StrictSubsetOrdering(N)
  <2>1. IsWellFoundedOn(StrictSubsetOrdering(N), FiniteSubsetsOf(N))
    BY FS_StrictSubsetOrderingWellFounded
  <2>2. Bad \subseteq FiniteSubsetsOf(N)
    OBVIOUS
  <2> HIDE DEF Bad
  <2> QED  BY <1>2, <2>1, <2>2, WFMin
<1>4. PICK x \in M : TRUE
  OBVIOUS
<1> DEFINE L == M \ {x}
<1>5. L \in FiniteSubsetsOf(N) /\ M \subseteq N
  <2>1. M \subseteq N /\ IsFiniteSet(M)
    BY DEF FiniteSubsetsOf
  <2>2. IsFiniteSet(L)
    BY <2>1, FS_RemoveElement
  <2> QED  BY <2>1, <2>2 DEF FiniteSubsetsOf
<1>6. CASE L = {}
  <2>1. M = {x}
    BY <1>6
  <2>2. x.line <= x.line
    BY <1>5
  <2>3. HasLast(M)
    BY <2>1, <2>2
  <2> QED  BY <2>3
<1>7. CASE L # {}
  <2>1. <<L, M>> \in StrictSubsetOrdering(N)
    BY <1>5 DEF StrictSubsetOrdering
  <2>2. HasLast(L)
    BY <1>3, <1>5, <1>7, <2>1
  <2>3. PICK m \in L : \A n \in L : n.line <= m.line
    BY <2>2
  <2>4. x.line \in Nat /\ m.line \in Nat /\ \A n \in M : n.line \in Nat /\ (n = x \/ n \in L)
    BY <1>5
  <2>5. CASE x.line <= m.line
    <3>1. HasLast(M)
      BY <2>3, <2>5, <2>4
    <3> QED  BY <3>1
  <2>6. CASE ~(x.line <= m.line)
    <3>1. \A n \in M : n.line <= x.line
      BY <2>3, <2>4, <2>6
    <3>2. HasLast(M)
      BY <3>1
    <3> QED  BY <3>2
  <2> QED  BY <2>5, <2>6
<1> QED  BY <1>6, <1>7

(* The nodes of a content, and that a name among them has its last.        *)
LEMMA NodesFit ==
    ASSUME NEW f \in File, NEW c \in Content
    PROVE  /\ NodesOf(f, c) \subseteq [file : File, symbol : Symbol, line : Nat]
           /\ \A n \in NodesOf(f, c) : n.file = f /\ n.symbol \in SymbolsIn(c)
           /\ \A s \in SymbolsIn(c) : \E n \in NodesOf(f, c) : n.symbol = s
           /\ IsFiniteSet(NodesOf(f, c))
<1>1. Defines[c] \subseteq Symbol \X Nat /\ IsFiniteSet(Defines[c])
  BY StoreAssumption
<1>2. IsFiniteSet(NodesOf(f, c))
  <2> DEFINE row == [d \in Defines[c] |-> Node(f, d[1], d[2])]
  <2>1. row \in Surjection(Defines[c], NodesOf(f, c))
    BY DEF Surjection, NodesOf
  <2> QED  BY <1>1, <2>1, FS_Surjection
<1>3. /\ NodesOf(f, c) \subseteq [file : File, symbol : Symbol, line : Nat]
      /\ \A n \in NodesOf(f, c) : n.file = f /\ n.symbol \in SymbolsIn(c)
  BY <1>1 DEF NodesOf, Node, SymbolsIn
<1>4. ASSUME NEW s \in SymbolsIn(c) PROVE \E n \in NodesOf(f, c) : n.symbol = s
  <2>1. PICK d \in Defines[c] : s = d[1]
    BY DEF SymbolsIn
  <2>2. Node(f, d[1], d[2]) \in NodesOf(f, c) /\ Node(f, d[1], d[2]).symbol = d[1]
    BY DEF NodesOf, Node
  <2> QED  BY <2>1, <2>2
<1> QED  BY <1>2, <1>3, <1>4

LEMMA NewTargetExists ==
    ASSUME cur \in File, got.content \in Content, got.content \in Versions[cur], Unambiguous,
           NEW s \in SymbolsIn(got.content)
    PROVE  \E n \in NewTarget(SimpleName[s]) : n \in NodesOf(cur, got.content) /\ n.symbol = s
<1> DEFINE same == {n \in NodesOf(cur, got.content) : SimpleName[n.symbol] = SimpleName[s]}
<1>1. same # {} /\ \A n \in same : n.line \in Nat
  BY NodesFit
<1>2. IsFiniteSet(same)
  <2>1. IsFiniteSet(NodesOf(cur, got.content)) /\ same \in SUBSET NodesOf(cur, got.content)
    BY NodesFit
  <2> HIDE DEF same
  <2> QED  BY <2>1, FS_Subset
<1>3. PICK m \in same : \A n \in same : n.line <= m.line
  <2> HIDE DEF same
  <2> QED  BY <1>1, <1>2, SomeLast
<1>4. m \in NewTarget(SimpleName[s])
  BY <1>3 DEF NewTarget
<1>5. m.symbol \in Vocabulary(cur) /\ s \in Vocabulary(cur)
  <2>1. m.symbol \in SymbolsIn(got.content)
    BY NodesFit
  <2> QED  BY <2>1 DEF SymbolsIn, Vocabulary
<1>6. m.symbol = s
  BY <1>5 DEF Unambiguous
<1> QED  BY <1>4, <1>6

LEMMA LinkIsEdge ==
    ASSUME NEW l \in CallTuple
    PROVE  /\ l \in Links <=> \E e \in edges : /\ e.from.file = l[1] /\ e.from.symbol = l[2]
                                             /\ e.to.file = l[3] /\ e.to.symbol = l[4]
           /\ l \in Links' <=> \E e \in edges' : /\ e.from.file = l[1] /\ e.from.symbol = l[2]
                                               /\ e.to.file = l[3] /\ e.to.symbol = l[4]
  BY DEF CallTuple, Links

(* Every way to keep a call but two looks at rows, records and the files   *)
(* that the operation has and has not done.                                *)
LEMMA StillKept ==
    ASSUME NEW l, Kept(l), UNCHANGED <<edges, record, mode, excused>>,
           Snapped(l) => Snapped(l)', ToResolve(l) => ToResolve(l)', CalleeGone(l) => CalleeGone(l)'
    PROVE  Kept(l)'
  BY DEF Kept, Linked, Links, Forgiven, CallGone, RecordedCalls

LEMMA EditKept ==
    ASSUME KInv, NEW f \in File, Edit(f)
    PROVE  Fits' /\ \A l \in before' : Kept(l)'
<1> USE DEF Edit, database, loops, atHand, history
<1>1. UNCHANGED <<edges, nodes, refs, record, mode, excused, pc, queue, changed, cur, got, incoming, before, complete>>
  OBVIOUS
<1>2. FromVersions'
  <2>1. PICK c \in (Versions[f] \cup {Absent}) \ {disk[f]} : disk' = [disk EXCEPT ![f] = c]
    OBVIOUS
  <2> QED  BY <1>1, <2>1 DEF KInv, Fits, FromVersions, WInv, Types
<1>3. RowsFit' /\ OpFits' /\ BeforeFits'
  BY <1>1 DEF KInv, Fits, RowsFit, OpFits, BeforeFits, IncomingEdges
<1>4. ASSUME NEW l \in before PROVE Kept(l)'
  BY <1>1, StillKept DEF KInv, Snapped, ToResolve, CalleeGone, RecordedSymbols
<1> QED  BY <1>1, <1>2, <1>3, <1>4 DEF Fits

(* An operation begins: what is linked now is what it has to keep.         *)
LEMMA BeginKept ==
    ASSUME KInv, Scan \/ \E op \in {"files", "full"} : BeginFiles(op)
    PROVE  Fits' /\ \A l \in before' : Kept(l)'
<1> USE DEF Scan, BeginFiles, Begin, world, database, atHand
<1>1. /\ UNCHANGED <<disk, edges, nodes, refs, record, cur, got, incoming>>
      /\ pc = "idle" /\ before' = Links
  BY DEF KInv, Fits, OpFits
<1>2. FromVersions' /\ RowsFit'
  BY <1>1 DEF KInv, Fits, FromVersions, RowsFit, Storing
<1>3. OpFits'
  BY <1>1 DEF KInv, Fits, OpFits, AtWork, Indexing, Reading, Storing
<1>4. BeforeFits'
  BY <1>1 DEF KInv, Fits, BeforeFits, RowsFit, Links, CallTuple, Vocabulary
<1>5. \A l \in before' : Kept(l)'
  BY <1>1 DEF Kept, Linked, Links
<1> QED  BY <1>2, <1>3, <1>4, <1>5 DEF Fits

(* What is left of the edges when a file's rows are deleted.               *)
LEMMA DeleteFileRows ==
    ASSUME KInv, NEW f \in File, deleteFile(f)
    PROVE  /\ \A n : n \in nodes' <=> n \in nodes /\ n.file # f
           /\ \A e : e \in edges' <=> e \in edges /\ e.from.file # f /\ e.to.file # f
           /\ \A r : r \in refs' <=> r \in refs /\ r.from.file # f
           /\ record' = [record EXCEPT ![f] = NoRecord]
           /\ RowsFit'
<1>1. /\ \A n : n \in nodes' <=> n \in nodes /\ n.file # f
      /\ \A e : e \in edges' <=> e \in edges /\ e.from.file # f /\ e.to.file # f
      /\ \A r : r \in refs' <=> r \in refs /\ r.from.file # f
      /\ record' = [record EXCEPT ![f] = NoRecord]
  BY DEF deleteFile, DeleteNodes, KInv, Fits, RowsFit
<1>2. RowsFit'
  BY <1>1 DEF KInv, Fits, RowsFit
<1> QED  BY <1>1, <1>2

(* A call of another file to another file does not notice.                 *)
LEMMA DeleteElsewhere ==
    ASSUME KInv, NEW f \in File, deleteFile(f), NEW l \in before,
           Linked(l), l[1] # f, l[3] # f
    PROVE  Linked(l)'
<1>1. l \in CallTuple
  BY DEF KInv, Fits, BeforeFits
<1> QED  BY <1>1, LinkIsEdge, DeleteFileRows DEF Linked

LEMMA PruneKept ==
    ASSUME KInv, NEW f \in File, Prune(f)
    PROVE  Fits' /\ \A l \in before' : Kept(l)'
<1>1. /\ pc = "prune" /\ UNCHANGED <<pc, disk, mode, queue, changed, cur, got, incoming, before, complete>>
  BY DEF Prune, world, atHand
<1>2. mode = "sync" /\ changed = {}
  BY <1>1 DEF KInv, Fits, OpFits
<1>3. CASE ~(f \notin present \/ disk[f] = Absent)
  <2>1. UNCHANGED <<nodes, edges, refs, record, excused>>
    BY <1>3 DEF Prune, database
  <2>2. Fits'
    BY <1>1, <2>1 DEF KInv, Fits, FromVersions, RowsFit, OpFits, BeforeFits, Storing, AtWork, Reading
  <2>3. ASSUME NEW l \in before PROVE Kept(l)'
    BY <1>1, <2>1, StillKept DEF KInv, Snapped, ToResolve, CalleeGone, RecordedSymbols
  <2> QED  BY <1>1, <2>2, <2>3
<1>4. CASE f \notin present \/ disk[f] = Absent
  <2>1. deleteFile(f) /\ excused' = excused \cup {f}
    BY <1>4 DEF Prune
  <2>2. record' = [record EXCEPT ![f] = NoRecord] /\ record \in [File -> RecordType \cup {NoRecord}]
    BY <2>1 DEF deleteFile, KInv, WInv, Types
  <2>3. Fits'
    <3>1. FromVersions'
      BY <1>1, <2>2 DEF KInv, Fits, FromVersions, Storing
    <3>2. OpFits' /\ BeforeFits'
      BY <1>1 DEF KInv, Fits, OpFits, BeforeFits, AtWork, Storing, Reading
    <3> QED  BY <2>1, <3>1, <3>2, DeleteFileRows DEF Fits
  <2>4. ASSUME NEW l \in before PROVE Kept(l)'
    <3>1. l[1] \in File /\ l[3] \in File
      BY DEF KInv, Fits, BeforeFits, CallTuple
    <3>2. CASE l[1] = f
      BY <1>1, <1>2, <2>2, <3>1, <3>2 DEF Kept, CallGone, RecordedCalls
    <3>3. CASE l[3] = f
      BY <1>1, <1>2, <2>1, <3>3 DEF Kept, Forgiven
    <3>4. CASE l[1] # f /\ l[3] # f
      <4>1. ~Snapped(l) /\ ~ToResolve(l) /\ ~CalleeGone(l)
        BY <1>1, <1>2 DEF Snapped, ToResolve, CalleeGone, Indexing, AtWork, Reading, Storing
      <4>2. Linked(l) \/ Forgiven(l) \/ CallGone(l)
        BY <4>1 DEF KInv, Kept
      <4>3. CASE Linked(l)
        BY <2>1, <3>4, <4>3, DeleteElsewhere DEF Kept
      <4>4. CASE Forgiven(l)
        BY <1>1, <2>1, <4>4 DEF Kept, Forgiven
      <4>5. CASE CallGone(l)
        BY <1>1, <2>2, <3>1, <3>4, <4>5 DEF Kept, CallGone, RecordedCalls
      <4> QED  BY <4>2, <4>3, <4>4, <4>5
    <3> QED  BY <3>2, <3>3, <3>4
  <2> QED  BY <1>1, <2>3, <2>4
<1> QED  BY <1>3, <1>4

(* The rest of the scan, and reading a file: no rows change.               *)
LEMMA ScanKept ==
    ASSUME KInv, PruneDone \/ CheckDone \/ \E f \in File : Check(f)
    PROVE  Fits' /\ \A l \in before' : Kept(l)'
<1>1. /\ UNCHANGED <<disk, edges, nodes, refs, record, mode, excused, cur, got, incoming, before, complete>>
      /\ pc \in {"prune", "check"} /\ pc' \in {"check", "next"}
      /\ pc' = "check" => queue' \subseteq queue \cup File /\ changed' = changed
      /\ pc' = "next" => changed' = queue /\ queue' = queue
  BY DEF PruneDone, CheckDone, Check, world, database, atHand, history
<1>2. mode = "sync" /\ changed = {}
  BY <1>1 DEF KInv, Fits, OpFits
<1>3. FromVersions' /\ RowsFit' /\ BeforeFits'
  BY <1>1 DEF KInv, Fits, FromVersions, RowsFit, BeforeFits, Storing
<1>4. OpFits'
  BY <1>1, <1>2 DEF KInv, Fits, OpFits, AtWork, Indexing, Reading, Storing
<1>5. ASSUME NEW l \in before PROVE Kept(l)'
  <2>1. ~Snapped(l) /\ ~ToResolve(l) /\ ~CalleeGone(l)
    BY <1>1, <1>2 DEF Snapped, ToResolve, CalleeGone, Indexing, AtWork, Reading, Storing
  <2> QED  BY <1>1, <2>1, StillKept DEF KInv
<1> QED  BY <1>1, <1>3, <1>4, <1>5 DEF Fits

LEMMA ReadKept ==
    ASSUME KInv, StatFile \/ ReadFile \/ \E f \in File : NextFile(f)
    PROVE  Fits' /\ \A l \in before' : Kept(l)'
<1> USE DEF StatFile, ReadFile, NextFile, ByMode, world, database, loops, history
<1>1. /\ UNCHANGED <<disk, edges, nodes, refs, record, mode, changed, excused, before, complete>>
      /\ pc \in {"next", "stat", "read"} /\ pc' \in {"next", "stat", "read", "store"}
  OBVIOUS
<1>2. RowsFit' /\ BeforeFits'
  BY <1>1 DEF KInv, Fits, RowsFit, BeforeFits
<1>3. FromVersions'
  BY <1>1 DEF KInv, Fits, FromVersions, WInv, Types, Storing, NothingRead
<1>4. OpFits'
  BY <1>1 DEF KInv, Fits, OpFits, AtWork, Indexing, Reading, Storing
<1>5. ASSUME NEW l \in before PROVE Kept(l)'
  <2>1. ~Snapped(l)
    BY <1>1 DEF Snapped
  <2>2. ToResolve(l) => ToResolve(l)'
    BY <1>1 DEF ToResolve
  <2>3. CalleeGone(l) => CalleeGone(l)'
    BY <1>1 DEF CalleeGone, RecordedSymbols, KInv, Fits, OpFits, AtWork, Indexing, Reading, Storing
  <2> QED  BY <1>1, <2>1, <2>2, <2>3, StillKept DEF KInv
<1> QED  BY <1>1, <1>2, <1>3, <1>4, <1>5 DEF Fits

LEMMA StoreKept ==
    ASSUME KInv, Store
    PROVE  Fits' /\ \A l \in before' : Kept(l)'
<1> USE DEF Store, world, database, loops, history
<1>1. /\ UNCHANGED <<disk, edges, nodes, refs, record, mode, changed, queue, excused, before, complete, cur, got>>
      /\ pc = "store" /\ pc' \in {"next", "nodes", "delete"}
      /\ pc' = "delete" => incoming' = IncomingEdges
  OBVIOUS
<1>2. RowsFit' /\ BeforeFits'
  BY <1>1 DEF KInv, Fits, RowsFit, BeforeFits
<1>3. FromVersions'
  BY <1>1 DEF KInv, Fits, FromVersions, Storing
<1>4. OpFits'
  BY <1>1 DEF KInv, Fits, OpFits, AtWork, Indexing, Reading, Storing, IncomingEdges
<1>5. ASSUME NEW l \in before PROVE Kept(l)'
  <2>1. ~Snapped(l)
    BY <1>1 DEF Snapped
  <2>2. ToResolve(l) => ToResolve(l)'
    BY <1>1 DEF ToResolve
  <2>3. CalleeGone(l) => CalleeGone(l)'
    BY <1>1 DEF CalleeGone, RecordedSymbols, Indexing, AtWork, Reading, Storing
  <2> QED  BY <1>1, <2>1, <2>2, <2>3, StillKept DEF KInv
<1> QED  BY <1>1, <1>2, <1>3, <1>4, <1>5 DEF Fits

(* The old rows of the file at hand go: calls into it are in the snapshot, *)
(* calls out of it will be references again.                               *)
LEMMA DeleteOldKept ==
    ASSUME KInv, DeleteOld
    PROVE  Fits' /\ \A l \in before' : Kept(l)'
<1>1. /\ UNCHANGED <<disk, mode, changed, queue, excused, before, complete, cur, got, incoming>>
      /\ pc = "delete" /\ pc' = "nodes" /\ deleteFile(cur) /\ cur \in File
  BY DEF DeleteOld, world, loops, atHand, history, KInv, WInv, Types
<1>2. record' = [record EXCEPT ![cur] = NoRecord] /\ record \in [File -> RecordType \cup {NoRecord}]
  BY <1>1 DEF deleteFile, KInv, WInv, Types
<1>3. Fits'
  <2>1. FromVersions'
    BY <1>1, <1>2 DEF KInv, Fits, FromVersions, Storing
  <2>2. OpFits' /\ BeforeFits'
    BY <1>1 DEF KInv, Fits, OpFits, BeforeFits, AtWork, Indexing, Storing, Reading
  <2> QED  BY <1>1, <2>1, <2>2, DeleteFileRows DEF Fits
<1>4. ASSUME NEW l \in before PROVE Kept(l)'
  <2>1. l \in CallTuple /\ l[1] \in File /\ l[3] \in File
    BY DEF KInv, Fits, BeforeFits, CallTuple
  <2>2. CASE l[1] = cur
    <3>1. mode = "files" => cur \in excused
      BY <1>1 DEF KInv, Fits, OpFits, AtWork, Storing
    <3> QED  BY <1>1, <1>2, <2>1, <2>2, <3>1 DEF Kept, Forgiven, CallGone, RecordedCalls
  <2>3. CASE l[1] # cur /\ Linked(l) /\ l[3] = cur
    <3>1. PICK e \in edges : /\ e.from.file = l[1] /\ e.from.symbol = l[2]
                             /\ e.to.file = l[3] /\ e.to.symbol = l[4]
      BY <2>1, <2>3, LinkIsEdge DEF Linked
    <3>2. incoming = IncomingEdges
      BY <1>1 DEF KInv, Fits, OpFits
    <3>3. [from |-> e.from, name |-> SimpleName[e.to.symbol]] \in incoming
      BY <2>3, <3>1, <3>2 DEF IncomingEdges
    <3>4. e.from \in nodes'
      BY <1>1, <2>3, <3>1, DeleteFileRows DEF KInv, Fits, RowsFit
    <3>5. Snapped(l)'
      BY <1>1, <2>3, <3>1, <3>3, <3>4 DEF Snapped
    <3> QED  BY <3>5 DEF Kept
  <2>4. CASE l[1] # cur /\ Linked(l) /\ l[3] # cur
    BY <1>1, <2>4, DeleteElsewhere DEF Kept
  <2>5. CASE l[1] # cur /\ ~Linked(l)
    <3>1. ~Snapped(l)
      BY <1>1 DEF Snapped
    <3>2. ToResolve(l) => ToResolve(l)'
      BY <1>1, <2>5, DeleteFileRows DEF ToResolve
    <3>3. Forgiven(l) => Forgiven(l)'
      BY <1>1 DEF Forgiven
    <3>4. CallGone(l) => CallGone(l)'
      BY <1>1, <1>2, <2>1, <2>5 DEF CallGone, RecordedCalls
    <3>5. CalleeGone(l) => CalleeGone(l)'
      BY <1>1, <1>2, <2>1 DEF CalleeGone, RecordedSymbols, Indexing, AtWork, Storing, Reading
    <3> QED  BY <2>5, <3>1, <3>2, <3>3, <3>4, <3>5 DEF KInv, Kept
  <2> QED  BY <2>2, <2>3, <2>4, <2>5
<1> QED  BY <1>1, <1>3, <1>4

(* A file without a record has no rows that new ones could replace.        *)
LEMMA InsertNodesKept ==
    ASSUME KInv, InsertNodes
    PROVE  Fits' /\ \A l \in before' : Kept(l)'
<1> DEFINE new == NodesOf(cur, got.content)
<1>1. /\ UNCHANGED <<disk, record, mode, changed, queue, excused, before, complete, cur, got, incoming>>
      /\ pc = "nodes" /\ pc' = "incoming" /\ nodes' = nodes \cup new
      /\ edges' = {e \in edges : e.from \notin new /\ e.to \notin new}
      /\ refs' = {r \in refs : r.from \notin new}
  BY DEF InsertNodes, world, loops, atHand, history
<1>2. cur \in File /\ got.content \in Content /\ got.content \in Versions[cur] /\ record[cur] = NoRecord
  BY <1>1 DEF KInv, WInv, Types, Held, Fits, FromVersions, Storing, Written
<1>3. \A n \in nodes : n \notin new
  <2>1. FileNodes(nodes, cur) = {}
    BY <1>1, <1>2 DEF KInv, WInv, Whole, Expected, Written
  <2>2. \A n \in new : n.file = cur
    BY <1>2, NodesFit
  <2> QED  BY <2>1, <2>2 DEF FileNodes
<1>4. edges' = edges /\ refs' = refs
  BY <1>1, <1>3 DEF KInv, Fits, RowsFit
<1>5. Fits'
  <2>1. new \subseteq [file : File, symbol : Symbol, line : Nat]
        /\ \A n \in new : n.symbol \in Vocabulary(n.file)
    BY <1>2, NodesFit DEF Vocabulary, SymbolsIn
  <2> HIDE DEF new
  <2>2. RowsFit'
    BY <1>1, <1>4, <2>1 DEF KInv, Fits, RowsFit
  <2>3. FromVersions' /\ OpFits' /\ BeforeFits'
    BY <1>1 DEF KInv, Fits, FromVersions, OpFits, BeforeFits, AtWork, Indexing, Storing, Reading
  <2> QED  BY <2>2, <2>3 DEF Fits
<1>6. ASSUME NEW l \in before PROVE Kept(l)'
  <2>1. Snapped(l) => Snapped(l)'
    BY <1>1 DEF Snapped
  <2>2. ToResolve(l) => ToResolve(l)'
    BY <1>1, <1>4 DEF ToResolve
  <2>3. CalleeGone(l) => CalleeGone(l)'
    BY <1>1 DEF CalleeGone, RecordedSymbols, Indexing, AtWork, Storing, Reading
  <2> QED  BY <1>1, <1>4, <2>1, <2>2, <2>3, StillKept DEF KInv
<1> QED  BY <1>1, <1>5, <1>6

(* The snapshot is written back, to nodes of the same simple name.         *)
LEMMA InsertIncomingKept ==
    ASSUME KInv, Unambiguous, InsertIncoming
    PROVE  Fits' /\ \A l \in before' : Kept(l)'
<1>1. /\ UNCHANGED <<disk, nodes, refs, record, mode, changed, queue, excused, before, complete, cur, got, incoming>>
      /\ pc = "incoming" /\ pc' = "refs"
  BY DEF InsertIncoming, world, loops, atHand, history
<1>2. /\ \A e \in edges' : e \in edges \/ \E i \in incoming : \E n \in NewTarget(i.name) :
                                              i.from \in nodes /\ e = [from |-> i.from, to |-> n]
      /\ edges \subseteq edges'
      /\ \A i \in incoming : i.from \in nodes => \A n \in NewTarget(i.name) : [from |-> i.from, to |-> n] \in edges'
  <2> DEFINE back(i) == {[from |-> i.from, to |-> n] : n \in NewTarget(i.name)}
             live == {j \in incoming : j.from \in nodes}
  <2>1. edges' = edges \cup UNION {back(i) : i \in live}
    BY DEF InsertIncoming
  <2>2. \A i \in live : back(i) \subseteq edges'
    BY <2>1
  <2>3. \A e \in edges' : e \in edges \/ \E i \in live : e \in back(i)
    BY <2>1
  <2> QED  BY <2>1, <2>2, <2>3
<1>3. cur \in File /\ got.content \in Content /\ got.content \in Versions[cur]
  BY <1>1 DEF KInv, WInv, Types, Held, Fits, FromVersions, Storing, Written
<1>4. NodesOf(cur, got.content) \subseteq nodes
  BY <1>1, <1>3 DEF KInv, WInv, Whole, Expected, Written, FileNodes
<1>5. Fits'
  <2>1. \A e \in edges' : e \in [from : nodes, to : nodes]
    BY <1>2, <1>4 DEF NewTarget, KInv, Fits, RowsFit
  <2>2. RowsFit'
    BY <1>1, <2>1 DEF KInv, Fits, RowsFit
  <2>3. FromVersions' /\ OpFits' /\ BeforeFits'
    BY <1>1 DEF KInv, Fits, FromVersions, OpFits, BeforeFits, AtWork, Indexing, Storing, Reading
  <2> QED  BY <2>2, <2>3 DEF Fits
<1>6. ASSUME NEW l \in before PROVE Kept(l)'
  <2>1. l \in CallTuple
    BY DEF KInv, Fits, BeforeFits
  <2>2. CASE Linked(l)
    BY <1>2, <2>1, <2>2, LinkIsEdge DEF Kept, Linked
  <2>3. CASE Snapped(l)
    <3>1. PICK i \in incoming : /\ i.from \in nodes /\ i.from.file = l[1] /\ i.from.symbol = l[2]
                                /\ i.name = SimpleName[l[4]]
      BY <2>3 DEF Snapped
    <3>2. cur = l[3] /\ l[3] \notin queue
      BY <1>1, <2>3 DEF Snapped, KInv, Fits, OpFits, AtWork, Storing
    <3>3. CASE l[4] \notin SymbolsIn(got.content)
      BY <1>1, <3>2, <3>3 DEF Kept, CalleeGone, Indexing, AtWork, Storing
    <3>4. CASE l[4] \in SymbolsIn(got.content)
      <4>1. PICK n \in NewTarget(SimpleName[l[4]]) : n \in NodesOf(cur, got.content) /\ n.symbol = l[4]
        BY <1>3, <3>4, NewTargetExists
      <4>2. [from |-> i.from, to |-> n] \in edges' /\ n.file = l[3]
        BY <1>2, <1>3, <3>1, <3>2, <4>1, NodesFit
      <4>3. Linked(l)'
        BY <2>1, <3>1, <4>1, <4>2, LinkIsEdge DEF Linked
      <4> QED  BY <4>3 DEF Kept
    <3> QED  BY <3>3, <3>4
  <2>4. ToResolve(l) => ToResolve(l)'
    BY <1>1 DEF ToResolve
  <2>5. Forgiven(l) => Forgiven(l)'
    BY <1>1 DEF Forgiven
  <2>6. CallGone(l) => CallGone(l)'
    BY <1>1 DEF CallGone, RecordedCalls
  <2>7. CalleeGone(l) => CalleeGone(l)'
    BY <1>1 DEF CalleeGone, RecordedSymbols, Indexing, AtWork, Storing, Reading
  <2> QED  BY <2>2, <2>3, <2>4, <2>5, <2>6, <2>7 DEF KInv, Kept
<1> QED  BY <1>1, <1>5, <1>6

(* The calls of the file at hand are references again.                     *)
LEMMA InsertRefsKept ==
    ASSUME KInv, InsertRefs
    PROVE  Fits' /\ \A l \in before' : Kept(l)'
<1> DEFINE calls == CallsOf(cur, got.content)
<1>1. /\ UNCHANGED <<disk, nodes, edges, record, mode, changed, queue, excused, before, complete, cur, got, incoming>>
      /\ pc = "refs" /\ pc' = "record" /\ refs' = refs \cup calls
  BY DEF InsertRefs, world, loops, atHand, history
<1>2. cur \in File /\ got.content \in Content /\ NodesOf(cur, got.content) \subseteq nodes
  BY <1>1 DEF KInv, WInv, Types, Held, Whole, Expected, FileNodes, Storing, Written
<1>3. calls \subseteq [from : nodes, symbol : Symbol]
  BY <1>2 DEF CallsOf
<1>4. calls' = calls
  BY <1>1 DEF CallsOf, NodesOf
<1> HIDE DEF calls
<1>5. Fits'
  <2>1. RowsFit'
    BY <1>1, <1>3 DEF KInv, Fits, RowsFit
  <2>2. FromVersions' /\ BeforeFits'
    BY <1>1 DEF KInv, Fits, FromVersions, BeforeFits, Storing
  <2>3. CallsOf(cur, got.content)' \subseteq refs'
    BY <1>1, <1>4 DEF calls
  <2>4. OpFits'
    BY <1>1, <2>3 DEF KInv, Fits, OpFits, AtWork, Indexing, Storing, Reading
  <2> QED  BY <2>1, <2>2, <2>4 DEF Fits
<1>6. ASSUME NEW l \in before PROVE Kept(l)'
  <2>1. ~Snapped(l)
    BY <1>1 DEF Snapped
  <2>2. ToResolve(l) => ToResolve(l)'
    BY <1>1 DEF ToResolve
  <2>3. CalleeGone(l) => CalleeGone(l)'
    BY <1>1 DEF CalleeGone, RecordedSymbols, Indexing, AtWork, Storing, Reading
  <2> QED  BY <1>1, <2>1, <2>2, <2>3, StillKept DEF KInv
<1> QED  BY <1>1, <1>5, <1>6

(* The record of the file at hand is written: a call that its record       *)
(* lacked is now among the references, and a symbol that it lacks is gone. *)
LEMMA UpsertFileKept ==
    ASSUME KInv, UpsertFile
    PROVE  Fits' /\ \A l \in before' : Kept(l)'
<1>1. /\ UNCHANGED <<disk, nodes, edges, refs, mode, changed, queue, excused, before, complete, cur, got, incoming>>
      /\ pc = "record" /\ pc' = "next" /\ record' = [record EXCEPT ![cur] = got]
  BY DEF UpsertFile, world, loops, atHand, history
<1>2. /\ cur \in File /\ got.content \in Content /\ got.content \in Versions[cur]
      /\ got \in RecordType /\ record \in [File -> RecordType \cup {NoRecord}]
  BY <1>1 DEF KInv, WInv, Types, Held, Fits, FromVersions, Storing, Written, RecordType
<1>3. record'[cur] = got /\ got # NoRecord
  BY <1>1, <1>2, StoreAssumption DEF RecordType
<1>4. /\ cur \notin queue /\ (mode = "sync" => cur \in changed) /\ (mode = "files" => cur \in excused)
      /\ CallsOf(cur, got.content) \subseteq refs /\ mode \in {"sync", "files", "full"}
  BY <1>1 DEF KInv, Fits, OpFits, AtWork, Storing
<1>5. Fits'
  <2>1. RowsFit' /\ BeforeFits'
    BY <1>1 DEF KInv, Fits, RowsFit, BeforeFits
  <2>2. FromVersions'
    BY <1>1, <1>2, <1>3 DEF KInv, Fits, FromVersions, Storing
  <2>3. OpFits'
    BY <1>1 DEF KInv, Fits, OpFits, AtWork, Indexing, Storing, Reading
  <2> QED  BY <2>1, <2>2, <2>3 DEF Fits
<1>6. ASSUME NEW l \in before PROVE Kept(l)'
  <2>1. l \in CallTuple /\ l[1] \in File /\ l[2] \in Symbol /\ l[3] \in File /\ l[4] \in Symbol
    BY DEF KInv, Fits, BeforeFits, CallTuple
  <2>2. ~Snapped(l)
    BY <1>1 DEF Snapped
  <2>3. Linked(l) => Linked(l)'
    BY <1>1 DEF Linked, Links
  <2>4. ToResolve(l) => ToResolve(l)'
    BY <1>1 DEF ToResolve
  <2>5. Forgiven(l) => Forgiven(l)'
    BY <1>1 DEF Forgiven
  <2>6. CASE CallGone(l) /\ l[1] # cur
    BY <1>1, <1>2, <2>1, <2>6 DEF Kept, CallGone, RecordedCalls
  <2>7. CASE CallGone(l) /\ l[1] = cur /\ <<l[2], l[4]>> \notin Calls[got.content]
    BY <1>1, <1>3, <2>7 DEF Kept, CallGone, RecordedCalls
  <2>8. CASE CallGone(l) /\ l[1] = cur /\ <<l[2], l[4]>> \in Calls[got.content]
    <3>1. l[2] \in SymbolsIn(got.content)
      <4>1. PICK d \in Defines[got.content] : d[1] = l[2]
        BY <1>2, <2>8, StoreAssumption
      <4> QED  BY <4>1 DEF SymbolsIn
    <3>2. PICK n \in NodesOf(cur, got.content) : n.symbol = l[2]
      BY <1>2, <3>1, NodesFit
    <3>3. n.file = cur
      BY <1>2, NodesFit
    <3>4. [from |-> n, symbol |-> l[4]] \in refs
      BY <1>4, <2>1, <2>8, <3>2 DEF CallsOf
    <3>5. ToResolve(l)'
      BY <1>1, <1>4, <2>8, <3>2, <3>3, <3>4 DEF ToResolve, CallGone
    <3> QED  BY <3>5 DEF Kept
  <2>9. CalleeGone(l) => CalleeGone(l)'
    <3>1. CASE l[3] = cur
      BY <1>1, <1>3, <1>4, <3>1 DEF CalleeGone, RecordedSymbols, SymbolsIn, Indexing, AtWork, Storing, Reading
    <3>2. CASE l[3] # cur
      BY <1>1, <1>2, <2>1, <3>2 DEF CalleeGone, RecordedSymbols, Indexing, AtWork, Storing, Reading
    <3> QED  BY <3>1, <3>2
  <2> QED  BY <2>2, <2>3, <2>4, <2>5, <2>6, <2>7, <2>8, <2>9 DEF KInv, Kept
<1> QED  BY <1>1, <1>5, <1>6

(* After the last file nothing is left to do when nothing had changed.     *)
LEMMA FilesDoneKept ==
    ASSUME KInv, FilesDone
    PROVE  Fits' /\ \A l \in before' : Kept(l)'
<1>1. /\ UNCHANGED <<disk, nodes, edges, refs, record, mode, excused, before, cur>>
      /\ pc = "next" /\ queue = {} /\ queue' = {} /\ pc' \in {"resolve", "idle"}
      /\ pc' = "resolve" => UNCHANGED <<changed, complete>>
      /\ pc' = "idle" => complete' /\ mode # "full" /\ changed = {}
  BY DEF FilesDone, Forgotten, world, database, loops, atHand
<1>2. FromVersions' /\ RowsFit' /\ BeforeFits'
  BY <1>1 DEF KInv, Fits, FromVersions, RowsFit, BeforeFits, Storing
<1>3. OpFits'
  BY <1>1 DEF KInv, Fits, OpFits, AtWork, Indexing, Storing, Reading
<1>4. ASSUME NEW l \in before PROVE Kept(l)'
  <2>1. ~Snapped(l)
    BY <1>1 DEF Snapped
  <2>2. ToResolve(l) => ToResolve(l)'
    BY <1>1 DEF ToResolve
  <2>3. CalleeGone(l) => CalleeGone(l)'
    BY <1>1 DEF CalleeGone, RecordedSymbols, Indexing, AtWork, Storing, Reading
  <2> QED  BY <1>1, <2>1, <2>2, <2>3, StillKept DEF KInv
<1> QED  BY <1>1, <1>2, <1>3, <1>4 DEF Fits

(* A reference to a symbol that is there becomes an edge to it, as no      *)
(* other file defines the symbol.                                          *)
LEMMA ResolveEdgesKept ==
    ASSUME KInv, Unambiguous, ResolveEdges
    PROVE  Fits' /\ \A l \in before' : Kept(l)'
<1>1. /\ UNCHANGED <<disk, nodes, refs, record, mode, changed, queue, excused, before, complete, cur, got, incoming>>
      /\ pc = "resolve" /\ pc' = "forget"
  BY DEF ResolveEdges, world, loops, atHand, history
<1>2. PICK target \in [Resolvable -> nodes] :
          /\ \A r \in Resolvable : target[r].symbol = r.symbol
          /\ edges' = edges \cup {[from |-> r.from, to |-> target[r]] : r \in Resolvable}
  BY DEF ResolveEdges
<1>3. Resolvable \subseteq refs /\ queue = {}
  BY <1>1 DEF Resolvable, Scope, KInv, Fits, OpFits
<1>4. Fits'
  <2>1. \A r \in Resolvable : r.from \in nodes /\ target[r] \in nodes
    BY <1>2, <1>3 DEF KInv, Fits, RowsFit
  <2>2. edges' \subseteq [from : nodes, to : nodes]
    BY <1>2, <2>1 DEF KInv, Fits, RowsFit
  <2>3. RowsFit'
    BY <1>1, <2>2 DEF KInv, Fits, RowsFit
  <2>4. FromVersions' /\ BeforeFits'
    BY <1>1 DEF KInv, Fits, FromVersions, BeforeFits, Storing
  <2>5. OpFits'
    BY <1>1 DEF KInv, Fits, OpFits, AtWork, Indexing, Storing, Reading
  <2> QED  BY <2>3, <2>4, <2>5 DEF Fits
<1>5. ASSUME NEW l \in before PROVE Kept(l)'
  <2>1. /\ l \in CallTuple /\ l[1] \in File /\ l[3] \in File
        /\ l[4] \in Vocabulary(l[3])
    BY DEF KInv, Fits, BeforeFits, CallTuple
  <2>2. ~Snapped(l)
    BY <1>1 DEF Snapped
  <2>3. Linked(l) => Linked(l)'
    BY <1>2 DEF Linked, Links
  <2>4. CASE ToResolve(l) /\ l[4] \notin RecordedSymbols(l[3])
    BY <1>1, <1>3, <2>4 DEF Kept, CalleeGone, RecordedSymbols, Indexing, AtWork, Storing, Reading
  <2>5. CASE ToResolve(l) /\ l[4] \in RecordedSymbols(l[3])
    <3>1. PICK r \in refs : r.from.file = l[1] /\ r.from.symbol = l[2] /\ r.symbol = l[4]
      BY <2>5 DEF ToResolve
    <3>2. r \in Scope
      BY <2>5, <3>1 DEF ToResolve, Scope
    <3>3. record[l[3]] # NoRecord /\ record[l[3]].content \in Content
          /\ l[4] \in SymbolsIn(record[l[3]].content)
      BY <2>1, <2>5 DEF RecordedSymbols, SymbolsIn, KInv, WInv, Types, RecordType
    <3>4. NodesOf(l[3], record[l[3]].content) \subseteq nodes
      BY <1>1, <2>1, <3>3 DEF KInv, WInv, Whole, Expected, Written, FileNodes
    <3>5. \E n \in nodes : n.symbol = l[4]
      BY <2>1, <3>3, <3>4, NodesFit
    <3>6. r \in Resolvable
      BY <3>1, <3>2, <3>5 DEF Resolvable
    <3>7. target[r] \in nodes /\ target[r].symbol = l[4]
      BY <1>2, <3>1, <3>6
    <3>8. target[r].file \in File /\ l[4] \in Vocabulary(target[r].file)
      BY <3>7 DEF KInv, Fits, RowsFit
    <3>9. target[r].file = l[3]
      BY <2>1, <3>8 DEF Unambiguous
    <3>10. [from |-> r.from, to |-> target[r]] \in edges'
      BY <1>2, <3>6
    <3>11. Linked(l)'
      BY <2>1, <3>1, <3>7, <3>9, <3>10, LinkIsEdge DEF Linked
    <3> QED  BY <3>11 DEF Kept
  <2>6. Forgiven(l) => Forgiven(l)'
    BY <1>1 DEF Forgiven
  <2>7. CallGone(l) => CallGone(l)'
    BY <1>1 DEF CallGone, RecordedCalls
  <2>8. CalleeGone(l) => CalleeGone(l)'
    BY <1>1 DEF CalleeGone, RecordedSymbols, Indexing, AtWork, Storing, Reading
  <2> QED  BY <2>2, <2>3, <2>4, <2>5, <2>6, <2>7, <2>8 DEF KInv, Kept
<1> QED  BY <1>1, <1>4, <1>5

LEMMA ForgetRefsKept ==
    ASSUME KInv, ForgetRefs
    PROVE  Fits' /\ \A l \in before' : Kept(l)'
<1>1. /\ UNCHANGED <<disk, nodes, edges, record, mode, excused, before, cur>>
      /\ pc = "forget" /\ pc' = "idle" /\ queue' = {} /\ complete' /\ refs' \subseteq refs
  BY DEF ForgetRefs, Forgotten, world
<1>2. FromVersions' /\ RowsFit' /\ BeforeFits'
  BY <1>1 DEF KInv, Fits, FromVersions, RowsFit, BeforeFits, Storing
<1>3. OpFits'
  BY <1>1 DEF KInv, Fits, OpFits, AtWork, Indexing, Storing, Reading
<1>4. ASSUME NEW l \in before PROVE Kept(l)'
  <2>1. ~Snapped(l) /\ ~ToResolve(l)
    BY <1>1 DEF Snapped, ToResolve
  <2>2. CalleeGone(l) => CalleeGone(l)'
    BY <1>1 DEF CalleeGone, RecordedSymbols, Indexing, AtWork, Storing, Reading
  <2> QED  BY <1>1, <2>1, <2>2, StillKept DEF KInv
<1> QED  BY <1>1, <1>2, <1>3, <1>4 DEF Fits

LEMMA StepKept ==
    ASSUME KInv, Unambiguous, crashes \in Nat, crashes' = 0, [Next]_vars
    PROVE  KInv'
<1>1. WInv'
  BY StepWhole DEF KInv
<1>2. ASSUME NEW f \in File, Edit(f) PROVE KInv'
  BY <1>1, <1>2, EditKept DEF KInv
<1>3. CASE Scan \/ \E op \in {"files", "full"} : BeginFiles(op)
  BY <1>1, <1>3, BeginKept DEF KInv
<1>4. ASSUME NEW f \in File, Prune(f) PROVE KInv'
  BY <1>1, <1>4, PruneKept DEF KInv
<1>5. CASE PruneDone \/ CheckDone \/ \E f \in File : Check(f)
  BY <1>1, <1>5, ScanKept DEF KInv
<1>6. CASE StatFile \/ ReadFile \/ \E f \in File : NextFile(f)
  BY <1>1, <1>6, ReadKept DEF KInv
<1>7. CASE Store
  BY <1>1, <1>7, StoreKept DEF KInv
<1>8. CASE DeleteOld
  BY <1>1, <1>8, DeleteOldKept DEF KInv
<1>9. CASE InsertNodes
  BY <1>1, <1>9, InsertNodesKept DEF KInv
<1>10. CASE InsertIncoming
  BY <1>1, <1>10, InsertIncomingKept DEF KInv
<1>11. CASE InsertRefs
  BY <1>1, <1>11, InsertRefsKept DEF KInv
<1>12. CASE UpsertFile
  BY <1>1, <1>12, UpsertFileKept DEF KInv
<1>13. CASE FilesDone
  BY <1>1, <1>13, FilesDoneKept DEF KInv
<1>14. CASE ResolveEdges
  BY <1>1, <1>14, ResolveEdgesKept DEF KInv
<1>15. CASE ForgetRefs
  BY <1>1, <1>15, ForgetRefsKept DEF KInv
<1>16. ~Crash
  BY DEF Crash
<1>17. CASE UNCHANGED vars
  <2> USE <1>17 DEF vars, world, database, loops, atHand, history
  <2>1. FromVersions' /\ RowsFit' /\ OpFits' /\ BeforeFits'
    BY DEF KInv, Fits, FromVersions, RowsFit, OpFits, BeforeFits, IncomingEdges, CallsOf, NodesOf
  <2>2. ASSUME NEW l \in before PROVE Kept(l)'
    <3>1. /\ Snapped(l) => Snapped(l)'
          /\ ToResolve(l) => ToResolve(l)'
          /\ CalleeGone(l) => CalleeGone(l)'
      BY DEF Snapped, ToResolve, CalleeGone, RecordedSymbols
    <3> QED  BY <3>1, StillKept DEF KInv
  <2> QED  BY <1>1, <2>1, <2>2 DEF KInv, Fits
<1> QED
  BY <1>2, <1>3, <1>4, <1>5, <1>6, <1>7, <1>8, <1>9, <1>10, <1>11, <1>12, <1>13, <1>14,
     <1>15, <1>16, <1>17 DEF Next, Step

(* Until an operation is broken off, and as long as no two files define    *)
(* the same symbol and no two symbols of a file have the same simple name, *)
(* a complete operation has kept the calls that were linked before it: the *)
(* edges that storeExtractionResult takes out with a file's rows come back *)
(* from its snapshot or from the resolution at the end.                    *)
THEOREM CallersKeptHolds ==
    ASSUME Unambiguous
    PROVE  Spec => []CallersKept
<1> DEFINE Inv == crashes \in Nat /\ (crashes = 0 => KInv)
<1>1. Init => Inv
  <2> SUFFICES ASSUME Init PROVE crashes \in Nat /\ KInv
    OBVIOUS
  <2>1. WInv
    <3>1. NothingRead \in [content : Content \cup {Absent}, stamp : Nat]
      BY DEF NothingRead
    <3> QED
      BY <3>1, StoreAssumption
      DEF Init, WInv, Types, Held, Whole, Expected, FileNodes, Storing, Written
  <2>2. Fits
    BY DEF Init, Fits, FromVersions, RowsFit, OpFits, BeforeFits, Storing, AtWork, Reading
  <2> QED  BY <2>1, <2>2 DEF Init, KInv
<1>2. Inv /\ [Next]_vars => Inv'
  BY StepKept, CrashesCounted
<1>3. Inv => CallersKept
  <2> SUFFICES ASSUME KInv, pc = "idle", NEW l \in before,
                      <<l[2], l[4]>> \in RecordedCalls(l[1]), l[4] \in RecordedSymbols(l[3]),
                      (IF mode = "files" THEN l[1] ELSE l[3]) \notin excused
               PROVE  l \in Links
    BY DEF CallersKept
  <2>1. ~Snapped(l) /\ ~ToResolve(l) /\ ~Forgiven(l) /\ ~CallGone(l)
    BY DEF Snapped, ToResolve, Forgiven, CallGone
  <2>2. ~CalleeGone(l)
    BY DEF CalleeGone, AtWork, Storing, Reading
  <2> QED  BY <2>1, <2>2 DEF KInv, Kept, Linked
<1> QED  BY <1>1, <1>2, <1>3, PTL DEF Spec
=============================================================================
