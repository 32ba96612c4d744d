-------------------------- MODULE NoteToolsProofs --------------------------
(***************************************************************************)
(* For any paths, calls and edits: NoteToolsInv is an invariant, no text a *)
(* tool has written leaves the vault but by the user's hand or a confirmed *)
(* overwrite or delete, and a path out of step with its row is signalled.  *)
(*                                                                         *)
(* PatchIsFresh and LinkHoldsText are what the event loop gives: a call    *)
(* between its read and its write, or its link and its unlink, keeps every *)
(* other coroutine out, and the worker writes no file.                     *)
(*                                                                         *)
(* DriftInv strengthens DriftIsSignalled: what the worker has read and     *)
(* decided is still so or will be looked at again (WorkerReads,            *)
(* WorkerCommits), and a call alone on its paths finds its row and files   *)
(* as it left them (SharedIsMixed, CallFile).                              *)
(***************************************************************************)
EXTENDS NoteTools, FiniteSetTheorems, TLAPS

Inv == NoteToolsInv /\ NothingVanishes
DiskInv == PatchIsFresh /\ LinkHoldsText /\ NothingVanishes
RowInv == UniquePaths /\ CallData /\ WorkerData

CallRecord == [pc : {"new", "open", "insert", "lookup", "link", "unlink", "row", "read",
                     "write", "hash", "asked", "tombstone", "done", "dead"},
               op : Ops \cup {"none"}, path : Paths \cup {NoCall}, to : Paths \cup {NoCall},
               note : Nat, text : File]

(* What is in a text. *)
LEMMA InFacts ==
  /\ In(NoFile) = {}
  /\ \A t \in Text : In(t) = {t.base} \cup t.added /\ t # NoFile
  /\ \A e \in Edits : In(Fresh(e)) \cap Calls = {} /\ Fresh(e) \in Text
  /\ \A c \in Calls : In(Fresh(c)) = {c} /\ Fresh(c) \in Text
  /\ \A p \in Paths : Fresh(p) \in Text /\ In(Fresh(p)) \cap Calls = {}
<1>1. NoFile \notin Text
  BY NoteToolsAssumption DEF Text, Pieces
<1>2. \A x \in Pieces : Fresh(x) \in Text /\ In(Fresh(x)) = {x}
  BY <1>1 DEF Fresh, In, Text
<1>3. \A t \in Text : In(t) = {t.base} \cup t.added /\ t # NoFile
  BY <1>1 DEF In
<1>. QED  BY <1>1, <1>2, <1>3, NoteToolsAssumption DEF In, Pieces

(* Ids are handed out in order. *)
LEMMA NextIdFacts ==
  ASSUME NEW k \in Nat, NEW S, S = 1..k
  PROVE  Cardinality(S) = k
BY FS_Interval

(* What an INSERT does. *)
LEMMA InsertFacts ==
  ASSUME TypeOK, NEW p \in Paths, NEW h \in Hashes, Insert(p, h)
  PROVE  /\ \E k \in 0..MaxNotes : notes' \in [1..k -> Rows]
         /\ NextId \notin DOMAIN notes
         /\ DOMAIN notes' = DOMAIN notes \cup {NextId}
         /\ \A n \in DOMAIN notes : notes'[n] = notes[n]
         /\ notes'[NextId] = Row(p, h)
<1>1. PICK k \in 0..MaxNotes : notes \in [1..k -> Rows]
  BY DEF TypeOK
<1>2. k \in Nat /\ DOMAIN notes = 1..k
  BY <1>1, NoteToolsAssumption
<1>3. NextId = k + 1
  BY <1>2, NextIdFacts DEF NextId
<1>4. k + 1 \in 1..MaxNotes /\ 1..k \cup {k + 1} = 1..(k + 1)
  BY <1>2, <1>3, NoteToolsAssumption DEF Insert, NoteIds
<1>5. Row(p, h) \in Rows
  BY DEF Row, Rows
<1>6. notes' = [n \in 1..(k + 1) |-> IF n = k + 1 THEN Row(p, h) ELSE notes[n]]
  BY <1>2, <1>3, <1>4 DEF Insert
<1>7. notes' \in [1..(k + 1) -> Rows]
  BY <1>1, <1>2, <1>5, <1>6
<1>. QED  BY <1>2, <1>3, <1>4, <1>6, <1>7, NoteToolsAssumption

(* An UPDATE of one row keeps the table in shape. *)
LEMMA UpdateFacts ==
  ASSUME TypeOK, NEW n \in DOMAIN notes, NEW h \in Hashes, NEW p \in Paths,
         SetHash(n, h) \/ SetPath(n, p) \/ SetDeleted(n)
  PROVE  (\E k \in 0..MaxNotes : notes' \in [1..k -> Rows]) /\ DOMAIN notes' = DOMAIN notes
<1>1. PICK k \in 0..MaxNotes : notes \in [1..k -> Rows]
  BY DEF TypeOK
<1>2. DOMAIN notes' = DOMAIN notes
  BY DEF SetHash, SetPath, SetDeleted
<1>3. notes' \in [1..k -> Rows]
  BY <1>1 DEF SetHash, SetPath, SetDeleted, Rows
<1>. QED  BY <1>1, <1>2, <1>3

(* The types that the steps need. *)
LEMMA TypeFacts ==
  ASSUME TypeOK
  PROVE  /\ \A p \in Paths : disk[p] \in File
         /\ \A n \in DOMAIN notes : notes[n] \in Rows /\ n \in Nat
         /\ \A c \in Calls : call[c] \in CallRecord
         /\ NoCall \notin Calls
<1>1. PICK k \in 0..MaxNotes : notes \in [1..k -> Rows]
  BY DEF TypeOK
<1>. QED  BY <1>1, NoteToolsAssumption DEF TypeOK, CallRecord

LEMMA HashFacts ==
  ASSUME NEW t \in Text
  PROVE  RawHash(t) \in Hashes /\ BodyHash(t) \in Hashes
BY DEF RawHash, BodyHash, Hashes

LEMMA InitType == Init => TypeOK
<1>. SUFFICES ASSUME Init PROVE TypeOK
  OBVIOUS
<1>1. PICK rows \in [1..Cardinality(Seeded) -> Seeded] :
        notes = [i \in DOMAIN rows |-> Row(rows[i], BodyHash(Fresh(rows[i])))]
  BY DEF Init
<1>2. Cardinality(Seeded) \in 0..MaxNotes
  BY NoteToolsAssumption, FS_CardinalityType
<1>3. notes \in [1..Cardinality(Seeded) -> Rows]
  <2>1. \A i \in 1..Cardinality(Seeded) : rows[i] \in Paths
    BY NoteToolsAssumption
  <2>2. \A p \in Paths : Row(p, BodyHash(Fresh(p))) \in Rows
    BY InFacts, HashFacts DEF Row, Rows
  <2>. QED  BY <1>1, <2>1, <2>2
<1>4. disk \in [Paths -> File]
  BY InFacts DEF Init, File
<1>5. NewCall \in CallRecord /\ IdleWorker.pc = "idle"
  BY DEF NewCall, CallRecord, IdleWorker, File
<1>. QED
  BY <1>2, <1>3, <1>4, <1>5, NoteToolsAssumption DEF Init, TypeOK, IdleWorker, NewCall, CallRecord, File

THEOREM NoteToolsInit == Init => Inv
<1>. SUFFICES ASSUME Init PROVE Inv
  OBVIOUS
<1>1. TypeOK
  BY InitType
<1>2. UniquePaths
  BY DEF Init, UniquePaths, Row
<1>3. CallData /\ WorkerData /\ PatchIsFresh /\ LinkHoldsText /\ NothingVanishes
  BY DEF Init, CallData, WorkerData, PatchIsFresh, LinkHoldsText, NothingVanishes, NewCall, IdleWorker, Running
<1>. QED  BY <1>1, <1>2, <1>3 DEF Inv, NoteToolsInv

(* What every tool step finds: its paths, its row, its text. *)
LEMMA CallFacts ==
  ASSUME Inv, NEW c \in Calls
  PROVE  /\ call[c] \in CallRecord
         /\ Running(c) => call[c].path \in Paths /\ call[c].to \in Paths
         /\ call[c].pc \in {"link", "unlink", "row", "read", "write", "hash", "asked", "tombstone"} =>
              call[c].note \in DOMAIN notes
         /\ call[c].pc \in {"write", "hash"} => call[c].text \in Text
BY TypeFacts DEF Inv, NoteToolsInv, CallData, On, CallRecord, File

(* The tables and records keep their types. *)
LEMMA TypeStep == Inv /\ [Next]_vars => TypeOK'
<1>. SUFFICES ASSUME Inv, [Next]_vars PROVE TypeOK'
  OBVIOUS
<1>. USE DEF Inv, NoteToolsInv
<1>0. /\ TypeOK /\ mixed \subseteq Paths
      /\ call \in [Calls -> CallRecord] /\ disk \in [Paths -> File] /\ loop \in Calls \cup {NoCall}
      /\ \A p \in Paths : In(disk[p]) \subseteq Pieces
      /\ \A p \in Paths, t \in File : [disk EXCEPT ![p] = t] \in [Paths -> File]
      /\ \A c \in Calls, r \in CallRecord : [call EXCEPT ![c] = r] \in [Calls -> CallRecord]
      /\ NewCall \in CallRecord
  BY DEF TypeOK, CallRecord, File, Text, In, Pieces, NewCall
<1>1. ASSUME NEW ps \in SUBSET Paths PROVE Mixes(ps) \subseteq Paths
  <2>1. \A c \in Calls : Running(c) => On(c) \subseteq Paths
    BY DEF CallData
  <2>. QED  BY <1>0, <2>1 DEF Mixes, AtWork
<1>2. ASSUME NEW c \in Calls, NEW op \in Ops, NEW p \in Paths, NEW q \in Paths, Begin(c, op, p, q)
      PROVE  TypeOK'
  <2>1. mixed' \subseteq Paths
    BY <1>1, <1>2 DEF Begin
  <2>2. call' \in [Calls -> CallRecord]
    BY <1>0, <1>2 DEF Begin, NewCall, CallRecord, File
  <2>. QED  BY <1>0, <1>2, <2>1, <2>2 DEF Begin, TypeOK, CallRecord
<1>3. ASSUME NEW c \in Calls, ToolStep(c) \/ Answer(c) PROVE TypeOK'
  <2>. DEFINE p == call[c].path
  <2>. DEFINE q == call[c].to
  <2>0. /\ call[c] \in CallRecord
        /\ Running(c) => p \in Paths /\ q \in Paths
        /\ Fresh(c) \in Text
    BY CallFacts, InFacts
  <2>1. CASE OpenFile(c)
    <3>1. call' \in [Calls -> CallRecord]
      BY <1>0, <2>0, <2>1 DEF OpenFile, Goto, Finish, Ended, NewCall, CallRecord
    <3>2. p \in Paths
      BY <2>0, <2>1 DEF OpenFile, Resume, Running
    <3>3. disk' \in [Paths -> File] /\ signals' \subseteq Paths /\ written' \subseteq Calls \cup Edits
      BY <1>0, <2>0, <2>1, <3>2 DEF OpenFile, Change, File, TypeOK
    <3>. QED  BY <1>0, <2>1, <3>1, <3>3 DEF OpenFile, TypeOK, CallRecord
  <2>2. CASE InsertRow(c)
    <3>1. RawHash(Fresh(c)) \in Hashes
      BY <2>0, HashFacts
    <3>2. \E k \in 0..MaxNotes : notes' \in [1..k -> Rows]
      BY <1>0, <2>0, <2>2, <3>1, InsertFacts DEF InsertRow, Resume, Running, TypeOK
    <3>. QED  BY <1>0, <2>0, <2>2, <3>2 DEF InsertRow, Resume, Finish, Ended, NewCall, TypeOK, CallRecord, File
  <2>3. CASE Lookup(c)
    <3>1. \A n \in DOMAIN notes : n \in Nat
      BY <1>0, TypeFacts
    <3>2. AfterLookup(call[c].op) \in {"link", "asked", "read"}
      BY DEF AfterLookup
    <3>3. call' \in [Calls -> CallRecord]
      BY <1>0, <2>0, <2>3, <3>1, <3>2 DEF Lookup, At, Resume, Finish, Ended, NewCall, CallRecord, File
    <3>. QED  BY <1>0, <2>3, <3>3 DEF Lookup, TypeOK, CallRecord
  <2>4. CASE LinkFile(c)
    <3>1. call' \in [Calls -> CallRecord]
      BY <1>0, <2>0, <2>4 DEF LinkFile, Goto, Finish, Ended, NewCall, CallRecord
    <3>2. p \in Paths /\ q \in Paths
      BY <2>0, <2>4 DEF LinkFile, Resume, Running
    <3>3. disk[p] \in File
      BY <1>0, <3>2
    <3>4. disk' = [disk EXCEPT ![q] = disk[p]] \/ disk' = disk
      BY <2>4 DEF LinkFile, Change
    <3>5. signals' \subseteq Paths
      BY <1>0, <2>4, <3>2 DEF LinkFile, Change, TypeOK
    <3>6. disk' \in [Paths -> File]
      BY <1>0, <3>2, <3>3, <3>4
    <3>. QED  BY <1>0, <2>4, <3>1, <3>5, <3>6 DEF LinkFile, TypeOK, CallRecord
  <2>5. CASE UnlinkOld(c)
    <3>1. call' \in [Calls -> CallRecord]
      BY <1>0, <2>0, <2>5 DEF UnlinkOld, Goto, Finish, Ended, NewCall, CallRecord
    <3>2. disk' \in [Paths -> File] /\ signals' \subseteq Paths
      BY <1>0, <2>0, <2>5 DEF UnlinkOld, Resume, Running, Change, TypeOK, File
    <3>. QED  BY <1>0, <2>5, <3>1, <3>2 DEF UnlinkOld, Release, TypeOK, CallRecord
  <2>6. CASE MoveRow(c)
    <3>1. call' \in [Calls -> CallRecord]
      BY <1>0, <2>0, <2>6 DEF MoveRow, Finish, Ended, NewCall, CallRecord
    <3>2. q \in Paths /\ call[c].note \in DOMAIN notes
      BY <2>6, CallFacts DEF MoveRow, Resume, Running
    <3>3. \E h \in Hashes : TRUE
      BY <2>0, HashFacts
    <3>4. \E k \in 0..MaxNotes : notes' \in [1..k -> Rows]
      BY <1>0, <2>6, <3>2, <3>3, UpdateFacts DEF MoveRow, TypeOK
    <3>5. mixed' \subseteq Paths
      BY <1>0, <2>6, <3>2 DEF MoveRow
    <3>. QED  BY <1>0, <2>6, <3>1, <3>4, <3>5 DEF MoveRow, TypeOK, CallRecord
  <2>7. CASE ReadBody(c)
    <3>1. call' \in [Calls -> CallRecord]
      BY <1>0, <2>0, <2>7 DEF ReadBody, Resume, Running, Goto, Finish, Ended, NewCall, CallRecord
    <3>. QED  BY <1>0, <2>7, <3>1 DEF ReadBody, TypeOK, CallRecord
  <2>8. CASE WritePatch(c)
    <3>1. PICK new : new = [call[c].text EXCEPT !.added = @ \cup {c}]
      OBVIOUS
    <3>2. p \in Paths /\ call[c].text \in Text
      BY <2>8, CallFacts DEF WritePatch, Resume, Running
    <3>3. new \in Text
      BY <3>1, <3>2 DEF Text
    <3>4. call' \in [Calls -> CallRecord]
      <4>1. call' = [call EXCEPT ![c] = [call[c] EXCEPT !.pc = "hash", !.text = new]]
        BY <1>0, <2>8, <3>1 DEF WritePatch
      <4>2. [call[c] EXCEPT !.pc = "hash", !.text = new] \in CallRecord
        BY <2>0, <3>3 DEF CallRecord, File
      <4>. QED  BY <1>0, <4>1, <4>2
    <3>5. disk' \in [Paths -> File] /\ signals' \subseteq Paths
      BY <1>0, <2>8, <3>1, <3>2, <3>3 DEF WritePatch, Change, TypeOK, File
    <3>. QED  BY <1>0, <2>8, <3>4, <3>5 DEF WritePatch, Release, TypeOK, CallRecord
  <2>9. CASE RecordHash(c)
    <3>1. call' \in [Calls -> CallRecord]
      BY <1>0, <2>0, <2>9 DEF RecordHash, Finish, Ended, NewCall, CallRecord
    <3>2. p \in Paths /\ call[c].note \in DOMAIN notes /\ RawHash(call[c].text) \in Hashes
      BY <2>9, CallFacts, HashFacts DEF RecordHash, Resume, Running
    <3>3. \E k \in 0..MaxNotes : notes' \in [1..k -> Rows]
      BY <1>0, <2>9, <3>2, UpdateFacts DEF RecordHash
    <3>. QED  BY <1>0, <2>9, <3>1, <3>3 DEF RecordHash, TypeOK, CallRecord
  <2>10. CASE Tombstone(c)
    <3>1. call' \in [Calls -> CallRecord]
      BY <1>0, <2>0, <2>10 DEF Tombstone, Finish, Ended, NewCall, CallRecord
    <3>2. p \in Paths /\ call[c].note \in DOMAIN notes
      BY <2>10, CallFacts DEF Tombstone, Resume, Running
    <3>3. \E h \in Hashes : TRUE
      BY <2>0, HashFacts
    <3>4. \E k \in 0..MaxNotes : notes' \in [1..k -> Rows]
      BY <1>0, <2>10, <3>2, <3>3, UpdateFacts DEF Tombstone
    <3>. QED  BY <1>0, <2>10, <3>1, <3>4 DEF Tombstone, TypeOK, CallRecord
  <2>11. CASE Overwrite(c)
    <3>1. call' \in [Calls -> CallRecord]
      BY <1>0, <2>0, <2>11 DEF Overwrite, CallRecord, File
    <3>2. disk' \in [Paths -> File] /\ signals' \subseteq Paths /\ erased' \subseteq Pieces
      BY <1>0, <2>0, <2>11 DEF Overwrite, Resume, Running, Change, TypeOK, File
    <3>. QED  BY <1>0, <2>11, <3>1, <3>2 DEF Overwrite, TypeOK, CallRecord
  <2>12. CASE RemoveFile(c)
    <3>1. call' \in [Calls -> CallRecord]
      BY <1>0, <2>0, <2>12 DEF RemoveFile, Goto, Finish, Ended, NewCall, CallRecord
    <3>2. disk' \in [Paths -> File] /\ signals' \subseteq Paths /\ erased' \subseteq Pieces
      BY <1>0, <2>0, <2>12 DEF RemoveFile, Resume, Running, Change, TypeOK, File
    <3>. QED  BY <1>0, <2>12, <3>1, <3>2 DEF RemoveFile, TypeOK, CallRecord
  <2>13. CASE Decline(c)
    <3>1. call' \in [Calls -> CallRecord]
      BY <1>0, <2>0, <2>13 DEF Decline, Finish, Ended, NewCall, CallRecord
    <3>. QED  BY <1>0, <2>13, <3>1 DEF Decline, TypeOK, CallRecord
  <2>. QED  BY <1>3, <2>1, <2>2, <2>3, <2>4, <2>5, <2>6, <2>7, <2>8, <2>9, <2>10, <2>11, <2>12, <2>13
            DEF ToolStep, Answer
<1>4. ASSUME NEW p \in Paths, ReadFile(p) PROVE TypeOK'
  BY <1>0, <1>4 DEF ReadFile, IdleWorker, TypeOK
<1>5. ASSUME DecideVanished \/ DecideFile PROVE TypeOK'
  <2>1. \A n \in DOMAIN notes : n \in NoteIds /\ n \in Nat
    BY <1>0, NoteToolsAssumption DEF TypeOK, NoteIds
  <2>2. IdleWorker.pc = "idle" /\ IdleWorker.text = NoFile /\ IdleWorker.what = "none"
        /\ IdleWorker.path = NoCall /\ IdleWorker.note = 0
    BY DEF IdleWorker
  <2>3. \/ worker' = IdleWorker
        \/ \E what \in {"update", "delete", "create", "move"}, n \in DOMAIN notes \cup {0} : Decided(what, n)
    BY <1>5 DEF DecideVanished, DecideFile, At, Like
  <2>4. worker' \in [pc : {"idle", "decide", "commit"}, path : Paths \cup {NoCall}, text : File,
                     what : {"none", "update", "delete", "create", "move"}, note : Nat]
    <3>1. CASE worker' = IdleWorker
      BY <3>1 DEF IdleWorker, File
    <3>2. ASSUME NEW what \in {"update", "delete", "create", "move"}, NEW n \in DOMAIN notes \cup {0},
                 worker' = [worker EXCEPT !.pc = "commit", !.what = what, !.note = n]
          PROVE  worker' \in [pc : {"idle", "decide", "commit"}, path : Paths \cup {NoCall}, text : File,
                     what : {"none", "update", "delete", "create", "move"}, note : Nat]
      <4>1. n \in Nat
        BY <2>1
      <4>. QED  BY <1>0, <3>2, <4>1 DEF TypeOK
    <3>. QED  BY <2>3, <3>1, <3>2 DEF Decided
  <2>5. passed' \subseteq NoteIds
    BY <1>0, <1>5, <2>1 DEF DecideVanished, DecideFile, At, TypeOK
  <2>. QED  BY <1>0, <1>5, <2>4, <2>5 DEF DecideVanished, DecideFile, TypeOK
<1>6. ASSUME CommitIngest PROVE TypeOK'
  <2>1. worker.path \in Paths /\ worker.what # "none"
    BY <1>6 DEF CommitIngest, WorkerData
  <2>2. worker.what \in {"update", "create", "move"} => BodyHash(worker.text) \in Hashes
    BY <1>0, <1>6, HashFacts DEF CommitIngest, WorkerData, TypeOK, File
  <2>3. worker.what \in {"update", "delete", "move"} => worker.note \in DOMAIN notes
    BY <1>6 DEF CommitIngest, WorkerData
  <2>4. \E h \in Hashes : TRUE
    BY <2>1, InFacts, HashFacts
  <2>5. \E k \in 0..MaxNotes : notes' \in [1..k -> Rows]
    BY <1>0, <1>6, <2>1, <2>2, <2>3, <2>4, InsertFacts, UpdateFacts DEF CommitIngest, TypeOK
  <2>6. mixed' \subseteq Paths /\ signals' \subseteq Paths
    BY <1>0, <1>6, <2>1 DEF CommitIngest, TypeOK
  <2>. QED  BY <1>0, <1>6, <2>5, <2>6 DEF CommitIngest, IdleWorker, File, TypeOK
<1>7. ASSUME NEW p \in Paths, NEW e \in Edits, Edit(p, e) PROVE TypeOK'
  <2>1. mixed' \subseteq Paths
    BY <1>1, <1>7 DEF Edit
  <2>. QED  BY <1>0, <1>7, <2>1, InFacts DEF Edit, Change, File, TypeOK
<1>8. ASSUME NEW p \in Paths, Remove(p) PROVE TypeOK'
  <2>1. mixed' \subseteq Paths
    BY <1>1, <1>8 DEF Remove
  <2>2. disk' \in [Paths -> File] /\ signals' \subseteq Paths /\ erased' \subseteq Pieces
    BY <1>0, <1>8 DEF Remove, Change, File, TypeOK
  <2>3. mishaps' \in Nat
    BY <1>0, <1>8 DEF Remove, Spend, TypeOK
  <2>. QED  BY <1>0, <1>8, <2>1, <2>2, <2>3 DEF Remove, TypeOK
<1>9. ASSUME ServerCrash PROVE TypeOK'
  BY <1>0, <1>9 DEF ServerCrash, Spend, Ended, NewCall, File, TypeOK, CallRecord
<1>10. ASSUME WorkerRestart PROVE TypeOK'
  BY <1>0, <1>10 DEF WorkerRestart, Spend, IdleWorker, File, TypeOK
<1>11. ASSUME UNCHANGED vars PROVE TypeOK'
  BY <1>11 DEF vars, TypeOK
<1>. QED
  BY <1>2, <1>3, <1>4, <1>5, <1>6, <1>7, <1>8, <1>9, <1>10, <1>11 DEF Next, WorkerStep

(* Rows are never dropped. *)
LEMMA DomainGrows == Inv /\ [Next]_vars => DOMAIN notes \subseteq DOMAIN notes'
<1>. SUFFICES ASSUME Inv, [Next]_vars PROVE DOMAIN notes \subseteq DOMAIN notes'
  OBVIOUS
<1>1. ASSUME NEW p, NEW h, Insert(p, h) PROVE DOMAIN notes \subseteq DOMAIN notes'
  BY <1>1 DEF Insert
<1>2. ASSUME NEW n, NEW h, SetHash(n, h) \/ SetPath(n, h) \/ SetDeleted(n) PROVE DOMAIN notes \subseteq DOMAIN notes'
  BY <1>2 DEF SetHash, SetPath, SetDeleted
<1>. QED
  BY <1>1, <1>2 DEF Next, ToolStep, Answer, WorkerStep, Begin, OpenFile, InsertRow, Lookup, LinkFile, UnlinkOld,
     MoveRow, ReadBody, WritePatch, RecordHash, Tombstone, Overwrite, RemoveFile, Decline, ReadFile,
     DecideVanished, DecideFile, CommitIngest, Edit, Remove, ServerCrash, WorkerRestart, vars

(* No two rows have one path: an INSERT or a move onto a taken path raises. *)
LEMMA PathsStep == Inv /\ [Next]_vars => UniquePaths'
<1>. SUFFICES ASSUME Inv, [Next]_vars PROVE UniquePaths'
  OBVIOUS
<1>0. TypeOK /\ UniquePaths
  BY DEF Inv, NoteToolsInv
<1>1. ASSUME NEW p \in Paths, NEW h \in Hashes, ~Taken(p), Insert(p, h) PROVE UniquePaths'
  <2>1. /\ NextId \notin DOMAIN notes
        /\ DOMAIN notes' = DOMAIN notes \cup {NextId}
        /\ \A n \in DOMAIN notes : notes'[n] = notes[n]
        /\ notes'[NextId] = Row(p, h)
    BY <1>0, <1>1, InsertFacts
  <2>2. PICK id : id = NextId
    OBVIOUS
  <2>3. \A n \in DOMAIN notes : notes[n].path # p
    BY <1>1 DEF Taken, At
  <2>4. notes'[id].path = p
    BY <2>1, <2>2 DEF Row
  <2>. QED  BY <1>0, <2>1, <2>2, <2>3, <2>4 DEF UniquePaths
<1>2. ASSUME NEW n, NEW h, SetHash(n, h) \/ SetDeleted(n) PROVE UniquePaths'
  <2>1. DOMAIN notes' = DOMAIN notes /\ \A m \in DOMAIN notes : notes'[m].path = notes[m].path
    BY <1>0, <1>2, TypeFacts DEF SetHash, SetDeleted, Rows
  <2>. QED  BY <1>0, <2>1 DEF UniquePaths
<1>3. ASSUME NEW n \in DOMAIN notes, NEW p, At(p) \subseteq {n}, SetPath(n, p) PROVE UniquePaths'
  <2>1. DOMAIN notes' = DOMAIN notes /\ \A m \in DOMAIN notes : notes'[m].path = IF m = n THEN p ELSE notes[m].path
    BY <1>0, <1>3, TypeFacts DEF SetPath, Rows
  <2>. QED  BY <1>0, <1>3, <2>1 DEF UniquePaths, At
<1>4. CASE UNCHANGED notes
  BY <1>0, <1>4 DEF UniquePaths
<1>5. ASSUME NEW c \in Calls, InsertRow(c) PROVE UniquePaths'
  <2>1. call[c].path \in Paths /\ RawHash(Fresh(c)) \in Hashes
    BY <1>5, CallFacts, InFacts, HashFacts DEF InsertRow, Resume, Running
  <2>. QED  BY <1>1, <1>4, <1>5, <2>1 DEF InsertRow
<1>6. ASSUME NEW c \in Calls, MoveRow(c) PROVE UniquePaths'
  <2>1. call[c].note \in DOMAIN notes
    BY <1>6, CallFacts DEF MoveRow, Resume
  <2>. QED  BY <1>3, <1>4, <1>6, <2>1 DEF MoveRow
<1>7. ASSUME CommitIngest PROVE UniquePaths'
  <2>0. WorkerData
    BY DEF Inv, NoteToolsInv
  <2>1. worker.path \in Paths
    BY <1>7, <2>0 DEF CommitIngest, WorkerData
  <2>2. worker.what \in {"update", "create", "move"} => BodyHash(worker.text) \in Hashes
    BY <1>0, <1>7, <2>0, HashFacts DEF CommitIngest, WorkerData, TypeOK, File
  <2>3. worker.what = "move" => worker.note \in DOMAIN notes
    BY <1>7, <2>0 DEF CommitIngest, WorkerData
  <2>4. ~Taken(worker.path) => At(worker.path) \subseteq {worker.note}
    BY DEF Taken
  <2>. QED  BY <1>1, <1>2, <1>3, <1>4, <1>7, <2>1, <2>2, <2>3, <2>4 DEF CommitIngest
<1>. QED
  BY <1>2, <1>4, <1>5, <1>6, <1>7 DEF Next, ToolStep, Answer, WorkerStep, Begin, OpenFile, Lookup, LinkFile, UnlinkOld,
     ReadBody, WritePatch, RecordHash, Tombstone, Overwrite, RemoveFile, Decline, ReadFile,
     DecideVanished, DecideFile, Edit, Remove, ServerCrash, WorkerRestart, vars

(* A step of one call keeps the data of all. *)
LEMMA CallKeeps ==
  ASSUME Inv, TypeOK', DOMAIN notes \subseteq DOMAIN notes', NEW c \in Calls,
         \A d \in Calls \ {c} : call'[d] = call[d],
         call'[c].pc \notin {"new", "done", "dead"} => call'[c].path \in Paths /\ call'[c].to \in Paths,
         call'[c].pc \in {"link", "unlink", "row", "read", "write", "hash", "asked", "tombstone"} =>
           call'[c].note \in DOMAIN notes',
         call'[c].pc \in {"write", "hash"} => call'[c].text # NoFile,
         call'[c].pc \in {"unlink", "write"} => loop' = c,
         call'[c].pc = "unlink" => call'[c].path # call'[c].to,
         loop' = loop \/ loop \in {NoCall, c}
  PROVE  CallData'
<1>1. CallData /\ NoCall \notin Calls /\ \A n \in DOMAIN notes' : notes'[n].path \in Paths
  <2>1. PICK k \in 0..MaxNotes : notes' \in [1..k -> Rows]
    BY DEF TypeOK
  <2>2. \A n \in DOMAIN notes' : notes'[n].path \in Paths
    BY <2>1 DEF Rows
  <2>. QED  BY <2>2, NoteToolsAssumption DEF Inv, NoteToolsInv
<1>. SUFFICES ASSUME NEW d \in Calls
              PROVE  /\ Running(d)' => On(d)' \subseteq Paths
                     /\ call'[d].pc \in {"link", "unlink", "row", "read", "write", "hash", "asked", "tombstone"} =>
                          call'[d].note \in DOMAIN notes'
                     /\ call'[d].pc \in {"write", "hash"} => call'[d].text # NoFile
                     /\ call'[d].pc \in {"unlink", "write"} => loop' = d
                     /\ call'[d].pc = "unlink" => call'[d].path # call'[d].to
  BY DEF CallData
<1>2. CASE d = c
  BY <1>1, <1>2 DEF Running, On
<1>3. CASE d # c
  <2>1. call'[d] = call[d]
    BY <1>3
  <2>2. Running(d)' => On(d)' \subseteq Paths
    BY <1>1, <2>1 DEF CallData, Running, On
  <2>3. call'[d].pc \in {"unlink", "write"} => loop' = d
    BY <1>1, <1>3, <2>1 DEF CallData
  <2>. QED  BY <1>1, <2>1, <2>2, <2>3 DEF CallData
<1>. QED  BY <1>2, <1>3

(* Going on and ending. *)
LEMMA GotoFacts ==
  ASSUME TypeOK, NEW c \in Calls
  PROVE  /\ \A pc : Goto(c, pc) => /\ call'[c].pc = pc /\ call'[c].path = call[c].path /\ call'[c].to = call[c].to
                                  /\ call'[c].note = call[c].note /\ call'[c].text = call[c].text
         /\ Finish(c) => call'[c].pc = "done"
BY DEF TypeOK, Goto, Finish, Ended, NewCall

(* Calls know what they are about to use, and hold the loop where they must. *)
LEMMA CallStep == Inv /\ [Next]_vars => CallData'
<1>. SUFFICES ASSUME Inv, [Next]_vars PROVE CallData'
  OBVIOUS
<1>0. /\ TypeOK /\ TypeOK' /\ CallData /\ DOMAIN notes \subseteq DOMAIN notes'
      /\ call \in [Calls -> CallRecord] /\ NoCall \notin Calls
  BY TypeStep, DomainGrows, NoteToolsAssumption DEF Inv, NoteToolsInv, TypeOK, CallRecord
<1>1. ASSUME NEW c \in Calls, NEW op \in Ops, NEW p \in Paths, NEW q \in Paths, Begin(c, op, p, q)
      PROVE  CallData'
  BY <1>0, <1>1, CallKeeps DEF Begin, NewCall
<1>2. ASSUME NEW c \in Calls, ToolStep(c) \/ Answer(c) PROVE CallData'
  <2>0. \A d \in Calls \ {c} : call'[d] = call[d]
    BY <1>0, <1>2 DEF ToolStep, Answer, OpenFile, InsertRow, Lookup, LinkFile, UnlinkOld, MoveRow, ReadBody,
       WritePatch, RecordHash, Tombstone, Overwrite, RemoveFile, Decline, Goto, Finish
  <2>1. loop \in {NoCall, c}
    BY <1>2 DEF ToolStep, Answer, OpenFile, InsertRow, Lookup, LinkFile, UnlinkOld, MoveRow, ReadBody,
       WritePatch, RecordHash, Tombstone, Overwrite, RemoveFile, Decline, Resume
  <2>2. Running(c) /\ call[c].path \in Paths /\ call[c].to \in Paths /\ call[c] \in CallRecord
    BY <1>0, <1>2, CallFacts DEF ToolStep, Answer, OpenFile, InsertRow, Lookup, LinkFile, UnlinkOld, MoveRow, ReadBody,
       WritePatch, RecordHash, Tombstone, Overwrite, RemoveFile, Decline, Resume, Running
  <2>3. \/ call'[c].pc \in {"done", "insert"} /\ (call'[c].pc = "done" \/ (call'[c].path = call[c].path /\ call'[c].to = call[c].to))
        \/ /\ call'[c].pc \in {"link", "unlink", "row", "read", "write", "hash", "asked", "tombstone"}
           /\ call'[c].path = call[c].path /\ call'[c].to = call[c].to
           /\ call'[c].note \in DOMAIN notes'
    <3>1. CASE OpenFile(c) \/ InsertRow(c) \/ MoveRow(c) \/ RecordHash(c) \/ Tombstone(c) \/ Decline(c)
      BY <1>0, <3>1, GotoFacts DEF OpenFile, InsertRow, MoveRow, RecordHash, Tombstone, Decline
    <3>2. CASE Lookup(c)
      <4>1. CASE Finish(c)
        BY <1>0, <4>1, GotoFacts
      <4>2. ASSUME NEW n \in DOMAIN notes,
                   call' = [call EXCEPT ![c].pc = AfterLookup(call[c].op), ![c].note = n]
            PROVE  /\ call'[c].pc \in {"link", "asked", "read"} /\ call'[c].note = n
                   /\ call'[c].path = call[c].path /\ call'[c].to = call[c].to
        BY <1>0, <2>2, <4>2 DEF AfterLookup, CallRecord
      <4>. QED  BY <1>0, <3>2, <4>1, <4>2 DEF Lookup, At
    <3>3. CASE LinkFile(c) \/ UnlinkOld(c) \/ RemoveFile(c)
      BY <1>0, <3>3, GotoFacts DEF LinkFile, UnlinkOld, RemoveFile, Resume, CallData
    <3>5. CASE ReadBody(c)
      <4>1. call[c].note \in DOMAIN notes
        BY <1>0, <3>5 DEF ReadBody, Resume, CallData
      <4>2. CASE call' = [call EXCEPT ![c].pc = "write", ![c].text = disk[call[c].path]]
        BY <1>0, <2>2, <4>1, <4>2 DEF CallRecord
      <4>. QED  BY <1>0, <3>5, <4>1, <4>2, GotoFacts DEF ReadBody
    <3>4. CASE WritePatch(c) \/ Overwrite(c)
      BY <1>0, <2>2, <3>4 DEF WritePatch, Overwrite, Resume, CallRecord, CallData
    <3>. QED  BY <1>2, <3>1, <3>2, <3>3, <3>4, <3>5 DEF ToolStep, Answer
  <2>4. call'[c].pc \in {"unlink", "write"} => loop' = c
    BY <1>0, <1>2, <2>2 DEF ToolStep, Answer, OpenFile, InsertRow, Lookup, AfterLookup, LinkFile, UnlinkOld, MoveRow, ReadBody,
       WritePatch, RecordHash, Tombstone, Overwrite, RemoveFile, Decline, Goto, Finish, Ended, NewCall, CallRecord
  <2>5. call'[c].pc \in {"write", "hash"} => call'[c].text # NoFile
    <3>1. CASE WritePatch(c) \/ Overwrite(c)
      <4>1. call[c].pc = "write" => call[c].text \in Text
        BY CallFacts
      <4>2. Fresh(c) # NoFile /\ \A t \in Text : [t EXCEPT !.added = @ \cup {c}] # NoFile
        <5>1. \A t \in Text : [t EXCEPT !.added = @ \cup {c}] \in Text
          BY DEF Text
        <5>. QED  BY <5>1, InFacts
      <4>. QED  BY <1>0, <2>2, <3>1, <4>1, <4>2 DEF WritePatch, Overwrite, Resume, CallRecord
    <3>2. CASE ~(WritePatch(c) \/ Overwrite(c))
      BY <1>0, <1>2, <2>2, <3>2 DEF ToolStep, Answer, OpenFile, InsertRow, Lookup, AfterLookup, LinkFile, UnlinkOld, MoveRow,
         ReadBody, RecordHash, Tombstone, RemoveFile, Decline, Goto, Finish, Ended, NewCall, CallRecord
    <3>. QED  BY <3>1, <3>2
  <2>6. call'[c].pc = "unlink" => call'[c].path # call'[c].to
    <3>1. CASE LinkFile(c)
      BY <1>0, <2>2, <3>1, GotoFacts DEF LinkFile
    <3>2. CASE ~LinkFile(c)
      BY <1>0, <1>2, <2>2, <3>2 DEF ToolStep, Answer, OpenFile, InsertRow, Lookup, AfterLookup, UnlinkOld, MoveRow,
         ReadBody, WritePatch, RecordHash, Tombstone, Overwrite, RemoveFile, Decline, Goto, Finish, Ended, NewCall, CallRecord
    <3>. QED  BY <3>1, <3>2
  <2>. QED  BY <1>0, <2>0, <2>1, <2>2, <2>3, <2>4, <2>5, <2>6, CallKeeps
<1>3. ASSUME ServerCrash PROVE CallData'
  BY <1>0, <1>3 DEF ServerCrash, CallData, Running, On, Ended, NewCall
<1>4. ASSUME UNCHANGED <<call, loop>> PROVE CallData'
  <2>1. \A n \in DOMAIN notes' : notes'[n].path \in Paths
    <3>1. PICK k \in 0..MaxNotes : notes' \in [1..k -> Rows]
      BY <1>0 DEF TypeOK
    <3>. QED  BY <3>1 DEF Rows
  <2>. QED  BY <1>0, <1>4, <2>1 DEF CallData, Running, On
<1>5. WorkerStep => UNCHANGED <<call, loop>>
  <2>1. (\E p \in Paths : ReadFile(p)) => UNCHANGED <<call, loop>>
    BY DEF ReadFile
  <2>2. DecideVanished \/ DecideFile => UNCHANGED <<call, loop>>
    BY DEF DecideVanished, DecideFile
  <2>3. CommitIngest => UNCHANGED <<call, loop>>
    BY DEF CommitIngest
  <2>. QED  BY <2>1, <2>2, <2>3 DEF WorkerStep
<1>6. (\E p \in Paths, e \in Edits : Edit(p, e)) \/ (\E p \in Paths : Remove(p)) \/ WorkerRestart
        => UNCHANGED <<call, loop>>
  BY DEF Edit, Remove, WorkerRestart
<1>7. UNCHANGED vars => UNCHANGED <<call, loop>>
  BY DEF vars
<1>. QED  BY <1>1, <1>2, <1>3, <1>4, <1>5, <1>6, <1>7 DEF Next

(* What the worker has decided refers to what there is. *)
LEMMA WorkerDataStep == Inv /\ [Next]_vars => WorkerData'
<1>. SUFFICES ASSUME Inv, [Next]_vars PROVE WorkerData'
  OBVIOUS
<1>0. TypeOK /\ WorkerData /\ DOMAIN notes \subseteq DOMAIN notes'
  BY DomainGrows DEF Inv, NoteToolsInv
<1>1. ASSUME NEW p \in Paths, ReadFile(p) PROVE WorkerData'
  BY <1>0, <1>1 DEF ReadFile, IdleWorker, WorkerData
<1>2. ASSUME DecideVanished \/ DecideFile PROVE WorkerData'
  <2>1. worker.path \in Paths /\ UNCHANGED notes
    BY <1>0, <1>2 DEF DecideVanished, DecideFile, WorkerData
  <2>2. \/ worker' = IdleWorker
        \/ worker.text = NoFile /\ \E n \in DOMAIN notes : Decided("delete", n)
        \/ worker.text # NoFile /\ Decided("create", 0)
        \/ worker.text # NoFile /\ \E n \in DOMAIN notes, what \in {"update", "move"} : Decided(what, n)
    BY <1>2 DEF DecideVanished, DecideFile, At, Like
  <2>3. ASSUME NEW what \in {"update", "delete", "create", "move"}, NEW n, Decided(what, n)
        PROVE  worker'.pc = "commit" /\ worker'.what = what /\ worker'.note = n
               /\ worker'.path = worker.path /\ worker'.text = worker.text
    BY <1>0, <2>3 DEF Decided, TypeOK
  <2>4. IdleWorker.pc = "idle"
    BY DEF IdleWorker
  <2>. QED  BY <2>1, <2>2, <2>3, <2>4 DEF WorkerData
<1>3. ASSUME CommitIngest \/ WorkerRestart PROVE WorkerData'
  BY <1>3 DEF CommitIngest, WorkerRestart, IdleWorker, WorkerData
<1>4. ASSUME UNCHANGED worker PROVE WorkerData'
  BY <1>0, <1>4 DEF WorkerData
<1>5. (\E c \in Calls : ToolStep(c) \/ Answer(c)) => UNCHANGED worker
  BY DEF ToolStep, Answer, OpenFile, InsertRow, Lookup, LinkFile, UnlinkOld, MoveRow, ReadBody,
     WritePatch, RecordHash, Tombstone, Overwrite, RemoveFile, Decline
<1>6. ASSUME NEW c \in Calls, NEW op \in Ops, NEW p \in Paths, NEW q \in Paths, Begin(c, op, p, q)
      PROVE  UNCHANGED worker
  BY <1>6 DEF Begin
<1>7. (\E p \in Paths, e \in Edits : Edit(p, e)) => UNCHANGED worker
  BY DEF Edit
<1>8. (\E p \in Paths : Remove(p)) \/ ServerCrash \/ UNCHANGED vars => UNCHANGED worker
  <2>1. (\E p \in Paths : Remove(p)) => UNCHANGED worker
    BY DEF Remove
  <2>. QED  BY <2>1 DEF ServerCrash, vars
<1>. QED  BY <1>1, <1>2, <1>3, <1>4, <1>5, <1>6, <1>7, <1>8 DEF Next, WorkerStep

(* A file may be replaced when what leaves it is elsewhere or erased. *)
LEMMA KeepsTexts ==
  ASSUME TypeOK, NothingVanishes, NEW p \in Paths, NEW t \in File,
         disk' = [disk EXCEPT ![p] = t],
         erased \subseteq erased',
         written' \cap Calls \subseteq written \cup In(t),
         \A x \in In(disk[p]) \cap Calls :
           x \in In(t) \/ x \in erased' \/ \E q \in Paths \ {p} : x \in In(disk[q])
  PROVE  NothingVanishes'
<1>1. \A q \in Paths : disk'[q] = IF q = p THEN t ELSE disk[q]
  BY DEF TypeOK
<1>2. \A q \in Paths : In(disk'[q]) = IF q = p THEN In(t) ELSE In(disk[q])
  BY <1>1
<1>3. \A q \in Paths : In(disk[q])' = In(disk'[q])
  BY DEF In
<1>. QED  BY <1>2, <1>3 DEF NothingVanishes

(* While one call has the event loop no other is between its read and its write. *)
LEMMA Alone ==
  ASSUME Inv, NEW c \in Calls, loop \in {NoCall, c}
  PROVE  \A d \in Calls \ {c} : call[d].pc \notin {"unlink", "write"}
BY TypeFacts DEF Inv, NoteToolsInv, CallData

(* What is in the files. *)
LEMMA DiskStep == Inv /\ [Next]_vars => DiskInv'
<1>. SUFFICES ASSUME Inv, [Next]_vars PROVE DiskInv'
  OBVIOUS
<1>0. /\ TypeOK /\ CallData /\ PatchIsFresh /\ LinkHoldsText /\ NothingVanishes
      /\ disk \in [Paths -> File] /\ call \in [Calls -> CallRecord]
  BY DEF Inv, NoteToolsInv, TypeOK, CallRecord
<1>1. ASSUME UNCHANGED <<disk, written, erased>>,
             \A d \in Calls : call'[d].pc \in {"unlink", "write"} => call'[d] = call[d]
      PROVE  DiskInv'
  <2>1. PatchIsFresh'
    BY <1>0, <1>1 DEF PatchIsFresh, In
  <2>2. LinkHoldsText'
    BY <1>0, <1>1 DEF LinkHoldsText, In
  <2>3. NothingVanishes'
    BY <1>0, <1>1 DEF NothingVanishes, In
  <2>. QED  BY <2>1, <2>2, <2>3 DEF DiskInv
<1>2. ASSUME NEW c \in Calls, ToolStep(c) \/ Answer(c) PROVE DiskInv'
  <2>. DEFINE p == call[c].path
  <2>. DEFINE q == call[c].to
  <2>0. \A d \in Calls \ {c} : call'[d] = call[d]
    BY <1>0, <1>2 DEF ToolStep, Answer, OpenFile, InsertRow, Lookup, LinkFile, UnlinkOld, MoveRow, ReadBody,
       WritePatch, RecordHash, Tombstone, Overwrite, RemoveFile, Decline, Goto, Finish
  <2>1. \A d \in Calls \ {c} : call'[d].pc \notin {"unlink", "write"}
    <3>1. loop \in {NoCall, c}
      BY <1>2 DEF ToolStep, Answer, OpenFile, InsertRow, Lookup, LinkFile, UnlinkOld, MoveRow, ReadBody,
         WritePatch, RecordHash, Tombstone, Overwrite, RemoveFile, Decline, Resume
    <3>. QED  BY <2>0, <3>1, Alone
  <2>2. p \in Paths /\ q \in Paths /\ call[c] \in CallRecord
    BY <1>0, <1>2, CallFacts DEF ToolStep, Answer, OpenFile, InsertRow, Lookup, LinkFile, UnlinkOld, MoveRow, ReadBody,
       WritePatch, RecordHash, Tombstone, Overwrite, RemoveFile, Decline, Resume, Running
  <2>3. ASSUME call'[c].pc \notin {"unlink", "write"} PROVE PatchIsFresh' /\ LinkHoldsText'
    BY <2>1, <2>3 DEF PatchIsFresh, LinkHoldsText
  <2>5. CASE OpenFile(c)
    <3>1. call'[c].pc \in {"insert", "done"}
      BY <1>0, <2>5, GotoFacts DEF OpenFile
    <3>2. NothingVanishes'
      <4>1. CASE UNCHANGED <<disk, written>>
        BY <1>0, <2>5, <4>1 DEF OpenFile, NothingVanishes, In
      <4>2. CASE disk[p] = NoFile /\ disk' = [disk EXCEPT ![p] = Fresh(c)] /\ written' = written \cup {c}
        BY <1>0, <2>2, <2>5, <4>2, InFacts, KeepsTexts DEF OpenFile, File
      <4>. QED  BY <2>5, <4>1, <4>2 DEF OpenFile, Change
    <3>. QED  BY <2>3, <3>1, <3>2 DEF DiskInv
  <2>6. CASE LinkFile(c)
    <3>1. CASE Finish(c) /\ UNCHANGED disk
      <4>1. call'[c].pc = "done"
        BY <1>0, <3>1, GotoFacts
      <4>. QED  BY <1>1, <2>1, <2>6, <3>1, <4>1 DEF LinkFile
    <3>2. CASE disk[p] # NoFile /\ disk[q] = NoFile /\ disk' = [disk EXCEPT ![q] = disk[p]] /\ Goto(c, "unlink")
      <4>1. /\ call'[c].pc = "unlink" /\ call'[c].path = p /\ call'[c].to = q
            /\ disk'[p] = disk[p] /\ disk'[q] = disk[p]
        BY <1>0, <2>2, <3>2, GotoFacts
      <4>2. PatchIsFresh'
        BY <2>1, <4>1 DEF PatchIsFresh
      <4>3. LinkHoldsText'
        BY <2>1, <4>1 DEF LinkHoldsText, In
      <4>4. NothingVanishes'
        BY <1>0, <2>2, <2>6, <3>2, InFacts, KeepsTexts DEF LinkFile
      <4>. QED  BY <4>2, <4>3, <4>4 DEF DiskInv
    <3>. QED  BY <2>6, <3>1, <3>2 DEF LinkFile, Change
  <2>7. CASE UnlinkOld(c)
    <3>1. call'[c].pc \in {"row", "done"}
      BY <1>0, <2>7, GotoFacts DEF UnlinkOld
    <3>2. NothingVanishes'
      <4>1. CASE UNCHANGED disk
        BY <1>0, <2>7, <4>1 DEF UnlinkOld, NothingVanishes, In
      <4>2. CASE disk' = [disk EXCEPT ![p] = NoFile]
        <5>1. p # q
          BY <1>0, <2>7 DEF UnlinkOld, Resume, CallData
        <5>2. \A x \in In(disk[p]) \cap Calls : x \in In(disk[q]) \/ x \in erased
          BY <1>0, <2>7 DEF UnlinkOld, Resume, LinkHoldsText
        <5>. QED  BY <1>0, <2>2, <2>7, <4>2, <5>1, <5>2, KeepsTexts DEF UnlinkOld, File
      <4>. QED  BY <2>7, <4>1, <4>2 DEF UnlinkOld, Change
    <3>. QED  BY <2>3, <3>1, <3>2 DEF DiskInv
  <2>8. CASE WritePatch(c)
    <3>1. PICK new : new = [call[c].text EXCEPT !.added = @ \cup {c}]
      OBVIOUS
    <3>2. call'[c].pc = "hash"
      BY <1>0, <2>2, <2>8 DEF WritePatch, CallRecord
    <3>3. call[c].text \in Text
      BY <2>8, CallFacts DEF WritePatch, Resume
    <3>4. new \in Text /\ In(new) = In(call[c].text) \cup {c}
      <4>1. new \in Text /\ new.base = call[c].text.base /\ new.added = call[c].text.added \cup {c}
        BY <3>1, <3>3 DEF Text
      <4>. QED  BY <3>3, <4>1, InFacts
    <3>5. In(disk[p]) \cap Calls \subseteq In(call[c].text)
      BY <1>0, <2>8 DEF WritePatch, Resume, PatchIsFresh
    <3>6. NothingVanishes'
      BY <1>0, <2>2, <2>8, <3>1, <3>4, <3>5, KeepsTexts DEF WritePatch, Change, File
    <3>. QED  BY <2>3, <3>2, <3>6 DEF DiskInv
  <2>9. CASE Overwrite(c)
    <3>1. call'[c].pc = "hash"
      BY <1>0, <2>2, <2>9 DEF Overwrite, CallRecord
    <3>2. NothingVanishes'
      BY <1>0, <2>2, <2>9, InFacts, KeepsTexts DEF Overwrite, Change, File
    <3>. QED  BY <2>3, <3>1, <3>2 DEF DiskInv
  <2>10. CASE RemoveFile(c)
    <3>1. call'[c].pc \in {"tombstone", "done"}
      BY <1>0, <2>10, GotoFacts DEF RemoveFile
    <3>2. NothingVanishes'
      <4>1. CASE UNCHANGED <<disk, erased>>
        BY <1>0, <2>10, <4>1 DEF RemoveFile, NothingVanishes, In
      <4>2. CASE disk' = [disk EXCEPT ![p] = NoFile] /\ erased' = erased \cup In(disk[p])
        BY <1>0, <2>2, <2>10, <4>2, KeepsTexts DEF RemoveFile, File
      <4>. QED  BY <2>10, <4>1, <4>2 DEF RemoveFile, Change
    <3>. QED  BY <2>3, <3>1, <3>2 DEF DiskInv
  <2>11. CASE ReadBody(c)
    <3>1. CASE Finish(c) \/ Goto(c, "asked")
      BY <1>0, <1>1, <2>1, <2>11, <3>1, GotoFacts DEF ReadBody
    <3>2. CASE call' = [call EXCEPT ![c].pc = "write", ![c].text = disk[p]]
      <4>1. call'[c].pc = "write" /\ call'[c].path = p /\ call'[c].text = disk[p]
        BY <1>0, <2>2, <3>2 DEF CallRecord
      <4>2. UNCHANGED <<disk, written, erased>>
        BY <2>11 DEF ReadBody
      <4>3. PatchIsFresh'
        BY <2>1, <4>1, <4>2 DEF PatchIsFresh, In
      <4>4. LinkHoldsText'
        BY <2>1, <4>1 DEF LinkHoldsText
      <4>5. NothingVanishes'
        BY <1>0, <4>2 DEF NothingVanishes, In
      <4>. QED  BY <4>3, <4>4, <4>5 DEF DiskInv
    <3>. QED  BY <2>11, <3>1, <3>2 DEF ReadBody
  <2>12. CASE InsertRow(c) \/ MoveRow(c) \/ RecordHash(c) \/ Tombstone(c) \/ Decline(c)
    <3>1. call'[c].pc = "done" /\ UNCHANGED <<disk, written, erased>>
      BY <1>0, <2>12, GotoFacts DEF InsertRow, MoveRow, RecordHash, Tombstone, Decline
    <3>. QED  BY <1>1, <2>1, <3>1
  <2>13. CASE Lookup(c)
    <3>1. call'[c].pc \in {"done", "link", "asked", "read"}
      BY <1>0, <2>2, <2>13, GotoFacts DEF Lookup, AfterLookup, CallRecord
    <3>. QED  BY <1>1, <2>1, <2>13, <3>1 DEF Lookup
  <2>. QED  BY <1>2, <2>5, <2>6, <2>7, <2>8, <2>9, <2>10, <2>11, <2>12, <2>13 DEF ToolStep, Answer
<1>3. ASSUME NEW p \in Paths, NEW t \in File, disk' = [disk EXCEPT ![p] = t], In(t) \cap Calls = {},
             UNCHANGED call, erased' = erased \cup In(disk[p]), written' \cap Calls = written \cap Calls
      PROVE  DiskInv'
  <2>1. \A q \in Paths : disk'[q] = IF q = p THEN t ELSE disk[q]
    BY <1>0, <1>3
  <2>2. \A q \in Paths : In(disk'[q]) = IF q = p THEN In(t) ELSE In(disk[q])
    BY <2>1
  <2>3. \A c \in Calls : call[c].pc \in {"unlink", "write"} => call[c].path \in Paths /\ call[c].to \in Paths
    BY CallFacts DEF Running
  <2>4. PatchIsFresh'
    <3>. SUFFICES ASSUME NEW c \in Calls, call[c].pc = "write"
                  PROVE  In(disk'[call[c].path]) \cap Calls \subseteq In(call[c].text)
      BY <1>3 DEF PatchIsFresh, In
    <3>. QED  BY <1>0, <1>3, <2>2, <2>3 DEF PatchIsFresh
  <2>5. LinkHoldsText'
    <3>. SUFFICES ASSUME NEW c \in Calls, call[c].pc = "unlink"
                  PROVE  In(disk'[call[c].path]) \cap Calls \subseteq In(disk'[call[c].to]) \cup erased'
      BY <1>3 DEF LinkHoldsText, In
    <3>1. In(disk[call[c].path]) \cap Calls \subseteq In(disk[call[c].to]) \cup erased
      BY <1>0 DEF LinkHoldsText
    <3>2. call[c].path \in Paths /\ call[c].to \in Paths
      BY <2>3
    <3>. QED  BY <1>3, <2>2, <3>1, <3>2
  <2>6. NothingVanishes'
    BY <1>0, <1>3, KeepsTexts
  <2>. QED  BY <2>4, <2>5, <2>6 DEF DiskInv
<1>4. ASSUME NEW p \in Paths, NEW e \in Edits, Edit(p, e) PROVE DiskInv'
  <2>1. Fresh(e) \in File /\ In(Fresh(e)) \cap Calls = {} /\ e \notin Calls
    BY InFacts, NoteToolsAssumption DEF File
  <2>2. /\ disk' = [disk EXCEPT ![p] = Fresh(e)] /\ UNCHANGED call
        /\ erased' = erased \cup In(disk[p]) /\ written' = written \cup {e}
    BY <1>4 DEF Edit, Change
  <2>. QED  BY <1>3, <2>1, <2>2
<1>5. ASSUME NEW p \in Paths, Remove(p) PROVE DiskInv'
  BY <1>3, <1>5, InFacts DEF Remove, Change, File
<1>6. ASSUME NEW c \in Calls, NEW op \in Ops, NEW p \in Paths, NEW q \in Paths, Begin(c, op, p, q)
      PROVE  DiskInv'
  <2>1. call'[c].pc \in {"open", "lookup"} /\ \A d \in Calls \ {c} : call'[d] = call[d]
    BY <1>0, <1>6 DEF Begin, NewCall
  <2>. QED  BY <1>1, <1>6, <2>1 DEF Begin
<1>7. ASSUME ServerCrash PROVE DiskInv'
  <2>1. \A d \in Calls : call'[d].pc \in {"unlink", "write"} => call'[d] = call[d]
    BY <1>0, <1>7 DEF ServerCrash, Ended, NewCall
  <2>. QED  BY <1>1, <1>7, <2>1 DEF ServerCrash
<1>8. ASSUME WorkerStep \/ WorkerRestart \/ UNCHANGED vars PROVE DiskInv'
  <2>1. (\E p \in Paths : ReadFile(p)) => UNCHANGED <<disk, written, erased, call>>
    BY DEF ReadFile
  <2>2. DecideVanished \/ DecideFile => UNCHANGED <<disk, written, erased, call>>
    BY DEF DecideVanished, DecideFile
  <2>3. CommitIngest => UNCHANGED <<disk, written, erased, call>>
    BY DEF CommitIngest
  <2>4. UNCHANGED vars => UNCHANGED <<disk, written, erased, call>>
    BY DEF vars
  <2>5. WorkerRestart => UNCHANGED <<disk, written, erased, call>>
    BY DEF WorkerRestart
  <2>. QED  BY <1>1, <1>8, <2>1, <2>2, <2>3, <2>4, <2>5 DEF WorkerStep
<1>. QED  BY <1>2, <1>4, <1>5, <1>6, <1>7, <1>8 DEF Next

THEOREM NoteToolsStep == Inv /\ [Next]_vars => Inv'
<1>. SUFFICES ASSUME Inv, [Next]_vars PROVE Inv'
  OBVIOUS
<1>. QED
  BY TypeStep, PathsStep, CallStep, WorkerDataStep, DiskStep DEF Inv, NoteToolsInv, DiskInv

(* NoteToolsInv holds throughout: the tables keep their types, no two rows have one path whoever  *)
(* wrote them, a patch writes back what is there and a move unlinks only what it has linked.      *)
THEOREM NoteToolsInvariant == Spec => []NoteToolsInv
<1>. QED  BY NoteToolsInit, NoteToolsStep, PTL DEF Spec, Inv

(* No create, patch, link or move loses a text that a tool has written, whatever runs beside it   *)
(* and wherever the server dies; see mutation_tools.py and write_tools.py.                        *)
THEOREM TextsAreKept == Spec => []NothingVanishes
<1>. QED  BY NoteToolsInit, NoteToolsStep, PTL DEF Spec, Inv
-----------------------------------------------------------------------------
(* Drift: what is out of step is on its way to the worker. *)

Past == {"link", "unlink", "row", "read", "write", "hash", "asked", "tombstone"}

\* What the worker holds is what is there, or it will look again.
WorkerReads ==
  worker.pc # "idle" => worker.path \in signals \/ disk[worker.path] = worker.text

\* Calls that share a path have mixed all of theirs.
SharedIsMixed == \A c, d \in Calls :
  c # d /\ Running(c) /\ Running(d) /\ {call[c].path, call[c].to} \cap {call[d].path, call[d].to} # {}
    => {call[c].path, call[c].to, call[d].path, call[d].to} \subseteq mixed

\* Where a call is alone, its row is where it looked it up and its files are as it left them.
CallFile(c) ==
  /\ call[c].pc \in Past => notes[call[c].note].path \in {call[c].path} \cup mixed
  /\ call[c].pc = "insert" => call[c].path \in mixed \/ disk[call[c].path] = Fresh(c)
  /\ call[c].pc = "hash" => call[c].path \in mixed \/ disk[call[c].path] = call[c].text
  /\ call[c].pc = "row" => call[c].path \in mixed \/ disk[call[c].path] = NoFile
  /\ call[c].pc \in {"unlink", "row"} => call[c].to \in mixed \/ disk[call[c].to] # NoFile
CallFiles == \A c \in Calls : CallFile(c)

\* What the worker decided still fits, wherever a tool has moved the row since.
FitsUpdate ==
  LET r == notes[worker.note].path IN
  /\ r \in mixed \cup signals \/ disk[r] = worker.text
  /\ worker.path \in mixed \cup signals \cup {r}
FitsMove ==
  LET r == notes[worker.note].path IN
  r \in mixed \cup signals \cup {worker.path} \/ disk[r] = NoFile
FitsDelete ==
  /\ worker.text = NoFile
  /\ \/ worker.path \in mixed \cup signals
     \/ \A m \in At(worker.path) : m = worker.note \/ m \in passed \/ notes[m].deleted
WorkerCommits ==
  worker.pc = "commit" =>
    /\ worker.what = "update" => FitsUpdate
    /\ worker.what = "move" => FitsMove
    /\ worker.what = "delete" => FitsDelete

TableInv == DriftIsSignalled /\ WorkerReads /\ WorkerCommits
DriftInv == TableInv /\ SharedIsMixed /\ CallFiles

LEMMA DriftInit == Init => DriftInv
<1>. SUFFICES ASSUME Init PROVE DriftInv
  OBVIOUS
<1>1. worker.pc = "idle" /\ \A c \in Calls : call[c].pc = "new"
  BY DEF Init, IdleWorker, NewCall
<1>2. SharedIsMixed /\ CallFiles /\ WorkerReads /\ WorkerCommits
  BY <1>1 DEF SharedIsMixed, CallFiles, CallFile, Past, WorkerReads, WorkerCommits, Running
<1>3. PICK rows \in [1..Cardinality(Seeded) -> Seeded] :
        /\ \A i, j \in DOMAIN rows : rows[i] = rows[j] => i = j
        /\ notes = [i \in DOMAIN rows |-> Row(rows[i], BodyHash(Fresh(rows[i])))]
  BY DEF Init
<1>4. \A p \in Seeded : \E i \in DOMAIN notes : notes[i] = Row(p, BodyHash(Fresh(p)))
  <2>1. Cardinality(Seeded) \in Nat /\ IsFiniteSet(Seeded)
    BY NoteToolsAssumption, FS_CardinalityType
  <2>2. Cardinality(1..Cardinality(Seeded)) = Cardinality(Seeded)
    BY <2>1, NextIdFacts
  <2>3. rows \in Injection(1..Cardinality(Seeded), Seeded)
    BY <1>3 DEF Injection, IsInjective
  <2>4. rows \in Surjection(1..Cardinality(Seeded), Seeded)
    BY <2>1, <2>2, <2>3, FS_Injection
  <2>. QED  BY <1>3, <2>4 DEF Surjection
<1>5. DriftIsSignalled
  <2>. SUFFICES ASSUME NEW p \in Paths PROVE Recorded(p)
    BY DEF DriftIsSignalled
  <2>1. Fresh(p) # NoFile
    BY InFacts
  <2>2. CASE p \in Seeded
    <3>1. PICK i \in DOMAIN notes : notes[i] = Row(p, BodyHash(Fresh(p)))
      BY <1>4, <2>2
    <3>2. notes[i].path = p /\ notes[i].hash.text = Fresh(p)
      BY <3>1 DEF Row, BodyHash
    <3>3. disk[p] = Fresh(p)
      BY <2>2 DEF Init
    <3>. QED  BY <2>1, <3>2, <3>3 DEF Recorded, At
  <2>3. CASE p \notin Seeded
    BY <1>3, <2>3 DEF Init, Recorded, At, Row
  <2>. QED  BY <2>2, <2>3
<1>. QED  BY <1>2, <1>5 DEF DriftInv, TableInv

(* A path stays recorded when its file and its rows stay, and tombstones stay tombstones. *)
LEMMA StaysRecorded ==
  ASSUME NEW p \in Paths, Recorded(p), disk'[p] = disk[p], passed \subseteq passed',
         \A n \in DOMAIN notes' : notes'[n].path = p =>
           n \in At(p) /\ (notes[n].deleted => notes'[n].deleted),
         \A n \in At(p) : n \in DOMAIN notes' /\ notes'[n].path = p /\ notes'[n].hash = notes[n].hash
  PROVE  Recorded(p)'
BY DEF Recorded, At

(* A step that signals every file it changes, and leaves the rows and the worker alone. *)
LEMMA TableKeeps ==
  ASSUME Inv, TableInv, UNCHANGED <<notes, worker, passed>>,
         signals \subseteq signals', mixed \subseteq mixed',
         \A p \in Paths \ signals' : disk'[p] = disk[p]
  PROVE  TableInv'
<1>1. DriftIsSignalled'
  <2>. SUFFICES ASSUME NEW p \in Paths \ mixed', p \notin signals', ~(worker.pc # "idle" /\ worker.path = p)
                PROVE  Recorded(p)'
    BY DEF DriftIsSignalled
  <2>1. Recorded(p)
    BY DEF TableInv, DriftIsSignalled
  <2>. QED  BY <2>1 DEF Recorded, At
<1>2. WorkerReads'
  BY DEF Inv, NoteToolsInv, WorkerData, TableInv, WorkerReads
<1>3. WorkerCommits'
  <2>. SUFFICES ASSUME worker.pc = "commit"
                PROVE  /\ worker.what = "update" => FitsUpdate'
                       /\ worker.what = "move" => FitsMove'
                       /\ worker.what = "delete" => FitsDelete'
    BY DEF WorkerCommits
  <2>1. worker.what \in {"update", "move"} => notes[worker.note].path \in Paths
    BY TypeFacts DEF Inv, NoteToolsInv, WorkerData, Rows
  <2>2. worker.what = "update" => FitsUpdate'
    BY <2>1 DEF TableInv, WorkerCommits, FitsUpdate
  <2>3. worker.what = "move" => FitsMove'
    BY <2>1 DEF TableInv, WorkerCommits, FitsMove
  <2>4. worker.what = "delete" => FitsDelete'
    BY DEF TableInv, WorkerCommits, FitsDelete, At
  <2>. QED  BY <2>2, <2>3, <2>4
<1>. QED  BY <1>1, <1>2, <1>3 DEF TableInv

(* A step of one call changes no file of another that is alone. *)
LEMMA OthersKeep ==
  ASSUME Inv, SharedIsMixed, CallFiles, NEW c \in Calls, Running(c),
         \A d \in Calls \ {c} : call'[d] = call[d],
         (call'[c].path = call[c].path /\ call'[c].to = call[c].to) \/ call'[c].pc = "done",
         \A x \in Paths \ {call[c].path, call[c].to} : disk'[x] = disk[x],
         \A n \in DOMAIN notes : notes'[n].path = notes[n].path,
         mixed \subseteq mixed'
  PROVE  SharedIsMixed' /\ \A d \in Calls \ {c} : CallFile(d)'
<1>1. SharedIsMixed'
  <2>. SUFFICES ASSUME NEW d \in Calls, NEW e \in Calls, d # e, Running(d)', Running(e)',
                       {call'[d].path, call'[d].to} \cap {call'[e].path, call'[e].to} # {}
                PROVE  {call'[d].path, call'[d].to, call'[e].path, call'[e].to} \subseteq mixed'
    BY DEF SharedIsMixed
  <2>1. \A f \in {d, e} : /\ call'[f].path = call[f].path /\ call'[f].to = call[f].to
                         /\ Running(f)
    BY DEF Running
  <2>. QED  BY <2>1 DEF SharedIsMixed
<1>2. ASSUME NEW d \in Calls \ {c} PROVE CallFile(d)'
  <2>1. call'[d] = call[d]
    OBVIOUS
  <2>2. CASE ~Running(d)
    BY <2>1, <2>2 DEF Running, CallFile, Past
  <2>3. CASE Running(d)
    <3>1. call[d].path \in Paths /\ call[d].to \in Paths
          /\ (call[d].pc \in Past => call[d].note \in DOMAIN notes)
      BY <2>3, CallFacts DEF Past
    <3>2. \A x \in {call[d].path, call[d].to} : x \in mixed \/ disk'[x] = disk[x]
      BY <2>3, <3>1 DEF SharedIsMixed
    <3>. QED  BY <2>1, <3>1, <3>2 DEF CallFiles, CallFile
  <2>. QED  BY <2>2, <2>3
<1>. QED  BY <1>1, <1>2

(* What the worker decided stays fit while rows keep their paths. *)
LEMMA CommitsKeep ==
  ASSUME Inv, WorkerCommits, UNCHANGED <<worker, disk, signals, passed>>, mixed \subseteq mixed',
         \A n \in DOMAIN notes : notes'[n].path = notes[n].path,
         \A n \in DOMAIN notes' : worker.pc = "commit" /\ worker.what = "delete" /\ notes'[n].path = worker.path =>
           worker.path \in mixed \cup signals \/ (n \in At(worker.path) /\ (notes[n].deleted => notes'[n].deleted))
  PROVE  WorkerCommits'
<1>. SUFFICES ASSUME worker.pc = "commit"
              PROVE  /\ worker.what = "update" => FitsUpdate'
                     /\ worker.what = "move" => FitsMove'
                     /\ worker.what = "delete" => FitsDelete'
  BY DEF WorkerCommits
<1>1. worker.what \in {"update", "move"} => worker.note \in DOMAIN notes
  BY DEF Inv, NoteToolsInv, WorkerData
<1>2. worker.what = "update" => FitsUpdate'
  BY <1>1 DEF WorkerCommits, FitsUpdate
<1>3. worker.what = "move" => FitsMove'
  BY <1>1 DEF WorkerCommits, FitsMove
<1>4. worker.what = "delete" => FitsDelete'
  BY DEF WorkerCommits, FitsDelete, At
<1>. QED  BY <1>2, <1>3, <1>4

(* note_create's INSERT: the file is as the call has made it, unless others came to its path. *)
LEMMA InsertKeeps ==
  ASSUME Inv, DriftInv, NEW c \in Calls, InsertRow(c)
  PROVE  TableInv' /\ \A n \in DOMAIN notes : notes'[n] = notes[n]
<1>. DEFINE p == call[c].path
<1>0. /\ TypeOK /\ WorkerData /\ TableInv /\ CallFile(c) /\ call[c].pc = "insert" /\ p \in Paths
      /\ UNCHANGED <<disk, signals, worker, mixed, passed>>
  BY CallFacts DEF Inv, NoteToolsInv, DriftInv, CallFiles, InsertRow, Resume, Running
<1>1. CASE UNCHANGED notes
  BY <1>0, <1>1, TableKeeps
<1>2. CASE ~Taken(p) /\ Insert(p, RawHash(Fresh(c)))
  <2>1. RawHash(Fresh(c)) \in Hashes /\ Fresh(c) # NoFile
    BY InFacts, HashFacts
  <2>2. /\ NextId \notin DOMAIN notes
        /\ DOMAIN notes' = DOMAIN notes \cup {NextId}
        /\ \A n \in DOMAIN notes : notes'[n] = notes[n]
        /\ notes'[NextId] = Row(p, RawHash(Fresh(c)))
    BY <1>0, <1>2, <2>1, InsertFacts
  <2>3. PICK id : id = NextId
    OBVIOUS
  <2>4. notes'[id].path = p /\ notes'[id].hash.text = Fresh(c)
    BY <2>2, <2>3 DEF Row, RawHash
  <2>5. p \in mixed \/ disk[p] = Fresh(c)
    BY <1>0 DEF CallFile
  <2>6. DriftIsSignalled'
    <3>. SUFFICES ASSUME NEW x \in Paths \ mixed, x \notin signals, ~(worker.pc # "idle" /\ worker.path = x)
                  PROVE  Recorded(x)'
      BY <1>0 DEF DriftIsSignalled
    <3>1. Recorded(x)
      BY <1>0 DEF TableInv, DriftIsSignalled
    <3>2. CASE x = p
      BY <1>0, <2>1, <2>2, <2>3, <2>4, <2>5, <3>2 DEF Recorded, At
    <3>3. CASE x # p
      BY <1>0, <2>2, <2>3, <2>4, <3>1, <3>3, StaysRecorded DEF At
    <3>. QED  BY <3>2, <3>3
  <2>7. WorkerCommits'
    <3>1. ASSUME worker.pc = "commit", worker.what = "delete", p = worker.path PROVE p \in mixed \cup signals
      BY <1>0, <2>1, <2>5, <3>1 DEF TableInv, WorkerReads, WorkerCommits, FitsDelete
    <3>2. \A n \in DOMAIN notes' : n \in DOMAIN notes \/ notes'[n].path = p
      BY <2>2, <2>3, <2>4
    <3>. QED  BY <1>0, <2>2, <3>1, <3>2, CommitsKeep DEF TableInv, At
  <2>8. WorkerReads'
    BY <1>0 DEF TableInv, WorkerReads
  <2>. QED  BY <2>2, <2>6, <2>7, <2>8 DEF TableInv
<1>. QED  BY <1>0, <1>1, <1>2 DEF InsertRow

(* The hash a patch or an overwrite records is that of the file it wrote. *)
LEMMA RecordKeeps ==
  ASSUME Inv, DriftInv, NEW c \in Calls, RecordHash(c)
  PROVE  TableInv' /\ \A n \in DOMAIN notes : notes'[n].path = notes[n].path
<1>. DEFINE k == call[c].note
<1>0. /\ TypeOK /\ TableInv /\ CallFile(c) /\ call[c].pc = "hash" /\ call[c].path \in Paths
      /\ k \in DOMAIN notes /\ call[c].text \in Text
      /\ UNCHANGED <<disk, signals, worker, mixed, passed>>
  BY CallFacts DEF Inv, NoteToolsInv, DriftInv, CallFiles, RecordHash, Resume, Running
<1>1. /\ DOMAIN notes' = DOMAIN notes
      /\ \A n \in DOMAIN notes : notes'[n].path = notes[n].path /\ notes'[n].deleted = notes[n].deleted
      /\ \A n \in DOMAIN notes \ {k} : notes'[n] = notes[n]
      /\ notes'[k].hash.text = call[c].text
  BY <1>0, TypeFacts DEF RecordHash, SetHash, RawHash, Rows
<1>2. DriftIsSignalled'
  <2>. SUFFICES ASSUME NEW x \in Paths \ mixed, x \notin signals, ~(worker.pc # "idle" /\ worker.path = x)
                PROVE  Recorded(x)'
    BY <1>0 DEF DriftIsSignalled
  <2>1. Recorded(x)
    BY <1>0 DEF TableInv, DriftIsSignalled
  <2>2. CASE notes[k].path = x
    <3>1. disk[x] = call[c].text /\ call[c].text # NoFile
      BY <1>0, <2>2, InFacts DEF CallFile, Past
    <3>. QED  BY <1>0, <1>1, <2>2, <3>1 DEF Recorded, At
  <2>3. CASE notes[k].path # x
    BY <1>0, <1>1, <2>1, <2>3, StaysRecorded DEF At
  <2>. QED  BY <2>2, <2>3
<1>3. WorkerCommits'
  BY <1>0, <1>1, CommitsKeep DEF TableInv, At
<1>. QED  BY <1>0, <1>1, <1>2, <1>3 DEF TableInv, WorkerReads

(* A tombstone puts no path out of step. *)
LEMMA TombstoneKeeps ==
  ASSUME Inv, DriftInv, NEW c \in Calls, Tombstone(c)
  PROVE  TableInv' /\ \A n \in DOMAIN notes : notes'[n].path = notes[n].path
<1>. DEFINE k == call[c].note
<1>0. TypeOK /\ TableInv /\ k \in DOMAIN notes /\ UNCHANGED <<disk, signals, worker, mixed, passed>>
  BY CallFacts DEF Inv, NoteToolsInv, DriftInv, Tombstone, Resume
<1>1. /\ DOMAIN notes' = DOMAIN notes
      /\ \A n \in DOMAIN notes : /\ notes'[n].path = notes[n].path /\ notes'[n].hash = notes[n].hash
                                 /\ notes[n].deleted => notes'[n].deleted
  BY <1>0, TypeFacts DEF Tombstone, SetDeleted, Rows
<1>2. DriftIsSignalled'
  <2>. SUFFICES ASSUME NEW x \in Paths \ mixed, x \notin signals, ~(worker.pc # "idle" /\ worker.path = x)
                PROVE  Recorded(x)'
    BY <1>0 DEF DriftIsSignalled
  <2>1. Recorded(x)
    BY <1>0 DEF TableInv, DriftIsSignalled
  <2>. QED  BY <1>0, <1>1, <2>1, StaysRecorded DEF At
<1>3. WorkerCommits'
  BY <1>0, <1>1, CommitsKeep DEF TableInv, At
<1>. QED  BY <1>0, <1>1, <1>2, <1>3 DEF TableInv, WorkerReads

(* note_move's row: the paths it leaves and comes to are signalled, where no other actor was. *)
LEMMA MoveKeeps ==
  ASSUME Inv, DriftInv, NEW c \in Calls, MoveRow(c)
  PROVE  TableInv' /\ SharedIsMixed' /\ CallFiles'
<1>. DEFINE k == call[c].note
<1>. DEFINE q == call[c].to
<1>0. /\ TypeOK /\ WorkerData /\ TableInv /\ CallFile(c) /\ call[c].pc = "row" /\ Running(c)
      /\ call[c].path \in Paths /\ q \in Paths
      /\ k \in DOMAIN notes /\ SharedIsMixed /\ CallFiles
      /\ UNCHANGED <<disk, signals, worker, passed>>
      /\ mixed \subseteq mixed' /\ call'[c].pc = "done" /\ \A d \in Calls \ {c} : call'[d] = call[d]
  BY CallFacts, GotoFacts DEF Inv, NoteToolsInv, DriftInv, CallFiles, MoveRow, Resume, Running, TypeOK, Finish
<1>1. CallFile(c)'
  BY <1>0 DEF CallFile, Past
<1>2. CASE UNCHANGED notes
  <2>1. TableInv'
    BY <1>0, <1>2, TableKeeps
  <2>2. SharedIsMixed' /\ \A d \in Calls \ {c} : CallFile(d)'
    BY <1>0, <1>2, OthersKeep
  <2>. QED  BY <1>1, <2>1, <2>2 DEF CallFiles
<1>3. CASE At(q) \subseteq {k} /\ SetPath(k, q)
  <2>1. /\ DOMAIN notes' = DOMAIN notes
        /\ \A n \in DOMAIN notes \ {k} : notes'[n] = notes[n]
        /\ notes'[k].path = q /\ notes'[k].hash = notes[k].hash /\ notes'[k].deleted = notes[k].deleted
    BY <1>0, <1>3, TypeFacts DEF SetPath, Rows
  <2>2. PICK r \in Paths : r = notes[k].path
    BY <1>0, TypeFacts DEF Rows
  <2>3. r \in mixed => q \in mixed'
    BY <2>2 DEF MoveRow
  <2>4. r \in mixed \/ r = call[c].path
    BY <1>0, <2>2 DEF CallFile, Past
  <2>5. ASSUME q \notin mixed', r # q PROVE q \in signals \/ (worker.pc # "idle" /\ worker.path = q)
    <3>1. q \notin mixed /\ disk[q] # NoFile
      BY <1>0, <2>5 DEF CallFile
    <3>2. ~Recorded(q)
      BY <1>3, <2>2, <2>5, <3>1 DEF Recorded, At
    <3>. QED  BY <1>0, <3>1, <3>2 DEF TableInv, DriftIsSignalled
  <2>6. r \in mixed \/ disk[r] = NoFile
    BY <1>0, <2>4 DEF CallFile
  <2>7. DriftIsSignalled'
    <3>. SUFFICES ASSUME NEW x \in Paths \ mixed', x \notin signals, ~(worker.pc # "idle" /\ worker.path = x)
                  PROVE  Recorded(x)'
      BY <1>0 DEF DriftIsSignalled
    <3>1. Recorded(x) /\ x \notin mixed
      BY <1>0 DEF TableInv, DriftIsSignalled
    <3>2. CASE r = q
      <4>1. \A n \in DOMAIN notes : notes'[n].path = notes[n].path /\ notes'[n].hash = notes[n].hash
                                    /\ notes'[n].deleted = notes[n].deleted
        BY <2>1, <2>2, <3>2
      <4>. QED  BY <1>0, <2>1, <3>1, <4>1, StaysRecorded DEF At
    <3>3. CASE r # q
      <4>1. x # q
        BY <2>5, <3>3
      <4>2. x = r => Recorded(x)'
        BY <1>0, <2>1, <2>6, <3>1, <3>3, <4>1 DEF Recorded, At
      <4>3. x # r => Recorded(x)'
        BY <1>0, <2>1, <2>2, <3>1, <4>1, StaysRecorded DEF At
      <4>. QED  BY <4>2, <4>3
    <3>. QED  BY <3>2, <3>3
  <2>8. WorkerCommits'
    <3>1. CASE r = q
      <4>1. \A n \in DOMAIN notes : notes'[n].path = notes[n].path /\ notes'[n].deleted = notes[n].deleted
        BY <2>1, <2>2, <3>1
      <4>. QED  BY <1>0, <2>1, <4>1, CommitsKeep DEF TableInv, At
    <3>2. CASE r # q
      <4>. SUFFICES ASSUME worker.pc = "commit"
                    PROVE  /\ worker.what = "update" => FitsUpdate'
                           /\ worker.what = "move" => FitsMove'
                           /\ worker.what = "delete" => FitsDelete'
        BY <1>0 DEF WorkerCommits
      <4>0. q \in mixed' \cup signals \cup {worker.path} /\ worker.path \in Paths
        BY <1>0, <2>5, <3>2 DEF WorkerData
      <4>1. ASSUME worker.what = "update" PROVE FitsUpdate'
        <5>1. worker.note \in DOMAIN notes /\ FitsUpdate /\ worker.text # NoFile
          BY <1>0, <4>1 DEF WorkerData, TableInv, WorkerCommits
        <5>2. CASE worker.note # k
          BY <1>0, <2>1, <5>1, <5>2 DEF FitsUpdate
        <5>3. CASE worker.note = k
          <6>1. worker.path \in mixed \cup signals \cup {r}
            BY <2>2, <5>1, <5>3 DEF FitsUpdate
          <6>2. r = worker.path => r \in mixed \cup signals
            BY <1>0, <2>6, <5>1 DEF TableInv, WorkerReads
          <6>3. worker.path \in mixed \cup signals
            BY <6>1, <6>2
          <6>4. q \in mixed' \cup signals
            BY <1>0, <4>0, <6>3
          <6>. QED  BY <1>0, <2>1, <5>3, <6>3, <6>4 DEF FitsUpdate
        <5>. QED  BY <5>2, <5>3
      <4>2. ASSUME worker.what = "move" PROVE FitsMove'
        <5>1. worker.note \in DOMAIN notes /\ FitsMove
          BY <1>0, <4>2 DEF WorkerData, TableInv, WorkerCommits
        <5>2. CASE worker.note # k
          BY <1>0, <2>1, <5>1, <5>2 DEF FitsMove
        <5>3. CASE worker.note = k
          BY <1>0, <2>1, <4>0, <5>3 DEF FitsMove
        <5>. QED  BY <5>2, <5>3
      <4>3. ASSUME worker.what = "delete" PROVE FitsDelete'
        <5>1. FitsDelete
          BY <1>0, <4>3 DEF TableInv, WorkerCommits
        <5>2. q = worker.path => q \in mixed' \cup signals
          <6>. SUFFICES ASSUME q = worker.path, q \notin mixed', q \notin signals PROVE FALSE
            OBVIOUS
          <6>1. disk[q] # NoFile
            BY <1>0 DEF CallFile
          <6>. QED  BY <1>0, <5>1, <6>1 DEF TableInv, WorkerReads, FitsDelete
        <5>. QED  BY <1>0, <2>1, <5>1, <5>2 DEF FitsDelete, At
      <4>. QED  BY <4>1, <4>2, <4>3
    <3>. QED  BY <3>1, <3>2
  <2>9. SharedIsMixed'
    BY <1>0 DEF SharedIsMixed, Running
  <2>10. ASSUME NEW d \in Calls \ {c} PROVE CallFile(d)'
    <3>1. CallFile(d) /\ call'[d] = call[d]
      BY <1>0 DEF CallFiles
    <3>2. call[d].pc \in Past => notes'[call[d].note].path \in {call[d].path} \cup mixed'
      <4>. SUFFICES ASSUME call[d].pc \in Past, call[d].note = k, r # q
                    PROVE  q \in {call[d].path} \cup mixed'
        BY <1>0, <2>1, <2>2, <3>1, CallFacts DEF CallFile, Past
      <4>1. Running(d) /\ r \in {call[d].path} \cup mixed
        BY <2>2, <3>1 DEF CallFile, Past, Running
      <4>2. CASE r \in mixed
        BY <2>3, <4>2
      <4>3. CASE r \notin mixed
        <5>1. call[d].path = call[c].path
          BY <2>4, <4>1, <4>3
        <5>. QED  BY <1>0, <4>1, <5>1 DEF SharedIsMixed
      <4>. QED  BY <4>2, <4>3
    <3>. QED  BY <1>0, <3>1, <3>2 DEF CallFile
  <2>11. WorkerReads'
    BY <1>0 DEF TableInv, WorkerReads
  <2>. QED  BY <1>1, <2>7, <2>8, <2>9, <2>10, <2>11 DEF TableInv, CallFiles
<1>. QED  BY <1>2, <1>3 DEF MoveRow

(* The steps of a tool that write a file, or nothing. *)
LEMMA FileDrift ==
  ASSUME Inv, DriftInv, NEW c \in Calls,
         \/ OpenFile(c) \/ Lookup(c) \/ LinkFile(c) \/ UnlinkOld(c) \/ ReadBody(c) \/ WritePatch(c)
         \/ Overwrite(c) \/ RemoveFile(c) \/ Decline(c)
  PROVE  DriftInv'
<1>. DEFINE p == call[c].path
<1>. DEFINE q == call[c].to
<1>0. /\ TypeOK /\ CallData /\ TableInv /\ SharedIsMixed /\ CallFiles /\ CallFile(c)
      /\ disk \in [Paths -> File] /\ call \in [Calls -> CallRecord]
  BY DEF Inv, NoteToolsInv, DriftInv, CallFiles, TypeOK, CallRecord
<1>1. /\ UNCHANGED <<notes, worker, passed, mixed>> /\ Running(c) /\ p \in Paths /\ q \in Paths
      /\ \A d \in Calls \ {c} : call'[d] = call[d]
  BY <1>0, CallFacts DEF OpenFile, Lookup, LinkFile, UnlinkOld, ReadBody, WritePatch, Overwrite, RemoveFile, Decline,
     Goto, Finish, Resume, Running
<1>2. /\ signals \subseteq signals'
      /\ \A x \in Paths \ signals' : disk'[x] = disk[x]
      /\ \A x \in Paths \ {p, q} : disk'[x] = disk[x]
  <2>1. ASSUME NEW x \in {p, q}, NEW t, Change(x, t)
        PROVE  /\ signals \subseteq signals'
               /\ \A y \in Paths \ signals' : disk'[y] = disk[y]
               /\ \A y \in Paths \ {p, q} : disk'[y] = disk[y]
    BY <1>0, <2>1 DEF Change
  <2>2. (\E x \in {p, q}, t \in {Fresh(c), disk[p], NoFile, [call[c].text EXCEPT !.added = @ \cup {c}]} : Change(x, t))
        \/ UNCHANGED <<disk, signals>>
    BY DEF OpenFile, Lookup, LinkFile, UnlinkOld, ReadBody, WritePatch, Overwrite, RemoveFile, Decline
  <2>. QED  BY <2>1, <2>2
<1>3. TableInv'
  BY <1>0, <1>1, <1>2, TableKeeps
<1>4. CallFile(c)' /\ ((call'[c].path = p /\ call'[c].to = q) \/ call'[c].pc = "done")
  <2>1. ASSUME call'[c].pc = "done" PROVE CallFile(c)'
    BY <2>1 DEF CallFile, Past
  <2>2. ASSUME call'[c].path = p, call'[c].note = call[c].note, call[c].pc \in Past,
               call'[c].pc \in {"read", "write", "asked", "tombstone"}
        PROVE  CallFile(c)'
    BY <1>0, <1>1, <2>2 DEF CallFile
  <2>3. ASSUME Finish(c) PROVE call'[c].pc = "done"
    BY <1>0, <2>3, GotoFacts
  <2>4. CASE OpenFile(c)
    <3>1. CASE Change(p, Fresh(c)) /\ Goto(c, "insert")
      <4>1. call'[c].pc = "insert" /\ call'[c].path = p /\ call'[c].to = q /\ disk'[p] = Fresh(c)
        BY <1>0, <1>1, <3>1, GotoFacts DEF Change
      <4>. QED  BY <4>1 DEF CallFile, Past
    <3>. QED  BY <2>1, <2>3, <2>4, <3>1 DEF OpenFile
  <2>5. CASE Lookup(c)
    <3>1. ASSUME NEW n \in At(p), call' = [call EXCEPT ![c].pc = AfterLookup(call[c].op), ![c].note = n]
          PROVE  CallFile(c)' /\ call'[c].path = p /\ call'[c].to = q
      <4>1. /\ call'[c].path = p /\ call'[c].to = q /\ call'[c].note = n
            /\ call'[c].pc \in {"link", "asked", "read"}
        BY <1>0, <3>1 DEF AfterLookup, CallRecord
      <4>. QED  BY <1>1, <4>1 DEF CallFile, At
    <3>. QED  BY <2>1, <2>3, <2>5, <3>1 DEF Lookup
  <2>6. CASE LinkFile(c)
    <3>1. CASE disk[p] # NoFile /\ Change(q, disk[p]) /\ Goto(c, "unlink")
      <4>1. /\ call'[c].pc = "unlink" /\ call'[c].path = p /\ call'[c].to = q /\ call'[c].note = call[c].note
            /\ disk'[q] # NoFile
        BY <1>0, <1>1, <3>1, GotoFacts DEF Change
      <4>. QED  BY <1>0, <1>1, <2>6, <4>1 DEF CallFile, LinkFile, Resume, Past
    <3>. QED  BY <2>1, <2>3, <2>6, <3>1 DEF LinkFile
  <2>7. CASE UnlinkOld(c)
    <3>1. CASE Change(p, NoFile) /\ Goto(c, "row")
      <4>1. /\ call'[c].pc = "row" /\ call'[c].path = p /\ call'[c].to = q /\ call'[c].note = call[c].note
            /\ disk'[p] = NoFile /\ call[c].pc = "unlink"
        BY <1>0, <1>1, <2>7, <3>1, GotoFacts DEF Change, UnlinkOld, Resume
      <4>2. disk'[q] = disk[q]
        BY <1>0, <1>1, <3>1, <4>1 DEF Change, CallData
      <4>. QED  BY <1>0, <1>1, <4>1, <4>2 DEF CallFile, Past
    <3>. QED  BY <2>1, <2>3, <2>7, <3>1 DEF UnlinkOld
  <2>8. CASE ReadBody(c)
    <3>1. call[c].pc \in Past
      BY <2>8 DEF ReadBody, Resume, Past
    <3>2. CASE Goto(c, "asked")
      BY <1>0, <2>2, <3>1, <3>2, GotoFacts
    <3>3. CASE call' = [call EXCEPT ![c].pc = "write", ![c].text = disk[p]]
      <4>1. call'[c].pc = "write" /\ call'[c].path = p /\ call'[c].to = q /\ call'[c].note = call[c].note
        BY <1>0, <3>3 DEF CallRecord
      <4>. QED  BY <2>2, <3>1, <4>1
    <3>. QED  BY <2>1, <2>3, <2>8, <3>2, <3>3 DEF ReadBody
  <2>9. ASSUME NEW t \in Text, Change(p, t), call' = [call EXCEPT ![c].pc = "hash", ![c].text = t],
               call[c].pc \in Past
        PROVE  CallFile(c)' /\ call'[c].path = p /\ call'[c].to = q
    <3>1. /\ call'[c].pc = "hash" /\ call'[c].path = p /\ call'[c].to = q /\ call'[c].note = call[c].note
          /\ call'[c].text = t
      BY <1>0, <2>9 DEF CallRecord
    <3>2. disk'[p] = t
      BY <1>0, <1>1, <2>9 DEF Change
    <3>. QED  BY <1>0, <1>1, <2>9, <3>1, <3>2 DEF CallFile
  <2>10. CASE WritePatch(c)
    <3>1. PICK t : t = [call[c].text EXCEPT !.added = @ \cup {c}]
      OBVIOUS
    <3>2. call[c].text \in Text /\ call[c].pc \in Past
      BY <2>10, CallFacts DEF WritePatch, Resume, Past
    <3>3. t \in Text
      BY <3>1, <3>2 DEF Text
    <3>. QED  BY <2>9, <2>10, <3>1, <3>2, <3>3 DEF WritePatch
  <2>11. CASE Overwrite(c)
    BY <2>9, <2>11, InFacts DEF Overwrite, Resume, Past
  <2>12. CASE RemoveFile(c)
    BY <1>0, <2>1, <2>2, <2>3, <2>12, GotoFacts DEF RemoveFile, Resume, Past
  <2>13. CASE Decline(c)
    BY <2>1, <2>3, <2>13 DEF Decline
  <2>. QED  BY <2>4, <2>5, <2>6, <2>7, <2>8, <2>10, <2>11, <2>12, <2>13
<1>5. SharedIsMixed' /\ \A d \in Calls \ {c} : CallFile(d)'
  BY <1>0, <1>1, <1>2, <1>4, OthersKeep
<1>. QED  BY <1>3, <1>4, <1>5 DEF DriftInv, CallFiles

(* Who comes to the paths of a call at work mixes them. *)
LEMMA MixesFacts ==
  ASSUME NEW ps, NEW c \in Calls, Running(c), {call[c].path, call[c].to} \cap ps # {}
  PROVE  ps \cup {call[c].path, call[c].to} \subseteq Mixes(ps)
<1>1. c \in AtWork(ps) /\ {call[c].path, call[c].to} \subseteq On(c)
  BY DEF AtWork, On
<1>. QED  BY <1>1 DEF Mixes

(* A call that begins where others are at work. *)
LEMMA BeginDrift ==
  ASSUME Inv, DriftInv, NEW c \in Calls, NEW op \in Ops, NEW p \in Paths, NEW q \in Paths, Begin(c, op, p, q)
  PROVE  DriftInv'
<1>0. /\ TypeOK /\ TableInv /\ SharedIsMixed /\ CallFiles /\ call \in [Calls -> CallRecord]
      /\ UNCHANGED <<disk, notes, signals, worker, passed>> /\ mixed' = Mixes({p, q}) /\ mixed \subseteq mixed'
      /\ \A d \in Calls \ {c} : call'[d] = call[d]
  BY DEF Inv, NoteToolsInv, DriftInv, TypeOK, CallRecord, Begin, Mixes
<1>1. call'[c].pc \in {"open", "lookup"} /\ call'[c].path = p /\ call'[c].to = q
  BY <1>0 DEF Begin, NewCall
<1>2. TableInv'
  BY <1>0, TableKeeps
<1>3. CallFiles'
  <2>1. CallFile(c)'
    BY <1>1 DEF CallFile, Past
  <2>2. \A d \in Calls \ {c} : CallFile(d)'
    BY <1>0 DEF CallFiles, CallFile
  <2>. QED  BY <2>1, <2>2 DEF CallFiles
<1>4. SharedIsMixed'
  <2>1. ASSUME NEW d \in Calls \ {c}, Running(d), {p, q} \cap {call[d].path, call[d].to} # {}
        PROVE  {p, q, call[d].path, call[d].to} \subseteq mixed'
    BY <1>0, <2>1, MixesFacts
  <2>. SUFFICES ASSUME NEW d \in Calls, NEW e \in Calls, d # e, Running(d)', Running(e)',
                       {call'[d].path, call'[d].to} \cap {call'[e].path, call'[e].to} # {}
                PROVE  {call'[d].path, call'[d].to, call'[e].path, call'[e].to} \subseteq mixed'
    BY DEF SharedIsMixed
  <2>2. CASE d = c
    BY <1>0, <1>1, <2>1, <2>2 DEF Running
  <2>3. CASE e = c
    BY <1>0, <1>1, <2>1, <2>3 DEF Running
  <2>4. CASE c \notin {d, e}
    BY <1>0, <2>4 DEF SharedIsMixed, Running
  <2>. QED  BY <2>2, <2>3, <2>4
<1>. QED  BY <1>2, <1>3, <1>4 DEF DriftInv

(* The user's hand on a file. *)
LEMMA UserDrift ==
  ASSUME Inv, DriftInv, NEW p \in Paths, (\E e \in Edits : Edit(p, e)) \/ Remove(p)
  PROVE  DriftInv'
<1>0. /\ TypeOK /\ TableInv /\ SharedIsMixed /\ CallFiles /\ disk \in [Paths -> File]
      /\ UNCHANGED <<call, notes, worker, passed>> /\ mixed' = Mixes({p}) /\ mixed \subseteq mixed'
      /\ signals' = signals \cup {p} /\ \A x \in Paths \ {p} : disk'[x] = disk[x]
  BY DEF Inv, NoteToolsInv, DriftInv, TypeOK, Edit, Remove, Change, Mixes
<1>1. TableInv'
  BY <1>0, TableKeeps
<1>2. SharedIsMixed'
  BY <1>0 DEF SharedIsMixed, Running
<1>3. ASSUME NEW d \in Calls PROVE CallFile(d)'
  <2>1. CASE ~Running(d)
    BY <1>0, <2>1 DEF CallFile, Past, Running
  <2>2. CASE Running(d)
    <3>1. call[d].path \in Paths /\ call[d].to \in Paths
      BY <2>2, CallFacts
    <3>2. \A x \in {call[d].path, call[d].to} : x \in mixed' \/ disk'[x] = disk[x]
      BY <1>0, <2>2, <3>1, MixesFacts
    <3>. QED  BY <1>0, <3>2 DEF CallFiles, CallFile
  <2>. QED  BY <2>1, <2>2
<1>. QED  BY <1>1, <1>2, <1>3 DEF DriftInv, CallFiles

(* Steps that leave the calls, the files and the rows' paths alone. *)
LEMMA CallsKeep ==
  ASSUME Inv, DriftInv, UNCHANGED <<disk, call>>, mixed \subseteq mixed',
         \A c \in Calls : call[c].pc \in Past =>
           notes'[call[c].note].path \in {notes[call[c].note].path} \cup mixed'
  PROVE  SharedIsMixed' /\ CallFiles'
<1>1. SharedIsMixed'
  BY DEF DriftInv, SharedIsMixed, Running
<1>2. CallFiles'
  BY DEF DriftInv, CallFiles, CallFile
<1>. QED  BY <1>1, <1>2

(* The worker looks: it takes the signal, and reads the file in the same step. *)
LEMMA LookDrift ==
  ASSUME Inv, DriftInv, NEW p \in Paths, ReadFile(p)
  PROVE  DriftInv'
<1>0. /\ TypeOK /\ TableInv /\ worker.pc = "idle" /\ UNCHANGED <<disk, notes, call, mixed, passed>>
      /\ signals' = signals \ {p}
      /\ worker'.pc = "decide" /\ worker'.path = p /\ worker'.text = disk[p]
  BY DEF Inv, NoteToolsInv, DriftInv, ReadFile, IdleWorker
<1>1. DriftIsSignalled'
  <2>. SUFFICES ASSUME NEW x \in Paths \ mixed, x \notin signals', x # p PROVE Recorded(x)'
    BY <1>0 DEF DriftIsSignalled
  <2>1. Recorded(x)
    BY <1>0 DEF TableInv, DriftIsSignalled
  <2>. QED  BY <1>0, <2>1 DEF Recorded, At
<1>2. WorkerReads' /\ WorkerCommits'
  BY <1>0 DEF WorkerReads, WorkerCommits
<1>3. SharedIsMixed' /\ CallFiles'
  BY <1>0, CallsKeep
<1>. QED  BY <1>1, <1>2, <1>3 DEF DriftInv, TableInv

(* It decides: to do nothing only where the table is right, or will be looked at again. *)
LEMMA DecideDrift ==
  ASSUME Inv, DriftInv, DecideVanished \/ DecideFile
  PROVE  DriftInv'
<1>. PICK p : p = worker.path
  OBVIOUS
<1>0. /\ TypeOK /\ UniquePaths /\ TableInv /\ worker.pc = "decide" /\ p \in Paths
      /\ UNCHANGED <<disk, notes, signals, call, mixed>> /\ passed \subseteq passed'
      /\ p \in signals \/ disk[p] = worker.text
  BY DEF Inv, NoteToolsInv, WorkerData, DriftInv, TableInv, WorkerReads, DecideVanished, DecideFile
<1>1. ASSUME NEW what, NEW n, Decided(what, n)
      PROVE  worker'.pc = "commit" /\ worker'.path = p /\ worker'.text = worker.text
             /\ worker'.what = what /\ worker'.note = n
  BY <1>0, <1>1 DEF Decided, TypeOK
<1>2. ASSUME NEW x \in Paths, Recorded(x) PROVE Recorded(x)'
  BY <1>0, <1>2, StaysRecorded DEF At
<1>3. SharedIsMixed' /\ CallFiles'
  BY <1>0, CallsKeep
<1>4. ASSUME worker' = IdleWorker, p \in signals \/ Recorded(p)' PROVE TableInv'
  <2>1. DriftIsSignalled'
    BY <1>0, <1>2, <1>4 DEF TableInv, DriftIsSignalled
  <2>2. WorkerReads' /\ WorkerCommits'
    BY <1>4 DEF WorkerReads, WorkerCommits, IdleWorker
  <2>. QED  BY <2>1, <2>2 DEF TableInv
<1>5. ASSUME NEW what, NEW n, Decided(what, n),
             what = "update" => n \in At(p),
             what = "move" => disk[notes[n].path] = NoFile,
             what = "delete" => n \in At(p) /\ worker.text = NoFile
      PROVE  TableInv'
  <2>0. /\ worker'.pc = "commit" /\ worker'.path = p /\ worker'.text = worker.text
        /\ worker'.what = what /\ worker'.note = n
    BY <1>1, <1>5
  <2>1. DriftIsSignalled'
    <3>. SUFFICES ASSUME NEW x \in Paths \ mixed, x \notin signals, x # p PROVE Recorded(x)'
      BY <1>0, <2>0 DEF DriftIsSignalled
    <3>. QED  BY <1>0, <1>2 DEF TableInv, DriftIsSignalled
  <2>2. WorkerReads'
    BY <1>0, <2>0 DEF WorkerReads
  <2>3. what = "update" => FitsUpdate'
    BY <1>0, <1>5, <2>0 DEF FitsUpdate, At
  <2>4. what = "move" => FitsMove'
    BY <1>0, <1>5, <2>0 DEF FitsMove
  <2>5. what = "delete" => FitsDelete'
    <3>1. \A m, k \in At(p) : m = k
      BY <1>0 DEF UniquePaths, At
    <3>. QED  BY <1>0, <1>5, <2>0, <3>1 DEF FitsDelete, At
  <2>6. WorkerCommits'
    BY <2>0, <2>3, <2>4, <2>5 DEF WorkerCommits
  <2>. QED  BY <2>1, <2>2, <2>6 DEF TableInv
<1>6. CASE DecideVanished
  <2>0. worker.text = NoFile
    BY <1>6 DEF DecideVanished
  <2>1. CASE {n \in At(p) : Active(n)} = {} /\ worker' = IdleWorker /\ UNCHANGED passed
    <3>1. p \in signals \/ Recorded(p)'
      BY <1>0, <2>0, <2>1 DEF Recorded, At, Active
    <3>. QED  BY <1>3, <1>4, <2>1, <3>1 DEF DriftInv
  <2>2. ASSUME NEW n \in At(p), worker' = IdleWorker, passed' = passed \cup {n} PROVE DriftInv'
    <3>1. \A m \in At(p) : m = n
      BY <1>0 DEF UniquePaths, At
    <3>2. p \in signals \/ Recorded(p)'
      BY <1>0, <2>0, <2>2, <3>1 DEF Recorded, At
    <3>. QED  BY <1>3, <1>4, <2>2, <3>2 DEF DriftInv
  <2>3. ASSUME NEW n \in At(p), Decided("delete", n) PROVE DriftInv'
    BY <1>3, <1>5, <2>0, <2>3 DEF DriftInv
  <2>. QED  BY <1>6, <2>1, <2>2, <2>3 DEF DecideVanished
<1>7. CASE DecideFile
  <2>0. worker.text # NoFile
    BY <1>7 DEF DecideFile
  <2>1. ASSUME NEW n \in At(p), ~Differs(n), worker' = IdleWorker PROVE DriftInv'
    <3>1. notes[n].hash.text = worker.text
      BY <2>1 DEF Differs, BodyHash
    <3>2. p \in signals \/ Recorded(p)'
      BY <1>0, <2>0, <2>1, <3>1 DEF Recorded, At
    <3>. QED  BY <1>3, <1>4, <2>1, <3>2 DEF DriftInv
  <2>2. ASSUME NEW n \in At(p), Decided("update", n) PROVE DriftInv'
    BY <1>3, <1>5, <2>2 DEF DriftInv
  <2>3. ASSUME Decided("create", 0) PROVE DriftInv'
    BY <1>3, <1>5, <2>3 DEF DriftInv
  <2>4. ASSUME NEW n, disk[notes[n].path] = NoFile, Decided("move", n) PROVE DriftInv'
    BY <1>3, <1>5, <2>4 DEF DriftInv
  <2>. QED  BY <1>7, <2>1, <2>2, <2>3, <2>4 DEF DecideFile
<1>. QED  BY <1>6, <1>7

(* It commits: the row of its path, wherever the row is by now, or the signal once more. *)
LEMMA CommitDrift ==
  ASSUME Inv, DriftInv, CommitIngest
  PROVE  DriftInv'
<1>. DEFINE p == worker.path
<1>. DEFINE k == worker.note
<1>. DEFINE h == BodyHash(worker.text)
<1>0. /\ TypeOK /\ UniquePaths /\ TableInv /\ worker.pc = "commit" /\ p \in Paths
      /\ UNCHANGED <<disk, call, passed>> /\ worker' = IdleWorker
      /\ signals \subseteq signals' /\ mixed \subseteq mixed'
      /\ p \in signals \/ disk[p] = worker.text
  BY DEF Inv, NoteToolsInv, WorkerData, DriftInv, TableInv, WorkerReads, CommitIngest
<1>1. worker.what \in {"update", "delete", "move"} => k \in DOMAIN notes
  BY <1>0 DEF Inv, NoteToolsInv, WorkerData
<1>2. worker.what \in {"update", "create", "move"} => worker.text # NoFile /\ h \in Hashes
  BY <1>0, HashFacts DEF Inv, NoteToolsInv, WorkerData, TypeOK, File
<1>3. h.text = worker.text
  BY DEF BodyHash
<1>4. WorkerReads' /\ WorkerCommits'
  BY <1>0 DEF WorkerReads, WorkerCommits, IdleWorker
<1>5. \A x \in Paths \ mixed : x \notin signals => Recorded(x) \/ x = p
  BY <1>0 DEF TableInv, DriftIsSignalled
<1>6. ASSUME \A n \in DOMAIN notes : notes'[n].path = notes[n].path PROVE SharedIsMixed' /\ CallFiles'
  BY <1>0, <1>6, CallFacts, CallsKeep DEF Past
<1>7. CASE worker.what = "update" /\ SetHash(k, h) /\ UNCHANGED <<signals, mixed>>
  <2>1. /\ DOMAIN notes' = DOMAIN notes /\ notes'[k].hash = h
        /\ \A n \in DOMAIN notes : notes'[n].path = notes[n].path /\ notes'[n].deleted = notes[n].deleted
        /\ \A n \in DOMAIN notes \ {k} : notes'[n] = notes[n]
    BY <1>0, <1>1, <1>7, TypeFacts DEF SetHash, Rows
  <2>2. FitsUpdate
    BY <1>0, <1>7 DEF TableInv, WorkerCommits
  <2>3. ASSUME NEW x \in Paths \ mixed, x \notin signals PROVE Recorded(x)'
    <3>1. CASE x = notes[k].path
      BY <1>0, <1>1, <1>2, <1>3, <1>7, <2>1, <2>2, <2>3, <3>1 DEF FitsUpdate, Recorded, At
    <3>2. CASE x # notes[k].path
      <4>1. Recorded(x)
        BY <1>5, <2>2, <2>3, <3>2 DEF FitsUpdate
      <4>. QED  BY <1>0, <2>1, <3>2, <4>1, StaysRecorded DEF At
    <3>. QED  BY <3>1, <3>2
  <2>. QED  BY <1>4, <1>6, <1>7, <2>1, <2>3 DEF DriftInv, TableInv, DriftIsSignalled
<1>8. CASE worker.what = "delete" /\ SetDeleted(k) /\ UNCHANGED <<signals, mixed>>
  <2>1. /\ DOMAIN notes' = DOMAIN notes /\ notes'[k].deleted
        /\ \A n \in DOMAIN notes : /\ notes'[n].path = notes[n].path /\ notes'[n].hash = notes[n].hash
                                   /\ notes[n].deleted => notes'[n].deleted
    BY <1>0, <1>1, <1>8, TypeFacts DEF SetDeleted, Rows
  <2>2. FitsDelete
    BY <1>0, <1>8 DEF TableInv, WorkerCommits
  <2>3. ASSUME NEW x \in Paths \ mixed, x \notin signals PROVE Recorded(x)'
    <3>1. CASE x = p
      BY <1>0, <2>1, <2>2, <2>3, <3>1 DEF FitsDelete, Recorded, At
    <3>2. CASE x # p
      BY <1>0, <1>5, <2>1, <2>3, <3>2, StaysRecorded DEF At
    <3>. QED  BY <3>1, <3>2
  <2>. QED  BY <1>4, <1>6, <1>8, <2>1, <2>3 DEF DriftInv, TableInv, DriftIsSignalled
<1>9. CASE worker.what = "create" /\ ~Taken(p) /\ Insert(p, h) /\ UNCHANGED <<signals, mixed>>
  <2>1. /\ NextId \notin DOMAIN notes
        /\ DOMAIN notes' = DOMAIN notes \cup {NextId}
        /\ \A n \in DOMAIN notes : notes'[n] = notes[n]
        /\ notes'[NextId] = Row(p, h)
    BY <1>0, <1>2, <1>9, InsertFacts
  <2>2. PICK id : id = NextId
    OBVIOUS
  <2>3. notes'[id].path = p /\ notes'[id].hash = h
    BY <2>1, <2>2 DEF Row
  <2>4. ASSUME NEW x \in Paths \ mixed, x \notin signals PROVE Recorded(x)'
    <3>1. CASE x = p
      BY <1>0, <1>2, <1>3, <1>9, <2>1, <2>2, <2>3, <2>4, <3>1 DEF Recorded, At
    <3>2. CASE x # p
      BY <1>0, <1>5, <2>1, <2>2, <2>3, <2>4, <3>2, StaysRecorded DEF At
    <3>. QED  BY <3>1, <3>2
  <2>. QED  BY <1>4, <1>6, <1>9, <2>1, <2>4 DEF DriftInv, TableInv, DriftIsSignalled
<1>10. CASE /\ worker.what = "move" /\ ~Taken(p) /\ SetPath(k, p) /\ UNCHANGED signals
            /\ mixed' = IF MoveIsSound(k, h) THEN mixed ELSE mixed \cup {p}
  <2>1. /\ DOMAIN notes' = DOMAIN notes /\ notes'[k].path = p /\ notes'[k].hash = notes[k].hash
        /\ \A n \in DOMAIN notes \ {k} : notes'[n] = notes[n]
    BY <1>0, <1>1, <1>10, TypeFacts DEF SetPath, Rows
  <2>2. PICK r \in Paths : r = notes[k].path
    BY <1>0, <1>1, <1>10, TypeFacts DEF Rows
  <2>3. r # p /\ FitsMove
    BY <1>0, <1>1, <1>10, <2>2 DEF Taken, At, TableInv, WorkerCommits
  <2>4. ASSUME NEW x \in Paths \ mixed', x \notin signals PROVE Recorded(x)'
    <3>0. x \notin mixed
      BY <1>0, <2>4
    <3>1. CASE x = p
      <4>1. notes[k].hash = h
        BY <1>10, <2>4, <3>1 DEF MoveIsSound
      <4>. QED  BY <1>0, <1>1, <1>2, <1>3, <1>10, <2>1, <2>4, <3>1, <4>1 DEF Recorded, At
    <3>2. CASE x = r
      <4>1. disk[r] = NoFile /\ Recorded(r)
        BY <1>5, <2>2, <2>3, <2>4, <3>0, <3>2 DEF FitsMove
      <4>. QED  BY <1>0, <2>1, <2>3, <3>2, <4>1 DEF Recorded, At
    <3>3. CASE x \notin {p, r}
      BY <1>0, <1>5, <2>1, <2>2, <2>4, <3>0, <3>3, StaysRecorded DEF At
    <3>. QED  BY <3>1, <3>2, <3>3
  <2>5. ASSUME NEW c \in Calls, call[c].pc \in Past, call[c].note = k PROVE p \in mixed'
    <3>1. c \in AtWork({r})
      BY <1>1, <1>10, <2>2, <2>5 DEF AtWork, On, Running, Past
    <3>. QED  BY <1>10, <2>2, <3>1 DEF MoveIsSound
  <2>6. SharedIsMixed' /\ CallFiles'
    BY <1>0, <2>1, <2>5, CallFacts, CallsKeep DEF Past
  <2>. QED  BY <1>4, <1>10, <2>4, <2>6 DEF DriftInv, TableInv, DriftIsSignalled
<1>11. CASE signals' = signals \cup {p} /\ UNCHANGED <<notes, mixed>>
  <2>1. ASSUME NEW x \in Paths \ mixed, x \notin signals' PROVE Recorded(x)'
    <3>1. Recorded(x)
      BY <1>5, <1>11, <2>1
    <3>. QED  BY <1>0, <1>11, <3>1 DEF Recorded, At
  <2>. QED  BY <1>4, <1>6, <1>11, <2>1 DEF DriftInv, TableInv, DriftIsSignalled
<1>. QED  BY <1>7, <1>8, <1>9, <1>10, <1>11 DEF CommitIngest

(* Deaths: of the server between a file and its row, of the worker with what was queued. *)
LEMMA DeathDrift ==
  ASSUME Inv, DriftInv, ServerCrash \/ WorkerRestart
  PROVE  DriftInv'
<1>1. CASE ServerCrash
  <2>1. \A c \in Calls : call'[c].pc \in {"new", "done", "dead"}
    BY <1>1 DEF ServerCrash, Running, Ended, NewCall
  <2>2. SharedIsMixed' /\ CallFiles'
    BY <2>1 DEF SharedIsMixed, CallFiles, CallFile, Past, Running
  <2>3. TableInv'
    BY <1>1, TableKeeps DEF DriftInv, ServerCrash
  <2>. QED  BY <2>2, <2>3 DEF DriftInv
<1>2. CASE WorkerRestart
  <2>0. worker'.pc = "idle" /\ UNCHANGED <<disk, notes, call, mixed, passed>>
    BY <1>2 DEF WorkerRestart, IdleWorker
  <2>1. DriftIsSignalled'
    BY <1>2, <2>0 DEF WorkerRestart, DriftIsSignalled, Recorded, At, Active
  <2>2. WorkerReads' /\ WorkerCommits'
    BY <2>0 DEF WorkerReads, WorkerCommits
  <2>3. SharedIsMixed' /\ CallFiles'
    BY <2>0, CallsKeep
  <2>. QED  BY <2>1, <2>2, <2>3 DEF DriftInv, TableInv
<1>. QED  BY <1>1, <1>2

THEOREM DriftStep == Inv /\ DriftInv /\ [Next]_vars => DriftInv'
<1>. SUFFICES ASSUME Inv, DriftInv, [Next]_vars PROVE DriftInv'
  OBVIOUS
<1>1. ASSUME NEW c \in Calls, InsertRow(c) \/ RecordHash(c) \/ Tombstone(c) PROVE DriftInv'
  <2>1. TableInv' /\ \A n \in DOMAIN notes : notes'[n].path = notes[n].path
    BY <1>1, InsertKeeps, RecordKeeps, TombstoneKeeps
  <2>2. /\ call[c].pc \in {"insert", "hash", "tombstone"} /\ call'[c].pc = "done" /\ mixed' = mixed /\ disk' = disk
        /\ \A d \in Calls \ {c} : call'[d] = call[d]
    <3>1. TypeOK /\ Finish(c) /\ UNCHANGED <<mixed, disk>>
      BY <1>1 DEF Inv, NoteToolsInv, InsertRow, RecordHash, Tombstone
    <3>2. call'[c].pc = "done" /\ \A d \in Calls \ {c} : call'[d] = call[d]
      BY <3>1, GotoFacts DEF Finish, TypeOK
    <3>. QED  BY <1>1, <3>1, <3>2 DEF InsertRow, RecordHash, Tombstone, Resume
  <2>3. SharedIsMixed' /\ \A d \in Calls \ {c} : CallFile(d)'
    BY <2>1, <2>2, OthersKeep DEF DriftInv, Running
  <2>4. CallFile(c)'
    BY <2>2 DEF CallFile, Past
  <2>. QED  BY <2>1, <2>3, <2>4 DEF DriftInv, CallFiles
<1>2. ASSUME NEW c \in Calls, ToolStep(c) \/ Answer(c) PROVE DriftInv'
  <2>1. MoveRow(c) => DriftInv'
    BY MoveKeeps DEF DriftInv
  <2>. QED  BY <1>1, <1>2, <2>1, FileDrift DEF ToolStep, Answer
<1>3. CASE UNCHANGED vars
  <2>1. UNCHANGED <<disk, notes, signals, worker, call, mixed, passed>>
    BY <1>3 DEF vars
  <2>2. TableInv'
    BY <2>1, TableKeeps DEF DriftInv
  <2>. QED  BY <2>1, <2>2, CallsKeep DEF DriftInv
<1>. QED
  BY <1>2, <1>3, BeginDrift, UserDrift, LookDrift, DecideDrift, CommitDrift, DeathDrift DEF Next, WorkerStep

(* A path out of step with its row, where no two actors met, is queued for ingest_note or being   *)
(* ingested: the last look of the worker is never spent too early; see mutation_tools.py,         *)
(* write_tools.py and vault/ingest.py.                                                            *)
THEOREM DriftIsFollowed == Spec => []DriftIsSignalled
<1>1. Init => Inv /\ DriftInv
  BY NoteToolsInit, DriftInit
<1>2. Inv /\ DriftInv /\ [Next]_vars => Inv' /\ DriftInv'
  BY NoteToolsStep, DriftStep
<1>3. DriftInv => DriftIsSignalled
  BY DEF DriftInv, TableInv
<1>. QED  BY <1>1, <1>2, <1>3, PTL DEF Spec
=============================================================================
