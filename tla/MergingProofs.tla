--------------------------- MODULE MergingProofs ---------------------------
(***************************************************************************)
(* For any notes, calls, texts and bounds: no text is lost, none is folded *)
(* in twice, no alike notes stay unproposed between scans; only a tombstone *)
(* is superseded, a candidate is merged only when one of its notes is a    *)
(* tombstone, and no step makes a resolved candidate pending again.        *)
(*                                                                         *)
(* CallData is the common ground: a merge about to write the status or the *)
(* resolution has tombstoned its note, and nothing revives a note.  On it  *)
(* stand three invariants, each inductive beside it: LossInv and OnceInv   *)
(* say what the files and the bodies in hand of the merges at work are to  *)
(* each other, ScanInv what a scan has still to propose.  A step is quiet  *)
(* for the first two (StepKinds), or one of six that touch a file, a body, *)
(* a tombstone or the set of merges at work.                               *)
(***************************************************************************)
EXTENDS Merging, TLAPS

RowSet == [hash : Text, deleted : BOOLEAN, old : BOOLEAN,
           status : {"draft", "active", "stale", "superseded"}]
CallSet == [pc : {"new", "gate", "keep", "absorb", "write", "hash", "index", "tombstone",
                  "supersede", "resolve", "done", "dead"},
            keep : Notes \cup {NoNote}, absorb : Notes \cup {NoNote}, body : Text \cup {NoFile}]
ScanSet == [pc : {"idle", "sign", "upsert"}, from : SUBSET Notes, active : SUBSET Notes,
            todo : SUBSET Notes, found : SUBSET Pairs]
SweepSet == [pc : {"idle", "pending", "flag"}, todo : SUBSET Notes]

(* Texts. *)
LEMMA TextFacts ==
  /\ \A n \in Notes : [x \in Pieces |-> IF x \in Opening[n] THEN 1 ELSE 0] \in Text
  /\ \A s, t \in Text : [x \in Pieces |-> s[x] + t[x]] \in Text
  /\ \A t \in Text, e \in Pieces : [t EXCEPT ![e] = 1] \in Text
  /\ NoFile \notin Text
BY MergingAssumption DEF Text

(* What is at stake is made of pieces. *)
LEMMA StakePieces ==
  /\ \A text : In(text) \subseteq Pieces
  /\ \A ns : AtStake(ns) \subseteq Pieces /\ Overlap(ns) \subseteq Pieces
<1>1. \A text : In(text) \subseteq Pieces
  BY DEF In
<1>2. \A ns : AtStake(ns) \subseteq Pieces
  BY <1>1 DEF AtStake
<1>. QED  BY <1>1, <1>2 DEF Overlap

LEMMA InitType == Init => TypeOK
<1>. SUFFICES ASSUME Init PROVE TypeOK
  OBVIOUS
<1>1. files \in [Notes -> Text]
  BY TextFacts DEF Init
<1>2. rows \in [Notes -> RowSet]
  BY <1>1 DEF Init, RowSet
<1>3. candidates \in [Pairs -> Statuses]
  BY DEF Init, Statuses
<1>4. NewCall \in CallSet /\ Resting \in ScanSet /\ [pc |-> "idle", todo |-> {}] \in SweepSet
  BY DEF NewMerge, NewCall, Resting, CallSet, ScanSet, SweepSet
<1>5. signatures \in [Notes -> Text \cup {NoFile}]
  BY <1>1 DEF Init
<1>6. merge \in [Calls -> CallSet] /\ scan \in ScanSet /\ sweep \in SweepSet
  BY <1>4 DEF Init
<1>. QED
  BY <1>1, <1>2, <1>3, <1>5, <1>6, MergingAssumption DEF Init, TypeOK, RowSet, CallSet, ScanSet, SweepSet

THEOREM MergingInit == Init => MergingInv
<1>. SUFFICES ASSUME Init PROVE MergingInv
  OBVIOUS
<1>1. CallData
  BY DEF Init, CallData, NewMerge, NewCall, Running
<1>2. SupersededIsDead
  BY DEF Init, SupersededIsDead
<1>3. MergedIsFolded
  BY DEF Init, MergedIsFolded
<1>. QED  BY InitType, <1>1, <1>2, <1>3 DEF MergingInv

(* Types, folded up. *)
LEMMA TypeFacts ==
  ASSUME TypeOK
  PROVE  /\ files \in [Notes -> Text \cup {NoFile}] /\ rows \in [Notes -> RowSet]
         /\ candidates \in [Pairs -> Statuses] /\ merge \in [Calls -> CallSet]
         /\ signatures \in [Notes -> Text \cup {NoFile}]
         /\ scan \in ScanSet /\ sweep \in SweepSet
BY DEF TypeOK, RowSet, CallSet, ScanSet, SweepSet

LEMMA TypeFolds ==
  ASSUME files' \in [Notes -> Text \cup {NoFile}], rows' \in [Notes -> RowSet],
         candidates' \in [Pairs -> Statuses], merge' \in [Calls -> CallSet],
         signatures' \in [Notes -> Text \cup {NoFile}], scan' \in ScanSet, sweep' \in SweepSet,
         promoting' \subseteq Notes, scans' \in Nat, answers' \in Nat, others' \in Nat,
         made' \subseteq Edits, risked' \subseteq Pieces, doubled' \subseteq Pieces, unseen' \subseteq Notes
  PROVE  TypeOK'
BY DEF TypeOK, RowSet, CallSet, ScanSet, SweepSet

(* What the updates of one row do. *)
LEMMA RowUpdates ==
  ASSUME TypeOK, NEW n \in Notes, NEW t \in Text, NEW status \in {"draft", "active", "stale", "superseded"}
  PROVE  /\ SetStatus(n, status) =>
              /\ rows' \in [Notes -> RowSet]
              /\ \A m \in Notes : rows'[m].deleted = rows[m].deleted
              /\ \A m \in Notes : rows'[m].status = IF m = n THEN status ELSE rows[m].status
         /\ SetHash(n, t) =>
              /\ rows' \in [Notes -> RowSet]
              /\ \A m \in Notes : rows'[m].deleted = rows[m].deleted /\ rows'[m].status = rows[m].status
         /\ SoftDelete(n) =>
              /\ rows' \in [Notes -> RowSet] /\ rows'[n].deleted
              /\ \A m \in Notes : rows[m].deleted => rows'[m].deleted
              /\ \A m \in Notes : rows'[m].status = rows[m].status
<1>0. rows \in [Notes -> RowSet]
  BY TypeFacts
<1>1. ASSUME SetStatus(n, status)
      PROVE  /\ rows' \in [Notes -> RowSet]
             /\ \A m \in Notes : rows'[m].deleted = rows[m].deleted
             /\ \A m \in Notes : rows'[m].status = IF m = n THEN status ELSE rows[m].status
  BY <1>0, <1>1 DEF SetStatus, RowSet
<1>2. ASSUME SetHash(n, t)
      PROVE  /\ rows' \in [Notes -> RowSet]
             /\ \A m \in Notes : rows'[m].deleted = rows[m].deleted /\ rows'[m].status = rows[m].status
  BY <1>0, <1>2 DEF SetHash, RowSet
<1>3. ASSUME SoftDelete(n)
      PROVE  /\ rows' \in [Notes -> RowSet] /\ rows'[n].deleted
             /\ \A m \in Notes : rows[m].deleted => rows'[m].deleted
             /\ \A m \in Notes : rows'[m].status = rows[m].status
  BY <1>0, <1>3 DEF SoftDelete, RowSet
<1>. QED  BY <1>1, <1>2, <1>3

(* A merge at work has two notes. *)
LEMMA CallNotes ==
  ASSUME MergingInv, NEW c \in Calls
  PROVE  /\ merge[c] \in CallSet
         /\ Running(c) => merge[c].keep \in Notes /\ merge[c].absorb \in Notes /\ Of(c) \in Pairs
         /\ merge[c].pc \in {"write", "hash"} => merge[c].body \in Text
         /\ Of(c) \cap Notes \subseteq Notes
<1>1. TypeOK /\ CallData
  BY DEF MergingInv
<1>2. merge[c] \in CallSet
  BY <1>1, TypeFacts
<1>3. ASSUME Running(c) PROVE merge[c].keep \in Notes /\ merge[c].absorb \in Notes /\ Of(c) \in Pairs
  <2>1. {merge[c].keep, merge[c].absorb} \in Pairs
    BY <1>1, <1>3 DEF CallData
  <2>2. {merge[c].keep, merge[c].absorb} \subseteq Notes
    BY <2>1 DEF Pairs
  <2>. QED  BY <2>1, <2>2 DEF Of
<1>. QED  BY <1>1, <1>2, <1>3 DEF CallData, CallSet

(* Moving a call on, and ending it. *)
LEMMA CallMoves ==
  ASSUME TypeOK, NEW c \in Calls
  PROVE  /\ \A pc \in {"keep", "absorb", "hash", "tombstone", "supersede", "resolve"} : Goto(c, pc) =>
              /\ merge' \in [Calls -> CallSet]
              /\ merge'[c].pc = pc /\ merge'[c].keep = merge[c].keep /\ merge'[c].absorb = merge[c].absorb
              /\ merge'[c].body = merge[c].body
              /\ \A d \in Calls \ {c} : merge'[d] = merge[d]
         /\ \A pc \in {"done", "dead"} : Finish(c, pc) =>
              /\ merge' \in [Calls -> CallSet]
              /\ merge'[c].pc = pc
              /\ \A d \in Calls \ {c} : merge'[d] = merge[d]
<1>0. merge \in [Calls -> CallSet]
  BY TypeFacts
<1>1. ASSUME NEW pc \in {"keep", "absorb", "hash", "tombstone", "supersede", "resolve"}, Goto(c, pc)
      PROVE  /\ merge' \in [Calls -> CallSet]
             /\ merge'[c].pc = pc /\ merge'[c].keep = merge[c].keep /\ merge'[c].absorb = merge[c].absorb
             /\ merge'[c].body = merge[c].body
             /\ \A d \in Calls \ {c} : merge'[d] = merge[d]
  BY <1>0, <1>1 DEF Goto, CallSet
<1>2. ASSUME NEW pc \in {"done", "dead"}, Finish(c, pc)
      PROVE  /\ merge' \in [Calls -> CallSet]
             /\ merge'[c].pc = pc
             /\ \A d \in Calls \ {c} : merge'[d] = merge[d]
  BY <1>0, <1>2 DEF Finish, NewMerge, CallSet
<1>. QED  BY <1>1, <1>2

(* A step of one call keeps what is known of all, when no row is revived. *)
LEMMA CallsKeep ==
  ASSUME MergingInv, NEW c \in Calls, \A d \in Calls \ {c} : merge'[d] = merge[d],
         \A n \in Notes : rows[n].deleted => rows'[n].deleted,
         merge'[c].pc \notin {"new", "done", "dead"} => {merge'[c].keep, merge'[c].absorb} \in Pairs,
         merge'[c].pc \in {"write", "hash"} => merge'[c].body # NoFile,
         merge'[c].pc \in {"supersede", "resolve"} => rows'[merge'[c].absorb].deleted
  PROVE  CallData'
<1>. SUFFICES ASSUME NEW d \in Calls
              PROVE  /\ Running(d)' => {merge'[d].keep, merge'[d].absorb} \in Pairs
                     /\ merge'[d].pc \in {"write", "hash"} => merge'[d].body # NoFile
                     /\ merge'[d].pc \in {"supersede", "resolve"} => rows'[merge'[d].absorb].deleted
  BY DEF CallData
<1>1. CASE d = c
  BY <1>1 DEF Running
<1>2. CASE d # c
  <2>1. merge'[d] = merge[d]
    BY <1>2
  <2>2. merge[d].pc \in {"supersede", "resolve"} => rows[merge[d].absorb].deleted /\ merge[d].absorb \in Notes
    BY CallNotes DEF MergingInv, CallData, Running
  <2>. QED  BY <2>1, <2>2 DEF MergingInv, CallData, Running
<1>. QED  BY <1>1, <1>2

(* What a step that leaves the merges alone has to keep. *)
LEMMA RowsKeep ==
  ASSUME MergingInv, UNCHANGED merge,
         \A n \in Notes : rows[n].deleted => rows'[n].deleted,
         \A n \in Notes : rows'[n].status = "superseded" => rows[n].status = "superseded",
         \A p \in Pairs : candidates'[p] = "merged" => candidates[p] = "merged"
  PROVE  CallData' /\ SupersededIsDead' /\ MergedIsFolded'
<1>1. CallData'
  <2>1. \A c \in Calls : merge[c].pc \in {"supersede", "resolve"} => merge[c].absorb \in Notes
    BY CallNotes DEF Running
  <2>. QED  BY <2>1 DEF MergingInv, CallData, Running
<1>2. SupersededIsDead'
  BY DEF MergingInv, SupersededIsDead
<1>3. MergedIsFolded'
  <2>1. \A p \in Pairs : p \subseteq Notes
    BY DEF Pairs
  <2>. QED  BY <2>1 DEF MergingInv, MergedIsFolded
<1>. QED  BY <1>1, <1>2, <1>3

(* The scan and the user's answers. *)
LEMMA ScanKeeps ==
  ASSUME MergingInv, NEW from \in SUBSET Notes,
         \/ ListActive(from) \/ ScanStep \/ ScanDies
         \/ \E p \in Pairs, resolution \in {"confirmed", "rejected"} : Resolve(p, resolution)
  PROVE  MergingInv'
<1>0. /\ TypeOK /\ UNCHANGED <<files, rows, merge, sweep, promoting, made, risked, doubled>>
      /\ files \in [Notes -> Text \cup {NoFile}] /\ scan \in ScanSet /\ Resting \in ScanSet
      /\ candidates \in [Pairs -> Statuses] /\ signatures \in [Notes -> Text \cup {NoFile}]
  BY TypeFacts DEF MergingInv, ListActive, ScanStep, ScanDies, Sign, Match, UpsertAll, Resolve, SetResolution, Resting, ScanSet
<1>1. scan' \in ScanSet
  <2>1. ASSUME ListActive(from) PROVE scan' \in ScanSet
    <3>1. PICK found : found = {p \in PairsOf(from \cap Listed, Listed) : \A m, n \in p : rows[m].hash = rows[n].hash}
      OBVIOUS
    <3>2. found \subseteq Pairs /\ Listed \subseteq Notes
      BY <3>1 DEF PairsOf, Listed
    <3>3. scan' = [pc |-> "sign", from |-> from \cap Listed, active |-> Listed, todo |-> from \cap Listed, found |-> found]
      BY <2>1, <3>1 DEF ListActive, Resting
    <3>. QED  BY <3>2, <3>3 DEF ScanSet
  <2>2. ASSUME NEW n \in Notes, Sign(n) PROVE scan' \in ScanSet
    BY <1>0, <2>2 DEF Sign, ScanSet
  <2>3. ASSUME Match PROVE scan' \in ScanSet
    <3>1. Lexical \subseteq Pairs /\ PairsOf(scan.from, scan.active) \subseteq Pairs
      BY DEF Lexical, PairsOf
    <3>2. PICK semantic \in {{}, Similar \cap PairsOf(scan.from, scan.active)} :
            scan' = [scan EXCEPT !.pc = "upsert", !.found = @ \cup Lexical \cup semantic]
      BY <2>3 DEF Match
    <3>3. PICK found : found = scan.found \cup Lexical \cup semantic
      OBVIOUS
    <3>4. semantic \subseteq Pairs /\ scan.found \subseteq Pairs
      BY <1>0, <3>1 DEF ScanSet
    <3>5. found \subseteq Pairs
      BY <3>1, <3>3, <3>4
    <3>6. scan' = [scan EXCEPT !.pc = "upsert", !.found = found]
      BY <1>0, <3>2, <3>3 DEF ScanSet
    <3>. QED  BY <1>0, <3>5, <3>6 DEF ScanSet
  <2>. QED  BY <1>0, <2>1, <2>2, <2>3 DEF ScanStep, ScanDies, UpsertAll, Resolve, SetResolution
<1>2. candidates' \in [Pairs -> Statuses] /\ \A p \in Pairs : candidates'[p] = "merged" => candidates[p] = "merged"
  <2>1. CASE UNCHANGED candidates
    BY <1>0, <2>1
  <2>2. CASE UpsertAll
    BY <1>0, <2>2 DEF UpsertAll, Upserted, Statuses
  <2>3. ASSUME NEW p \in Pairs, NEW resolution \in {"confirmed", "rejected"}, Resolve(p, resolution)
        PROVE  candidates' \in [Pairs -> Statuses] /\ \A q \in Pairs : candidates'[q] = "merged" => candidates[q] = "merged"
    BY <1>0, <2>3 DEF Resolve, SetResolution, Statuses
  <2>. QED  BY <2>1, <2>2, <2>3 DEF ListActive, ScanStep, ScanDies, Sign, Match
<1>3. signatures' \in [Notes -> Text \cup {NoFile}]
  BY <1>0 DEF ListActive, ScanStep, ScanDies, Sign, Match, UpsertAll, Resolve, SetResolution
<1>4. scans' \in Nat /\ answers' \in Nat /\ others' \in Nat /\ unseen' \subseteq Notes
  BY <1>0 DEF ListActive, ScanStep, ScanDies, Sign, Match, UpsertAll, Resolve, SetResolution, Spend, TypeOK
<1>5. TypeOK'
  BY <1>0, <1>1, <1>2, <1>3, <1>4 DEF TypeOK, ScanSet
<1>. QED  BY <1>0, <1>2, <1>5, RowsKeep DEF MergingInv

(* The merge. *)
LEMMA MergeKeeps ==
  ASSUME MergingInv, NEW c \in Calls, MergeStep(c)
  PROVE  MergingInv'
<1>. DEFINE k == merge[c].keep
<1>. DEFINE a == merge[c].absorb
<1>0. /\ TypeOK /\ CallData /\ SupersededIsDead /\ MergedIsFolded /\ Running(c)
      /\ files \in [Notes -> Text \cup {NoFile}] /\ merge \in [Calls -> CallSet]
      /\ candidates \in [Pairs -> Statuses] /\ rows \in [Notes -> RowSet]
      /\ scan \in ScanSet /\ sweep \in SweepSet /\ \A p \in Pairs : p \subseteq Notes
  BY TypeFacts DEF MergingInv, Running, MergeStep, Gate, CheckKeep, ReadBodies, WriteMerged, RecordHash,
     Reindex, Tombstone, Supersede, MarkMerged, SetResolution, Resume, Pairs
<1>1. merge[c] \in CallSet /\ k \in Notes /\ a \in Notes /\ Of(c) = {k, a} /\ Of(c) \in Pairs
  BY <1>0, CallNotes DEF Of
<1>2. UNCHANGED <<signatures, scan, sweep, promoting, scans, answers, others, made, risked, doubled, unseen>>
  BY DEF MergeStep, Gate, CheckKeep, ReadBodies, WriteMerged, RecordHash, Reindex, Tombstone, Supersede, MarkMerged, SetResolution
<1>3. ASSUME merge' \in [Calls -> CallSet], files' \in [Notes -> Text \cup {NoFile}], rows' \in [Notes -> RowSet],
             candidates' \in [Pairs -> Statuses]
      PROVE  TypeOK'
  BY <1>0, <1>2, <1>3 DEF TypeOK, RowSet, CallSet
<1>4. ASSUME merge' \in [Calls -> CallSet], files' \in [Notes -> Text \cup {NoFile}],
             \A d \in Calls \ {c} : merge'[d] = merge[d], UNCHANGED <<rows, candidates>>,
             merge'[c].pc \in {"keep", "absorb", "write", "hash"} => merge'[c].keep = k /\ merge'[c].absorb = a,
             merge'[c].pc \in {"keep", "absorb", "write", "hash", "done"},
             merge'[c].pc \in {"write", "hash"} => merge'[c].body # NoFile
      PROVE  MergingInv'
  <2>1. TypeOK'
    BY <1>0, <1>3, <1>4 DEF TypeOK
  <2>2. CallData'
    BY <1>1, <1>4, CallsKeep
  <2>. QED  BY <1>0, <1>4, <2>1, <2>2 DEF MergingInv, SupersededIsDead, MergedIsFolded
<1>5. CASE Gate(c) \/ CheckKeep(c)
  <2>1. \/ Goto(c, "keep") \/ Goto(c, "absorb") \/ Finish(c, "done")
    BY <1>5 DEF Gate, CheckKeep
  <2>. QED  BY <1>0, <1>4, <1>5, <2>1, CallMoves DEF Gate, CheckKeep
<1>6. CASE ReadBodies(c)
  <2>1. CASE Finish(c, "done")
    BY <1>0, <1>4, <1>6, <2>1, CallMoves DEF ReadBodies
  <2>2. ASSUME Readable(k, a), merge' = [merge EXCEPT ![c].pc = "write", ![c].body = [x \in Pieces |-> files[k][x] + files[a][x]]]
        PROVE  MergingInv'
    <3>1. PICK body : body = [x \in Pieces |-> files[k][x] + files[a][x]]
      OBVIOUS
    <3>2. body \in Text
      BY <1>0, <1>1, <2>2, <3>1, TextFacts DEF Readable
    <3>3. /\ merge' \in [Calls -> CallSet] /\ merge'[c].pc = "write" /\ merge'[c].body = body
          /\ merge'[c].keep = k /\ merge'[c].absorb = a
          /\ \A d \in Calls \ {c} : merge'[d] = merge[d]
      <4>1. merge' = [merge EXCEPT ![c] = [merge[c] EXCEPT !.pc = "write", !.body = body]]
        BY <1>0, <2>2, <3>1
      <4>2. [merge[c] EXCEPT !.pc = "write", !.body = body] \in CallSet
        BY <1>1, <3>2 DEF CallSet
      <4>. QED  BY <1>0, <1>1, <4>1, <4>2 DEF CallSet
    <3>4. UNCHANGED <<files, rows, candidates>> /\ body # NoFile
      BY <1>6, <3>2, TextFacts DEF ReadBodies
    <3>. QED  BY <1>0, <1>4, <3>3, <3>4
  <2>. QED  BY <1>6, <2>1, <2>2 DEF ReadBodies
<1>7. CASE WriteMerged(c)
  <2>1. merge[c].body \in Text /\ merge[c].body # NoFile
    BY <1>7, CallNotes, TextFacts DEF WriteMerged, Resume
  <2>2. files' \in [Notes -> Text \cup {NoFile}]
    BY <1>0, <1>1, <1>7, <2>1 DEF WriteMerged
  <2>. QED  BY <1>0, <1>4, <1>7, <2>1, <2>2, CallMoves DEF WriteMerged
<1>8. ASSUME merge' \in [Calls -> CallSet], rows' \in [Notes -> RowSet],
             \A d \in Calls \ {c} : merge'[d] = merge[d], UNCHANGED <<files, candidates>>,
             merge'[c].keep = k /\ merge'[c].absorb = a /\ merge'[c].pc \notin {"write", "hash"},
             \A n \in Notes : rows[n].deleted => rows'[n].deleted,
             \A n \in Notes : rows'[n].status = "superseded" => rows[n].status = "superseded" \/ rows'[n].deleted,
             merge'[c].pc \in {"supersede", "resolve"} => rows'[a].deleted
      PROVE  MergingInv'
  <2>1. TypeOK'
    BY <1>0, <1>3, <1>8
  <2>2. CallData'
    BY <1>1, <1>8, CallsKeep
  <2>3. SupersededIsDead' /\ MergedIsFolded'
    BY <1>0, <1>8 DEF SupersededIsDead, MergedIsFolded
  <2>. QED  BY <2>1, <2>2, <2>3 DEF MergingInv
<1>9. CASE RecordHash(c)
  <2>1. merge[c].body \in Text
    BY <1>9, CallNotes DEF RecordHash, Resume
  <2>2. /\ merge' \in [Calls -> CallSet] /\ merge'[c].pc = "index" /\ merge'[c].keep = k /\ merge'[c].absorb = a
        /\ \A d \in Calls \ {c} : merge'[d] = merge[d]
    <3>1. merge' = [merge EXCEPT ![c] = [merge[c] EXCEPT !.pc = "index", !.body = NoFile]]
      BY <1>0, <1>9 DEF RecordHash
    <3>2. [merge[c] EXCEPT !.pc = "index", !.body = NoFile] \in CallSet
      BY <1>1 DEF CallSet
    <3>. QED  BY <1>0, <1>1, <3>1, <3>2 DEF CallSet
  <2>3. \E status \in {"draft", "active", "stale", "superseded"} : TRUE
    OBVIOUS
  <2>4. /\ rows' \in [Notes -> RowSet]
        /\ \A m \in Notes : rows'[m].deleted = rows[m].deleted /\ rows'[m].status = rows[m].status
    BY <1>0, <1>1, <1>9, <2>1, RowUpdates DEF RecordHash
  <2>5. UNCHANGED <<files, candidates>>
    BY <1>9 DEF RecordHash
  <2>. QED  BY <1>0, <1>8, <2>2, <2>4, <2>5 DEF TypeOK
<1>10. CASE Reindex(c)
  <2>1. \E t \in Text : TRUE
    BY <1>1, TextFacts
  <2>2. /\ rows' \in [Notes -> RowSet]
        /\ \A m \in Notes : rows'[m].deleted = rows[m].deleted
        /\ \A m \in Notes : rows'[m].status = "superseded" => rows[m].status = "superseded"
    <3>1. CASE UNCHANGED rows
      BY <1>0, <3>1
    <3>2. CASE SetStatus(k, "active")
      BY <1>0, <1>1, <2>1, <3>2, RowUpdates
    <3>. QED  BY <1>10, <3>1, <3>2 DEF Reindex
  <2>3. UNCHANGED <<files, candidates>> /\ Goto(c, "tombstone")
    BY <1>10 DEF Reindex
  <2>. QED  BY <1>0, <1>8, <2>2, <2>3, CallMoves DEF TypeOK
<1>11. CASE Tombstone(c)
  <2>1. \E t \in Text : TRUE
    BY <1>1, TextFacts
  <2>2. /\ rows' \in [Notes -> RowSet] /\ rows'[a].deleted
        /\ \A m \in Notes : rows[m].deleted => rows'[m].deleted
        /\ \A m \in Notes : rows'[m].status = rows[m].status
    BY <1>0, <1>1, <1>11, <2>1, RowUpdates DEF Tombstone
  <2>3. UNCHANGED <<files, candidates>> /\ Goto(c, "supersede")
    BY <1>11 DEF Tombstone
  <2>. QED  BY <1>0, <1>8, <2>2, <2>3, CallMoves
<1>12. CASE Supersede(c)
  <2>1. \E t \in Text : TRUE
    BY <1>1, TextFacts
  <2>2. rows[a].deleted
    BY <1>0, <1>12 DEF Supersede, Resume, CallData
  <2>3. /\ rows' \in [Notes -> RowSet]
        /\ \A m \in Notes : rows'[m].deleted = rows[m].deleted
        /\ \A m \in Notes : rows'[m].status = IF m = a THEN "superseded" ELSE rows[m].status
    BY <1>0, <1>1, <1>12, <2>1, RowUpdates DEF Supersede
  <2>4. UNCHANGED <<files, candidates>> /\ Goto(c, "resolve")
    BY <1>12 DEF Supersede
  <2>. QED  BY <1>0, <1>1, <1>8, <2>2, <2>3, <2>4, CallMoves DEF TypeOK
<1>13. CASE MarkMerged(c)
  <2>1. rows[a].deleted
    BY <1>0, <1>13 DEF MarkMerged, SetResolution, Resume, CallData
  <2>2. /\ merge' \in [Calls -> CallSet] /\ merge'[c].pc = "done"
        /\ \A d \in Calls \ {c} : merge'[d] = merge[d]
    BY <1>0, <1>13, CallMoves DEF MarkMerged, SetResolution
  <2>3. /\ candidates' = [candidates EXCEPT ![{k, a}] = "merged"] /\ UNCHANGED <<files, rows>>
    BY <1>1, <1>13 DEF MarkMerged, SetResolution
  <2>4. candidates' \in [Pairs -> Statuses]
    BY <1>0, <2>3 DEF Statuses
  <2>5. TypeOK'
    BY <1>0, <1>3, <2>2, <2>3, <2>4 DEF TypeOK
  <2>6. CallData'
    BY <2>2, <2>3, CallsKeep
  <2>7. SupersededIsDead'
    BY <1>0, <2>3 DEF SupersededIsDead
  <2>8. MergedIsFolded'
    BY <1>0, <1>1, <2>1, <2>3 DEF MergedIsFolded
  <2>. QED  BY <2>5, <2>6, <2>7, <2>8 DEF MergingInv
<1>. QED
  BY <1>5, <1>6, <1>7, <1>9, <1>10, <1>11, <1>12, <1>13 DEF MergeStep

(* A merge begins or is cut short. *)
LEMMA CallKeeps ==
  ASSUME MergingInv, NEW c \in Calls,
         Cut(c) \/ \E k, a \in Notes : BeginMerge(c, k, a)
  PROVE  MergingInv'
<1>0. /\ TypeOK /\ CallData /\ merge \in [Calls -> CallSet]
      /\ UNCHANGED <<files, rows, candidates, signatures, scan, sweep, promoting, scans, answers, made, unseen>>
  <2>1. Cut(c) => UNCHANGED <<files, rows, candidates, signatures, scan, sweep, promoting, scans, answers, made, unseen>>
    BY DEF Cut
  <2>2. ASSUME NEW k \in Notes, NEW a \in Notes, BeginMerge(c, k, a)
        PROVE  UNCHANGED <<files, rows, candidates, signatures, scan, sweep, promoting, scans, answers, made, unseen>>
    BY <2>2 DEF BeginMerge
  <2>. QED  BY <2>1, <2>2, TypeFacts DEF MergingInv
<1>2. CASE Cut(c)
  <2>1. merge' \in [Calls -> CallSet] /\ merge'[c].pc = "dead" /\ \A d \in Calls \ {c} : merge'[d] = merge[d]
    BY <1>0, <1>2, CallMoves DEF Cut
  <2>2. doubled' \subseteq Pieces /\ others' \in Nat /\ UNCHANGED risked
    BY <1>0, <1>2, StakePieces DEF Cut, Spend, TypeOK
  <2>3. TypeOK'
    BY <1>0, <2>1, <2>2 DEF TypeOK, CallSet
  <2>4. CallData'
    BY <1>0, <2>1, CallsKeep
  <2>. QED  BY <1>0, <2>3, <2>4 DEF MergingInv, SupersededIsDead, MergedIsFolded
<1>3. ASSUME NEW k \in Notes, NEW a \in Notes, BeginMerge(c, k, a) PROVE MergingInv'
  <2>1. /\ merge' \in [Calls -> CallSet] /\ merge'[c].pc \in {"gate", "keep"}
        /\ merge'[c].keep = k /\ merge'[c].absorb = a /\ {k, a} \in Pairs
        /\ \A d \in Calls \ {c} : merge'[d] = merge[d]
    <3>1. PICK pc : pc = IF c \in Server THEN "gate" ELSE "keep"
      OBVIOUS
    <3>2. PICK call : call = NewMerge(pc, k, a)
      OBVIOUS
    <3>3. merge' = [merge EXCEPT ![c] = call] /\ {k, a} \in Pairs
      BY <1>3, <3>1, <3>2 DEF BeginMerge
    <3>4. call \in CallSet /\ call.pc = pc /\ call.keep = k /\ call.absorb = a
      BY <3>1, <3>2 DEF NewMerge, NewCall, CallSet
    <3>. QED  BY <1>0, <3>1, <3>3, <3>4
  <2>2. risked' \subseteq Pieces /\ doubled' \subseteq Pieces
    <3>1. Overlap({k, a}) \subseteq Pieces
      BY StakePieces
    <3>. QED  BY <1>0, <1>3, <3>1 DEF BeginMerge, TypeOK
  <2>3. TypeOK'
    <3>1. UNCHANGED <<others, made, unseen>>
      BY <1>3 DEF BeginMerge
    <3>. QED  BY <1>0, <2>1, <2>2, <3>1 DEF TypeOK, CallSet
  <2>4. CallData'
    BY <1>0, <2>1, CallsKeep
  <2>. QED  BY <1>0, <2>3, <2>4 DEF MergingInv, SupersededIsDead, MergedIsFolded
<1>. QED  BY <1>2, <1>3

(* The sweep, promotions, edits, ingests and deletions. *)
LEMMA OthersKeep ==
  ASSUME MergingInv,
         StatusStep \/ \E n \in Notes : Delete(n) \/ Ingest(n) \/ \E e \in Edits : Edit(n, e)
  PROVE  MergingInv'
<1>0. /\ TypeOK /\ SupersededIsDead /\ UNCHANGED <<candidates, signatures, merge, scan, scans, answers, doubled, unseen>>
      /\ files \in [Notes -> Text \cup {NoFile}] /\ rows \in [Notes -> RowSet] /\ sweep \in SweepSet
  <2>. QED
    BY TypeFacts DEF MergingInv, StatusStep, SweepList, SweepSpare, Flag, SweepEnds, ReadDraft, Promote,
       Delete, Ingest, Edit
<1>1. \A n \in Notes : \E t \in Text : TRUE
  BY TextFacts
<1>2. ASSUME files' \in [Notes -> Text \cup {NoFile}], rows' \in [Notes -> RowSet],
             \A n \in Notes : rows[n].deleted => rows'[n].deleted,
             \A n \in Notes : rows'[n].status = "superseded" => rows[n].status = "superseded",
             sweep' \in SweepSet, promoting' \subseteq Notes, others' \in Nat, made' \subseteq Edits, risked' \subseteq Pieces
      PROVE  MergingInv'
  <2>1. TypeOK'
    BY <1>0, <1>2 DEF TypeOK, RowSet, SweepSet
  <2>. QED  BY <1>0, <1>2, <2>1, RowsKeep DEF MergingInv
<1>3. CASE SweepList \/ SweepSpare \/ SweepEnds
  <2>1. sweep' \in SweepSet /\ others' \in Nat
    BY <1>0, <1>3 DEF SweepList, SweepSpare, SweepEnds, Listed, SweepSet, Spend, TypeOK
  <2>. QED  BY <1>0, <1>2, <1>3, <2>1 DEF SweepList, SweepSpare, SweepEnds, TypeOK
<1>4. ASSUME NEW n \in Notes, Flag(n) PROVE MergingInv'
  <2>1. sweep' \in SweepSet
    BY <1>0, <1>4 DEF Flag, SweepSet
  <2>2. /\ rows' \in [Notes -> RowSet]
        /\ \A m \in Notes : rows'[m].deleted = rows[m].deleted
        /\ \A m \in Notes : rows'[m].status = IF m = n THEN "stale" ELSE rows[m].status
    BY <1>0, <1>1, <1>4, RowUpdates DEF Flag
  <2>. QED  BY <1>0, <1>2, <1>4, <2>1, <2>2 DEF Flag, TypeOK
<1>5. ASSUME NEW n \in Notes, ReadDraft(n) PROVE MergingInv'
  BY <1>0, <1>2, <1>5 DEF ReadDraft, Spend, TypeOK
<1>6. ASSUME NEW n \in Notes, Promote(n) PROVE MergingInv'
  <2>1. /\ rows' \in [Notes -> RowSet]
        /\ \A m \in Notes : rows'[m].deleted = rows[m].deleted
        /\ \A m \in Notes : rows'[m].status = IF m = n THEN "active" ELSE rows[m].status
    BY <1>0, <1>1, <1>6, RowUpdates DEF Promote
  <2>. QED  BY <1>0, <1>2, <1>6, <2>1 DEF Promote, TypeOK
<1>7. ASSUME NEW n \in Notes, NEW e \in Edits, Edit(n, e) PROVE MergingInv'
  <2>1. files' \in [Notes -> Text \cup {NoFile}]
    <3>1. files[n] \in Text /\ e \in Pieces
      BY <1>0, <1>7, MergingAssumption DEF Edit
    <3>2. files' = [files EXCEPT ![n] = [files[n] EXCEPT ![e] = 1]]
      BY <1>0, <1>7 DEF Edit
    <3>. QED  BY <1>0, <3>1, <3>2, TextFacts
  <2>2. made' \subseteq Edits /\ risked' \subseteq Pieces /\ others' \in Nat
    BY <1>0, <1>7, MergingAssumption DEF Edit, Spend, TypeOK
  <2>. QED  BY <1>0, <1>2, <1>7, <2>1, <2>2 DEF Edit, TypeOK
<1>8. ASSUME NEW n \in Notes, Ingest(n) PROVE MergingInv'
  <2>1. files[n] \in Text
    BY <1>0, <1>8 DEF Ingest
  <2>2. /\ rows' \in [Notes -> RowSet]
        /\ \A m \in Notes : rows'[m].deleted = rows[m].deleted /\ rows'[m].status = rows[m].status
    BY <1>0, <1>8, <2>1, RowUpdates DEF Ingest
  <2>. QED  BY <1>0, <1>2, <1>8, <2>2 DEF Ingest, TypeOK
<1>9. ASSUME NEW n \in Notes, Delete(n) PROVE MergingInv'
  <2>1. /\ rows' \in [Notes -> RowSet]
        /\ \A m \in Notes : rows[m].deleted => rows'[m].deleted
        /\ \A m \in Notes : rows'[m].status = rows[m].status
    BY <1>0, <1>1, <1>9, RowUpdates DEF Delete
  <2>2. files' \in [Notes -> Text \cup {NoFile}] /\ risked' \subseteq Pieces /\ others' \in Nat
    <3>1. /\ files' = [files EXCEPT ![n] = NoFile]
          /\ risked' = risked \cup AtStake({n}) /\ Spend
      BY <1>9 DEF Delete
    <3>. QED  BY <1>0, <3>1, StakePieces DEF Spend, TypeOK
  <2>. QED  BY <1>0, <1>2, <1>9, <2>1, <2>2 DEF Delete, TypeOK
<1>. QED
  BY <1>3, <1>4, <1>5, <1>6, <1>7, <1>8, <1>9 DEF StatusStep

THEOREM MergingStep == MergingInv /\ [Next]_vars => MergingInv'
<1>. SUFFICES ASSUME MergingInv, [Next]_vars PROVE MergingInv'
  OBVIOUS
<1>1. CASE UNCHANGED vars
  BY <1>1 DEF vars, MergingInv, TypeOK, CallData, SupersededIsDead, MergedIsFolded, Running
<1>2. CASE Next
  <2>1. \A n \in Asked : {n} \subseteq Notes
    BY MergingAssumption
  <2>2. Handled \subseteq Notes
    BY MergingAssumption
  <2>3. ListActive(Notes) \/ (\E n \in Asked : ListActive({n})) \/ ScanStep \/ ScanDies => MergingInv'
    BY <2>1, ScanKeeps
  <2>4. (\E p \in Pairs, resolution \in {"confirmed", "rejected"} : Resolve(p, resolution)) => MergingInv'
    BY ScanKeeps
  <2>5. (\E c \in Calls : (\E k, a \in Notes : BeginMerge(c, k, a)) \/ MergeStep(c) \/ Cut(c)) => MergingInv'
    BY MergeKeeps, CallKeeps
  <2>6. StatusStep \/ (\E n \in Handled : (\E e \in Edits : Edit(n, e)) \/ Delete(n)) \/ (\E n \in Notes : Ingest(n))
          => MergingInv'
    BY <2>2, OthersKeep
  <2>. QED  BY <1>2, <2>3, <2>4, <2>5, <2>6 DEF Next
<1>. QED  BY <1>1, <1>2

(* Only a tombstone is superseded, and only a candidate with a tombstone is merged, however       *)
(* merges, sweeps, promotions, scans and crashes come between each other's commits (merge.py).    *)
THEOREM MergingInvariant == Spec => []MergingInv
<1>. QED  BY MergingInit, MergingStep, PTL DEF Spec

(* No scan, and nothing else, makes a candidate pending that was not new: see upsert_candidate.   *)
THEOREM ResolvedIsKept == Spec => NeverReopened
<1>. DEFINE Kept == \A p \in Pairs : candidates[p] # "none" /\ candidates'[p] = "pending" => candidates[p] = "pending"
<1>1. TypeOK /\ [Next]_vars => [Kept]_vars
  <2>. SUFFICES ASSUME TypeOK, [Next]_vars, ~UNCHANGED vars, NEW p \in Pairs,
                       candidates[p] # "none", candidates'[p] = "pending"
                PROVE  candidates[p] = "pending"
    OBVIOUS
  <2>0. candidates \in [Pairs -> Statuses]
    BY TypeFacts
  <2>1. CASE UNCHANGED candidates
    BY <2>1
  <2>2. CASE UpsertAll
    BY <2>0, <2>2 DEF UpsertAll, Upserted
  <2>3. ASSUME NEW q \in Pairs, NEW resolution \in {"confirmed", "rejected"}, Resolve(q, resolution)
        PROVE  candidates[p] = "pending"
    BY <2>0, <2>3 DEF Resolve, SetResolution
  <2>4. ASSUME NEW c \in Calls, MarkMerged(c) PROVE candidates[p] = "pending"
    BY <2>0, <2>4 DEF MarkMerged, SetResolution
  <2>5. ASSUME NEW c \in Calls, MergeStep(c) \/ Cut(c) PROVE candidates[p] = "pending"
    BY <2>1, <2>4, <2>5 DEF MergeStep, Gate, CheckKeep, ReadBodies, WriteMerged, RecordHash, Reindex, Tombstone,
       Supersede, Cut
  <2>6. ASSUME NEW c \in Calls, NEW k \in Notes, NEW a \in Notes, BeginMerge(c, k, a) PROVE candidates[p] = "pending"
    BY <2>1, <2>6 DEF BeginMerge
  <2>7. StatusStep => UNCHANGED candidates
    BY DEF StatusStep, SweepList, SweepSpare, Flag, SweepEnds, ReadDraft, Promote
  <2>8. (\E n \in Notes : Ingest(n)) \/ (\E n \in Handled : (\E e \in Edits : Edit(n, e)) \/ Delete(n))
          => UNCHANGED candidates
    BY DEF Ingest, Edit, Delete
  <2>9. ScanDies \/ ListActive(Notes) \/ (\E n \in Asked : ListActive({n})) => UNCHANGED candidates
    <3>1. ScanDies => UNCHANGED candidates
      BY DEF ScanDies
    <3>2. ASSUME NEW from, ListActive(from) PROVE UNCHANGED candidates
      BY <3>2 DEF ListActive
    <3>. QED  BY <3>1, <3>2
  <2>10. ScanStep => UNCHANGED candidates \/ UpsertAll
    BY DEF ScanStep, Sign, Match
  <2>. QED  BY <2>1, <2>2, <2>3, <2>5, <2>6, <2>7, <2>8, <2>9, <2>10 DEF Next
<1>2. MergingInv => TypeOK
  BY DEF MergingInv
<1>. QED  BY <1>1, <1>2, MergingInvariant, PTL DEF Spec, NeverReopened

-----------------------------------------------------------------------------
(* No text is lost, and none is folded in twice: what every merge at work must respect. *)

\* Two merges at work that share a note.
Overlaps(c, d) == c # d /\ Running(c) /\ Running(d) /\ Of(c) \cap Of(d) # {}

\* What a merge is about to write is what its notes hold; then the kept note has what the other
\* one has, and it lives.  A merge that is overlapped has nothing that is not at risk.
FoldsBoth == \A c \in Calls, x \in Pieces \ risked :
  merge[c].pc = "write" =>
    (x \in In(merge[c].body) <=> x \in In(files[merge[c].keep]) \cup In(files[merge[c].absorb]))
HasBoth == \A c \in Calls, x \in Pieces \ risked :
  HalfDone(c) /\ x \in In(files[merge[c].absorb]) => x \in In(files[merge[c].keep])
KeepLives == \A c \in Calls, x \in Pieces \ risked :
  /\ merge[c].pc \in {"absorb", "write"} \/ HalfDone(c)
  /\ x \in In(files[merge[c].keep]) \cup In(files[merge[c].absorb])
  => Active(merge[c].keep)
OverlapsRisk == \A c, d \in Calls :
  Overlaps(c, d) => \A m \in Of(c) : In(files[m]) \subseteq risked

LossInv == KeptAlive /\ FoldsBoth /\ HasBoth /\ KeepLives /\ OverlapsRisk

\* What the files, the tombstones and the bodies in hand need not notice.
QuietCall(c) ==
  \/ merge'[c] = merge[c]
  \/ merge'[c].pc \in {"done", "dead"} /\ (HalfDone(c) => In(files[merge[c].absorb]) \subseteq doubled')
  \/ /\ merge'[c].keep = merge[c].keep /\ merge'[c].absorb = merge[c].absorb
     /\ merge'[c].body \in {merge[c].body, NoFile}
     /\ \/ merge[c].pc = "gate" /\ merge'[c].pc = "keep"
        \/ merge[c].pc = "keep" /\ merge'[c].pc = "absorb" /\ Active(merge[c].keep)
        \/ merge[c].pc \in {"hash", "index"} /\ merge'[c].pc \in {"index", "tombstone"}
        \/ merge[c].pc = "supersede" /\ merge'[c].pc = "resolve"
QuietStep ==
  /\ UNCHANGED <<files, made, risked>> /\ doubled \subseteq doubled'
  /\ \A n \in Notes : rows'[n].deleted = rows[n].deleted
  /\ \A c \in Calls : QuietCall(c)
LoudStep ==
  \/ \E c \in Calls :
       \/ \E k, a \in Notes : BeginMerge(c, k, a)
       \/ ReadBodies(c) /\ Readable(merge[c].keep, merge[c].absorb)
       \/ WriteMerged(c) \/ Tombstone(c)
  \/ \E n \in Notes : Delete(n) \/ \E e \in Edits : Edit(n, e)

LEMMA StepKinds ==
  ASSUME MergingInv, [Next]_vars
  PROVE  QuietStep \/ LoudStep
<1>0. TypeOK /\ Handled \subseteq Notes
  BY MergingAssumption DEF MergingInv
<1>1. \A n \in Notes : \E t \in Text : TRUE
  BY TextFacts
<1>2. ASSUME UNCHANGED <<files, made, risked, doubled, rows, merge>> PROVE QuietStep
  BY <1>2 DEF QuietStep, QuietCall
<1>3. ASSUME UNCHANGED <<files, made, risked, doubled, merge>>, \A n \in Notes : rows'[n].deleted = rows[n].deleted
      PROVE  QuietStep
  BY <1>3 DEF QuietStep, QuietCall
<1>4. UNCHANGED vars => QuietStep
  BY <1>2 DEF vars
<1>5. ASSUME NEW from, ListActive(from) PROVE QuietStep
  BY <1>2, <1>5 DEF ListActive
<1>6. ScanStep \/ ScanDies => QuietStep
  BY <1>2 DEF ScanStep, ScanDies, Sign, Match, UpsertAll
<1>7. ASSUME NEW p \in Pairs, NEW resolution, Resolve(p, resolution) PROVE QuietStep
  BY <1>2, <1>7 DEF Resolve, SetResolution
<1>8. SweepList \/ SweepSpare \/ SweepEnds => QuietStep
  BY <1>2 DEF SweepList, SweepSpare, SweepEnds
<1>9. ASSUME NEW n \in Notes, Flag(n) \/ ReadDraft(n) \/ Promote(n) PROVE QuietStep
  <2>1. \/ UNCHANGED rows \/ SetStatus(n, "stale") \/ SetStatus(n, "active")
    BY <1>9 DEF Flag, ReadDraft, Promote
  <2>2. \A m \in Notes : rows'[m].deleted = rows[m].deleted
    BY <1>0, <1>1, <2>1, RowUpdates
  <2>. QED  BY <1>3, <1>9, <2>2 DEF Flag, ReadDraft, Promote
<1>10. ASSUME NEW n \in Notes, Ingest(n) PROVE QuietStep
  <2>1. files[n] \in Text
    BY <1>0, <1>10, TypeFacts DEF Ingest
  <2>2. \A m \in Notes : rows'[m].deleted = rows[m].deleted
    BY <1>0, <1>10, <2>1, RowUpdates DEF Ingest
  <2>. QED  BY <1>3, <1>10, <2>2 DEF Ingest
<1>11. ASSUME NEW c \in Calls, \A d \in Calls \ {c} : merge'[d] = merge[d], QuietCall(c),
              UNCHANGED <<files, made, risked>>, doubled \subseteq doubled',
              \A n \in Notes : rows'[n].deleted = rows[n].deleted
       PROVE  QuietStep
  BY <1>11 DEF QuietStep, QuietCall
<1>12. ASSUME NEW c \in Calls, Cut(c) PROVE QuietStep
  <2>1. merge'[c].pc = "dead" /\ \A d \in Calls \ {c} : merge'[d] = merge[d]
    BY <1>0, <1>12, CallMoves DEF Cut
  <2>2. QuietCall(c) /\ doubled \subseteq doubled'
    BY <1>12, <2>1 DEF Cut, QuietCall
  <2>. QED  BY <1>11, <1>12, <2>1, <2>2 DEF Cut
<1>13. ASSUME NEW c \in Calls, Gate(c) \/ CheckKeep(c) PROVE QuietStep
  <2>1. QuietCall(c) /\ \A d \in Calls \ {c} : merge'[d] = merge[d]
    BY <1>0, <1>13, CallMoves DEF Gate, CheckKeep, Resume, QuietCall, HalfDone
  <2>. QED  BY <1>11, <1>13, <2>1 DEF Gate, CheckKeep
<1>14. ASSUME NEW c \in Calls, ReadBodies(c) PROVE QuietStep \/ LoudStep
  <2>1. CASE Readable(merge[c].keep, merge[c].absorb)
    BY <1>14, <2>1 DEF LoudStep
  <2>2. CASE ~Readable(merge[c].keep, merge[c].absorb)
    <3>1. Finish(c, "done") /\ merge[c].pc = "absorb"
      BY <1>14, <2>2 DEF ReadBodies, Resume
    <3>2. QuietCall(c) /\ \A d \in Calls \ {c} : merge'[d] = merge[d]
      BY <1>0, <3>1, CallMoves DEF QuietCall, HalfDone
    <3>. QED  BY <1>11, <1>14, <3>2 DEF ReadBodies
  <2>. QED  BY <2>1, <2>2
<1>15. ASSUME NEW c \in Calls, RecordHash(c) PROVE QuietStep
  <2>1. merge[c].pc = "hash" /\ merge[c].body \in Text /\ merge[c].keep \in Notes /\ merge \in [Calls -> CallSet]
    BY <1>0, <1>15, CallNotes, TypeFacts DEF RecordHash, Resume, Running
  <2>2. /\ merge'[c].keep = merge[c].keep /\ merge'[c].absorb = merge[c].absorb
        /\ merge'[c].body = NoFile /\ merge'[c].pc = "index"
        /\ \A d \in Calls \ {c} : merge'[d] = merge[d]
    BY <1>15, <2>1 DEF RecordHash, CallSet
  <2>3. \A m \in Notes : rows'[m].deleted = rows[m].deleted
    BY <1>0, <1>15, <2>1, RowUpdates DEF RecordHash
  <2>4. QuietCall(c)
    BY <2>1, <2>2 DEF QuietCall
  <2>. QED  BY <1>11, <1>15, <2>2, <2>3, <2>4 DEF RecordHash
<1>16. ASSUME NEW c \in Calls, Reindex(c) PROVE QuietStep
  <2>1. merge[c].pc = "index" /\ merge[c].keep \in Notes /\ Goto(c, "tombstone")
    BY <1>16, CallNotes DEF Reindex, Resume, Running
  <2>2. \A m \in Notes : rows'[m].deleted = rows[m].deleted
    <3>1. UNCHANGED rows \/ SetStatus(merge[c].keep, "active")
      BY <1>16 DEF Reindex
    <3>. QED  BY <1>0, <1>1, <2>1, <3>1, RowUpdates
  <2>3. QuietCall(c) /\ \A d \in Calls \ {c} : merge'[d] = merge[d]
    BY <1>0, <2>1, CallMoves DEF QuietCall
  <2>. QED  BY <1>11, <1>16, <2>2, <2>3 DEF Reindex
<1>17. ASSUME NEW c \in Calls, Supersede(c) PROVE QuietStep
  <2>1. merge[c].pc = "supersede" /\ merge[c].absorb \in Notes /\ Goto(c, "resolve") /\ SetStatus(merge[c].absorb, "superseded")
    BY <1>17, CallNotes DEF Supersede, Resume, Running
  <2>2. \A m \in Notes : rows'[m].deleted = rows[m].deleted
    BY <1>0, <1>1, <2>1, RowUpdates
  <2>3. QuietCall(c) /\ \A d \in Calls \ {c} : merge'[d] = merge[d]
    BY <1>0, <2>1, CallMoves DEF QuietCall
  <2>. QED  BY <1>11, <1>17, <2>2, <2>3 DEF Supersede
<1>18. ASSUME NEW c \in Calls, MarkMerged(c) PROVE QuietStep
  <2>1. merge[c].pc = "resolve" /\ Finish(c, "done")
    BY <1>18 DEF MarkMerged, Resume
  <2>2. QuietCall(c) /\ \A d \in Calls \ {c} : merge'[d] = merge[d]
    BY <1>0, <2>1, CallMoves DEF QuietCall, HalfDone
  <2>. QED  BY <1>11, <1>18, <2>2 DEF MarkMerged
<1>19. ASSUME NEW c \in Calls, MergeStep(c) PROVE QuietStep \/ LoudStep
  BY <1>13, <1>14, <1>15, <1>16, <1>17, <1>18, <1>19 DEF MergeStep, LoudStep
<1>20. StatusStep => QuietStep
  BY <1>8, <1>9 DEF StatusStep
<1>21. (\E c \in Calls : (\E k, a \in Notes : BeginMerge(c, k, a)) \/ MergeStep(c) \/ Cut(c)) => QuietStep \/ LoudStep
  BY <1>12, <1>19 DEF LoudStep
<1>22. (\E n \in Handled : (\E e \in Edits : Edit(n, e)) \/ Delete(n)) => LoudStep
  BY <1>0 DEF LoudStep
<1>23. (ListActive(Notes) \/ \E n \in Asked : ListActive({n})) => QuietStep
  BY <1>5
<1>. QED  BY <1>4, <1>6, <1>7, <1>10, <1>20, <1>21, <1>22, <1>23 DEF Next

(* The loud steps, as what they do to files, tombstones and merges. *)
LEMMA BeginDoes ==
  ASSUME MergingInv, NEW c \in Calls, NEW k \in Notes, NEW a \in Notes, BeginMerge(c, k, a)
  PROVE  /\ UNCHANGED <<files, rows, made>> /\ k # a /\ merge[c].pc = "new"
         /\ merge'[c].pc \in {"gate", "keep"} /\ merge'[c].keep = k /\ merge'[c].absorb = a /\ merge'[c].body = NoFile
         /\ \A d \in Calls \ {c} : merge'[d] = merge[d]
         /\ risked' = risked \cup Overlap({k, a}) /\ doubled' = doubled \cup Overlap({k, a})
<1>1. merge \in [Calls -> CallSet]
  BY TypeFacts DEF MergingInv
<1>2. PICK pc \in {"gate", "keep"} : merge' = [merge EXCEPT ![c] = NewMerge(pc, k, a)]
  BY DEF BeginMerge
<1>3. {k, a} \in Pairs /\ merge[c].pc = "new" /\ k # a
  BY DEF BeginMerge, Resume, Pairs
<1>. QED  BY <1>1, <1>2, <1>3 DEF BeginMerge, NewMerge

LEMMA ReadDoes ==
  ASSUME MergingInv, NEW c \in Calls, ReadBodies(c), Readable(merge[c].keep, merge[c].absorb)
  PROVE  /\ UNCHANGED <<files, rows, made, risked, doubled>> /\ merge[c].pc = "absorb" /\ merge'[c].pc = "write"
         /\ merge'[c].keep = merge[c].keep /\ merge'[c].absorb = merge[c].absorb
         /\ files[merge[c].keep] \in Text /\ files[merge[c].absorb] \in Text /\ Active(merge[c].absorb)
         /\ merge'[c].body \in Text
         /\ \A x \in Pieces : merge'[c].body[x] = files[merge[c].keep][x] + files[merge[c].absorb][x]
         /\ \A d \in Calls \ {c} : merge'[d] = merge[d]
<1>1. merge \in [Calls -> CallSet] /\ files \in [Notes -> Text \cup {NoFile}] /\ merge[c].pc = "absorb"
  BY TypeFacts DEF MergingInv, ReadBodies, Resume
<1>2. merge[c].keep \in Notes /\ merge[c].absorb \in Notes
  BY <1>1, CallNotes DEF Running
<1>3. files[merge[c].keep] \in Text /\ files[merge[c].absorb] \in Text /\ Active(merge[c].absorb)
  BY <1>1, <1>2 DEF Readable
<1>4. PICK body : body = [x \in Pieces |-> files[merge[c].keep][x] + files[merge[c].absorb][x]]
  OBVIOUS
<1>5. body \in Text
  BY <1>3, <1>4, TextFacts
<1>6. merge' = [merge EXCEPT ![c] = [merge[c] EXCEPT !.pc = "write", !.body = body]]
  BY <1>1, <1>4 DEF ReadBodies
<1>7. merge[c] \in CallSet
  BY <1>1
<1>8. \A d \in Calls \ {c} : merge'[d] = merge[d]
  BY <1>1, <1>6
<1>9. merge'[c].pc = "write" /\ merge'[c].body = body /\ merge'[c].keep = merge[c].keep /\ merge'[c].absorb = merge[c].absorb
  BY <1>1, <1>6, <1>7 DEF CallSet
<1>10. UNCHANGED <<files, rows, made, risked, doubled>>
  BY DEF ReadBodies
<1>. QED  BY <1>1, <1>3, <1>4, <1>5, <1>8, <1>9, <1>10

LEMMA WriteDoes ==
  ASSUME MergingInv, NEW c \in Calls, WriteMerged(c)
  PROVE  /\ UNCHANGED <<rows, made, risked, doubled>> /\ merge[c].pc = "write" /\ merge'[c].pc = "hash"
         /\ merge'[c].keep = merge[c].keep /\ merge'[c].absorb = merge[c].absorb /\ merge'[c].body = merge[c].body
         /\ \A d \in Calls \ {c} : merge'[d] = merge[d]
         /\ merge[c].keep \in Notes /\ files'[merge[c].keep] = merge[c].body /\ merge[c].body \in Text
         /\ \A n \in Notes \ {merge[c].keep} : files'[n] = files[n]
<1>1. files \in [Notes -> Text \cup {NoFile}] /\ merge[c].pc = "write" /\ TypeOK
  BY TypeFacts DEF MergingInv, WriteMerged, Resume
<1>2. merge[c].keep \in Notes /\ merge[c].body \in Text
  BY <1>1, CallNotes DEF Running
<1>3. files' = [files EXCEPT ![merge[c].keep] = merge[c].body] /\ Goto(c, "hash")
  BY DEF WriteMerged
<1>4. UNCHANGED <<rows, made, risked, doubled>>
  BY DEF WriteMerged
<1>. QED  BY <1>1, <1>2, <1>3, <1>4, CallMoves

LEMMA TombstoneDoes ==
  ASSUME MergingInv, NEW c \in Calls, Tombstone(c)
  PROVE  /\ UNCHANGED <<files, made, risked, doubled>> /\ merge[c].pc = "tombstone" /\ merge'[c].pc = "supersede"
         /\ merge'[c].keep = merge[c].keep /\ merge'[c].absorb = merge[c].absorb /\ merge'[c].body = merge[c].body
         /\ \A d \in Calls \ {c} : merge'[d] = merge[d]
         /\ merge[c].absorb \in Notes /\ rows'[merge[c].absorb].deleted
         /\ \A n \in Notes \ {merge[c].absorb} : rows'[n].deleted = rows[n].deleted
<1>1. rows \in [Notes -> RowSet] /\ merge[c].pc = "tombstone" /\ TypeOK
  BY TypeFacts DEF MergingInv, Tombstone, Resume
<1>2. merge[c].absorb \in Notes
  BY <1>1, CallNotes DEF Running
<1>3. rows' = [rows EXCEPT ![merge[c].absorb].deleted = TRUE] /\ Goto(c, "supersede")
  BY DEF Tombstone, SoftDelete
<1>4. UNCHANGED <<files, made, risked, doubled>>
  BY DEF Tombstone
<1>. QED  BY <1>1, <1>2, <1>3, <1>4, CallMoves DEF RowSet

LEMMA EditDoes ==
  ASSUME MergingInv, NEW n \in Notes, NEW e \in Edits, Edit(n, e)
  PROVE  /\ UNCHANGED <<rows, merge, doubled>> /\ made' = made \cup {e}
         /\ files[n] # NoFile /\ files'[n] # NoFile /\ In(files'[n]) = In(files[n]) \cup {e}
         /\ \A x \in Pieces \ {e} : files'[n][x] = files[n][x]
         /\ \A m \in Notes \ {n} : files'[m] = files[m]
         /\ risked' = IF Active(n) /\ Busy({n}) = {} THEN risked ELSE risked \cup {e}
<1>1. files \in [Notes -> Text \cup {NoFile}] /\ e \in Pieces /\ files[n] # NoFile
  BY TypeFacts, MergingAssumption DEF MergingInv, Edit
<1>2. files[n] \in Text
  BY <1>1
<1>3. files' = [files EXCEPT ![n] = [files[n] EXCEPT ![e] = 1]]
  BY <1>1 DEF Edit
<1>4. files'[n] = [files[n] EXCEPT ![e] = 1] /\ \A m \in Notes \ {n} : files'[m] = files[m]
  BY <1>1, <1>3
<1>5. files'[n] \in Text /\ files'[n] # NoFile
  BY <1>1, <1>2, <1>4, TextFacts
<1>6. files'[n][e] = 1 /\ \A x \in Pieces \ {e} : files'[n][x] = files[n][x]
  BY <1>1, <1>2, <1>4 DEF Text
<1>7. In(files'[n]) = In(files[n]) \cup {e}
  BY <1>1, <1>5, <1>6 DEF In
<1>. QED  BY <1>1, <1>4, <1>5, <1>6, <1>7 DEF Edit

LEMMA DeleteDoes ==
  ASSUME MergingInv, NEW n \in Notes, Delete(n)
  PROVE  /\ UNCHANGED <<merge, made, doubled>>
         /\ In(files'[n]) = {} /\ files'[n] = NoFile /\ rows'[n].deleted
         /\ \A m \in Notes \ {n} : files'[m] = files[m] /\ rows'[m].deleted = rows[m].deleted
         /\ risked' = risked \cup AtStake({n})
<1>1. files \in [Notes -> Text \cup {NoFile}] /\ rows \in [Notes -> RowSet]
  BY TypeFacts DEF MergingInv
<1>2. files' = [files EXCEPT ![n] = NoFile] /\ rows' = [rows EXCEPT ![n].deleted = TRUE]
  BY DEF Delete, SoftDelete
<1>3. files'[n] = NoFile /\ rows'[n].deleted
  BY <1>1, <1>2 DEF RowSet
<1>4. \A m \in Notes \ {n} : files'[m] = files[m] /\ rows'[m].deleted = rows[m].deleted
  BY <1>1, <1>2
<1>. QED  BY <1>3, <1>4 DEF Delete, In

(* All that the notes of a busy merge hold, and what it has in hand, is at stake. *)
LEMMA Stakes ==
  ASSUME NEW ns
  PROVE  /\ \A n \in ns : In(files[n]) \subseteq AtStake(ns)
         /\ \A c \in Calls : Running(c) /\ Of(c) \cap ns # {} =>
              /\ c \in Busy(ns) /\ AtStake(ns) = Overlap(ns)
              /\ In(merge[c].body) \subseteq AtStake(ns)
              /\ \A m \in Of(c) : In(files[m]) \subseteq AtStake(ns)
<1>1. \A n \in ns : In(files[n]) \subseteq AtStake(ns)
  BY DEF AtStake
<1>2. ASSUME NEW c \in Calls, Running(c), Of(c) \cap ns # {}
      PROVE  /\ c \in Busy(ns) /\ AtStake(ns) = Overlap(ns)
             /\ In(merge[c].body) \subseteq AtStake(ns)
             /\ \A m \in Of(c) : In(files[m]) \subseteq AtStake(ns)
  <2>1. c \in Busy(ns)
    BY <1>2 DEF Busy
  <2>2. In(merge[c].body) \subseteq AtStake(ns) /\ \A m \in Of(c) : In(files[m]) \subseteq AtStake(ns)
    BY <2>1 DEF AtStake
  <2>3. AtStake(ns) = Overlap(ns)
    BY <2>1 DEF Overlap
  <2>. QED  BY <2>1, <2>2, <2>3
<1>. QED  BY <1>1, <1>2

LEMMA QuietDoes ==
  ASSUME MergingInv, QuietStep
  PROVE  /\ \A n \in Notes : files'[n] = files[n] /\ rows'[n].deleted = rows[n].deleted
         /\ \A c \in Calls :
              /\ Running(c)' => Running(c) /\ merge'[c].keep = merge[c].keep /\ merge'[c].absorb = merge[c].absorb
              /\ Running(c)' => merge'[c].body \in {merge[c].body, NoFile}
              /\ merge'[c].pc = "write" => merge[c].pc = "write" /\ merge'[c].body = merge[c].body
              /\ merge'[c].pc = "absorb" => merge[c].pc = "absorb" \/ Active(merge[c].keep)
              /\ HalfDone(c)' => HalfDone(c)
              /\ HalfDone(c) => HalfDone(c)' \/ In(files[merge[c].absorb]) \subseteq doubled'
BY DEF QuietStep, QuietCall, Running, HalfDone, Active

(* A merge that was at work is one of the notes that are, unless it has just begun. *)
LEMMA LossInit == Init => LossInv
<1>. SUFFICES ASSUME Init PROVE LossInv
  OBVIOUS
<1>1. \A c \in Calls : merge[c].pc = "new"
  BY DEF Init, NewCall, NewMerge
<1>2. \A n \in Notes : In(files[n]) = Opening[n] /\ Active(n)
  <2>1. \A n \in Notes : files[n] = [x \in Pieces |-> IF x \in Opening[n] THEN 1 ELSE 0]
    BY DEF Init
  <2>2. \A n \in Notes : files[n] \in Text /\ Opening[n] \subseteq Pieces
    BY <2>1, TextFacts, MergingAssumption
  <2>3. \A n \in Notes : In(files[n]) = Opening[n]
    <3>. SUFFICES ASSUME NEW n \in Notes PROVE In(files[n]) = Opening[n]
      OBVIOUS
    <3>1. files[n] # NoFile /\ Opening[n] \subseteq Pieces
      BY <2>2, TextFacts
    <3>2. ASSUME NEW x \in Pieces PROVE files[n][x] > 0 <=> x \in Opening[n]
      <4>1. files[n][x] = IF x \in Opening[n] THEN 1 ELSE 0
        BY <2>1
      <4>. QED  BY <4>1
    <3>. QED  BY <3>1, <3>2 DEF In
  <2>. QED  BY <2>3 DEF Active, Init
<1>3. KeptAlive
  BY <1>2 DEF Init, KeptAlive
<1>. QED  BY <1>1, <1>3 DEF LossInv, FoldsBoth, HasBoth, KeepLives, OverlapsRisk, Overlaps, Running, HalfDone

LEMMA QuietLoses ==
  ASSUME MergingInv, LossInv, QuietStep
  PROVE  LossInv'
<1>0. /\ UNCHANGED <<files, made, risked>>
      /\ \A c \in Calls : Running(c) => merge[c].keep \in Notes /\ merge[c].absorb \in Notes
  BY CallNotes DEF QuietStep
<1>1. KeptAlive'
  BY <1>0, QuietDoes DEF LossInv, KeptAlive, Active
<1>2. FoldsBoth'
  BY <1>0, QuietDoes DEF LossInv, FoldsBoth, Running
<1>3. HasBoth'
  BY <1>0, QuietDoes DEF LossInv, HasBoth, HalfDone, Running
<1>4. KeepLives'
  <2>. SUFFICES ASSUME NEW c \in Calls, NEW x \in Pieces \ risked',
                       merge'[c].pc \in {"absorb", "write"} \/ HalfDone(c)',
                       x \in In(files'[merge'[c].keep]) \cup In(files'[merge'[c].absorb])
                PROVE  ~rows'[merge'[c].keep].deleted
    BY DEF KeepLives, Active
  <2>1. Running(c)'
    BY DEF Running, HalfDone
  <2>2. Running(c) /\ merge'[c].keep = merge[c].keep /\ merge'[c].absorb = merge[c].absorb /\ merge[c].keep \in Notes
    BY <1>0, <2>1, QuietDoes
  <2>3. Active(merge[c].keep)
    BY <1>0, <2>2, QuietDoes DEF LossInv, KeepLives
  <2>. QED  BY <2>2, <2>3, QuietDoes DEF Active
<1>5. OverlapsRisk'
  BY <1>0, QuietDoes DEF LossInv, OverlapsRisk, Overlaps, Of
<1>. QED  BY <1>1, <1>2, <1>3, <1>4, <1>5 DEF LossInv

LEMMA BeginLoses ==
  ASSUME MergingInv, LossInv, NEW c \in Calls, NEW k \in Notes, NEW a \in Notes, BeginMerge(c, k, a)
  PROVE  LossInv'
<1>0. /\ UNCHANGED <<files, rows, made>> /\ risked \subseteq risked' /\ ~Running(c)
      /\ merge'[c].pc \in {"gate", "keep"} /\ \A d \in Calls \ {c} : merge'[d] = merge[d]
      /\ Of(c)' = {k, a}
  BY BeginDoes DEF Running, Of
<1>1. KeptAlive'
  BY <1>0 DEF LossInv, KeptAlive, Active
<1>2. FoldsBoth'
  BY <1>0 DEF LossInv, FoldsBoth
<1>3. HasBoth'
  BY <1>0 DEF LossInv, HasBoth, HalfDone
<1>4. KeepLives'
  BY <1>0 DEF LossInv, KeepLives, HalfDone, Active
<1>5. OverlapsRisk'
  <2>. SUFFICES ASSUME NEW d \in Calls, NEW f \in Calls, Overlaps(d, f)', NEW m \in Of(d)'
                PROVE  In(files[m]) \subseteq risked'
    BY <1>0 DEF OverlapsRisk
  <2>1. \A b \in Calls \ {c} : (Running(b)' <=> Running(b)) /\ Of(b)' = Of(b)
    BY <1>0 DEF Running, Of
  <2>2. CASE d # c /\ f # c
    BY <1>0, <2>1, <2>2 DEF LossInv, OverlapsRisk, Overlaps
  <2>3. CASE d = c
    <3>1. Running(f) /\ Of(f) \cap {k, a} # {}
      BY <1>0, <2>1, <2>3 DEF Overlaps
    <3>. QED  BY <1>0, <2>3, <3>1, Stakes, BeginDoes
  <2>4. CASE d # c /\ f = c
    <3>1. Running(d) /\ Of(d) \cap {k, a} # {} /\ m \in Of(d)
      BY <1>0, <2>1, <2>4 DEF Overlaps
    <3>2. In(files[m]) \subseteq AtStake({k, a}) /\ AtStake({k, a}) = Overlap({k, a})
      BY <3>1, Stakes
    <3>. QED  BY <3>2, BeginDoes
  <2>. QED  BY <2>2, <2>3, <2>4
<1>. QED  BY <1>1, <1>2, <1>3, <1>4, <1>5 DEF LossInv

(* A step that changes no file puts no more at risk and moves one merge by one step. *)
LEMMA MoveLoses ==
  ASSUME MergingInv, LossInv, NEW c \in Calls, UNCHANGED <<files, made, risked>>,
         merge'[c].keep = merge[c].keep, merge'[c].absorb = merge[c].absorb, Running(c),
         \A d \in Calls \ {c} : merge'[d] = merge[d]
  PROVE  /\ OverlapsRisk'
         /\ \A d \in Calls \ {c} : (Running(d)' <=> Running(d)) /\ (HalfDone(d)' <=> HalfDone(d)) /\ Of(d)' = Of(d)
<1>1. \A d \in Calls \ {c} : (Running(d)' <=> Running(d)) /\ (HalfDone(d)' <=> HalfDone(d)) /\ Of(d)' = Of(d)
  BY DEF Running, HalfDone, Of
<1>2. \A d \in Calls : Of(d)' = Of(d) /\ (Running(d)' => Running(d))
  BY <1>1 DEF Of
<1>3. OverlapsRisk'
  BY <1>2 DEF LossInv, OverlapsRisk, Overlaps
<1>. QED  BY <1>1, <1>3

LEMMA ReadLoses ==
  ASSUME MergingInv, LossInv, NEW c \in Calls, ReadBodies(c), Readable(merge[c].keep, merge[c].absorb)
  PROVE  LossInv'
<1>0. /\ UNCHANGED <<files, rows, made, risked>> /\ merge[c].pc = "absorb" /\ merge'[c].pc = "write"
      /\ merge'[c].keep = merge[c].keep /\ merge'[c].absorb = merge[c].absorb /\ Running(c)
      /\ \A d \in Calls \ {c} : merge'[d] = merge[d]
  BY ReadDoes DEF Running
<1>1. KeptAlive'
  BY <1>0 DEF LossInv, KeptAlive, Active
<1>2. FoldsBoth'
  <2>1. \A x \in Pieces : x \in In(merge'[c].body) <=> x \in In(files[merge[c].keep]) \cup In(files[merge[c].absorb])
    <3>1. /\ files[merge[c].keep] \in Text /\ files[merge[c].absorb] \in Text /\ merge'[c].body \in Text
          /\ \A x \in Pieces : merge'[c].body[x] = files[merge[c].keep][x] + files[merge[c].absorb][x]
      BY ReadDoes
    <3>2. \A t \in Text : t # NoFile /\ \A x \in Pieces : t[x] \in Nat
      BY TextFacts DEF Text
    <3>. QED  BY <3>1, <3>2 DEF In
  <2>. QED  BY <1>0, <2>1 DEF LossInv, FoldsBoth
<1>3. HasBoth'
  BY <1>0 DEF LossInv, HasBoth, HalfDone
<1>4. KeepLives'
  BY <1>0 DEF LossInv, KeepLives, HalfDone, Active
<1>. QED  BY <1>0, <1>1, <1>2, <1>3, <1>4, MoveLoses DEF LossInv

LEMMA TombstoneLoses ==
  ASSUME MergingInv, LossInv, NEW c \in Calls, Tombstone(c)
  PROVE  LossInv'
<1>. DEFINE a == merge[c].absorb
<1>0. /\ UNCHANGED <<files, made, risked>> /\ merge[c].pc = "tombstone" /\ merge'[c].pc = "supersede"
      /\ merge'[c].keep = merge[c].keep /\ merge'[c].absorb = a /\ Running(c) /\ HalfDone(c)
      /\ \A d \in Calls \ {c} : merge'[d] = merge[d]
      /\ a \in Notes /\ \A n \in Notes \ {a} : rows'[n].deleted = rows[n].deleted
  BY TombstoneDoes DEF Running, HalfDone
<1>1. merge[c].keep \in Notes /\ merge[c].keep # a
  BY <1>0, CallNotes DEF Of, Pairs
<1>2. \A d \in Calls \ {c} : (Running(d)' <=> Running(d)) /\ (HalfDone(d)' <=> HalfDone(d)) /\ Of(d)' = Of(d)
  BY <1>0, MoveLoses
<1>3. KeptAlive'
  <2>. SUFFICES ASSUME NEW x \in (made \cup UNION {Opening[n] : n \in Notes}) \ risked
                PROVE  \E n \in Notes : ~rows'[n].deleted /\ x \in In(files[n])
    BY <1>0 DEF KeptAlive, Active
  <2>1. PICK n \in Notes : Active(n) /\ x \in In(files[n])
    BY DEF LossInv, KeptAlive
  <2>2. CASE n = a
    <3>1. x \in In(files[merge[c].keep]) /\ Active(merge[c].keep)
      BY <1>0, <2>1, <2>2, StakePieces DEF LossInv, HasBoth, KeepLives
    <3>. QED  BY <1>0, <1>1, <3>1 DEF Active
  <2>. QED  BY <1>0, <2>1, <2>2 DEF Active
<1>4. FoldsBoth'
  BY <1>0 DEF LossInv, FoldsBoth
<1>5. HasBoth'
  BY <1>0, <1>2 DEF LossInv, HasBoth, HalfDone
<1>6. KeepLives'
  <2>. SUFFICES ASSUME NEW d \in Calls, NEW x \in Pieces \ risked,
                       merge'[d].pc \in {"absorb", "write"} \/ HalfDone(d)',
                       x \in In(files[merge'[d].keep]) \cup In(files[merge'[d].absorb])
                PROVE  ~rows'[merge'[d].keep].deleted
    BY <1>0 DEF KeepLives, Active
  <2>1. d # c /\ merge'[d] = merge[d] /\ (merge[d].pc \in {"absorb", "write"} \/ HalfDone(d))
    BY <1>0, <1>2 DEF HalfDone
  <2>2. Running(d) /\ Active(merge[d].keep) /\ merge[d].keep \in Notes
    <3>1. Running(d)
      BY <2>1 DEF Running, HalfDone
    <3>. QED  BY <2>1, <3>1, CallNotes DEF LossInv, KeepLives
  <2>3. merge[d].keep # a
    <3>1. SUFFICES ASSUME merge[d].keep = a PROVE FALSE
      OBVIOUS
    <3>2. Overlaps(d, c)
      BY <1>0, <2>1, <2>2, <3>1 DEF Overlaps, Of
    <3>3. \A m \in Of(d) : In(files[m]) \subseteq risked
      BY <3>2 DEF LossInv, OverlapsRisk
    <3>. QED  BY <2>1, <3>3 DEF Of
  <2>. QED  BY <1>0, <2>1, <2>2, <2>3 DEF Active
<1>. QED  BY <1>0, <1>3, <1>4, <1>5, <1>6, MoveLoses DEF LossInv

LEMMA WriteLoses ==
  ASSUME MergingInv, LossInv, NEW c \in Calls, WriteMerged(c)
  PROVE  LossInv'
<1>. DEFINE k == merge[c].keep
<1>. DEFINE a == merge[c].absorb
<1>0. /\ UNCHANGED <<rows, made, risked>> /\ merge[c].pc = "write" /\ merge'[c].pc = "hash"
      /\ merge'[c].keep = k /\ merge'[c].absorb = a /\ Running(c)
      /\ \A d \in Calls \ {c} : merge'[d] = merge[d]
      /\ k \in Notes /\ files'[k] = merge[c].body /\ \A n \in Notes \ {k} : files'[n] = files[n]
  BY WriteDoes DEF Running
<1>1. a \in Notes /\ k # a
  BY <1>0, CallNotes DEF Of, Pairs
<1>2. \A x \in Pieces \ risked : x \in In(files'[k]) <=> x \in In(files[k]) \cup In(files[a])
  BY <1>0 DEF LossInv, FoldsBoth
<1>3. \A d \in Calls : (Running(d)' <=> Running(d)) /\ Of(d)' = Of(d)
                         /\ (Running(d) => merge[d].keep \in Notes /\ merge[d].absorb \in Notes)
  BY <1>0, CallNotes DEF Running, Of
<1>4. ASSUME NEW d \in Calls \ {c}, Running(d), k \in Of(d)
      PROVE  /\ \A m \in Of(d) : In(files[m]) \subseteq risked /\ In(files'[m]) \subseteq risked
  <2>1. Overlaps(c, d) /\ Overlaps(d, c)
    BY <1>0, <1>4 DEF Overlaps, Of
  <2>2. /\ \A m \in Of(d) : In(files[m]) \subseteq risked
        /\ In(files[k]) \subseteq risked /\ In(files[a]) \subseteq risked
    BY <2>1 DEF LossInv, OverlapsRisk, Of
  <2>3. In(files'[k]) \subseteq risked
    BY <1>2, <2>2, StakePieces
  <2>4. Of(d) \subseteq Notes
    BY <1>3, <1>4 DEF Of
  <2>. QED  BY <1>0, <2>2, <2>3, <2>4
<1>5. ASSUME NEW d \in Calls \ {c}, Running(d), k \notin Of(d)
      PROVE  files'[merge[d].keep] = files[merge[d].keep] /\ files'[merge[d].absorb] = files[merge[d].absorb]
  BY <1>0, <1>3, <1>5 DEF Of
<1>6. KeptAlive'
  <2>. SUFFICES ASSUME NEW x \in (made \cup UNION {Opening[n] : n \in Notes}) \ risked
                PROVE  \E n \in Notes : ~rows[n].deleted /\ x \in In(files'[n])
    BY <1>0 DEF KeptAlive, Active
  <2>1. PICK n \in Notes : Active(n) /\ x \in In(files[n])
    BY DEF LossInv, KeptAlive
  <2>2. x \in In(files[k]) => x \in In(files'[k])
    BY <1>2, StakePieces
  <2>. QED  BY <1>0, <2>1, <2>2 DEF Active
<1>7. FoldsBoth'
  <2>. SUFFICES ASSUME NEW d \in Calls, NEW x \in Pieces \ risked, merge'[d].pc = "write"
                PROVE  x \in In(merge'[d].body) <=> x \in In(files'[merge'[d].keep]) \cup In(files'[merge'[d].absorb])
    BY <1>0 DEF FoldsBoth
  <2>1. d # c /\ merge'[d] = merge[d] /\ Running(d)
    BY <1>0 DEF Running
  <2>2. x \in In(merge[d].body) <=> x \in In(files[merge[d].keep]) \cup In(files[merge[d].absorb])
    BY <2>1 DEF LossInv, FoldsBoth
  <2>. QED  BY <1>4, <1>5, <2>1, <2>2 DEF Of
<1>8. HasBoth'
  <2>. SUFFICES ASSUME NEW d \in Calls, NEW x \in Pieces \ risked, HalfDone(d)', x \in In(files'[merge'[d].absorb])
                PROVE  x \in In(files'[merge'[d].keep])
    BY <1>0 DEF HasBoth
  <2>1. CASE d = c
    BY <1>0, <1>1, <1>2, <2>1
  <2>2. CASE d # c
    <3>1. merge'[d] = merge[d] /\ Running(d) /\ HalfDone(d)
      BY <1>0, <2>2 DEF Running, HalfDone
    <3>2. x \in In(files[merge[d].absorb]) => x \in In(files[merge[d].keep])
      BY <3>1 DEF LossInv, HasBoth
    <3>. QED  BY <1>4, <1>5, <2>2, <3>1, <3>2 DEF Of
  <2>. QED  BY <2>1, <2>2
<1>9. KeepLives'
  <2>. SUFFICES ASSUME NEW d \in Calls, NEW x \in Pieces \ risked,
                       merge'[d].pc \in {"absorb", "write"} \/ HalfDone(d)',
                       x \in In(files'[merge'[d].keep]) \cup In(files'[merge'[d].absorb])
                PROVE  Active(merge'[d].keep)
    BY <1>0 DEF KeepLives, Active
  <2>1. CASE d = c
    BY <1>0, <1>1, <1>2, <2>1 DEF LossInv, KeepLives
  <2>2. CASE d # c
    <3>1. merge'[d] = merge[d] /\ Running(d) /\ (merge[d].pc \in {"absorb", "write"} \/ HalfDone(d))
      BY <1>0, <2>2 DEF Running, HalfDone
    <3>2. x \in In(files[merge[d].keep]) \cup In(files[merge[d].absorb]) => Active(merge[d].keep)
      BY <3>1 DEF LossInv, KeepLives
    <3>. QED  BY <1>4, <1>5, <2>2, <3>1, <3>2 DEF Of
  <2>. QED  BY <2>1, <2>2
<1>10. OverlapsRisk'
  <2>. SUFFICES ASSUME NEW d \in Calls, NEW f \in Calls, Overlaps(d, f), NEW m \in Of(d)
                PROVE  In(files'[m]) \subseteq risked
    BY <1>0, <1>3 DEF OverlapsRisk, Overlaps
  <2>1. In(files[m]) \subseteq risked
    BY DEF LossInv, OverlapsRisk
  <2>2. CASE d # c /\ k \in Of(d)
    BY <1>4, <2>2 DEF Overlaps
  <2>3. CASE d = c
    <3>1. In(files[k]) \subseteq risked /\ In(files[a]) \subseteq risked
      BY <2>3 DEF LossInv, OverlapsRisk, Of
    <3>. QED  BY <1>0, <1>1, <1>2, <2>1, <2>3, <3>1, StakePieces DEF Of
  <2>4. CASE d # c /\ k \notin Of(d)
    BY <1>5, <2>1, <2>4 DEF Of, Overlaps
  <2>. QED  BY <2>2, <2>3, <2>4
<1>. QED  BY <1>6, <1>7, <1>8, <1>9, <1>10 DEF LossInv

LEMMA EditLoses ==
  ASSUME MergingInv, LossInv, NEW n \in Notes, NEW e \in Edits, Edit(n, e)
  PROVE  LossInv'
<1>0. /\ UNCHANGED <<rows, merge>> /\ made' = made \cup {e} /\ risked \subseteq risked'
      /\ In(files'[n]) = In(files[n]) \cup {e} /\ \A m \in Notes \ {n} : files'[m] = files[m]
      /\ ~Active(n) => e \in risked'
  BY EditDoes
<1>1. \A c \in Calls : (Running(c)' <=> Running(c)) /\ (HalfDone(c)' <=> HalfDone(c)) /\ Of(c)' = Of(c)
  BY <1>0 DEF Running, HalfDone, Of
<1>2. ASSUME NEW c \in Calls, Running(c), NEW x \in Pieces \ risked'
      PROVE  /\ merge[c].keep \in Notes /\ merge[c].absorb \in Notes
             /\ x \in In(files'[merge[c].keep]) <=> x \in In(files[merge[c].keep])
             /\ x \in In(files'[merge[c].absorb]) <=> x \in In(files[merge[c].absorb])
  <2>1. merge[c].keep \in Notes /\ merge[c].absorb \in Notes
    BY <1>2, CallNotes
  <2>2. CASE n \in Of(c)
    <3>1. Busy({n}) # {}
      BY <1>2, <2>2 DEF Busy
    <3>2. x # e
      BY <1>2, <3>1, EditDoes
    <3>. QED  BY <1>0, <2>1, <3>2
  <2>3. CASE n \notin Of(c)
    BY <1>0, <2>1, <2>3 DEF Of
  <2>. QED  BY <2>2, <2>3
<1>3. KeptAlive'
  BY <1>0 DEF LossInv, KeptAlive, Active
<1>4. FoldsBoth'
  <2>. SUFFICES ASSUME NEW d \in Calls, NEW x \in Pieces \ risked', merge[d].pc = "write"
                PROVE  x \in In(merge[d].body) <=> x \in In(files'[merge[d].keep]) \cup In(files'[merge[d].absorb])
    BY <1>0 DEF FoldsBoth
  <2>1. Running(d) /\ x \in Pieces \ risked
    BY <1>0 DEF Running
  <2>2. x \in In(merge[d].body) <=> x \in In(files[merge[d].keep]) \cup In(files[merge[d].absorb])
    BY <2>1 DEF LossInv, FoldsBoth
  <2>. QED  BY <1>2, <2>1, <2>2
<1>5. HasBoth'
  <2>. SUFFICES ASSUME NEW d \in Calls, NEW x \in Pieces \ risked', HalfDone(d), x \in In(files'[merge[d].absorb])
                PROVE  x \in In(files'[merge[d].keep])
    BY <1>0, <1>1 DEF HasBoth
  <2>1. Running(d) /\ x \in Pieces \ risked
    BY <1>0 DEF Running, HalfDone
  <2>2. x \in In(files[merge[d].absorb]) => x \in In(files[merge[d].keep])
    BY <2>1 DEF LossInv, HasBoth
  <2>. QED  BY <1>2, <2>1, <2>2
<1>6. KeepLives'
  <2>. SUFFICES ASSUME NEW d \in Calls, NEW x \in Pieces \ risked',
                       merge[d].pc \in {"absorb", "write"} \/ HalfDone(d),
                       x \in In(files'[merge[d].keep]) \cup In(files'[merge[d].absorb])
                PROVE  Active(merge[d].keep)
    BY <1>0, <1>1 DEF KeepLives, Active
  <2>1. Running(d) /\ x \in Pieces \ risked
    BY <1>0 DEF Running, HalfDone
  <2>2. x \in In(files[merge[d].keep]) \cup In(files[merge[d].absorb]) => Active(merge[d].keep)
    BY <2>1 DEF LossInv, KeepLives
  <2>. QED  BY <1>2, <2>1, <2>2
<1>7. OverlapsRisk'
  <2>. SUFFICES ASSUME NEW d \in Calls, NEW f \in Calls, Overlaps(d, f), NEW m \in Of(d), NEW x \in In(files'[m])
                PROVE  x \in risked'
    BY <1>0, <1>1 DEF OverlapsRisk, Overlaps
  <2>. QED  BY <1>0, <1>2, StakePieces DEF LossInv, OverlapsRisk, Overlaps, Of
<1>. QED  BY <1>3, <1>4, <1>5, <1>6, <1>7 DEF LossInv

LEMMA DeleteLoses ==
  ASSUME MergingInv, LossInv, NEW n \in Notes, Delete(n)
  PROVE  LossInv'
<1>0. /\ UNCHANGED <<merge, made>> /\ risked \subseteq risked' /\ In(files[n]) \subseteq risked'
      /\ In(files'[n]) = {}
      /\ \A m \in Notes \ {n} : files'[m] = files[m] /\ rows'[m].deleted = rows[m].deleted
  BY DeleteDoes, Stakes
<1>1. \A c \in Calls : (Running(c)' <=> Running(c)) /\ (HalfDone(c)' <=> HalfDone(c)) /\ Of(c)' = Of(c)
  BY <1>0 DEF Running, HalfDone, Of
<1>2. ASSUME NEW c \in Calls, Running(c), NEW x \in Pieces \ risked'
      PROVE  /\ merge[c].keep \in Notes /\ merge[c].absorb \in Notes
             /\ \/ n \notin Of(c)
                \/ x \notin In(merge[c].body) /\ \A m \in Of(c) : x \notin In(files'[m]) /\ x \notin In(files[m])
  <2>1. merge[c].keep \in Notes /\ merge[c].absorb \in Notes
    BY <1>2, CallNotes
  <2>2. CASE n \in Of(c)
    <3>1. In(merge[c].body) \subseteq risked' /\ \A m \in Of(c) : In(files[m]) \subseteq risked'
      <4>1. Of(c) \cap {n} # {}
        BY <2>2
      <4>. QED  BY <1>2, <4>1, Stakes, DeleteDoes
    <3>. QED  BY <1>0, <1>2, <2>1, <3>1 DEF Of
  <2>. QED  BY <2>1, <2>2
<1>3. KeptAlive'
  BY <1>0 DEF LossInv, KeptAlive, Active
<1>4. FoldsBoth'
  BY <1>0, <1>2 DEF LossInv, FoldsBoth, Running, Of
<1>5. HasBoth'
  BY <1>0, <1>2 DEF LossInv, HasBoth, Running, HalfDone, Of
<1>6. KeepLives'
  BY <1>0, <1>2 DEF LossInv, KeepLives, Running, HalfDone, Active, Of
<1>7. OverlapsRisk'
  <2>. SUFFICES ASSUME NEW d \in Calls, NEW f \in Calls, Overlaps(d, f), NEW m \in Of(d), NEW x \in In(files'[m])
                PROVE  x \in risked'
    BY <1>0, <1>1 DEF OverlapsRisk, Overlaps
  <2>. QED  BY <1>0, <1>2, StakePieces DEF LossInv, OverlapsRisk, Overlaps, Of
<1>. QED  BY <1>3, <1>4, <1>5, <1>6, <1>7 DEF LossInv

(* Every piece of text is in a note that lives, whatever merges, their crashes and the user do    *)
(* in between: the file of merge.py before its tombstone, and the checks before both.             *)
THEOREM NothingIsLost == Spec => []KeptAlive
<1>1. MergingInv /\ LossInv /\ [Next]_vars => LossInv'
  <2>. SUFFICES ASSUME MergingInv, LossInv, [Next]_vars PROVE LossInv'
    OBVIOUS
  <2>. QED  BY StepKinds, QuietLoses, BeginLoses, ReadLoses, WriteLoses, TombstoneLoses, EditLoses, DeleteLoses DEF LoudStep
<1>2. LossInv => KeptAlive
  BY DEF LossInv
<1>. QED  BY LossInit, MergingInvariant, <1>1, <1>2, PTL DEF Spec

-----------------------------------------------------------------------------
(* Folded in once. *)

\* The pieces that one note had, and that no overlap and no cut has touched.
Clear == {x \in Pieces \ doubled : Sole(x)}
Holds(n, x) == Active(n) /\ x \in In(files[n])

\* Two living notes hold a piece only while a merge of the two is half done; a merge that is about
\* to write has all the holders, and has no piece twice; a kept note that was alive when it was
\* checked still is; a merge that is overlapped has nothing clear.
HoldersMerge == \A x \in Clear : \A m, n \in Notes :
  m # n /\ Holds(m, x) /\ Holds(n, x) => \E c \in Calls : HalfDone(c) /\ Of(c) = {m, n}
WritesOnce == \A x \in Clear : \A c \in Calls :
  merge[c].pc = "write" /\ x \in In(merge[c].body) =>
    /\ merge[c].body[x] \leq 1
    /\ \A n \in Notes : Holds(n, x) => n \in Of(c)
    /\ \A d \in Calls \ {c} : merge[d].pc = "write" => x \notin In(merge[d].body)
CheckedLives == \A x \in Clear : \A c \in Calls :
  merge[c].pc = "absorb" /\ x \in In(files[merge[c].keep]) => Active(merge[c].keep)
OverlapsHave == \A x \in Clear : \A c, d \in Calls :
  Overlaps(c, d) => x \notin In(merge[c].body) /\ \A m \in Of(c) : x \notin In(files[m])

OnceInv == MergedOnce /\ HoldersMerge /\ WritesOnce /\ CheckedLives /\ OverlapsHave

LEMMA ClearFacts ==
  /\ Clear \subseteq Pieces /\ Clear \cap Edits = {}
  /\ doubled \subseteq doubled' => Clear' \subseteq Clear
  /\ UNCHANGED doubled => Clear' = Clear
  /\ \A x \in Clear' : x \notin doubled'
BY MergingAssumption DEF Clear, Sole

LEMMA OnceInit == Init => OnceInv
<1>. SUFFICES ASSUME Init PROVE OnceInv
  OBVIOUS
<1>1. \A c \in Calls : merge[c].pc = "new"
  BY DEF Init, NewCall, NewMerge
<1>2. \A n \in Notes : files[n] = [x \in Pieces |-> IF x \in Opening[n] THEN 1 ELSE 0]
  BY DEF Init
<1>3. ASSUME NEW n \in Notes, NEW x \in Pieces PROVE files[n][x] = IF x \in Opening[n] THEN 1 ELSE 0
  BY <1>2
<1>4. MergedOnce
  BY <1>3 DEF MergedOnce
<1>5. HoldersMerge
  <2>1. ASSUME NEW n \in Notes, NEW x \in Pieces, x \in In(files[n]) PROVE x \in Opening[n]
    <3>1. files[n][x] > 0
      BY <2>1 DEF In
    <3>. QED  BY <1>3, <3>1
  <2>. QED  BY <2>1 DEF HoldersMerge, Clear, Sole, Holds
<1>. QED
  BY <1>1, <1>4, <1>5 DEF OnceInv, WritesOnce, CheckedLives, OverlapsHave, Overlaps, Running

LEMMA QuietOnce ==
  ASSUME MergingInv, OnceInv, QuietStep
  PROVE  OnceInv'
<1>0. /\ UNCHANGED files /\ doubled \subseteq doubled' /\ Clear' \subseteq Clear
      /\ \A n \in Notes : rows'[n].deleted = rows[n].deleted
      /\ \A c \in Calls : Running(c) => merge[c].keep \in Notes /\ merge[c].absorb \in Notes
  BY CallNotes, ClearFacts DEF QuietStep
<1>1. MergedOnce'
  BY <1>0 DEF OnceInv, MergedOnce
<1>2. HoldersMerge'
  <2>. SUFFICES ASSUME NEW x \in Clear', NEW m \in Notes, NEW n \in Notes, m # n, Holds(m, x)', Holds(n, x)'
                PROVE  \E c \in Calls : HalfDone(c)' /\ Of(c)' = {m, n}
    BY DEF HoldersMerge
  <2>1. Holds(m, x) /\ Holds(n, x) /\ x \in Clear
    BY <1>0 DEF Holds, Active
  <2>2. PICK c \in Calls : HalfDone(c) /\ Of(c) = {m, n}
    BY <2>1 DEF OnceInv, HoldersMerge
  <2>3. HalfDone(c)'
    <3>1. x \in In(files[merge[c].absorb])
      BY <2>1, <2>2 DEF Of, Holds
    <3>. QED  BY <2>2, <3>1, QuietDoes, ClearFacts
  <2>4. Of(c)' = Of(c)
    <3>1. Running(c)'
      BY <2>3 DEF HalfDone, Running
    <3>. QED  BY <3>1, QuietDoes DEF Of
  <2>. QED  BY <2>2, <2>3, <2>4
<1>3. WritesOnce'
  <2>. SUFFICES ASSUME NEW x \in Clear', NEW c \in Calls, merge'[c].pc = "write", x \in In(merge'[c].body)
                PROVE  /\ merge'[c].body[x] \leq 1
                       /\ \A n \in Notes : Holds(n, x)' => n \in Of(c)'
                       /\ \A d \in Calls \ {c} : merge'[d].pc = "write" => x \notin In(merge'[d].body)
    BY DEF WritesOnce
  <2>1. merge[c].pc = "write" /\ merge'[c].body = merge[c].body /\ Of(c)' = Of(c)
    <3>1. Running(c)'
      BY DEF Running
    <3>. QED  BY <3>1, QuietDoes DEF Of
  <2>2. \A n \in Notes : Holds(n, x)' => Holds(n, x)
    BY <1>0 DEF Holds, Active
  <2>3. /\ merge[c].body[x] \leq 1
        /\ \A n \in Notes : Holds(n, x) => n \in Of(c)
        /\ \A d \in Calls \ {c} : merge[d].pc = "write" => x \notin In(merge[d].body)
    BY <1>0, <2>1 DEF OnceInv, WritesOnce
  <2>. QED  BY <2>1, <2>2, <2>3, QuietDoes
<1>4. CheckedLives'
  <2>. SUFFICES ASSUME NEW x \in Clear', NEW c \in Calls, merge'[c].pc = "absorb", x \in In(files[merge'[c].keep])
                PROVE  ~rows'[merge'[c].keep].deleted
    BY <1>0 DEF CheckedLives, Active
  <2>1. Running(c)'
    BY DEF Running
  <2>2. Running(c) /\ merge'[c].keep = merge[c].keep /\ merge[c].keep \in Notes
    BY <1>0, <2>1, QuietDoes
  <2>3. Active(merge[c].keep)
    BY <1>0, <2>2, QuietDoes DEF OnceInv, CheckedLives
  <2>. QED  BY <1>0, <2>2, <2>3 DEF Active
<1>5. OverlapsHave'
  <2>. SUFFICES ASSUME NEW x \in Clear', NEW c \in Calls, NEW d \in Calls, Overlaps(c, d)'
                PROVE  x \notin In(merge'[c].body) /\ \A m \in Of(c)' : x \notin In(files[m])
    BY <1>0 DEF OverlapsHave
  <2>1. Running(c)' /\ Running(d)'
    BY DEF Overlaps
  <2>2. Overlaps(c, d) /\ Of(c)' = Of(c) /\ merge'[c].body \in {merge[c].body, NoFile}
    BY <2>1, QuietDoes DEF Overlaps, Of
  <2>3. x \notin In(merge[c].body) /\ \A m \in Of(c) : x \notin In(files[m])
    BY <1>0, <2>2 DEF OnceInv, OverlapsHave
  <2>. QED  BY <2>2, <2>3 DEF In
<1>. QED  BY <1>1, <1>2, <1>3, <1>4, <1>5 DEF OnceInv

LEMMA BeginOnce ==
  ASSUME MergingInv, OnceInv, NEW c \in Calls, NEW k \in Notes, NEW a \in Notes, BeginMerge(c, k, a)
  PROVE  OnceInv'
<1>0. /\ UNCHANGED <<files, rows>> /\ Clear' \subseteq Clear /\ ~Running(c) /\ merge[c].pc = "new"
      /\ merge'[c].pc \in {"gate", "keep"} /\ merge'[c].body = NoFile
      /\ \A d \in Calls \ {c} : merge'[d] = merge[d]
      /\ Of(c)' = {k, a} /\ \A x \in Clear' : x \notin Overlap({k, a})
  BY BeginDoes, ClearFacts DEF Running, Of
<1>1. \A b \in Calls \ {c} : (Running(b)' <=> Running(b)) /\ (HalfDone(b)' <=> HalfDone(b)) /\ Of(b)' = Of(b)
  BY <1>0 DEF Running, HalfDone, Of
<1>2. MergedOnce'
  BY <1>0, BeginDoes DEF OnceInv, MergedOnce
<1>3. HoldersMerge'
  <2>1. ~HalfDone(c) /\ \A x : \A n \in Notes : Holds(n, x)' <=> Holds(n, x)
    BY <1>0 DEF HalfDone, Holds, Active
  <2>. QED  BY <1>0, <1>1, <2>1 DEF OnceInv, HoldersMerge
<1>4. WritesOnce'
  BY <1>0, <1>1 DEF OnceInv, WritesOnce, Holds, Active
<1>5. CheckedLives'
  BY <1>0 DEF OnceInv, CheckedLives, Active
<1>6. OverlapsHave'
  <2>. SUFFICES ASSUME NEW x \in Clear', NEW d \in Calls, NEW f \in Calls, Overlaps(d, f)'
                PROVE  x \notin In(merge'[d].body) /\ \A m \in Of(d)' : x \notin In(files[m])
    BY <1>0 DEF OverlapsHave
  <2>1. CASE d # c /\ f # c
    BY <1>0, <1>1, <2>1 DEF OnceInv, OverlapsHave, Overlaps
  <2>2. CASE d = c
    <3>1. Running(f) /\ Of(f) \cap {k, a} # {}
      BY <1>0, <1>1, <2>2 DEF Overlaps
    <3>2. \A m \in {k, a} : In(files[m]) \subseteq Overlap({k, a})
      BY <3>1, Stakes
    <3>. QED  BY <1>0, <2>2, <3>2 DEF In
  <2>3. CASE d # c /\ f = c
    <3>1. Running(d) /\ Of(d) \cap {k, a} # {} /\ Of(d)' = Of(d) /\ merge'[d] = merge[d]
      BY <1>0, <1>1, <2>3 DEF Overlaps
    <3>2. In(merge[d].body) \subseteq Overlap({k, a}) /\ \A m \in Of(d) : In(files[m]) \subseteq Overlap({k, a})
      BY <3>1, Stakes
    <3>. QED  BY <1>0, <3>1, <3>2
  <2>. QED  BY <2>1, <2>2, <2>3
<1>. QED  BY <1>2, <1>3, <1>4, <1>5, <1>6 DEF OnceInv

LEMMA ReadOnce ==
  ASSUME MergingInv, OnceInv, NEW c \in Calls, ReadBodies(c), Readable(merge[c].keep, merge[c].absorb)
  PROVE  OnceInv'
<1>. DEFINE k == merge[c].keep
<1>. DEFINE a == merge[c].absorb
<1>0. /\ UNCHANGED <<files, rows, doubled>> /\ merge[c].pc = "absorb" /\ merge'[c].pc = "write"
      /\ merge'[c].keep = k /\ merge'[c].absorb = a /\ Running(c) /\ Clear' = Clear
      /\ \A d \in Calls \ {c} : merge'[d] = merge[d]
      /\ \A x : \A n \in Notes : Holds(n, x)' <=> Holds(n, x)
  BY ReadDoes, ClearFacts DEF Running, Holds, Active
<1>1. k \in Notes /\ a \in Notes /\ k # a
  BY <1>0, CallNotes DEF Of, Pairs
<1>2. \A d \in Calls : (Running(d)' <=> Running(d)) /\ Of(d)' = Of(d) /\ (HalfDone(d)' <=> HalfDone(d))
  BY <1>0 DEF Running, HalfDone, Of
<1>3. MergedOnce'
  BY <1>0 DEF OnceInv, MergedOnce
<1>4. HoldersMerge'
  BY <1>0, <1>2 DEF OnceInv, HoldersMerge
<1>5. ASSUME NEW x \in Clear, NEW d \in Calls \ {c}, Running(d), Of(d) \cap {k, a} # {}
      PROVE  x \notin In(files[k]) /\ x \notin In(files[a]) /\ x \notin In(merge[d].body)
  <2>1. Overlaps(c, d) /\ Overlaps(d, c)
    BY <1>0, <1>5 DEF Overlaps, Of
  <2>. QED  BY <2>1 DEF OnceInv, OverlapsHave, Of
<1>6. /\ files[k] \in Text /\ files[a] \in Text /\ Active(a) /\ merge'[c].body \in Text
      /\ \A x \in Pieces : merge'[c].body[x] = files[k][x] + files[a][x]
  BY ReadDoes
<1>7. \A t \in Text : t # NoFile /\ \A x \in Pieces : t[x] \in Nat
  BY TextFacts DEF Text
<1>8. ASSUME NEW x \in Clear, x \in In(merge'[c].body)
      PROVE  /\ x \in In(files[k]) \/ x \in In(files[a])
             /\ x \in In(files[k]) => Holds(k, x)
             /\ x \in In(files[a]) => Holds(a, x)
             /\ ~(x \in In(files[k]) /\ x \in In(files[a]))
             /\ merge'[c].body[x] \leq 1
  <2>1. x \in In(files[k]) \/ x \in In(files[a])
    BY <1>6, <1>7, <1>8, ClearFacts DEF In
  <2>2. (x \in In(files[k]) => Holds(k, x)) /\ (x \in In(files[a]) => Holds(a, x))
    BY <1>0, <1>6 DEF Holds, OnceInv, CheckedLives
  <2>3. ~(x \in In(files[k]) /\ x \in In(files[a]))
    <3>. SUFFICES ASSUME x \in In(files[k]), x \in In(files[a]) PROVE FALSE
      OBVIOUS
    <3>1. PICK d \in Calls : HalfDone(d) /\ Of(d) = {k, a}
      BY <1>1, <2>2 DEF OnceInv, HoldersMerge
    <3>2. d # c /\ Running(d)
      BY <1>0, <3>1 DEF HalfDone, Running
    <3>. QED  BY <1>5, <3>1, <3>2
  <2>4. merge'[c].body[x] \leq 1
    <3>1. files[k][x] \leq 1 /\ files[a][x] \leq 1
      BY <1>1, <1>6, <1>7 DEF OnceInv, MergedOnce, Clear
    <3>2. files[k][x] \in Nat /\ files[a][x] \in Nat /\ merge'[c].body[x] = files[k][x] + files[a][x] /\ x \in Pieces
      BY <1>6, <1>7, ClearFacts
    <3>3. ~(files[k][x] > 0 /\ files[a][x] > 0)
      BY <1>6, <1>7, <2>3, <3>2 DEF In
    <3>. QED  BY <3>1, <3>2, <3>3
  <2>. QED  BY <2>1, <2>2, <2>3, <2>4
<1>9. WritesOnce'
  <2>. SUFFICES ASSUME NEW x \in Clear, NEW d \in Calls, merge'[d].pc = "write", x \in In(merge'[d].body)
                PROVE  /\ merge'[d].body[x] \leq 1
                       /\ \A n \in Notes : Holds(n, x) => n \in Of(d)
                       /\ \A f \in Calls \ {d} : merge'[f].pc = "write" => x \notin In(merge'[f].body)
    BY <1>0, <1>2 DEF WritesOnce
  <2>1. ASSUME NEW f \in Calls \ {c}, merge[f].pc = "write", x \in In(merge[f].body), x \in In(merge'[c].body)
        PROVE  FALSE
    <3>1. PICK n \in {k, a} : Holds(n, x)
      BY <1>8, <2>1
    <3>2. n \in Of(f) /\ Running(f)
      BY <1>1, <2>1, <3>1 DEF OnceInv, WritesOnce, Running
    <3>3. Of(f) \cap {k, a} # {}
      BY <3>1, <3>2
    <3>. QED  BY <1>5, <2>1, <3>2, <3>3
  <2>2. CASE d # c
    BY <1>0, <2>1, <2>2 DEF OnceInv, WritesOnce
  <2>3. CASE d = c
    <3>1. ASSUME NEW n \in Notes, Holds(n, x) PROVE n \in Of(c)
      <4>. SUFFICES ASSUME n \notin Of(c) PROVE FALSE
        OBVIOUS
      <4>1. PICK m \in {k, a} : Holds(m, x)
        BY <1>8, <2>3
      <4>2. m # n /\ m \in Notes
        BY <1>1, <4>1 DEF Of
      <4>3. PICK f \in Calls : HalfDone(f) /\ Of(f) = {m, n}
        BY <3>1, <4>1, <4>2 DEF OnceInv, HoldersMerge
      <4>4. f # c /\ Running(f) /\ Of(f) \cap {k, a} # {}
        BY <1>0, <4>1, <4>3 DEF HalfDone, Running
      <4>5. x \notin In(files[k]) /\ x \notin In(files[a])
        BY <1>5, <4>4
      <4>. QED  BY <4>1, <4>5 DEF Holds
    <3>. QED  BY <1>0, <1>8, <2>1, <2>3, <3>1
  <2>. QED  BY <2>2, <2>3
<1>10. CheckedLives'
  BY <1>0 DEF OnceInv, CheckedLives, Active
<1>11. OverlapsHave'
  <2>. SUFFICES ASSUME NEW x \in Clear, NEW d \in Calls, NEW f \in Calls, Overlaps(d, f)
                PROVE  x \notin In(merge'[d].body) /\ \A m \in Of(d) : x \notin In(files[m])
    BY <1>0, <1>2 DEF OverlapsHave, Overlaps
  <2>1. x \notin In(merge[d].body) /\ \A m \in Of(d) : x \notin In(files[m])
    BY DEF OnceInv, OverlapsHave
  <2>2. CASE d = c
    BY <1>8, <2>1, <2>2 DEF Of
  <2>. QED  BY <1>0, <2>1, <2>2
<1>. QED  BY <1>3, <1>4, <1>9, <1>10, <1>11 DEF OnceInv

LEMMA WriteOnce ==
  ASSUME MergingInv, OnceInv, NEW c \in Calls, WriteMerged(c)
  PROVE  OnceInv'
<1>. DEFINE k == merge[c].keep
<1>. DEFINE a == merge[c].absorb
<1>0. /\ UNCHANGED <<rows, doubled>> /\ merge[c].pc = "write" /\ merge'[c].pc = "hash" /\ Clear' = Clear
      /\ merge'[c].keep = k /\ merge'[c].absorb = a /\ merge'[c].body = merge[c].body /\ Running(c) /\ HalfDone(c)'
      /\ \A d \in Calls \ {c} : merge'[d] = merge[d]
      /\ k \in Notes /\ files'[k] = merge[c].body /\ merge[c].body \in Text
      /\ \A n \in Notes \ {k} : files'[n] = files[n]
  BY WriteDoes, ClearFacts DEF Running, HalfDone
<1>1. a \in Notes /\ k # a
  BY <1>0, CallNotes DEF Of, Pairs
<1>2. \A d \in Calls : (Running(d)' <=> Running(d)) /\ Of(d)' = Of(d) /\ (HalfDone(d) => HalfDone(d)')
                         /\ (Running(d) => merge[d].keep \in Notes /\ merge[d].absorb \in Notes)
  BY <1>0, CallNotes DEF Running, HalfDone, Of
<1>3. /\ \A x : \A n \in Notes \ {k} : Holds(n, x)' <=> Holds(n, x)
      /\ \A x : Holds(k, x)' => x \in In(merge[c].body)
  BY <1>0 DEF Holds, Active
<1>4. ASSUME NEW x \in Clear, x \in In(merge[c].body)
      PROVE  /\ merge[c].body[x] \leq 1
             /\ \A n \in Notes : Holds(n, x) => n \in Of(c)
             /\ \A d \in Calls \ {c} : merge[d].pc = "write" => x \notin In(merge[d].body)
  BY <1>0, <1>4 DEF OnceInv, WritesOnce
<1>5. ASSUME NEW x \in Clear, NEW d \in Calls \ {c}, Running(d), k \in Of(d)
      PROVE  x \notin In(merge[c].body)
  <2>1. Overlaps(c, d)
    BY <1>0, <1>5 DEF Overlaps, Of
  <2>. QED  BY <2>1 DEF OnceInv, OverlapsHave
<1>6. MergedOnce'
  <2>. SUFFICES ASSUME NEW x \in Clear, NEW n \in Notes, files'[n] # NoFile PROVE files'[n][x] \leq 1
    BY <1>0 DEF MergedOnce, Clear
  <2>1. CASE n = k
    <3>1. CASE x \in In(merge[c].body)
      BY <1>0, <1>4, <2>1, <3>1
    <3>2. CASE x \notin In(merge[c].body)
      <4>1. merge[c].body # NoFile /\ merge[c].body[x] \in Nat /\ x \in Pieces
        BY <1>0, TextFacts, ClearFacts DEF Text
      <4>2. ~(merge[c].body[x] > 0)
        BY <3>2, <4>1 DEF In
      <4>. QED  BY <1>0, <2>1, <4>1, <4>2
    <3>. QED  BY <3>1, <3>2
  <2>2. CASE n # k
    BY <1>0, <2>2 DEF OnceInv, MergedOnce, Clear
  <2>. QED  BY <2>1, <2>2
<1>7. HoldersMerge'
  <2>. SUFFICES ASSUME NEW x \in Clear, NEW m \in Notes, NEW n \in Notes, m # n, Holds(m, x)', Holds(n, x)'
                PROVE  \E d \in Calls : HalfDone(d)' /\ Of(d)' = {m, n}
    BY <1>0 DEF HoldersMerge
  <2>1. CASE m # k /\ n # k
    <3>1. Holds(m, x) /\ Holds(n, x)
      BY <1>3, <2>1
    <3>2. PICK d \in Calls : HalfDone(d) /\ Of(d) = {m, n}
      BY <3>1 DEF OnceInv, HoldersMerge
    <3>. QED  BY <1>2, <3>2
  <2>2. ASSUME NEW l \in Notes, l # k, Holds(l, x), x \in In(merge[c].body) PROVE Of(c)' = {k, l}
    <3>1. l \in Of(c)
      BY <1>4, <2>2
    <3>. QED  BY <1>1, <1>2, <2>2, <3>1 DEF Of
  <2>3. CASE m = k
    BY <1>0, <1>3, <2>2, <2>3
  <2>4. CASE n = k
    BY <1>0, <1>3, <2>2, <2>4
  <2>. QED  BY <2>1, <2>3, <2>4
<1>8. WritesOnce'
  <2>. SUFFICES ASSUME NEW x \in Clear, NEW d \in Calls \ {c}, merge[d].pc = "write", x \in In(merge[d].body)
                PROVE  /\ merge[d].body[x] \leq 1
                       /\ \A n \in Notes : Holds(n, x)' => n \in Of(d)
                       /\ \A f \in Calls \ {c, d} : merge[f].pc = "write" => x \notin In(merge[f].body)
    BY <1>0, <1>2 DEF WritesOnce
  <2>1. /\ merge[d].body[x] \leq 1
        /\ \A n \in Notes : Holds(n, x) => n \in Of(d)
        /\ \A f \in Calls \ {d} : merge[f].pc = "write" => x \notin In(merge[f].body)
    BY DEF OnceInv, WritesOnce
  <2>2. x \notin In(merge[c].body)
    BY <1>0, <2>1
  <2>3. ASSUME NEW n \in Notes, Holds(n, x)' PROVE n \in Of(d)
    <3>1. n # k
      BY <1>0, <1>3, <2>2, <2>3
    <3>2. Holds(n, x)
      BY <1>3, <2>3, <3>1
    <3>. QED  BY <2>1, <3>2
  <2>. QED  BY <2>1, <2>3
<1>9. CheckedLives'
  <2>. SUFFICES ASSUME NEW x \in Clear, NEW d \in Calls \ {c}, merge[d].pc = "absorb", x \in In(files'[merge[d].keep])
                PROVE  Active(merge[d].keep)
    BY <1>0 DEF CheckedLives, Active
  <2>1. Running(d) /\ merge[d].keep \in Notes
    BY <1>2 DEF Running
  <2>2. merge[d].keep # k
    BY <1>0, <1>5, <2>1 DEF Of
  <2>. QED  BY <1>0, <2>1, <2>2 DEF OnceInv, CheckedLives
<1>10. OverlapsHave'
  <2>. SUFFICES ASSUME NEW x \in Clear, NEW d \in Calls, NEW f \in Calls, Overlaps(d, f)
                PROVE  x \notin In(merge[d].body) /\ \A m \in Of(d) : x \notin In(files'[m])
    <3>1. \A d \in Calls : merge'[d].body = merge[d].body
      BY <1>0
    <3>. QED  BY <1>0, <1>2, <3>1 DEF OverlapsHave, Overlaps
  <2>1. x \notin In(merge[d].body) /\ \A m \in Of(d) : x \notin In(files[m])
    BY DEF OnceInv, OverlapsHave
  <2>2. Of(d) \subseteq Notes /\ Running(d)
    BY <1>2 DEF Of, Overlaps
  <2>3. k \in Of(d) => x \notin In(merge[c].body)
    BY <1>5, <2>1, <2>2
  <2>. QED  BY <1>0, <2>1, <2>2, <2>3
<1>. QED  BY <1>6, <1>7, <1>8, <1>9, <1>10 DEF OnceInv

LEMMA TombstoneOnce ==
  ASSUME MergingInv, OnceInv, NEW c \in Calls, Tombstone(c)
  PROVE  OnceInv'
<1>. DEFINE a == merge[c].absorb
<1>0. /\ UNCHANGED <<files, doubled>> /\ merge[c].pc = "tombstone" /\ merge'[c].pc = "supersede" /\ Clear' = Clear
      /\ merge'[c].keep = merge[c].keep /\ merge'[c].absorb = a /\ merge'[c].body = merge[c].body /\ Running(c)
      /\ \A d \in Calls \ {c} : merge'[d] = merge[d]
      /\ a \in Notes /\ rows'[a].deleted /\ \A n \in Notes \ {a} : rows'[n].deleted = rows[n].deleted
  BY TombstoneDoes, ClearFacts DEF Running
<1>1. \A x : \A n \in Notes : Holds(n, x)' => Holds(n, x) /\ n # a
  BY <1>0 DEF Holds, Active
<1>2. \A d \in Calls : (Running(d)' <=> Running(d)) /\ Of(d)' = Of(d) /\ (d # c => (HalfDone(d)' <=> HalfDone(d)))
                         /\ (Running(d) => merge[d].keep \in Notes)
  BY <1>0, CallNotes DEF Running, HalfDone, Of
<1>3. MergedOnce'
  BY <1>0 DEF OnceInv, MergedOnce
<1>4. HoldersMerge'
  <2>. SUFFICES ASSUME NEW x \in Clear, NEW m \in Notes, NEW n \in Notes, m # n, Holds(m, x)', Holds(n, x)'
                PROVE  \E d \in Calls : HalfDone(d)' /\ Of(d)' = {m, n}
    BY <1>0 DEF HoldersMerge
  <2>1. PICK d \in Calls : HalfDone(d) /\ Of(d) = {m, n}
    BY <1>1 DEF OnceInv, HoldersMerge
  <2>2. d # c
    BY <1>1, <2>1 DEF Of
  <2>. QED  BY <1>2, <2>1, <2>2
<1>5. WritesOnce'
  BY <1>0, <1>1, <1>2 DEF OnceInv, WritesOnce
<1>6. CheckedLives'
  <2>. SUFFICES ASSUME NEW x \in Clear, NEW d \in Calls \ {c}, merge[d].pc = "absorb", x \in In(files[merge[d].keep])
                PROVE  ~rows'[merge[d].keep].deleted
    BY <1>0 DEF CheckedLives, Active
  <2>1. Running(d) /\ Active(merge[d].keep) /\ merge[d].keep \in Notes
    BY <1>2 DEF OnceInv, CheckedLives, Running
  <2>2. merge[d].keep # a
    <3>. SUFFICES ASSUME merge[d].keep = a PROVE FALSE
      OBVIOUS
    <3>1. Overlaps(d, c)
      BY <1>0, <2>1 DEF Overlaps, Of
    <3>. QED  BY <3>1 DEF OnceInv, OverlapsHave, Of
  <2>. QED  BY <1>0, <2>1, <2>2 DEF Active
<1>7. OverlapsHave'
  <2>1. \A d \in Calls : merge'[d].body = merge[d].body
    BY <1>0
  <2>. QED  BY <1>0, <1>2, <2>1 DEF OnceInv, OverlapsHave, Overlaps
<1>. QED  BY <1>3, <1>4, <1>5, <1>6, <1>7 DEF OnceInv

(* An edit appends nothing that a note began with, and a deletion only takes away. *)
LEMMA FileOnce ==
  ASSUME MergingInv, OnceInv, NEW n \in Notes, Delete(n) \/ \E e \in Edits : Edit(n, e)
  PROVE  OnceInv'
<1>0. /\ UNCHANGED <<merge, doubled>> /\ Clear' = Clear
      /\ \A m \in Notes, x \in Clear : x \in In(files'[m]) => x \in In(files[m])
      /\ \A m \in Notes, x \in Clear : files'[m] # NoFile => files[m] # NoFile /\ files'[m][x] = files[m][x]
      /\ \A m \in Notes \ {n} : rows'[m].deleted = rows[m].deleted
      /\ rows'[n].deleted = rows[n].deleted \/ In(files'[n]) = {}
      /\ rows'[n].deleted \/ rows'[n].deleted = rows[n].deleted
  <2>1. CASE Delete(n)
    BY <2>1, DeleteDoes, ClearFacts
  <2>2. ASSUME NEW e \in Edits, Edit(n, e)
        PROVE  /\ UNCHANGED <<merge, doubled, rows>> /\ Clear' = Clear
               /\ \A m \in Notes, x \in Clear : x \in In(files'[m]) => x \in In(files[m])
               /\ \A m \in Notes, x \in Clear : files'[m] # NoFile => files[m] # NoFile /\ files'[m][x] = files[m][x]
    <3>1. /\ UNCHANGED <<merge, doubled, rows>> /\ Clear' = Clear /\ files[n] # NoFile
          /\ In(files'[n]) = In(files[n]) \cup {e} /\ \A x \in Pieces \ {e} : files'[n][x] = files[n][x]
          /\ \A m \in Notes \ {n} : files'[m] = files[m]
      BY <2>2, EditDoes, ClearFacts
    <3>2. \A x \in Clear : x # e /\ x \in Pieces
      BY ClearFacts
    <3>3. ASSUME NEW m \in Notes, NEW x \in Clear
          PROVE  /\ x \in In(files'[m]) => x \in In(files[m])
                 /\ files'[m] # NoFile => files[m] # NoFile /\ files'[m][x] = files[m][x]
      <4>1. CASE m = n
        BY <3>1, <3>2, <4>1
      <4>2. CASE m # n
        BY <3>1, <4>2
      <4>. QED  BY <4>1, <4>2
    <3>. QED  BY <3>1, <3>3
  <2>. QED  BY <2>1, <2>2
<1>1. \A m \in Notes, x \in Clear : Holds(m, x)' => Holds(m, x)
  BY <1>0 DEF Holds, Active
<1>2. \A d \in Calls : (Running(d)' <=> Running(d)) /\ Of(d)' = Of(d) /\ (HalfDone(d)' <=> HalfDone(d))
                         /\ (Running(d) => merge[d].keep \in Notes /\ merge[d].absorb \in Notes)
  BY <1>0, CallNotes DEF Running, HalfDone, Of
<1>3. MergedOnce'
  BY <1>0 DEF OnceInv, MergedOnce, Clear
<1>4. HoldersMerge'
  BY <1>0, <1>1, <1>2 DEF OnceInv, HoldersMerge
<1>5. WritesOnce'
  BY <1>0, <1>1, <1>2 DEF OnceInv, WritesOnce
<1>6. CheckedLives'
  <2>. SUFFICES ASSUME NEW x \in Clear, NEW d \in Calls, merge[d].pc = "absorb", x \in In(files'[merge[d].keep])
                PROVE  ~rows'[merge[d].keep].deleted
    BY <1>0 DEF CheckedLives, Active
  <2>1. merge[d].keep \in Notes
    BY <1>2 DEF Running
  <2>. QED  BY <1>0, <2>1 DEF OnceInv, CheckedLives, Active
<1>7. OverlapsHave'
  <2>. SUFFICES ASSUME NEW x \in Clear, NEW d \in Calls, NEW f \in Calls, Overlaps(d, f)
                PROVE  x \notin In(merge[d].body) /\ \A m \in Of(d) : x \notin In(files'[m])
    BY <1>0, <1>2 DEF OverlapsHave, Overlaps
  <2>1. Of(d) \subseteq Notes
    BY <1>2 DEF Of, Overlaps
  <2>. QED  BY <1>0, <2>1 DEF OnceInv, OverlapsHave
<1>. QED  BY <1>3, <1>4, <1>5, <1>6, <1>7 DEF OnceInv

(* No text comes to be in a note twice, though a candidate may be confirmed again after it was    *)
(* merged and merges are cut short and tried again: the tombstone that merge.py checks for.       *)
THEOREM FoldedOnce == Spec => []MergedOnce
<1>1. MergingInv /\ OnceInv /\ [Next]_vars => OnceInv'
  <2>. SUFFICES ASSUME MergingInv, OnceInv, [Next]_vars PROVE OnceInv'
    OBVIOUS
  <2>. QED  BY StepKinds, QuietOnce, BeginOnce, ReadOnce, WriteOnce, TombstoneOnce, FileOnce DEF LoudStep
<1>2. OnceInv => MergedOnce
  BY DEF OnceInv
<1>. QED  BY OnceInit, MergingInvariant, <1>1, <1>2, PTL DEF Spec

-----------------------------------------------------------------------------
(* Alike notes are proposed. *)

\* While a scan is at work: what is active now was active when it began; every pair that is still to
\* be proposed has a note that the scan is from, and is among those found once all are compared.
ScanInv ==
  /\ AlikeAreProposed
  /\ scan.todo \subseteq scan.from
  /\ scan.pc # "idle" => Listed \subseteq scan.active
  /\ \A p \in Pairs : Unproposed(p) => p \cap scan.from # {} /\ (scan.pc = "upsert" => p \in scan.found)

LEMMA ScanInit == Init => ScanInv
<1>. SUFFICES ASSUME Init PROVE ScanInv
  OBVIOUS
<1>1. scan.pc = "idle" /\ scan.todo = {}
  BY DEF Init, Resting
<1>2. ASSUME NEW p \in Pairs, Unproposed(p) PROVE FALSE
  <2>1. PICK m \in Notes, n \in Notes : p = {m, n} /\ m # n
    BY DEF Pairs
  <2>2. \A l \in {m, n} : l \in Signed /\ signatures[l] = files[l]
    BY <1>2, <2>1 DEF Unproposed, Init
  <2>3. \A l \in Notes : In(files[l]) = Opening[l]
    <3>. SUFFICES ASSUME NEW l \in Notes PROVE In(files[l]) = Opening[l]
      OBVIOUS
    <3>1. files[l] = [x \in Pieces |-> IF x \in Opening[l] THEN 1 ELSE 0]
      BY DEF Init
    <3>2. files[l] # NoFile /\ Opening[l] \subseteq Pieces
      BY <3>1, TextFacts, MergingAssumption
    <3>3. ASSUME NEW x \in Pieces PROVE files[l][x] > 0 <=> x \in Opening[l]
      <4>1. files[l][x] = IF x \in Opening[l] THEN 1 ELSE 0
        BY <3>1
      <4>. QED  BY <4>1
    <3>. QED  BY <3>2, <3>3 DEF In
  <2>4. SharesHalf(Opening[m], Opening[n])
    BY <1>2, <2>1, <2>2, <2>3 DEF Unproposed, Alike
  <2>5. p \in Reviewed
    BY <2>1, <2>2, <2>4, MergingAssumption
  <2>. QED  BY <1>2, <2>5 DEF Unproposed, Init
<1>. QED  BY <1>1, <1>2 DEF ScanInv, AlikeAreProposed

(* Every other step leaves the scan and the signatures alone, revives no note and forgets no pair. *)
LEMMA NoRevival ==
  ASSUME MergingInv, [Next]_vars
  PROVE  \A n \in Notes : rows[n].deleted => rows'[n].deleted
<1>1. CASE QuietStep
  BY <1>1 DEF QuietStep
<1>2. CASE LoudStep
  <2>1. ASSUME NEW c \in Calls, NEW k \in Notes, NEW a \in Notes, BeginMerge(c, k, a) PROVE UNCHANGED rows
    BY <2>1 DEF BeginMerge
  <2>2. ASSUME NEW c \in Calls, ReadBodies(c) \/ WriteMerged(c) PROVE UNCHANGED rows
    BY <2>2 DEF ReadBodies, WriteMerged
  <2>3. ASSUME NEW c \in Calls, Tombstone(c) PROVE \A n \in Notes : rows[n].deleted => rows'[n].deleted
    BY <2>3, TombstoneDoes
  <2>4. ASSUME NEW m \in Notes, Delete(m) PROVE \A n \in Notes : rows[n].deleted => rows'[n].deleted
    BY <2>4, DeleteDoes
  <2>5. ASSUME NEW m \in Notes, NEW e \in Edits, Edit(m, e) PROVE UNCHANGED rows
    BY <2>5 DEF Edit
  <2>. QED  BY <1>2, <2>1, <2>2, <2>3, <2>4, <2>5 DEF LoudStep
<1>. QED  BY <1>1, <1>2, StepKinds

ScanOwn == (\E from \in SUBSET Notes : ListActive(from)) \/ ScanStep \/ ScanDies

LEMMA PairsStay ==
  ASSUME MergingInv, [Next]_vars
  PROVE  /\ \A p \in Pairs : candidates[p] # "none" => candidates'[p] # "none"
         /\ ScanOwn \/ UNCHANGED <<scan, signatures, unseen>>
<1>0. candidates \in [Pairs -> Statuses]
  BY TypeFacts DEF MergingInv
<1>1. CASE UNCHANGED <<candidates, scan, signatures, unseen>>
  BY <1>1
<1>2. CASE UNCHANGED candidates /\ ScanOwn
  BY <1>2
<1>3. CASE UpsertAll
  BY <1>0, <1>3 DEF UpsertAll, Upserted, ScanOwn, ScanStep
<1>4. ASSUME NEW q \in Pairs, NEW resolution \in {"confirmed", "rejected"}, Resolve(q, resolution)
      PROVE  /\ \A p \in Pairs : candidates[p] # "none" => candidates'[p] # "none"
             /\ UNCHANGED <<scan, signatures, unseen>>
  BY <1>0, <1>4 DEF Resolve, SetResolution
<1>5. ASSUME NEW c \in Calls, MarkMerged(c)
      PROVE  /\ \A p \in Pairs : candidates[p] # "none" => candidates'[p] # "none"
             /\ UNCHANGED <<scan, signatures, unseen>>
  BY <1>0, <1>5 DEF MarkMerged, SetResolution
<1>6. ASSUME NEW c \in Calls, MergeStep(c) \/ Cut(c)
      PROVE  /\ \A p \in Pairs : candidates[p] # "none" => candidates'[p] # "none"
             /\ UNCHANGED <<scan, signatures, unseen>>
  BY <1>5, <1>6 DEF MergeStep, Gate, CheckKeep, ReadBodies, WriteMerged, RecordHash, Reindex, Tombstone, Supersede, Cut
<1>7. ASSUME NEW c \in Calls, NEW k \in Notes, NEW a \in Notes, BeginMerge(c, k, a)
      PROVE  UNCHANGED <<candidates, scan, signatures, unseen>>
  BY <1>7 DEF BeginMerge
<1>8. StatusStep => UNCHANGED <<candidates, scan, signatures, unseen>>
  BY DEF StatusStep, SweepList, SweepSpare, Flag, SweepEnds, ReadDraft, Promote
<1>9. (\E n \in Notes : Ingest(n)) \/ (\E n \in Handled : (\E e \in Edits : Edit(n, e)) \/ Delete(n))
        => UNCHANGED <<candidates, scan, signatures, unseen>>
  BY DEF Ingest, Edit, Delete
<1>10. ScanDies \/ ListActive(Notes) \/ (\E n \in Asked : ListActive({n})) => UNCHANGED candidates /\ ScanOwn
  <2>1. ScanDies => UNCHANGED candidates /\ ScanOwn
    BY DEF ScanDies, ScanOwn
  <2>2. ASSUME NEW from \in SUBSET Notes, ListActive(from) PROVE UNCHANGED candidates /\ ScanOwn
    <3>1. UNCHANGED candidates
      BY <2>2 DEF ListActive
    <3>. QED  BY <2>2, <3>1 DEF ScanOwn
  <2>3. \A n \in Asked : {n} \subseteq Notes
    BY MergingAssumption
  <2>. QED  BY <2>1, <2>2, <2>3
<1>11. ScanStep => (UNCHANGED candidates /\ ScanOwn) \/ UpsertAll
  BY DEF ScanStep, ScanOwn, Sign, Match
<1>12. UNCHANGED vars => UNCHANGED <<candidates, scan, signatures, unseen>>
  BY DEF vars
<1>. QED  BY <1>1, <1>2, <1>3, <1>4, <1>6, <1>7, <1>8, <1>9, <1>10, <1>11, <1>12 DEF Next

LEMMA ScanKept ==
  ASSUME MergingInv, ScanInv, [Next]_vars
  PROVE  ScanInv'
<1>0. /\ \A n \in Notes : rows[n].deleted => rows'[n].deleted
      /\ \A p \in Pairs : candidates[p] # "none" => candidates'[p] # "none"
      /\ \A p \in Pairs : p \subseteq Notes
      /\ scan \in ScanSet /\ candidates \in [Pairs -> Statuses] /\ signatures \in [Notes -> Text \cup {NoFile}]
  BY NoRevival, PairsStay, TypeFacts DEF MergingInv, Pairs
<1>1. Listed' \subseteq Listed
  BY <1>0 DEF Listed, Active
<1>2. ASSUME NEW p \in Pairs, Unproposed(p)', unseen \subseteq unseen', \A n \in p : signatures'[n] = signatures[n]
      PROVE  Unproposed(p)
  BY <1>0, <1>2 DEF Unproposed, Active
<1>3. ASSUME UNCHANGED <<scan, signatures, unseen>> PROVE ScanInv'
  <2>1. \A p \in Pairs : Unproposed(p)' => Unproposed(p)
    BY <1>2, <1>3
  <2>. QED  BY <1>1, <1>3, <2>1 DEF ScanInv, AlikeAreProposed
<1>4. ASSUME NEW from \in SUBSET Notes, ListActive(from) PROVE ScanInv'
  <2>1. PICK found : found = {p \in PairsOf(from \cap Listed, Listed) : \A m, n \in p : rows[m].hash = rows[n].hash}
    OBVIOUS
  <2>2. scan'.pc = "sign" /\ scan'.from = from \cap Listed /\ scan'.todo = from \cap Listed /\ scan'.active = Listed
    BY <1>4, <2>1 DEF ListActive, Resting
  <2>3. \A p \in Pairs : ~Unproposed(p)
    BY <1>4 DEF ListActive, ScanInv, AlikeAreProposed
  <2>4. \A p \in Pairs : ~Unproposed(p)'
    BY <1>2, <1>4, <2>3 DEF ListActive
  <2>. QED  BY <1>1, <2>2, <2>4 DEF ScanInv, AlikeAreProposed
<1>5. ASSUME NEW n \in Notes, Sign(n) PROVE ScanInv'
  <2>1. /\ scan.pc = "sign" /\ scan'.pc = "sign" /\ n \in scan.from /\ UNCHANGED unseen
        /\ scan'.from = scan.from /\ scan'.active = scan.active /\ scan'.todo = scan.todo \ {n}
    BY <1>0, <1>5 DEF Sign, First, ScanInv, ScanSet
  <2>2. \A m \in Notes \ {n} : signatures'[m] = signatures[m]
    BY <1>0, <1>5 DEF Sign
  <2>3. ASSUME NEW p \in Pairs, Unproposed(p)' PROVE p \cap scan.from # {}
    <3>1. CASE n \in p
      BY <2>1, <3>1
    <3>2. CASE n \notin p
      <4>1. Unproposed(p)
        BY <1>0, <1>2, <2>1, <2>2, <2>3, <3>2
      <4>. QED  BY <4>1 DEF ScanInv
    <3>. QED  BY <3>1, <3>2
  <2>. QED  BY <1>1, <2>1, <2>3 DEF ScanInv, AlikeAreProposed
<1>6. ASSUME Match PROVE ScanInv'
  <2>1. PICK semantic \in {{}, Similar \cap PairsOf(scan.from, scan.active)} :
          scan' = [scan EXCEPT !.pc = "upsert", !.found = @ \cup Lexical \cup semantic]
    BY <1>6 DEF Match
  <2>2. /\ scan.pc = "sign" /\ scan'.pc = "upsert" /\ scan'.from = scan.from /\ scan'.active = scan.active
        /\ scan'.todo = scan.todo /\ Lexical \subseteq scan'.found /\ UNCHANGED <<signatures, unseen>>
    BY <1>0, <1>6, <2>1 DEF Match, ScanSet
  <2>3. ASSUME NEW p \in Pairs, Unproposed(p)' PROVE p \cap scan.from # {} /\ p \in Lexical
    <3>1. Unproposed(p)
      BY <1>2, <2>2, <2>3
    <3>2. p \cap scan.from # {} /\ p \subseteq scan.active
      BY <1>0, <2>2, <3>1 DEF ScanInv, Unproposed, Listed
    <3>. QED  BY <3>1, <3>2 DEF Lexical, PairsOf, Unproposed
  <2>. QED  BY <1>1, <2>2, <2>3 DEF ScanInv, AlikeAreProposed
<1>7. ASSUME UpsertAll PROVE ScanInv'
  <2>1. scan' = Resting /\ UNCHANGED <<signatures, unseen>> /\ scan.pc = "upsert"
        /\ \A p \in Pairs : p \in scan.found => candidates'[p] # "none"
    BY <1>0, <1>7 DEF UpsertAll, Upserted
  <2>2. ASSUME NEW p \in Pairs, Unproposed(p)' PROVE FALSE
    <3>1. Unproposed(p) /\ candidates'[p] = "none"
      BY <1>2, <2>1, <2>2 DEF Unproposed
    <3>. QED  BY <2>1, <3>1 DEF ScanInv
  <2>. QED  BY <2>1, <2>2 DEF ScanInv, AlikeAreProposed, Resting
<1>8. ASSUME ScanDies PROVE ScanInv'
  <2>1. scan' = Resting /\ UNCHANGED signatures /\ unseen' = unseen \cup scan.from
    BY <1>8 DEF ScanDies
  <2>2. ASSUME NEW p \in Pairs, Unproposed(p)' PROVE FALSE
    <3>1. Unproposed(p) /\ p \cap unseen' = {}
      BY <1>2, <2>1, <2>2 DEF Unproposed
    <3>. QED  BY <2>1, <3>1 DEF ScanInv
  <2>. QED  BY <2>1, <2>2 DEF ScanInv, AlikeAreProposed, Resting
<1>. QED  BY <1>3, <1>4, <1>5, <1>6, <1>7, <1>8, PairsStay DEF ScanOwn, ScanStep

(* Between scans no two living notes with alike signatures are left unproposed, but those of scans *)
(* that died: a scan from some notes compares each with all that earlier scans signed (dedup).     *)
THEOREM AlikeProposed == Spec => []AlikeAreProposed
<1>1. ScanInv => AlikeAreProposed
  BY DEF ScanInv
<1>2. MergingInv /\ ScanInv /\ [Next]_vars => ScanInv'
  BY ScanKept
<1>. QED  BY ScanInit, MergingInvariant, <1>1, <1>2, PTL DEF Spec
=============================================================================
