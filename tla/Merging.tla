------------------------------ MODULE Merging ------------------------------
(***************************************************************************)
(* Duplicate notes: the scan that proposes pairs, the user's resolutions,  *)
(* merge_notes, the stale sweep and the promotion of drafts.  Scans, merges *)
(* and the sweep run in the MCP server, in the worker and in commands of   *)
(* their own; each commits after every statement, so that any of them may  *)
(* come between two steps of another.                                      *)
(*                                                                         *)
(* Abstracted: a text counts the copies it holds of each piece; two texts  *)
(* are alike when they share half of their pieces.  Qdrant's answer is the *)
(* constant Similar, or a failure.  Scores, the annotation by title and    *)
(* the history row that follows a change of status are left out.           *)
(***************************************************************************)
EXTENDS Naturals, FiniteSets

CONSTANTS
  Notes, Calls,    \* note ids, and calls of note_merge or `duplicates merge`
  Server,          \* the calls that share the event loop of the MCP server
  Pieces,          \* what texts are made of
  Opening,         \* the pieces of each note at the start
  Edits,           \* pieces that edits append
  Drafts, Old,     \* notes never indexed yet, and notes last updated before the cutoff
  Asked, Handled,  \* notes that note_duplicates is asked about, and that users and tools handle
  Signed, Reviewed,  \* notes an earlier scan has signed, and pairs it has proposed and the user confirmed
  Similar,         \* pairs whose vectors are close
  NoFile, NoNote,
  MaxScans, MaxAnswers, MaxOthers   \* bounds: scans; resolutions by the user; what else comes between

SharesHalf(P, Q) == 2 * Cardinality(P \cap Q) \geq Cardinality(P \cup Q)

\* An edit appends a piece of its own; an earlier scan has proposed the alike notes it signed.
ASSUME MergingAssumption ==
  /\ Notes \subseteq Nat /\ Asked \subseteq Notes /\ Handled \subseteq Notes
  /\ Opening \in [Notes -> SUBSET Pieces] /\ Edits \subseteq Pieces
  /\ \A n \in Notes : Opening[n] \cap Edits = {}
  /\ Signed \subseteq Notes
  /\ \A m, n \in Signed : m # n /\ SharesHalf(Opening[m], Opening[n]) => {m, n} \in Reviewed
  /\ Server \subseteq Calls /\ NoNote \notin Notes
  /\ NoFile \notin [Pieces -> Nat]
  /\ MaxScans \in Nat /\ MaxAnswers \in Nat /\ MaxOthers \in Nat

VARIABLES
  files,       \* the vault: the text of each note's file
  rows,        \* the notes table
  candidates,  \* duplicate_candidates: the status of each pair
  signatures,  \* note_minhash_signatures: the text each was computed from
  merge,       \* where each merge_notes is
  scan,        \* where scan_for_duplicates is
  sweep,       \* where run_stale_sweep is
  promoting,   \* notes that index_note has read as drafts and is about to promote
  scans, answers, others,   \* what is left of scans and resolutions, and of edits, deletions, sweeps, promotions and failures
  made,        \* the edits made so far
  risked,      \* history: pieces in notes that were deleted, or that two merges, or a merge and an edit or a deletion, had at once
  doubled,     \* history: pieces of merges that overlapped, or were cut short between the file and the tombstone
  unseen       \* history: notes of scans that died before they proposed anything

vars == <<files, rows, candidates, signatures, merge, scan, sweep, promoting,
          scans, answers, others, made, risked, doubled, unseen>>

Text == [Pieces -> Nat]
Pairs == {{m, n} : m, n \in Notes} \ {{n} : n \in Notes}
In(text) == IF text = NoFile THEN {} ELSE {x \in Pieces : text[x] > 0}

Resting == [pc |-> "idle", from |-> {}, active |-> {}, todo |-> {}, found |-> {}]
NewMerge(pc, k, a) == [pc |-> pc, keep |-> k, absorb |-> a, body |-> NoFile]
NewCall == NewMerge("new", NoNote, NoNote)

Init ==
  /\ files = [n \in Notes |-> [x \in Pieces |-> IF x \in Opening[n] THEN 1 ELSE 0]]
  /\ rows = [n \in Notes |-> [hash |-> files[n], deleted |-> FALSE, old |-> n \in Old,
                              status |-> IF n \in Drafts THEN "draft" ELSE "active"]]
  /\ candidates = [p \in Pairs |-> IF p \in Reviewed THEN "confirmed" ELSE "none"]
  /\ signatures = [n \in Notes |-> IF n \in Signed THEN files[n] ELSE NoFile]
  /\ merge = [c \in Calls |-> NewCall]
  /\ scan = Resting
  /\ sweep = [pc |-> "idle", todo |-> {}]
  /\ promoting = {}
  /\ scans = MaxScans /\ answers = MaxAnswers /\ others = MaxOthers
  /\ made = {} /\ risked = {} /\ doubled = {} /\ unseen = {}

Spend == others > 0 /\ others' = others - 1

Active(n) == ~rows[n].deleted

\* transition_status writes whatever status it is told over whatever there is.
SetStatus(n, status) == rows' = [rows EXCEPT ![n].status = status, ![n].old = FALSE]
SetHash(n, text) == rows' = [rows EXCEPT ![n].hash = text, ![n].old = FALSE]
BugSoftDelete(n) == SetStatus(n, "superseded")
SoftDelete(n) == rows' = [rows EXCEPT ![n].deleted = TRUE]

-----------------------------------------------------------------------------
(* scan_for_duplicates. *)

Alike(s, t) == SharesHalf(In(s), In(t))
PairsOf(from, with) == {p \in Pairs : p \cap from # {} /\ p \subseteq with}

\* Rows come in the order of their ids.
First(n, todo) == n \in todo /\ \A m \in todo : n \leq m

\* list_active: whatever the status.
Listed == {n \in Notes : Active(n)}

\* The whole vault, or from one note (note_duplicates); the pairs of equal hash are found here.
ListActive(from) ==
  /\ scan.pc = "idle" /\ scans > 0 /\ scans' = scans - 1
  /\ LET scanned == from \cap Listed IN
     scan' = [Resting EXCEPT !.pc = "sign", !.from = scanned, !.todo = scanned, !.active = Listed,
                !.found = {p \in PairsOf(scanned, Listed) : \A m, n \in p : rows[m].hash = rows[n].hash}]
  /\ UNCHANGED <<files, rows, candidates, signatures, merge, sweep, promoting, answers, others, made, risked, doubled, unseen>>

\* An unreadable file leaves the signature of an earlier scan in place.
Sign(n) ==
  /\ scan.pc = "sign" /\ First(n, scan.todo)
  /\ signatures' = IF files[n] = NoFile THEN signatures ELSE [signatures EXCEPT ![n] = files[n]]
  /\ scan' = [scan EXCEPT !.todo = @ \ {n}]
  /\ UNCHANGED <<files, rows, candidates, merge, sweep, promoting, scans, answers, others, made, risked, doubled, unseen>>

\* Signatures of notes that were not active when the scan began are passed over.
BugLexical ==
  {p \in PairsOf(scan.from, scan.from) :
     \A m, n \in p : signatures[m] # NoFile /\ signatures[n] # NoFile /\ Alike(signatures[m], signatures[n])}
Lexical ==
  {p \in PairsOf(scan.from, scan.active) :
     \A m, n \in p : signatures[m] # NoFile /\ signatures[n] # NoFile /\ Alike(signatures[m], signatures[n])}

\* A failure of Qdrant discards what the vectors had found so far.
Match ==
  /\ scan.pc = "sign" /\ scan.todo = {}
  /\ \E semantic \in {{}, Similar \cap PairsOf(scan.from, scan.active)} :
       scan' = [scan EXCEPT !.pc = "upsert", !.found = @ \cup Lexical \cup semantic]
  /\ UNCHANGED <<files, rows, candidates, signatures, merge, sweep, promoting, scans, answers, others, made, risked, doubled, unseen>>

\* The scores of a pending pair are refreshed, those of a resolved one are left alone.
BugUpserted(status) == "pending"
Upserted(status) == IF status = "none" THEN "pending" ELSE status

\* The pairs are upserted one by one; a merge looks at none of those it changes.
UpsertAll ==
  /\ scan.pc = "upsert"
  /\ candidates' = [p \in Pairs |-> IF p \in scan.found THEN Upserted(candidates[p]) ELSE candidates[p]]
  /\ scan' = Resting
  /\ UNCHANGED <<files, rows, signatures, merge, sweep, promoting, scans, answers, others, made, risked, doubled, unseen>>

\* update_resolution, whatever the status is.
SetResolution(p, status) == candidates' = [candidates EXCEPT ![p] = status]

\* resolve_duplicate: any candidate, whatever has become of it since.
Resolve(p, resolution) ==
  /\ candidates[p] # "none" /\ candidates[p] # resolution
  /\ answers > 0 /\ answers' = answers - 1
  /\ SetResolution(p, resolution)
  /\ UNCHANGED <<files, rows, signatures, merge, scan, sweep, promoting, scans, others, made, risked, doubled, unseen>>

-----------------------------------------------------------------------------
(* merge_notes. *)

Running(c) == merge[c].pc \notin {"new", "done", "dead"}
Of(c) == {merge[c].keep, merge[c].absorb}
\* The merges at work on one of ns, and all that they and ns have in files or in hand.
Busy(ns) == {c \in Calls : Running(c) /\ Of(c) \cap ns # {}}
AtStake(ns) ==
  UNION ({In(files[n]) : n \in ns \cup UNION {Of(c) : c \in Busy(ns)}}
          \cup {In(merge[c].body) : c \in Busy(ns)})
Overlap(ns) == IF Busy(ns) = {} THEN {} ELSE AtStake(ns)

\* In the server nothing runs between the reads and the write.
Resume(c, pc) ==
  /\ merge[c].pc = pc
  /\ c \in Server => \A d \in Server \ {c} : merge[d].pc # "write"
Goto(c, pc) == merge' = [merge EXCEPT ![c].pc = pc]
Finish(c, pc) == merge' = [merge EXCEPT ![c] = NewMerge(pc, NoNote, NoNote)]

\* note_merge looks at the candidate before it asks the user; the command goes straight through the gate.
BeginMerge(c, k, a) ==
  /\ Resume(c, "new") /\ {k, a} \in Pairs
  /\ candidates[{k, a}] = "confirmed"
  /\ merge' = [merge EXCEPT ![c] = NewMerge(IF c \in Server THEN "gate" ELSE "keep", k, a)]
  /\ risked' = risked \cup Overlap({k, a})
  /\ doubled' = doubled \cup Overlap({k, a})
  /\ UNCHANGED <<files, rows, candidates, signatures, scan, sweep, promoting, scans, answers, others, made, unseen>>

\* The two-step gate, in merge_notes itself.
Gate(c) ==
  /\ Resume(c, "gate")
  /\ IF candidates[Of(c)] = "confirmed" THEN Goto(c, "keep") ELSE Finish(c, "done")
  /\ UNCHANGED <<files, rows, candidates, signatures, scan, sweep, promoting, scans, answers, others, made, risked, doubled, unseen>>

BugCheckKeep(c) ==
  /\ Resume(c, "keep")
  /\ Goto(c, "absorb")
  /\ UNCHANGED <<files, rows, candidates, signatures, scan, sweep, promoting, scans, answers, others, made, risked, doubled, unseen>>

CheckKeep(c) ==
  /\ Resume(c, "keep")
  /\ IF Active(merge[c].keep) THEN Goto(c, "absorb") ELSE Finish(c, "done")
  /\ UNCHANGED <<files, rows, candidates, signatures, scan, sweep, promoting, scans, answers, others, made, risked, doubled, unseen>>

BugReadable(k, a) == files[k] # NoFile /\ files[a] # NoFile
Readable(k, a) == Active(a) /\ files[k] # NoFile /\ files[a] # NoFile

\* The absorbed note is checked and, without an await, both bodies are read.
ReadBodies(c) ==
  LET k == merge[c].keep
      a == merge[c].absorb IN
  /\ Resume(c, "absorb")
  /\ IF Readable(k, a)
     THEN merge' = [merge EXCEPT ![c].pc = "write",
                                 ![c].body = [x \in Pieces |-> files[k][x] + files[a][x]]]
     ELSE Finish(c, "done")
  /\ UNCHANGED <<files, rows, candidates, signatures, scan, sweep, promoting, scans, answers, others, made, risked, doubled, unseen>>

\* The file of the kept note, before any row.
WriteMerged(c) ==
  /\ Resume(c, "write")
  /\ files' = [files EXCEPT ![merge[c].keep] = merge[c].body]
  /\ Goto(c, "hash")
  /\ UNCHANGED <<rows, candidates, signatures, scan, sweep, promoting, scans, answers, others, made, risked, doubled, unseen>>

RecordHash(c) ==
  /\ Resume(c, "hash")
  /\ SetHash(merge[c].keep, merge[c].body)
  /\ merge' = [merge EXCEPT ![c].pc = "index", ![c].body = NoFile]
  /\ UNCHANGED <<files, candidates, signatures, scan, sweep, promoting, scans, answers, others, made, risked, doubled, unseen>>

\* index_note, best effort; it promotes a kept draft when it succeeds.
Reindex(c) ==
  LET k == merge[c].keep IN
  /\ Resume(c, "index")
  /\ \/ rows[k].status = "draft" /\ SetStatus(k, "active")
     \/ UNCHANGED rows
  /\ Goto(c, "tombstone")
  /\ UNCHANGED <<files, candidates, signatures, scan, sweep, promoting, scans, answers, others, made, risked, doubled, unseen>>

Tombstone(c) ==
  /\ Resume(c, "tombstone")
  /\ SoftDelete(merge[c].absorb)
  /\ Goto(c, "supersede")
  /\ UNCHANGED <<files, candidates, signatures, scan, sweep, promoting, scans, answers, others, made, risked, doubled, unseen>>

\* The status of the absorbed note; the provenance row follows.
Supersede(c) ==
  /\ Resume(c, "supersede")
  /\ SetStatus(merge[c].absorb, "superseded")
  /\ Goto(c, "resolve")
  /\ UNCHANGED <<files, candidates, signatures, scan, sweep, promoting, scans, answers, others, made, risked, doubled, unseen>>

MarkMerged(c) ==
  /\ Resume(c, "resolve")
  /\ SetResolution(Of(c), "merged")
  /\ Finish(c, "done")
  /\ UNCHANGED <<files, rows, signatures, scan, sweep, promoting, scans, answers, others, made, risked, doubled, unseen>>

-----------------------------------------------------------------------------
(* Status: the stale sweep, and the promotion that follows an index. *)

\* list_stale_candidates.
SweepList ==
  /\ sweep.pc = "idle"
  /\ sweep' = [pc |-> "pending", todo |-> {n \in Listed : rows[n].status = "active" /\ rows[n].old}]
  /\ Spend
  /\ UNCHANGED <<files, rows, candidates, signatures, merge, scan, promoting, scans, answers, made, risked, doubled, unseen>>

\* A note the review queue already names is spared.
SweepSpare ==
  /\ sweep.pc = "pending"
  /\ sweep' = [pc |-> "flag", todo |-> {n \in sweep.todo : \A p \in Pairs : n \in p => candidates[p] # "pending"}]
  /\ UNCHANGED <<files, rows, candidates, signatures, merge, scan, promoting, scans, answers, others, made, risked, doubled, unseen>>

Flag(n) ==
  /\ sweep.pc = "flag" /\ First(n, sweep.todo)
  /\ SetStatus(n, "stale")
  /\ sweep' = [sweep EXCEPT !.todo = @ \ {n}]
  /\ UNCHANGED <<files, candidates, signatures, merge, scan, promoting, scans, answers, others, made, risked, doubled, unseen>>

SweepEnds ==
  /\ sweep.pc = "flag" /\ sweep.todo = {}
  /\ sweep' = [pc |-> "idle", todo |-> {}]
  /\ UNCHANGED <<files, rows, candidates, signatures, merge, scan, promoting, scans, answers, others, made, risked, doubled, unseen>>

\* promote_on_first_index: the status is read in one step and written in another.
ReadDraft(n) ==
  /\ Active(n) /\ rows[n].status = "draft"
  /\ promoting' = promoting \cup {n}
  /\ Spend
  /\ UNCHANGED <<files, rows, candidates, signatures, merge, scan, sweep, scans, answers, made, risked, doubled, unseen>>

Promote(n) ==
  /\ n \in promoting
  /\ promoting' = promoting \ {n}
  /\ SetStatus(n, "active")
  /\ UNCHANGED <<files, candidates, signatures, merge, scan, sweep, scans, answers, others, made, risked, doubled, unseen>>

-----------------------------------------------------------------------------
(* The rest of the system, and failures. *)

\* A patch by a tool or the user, which appends one piece.
Edit(n, e) ==
  /\ files[n] # NoFile /\ e \notin made
  /\ files' = [files EXCEPT ![n][e] = 1]
  /\ made' = made \cup {e}
  /\ risked' = IF Active(n) /\ Busy({n}) = {} THEN risked ELSE risked \cup {e}
  /\ Spend
  /\ UNCHANGED <<rows, candidates, signatures, merge, scan, sweep, promoting, scans, answers, doubled, unseen>>

\* ingest_note records what it reads.
Ingest(n) ==
  /\ files[n] # NoFile /\ rows[n].hash # files[n]
  /\ SetHash(n, files[n])
  /\ UNCHANGED <<files, candidates, signatures, merge, scan, sweep, promoting, scans, answers, others, made, risked, doubled, unseen>>

\* note_delete.
Delete(n) ==
  /\ files[n] # NoFile /\ Active(n)
  /\ files' = [files EXCEPT ![n] = NoFile]
  /\ SoftDelete(n)
  /\ risked' = risked \cup AtStake({n})
  /\ Spend
  /\ UNCHANGED <<candidates, signatures, merge, scan, sweep, promoting, scans, answers, made, doubled, unseen>>

\* The file of the kept note is written, the absorbed note is not a tombstone yet.
HalfDone(c) == merge[c].pc \in {"hash", "index", "tombstone"}

\* A crash, a cancellation, or an error of the database.
Cut(c) ==
  /\ Running(c)
  /\ Finish(c, "dead")
  /\ doubled' = IF HalfDone(c) THEN doubled \cup In(files[merge[c].absorb]) ELSE doubled
  /\ Spend
  /\ UNCHANGED <<files, rows, candidates, signatures, scan, sweep, promoting, scans, answers, made, risked, unseen>>

\* The process of the scan dies: signatures are kept, pairs are not compared.
ScanDies ==
  /\ scan.pc # "idle"
  /\ scan' = Resting
  /\ unseen' = unseen \cup scan.from
  /\ Spend
  /\ UNCHANGED <<files, rows, candidates, signatures, merge, sweep, promoting, scans, answers, made, risked, doubled>>

ScanStep == (\E n \in Notes : Sign(n)) \/ Match \/ UpsertAll
MergeStep(c) ==
  \/ Gate(c) \/ CheckKeep(c) \/ ReadBodies(c) \/ WriteMerged(c) \/ RecordHash(c)
  \/ Reindex(c) \/ Tombstone(c) \/ Supersede(c) \/ MarkMerged(c)
StatusStep ==
  \/ SweepList \/ SweepSpare \/ (\E n \in Notes : Flag(n)) \/ SweepEnds
  \/ \E n \in Notes : ReadDraft(n) \/ Promote(n)

Next ==
  \/ ListActive(Notes) \/ (\E n \in Asked : ListActive({n})) \/ ScanStep
  \/ \E p \in Pairs, resolution \in {"confirmed", "rejected"} : Resolve(p, resolution)
  \/ \E c \in Calls : (\E k, a \in Notes : BeginMerge(c, k, a)) \/ MergeStep(c) \/ Cut(c)
  \/ StatusStep \/ ScanDies
  \/ \E n \in Handled : (\E e \in Edits : Edit(n, e)) \/ Delete(n)
  \/ \E n \in Notes : Ingest(n)

Spec == Init /\ [][Next]_vars

-----------------------------------------------------------------------------
(* Properties. *)

Statuses == {"none", "pending", "confirmed", "rejected", "merged"}

TypeOK ==
  /\ files \in [Notes -> Text \cup {NoFile}]
  /\ rows \in [Notes -> [hash : Text, deleted : BOOLEAN, old : BOOLEAN,
                         status : {"draft", "active", "stale", "superseded"}]]
  /\ candidates \in [Pairs -> Statuses]
  /\ signatures \in [Notes -> Text \cup {NoFile}]
  /\ merge \in [Calls -> [pc : {"new", "gate", "keep", "absorb", "write", "hash", "index", "tombstone",
                                "supersede", "resolve", "done", "dead"},
                          keep : Notes \cup {NoNote}, absorb : Notes \cup {NoNote},
                          body : Text \cup {NoFile}]]
  /\ scan \in [pc : {"idle", "sign", "upsert"}, from : SUBSET Notes, active : SUBSET Notes,
               todo : SUBSET Notes, found : SUBSET Pairs]
  /\ sweep \in [pc : {"idle", "pending", "flag"}, todo : SUBSET Notes]
  /\ promoting \subseteq Notes
  /\ scans \in Nat /\ answers \in Nat /\ others \in Nat
  /\ made \subseteq Edits /\ risked \subseteq Pieces /\ doubled \subseteq Pieces /\ unseen \subseteq Notes

\* A merge at work is about a pair, and holds a body once it has read both.
CallData == \A c \in Calls :
  /\ Running(c) => {merge[c].keep, merge[c].absorb} \in Pairs
  /\ merge[c].pc \in {"write", "hash"} => merge[c].body # NoFile
  /\ merge[c].pc \in {"supersede", "resolve"} => rows[merge[c].absorb].deleted

\* Only a tombstone is superseded: the status says so after the row is dead, however the sweep,
\* the promotion of drafts and other merges come between the two commits.
SupersededIsDead == \A n \in Notes : rows[n].status = "superseded" => rows[n].deleted

\* A candidate is marked merged when one of its notes is a tombstone, whoever resolves it again
\* meanwhile and wherever merges are cut short.
MergedIsFolded == \A p \in Pairs : candidates[p] = "merged" => \E n \in p : rows[n].deleted

MergingInv == TypeOK /\ CallData /\ SupersededIsDead /\ MergedIsFolded

\* Every piece of text is in a note that lives: through chains of merges of any length, merges cut
\* short at any step and tried again, and candidates confirmed a second time.  Only a deletion, and
\* the overlap of a merge with another one of its notes, with an edit or with a deletion, may lose some.
KeptAlive ==
  \A x \in (made \cup UNION {Opening[n] : n \in Notes}) \ risked :
    \E n \in Notes : Active(n) /\ x \in In(files[n])

\* The pieces that one note only had at the start.
Sole(x) == \E m \in Notes : x \in Opening[m] /\ \A l \in Notes \ {m} : x \notin Opening[l]

\* No note comes to hold a piece twice, though a candidate may be confirmed again after it was
\* merged, and whatever is merged later.  Only overlapping merges fold a piece in twice, and a merge
\* cut short after the file and before the tombstone when it is tried again.
MergedOnce ==
  \A x \in Pieces \ doubled, n \in Notes : Sole(x) /\ files[n] # NoFile => files[n][x] \leq 1

\* Between scans no two active notes with alike signatures are left unproposed: a scan from one
\* note compares it with every signature that other scans have left.
Unproposed(p) ==
  /\ p \cap unseen = {} /\ candidates[p] = "none"
  /\ \A n \in p : Active(n) /\ signatures[n] # NoFile
  /\ \A m, n \in p : Alike(signatures[m], signatures[n])

AlikeAreProposed == scan.pc = "idle" => \A p \in Pairs : ~Unproposed(p)

\* What a person, or a merge, has resolved no scan reopens: a candidate never becomes pending again.
NeverReopened == [][\A p \in Pairs : candidates[p] # "none" /\ candidates'[p] = "pending" =>
                                       candidates[p] = "pending"]_vars
=============================================================================
