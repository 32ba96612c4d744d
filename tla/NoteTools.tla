----------------------------- MODULE NoteTools -----------------------------
(***************************************************************************)
(* The tools of the MCP server that write notes, note_create, note_move,   *)
(* note_update (patch and overwrite), note_link and note_delete, against   *)
(* the worker's ingest_note and a user who edits the same files.           *)
(*                                                                         *)
(* A tool is a coroutine: other calls run whenever it awaits the database  *)
(* or the user's answer, and only then.  The worker and the user are other *)
(* processes and come between any two steps.  Every tool touches the file  *)
(* first and the row afterwards, in a commit of its own.                   *)
(*                                                                         *)
(* One server is assumed.  Its transport is stdio, so each host starts one *)
(* of its own, and the calls of two hosts would not wait for each other.   *)
(*                                                                         *)
(* Abstracted: a text is the piece that opened the file and the set of     *)
(* pieces appended since; a call adds one piece, named after the call.     *)
(* note_link is a patch.  The auto-commit and the event that end a tool    *)
(* never raise and are left out.  Secrets, findings, provenance and the    *)
(* path locks of ingest_note are Ingestion's.                              *)
(***************************************************************************)
EXTENDS Naturals, FiniteSets

CONSTANTS
  Paths,       \* vault-relative paths
  Seeded,      \* the paths with a note at the start; a path also names its first text
  Calls,       \* tool calls; a call also names the text it adds
  Edits,       \* edits by the user; an edit also names its text
  Front,       \* the texts that open with a frontmatter block
  NoFile, NoCall,
  MaxNotes, MaxMishaps   \* bounds on what is explored: rows, and removals by the user and crashes together

ASSUME NoteToolsAssumption ==
  /\ Seeded \subseteq Paths /\ IsFiniteSet(Seeded) /\ Cardinality(Seeded) \leq MaxNotes
  /\ Paths \cap Calls = {} /\ Paths \cap Edits = {} /\ Calls \cap Edits = {}
  /\ NoCall \notin Calls
  /\ NoFile \notin [base : Paths \cup Calls \cup Edits, added : SUBSET Calls]
  /\ MaxNotes \in Nat /\ MaxMishaps \in Nat

VARIABLES
  disk,     \* the vault: the text at each path
  notes,    \* the notes table
  signals,  \* paths the watcher has queued an ingest for
  worker,   \* where ingest_note is in the worker
  call,     \* where each tool call is, and what it holds
  loop,     \* the call that has the event loop between two of its steps
  written,  \* history: texts some call has put into a file
  erased,   \* history: texts removed by the user, a confirmed overwrite or a confirmed delete
  mixed,    \* history: paths where two calls, or a call and the user, were at work together
  passed,   \* history: notes whose vanished file was taken for the delete half of a move
  mishaps   \* removals and crashes left

vars == <<disk, notes, signals, worker, call, loop, written, erased, mixed, passed, mishaps>>

Pieces == Paths \cup Calls \cup Edits
Text == [base : Pieces, added : SUBSET Calls]
File == Text \cup {NoFile}
NoteIds == 1..MaxNotes
Ops == {"create", "move", "patch", "overwrite", "delete"}

Fresh(x) == [base |-> x, added |-> {}]
In(text) == IF text = NoFile THEN {} ELSE {text.base} \cup text.added

\* The tools hash the whole file, ingest_note what follows the frontmatter: the same for a plain note.
RawHash(text) == [form |-> "raw", text |-> text]
BodyHash(text) == [form |-> IF text.base \in Front THEN "body" ELSE "raw", text |-> text]
Hashes == [form : {"raw", "body"}, text : Text]

Row(p, h) == [path |-> p, hash |-> h, deleted |-> FALSE]
Rows == [path : Paths, hash : Hashes, deleted : BOOLEAN]

IdleWorker == [pc |-> "idle", path |-> NoCall, text |-> NoFile, what |-> "none", note |-> 0]
NewCall == [pc |-> "new", op |-> "none", path |-> NoCall, to |-> NoCall, note |-> 0, text |-> NoFile]

Init ==
  /\ disk = [p \in Paths |-> IF p \in Seeded THEN Fresh(p) ELSE NoFile]
  /\ \E rows \in [1..Cardinality(Seeded) -> Seeded] :
       /\ \A i, j \in DOMAIN rows : rows[i] = rows[j] => i = j
       /\ notes = [i \in DOMAIN rows |-> Row(rows[i], BodyHash(Fresh(rows[i])))]
  /\ signals = {}
  /\ worker = IdleWorker
  /\ call = [c \in Calls |-> NewCall]
  /\ loop = NoCall
  /\ written = {} /\ erased = {} /\ mixed = {} /\ passed = {}
  /\ mishaps = MaxMishaps

-----------------------------------------------------------------------------
(* The notes table: path is UNIQUE, tombstones included. *)

At(p) == {n \in DOMAIN notes : notes[n].path = p}
Active(n) == ~notes[n].deleted
BugTaken(p) == \E n \in At(p) : Active(n)
Taken(p) == At(p) # {}

\* The row lastrowid names: ids are handed out in order.
NextId == Cardinality(DOMAIN notes) + 1
Insert(p, h) ==
  /\ NextId \in NoteIds
  /\ notes' = [n \in DOMAIN notes \cup {NextId} |-> IF n = NextId THEN Row(p, h) ELSE notes[n]]

SetHash(n, h) == notes' = [notes EXCEPT ![n].hash = h]
SetPath(n, p) == notes' = [notes EXCEPT ![n].path = p]
SetDeleted(n) == notes' = [notes EXCEPT ![n].deleted = TRUE]

-----------------------------------------------------------------------------
(* Tool calls. *)

Running(c) == call[c].pc \notin {"new", "done", "dead"}
\* The paths a call works on, that of the row it holds included.
On(c) == {call[c].path, call[c].to} \cup {notes[n].path : n \in {call[c].note} \cap DOMAIN notes}
AtWork(ps) == {c \in Calls : Running(c) /\ On(c) \cap ps # {}}
Mixes(ps) == IF AtWork(ps) = {} THEN mixed ELSE mixed \cup ps \cup UNION {On(c) : c \in AtWork(ps)}

\* A coroutine resumes only when no other holds the event loop.
Resume(c, pc) == call[c].pc = pc /\ loop \in {NoCall, c}
Goto(c, pc) == call' = [call EXCEPT ![c].pc = pc]
Ended(pc) == [NewCall EXCEPT !.pc = pc]
Finish(c) == call' = [call EXCEPT ![c] = Ended("done")]
Release == loop' = NoCall

Change(p, text) ==
  /\ disk' = [disk EXCEPT ![p] = text]
  /\ signals' = signals \cup {p}

Begin(c, op, p, q) ==
  /\ call[c].pc = "new"
  /\ (op = "move") = (p # q)
  /\ call' = [call EXCEPT ![c] = [NewCall EXCEPT !.pc = IF op = "create" THEN "open" ELSE "lookup",
                                                !.op = op, !.path = p, !.to = q]]
  /\ mixed' = Mixes({p, q})
  /\ UNCHANGED <<disk, notes, signals, worker, loop, written, erased, passed, mishaps>>

\* note_create: os.open with O_EXCL, then the text; an existing file ends the call.
OpenFile(c) ==
  LET p == call[c].path IN
  /\ Resume(c, "open")
  /\ IF disk[p] = NoFile
     THEN Change(p, Fresh(c)) /\ Goto(c, "insert") /\ written' = written \cup {c}
     ELSE Finish(c) /\ UNCHANGED <<disk, signals, written>>
  /\ UNCHANGED <<notes, worker, loop, erased, mixed, passed, mishaps>>

\* The INSERT raises when the path has a row, even a tombstone.
InsertRow(c) ==
  LET p == call[c].path IN
  /\ Resume(c, "insert")
  /\ IF Taken(p) THEN UNCHANGED notes ELSE Insert(p, RawHash(Fresh(c)))
  /\ Finish(c)
  /\ UNCHANGED <<disk, signals, worker, loop, written, erased, mixed, passed, mishaps>>

\* get_by_path: note_move takes a tombstone too.
AfterLookup(op) == CASE op = "move" -> "link" [] op = "delete" -> "asked" [] OTHER -> "read"

Lookup(c) ==
  LET found == {n \in At(call[c].path) : Active(n) \/ call[c].op = "move"} IN
  /\ Resume(c, "lookup")
  /\ \/ found = {} /\ Finish(c)
     \/ \E n \in found :
          call' = [call EXCEPT ![c].pc = AfterLookup(call[c].op), ![c].note = n]
  /\ UNCHANGED <<disk, notes, signals, worker, loop, written, erased, mixed, passed, mishaps>>

\* note_move: both paths are resolved and the new one linked without an await in between.
LinkFile(c) ==
  LET p == call[c].path
      q == call[c].to IN
  /\ Resume(c, "link")
  /\ IF disk[p] # NoFile /\ disk[q] = NoFile
     THEN Change(q, disk[p]) /\ Goto(c, "unlink") /\ loop' = c
     ELSE Finish(c) /\ UNCHANGED <<disk, signals, loop>>
  /\ UNCHANGED <<notes, worker, written, erased, mixed, passed, mishaps>>

\* unlink raises when the file has gone.
UnlinkOld(c) ==
  LET p == call[c].path IN
  /\ Resume(c, "unlink")
  /\ Release
  /\ IF disk[p] = NoFile
     THEN Finish(c) /\ UNCHANGED <<disk, signals>>
     ELSE Change(p, NoFile) /\ Goto(c, "row")
  /\ UNCHANGED <<notes, worker, written, erased, mixed, passed, mishaps>>

MoveRow(c) ==
  LET n == call[c].note
      q == call[c].to IN
  /\ Resume(c, "row")
  /\ IF At(q) \subseteq {n} THEN SetPath(n, q) ELSE UNCHANGED notes
  /\ mixed' = IF notes[n].path \in mixed THEN mixed \cup {q} ELSE mixed
  /\ Finish(c)
  /\ UNCHANGED <<disk, signals, worker, loop, written, erased, passed, mishaps>>

\* As if the patch awaited something between the read and the write.
BugReadBody(c) ==
  /\ Resume(c, "read")
  /\ IF disk[call[c].path] = NoFile
     THEN Finish(c)
     ELSE call' = [call EXCEPT ![c].pc = IF call[c].op = "patch" THEN "write" ELSE "asked",
                               ![c].text = disk[call[c].path]]
  /\ UNCHANGED <<disk, notes, signals, worker, loop, written, erased, mixed, passed, mishaps>>

\* note_update and note_link read the body; a patch keeps the event loop until it has written.
ReadBody(c) ==
  LET p == call[c].path IN
  /\ Resume(c, "read")
  /\ IF disk[p] = NoFile
     THEN Finish(c) /\ UNCHANGED loop
     ELSE IF call[c].op = "patch"
     THEN call' = [call EXCEPT ![c].pc = "write", ![c].text = disk[p]] /\ loop' = c
     ELSE Goto(c, "asked") /\ UNCHANGED loop
  /\ UNCHANGED <<disk, notes, signals, worker, written, erased, mixed, passed, mishaps>>

\* As if the hash to record were that of the body that was read.
BugWritePatch(c) ==
  /\ Resume(c, "write")
  /\ Release
  /\ Change(call[c].path, [call[c].text EXCEPT !.added = @ \cup {c}])
  /\ written' = written \cup {c}
  /\ Goto(c, "hash")
  /\ UNCHANGED <<notes, worker, erased, mixed, passed, mishaps>>

\* write_text creates the file again if it has gone.
WritePatch(c) ==
  LET new == [call[c].text EXCEPT !.added = @ \cup {c}] IN
  /\ Resume(c, "write")
  /\ Release
  /\ Change(call[c].path, new)
  /\ written' = written \cup {c}
  /\ call' = [call EXCEPT ![c].pc = "hash", ![c].text = new]
  /\ UNCHANGED <<notes, worker, erased, mixed, passed, mishaps>>

\* The user accepted: the body is replaced, whatever it is by now.
Overwrite(c) ==
  LET p == call[c].path IN
  /\ Resume(c, "asked") /\ call[c].op = "overwrite"
  /\ Change(p, Fresh(c))
  /\ written' = written \cup {c}
  /\ erased' = erased \cup In(disk[p])
  /\ call' = [call EXCEPT ![c].pc = "hash", ![c].text = Fresh(c)]
  /\ UNCHANGED <<notes, worker, loop, mixed, passed, mishaps>>

RecordHash(c) ==
  /\ Resume(c, "hash")
  /\ SetHash(call[c].note, RawHash(call[c].text))
  /\ Finish(c)
  /\ UNCHANGED <<disk, signals, worker, loop, written, erased, mixed, passed, mishaps>>

\* note_delete, accepted: the file at the path goes, then the row that was looked up.
RemoveFile(c) ==
  LET p == call[c].path IN
  /\ Resume(c, "asked") /\ call[c].op = "delete"
  /\ IF disk[p] = NoFile
     THEN Finish(c) /\ UNCHANGED <<disk, signals, erased>>
     ELSE Change(p, NoFile) /\ Goto(c, "tombstone") /\ erased' = erased \cup In(disk[p])
  /\ UNCHANGED <<notes, worker, loop, written, mixed, passed, mishaps>>

Tombstone(c) ==
  /\ Resume(c, "tombstone")
  /\ SetDeleted(call[c].note)
  /\ Finish(c)
  /\ UNCHANGED <<disk, signals, worker, loop, written, erased, mixed, passed, mishaps>>

\* Declined, cancelled, or the wrong path typed.
Decline(c) ==
  /\ Resume(c, "asked")
  /\ Finish(c)
  /\ UNCHANGED <<disk, notes, signals, worker, loop, written, erased, mixed, passed, mishaps>>

-----------------------------------------------------------------------------
(* ingest_note in the worker: what it reads, what it decides, its one commit. *)

ReadFile(p) ==
  /\ worker.pc = "idle" /\ p \in signals
  /\ signals' = signals \ {p}
  /\ worker' = [IdleWorker EXCEPT !.pc = "decide", !.path = p, !.text = disk[p]]
  /\ UNCHANGED <<disk, notes, call, loop, written, erased, mixed, passed, mishaps>>

Decided(what, n) == worker' = [worker EXCEPT !.pc = "commit", !.what = what, !.note = n]
Like(h) == {n \in DOMAIN notes : Active(n) /\ notes[n].hash = h}
BugDiffers(n) == ~notes[n].deleted /\ notes[n].hash # BodyHash(worker.text)
Differs(n) == notes[n].deleted \/ notes[n].hash # BodyHash(worker.text)

\* A path without a file: a deletion, unless another note with the hash still has its file.
DecideVanished ==
  LET here == {n \in At(worker.path) : Active(n)} IN
  /\ worker.pc = "decide" /\ worker.text = NoFile
  /\ \/ here = {} /\ worker' = IdleWorker /\ UNCHANGED passed
     \/ \E n \in here :
          IF \E m \in Like(notes[n].hash) \ {n} : disk[notes[m].path] # NoFile
          THEN worker' = IdleWorker /\ passed' = passed \cup {n}
          ELSE Decided("delete", n) /\ UNCHANGED passed
  /\ UNCHANGED <<disk, notes, signals, call, loop, written, erased, mixed, mishaps>>

DecideFile ==
  LET here == At(worker.path)
      movers == {n \in Like(BodyHash(worker.text)) : disk[notes[n].path] = NoFile} IN
  /\ worker.pc = "decide" /\ worker.text # NoFile
  /\ \/ \E n \in here : IF Differs(n) THEN Decided("update", n) ELSE worker' = IdleWorker
     \/ here = {} /\ movers = {} /\ Decided("create", 0)
     \/ here = {} /\ \E n \in movers : Decided("move", n)
  /\ UNCHANGED <<disk, notes, signals, call, loop, written, erased, mixed, passed, mishaps>>

\* Nothing touched the moved note between the decision and the commit.
MoveIsSound(n, h) ==
  LET old == notes[n].path IN
  old \notin mixed /\ AtWork({old}) = {} /\ disk[old] = NoFile /\ notes[n].hash = h

\* A path taken meanwhile raises, and the task is tried again.
CommitIngest ==
  LET p == worker.path
      h == BodyHash(worker.text) IN
  /\ worker.pc = "commit"
  /\ \/ worker.what = "update" /\ SetHash(worker.note, h) /\ UNCHANGED <<signals, mixed>>
     \/ worker.what = "delete" /\ SetDeleted(worker.note) /\ UNCHANGED <<signals, mixed>>
     \/ worker.what = "create" /\ ~Taken(p) /\ Insert(p, h) /\ UNCHANGED <<signals, mixed>>
     \/ worker.what = "move" /\ ~Taken(p) /\ SetPath(worker.note, p) /\ UNCHANGED signals
        /\ mixed' = IF MoveIsSound(worker.note, h) THEN mixed ELSE mixed \cup {p}
     \/ /\ worker.what \in {"create", "move"} /\ Taken(p)
        /\ signals' = signals \cup {p}
        /\ UNCHANGED <<notes, mixed>>
  /\ worker' = IdleWorker
  /\ UNCHANGED <<disk, call, loop, written, erased, passed, mishaps>>

-----------------------------------------------------------------------------
(* The user and failures. *)

Spend == mishaps > 0 /\ mishaps' = mishaps - 1

\* An editor saves a new file over the old one.
Edit(p, e) ==
  /\ e \notin written
  /\ Change(p, Fresh(e))
  /\ written' = written \cup {e}
  /\ erased' = erased \cup In(disk[p])
  /\ mixed' = Mixes({p})
  /\ UNCHANGED <<notes, worker, call, loop, passed, mishaps>>

Remove(p) ==
  /\ disk[p] # NoFile
  /\ Change(p, NoFile)
  /\ erased' = erased \cup In(disk[p])
  /\ mixed' = Mixes({p})
  /\ Spend
  /\ UNCHANGED <<notes, worker, call, loop, written, passed>>

\* The MCP server dies with its calls.
ServerCrash ==
  /\ Spend
  /\ call' = [c \in Calls |-> IF Running(c) THEN Ended("dead") ELSE call[c]]
  /\ loop' = NoCall
  /\ UNCHANGED <<disk, notes, signals, worker, written, erased, mixed, passed>>

\* The worker dies with what was queued and, started again, reconciles: every file, every active note.
WorkerRestart ==
  /\ Spend
  /\ worker' = IdleWorker
  /\ signals' = {p \in Paths : disk[p] # NoFile \/ \E n \in At(p) : Active(n)}
  /\ UNCHANGED <<disk, notes, call, loop, written, erased, mixed, passed>>

ToolStep(c) ==
  \/ OpenFile(c) \/ InsertRow(c) \/ Lookup(c)
  \/ LinkFile(c) \/ UnlinkOld(c) \/ MoveRow(c)
  \/ ReadBody(c) \/ WritePatch(c) \/ RecordHash(c) \/ Tombstone(c)

Answer(c) == Overwrite(c) \/ RemoveFile(c) \/ Decline(c)

WorkerStep == (\E p \in Paths : ReadFile(p)) \/ DecideVanished \/ DecideFile \/ CommitIngest

Next ==
  \/ \E c \in Calls, op \in Ops, p, q \in Paths : Begin(c, op, p, q)
  \/ \E c \in Calls : ToolStep(c) \/ Answer(c)
  \/ WorkerStep
  \/ \E p \in Paths, e \in Edits : Edit(p, e)
  \/ \E p \in Paths : Remove(p)
  \/ ServerCrash \/ WorkerRestart

\* A coroutine and the worker run on; nobody has to call a tool or to answer.
Fairness == WF_vars(WorkerStep) /\ \A c \in Calls : WF_vars(ToolStep(c))

Spec == Init /\ [][Next]_vars
FairSpec == Spec /\ Fairness

-----------------------------------------------------------------------------
(* Properties. *)

TypeOK ==
  /\ disk \in [Paths -> File]
  /\ \E k \in 0..MaxNotes : notes \in [1..k -> Rows]
  /\ signals \subseteq Paths
  /\ worker \in [pc : {"idle", "decide", "commit"}, path : Paths \cup {NoCall}, text : File,
                 what : {"none", "update", "delete", "create", "move"}, note : Nat]
  /\ call \in [Calls -> [pc : {"new", "open", "insert", "lookup", "link", "unlink", "row", "read",
                               "write", "hash", "asked", "tombstone", "done", "dead"},
                         op : Ops \cup {"none"}, path : Paths \cup {NoCall}, to : Paths \cup {NoCall},
                         note : Nat, text : File]]
  /\ loop \in Calls \cup {NoCall}
  /\ written \subseteq Calls \cup Edits /\ erased \subseteq Pieces /\ mixed \subseteq Paths
  /\ passed \subseteq NoteIds
  /\ mishaps \in Nat

\* A path has one row, live or dead, whoever inserted or moved it.
UniquePaths == \A m, n \in DOMAIN notes : notes[m].path = notes[n].path => m = n

\* A call past its look-up has the row it found; its paths are set.
CallData == \A c \in Calls :
  /\ Running(c) => On(c) \subseteq Paths
  /\ call[c].pc \in {"link", "unlink", "row", "read", "write", "hash", "asked", "tombstone"} =>
       call[c].note \in DOMAIN notes
  /\ call[c].pc \in {"write", "hash"} => call[c].text # NoFile
  /\ call[c].pc \in {"unlink", "write"} => loop = c
  /\ call[c].pc = "unlink" => call[c].path # call[c].to

WorkerData ==
  /\ worker.pc # "idle" => worker.path \in Paths
  /\ worker.pc = "commit" => worker.what # "none"
  /\ worker.pc = "commit" /\ worker.what \in {"update", "create", "move"} => worker.text # NoFile
  /\ worker.pc = "commit" /\ worker.what \in {"update", "delete", "move"} => worker.note \in DOMAIN notes

\* What a patch is about to write back holds every text a tool put into the file meanwhile:
\* no coroutine got the event loop between the read and the write.
PatchIsFresh == \A c \in Calls :
  call[c].pc = "write" => In(disk[call[c].path]) \cap Calls \subseteq In(call[c].text)

\* A file about to be unlinked by a move has its texts at the new path, or the user took them there.
LinkHoldsText == \A c \in Calls :
  call[c].pc = "unlink" =>
    In(disk[call[c].path]) \cap Calls \subseteq In(disk[call[c].to]) \cup erased

\* A text that a tool has written stays in the vault, through every interleaving of creates,
\* patches, links and moves, and the death of the server between two of their steps: only the
\* user, or a confirmed overwrite or delete, takes it out.
NothingVanishes ==
  \A c \in written \cap Calls : c \in erased \/ \E p \in Paths : c \in In(disk[p])

NoteToolsInv ==
  TypeOK /\ UniquePaths /\ CallData /\ WorkerData /\ PatchIsFresh /\ LinkHoldsText

\* The table tells what is at the path.  A tombstone that a file came back to keeps being one.
Recorded(p) ==
  IF disk[p] = NoFile
  THEN \A n \in At(p) : n \in passed \/ notes[n].deleted
  ELSE \E n \in At(p) : notes[n].hash.text = disk[p]

\* Where a path that no two actors worked on at once is out of step with its row, its ingestion is
\* queued or under way: no order of a tool's two writes and the worker's look, no retry on a path
\* taken meanwhile and no death in between loses the last chance to put it right.
DriftIsSignalled ==
  \A p \in Paths \ mixed :
    Recorded(p) \/ p \in signals \/ (worker.pc # "idle" /\ worker.path = p)

\* A call that had its paths to itself, finished or cut short by the death of the server between
\* the file and the row, leaves nothing that the worker does not put right, whichever of the two
\* writes the row first.
ToolsConverge == <>[](\A p \in Paths \ mixed : Recorded(p))
=============================================================================
