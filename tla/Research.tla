------------------------------ MODULE Research ------------------------------
(***************************************************************************)
(* From a research job to a note of the vault: the worker drafts           *)
(* (research/workflow.py, run_research, and worker.py, research_task), and *)
(* clients commit the draft (commit_draft, by the MCP tool research_commit *)
(* and by `athena research commit`), while the watcher has the new file    *)
(* ingested and the user works in the vault.                               *)
(*                                                                         *)
(* One job.  A text says of each URL whether its section is absent, raw or *)
(* masked; the sections of the URLs in Leaks hold a high-confidence        *)
(* secret, each a finding of its own.  A scan reads the file at once, and  *)
(* its findings are lines and columns of what it read.  Dispatch and       *)
(* cancellation are in Jobs, the ingestion of arbitrary files in Ingestion:*)
(* here one step reads the file, one scans it, one decides and writes.     *)
(* Indexing, the Git commit and the audit event are best effort and change *)
(* nothing here.                                                           *)
(***************************************************************************)
EXTENDS Integers, FiniteSets

CONSTANTS
  Paths,        \* target paths
  NoPath,       \* of a process that is at none
  Urls, Leaks,  \* the job's URLs, and those whose pages hold a secret
  NoFile,       \* no file, no text
  Clients,      \* calls that commit the draft, through MCP or the command line
  Worker,       \* the consumer
  Blocking,     \* those that run with secret_scanner_block_on_high_confidence: a
                \* process reads the configuration when it starts
  Retries,      \* retries= of research_task
  MaxNotes, MaxEdits, MaxMishaps  \* bounds: rows, edits by the user, faults

NoteIds == 1..MaxNotes
Texts == [parts : [Urls -> {"none", "raw", "masked"}], edited : BOOLEAN]
UserTexts == {t \in Texts : t.edited}  \* the user's own, or an edited copy of a draft
Drafts == Texts \ UserTexts
Files == Texts \cup {NoFile}

ASSUME ResearchAssumption ==
  /\ NoPath \notin Paths /\ Leaks \subseteq Urls /\ Blocking \subseteq Clients \cup {Worker}
  /\ NoFile \notin Texts
  /\ Retries \in Nat /\ MaxNotes \in Nat /\ MaxEdits \in Nat /\ MaxMishaps \in Nat

VARIABLES
  files,    \* the vault
  notes,    \* table notes: id -> path, hash, deleted, origin, and whether its
            \* provenance names the job
  job,      \* the row of research_jobs: status, draft, result_note_id
  signals,  \* paths whose ingestion is pending
  call,     \* the commit each client is in
  worker,   \* what the consumer is executing
  tries,    \* tries the enqueued research_task has left, -1 without a task
  orphans,  \* paths whose ingestion lock a dead consumer left in the queue's database
  kept,     \* history: paths where the user's text was put with nobody at work there
  spilt,    \* history: paths where a commit died, or could not scan, before redacting, or
            \* masked its draft by what it found in another text; and where the user put
            \* a copy of a page's secret with nobody at work there
  skipped,  \* history: paths whose latest ingestion was given up without a word
  edits, mishaps

vars == <<files, notes, job, signals, call, worker, tries, orphans, kept, spilt, skipped,
          edits, mishaps>>

Consumer == <<worker, tries, orphans, skipped>>

\* The sections with an unmasked secret.
Raw(text) == IF text \in Texts THEN {u \in Leaks : text.parts[u] = "raw"} ELSE {}
Leaky(text) == Raw(text) # {}

Mask(text, S) ==
  [text EXCEPT !.parts = [u \in Urls |-> IF u \in S THEN "masked" ELSE text.parts[u]]]

\* redact_high_confidence_spans, with the findings of the very text.  The hash of a file is
\* that of its redacted text.
Redact(text) == Mask(text, Raw(text))

\* What it masks of a text with the findings of another: whatever these lines and columns are.
Found(scanned, text) ==
  IF scanned = text THEN {Raw(text)} ELSE IF Leaky(scanned) THEN SUBSET Raw(text) ELSE {{}}

Idle == [pc |-> "idle", path |-> NoPath, body |-> NoFile, scanned |-> NoFile, note |-> 0]
Tracing(n) == [Idle EXCEPT !.pc = "trace", !.note = n]
Resting == [pc |-> "idle", path |-> NoPath, text |-> NoFile, hash |-> NoFile]

Init ==
  /\ files = [p \in Paths |-> NoFile]
  /\ notes = <<>>
  /\ job = [status |-> "queued", draft |-> NoFile, result |-> 0]
  /\ signals = {}
  /\ call = [c \in Clients |-> Idle]
  /\ worker = Resting
  /\ tries = Retries
  /\ orphans = {} /\ kept = {} /\ spilt = {} /\ skipped = {}
  /\ edits = 0 /\ mishaps = 0

Mishap == mishaps < MaxMishaps /\ mishaps' = mishaps + 1

-----------------------------------------------------------------------------
(* The job.                                                                 *)

Outcomes == {"page", "refused", "failed", "empty"}

\* run_research: a section for each URL that was fetched and had an article in
\* it; the others are recorded as failed and the batch goes on.
Draft(outcome) ==
  [parts |-> [u \in Urls |-> IF outcome[u] = "page" THEN "raw" ELSE "none"], edited |-> FALSE]

RunResearch ==
  /\ worker.pc = "idle" /\ tries >= 0
  /\ \E outcome \in [Urls -> Outcomes] :
       worker' = [worker EXCEPT !.pc = "record", !.text = Draft(outcome)]
  /\ UNCHANGED <<files, notes, job, signals, call, tries, orphans, kept, spilt, skipped, edits,
                 mishaps>>

RecordDraft ==
  /\ worker.pc = "record"
  /\ job' = [job EXCEPT !.draft = worker.text]
  /\ worker' = [worker EXCEPT !.pc = "finish", !.text = NoFile]
  /\ UNCHANGED <<files, notes, signals, call, tries, orphans, kept, spilt, skipped, edits, mishaps>>

\* mark_finished writes every column it was not given as NULL: result_note_id
\* too, when a commit came first.
MarkFinished ==
  /\ worker.pc = "finish"
  /\ job' = [job EXCEPT !.status = "succeeded", !.result = 0]
  /\ worker' = Resting
  /\ tries' = -1
  /\ UNCHANGED <<files, notes, signals, call, orphans, kept, spilt, skipped, edits, mishaps>>

\* The database is busy: huey runs the task again, while tries are left.
TaskFails ==
  /\ worker.pc \in {"record", "finish"}
  /\ Mishap
  /\ worker' = Resting
  /\ tries' = tries - 1
  /\ UNCHANGED <<files, notes, job, signals, call, orphans, kept, spilt, skipped, edits>>

-----------------------------------------------------------------------------
(* commit_draft, one action per effect.                                     *)

At(c, pc) == call[c].pc = pc
Goto(c, pc) == call' = [call EXCEPT ![c].pc = pc]
Finish(c) == call' = [call EXCEPT ![c] = Idle]

\* commit_draft reads the draft of the job, whatever the job's status.  The tool
\* research_commit has seen that there is one and has asked the user before; a dry
\* run, or an answer that is not the topic, ends the call without a change.
ReadDraft(c, p) ==
  /\ At(c, "idle") /\ job.draft # NoFile
  /\ call' = [call EXCEPT ![c] = [Idle EXCEPT !.pc = "open", !.path = p, !.body = job.draft]]
  /\ UNCHANGED <<files, notes, job, signals, Consumer, kept, spilt, edits, mishaps>>

\* Mutant of Free: the target is opened without O_EXCL.
BugFree(p) == TRUE

\* O_CREAT | O_EXCL.
Free(p) == files[p] = NoFile

\* The file is created and written, or the target is refused.
Open(c) ==
  LET p == call[c].path IN
  /\ At(c, "open")
  /\ IF Free(p)
     THEN /\ files' = [files EXCEPT ![p] = call[c].body]
          /\ signals' = signals \cup {p}
          /\ Goto(c, "scan")
     ELSE Finish(c) /\ UNCHANGED <<files, signals>>
  /\ UNCHANGED <<notes, job, Consumer, kept, spilt, edits, mishaps>>

\* scan_note_for_secrets looks at the file that is there now.  Without a file
\* the scan is an error, and the commit goes on.
Scan(c) ==
  LET text == files[call[c].path] IN
  /\ At(c, "scan")
  /\ IF ~Leaky(text) THEN Goto(c, "create")
     ELSE IF c \in Blocking THEN Goto(c, "unlink")
     ELSE call' = [call EXCEPT ![c].pc = "redact", ![c].scanned = text]
  /\ UNCHANGED <<files, notes, job, signals, Consumer, kept, spilt, edits, mishaps>>

\* A timeout of the scan: the commit goes on as well.
ScanFails(c) ==
  /\ At(c, "scan")
  /\ Mishap
  /\ Goto(c, "create")
  /\ spilt' = spilt \cup {call[c].path}
  /\ UNCHANGED <<files, notes, job, signals, Consumer, kept, edits>>

\* Mutant of Masks: what is recorded is masked, and the file is left.
BugMasks(c, S) == UNCHANGED <<files, signals>>

\* The body is masked at S, and the file is written again if that changed it, be it
\* elsewhere than at a secret.
Masks(c, S) ==
  LET p == call[c].path IN
  \/ files' = [files EXCEPT ![p] = Mask(call[c].body, S)] /\ signals' = signals \cup {p}
  \/ S = {} /\ UNCHANGED <<files, signals>>

Masked(c, S) ==
  [call[c] EXCEPT !.pc = "create", !.body = Mask(call[c].body, S), !.scanned = NoFile]

\* The findings are of the file as it was scanned; what is masked is the draft.
RedactFile(c) ==
  /\ At(c, "redact")
  /\ \E S \in Found(call[c].scanned, call[c].body) :
       Masks(c, S) /\ call' = [call EXCEPT ![c] = Masked(c, S)]
  /\ spilt' = IF call[c].scanned = call[c].body THEN spilt ELSE spilt \cup {call[c].path}
  /\ UNCHANGED <<notes, job, Consumer, kept, edits, mishaps>>

\* block-on-high: the file is taken away and the commit refused.
Unlink(c) ==
  LET p == call[c].path IN
  /\ At(c, "unlink")
  /\ files' = [files EXCEPT ![p] = NoFile]
  /\ signals' = signals \cup {p}
  /\ Finish(c)
  /\ UNCHANGED <<notes, job, Consumer, kept, spilt, edits, mishaps>>

RowsAt(p) == {n \in DOMAIN notes : notes[n].path = p}
Active(n) == ~notes[n].deleted
NextId == Cardinality(DOMAIN notes) + 1

Row(p, hash, origin) ==
  [path |-> p, hash |-> hash, deleted |-> FALSE, origin |-> origin, traced |-> FALSE]
Insert(p, hash, origin) ==
  /\ NextId \in NoteIds
  /\ notes' = [n \in DOMAIN notes \cup {NextId} |->
                 IF n = NextId THEN Row(p, hash, origin) ELSE notes[n]]
Change(n, row) == notes' = [notes EXCEPT ![n] = row]

\* Mutant of CreateNote: the path is not UNIQUE.
BugCreateNote(c) ==
  /\ At(c, "create")
  /\ Insert(call[c].path, call[c].body, "web_research")
  /\ call' = [call EXCEPT ![c] = Tracing(NextId)]
  /\ UNCHANGED <<files, job, signals, Consumer, kept, spilt, edits, mishaps>>

\* create_note.  notes.path is UNIQUE: where there is a row already, deleted or
\* not, the commit ends in an IntegrityError and leaves its file.
CreateNote(c) ==
  LET p == call[c].path IN
  /\ At(c, "create")
  /\ IF RowsAt(p) = {}
     THEN /\ Insert(p, call[c].body, "web_research")
          /\ call' = [call EXCEPT ![c] = Tracing(NextId)]
     ELSE Finish(c) /\ UNCHANGED notes
  /\ UNCHANGED <<files, job, signals, Consumer, kept, spilt, edits, mishaps>>

\* Mutant of Trace: the result is recorded first.
BugTrace(c) ==
  /\ At(c, "trace")
  /\ Goto(c, "result")
  /\ UNCHANGED <<files, notes, job, signals, Consumer, kept, spilt, edits, mishaps>>

\* The findings, the provenance with the job and its sources.
Trace(c) ==
  /\ At(c, "trace")
  /\ Change(call[c].note, [notes[call[c].note] EXCEPT !.traced = TRUE])
  /\ Goto(c, "result")
  /\ UNCHANGED <<files, job, signals, Consumer, kept, spilt, edits, mishaps>>

\* record_result_note, after indexing, which never raises here.
RecordResult(c) ==
  /\ At(c, "result")
  /\ job' = [job EXCEPT !.result = call[c].note]
  /\ Finish(c)
  /\ UNCHANGED <<files, notes, signals, Consumer, kept, spilt, edits, mishaps>>

\* The client is killed, or a statement raises: what was written stays.
Dies(c) ==
  /\ ~At(c, "idle")
  /\ Mishap
  /\ Finish(c)
  /\ spilt' = IF call[c].pc \in {"scan", "redact", "unlink"}
              THEN spilt \cup {call[c].path} ELSE spilt
  /\ UNCHANGED <<files, notes, job, signals, Consumer, kept, edits>>

-----------------------------------------------------------------------------
(* Ingestion of one path by the worker.                                     *)

\* ingest_note_task takes the path lock and reads the file ...
ReadFile(p) ==
  /\ worker.pc = "idle" /\ p \in signals \ orphans
  /\ signals' = signals \ {p}
  /\ skipped' = skipped \ {p}
  /\ worker' = [pc |-> IF files[p] = NoFile THEN "ingest" ELSE "vet", path |-> p,
                text |-> files[p], hash |-> NoFile]
  /\ UNCHANGED <<files, notes, job, call, tries, orphans, kept, spilt, edits, mishaps>>

\* ... or nobody will ever release the lock; or on_settle could not record the event, and
\* queues nothing.
Overlook(p) ==
  /\ p \in signals
  /\ \/ worker.pc = "idle" /\ p \in orphans /\ UNCHANGED mishaps
     \/ Mishap
  /\ signals' = signals \ {p}
  /\ skipped' = skipped \cup {p}
  /\ UNCHANGED <<files, notes, job, call, worker, tries, orphans, kept, spilt, edits>>

Refused(text) == Worker \in Blocking /\ Leaky(text)

\* The file is scanned as it is now: it is gone, refused, or what was read is redacted.
Vet ==
  LET scanned == files[worker.path] IN
  /\ worker.pc = "vet"
  /\ IF scanned = NoFile \/ Refused(scanned) THEN worker' = Resting
     ELSE \E S \in Found(scanned, worker.text) :
            worker' = [worker EXCEPT !.pc = "ingest", !.hash = Mask(worker.text, S)]
  /\ UNCHANGED <<files, notes, job, signals, call, tries, orphans, kept, spilt, skipped, edits,
                 mishaps>>

\* The scan times out, and the task is done; or something raises before the row is written,
\* and the task is retried, or was for the last time.
IngestFails ==
  /\ worker.pc \in {"vet", "ingest"}
  /\ Mishap
  /\ worker' = Resting
  /\ \/ signals' = signals \cup {worker.path} /\ UNCHANGED skipped
     \/ skipped' = skipped \cup {worker.path} /\ UNCHANGED signals
  /\ UNCHANGED <<files, notes, job, call, tries, orphans, kept, spilt, edits>>

Alike(hash, p) == {n \in DOMAIN notes : Active(n) /\ notes[n].hash = hash /\ notes[n].path # p}
OnDisk(n) == files[notes[n].path] # NoFile

\* The path has no file: a tombstone, unless the text lives on elsewhere.
IngestVanished ==
  LET p == worker.path IN
  /\ worker.pc = "ingest" /\ worker.text = NoFile
  /\ IF \E n \in RowsAt(p) : Active(n) /\ ~\E m \in Alike(notes[n].hash, p) : OnDisk(m)
     THEN \E n \in RowsAt(p) : Change(n, [notes[n] EXCEPT !.deleted = TRUE])
     ELSE UNCHANGED notes
  /\ worker' = Resting
  /\ UNCHANGED <<files, job, signals, call, tries, orphans, kept, spilt, skipped, edits, mishaps>>

Moved(p, hash) == {n \in Alike(hash, p) : ~OnDisk(n)}

\* The path has a file: a noop, the new path of a note, a new note, or a new text of the note
\* at this path.
IngestFile ==
  LET p == worker.path
      hash == worker.hash IN
  /\ worker.pc = "ingest" /\ worker.text # NoFile
  /\ IF \E n \in RowsAt(p) : Active(n) /\ notes[n].hash = hash
     THEN UNCHANGED notes
     ELSE \/ /\ RowsAt(p) = {} /\ Moved(p, hash) # {}
             /\ \E n \in Moved(p, hash) : Change(n, [notes[n] EXCEPT !.path = p])
          \/ /\ RowsAt(p) = {} /\ Moved(p, hash) = {}
             /\ Insert(p, hash, "human")
          \/ \E n \in RowsAt(p) : Change(n, [notes[n] EXCEPT !.hash = hash])
  /\ worker' = Resting
  /\ UNCHANGED <<files, job, signals, call, tries, orphans, kept, spilt, skipped, edits, mishaps>>

Ingesting == worker.pc \in {"vet", "ingest"}

\* The consumer dies: its task is lost, and the path lock may stay behind.
WorkerDies ==
  /\ worker.pc # "idle"
  /\ Mishap
  /\ worker' = Resting
  /\ tries' = IF Ingesting THEN tries ELSE -1
  /\ \/ UNCHANGED orphans
     \/ Ingesting /\ orphans' = orphans \cup {worker.path}
  /\ UNCHANGED <<files, notes, job, call, kept, spilt, skipped, edits>>

\* Mutant of WorkerRestart: nothing is reconciled at start-up.
BugWorkerRestart == WorkerDies /\ UNCHANGED signals

\* On restart the whole vault is reconciled.
WorkerRestart == WorkerDies /\ signals' = Paths

-----------------------------------------------------------------------------
(* The user.                                                                *)

Holds(c, p) == call[c].path = p /\ call[c].pc \in {"scan", "redact", "unlink"}
Held(p) == \E c \in Clients : Holds(c, p)

\* What the user writes: words of their own, or what an editor makes of a file of the vault.
Handwritten ==
  LET found == {files[q].parts : q \in {q \in Paths : files[q] # NoFile}}
  IN {[parts |-> s, edited |-> TRUE] : s \in {[u \in Urls |-> "none"]} \cup found}

Write(p) ==
  /\ edits < MaxEdits /\ edits' = edits + 1
  /\ \E t \in Handwritten \ {files[p]} :
       /\ files' = [files EXCEPT ![p] = t]
       /\ spilt' = IF Leaky(t) /\ ~Held(p) THEN spilt \cup {p} ELSE spilt
  /\ signals' = signals \cup {p}
  /\ kept' = IF Held(p) THEN kept ELSE kept \cup {p}
  /\ UNCHANGED <<notes, job, call, Consumer, mishaps>>

Remove(p) ==
  /\ edits < MaxEdits /\ edits' = edits + 1
  /\ files[p] # NoFile
  /\ files' = [files EXCEPT ![p] = NoFile]
  /\ signals' = signals \cup {p}
  /\ kept' = kept \ {p}
  /\ UNCHANGED <<notes, job, call, Consumer, spilt, mishaps>>

-----------------------------------------------------------------------------

Commit(c) ==
  \/ Open(c)
  \/ Scan(c)
  \/ RedactFile(c)
  \/ Unlink(c)
  \/ CreateNote(c)
  \/ Trace(c)
  \/ RecordResult(c)

Task == RunResearch \/ RecordDraft \/ MarkFinished
Ingest == (\E p \in Paths : ReadFile(p)) \/ Vet \/ IngestVanished \/ IngestFile

Next ==
  \/ Task \/ TaskFails
  \/ Ingest \/ IngestFails \/ WorkerRestart
  \/ \E c \in Clients, p \in Paths : ReadDraft(c, p)
  \/ \E c \in Clients : Commit(c) \/ ScanFails(c) \/ Dies(c)
  \/ \E p \in Paths : Overlook(p) \/ Write(p) \/ Remove(p)

Spec == Init /\ [][Next]_vars

-----------------------------------------------------------------------------
(* Properties.                                                              *)

Note ==
  [path : Paths, hash : Texts, deleted : BOOLEAN, origin : {"human", "web_research"},
   traced : BOOLEAN]
Job == [status : {"queued", "succeeded"}, draft : Drafts \cup {NoFile}, result : 0..MaxNotes]
Call ==
  [pc : {"idle", "open", "scan", "redact", "unlink", "create", "trace", "result"},
   path : Paths \cup {NoPath}, body : Drafts \cup {NoFile}, scanned : Files, note : 0..MaxNotes]
Executed ==
  [pc : {"idle", "record", "finish", "vet", "ingest"}, path : Paths \cup {NoPath},
   text : Files, hash : Files]

TypeOK ==
  /\ files \in [Paths -> Files]
  /\ \E k \in 0..MaxNotes : notes \in [1..k -> Note]
  /\ job \in Job
  /\ signals \subseteq Paths
  /\ call \in [Clients -> Call]
  /\ worker \in Executed
  /\ worker.pc = "record" => worker.text \in Drafts
  /\ Ingesting => worker.path \in Paths
  /\ worker.pc = "vet" => worker.text \in Texts
  /\ worker.pc = "ingest" /\ worker.text # NoFile => worker.hash \in Texts
  /\ tries \in -1..Retries /\ (worker.pc \in {"record", "finish"} => tries >= 0)
  /\ orphans \subseteq Paths
  /\ kept \subseteq Paths /\ spilt \subseteq Paths /\ skipped \subseteq Paths

\* A file of the user that was there before a commit came, or that the user put
\* where none was at work, is there until the user takes it away: no commit writes
\* over it, masks it or unlinks it, though three of its steps write to the path.
UsersFilesKept ==
  \A p \in kept : files[p] \in UserTexts /\ ~Held(p)

\* A page's secret is in the vault only while the commit that wrote it is about to
\* scan, mask or remove it, whatever other commits, the user and the worker do at the
\* same path meanwhile; but where one died, could not scan, or masked its draft by the
\* findings of another text, and where the user put a copy with no commit at work.
SecretsAccounted ==
  \A p \in Paths : Leaky(files[p]) => p \in spilt \/ Held(p)

\* The note a job names as its result came from a commit and is traced to the job,
\* whatever was ingested, moved, deleted or retried since.
ResultIsTraced ==
  job.result # 0 =>
    /\ job.result \in DOMAIN notes
    /\ notes[job.result].origin = "web_research" /\ notes[job.result].traced

\* What a client is about to use has been set; a path has one row.
CallOK(c) ==
  /\ call[c].pc \in {"open", "scan", "redact", "unlink", "create"} =>
       call[c].path \in Paths /\ call[c].body \in Drafts
  /\ At(c, "redact") => Leaky(call[c].scanned)
  /\ call[c].pc \in {"trace", "result"} =>
       /\ call[c].note \in DOMAIN notes
       /\ notes[call[c].note].origin = "web_research"
       /\ (call[c].pc = "result" => notes[call[c].note].traced)

PathsUnique == \A n, m \in DOMAIN notes : notes[n].path = notes[m].path => n = m

ResearchInv == TypeOK /\ PathsUnique /\ \A c \in Clients : CallOK(c)

\* Whatever a commit leaves behind when it dies, raises or meets the ingestion of
\* its own file, whatever is lost with the consumer, and though a file is read, scanned and
\* recorded at three moments: a file of the vault has a row with its hash, or the worker
\* is at it or has it pending, or refuses it.  Not where its latest ingestion was given up
\* without a word: an event lost, a scan timed out, a task failed for good, a lock orphaned.
Pending(p) ==
  \/ p \in signals
  \/ Ingesting /\ worker.path = p /\ worker.text = files[p]

NothingForgotten ==
  \A p \in Paths \ skipped :
    files[p] # NoFile /\ ~Refused(files[p]) /\ ~Pending(p) =>
      \E n \in RowsAt(p) : notes[n].hash = Redact(files[p])
=============================================================================
