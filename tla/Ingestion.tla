------------------------------ MODULE Ingestion ------------------------------
(***************************************************************************)
(* From a change in the vault to the notes table: the settled signals of   *)
(* the watcher, the huey queue of ingest_note_task, the ingestion job      *)
(* itself (athena.vault.ingest), and the reconciliation pass that drives   *)
(* the same job over the whole vault (athena.vault.reconcile).             *)
(*                                                                         *)
(* Processes: the worker (one consumer thread, so one task at a time; it   *)
(* also hosts the watcher and the reconciliation passes) and any number of *)
(* `athena ingest reconcile` command lines.  They share the vault, the     *)
(* database and huey's lock store.  Every await of the job is a point      *)
(* where another process, or the user's editor, may act.                   *)
(*                                                                         *)
(* Abstracted: a content stands for the body it parses to, so it is also   *)
(* its own hash; what a job records beside the row (findings, scan status, *)
(* provenance, tags) is represented by the content that was scanned.       *)
(***************************************************************************)
EXTENDS Integers, Sequences, FiniteSets

CONSTANTS
  Paths,        \* vault-relative paths of notes
  Contents,     \* bodies a note may have
  NoFile,       \* no file at the path; no content
  Secrets,      \* contents with a high-confidence, non-allowlisted finding
  BlockOnHigh,  \* secret_scanner_block_on_high_confidence
  Worker,       \* the consumer process
  Clis,         \* processes running `athena ingest reconcile`
  NoProc,       \* owner of a free lock
  NoPath,       \* path of a process with no job
  Vaults,       \* what the vault may hold when the worker first starts
  Retries,      \* retries= of ingest_note_task
  Edits,        \* the kinds of edits the user makes
  Faults,       \* the steps that may fail
  MaxEdits, MaxFaults, MaxCrashes  \* bounds on what the environment does

ASSUME IngestionAssumption ==
  /\ NoFile \notin Contents
  /\ Secrets \subseteq Contents
  /\ BlockOnHigh \in BOOLEAN
  /\ Worker \notin Clis
  /\ NoProc \notin Clis \cup {Worker}
  /\ NoPath \notin Paths
  /\ Vaults \subseteq [Paths -> Contents \cup {NoFile}]
  /\ Retries \in Nat
  /\ Edits \subseteq {"write", "delete", "rename"}
  /\ Faults \subseteq {"settle", "scan", "commit", "persist", "report"}
  /\ MaxEdits \in Nat /\ MaxFaults \in Nat /\ MaxCrashes \in Nat

VARIABLES
  disk,      \* the vault: path -> content or NoFile
  notes,     \* the notes table, in order of id
  locks,     \* huey.lock_task("ingest:<path>"): path -> owner
  up,        \* the worker process runs
  signals,   \* paths pending in the watcher (in memory only)
  queue,     \* ingest_note_task invocations ready to run
  delayed,   \* retries waiting out retry_delay
  proc,      \* what each process is doing
  budget     \* edits, faults and crashes left

vars == <<disk, notes, locks, up, signals, queue, delayed, proc, budget>>

Procs == Clis \cup {Worker}

\* job: "none", "task" (one ingest_note_task), or a reconciliation pass in its
\* "walk", "files" or "missing" phase.  snap is the pass's on_disk.
Idle ==
  [pc |-> "idle", job |-> "none", path |-> NoPath, tries |-> 0, todo |-> {}, snap |-> {},
   text |-> NoFile, scan |-> NoFile, note |-> 0, op |-> "none"]

\* What the environment does a bounded number of times.
Budgeted == {"edits", "faults", "crashes"}

Init ==
  /\ disk \in Vaults
  /\ notes = <<>>
  /\ locks = [p \in Paths |-> NoProc]
  /\ up = FALSE
  /\ signals = {}
  /\ queue = <<>>
  /\ delayed = <<>>
  /\ proc = [c \in Procs |-> Idle]
  /\ budget = [kind \in Budgeted |-> CASE kind = "edits" -> MaxEdits
                                       [] kind = "faults" -> MaxFaults
                                       [] OTHER -> MaxCrashes]

-----------------------------------------------------------------------------
(* Views of the notes table *)

Ids == 1..Len(notes)

\* get_by_path: the row at p, deleted or not; 0 when there is none.
RowAt(p) == IF \E i \in Ids : notes[i].path = p
              THEN CHOOSE i \in Ids : notes[i].path = p ELSE 0

Active(i) == ~notes[i].deleted

\* find_by_content_hash: the active rows with this hash.
WithHash(h) == {i \in Ids : Active(i) /\ notes[i].hash = h}

\* list_active_paths
ActivePaths == {notes[i].path : i \in {j \in Ids : Active(j)}}

OnDisk(p) == disk[p] # NoFile

-----------------------------------------------------------------------------
(* The user's editor.  A rename signals both of its paths; nothing is heard  *)
(* while the worker is down.                                                 *)

Spend(kind) ==
  /\ budget[kind] > 0
  /\ budget' = [budget EXCEPT ![kind] = budget[kind] - 1]

Heard(ps) == signals' = IF up THEN signals \cup ps ELSE signals

Write(p, c) ==
  /\ "write" \in Edits
  /\ disk[p] # c
  /\ Spend("edits")
  /\ disk' = [disk EXCEPT ![p] = c]
  /\ Heard({p})
  /\ UNCHANGED <<notes, locks, up, queue, delayed, proc>>

Delete(p) ==
  /\ "delete" \in Edits
  /\ OnDisk(p)
  /\ Spend("edits")
  /\ disk' = [disk EXCEPT ![p] = NoFile]
  /\ Heard({p})
  /\ UNCHANGED <<notes, locks, up, queue, delayed, proc>>

Rename(p, q) ==
  /\ "rename" \in Edits
  /\ OnDisk(p) /\ ~OnDisk(q)
  /\ Spend("edits")
  /\ disk' = [disk EXCEPT ![p] = NoFile, ![q] = disk[p]]
  /\ Heard({p, q})
  /\ UNCHANGED <<notes, locks, up, queue, delayed, proc>>

Edit ==
  \/ \E p \in Paths, c \in Contents : Write(p, c)
  \/ \E p \in Paths : Delete(p)
  \/ \E p, q \in Paths : Rename(p, q)

-----------------------------------------------------------------------------
(* The worker's settle callback (a timer thread) and huey's scheduler        *)

Enqueue(p, tries) == [path |-> p, tries |-> tries]

\* _on_settle: record fs.path_changed, then enqueue.
OnSettle(p) ==
  /\ up /\ p \in signals
  /\ signals' = signals \ {p}
  /\ queue' = Append(queue, Enqueue(p, Retries))
  /\ UNCHANGED <<disk, notes, locks, up, delayed, proc, budget>>

\* Recording the event failed: logged, and the change is forgotten.
OnSettleFails(p) ==
  /\ up /\ p \in signals
  /\ "settle" \in Faults
  /\ Spend("faults")
  /\ signals' = signals \ {p}
  /\ UNCHANGED <<disk, notes, locks, up, queue, delayed, proc>>

\* retry_delay is over.
RetryDue ==
  /\ up /\ delayed # <<>>
  /\ queue' = Append(queue, Head(delayed))
  /\ delayed' = Tail(delayed)
  /\ UNCHANGED <<disk, notes, locks, up, signals, proc, budget>>

-----------------------------------------------------------------------------
(* Taking up a job                                                           *)

\* The consumer dequeues a task; from here on the queue no longer holds it.
TakeTask ==
  /\ up /\ proc[Worker].pc = "idle" /\ queue # <<>>
  /\ proc' = [proc EXCEPT ![Worker] =
                [Idle EXCEPT !.pc = "lock", !.job = "task", !.path = Head(queue).path,
                             !.tries = Head(queue).tries]]
  /\ queue' = Tail(queue)
  /\ UNCHANGED <<disk, notes, locks, up, signals, delayed, budget>>

\* A reconciliation pass starts: the hourly task, or a command line.
StartPass(c) ==
  /\ c = Worker => up
  /\ proc[c].pc = "idle"
  /\ proc' = [proc EXCEPT ![c] = [Idle EXCEPT !.pc = "next", !.job = "walk", !.todo = Paths]]
  /\ UNCHANGED <<disk, notes, locks, up, signals, queue, delayed, budget>>

\* The walk reaches one more directory entry: it sees the file or it does not.
Walk(c) ==
  /\ proc[c].pc = "next" /\ proc[c].job = "walk"
  /\ \E p \in proc[c].todo :
       proc' = [proc EXCEPT ![c].todo = @ \ {p},
                            ![c].snap = IF OnDisk(p) THEN @ \cup {p} ELSE @]
  /\ UNCHANGED <<disk, notes, locks, up, signals, queue, delayed, budget>>

\* The next path of the phase goes through ingest_note.
IngestNext(c) ==
  /\ proc[c].pc = "next" /\ proc[c].job \in {"files", "missing"}
  /\ \E p \in proc[c].todo :
       proc' = [proc EXCEPT ![c].todo = @ \ {p}, ![c].path = p, ![c].pc = "lock"]
  /\ UNCHANGED <<disk, notes, locks, up, signals, queue, delayed, budget>>

\* Mutant of NextPhase: the pass ends with the files it found on disk.
BugNextPhase(c) ==
  /\ proc[c].pc = "next" /\ proc[c].todo = {}
  /\ proc' = [proc EXCEPT ![c] =
                IF proc[c].job = "walk"
                  THEN [proc[c] EXCEPT !.job = "files", !.todo = proc[c].snap] ELSE Idle]
  /\ UNCHANGED <<disk, notes, locks, up, signals, queue, delayed, budget>>

\* After the walk, the files found; after them, the active notes whose path was
\* not among them; after those the pass is over.
NextPhase(c) ==
  /\ proc[c].pc = "next" /\ proc[c].todo = {}
  /\ proc' = [proc EXCEPT ![c] =
                CASE proc[c].job = "walk" ->
                       [proc[c] EXCEPT !.job = "files", !.todo = proc[c].snap]
                  [] proc[c].job = "files" ->
                       [proc[c] EXCEPT !.job = "missing", !.todo = ActivePaths \ proc[c].snap]
                  [] OTHER -> Idle]
  /\ UNCHANGED <<disk, notes, locks, up, signals, queue, delayed, budget>>

\* Recording a discrepancy is outside the per-note try: its failure ends the pass,
\* before the note it was about is chained.
AbortPass(c) ==
  /\ proc[c].pc \in {"next", "chain"} /\ proc[c].job \in {"files", "missing"}
  /\ "report" \in Faults
  /\ Spend("faults")
  /\ proc' = [proc EXCEPT ![c] = Idle]
  /\ UNCHANGED <<disk, notes, locks, up, signals, queue, delayed>>

-----------------------------------------------------------------------------
(* ingest_note.  c holds the lock of proc[c].path from TryLock on, until the *)
(* job returns or raises.                                                    *)

At(c, pc) == proc[c].pc = pc

\* Where a process goes when ingest_note is over.
After(c) ==
  IF proc[c].job = "task" THEN Idle
  ELSE [Idle EXCEPT !.pc = "next", !.job = proc[c].job, !.todo = proc[c].todo,
                    !.snap = proc[c].snap]

Unlock(c) == locks' = [locks EXCEPT ![proc[c].path] = NoProc]

\* The job returns an outcome that chains nothing.
Return(c) == proc' = [proc EXCEPT ![c] = After(c)] /\ Unlock(c)

\* The job goes on, holding the lock.
Proceed(c, step) == proc' = [proc EXCEPT ![c] = step] /\ UNCHANGED locks

Untouched == UNCHANGED <<disk, up, signals, queue, delayed, budget>>

\* Mutant of TryLock: the lock is taken whoever holds it.
BugTryLock(c) ==
  /\ At(c, "lock")
  /\ locks' = [locks EXCEPT ![proc[c].path] = c]
  /\ proc' = [proc EXCEPT ![c].pc = "read"]
  /\ Untouched /\ UNCHANGED notes

\* huey.lock_task is fail-fast: a locked path is a noop.
TryLock(c) ==
  /\ At(c, "lock")
  /\ IF locks[proc[c].path] = NoProc
       THEN /\ locks' = [locks EXCEPT ![proc[c].path] = c]
            /\ proc' = [proc EXCEPT ![c].pc = "read"]
       ELSE /\ proc' = [proc EXCEPT ![c] = After(c)]
            /\ UNCHANGED locks
  /\ Untouched /\ UNCHANGED notes

\* exists() and read_text()
Read(c) ==
  /\ At(c, "read")
  /\ LET p == proc[c].path
     IN Proceed(c, IF OnDisk(p) THEN [proc[c] EXCEPT !.pc = "scan", !.text = disk[p]]
                                ELSE [proc[c] EXCEPT !.pc = "vanished"])
  /\ Untouched /\ UNCHANGED notes

\* scan_note_for_secrets opens the file again: by now it may be gone (scan_error)
\* or hold another content than the text read before.
Scan(c) ==
  /\ At(c, "scan")
  /\ LET found == disk[proc[c].path]
     IN IF found = NoFile \/ (found \in Secrets /\ BlockOnHigh)
          THEN Return(c)
          ELSE Proceed(c, [proc[c] EXCEPT !.pc = "lookup", !.scan = found])
  /\ Untouched /\ UNCHANGED notes

\* The read or the scan fails: scan_error, nothing is retried.
ScanFails(c) ==
  /\ proc[c].pc \in {"read", "scan"} /\ OnDisk(proc[c].path)
  /\ "scan" \in Faults
  /\ Spend("faults")
  /\ Return(c)
  /\ UNCHANGED <<disk, notes, up, signals, queue, delayed>>

\* get_by_path: an active row with this hash is up to date; any other row is to be
\* updated in place (a tombstoned one keeps its tombstone); no row: a new path.
Lookup(c) ==
  /\ At(c, "lookup")
  /\ LET i == RowAt(proc[c].path)
     IN IF i = 0
          THEN Proceed(c, [proc[c] EXCEPT !.pc = "detect"])
          ELSE IF Active(i) /\ notes[i].hash = proc[c].text
            THEN Return(c)
            ELSE Proceed(c, [proc[c] EXCEPT !.pc = "commit", !.op = "update", !.note = i])
  /\ Untouched /\ UNCHANGED notes

\* Active notes with this hash whose own file is gone.
MovedFrom(p, text) == {i \in WithHash(text) : notes[i].path # p /\ ~OnDisk(notes[i].path)}

\* Move detection for a new path.
Detect(c) ==
  /\ At(c, "detect")
  /\ LET from == MovedFrom(proc[c].path, proc[c].text)
     IN IF from = {}
          THEN Proceed(c, [proc[c] EXCEPT !.pc = "commit", !.op = "create"])
          ELSE \E i \in from :
                 Proceed(c, [proc[c] EXCEPT !.pc = "commit", !.op = "move", !.note = i])
  /\ Untouched /\ UNCHANGED notes

\* _handle_vanished_path: no active row, nothing to do ...
Vanished(c) ==
  /\ At(c, "vanished")
  /\ LET i == RowAt(proc[c].path)
     IN IF i = 0 \/ (i # 0 /\ ~Active(i))
          THEN Return(c)
          ELSE Proceed(c, [proc[c] EXCEPT !.pc = "twin", !.note = i, !.text = notes[i].hash])
  /\ Untouched /\ UNCHANGED notes

\* ... or another active note with its hash has a file: the rest of a move.
Twin(c) ==
  /\ At(c, "twin")
  /\ IF \E i \in WithHash(proc[c].text) : i # proc[c].note /\ OnDisk(notes[i].path)
       THEN Return(c)
       ELSE Proceed(c, [proc[c] EXCEPT !.pc = "commit", !.op = "delete"])
  /\ Untouched /\ UNCHANGED notes

\* notes.path is UNIQUE: this write would raise IntegrityError.
Collides(c) == proc[c].op \in {"create", "move"} /\ RowAt(proc[c].path) # 0

NewRow(p, h) ==
  [path |-> p, hash |-> h, deleted |-> FALSE, recorded |-> NoFile]

\* lifecycle.create_note, its INSERT.  Findings, provenance and tags come later.
CommitCreate(c) ==
  /\ At(c, "commit") /\ proc[c].op = "create" /\ ~Collides(c)
  /\ notes' = Append(notes, NewRow(proc[c].path, proc[c].text))
  /\ Proceed(c, [proc[c] EXCEPT !.pc = "persist", !.note = Len(notes) + 1])
  /\ Untouched

\* lifecycle.update_note_content
CommitUpdate(c) ==
  /\ At(c, "commit") /\ proc[c].op = "update"
  /\ notes' = [notes EXCEPT ![proc[c].note].hash = proc[c].text]
  /\ Proceed(c, [proc[c] EXCEPT !.pc = "persist"])
  /\ Untouched

\* lifecycle.move_note
CommitMove(c) ==
  /\ At(c, "commit") /\ proc[c].op = "move" /\ ~Collides(c)
  /\ notes' = [notes EXCEPT ![proc[c].note].path = proc[c].path]
  /\ Return(c)
  /\ Untouched

\* lifecycle.delete_note
CommitDelete(c) ==
  /\ At(c, "commit") /\ proc[c].op = "delete"
  /\ notes' = [notes EXCEPT ![proc[c].note].deleted = TRUE]
  /\ Return(c)
  /\ Untouched

\* The rest of a create or an update: lifecycle transition, findings and scan
\* status, provenance, tags.  Then the lock is released.
Persist(c) ==
  /\ At(c, "persist")
  /\ notes' = [notes EXCEPT ![proc[c].note].recorded = proc[c].scan]
  /\ proc' = [proc EXCEPT ![c].pc = "chain"]
  /\ Unlock(c)
  /\ Untouched

\* After "created" or "updated" a task enqueues index_note_task, and a pass that has a Qdrant
\* client calls index_note.  Both, and what becomes of an index if they fail, are in Indexing.
Chain(c) ==
  /\ At(c, "chain")
  /\ proc' = [proc EXCEPT ![c] = After(c)]
  /\ UNCHANGED <<disk, notes, locks, up, signals, queue, delayed, budget>>

\* The job raises.  A task is retried after a delay while it has tries left; a
\* pass logs it and goes on.
Raise(c) ==
  /\ delayed' = IF proc[c].job = "task" /\ proc[c].tries > 0
                  THEN Append(delayed, Enqueue(proc[c].path, proc[c].tries - 1)) ELSE delayed
  /\ Return(c)
  /\ UNCHANGED <<disk, up, signals, queue>>

\* The row could not be written (or read): the database is busy, or UNIQUE.
CommitFails(c) ==
  /\ At(c, "commit")
  /\ \/ "commit" \in Faults /\ Spend("faults")
     \/ Collides(c) /\ UNCHANGED budget
  /\ Raise(c)
  /\ UNCHANGED notes

\* One of the writes after the row fails: what was recorded is old or in pieces.
PersistFails(c) ==
  /\ At(c, "persist")
  /\ "persist" \in Faults
  /\ Spend("faults")
  /\ \E left \in {NoFile, notes[proc[c].note].recorded} :
       notes' = [notes EXCEPT ![proc[c].note].recorded = left]
  /\ Raise(c)

-----------------------------------------------------------------------------
(* Crash and start of the worker process                                     *)

\* What lives in memory is gone, the dequeued task with it; whether huey's lock
\* row outlives its owner depends on how the consumer is started.
Crash ==
  /\ up
  /\ Spend("crashes")
  /\ up' = FALSE
  /\ signals' = {}
  /\ proc' = [proc EXCEPT ![Worker] = Idle]
  /\ \/ UNCHANGED locks
     \/ locks' = [p \in Paths |-> IF locks[p] = Worker THEN NoProc ELSE locks[p]]
  /\ UNCHANGED <<disk, notes, queue, delayed>>

\* start_watcher: the watcher first, then a reconciliation pass inline.
StartWorker ==
  /\ ~up
  /\ up' = TRUE
  /\ proc' = [proc EXCEPT ![Worker] = [Idle EXCEPT !.pc = "next", !.job = "walk", !.todo = Paths]]
  /\ UNCHANGED <<disk, notes, locks, signals, queue, delayed, budget>>

-----------------------------------------------------------------------------

PassStep(c) == Walk(c) \/ IngestNext(c) \/ NextPhase(c)

JobStep(c) ==
  \/ TryLock(c) \/ Read(c) \/ Scan(c) \/ Lookup(c) \/ Detect(c) \/ Vanished(c) \/ Twin(c)
  \/ CommitCreate(c) \/ CommitUpdate(c) \/ CommitMove(c) \/ CommitDelete(c)
  \/ Persist(c) \/ Chain(c)

Fault(c) == ScanFails(c) \/ CommitFails(c) \/ PersistFails(c) \/ AbortPass(c)

WorkerStep == TakeTask \/ StartPass(Worker) \/ PassStep(Worker) \/ JobStep(Worker)

Next ==
  \/ Edit
  \/ \E p \in Paths : OnSettle(p) \/ OnSettleFails(p)
  \/ RetryDue
  \/ TakeTask
  \/ \E c \in Procs : StartPass(c) \/ PassStep(c) \/ JobStep(c) \/ Fault(c)
  \/ Crash
  \/ StartWorker

Spec == Init /\ [][Next]_vars

\* The worker runs: it is started, takes up work and finishes it, its timers fire and
\* its scheduler ticks.  The user, the command lines and the faults owe nothing.
FairSpec ==
  /\ Spec
  /\ WF_vars(StartWorker)
  /\ WF_vars(WorkerStep)
  /\ \A p \in Paths : WF_vars(OnSettle(p))
  /\ WF_vars(RetryDue)

-----------------------------------------------------------------------------
(* Properties *)

Row == [path : Paths, hash : Contents, deleted : BOOLEAN,
        recorded : Contents \cup {NoFile}]

Task == [path : Paths, tries : 0..Retries]

ProcType ==
  [pc : {"idle", "next", "lock", "read", "scan", "lookup", "detect", "vanished", "twin",
         "commit", "persist", "chain"},
   job : {"none", "task", "walk", "files", "missing"},
   path : Paths \cup {NoPath}, tries : 0..Retries,
   todo : SUBSET Paths, snap : SUBSET Paths,
   text : Contents \cup {NoFile}, scan : Contents \cup {NoFile}, note : Nat,
   op : {"none", "create", "update", "move", "delete"}]

\* The type invariant of the vault, the tables, huey's store and the processes.
TypeOK ==
  /\ disk \in [Paths -> Contents \cup {NoFile}]
  /\ notes \in Seq(Row)
  /\ locks \in [Paths -> Procs \cup {NoProc}]
  /\ up \in BOOLEAN
  /\ signals \in SUBSET Paths
  /\ queue \in Seq(Task) /\ delayed \in Seq(Task)
  /\ proc \in [Procs -> ProcType]
  /\ budget \in [Budgeted -> Nat]

\* Inside the locked part of ingest_note.
Locked(c) ==
  proc[c].pc \in {"read", "scan", "lookup", "detect", "vanished", "twin", "commit", "persist"}

\* Whoever works on a path owns its lock, so no two processes work on the same path.
LockHeld == \A c \in Procs : Locked(c) => locks[proc[c].path] = c

UsesText(c) ==
  \/ proc[c].pc \in {"scan", "lookup", "detect"}
  \/ At(c, "commit") /\ proc[c].op \in {"create", "update"}

UsesNote(c) ==
  \/ proc[c].pc \in {"twin", "persist", "chain"}
  \/ At(c, "commit") /\ proc[c].op \in {"update", "move", "delete"}

\* What a step is about to use has been set: the path, the text read from the file,
\* the row found.
DataReady(c) ==
  /\ Locked(c) \/ At(c, "lock") => proc[c].path \in Paths
  /\ UsesText(c) => proc[c].text \in Contents
  /\ UsesNote(c) => proc[c].note \in Ids

JobData == \A c \in Procs : DataReady(c)

\* A process about to give its path a row, or to look for the row to give it.
NeedsFreePath(c) ==
  At(c, "detect") \/ (At(c, "commit") /\ proc[c].op \in {"create", "move"})

\* Once a process has found its path without a row, the path stays without one
\* until it writes the row itself.
PathStillFree ==
  \A c \in Procs : NeedsFreePath(c) => \A i \in Ids : notes[i].path # proc[c].path

\* No two rows, tombstones included, have one path.
UniquePaths == \A i, j \in Ids : notes[i].path = notes[j].path => i = j

\* The inductive invariant of the ingestion path.
IngestionInv == TypeOK /\ LockHeld /\ JobData /\ PathStillFree /\ UniquePaths

Ingestible(p) == OnDisk(p) /\ ~(BlockOnHigh /\ disk[p] \in Secrets)

\* A lock whose owner died without releasing it.
Orphaned(p) == locks[p] = Worker /\ ~(Locked(Worker) /\ proc[Worker].path = p)

\* The notes table agrees with the vault: every file that may be ingested has a row
\* with its hash, and an active row has its file, unless another active note with
\* the same hash has one.  Nothing can be said of a path behind an orphaned lock.
Mirror ==
  /\ \A p \in Paths : Ingestible(p) /\ ~Orphaned(p) =>
       \E i \in Ids : notes[i].path = p /\ notes[i].hash = disk[p]
  /\ \A i \in Ids : Active(i) /\ ~OnDisk(notes[i].path) /\ ~Orphaned(notes[i].path) =>
       \E j \in WithHash(notes[i].hash) : j # i /\ OnDisk(notes[j].path)

\* Whatever the watcher lost, however reads, scans, writes and passes failed, the
\* worker crashed and files changed under a running pass, the table comes to agree
\* with the vault once edits, failures and crashes end.
Converges == <>[]Mirror

\* The write of a new or moved row never fails on UNIQUE(notes.path): the row that
\* move detection found missing is still missing at the write.
NoPathCollision == \A c \in Procs : At(c, "commit") => ~Collides(c)

\* A note is tombstoned only by a job for the path the note has at that moment.
TombstonesOwnPath ==
  [][\A i \in Ids : Active(i) /\ notes'[i].deleted =>
       \E c \in Procs : proc[c].op = "delete" /\ notes[i].path = proc[c].path]_vars
=============================================================================
