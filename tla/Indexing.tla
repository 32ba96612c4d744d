------------------------------ MODULE Indexing ------------------------------
(***************************************************************************)
(* From a row of the notes table to what a search can find: the queue of   *)
(* index_note_task, the job index_note (athena.indexing.index_note), and   *)
(* the passes that call it directly (reconciliation, bootstrap, `athena    *)
(* index bootstrap`, reindex_task over the whole vault; for one note it is *)
(* index_note_task again, asked for by a client, and is left out).         *)
(*                                                                         *)
(* index_note takes no lock.  Its steps are writes to Qdrant and commits   *)
(* to SQLite, and between two of them another process may index the same   *)
(* note, the user may edit the file, the step may fail or the process die. *)
(*                                                                         *)
(* Abstracted: a text stands for the parsed and redacted body, and yields  *)
(* Size[text] chunks; the points one upsert writes are one record, whose   *)
(* batch stands for their fresh UUIDs.  Of ingestion, the subject of       *)
(* module Ingestion, the steps the index depends on are here: the path     *)
(* lock, the text read under it, the commit of its hash, and what fails,   *)
(* is refused or is locked out; a note keeps its path.                     *)
(***************************************************************************)
EXTENDS Integers, Sequences

CONSTANTS
  Notes,     \* the notes
  Texts,     \* bodies a note may have
  NoText,    \* no file; the hash of a note not ingested yet
  Size,      \* Texts -> number of chunks; 0 for a body without text
  Batches,   \* identities of the point ids one upsert mints
  NoBatch,
  NoNote,
  Worker,    \* the consumer process
  Clis,      \* processes running a command that indexes
  Retries,   \* retries= of index_note_task
  Faulty,    \* what may fail: the Qdrant client, ingestion, the steps of index_note
  Undo,      \* the user may put back the very text last hashed
  MaxEdits, MaxFaults, MaxCrashes  \* bounds on what the environment does

ASSUME IndexingAssumption ==
  /\ NoText \notin Texts
  /\ Size \in [Texts -> Nat]
  /\ NoBatch \notin Batches
  /\ NoNote \notin Notes
  /\ Worker \notin Clis
  /\ Retries \in Nat
  /\ Undo \in BOOLEAN
  /\ Faulty \subseteq {"connect", "client", "scan", "ingest", "record", "read", "drop", "upsert",
                      "purge", "insert", "mark", "promote", "report"}
  /\ MaxEdits \in Nat /\ MaxFaults \in Nat /\ MaxCrashes \in Nat

VARIABLES
  disk,       \* the vault: note -> text or NoText
  rows,       \* the notes table
  points,     \* the Qdrant collection: note -> batches of points
  chunks,     \* the chunks table: note -> rows
  signals,    \* notes with an ingest_note_task in the queue
  queue,      \* index_note_task invocations ready to run
  delayed,    \* retries waiting out retry_delay
  locks,      \* path locks taken in the queue's database
  proc,       \* what each process is doing
  disturbed,  \* history: notes whose latest run overlapped another, or left no word of its end
  forgone,    \* history: notes whose ingestion or index job was given up without a word
  budget      \* edits, faults and crashes left

vars == <<disk, rows, points, chunks, signals, queue, delayed, locks, proc, disturbed, forgone, budget>>

Procs == Clis \cup {Worker}

Idle ==
  [pc |-> "idle", job |-> "none", note |-> NoNote, tries |-> 0, todo |-> {},
   text |-> NoText, batch |-> NoBatch, next |-> 1]

NewRow == [hash |-> NoText, deleted |-> FALSE, state |-> "stale", status |-> "draft"]

Budgeted == {"edits", "faults", "crashes"}

Init ==
  /\ disk \in [Notes -> Texts]
  /\ rows = [n \in Notes |-> NewRow]
  /\ points = [n \in Notes |-> {}]
  /\ chunks = [n \in Notes |-> {}]
  /\ signals = Notes
  /\ queue = <<>> /\ delayed = <<>> /\ locks = {}
  /\ proc = [c \in Procs |-> Idle]
  /\ disturbed = {} /\ forgone = {}
  /\ budget = [kind \in Budgeted |-> CASE kind = "edits" -> MaxEdits
                                       [] kind = "faults" -> MaxFaults
                                       [] OTHER -> MaxCrashes]

-----------------------------------------------------------------------------

\* A row in the table without a tombstone.
Active(n) == rows[n].hash # NoText /\ ~rows[n].deleted

\* list_ids_needing_index
NeedIndex == {n \in Notes : Active(n) /\ rows[n].state # "current"}

Spend(kind) ==
  /\ budget[kind] > 0
  /\ budget' = [budget EXCEPT ![kind] = budget[kind] - 1]

At(c, pc) == proc[c].pc = pc

\* c has begun index_note on n.
IndexSteps == {"read", "drop", "upsert", "purge", "insert", "mark", "promote", "report", "except"}
Runs(c, n) == proc[c].pc \in IndexSteps /\ proc[c].note = n

\* Where a process goes when index_note is over: the next note of its pass, or done.
After(c) ==
  IF proc[c].todo = {} THEN Idle
  ELSE [Idle EXCEPT !.pc = "next", !.job = "pass", !.todo = proc[c].todo]

\* Huey's database.
Queues == <<signals, queue, delayed, locks>>
Stores == <<rows, points, chunks>>

-----------------------------------------------------------------------------
(* The user, ingestion, and what starts an index_note                        *)

\* The user writes or deletes the file; the watcher has an ingest_note_task queued.  Ingestion
\* will not see that a passing text was undone, whoever has read it meanwhile.
Edit(n) ==
  /\ Spend("edits")
  /\ \E t \in (Texts \cup {NoText}) \ {disk[n]} :
       /\ Undo \/ t # rows[n].hash
       /\ disk' = [disk EXCEPT ![n] = t]
       /\ forgone' = IF t = rows[n].hash THEN forgone \cup {n} ELSE forgone
  /\ signals' = signals \cup {n}
  /\ UNCHANGED <<Stores, queue, delayed, locks, proc, disturbed>>

\* ingest_note finds something to do with text t: a file that is gone, or not the one hashed.
Changes(n, t) == IF t = NoText THEN Active(n) ELSE ~(Active(n) /\ rows[n].hash = t)

\* huey.lock_task does not wait.  What the process has read of n is in its text.
Hold(c, n, job) ==
  /\ n \notin locks
  /\ locks' = locks \cup {n}
  /\ proc' = [proc EXCEPT ![c] =
                [Idle EXCEPT !.pc = "ingest", !.job = job, !.note = n, !.text = disk[n]]]

Release(c) == locks' = locks \ {proc[c].note}

\* What c has to hash, or to have indexed, is left to chance.
GiveUp(c) ==
  forgone' = IF At(c, "chain") \/ Changes(proc[c].note, proc[c].text)
               THEN forgone \cup {proc[c].note} ELSE forgone

\* ingest_note_task takes the path lock ...
IngestTask(n) ==
  /\ At(Worker, "idle") /\ n \in signals
  /\ Hold(Worker, n, "task")
  /\ signals' = signals \ {n}
  /\ UNCHANGED <<disk, Stores, queue, delayed, disturbed, forgone, budget>>

\* ... or finds it taken, and is done: "already in progress for this path".
IngestLocked(n) ==
  /\ At(Worker, "idle") /\ n \in signals /\ n \in locks
  /\ signals' = signals \ {n}
  /\ forgone' = IF Changes(n, disk[n]) THEN forgone \cup {n} ELSE forgone
  /\ UNCHANGED <<disk, Stores, queue, delayed, locks, proc, disturbed, budget>>

\* A reconciliation or bootstrap pass reaches n, a file or an active row.
IngestPass(c, n) ==
  /\ At(c, "idle") /\ (disk[n] # NoText \/ Active(n))
  /\ Hold(c, n, "pass")
  /\ UNCHANGED <<disk, Stores, signals, queue, delayed, disturbed, forgone, budget>>

\* The hash is the one recorded, or there is no row to delete.
IngestNoop(c) ==
  /\ At(c, "ingest") /\ ~Changes(proc[c].note, proc[c].text)
  /\ Release(c)
  /\ proc' = [proc EXCEPT ![c] = Idle]
  /\ UNCHANGED <<disk, Stores, signals, queue, delayed, disturbed, forgone, budget>>

\* A tombstone: nothing is chained.
IngestDeleted(c) ==
  /\ At(c, "ingest") /\ proc[c].text = NoText /\ Active(proc[c].note)
  /\ rows' = [rows EXCEPT ![proc[c].note].deleted = TRUE]
  /\ Release(c)
  /\ proc' = [proc EXCEPT ![c] = Idle]
  /\ UNCHANGED <<disk, points, chunks, signals, queue, delayed, disturbed, forgone, budget>>

\* The hash of the text read is committed, before the rest is written and the lock released.
\* index_state is left as it was.
IngestCommit(c) ==
  /\ At(c, "ingest") /\ proc[c].text # NoText /\ Changes(proc[c].note, proc[c].text)
  /\ rows' = [rows EXCEPT ![proc[c].note].hash = proc[c].text]
  /\ proc' = [proc EXCEPT ![c].pc = "chain"]
  /\ forgone' = forgone \ {proc[c].note}
  /\ UNCHANGED <<disk, points, chunks, Queues, disturbed, budget>>

\* The file cannot be read or scanned, or is blocked: the task is done, with nothing recorded.
IngestRefused(c) ==
  /\ At(c, "ingest") /\ proc[c].text # NoText /\ "scan" \in Faulty
  /\ Spend("faults")
  /\ Release(c)
  /\ proc' = [proc EXCEPT ![c] = Idle]
  /\ GiveUp(c)
  /\ UNCHANGED <<disk, Stores, signals, queue, delayed, disturbed>>

\* ingest_note raises: a task is put back while it may be retried, a pass goes on to the
\* next file.  Once the hash is committed a retry finds it equal, and chains nothing.
IngestFails(c) ==
  /\ At(c, "ingest") \/ At(c, "chain")
  /\ "ingest" \in Faulty /\ Spend("faults")
  /\ Release(c)
  /\ proc' = [proc EXCEPT ![c] = Idle]
  /\ \/ /\ proc[c].job = "task" /\ signals' = signals \cup {proc[c].note}
        /\ IF At(c, "chain") THEN GiveUp(c) ELSE UNCHANGED forgone
     \/ GiveUp(c) /\ UNCHANGED signals
  /\ UNCHANGED <<disk, Stores, queue, delayed, disturbed>>

\* Mutant of Chain: the pass leaves indexing to a later one.
BugChain(c) ==
  /\ At(c, "chain")
  /\ Release(c)
  /\ proc' = [proc EXCEPT ![c] = Idle]
  /\ queue' = IF proc[c].job = "task"
                THEN Append(queue, [note |-> proc[c].note, tries |-> Retries]) ELSE queue
  /\ UNCHANGED <<disk, Stores, signals, delayed, disturbed, forgone, budget>>

\* ingest_note returns: the task enqueues index_note_task, a pass calls index_note.
Chain(c) ==
  /\ At(c, "chain")
  /\ Release(c)
  /\ IF proc[c].job = "task"
       THEN /\ queue' = Append(queue, [note |-> proc[c].note, tries |-> Retries])
            /\ proc' = [proc EXCEPT ![c] = Idle]
       ELSE /\ proc' = [proc EXCEPT ![c] = [Idle EXCEPT !.pc = "start", !.job = "pass",
                                                        !.note = proc[c].note]]
            /\ UNCHANGED queue
  /\ UNCHANGED <<disk, Stores, signals, delayed, disturbed, forgone, budget>>

\* index_note_task
TakeTask ==
  /\ At(Worker, "idle") /\ queue # <<>>
  /\ proc' = [proc EXCEPT ![Worker] = [Idle EXCEPT !.pc = "start", !.job = "task",
                !.note = Head(queue).note, !.tries = Head(queue).tries]]
  /\ queue' = Tail(queue)
  /\ UNCHANGED <<disk, Stores, signals, delayed, locks, disturbed, forgone, budget>>

\* index_bootstrap lists its notes once ...
StartBootstrap(c) ==
  /\ At(c, "idle") /\ NeedIndex # {}
  /\ proc' = [proc EXCEPT ![c] = [Idle EXCEPT !.pc = "next", !.job = "pass", !.todo = NeedIndex]]
  /\ UNCHANGED <<disk, Stores, Queues, disturbed, forgone, budget>>

\* ... and indexes them in turn.
BootstrapNext(c) ==
  /\ At(c, "next")
  /\ \E n \in proc[c].todo :
       proc' = [proc EXCEPT ![c].pc = "start", ![c].note = n, ![c].todo = @ \ {n}]
  /\ UNCHANGED <<disk, Stores, Queues, disturbed, forgone, budget>>

\* retry_delay is over.
RetryDue ==
  /\ delayed # <<>>
  /\ queue' = Append(queue, Head(delayed))
  /\ delayed' = Tail(delayed)
  /\ UNCHANGED <<disk, Stores, signals, locks, proc, disturbed, forgone, budget>>

\* The worker's Qdrant client, made on first use, cannot be made, or the row of the note not
\* be read: nothing is recorded, and a task is retried while it may be.
ConnectFails(c) ==
  /\ At(c, "start") /\ "connect" \in Faulty
  /\ Spend("faults")
  /\ IF proc[c].job = "task" /\ proc[c].tries > 0
       THEN /\ delayed' = Append(delayed, [note |-> proc[c].note, tries |-> proc[c].tries - 1])
            /\ UNCHANGED forgone
       ELSE /\ forgone' = forgone \cup {proc[c].note}
            /\ UNCHANGED delayed
  /\ proc' = [proc EXCEPT ![c] = After(c)]
  /\ UNCHANGED <<disk, Stores, signals, queue, locks, disturbed>>

\* A pass goes on without a client: it ingests and indexes nothing.  Or it cannot report the
\* discrepancy, and ends.
SkipIndexing(c) ==
  /\ At(c, "chain") /\ proc[c].job = "pass" /\ "client" \in Faulty
  /\ Spend("faults")
  /\ Release(c)
  /\ GiveUp(c)
  /\ proc' = [proc EXCEPT ![c] = Idle]
  /\ UNCHANGED <<disk, Stores, signals, queue, delayed, disturbed>>

-----------------------------------------------------------------------------
(* index_note                                                                *)

Frame == UNCHANGED <<disk, Queues, disturbed, forgone, budget>>
Goto(c, pc) == proc' = [proc EXCEPT ![c].pc = pc]

\* A step raises.
Raise(c) == Goto(c, "except") /\ UNCHANGED <<disk, Stores, Queues, disturbed, forgone>>

\* The exception leaves index_note; a task is retried while it may be.
Leave(c) ==
  /\ At(c, "except")
  /\ delayed' = IF proc[c].job = "task" /\ proc[c].tries > 0
                  THEN Append(delayed, [note |-> proc[c].note, tries |-> proc[c].tries - 1])
                  ELSE delayed
  /\ proc' = [proc EXCEPT ![c] = After(c)]
  /\ UNCHANGED <<disk, points, chunks, signals, queue, locks, forgone>>

\* Mutant of MarkFailed: the failure is only logged.
BugMarkFailed(c) == Leave(c) /\ UNCHANGED <<rows, disturbed, budget>>

\* mark_index_failed: the failure is recorded in the row ...
MarkFailed(c) ==
  /\ Leave(c)
  /\ rows' = [rows EXCEPT ![proc[c].note].state = "failed"]
  /\ UNCHANGED <<disturbed, budget>>

\* ... or that fails as well, and is only logged.
MarkFailedFails(c) ==
  /\ "record" \in Faulty /\ Spend("faults")
  /\ Leave(c)
  /\ disturbed' = disturbed \cup {proc[c].note}
  /\ UNCHANGED rows

\* get_by_id: a deleted note is a noop.
Begin(c) ==
  /\ At(c, "start")
  /\ LET n == proc[c].note
     IN IF Active(n)
          THEN /\ Goto(c, "read")
               /\ disturbed' = IF \E d \in Procs \ {c} : Runs(d, n) THEN disturbed \cup {n}
                                                                  ELSE disturbed \ {n}
               /\ forgone' = forgone \ {n}
          ELSE /\ proc' = [proc EXCEPT ![c] = After(c)]
               /\ UNCHANGED <<disturbed, forgone>>
  /\ UNCHANGED <<disk, Stores, Queues, budget>>

\* _reprocess_body and chunk_note: the file as it is now.
Read(c) ==
  /\ At(c, "read") /\ disk[proc[c].note] # NoText
  /\ proc' = [proc EXCEPT ![c].pc = "drop", ![c].text = disk[proc[c].note]]
  /\ Frame /\ UNCHANGED Stores

\* ... or it is gone.
ReadGone(c) ==
  /\ At(c, "read") /\ disk[proc[c].note] = NoText
  /\ Raise(c)
  /\ UNCHANGED budget

HasChunks(c) == Size[proc[c].text] > 0

\* delete_points_for_note, after the text has been embedded.
DropPoints(c) ==
  /\ At(c, "drop")
  /\ points' = [points EXCEPT ![proc[c].note] = {}]
  /\ Goto(c, IF HasChunks(c) THEN "upsert" ELSE "purge")
  /\ Frame /\ UNCHANGED <<rows, chunks>>

\* Batches some point, chunk or run has.
InUse ==
  {p.batch : p \in UNION {points[n] : n \in Notes}}
    \cup {r.batch : r \in UNION {chunks[n] : n \in Notes}} \cup {proc[c].batch : c \in Procs}

\* upsert_chunks mints new point ids.
Upsert(c) ==
  /\ At(c, "upsert") /\ Batches \ InUse # {}
  /\ LET b == CHOOSE b \in Batches : b \notin InUse
     IN /\ points' = [points EXCEPT ![proc[c].note] = @ \cup {[batch |-> b, text |-> proc[c].text]}]
        /\ proc' = [proc EXCEPT ![c].pc = "purge", ![c].batch = b]
  /\ Frame /\ UNCHANGED <<rows, chunks>>

\* Mutant of PurgeChunks: the rows of the old text stay when the new one has none.
BugPurgeChunks(c) ==
  /\ At(c, "purge")
  /\ chunks' = IF HasChunks(c) THEN [chunks EXCEPT ![proc[c].note] = {}] ELSE chunks
  /\ proc' = [proc EXCEPT ![c].pc = IF HasChunks(c) THEN "insert" ELSE "mark", ![c].next = 1]
  /\ Frame /\ UNCHANGED <<rows, points>>

\* chunks.delete_for_note
PurgeChunks(c) ==
  /\ At(c, "purge")
  /\ chunks' = [chunks EXCEPT ![proc[c].note] = {}]
  /\ proc' = [proc EXCEPT ![c].pc = IF HasChunks(c) THEN "insert" ELSE "mark", ![c].next = 1]
  /\ Frame /\ UNCHANGED <<rows, points>>

ChunkRow(b, t, i) == [batch |-> b, text |-> t, index |-> i]

\* UNIQUE(note_id, chunk_index)
Clashes(c) == \E r \in chunks[proc[c].note] : r.index = proc[c].next

\* chunks.insert, one commit per chunk.
InsertChunk(c) ==
  /\ At(c, "insert") /\ ~Clashes(c)
  /\ chunks' = [chunks EXCEPT ![proc[c].note] =
                  @ \cup {ChunkRow(proc[c].batch, proc[c].text, proc[c].next)}]
  /\ proc' = [proc EXCEPT ![c].pc = IF proc[c].next = Size[proc[c].text] THEN "mark" ELSE "insert",
                          ![c].next = @ + 1]
  /\ Frame /\ UNCHANGED <<rows, points>>

InsertClash(c) ==
  /\ At(c, "insert") /\ Clashes(c)
  /\ Raise(c)
  /\ UNCHANGED budget

\* Mutant of MarkIndexed: a note without chunks is promoted as well.
BugMarkIndexed(c) ==
  /\ At(c, "mark")
  /\ rows' = [rows EXCEPT ![proc[c].note].state = "current"]
  /\ Goto(c, "promote")
  /\ Frame /\ UNCHANGED <<points, chunks>>

\* mark_indexed, the commit marker.
MarkIndexed(c) ==
  /\ At(c, "mark")
  /\ rows' = [rows EXCEPT ![proc[c].note].state = "current"]
  /\ Goto(c, IF HasChunks(c) THEN "promote" ELSE "report")
  /\ Frame /\ UNCHANGED <<points, chunks>>

\* promote_on_first_index: draft becomes active, once there is something to find.
Promote(c) ==
  /\ At(c, "promote")
  /\ rows' = [rows EXCEPT ![proc[c].note].status = "active"]
  /\ Goto(c, "report")
  /\ Frame /\ UNCHANGED <<points, chunks>>

\* index.update_completed is appended; the job returns.
Report(c) ==
  /\ At(c, "report")
  /\ proc' = [proc EXCEPT ![c] = After(c)]
  /\ Frame /\ UNCHANGED Stores

\* The step raises: the embedder, Qdrant or the database.  A request that was applied
\* and then raised is a failure of the next step.
StepFails(c) ==
  /\ proc[c].pc \in IndexSteps \cap Faulty
  /\ Spend("faults")
  /\ Raise(c)

\* The process ends and what it was doing with it; the worker is started again.  A process
\* that is killed leaves its path lock behind, for good; one that unwinds releases it.
Crash(c) ==
  /\ ~At(c, "idle")
  /\ Spend("crashes")
  /\ proc' = [proc EXCEPT ![c] = Idle]
  /\ disturbed' = disturbed \cup ({proc[c].note} \cap Notes)
  /\ (locks' = locks) \/ (proc[c].pc \in {"ingest", "chain"} /\ Release(c))
  /\ UNCHANGED <<disk, Stores, signals, queue, delayed, forgone>>

-----------------------------------------------------------------------------

JobStep(c) ==
  \/ IngestNoop(c) \/ IngestDeleted(c) \/ IngestCommit(c)
  \/ Chain(c) \/ BootstrapNext(c) \/ Begin(c) \/ Read(c) \/ ReadGone(c)
  \/ DropPoints(c) \/ Upsert(c) \/ PurgeChunks(c) \/ InsertChunk(c) \/ InsertClash(c)
  \/ MarkIndexed(c) \/ Promote(c) \/ Report(c) \/ MarkFailed(c)

Next ==
  \/ \E n \in Notes : Edit(n) \/ IngestTask(n) \/ IngestLocked(n)
  \/ TakeTask \/ RetryDue
  \/ \E c \in Procs, n \in Notes : IngestPass(c, n)
  \/ \E c \in Procs : \/ StartBootstrap(c) \/ JobStep(c)
                       \/ IngestRefused(c) \/ IngestFails(c)
                       \/ ConnectFails(c) \/ SkipIndexing(c) \/ StepFails(c) \/ MarkFailedFails(c)
                       \/ Crash(c)

Spec == Init /\ [][Next]_vars

\* A run once begun goes on, the scheduler ticks, and the queue is first in, first out:
\* reindex jobs started again and again do not starve a queued task.  Nobody owes an
\* edit, a pass, a failure or a crash.
FairSpec ==
  /\ Spec
  /\ \A c \in Procs : WF_vars(JobStep(c))
  /\ SF_vars(TakeTask)
  /\ \A n \in Notes : SF_vars(IngestTask(n) \/ IngestLocked(n))
  /\ WF_vars(RetryDue)

-----------------------------------------------------------------------------
(* Properties *)

Point == [batch : Batches, text : Texts]
Chunk == [batch : Batches, text : Texts, index : Nat]
Row == [hash : Texts \cup {NoText}, deleted : BOOLEAN,
        state : {"stale", "current", "failed"}, status : {"draft", "active"}]
Task == [note : Notes, tries : Nat]
ProcType ==
  [pc : IndexSteps \cup {"idle", "ingest", "chain", "next", "start"}, job : {"none", "task", "pass"},
   note : Notes \cup {NoNote}, tries : Nat, todo : SUBSET Notes,
   text : Texts \cup {NoText}, batch : Batches \cup {NoBatch}, next : Nat]

\* The type invariant of the vault, the stores, the queue and the processes.
TypeOK ==
  /\ disk \in [Notes -> Texts \cup {NoText}]
  /\ rows \in [Notes -> Row]
  /\ points \in [Notes -> SUBSET Point]
  /\ chunks \in [Notes -> SUBSET Chunk]
  /\ signals \in SUBSET Notes
  /\ queue \in Seq(Task) /\ delayed \in Seq(Task) /\ locks \in SUBSET Notes
  /\ proc \in [Procs -> ProcType]
  /\ disturbed \in SUBSET Notes /\ forgone \in SUBSET Notes
  /\ budget \in [Budgeted -> Nat]

\* The points and the chunk rows a run of index_note leaves for text t.
PointsOf(b, t) == IF Size[t] = 0 THEN {} ELSE {[batch |-> b, text |-> t]}
RowsOf(b, t, k) == {ChunkRow(b, t, i) : i \in 1..k}

\* The two stores tell text t: one batch of points, and exactly its chunk rows.
Tells(n, t) ==
  \E b \in Batches \cup {NoBatch} : points[n] = PointsOf(b, t) /\ chunks[n] = RowsOf(b, t, Size[t])

\* A process past Begin has its note; past Read, its text; past Upsert, its batch.
RunReady(c) ==
  /\ proc[c].pc \notin {"idle", "next"} => proc[c].note \in Notes
  /\ proc[c].pc \in IndexSteps \ {"read", "except"} => proc[c].text \in Texts
  /\ proc[c].pc \in {"upsert", "insert", "promote"} => HasChunks(c)
  /\ proc[c].pc \in {"purge", "insert"} /\ HasChunks(c) => proc[c].batch \in Batches
  /\ At(c, "insert") => proc[c].next \in 1..Size[proc[c].text]

RunData == \A c \in Procs : RunReady(c)

\* What c has done of its run on n is what the stores hold.
OwnWork(c, n) ==
  LET t == proc[c].text  b == proc[c].batch IN
  /\ At(c, "upsert") => points[n] = {}
  /\ proc[c].pc \in {"purge", "insert", "mark", "promote", "report"} => points[n] = PointsOf(b, t)
  /\ At(c, "insert") => chunks[n] = RowsOf(b, t, proc[c].next - 1)
  /\ proc[c].pc \in {"mark", "promote", "report"} => chunks[n] = RowsOf(b, t, Size[t])

\* Runs of index_note on an undisturbed note are alone and find only their own work.
Undisturbed ==
  \A c \in Procs : \A n \in Notes \ disturbed :
    Runs(c, n) => OwnWork(c, n) /\ \A d \in Procs \ {c} : ~Runs(d, n)

\* Nobody is indexing n, and its row says that it is indexed.
AtRest(n) == rows[n].state = "current" /\ \A c \in Procs : ~Runs(c, n)

\* index_state = 'current' is the commit marker it is meant to be: a note marked current
\* that nobody is indexing has the points and the chunk rows of one text, all of them and
\* no others, whatever steps failed in whatever runs before.  Not so (disturbed) where its
\* latest run overlapped another, died, or failed and could not record that it failed.
CurrentAgrees == \A n \in Notes \ disturbed : AtRest(n) => \E t \in Texts : Tells(n, t)

\* The inductive invariant of indexing.
IndexingInv == TypeOK /\ RunData /\ Undisturbed /\ CurrentAgrees

\* A draft becomes active only when a search can find it: unless runs overlapped, its
\* points and chunk rows are there at that very step.
PromotedIsSearchable ==
  [][\A n \in Notes \ disturbed : rows[n].status = "draft" /\ rows'[n].status = "active" =>
       points[n] # {} /\ chunks[n] # {}]_vars

\* An index job of n is queued, or about to begin; a run on n has its file, or will read it,
\* or will say that it failed.
Queued(n) ==
  \/ \E i \in DOMAIN queue : queue[i].note = n
  \/ \E i \in DOMAIN delayed : delayed[i].note = n
Owed(n) == Queued(n) \/ \E c \in Procs : proc[c].pc \in {"chain", "start"} /\ proc[c].note = n
Follows(c, n) ==
  Runs(c, n) /\ (At(c, "read") \/ At(c, "except") \/ proc[c].text = disk[n])

\* A process has read a text of n that it will find changed, as the file still is.
Ingests(c, n) ==
  At(c, "ingest") /\ proc[c].note = n /\ proc[c].text # rows[n].hash /\ disk[n] # rows[n].hash

\* Although the job that indexes a text reads the file later than the one that hashed it, the index
\* is never left behind silently: where it does not tell the text of the file and does not say
\* that it failed, the file is to be hashed or indexed again.  Not after an overlap, a death or
\* a failure that could not be recorded (disturbed), nor where an ingestion or a job was given
\* up without a word: locked out, refused, failed for good, without a client, or an edit undone
\* (forgone).
IndexIsPursued ==
  \A n \in Notes \ (disturbed \cup forgone) : Active(n) =>
    \/ n \in signals /\ disk[n] # rows[n].hash
    \/ \E c \in Procs : Ingests(c, n) \/ Follows(c, n)
    \/ Owed(n)
    \/ rows[n].state = "failed"
    \/ rows[n].state = "current" /\ Tells(n, disk[n])

\* Although an index job reads the file later than the job that queued it, jobs fail and
\* are retried, and files change meanwhile, the index of a note comes to tell the text of
\* its file, or says that it failed; but for the notes IndexIsPursued excepts.  A run that is
\* alone, or a hash that is committed, makes an excepted note one of these again.
IndexSettles ==
  <>[](\A n \in Notes \ (disturbed \cup forgone) : Active(n) =>
         \/ rows[n].state = "failed"
         \/ rows[n].state = "current" /\ disk[n] \in Texts /\ Tells(n, disk[n]))

\* The promise of _reprocess_body: the text indexed is exactly the one notes.content_hash
\* was computed from.  At rest, not at every moment.
IndexMatchesHash ==
  <>[](\A n \in Notes \ disturbed :
         Active(n) /\ rows[n].state = "current" => Tells(n, rows[n].hash))
=============================================================================
