--------------------------- MODULE IndexingProofs ---------------------------
(***************************************************************************)
(* The index of a note that is marked current, for any notes, any number   *)
(* of processes and any number of edits, failures and crashes; and that an *)
(* index left behind its file is on its way to be made anew, where no      *)
(* ingestion and no job was given up without a word.                       *)
(***************************************************************************)
EXTENDS Indexing, TLAPS, SequenceTheorems

USE IndexingAssumption DEF IndexingAssumption

\* What the invariant says of the processes and the stores.
Core == RunData /\ Undisturbed /\ CurrentAgrees /\ proc \in [Procs -> ProcType]
        /\ points \in [Notes -> SUBSET Point] /\ chunks \in [Notes -> SUBSET Chunk]
        /\ rows \in [Notes -> Row]

\* ... and of the vault, the queue, the history and the budget.
Surroundings ==
  /\ disk \in [Notes -> Texts \cup {NoText}]
  /\ signals \in SUBSET Notes
  /\ queue \in Seq(Task) /\ delayed \in Seq(Task) /\ locks \in SUBSET Notes
  /\ disturbed \in SUBSET Notes /\ forgone \in SUBSET Notes
  /\ budget \in [Budgeted -> Nat]

\* The invariant is these two halves.
LEMMA InvHalves ==
  /\ IndexingInv <=> Core /\ Surroundings
  /\ IndexingInv' <=> Core' /\ Surroundings'
  BY DEF IndexingInv, TypeOK, Core, Surroundings

\* A process that leaves index_note runs on no note.
LEMMA AfterIsQuiet ==
  ASSUME proc \in [Procs -> ProcType], NEW c \in Procs
  PROVE  After(c) \in ProcType /\ After(c).pc \in {"idle", "next"}
  <1>1. proc[c].todo \in SUBSET Notes
    BY DEF ProcType
  <1>2. After(c) \in {Idle, [pc |-> "next", job |-> "pass", note |-> NoNote, tries |-> 0,
                             todo |-> proc[c].todo, text |-> NoText, batch |-> NoBatch,
                             next |-> 1]}
    BY DEF After, Idle
  <1> QED
    BY <1>1, <1>2 DEF Idle, ProcType

\* One step of process c about note m.  If the stores change at m alone, and only while
\* c runs on m; if m is all that leaves the disturbed notes, and only when nobody else
\* runs on it; if c has what its next step needs and a run of its own is alone and
\* finds its own work; and if m agrees should it come to rest: then so does every note.
LEMMA StepKeeps ==
  ASSUME Core, NEW c \in Procs, NEW m, NEW step \in ProcType,
         proc' = [proc EXCEPT ![c] = step],
         points' \in [Notes -> SUBSET Point], chunks' \in [Notes -> SUBSET Chunk],
         rows' \in [Notes -> Row],
         \A n \in Notes : Runs(c, n) => n = m,
         \A n \in Notes : n # m \/ ~Runs(c, n) =>
            points'[n] = points[n] /\ chunks'[n] = chunks[n] /\ rows'[n].state = rows[n].state,
         \A n \in disturbed \ disturbed' : n = m /\ \A d \in Procs \ {c} : ~Runs(d, n),
         RunReady(c)',
         \A n \in Notes \ disturbed' : Runs(c, n)' =>
            n = m /\ OwnWork(c, n)' /\ \A d \in Procs \ {c} : ~Runs(d, n),
         m \in Notes \ disturbed' /\ AtRest(m)' => \E t \in Texts : Tells(m, t)'
  PROVE  Core'
  <1> USE DEF Core
  <1>1. proc' \in [Procs -> ProcType] /\ \A d \in Procs \ {c} : proc'[d] = proc[d]
    OBVIOUS
  <1>2. \A d \in Procs \ {c}, n \in Notes : Runs(d, n)' <=> Runs(d, n)
    BY <1>1 DEF Runs
  <1>3. RunData'
    <2> SUFFICES ASSUME NEW d \in Procs, d # c PROVE RunReady(d)'
      BY DEF RunData
    <2> QED
      BY <1>1 DEF RunData, RunReady, HasChunks, At
  <1>4. Undisturbed'
    <2> SUFFICES ASSUME NEW d \in Procs, d # c, NEW n \in Notes \ disturbed', Runs(d, n)'
                 PROVE  (OwnWork(d, n) /\ \A e \in Procs \ {d} : ~Runs(e, n))'
      BY <1>2 DEF Undisturbed
    <2>1. Runs(d, n) /\ n \notin disturbed
      BY <1>2
    <2>2. OwnWork(d, n) /\ \A e \in Procs \ {d} : ~Runs(e, n)
      BY <2>1 DEF Undisturbed
    <2>3. points'[n] = points[n] /\ chunks'[n] = chunks[n]
      BY <2>2
    <2>4. OwnWork(d, n)'
      BY <1>1, <2>2, <2>3 DEF OwnWork, At, PointsOf, RowsOf, ChunkRow
    <2>5. ~Runs(c, n)'
      BY <2>1
    <2> QED
      BY <1>2, <2>2, <2>4, <2>5
  <1>5. CurrentAgrees'
    <2> SUFFICES ASSUME NEW n \in Notes \ disturbed', AtRest(n)', n # m
                 PROVE  \E t \in Texts : Tells(n, t)'
      BY DEF CurrentAgrees
    <2>1. n \notin disturbed /\ ~Runs(c, n)
      OBVIOUS
    <2>2. AtRest(n)
      BY <1>2, <2>1 DEF AtRest
    <2>3. PICK t \in Texts : Tells(n, t)
      BY <2>1, <2>2 DEF CurrentAgrees
    <2>4. Tells(n, t)'
      BY <2>3 DEF Tells, PointsOf, RowsOf, ChunkRow
    <2> QED
      BY <2>4
  <1> QED
    BY <1>1, <1>3, <1>4, <1>5

\* A step of a process outside index_note that stays outside it.
LEMMA QuietStep ==
  ASSUME Core, NEW c \in Procs, NEW step \in ProcType,
         proc' = [proc EXCEPT ![c] = step],
         proc[c].pc \notin IndexSteps, step.pc \notin IndexSteps,
         step.pc \notin {"idle", "next"} => step.note \in Notes,
         UNCHANGED <<points, chunks>>, rows' \in [Notes -> Row],
         \A n \in Notes : rows'[n].state = rows[n].state,
         disturbed \subseteq disturbed'
  PROVE  Core'
  <1>1. proc'[c] = step
    BY DEF Core
  <1>2. \A n \in Notes : ~Runs(c, n) /\ ~Runs(c, n)'
    BY <1>1 DEF Runs
  <1>3. RunReady(c)'
    BY <1>1 DEF RunReady, IndexSteps, At
  <1>4. NoNote \notin Notes
    OBVIOUS
  <1>5. points' \in [Notes -> SUBSET Point] /\ chunks' \in [Notes -> SUBSET Chunk]
    BY DEF Core
  <1> HIDE DEF IndexingAssumption
  <1> QED
    BY <1>1, <1>2, <1>3, <1>4, <1>5, StepKeeps

\* A run on a note goes on.
LEMMA RunStep ==
  ASSUME Core, NEW c \in Procs, NEW step \in ProcType,
         proc' = [proc EXCEPT ![c] = step],
         proc[c].pc \in IndexSteps, step.pc \in IndexSteps, step.note = proc[c].note,
         points' \in [Notes -> SUBSET Point], chunks' \in [Notes -> SUBSET Chunk],
         rows' \in [Notes -> Row],
         \A n \in Notes \ {proc[c].note} :
            points'[n] = points[n] /\ chunks'[n] = chunks[n] /\ rows'[n].state = rows[n].state,
         UNCHANGED disturbed,
         RunReady(c)',
         proc[c].note \notin disturbed => OwnWork(c, proc[c].note)'
  PROVE  Core'
  <1>0. PICK m \in Notes : m = proc[c].note
    BY DEF Core, RunData, RunReady, IndexSteps
  <1>1. proc'[c] = step
    BY DEF Core
  <1>2. \A n \in Notes : (Runs(c, n) <=> n = m) /\ (Runs(c, n)' <=> n = m)
    BY <1>0, <1>1 DEF Runs
  <1>3. ~AtRest(m)'
    BY <1>0, <1>1, <1>2 DEF AtRest
  <1>4. \A n \in Notes \ disturbed : Runs(c, n) => \A d \in Procs \ {c} : ~Runs(d, n)
    BY DEF Core, Undisturbed
  <1>5. \A n \in Notes : n # m \/ ~Runs(c, n) =>
          points'[n] = points[n] /\ chunks'[n] = chunks[n] /\ rows'[n].state = rows[n].state
    BY <1>0, <1>2
  <1>6. \A n \in Notes \ disturbed' : Runs(c, n)' =>
          n = m /\ OwnWork(c, n)' /\ \A d \in Procs \ {c} : ~Runs(d, n)
    <2> SUFFICES ASSUME NEW n \in Notes \ disturbed', Runs(c, n)'
                 PROVE  n = m /\ OwnWork(c, n)' /\ \A d \in Procs \ {c} : ~Runs(d, n)
      OBVIOUS
    <2>1. n = m /\ n \notin disturbed /\ Runs(c, n)
      BY <1>2
    <2>2. OwnWork(c, proc[c].note)' <=> OwnWork(c, n)'
      BY <1>0, <1>1, <2>1 DEF OwnWork
    <2> QED
      BY <1>0, <1>4, <2>1, <2>2
  <1>7. \A n \in Notes : Runs(c, n) => n = m
    BY <1>2
  <1>8. disturbed \ disturbed' = {}
    OBVIOUS
  <1> QED
    BY <1>3, <1>5, <1>6, <1>7, <1>8, StepKeeps

\* A run ends: it failed, it is cut short, or it is complete.
LEMMA EndStep ==
  ASSUME Core, NEW c \in Procs, NEW step \in ProcType,
         proc' = [proc EXCEPT ![c] = step],
         proc[c].pc \in IndexSteps, step.pc \in {"idle", "next"},
         UNCHANGED <<points, chunks>>, rows' \in [Notes -> Row],
         \A n \in Notes \ {proc[c].note} : rows'[n].state = rows[n].state,
         disturbed \subseteq disturbed',
         \/ rows'[proc[c].note].state = "failed"
         \/ proc[c].note \in disturbed'
         \/ At(c, "report")
  PROVE  Core'
  <1>0. PICK m \in Notes : m = proc[c].note
    BY DEF Core, RunData, RunReady, IndexSteps
  <1>1. proc'[c] = step
    BY DEF Core
  <1>2. \A n \in Notes : (Runs(c, n) <=> n = m) /\ ~Runs(c, n)'
    BY <1>0, <1>1 DEF Runs, IndexSteps
  <1>3. RunReady(c)'
    BY <1>1 DEF RunReady, IndexSteps, At
  <1>4. ASSUME m \notin disturbed', AtRest(m)' PROVE \E t \in Texts : Tells(m, t)'
    <2>1. At(c, "report") /\ m \notin disturbed
      BY <1>0, <1>4 DEF AtRest
    <2>2. OwnWork(c, m)
      BY <1>0, <1>2, <2>1 DEF Core, Undisturbed
    <2>3. proc[c].text \in Texts /\ proc[c].batch \in Batches \cup {NoBatch}
      BY <2>1 DEF Core, RunData, RunReady, IndexSteps, At, ProcType
    <2>4. PICK t \in Texts, b \in Batches \cup {NoBatch} :
            points[m] = PointsOf(b, t) /\ chunks[m] = RowsOf(b, t, Size[t])
      BY <2>1, <2>2, <2>3 DEF OwnWork, At
    <2>5. points'[m] = PointsOf(b, t) /\ chunks'[m] = RowsOf(b, t, Size[t])
      BY <2>4
    <2> QED
      BY <2>5 DEF Tells
  <1>5. points' \in [Notes -> SUBSET Point] /\ chunks' \in [Notes -> SUBSET Chunk]
    BY DEF Core
  <1>6. \A n \in Notes : n # m \/ ~Runs(c, n) =>
          points'[n] = points[n] /\ chunks'[n] = chunks[n] /\ rows'[n].state = rows[n].state
    BY <1>0, <1>2
  <1>7. \A n \in Notes : (Runs(c, n) => n = m) /\ ~Runs(c, n)'
    BY <1>2
  <1>8. disturbed \ disturbed' = {}
    OBVIOUS
  <1>9. m \in Notes \ disturbed' /\ AtRest(m)' => \E t \in Texts : Tells(m, t)'
    BY <1>4
  <1>10. \A n \in Notes \ disturbed' : Runs(c, n)' =>
           n = m /\ OwnWork(c, n)' /\ \A d \in Procs \ {c} : ~Runs(d, n)
    BY <1>7
  <1>11. \A n \in Notes : Runs(c, n) => n = m
    BY <1>7
  <1>12. \A n \in disturbed \ disturbed' : n = m /\ \A d \in Procs \ {c} : ~Runs(d, n)
    BY <1>8
  <1> HIDE DEF IndexingAssumption
  <1> QED
    BY <1>3, <1>5, <1>6, <1>9, <1>10, <1>11, <1>12, StepKeeps, ZenonT(60)

\* Nothing but the queue or the vault changes.
LEMMA CoreUnchanged ==
  ASSUME Core, UNCHANGED <<proc, points, chunks, rows, disturbed>>
  PROVE  Core'
  <1>1. RunData'
    BY DEF Core, RunData, RunReady, HasChunks, At
  <1>2. Undisturbed'
    <2>1. \A c \in Procs, n \in Notes : Runs(c, n)' <=> Runs(c, n)
      BY DEF Runs
    <2>2. \A c \in Procs, n \in Notes : OwnWork(c, n)' <=> OwnWork(c, n)
      BY DEF OwnWork, At, PointsOf, RowsOf, ChunkRow
    <2> QED
      BY <2>1, <2>2 DEF Core, Undisturbed
  <1>3. CurrentAgrees'
    <2>1. \A n \in Notes : AtRest(n)' <=> AtRest(n)
      BY DEF AtRest, Runs
    <2>2. \A n \in Notes, t \in Texts : Tells(n, t)' <=> Tells(n, t)
      BY DEF Tells, PointsOf, RowsOf, ChunkRow
    <2> QED
      BY <2>1, <2>2 DEF Core, CurrentAgrees
  <1> QED
    BY <1>1, <1>2, <1>3 DEF Core

\* ingest_note leaves index_state alone, whatever becomes of it.
LEMMA IngestKeeps ==
  ASSUME Core, Surroundings, NEW c \in Procs,
         \/ \E n \in Notes : \/ (c = Worker /\ (IngestTask(n) \/ IngestLocked(n)))
                              \/ IngestPass(c, n)
         \/ IngestNoop(c) \/ IngestDeleted(c) \/ IngestCommit(c) \/ IngestRefused(c) \/ IngestFails(c)
  PROVE  Core'
  <1>1. /\ rows \in [Notes -> Row] /\ proc \in [Procs -> ProcType] /\ proc[c] \in ProcType
        /\ disk \in [Notes -> Texts \cup {NoText}]
    BY DEF Core, Surroundings
  <1>2. Idle \in ProcType /\ Idle.pc = "idle"
    BY DEF Idle, ProcType
  <1>3. ASSUME NEW n \in Notes, (c = Worker /\ IngestTask(n)) \/ IngestPass(c, n) PROVE Core'
    <2>1. PICK job \in {"task", "pass"} : Hold(c, n, job)
      BY <1>3 DEF IngestTask, IngestPass
    <2>2. PICK step : step = [Idle EXCEPT !.pc = "ingest", !.job = job, !.note = n, !.text = disk[n]]
      OBVIOUS
    <2>3. step \in ProcType /\ step.pc = "ingest" /\ step.note = n
      BY <1>1, <2>2 DEF Idle, ProcType
    <2>4. proc' = [proc EXCEPT ![c] = step] /\ UNCHANGED <<rows, points, chunks, disturbed>>
      BY <1>3, <2>1, <2>2 DEF Hold, IngestTask, IngestPass, Stores
    <2>5. proc[c].pc \notin IndexSteps
      BY <1>3 DEF IngestTask, IngestPass, At, IndexSteps
    <2> QED
      BY <1>1, <2>3, <2>4, <2>5, QuietStep DEF IndexSteps
  <1>4. ASSUME NEW n \in Notes, c = Worker, IngestLocked(n) PROVE Core'
    BY <1>4, CoreUnchanged DEF IngestLocked, Stores
  <1>5. CASE IngestNoop(c) \/ IngestRefused(c) \/ IngestFails(c)
    <2>1. /\ proc' = [proc EXCEPT ![c] = Idle] /\ UNCHANGED <<rows, points, chunks, disturbed>>
          /\ proc[c].pc \notin IndexSteps
      BY <1>5 DEF IngestNoop, IngestRefused, IngestFails, Stores, At, IndexSteps
    <2> QED
      BY <1>1, <1>2, <2>1, QuietStep DEF IndexSteps
  <1>6. CASE IngestDeleted(c) \/ IngestCommit(c)
    <2>1. PICK m \in Notes : m = proc[c].note
      BY <1>6 DEF IngestDeleted, IngestCommit, At, Core, RunData, RunReady
    <2>2. PICK h \in Texts \cup {NoText}, gone \in BOOLEAN :
            rows' = [rows EXCEPT ![m].hash = h, ![m].deleted = gone]
      <3>1. rows[m] \in Row /\ proc[c].text \in Texts \cup {NoText}
        BY <1>1, <2>1 DEF ProcType
      <3>2. rows[m] = [hash |-> rows[m].hash, deleted |-> rows[m].deleted,
                       state |-> rows[m].state, status |-> rows[m].status]
        BY <3>1 DEF Row
      <3>3. rows[m].hash \in Texts \cup {NoText} /\ rows[m].deleted \in BOOLEAN
        BY <3>1 DEF Row
      <3>4. CASE IngestDeleted(c)
        <4>1. rows' = [rows EXCEPT ![m].deleted = TRUE]
          BY <2>1, <3>4 DEF IngestDeleted
        <4>2. [rows[m] EXCEPT !.deleted = TRUE] = [rows[m] EXCEPT !.hash = rows[m].hash, !.deleted = TRUE]
          BY <3>2
        <4>3. rows' = [rows EXCEPT ![m].hash = rows[m].hash, ![m].deleted = TRUE]
          BY <1>1, <4>1, <4>2
        <4> QED
          BY <3>3, <4>3
      <3>5. CASE IngestCommit(c)
        <4>1. rows' = [rows EXCEPT ![m].hash = proc[c].text]
          BY <2>1, <3>5 DEF IngestCommit
        <4>2. [rows[m] EXCEPT !.hash = proc[c].text] =
                [rows[m] EXCEPT !.hash = proc[c].text, !.deleted = rows[m].deleted]
          BY <3>2
        <4>3. rows' = [rows EXCEPT ![m].hash = proc[c].text, ![m].deleted = rows[m].deleted]
          BY <1>1, <4>1, <4>2
        <4> QED
          BY <3>1, <3>3, <4>3
      <3> QED
        BY <1>6, <3>4, <3>5
    <2>3. PICK r : r = [rows[m] EXCEPT !.hash = h, !.deleted = gone]
      OBVIOUS
    <2>4. rows' = [rows EXCEPT ![m] = r] /\ r \in Row /\ r.state = rows[m].state
      <3>1. rows[m] \in Row
        BY <1>1
      <3>2. r \in Row /\ r.state = rows[m].state
        BY <2>2, <2>3, <3>1 DEF Row
      <3> QED
        BY <2>2, <2>3, <3>2
    <2>5. rows' \in [Notes -> Row] /\ \A n \in Notes : rows'[n].state = rows[n].state
      BY <1>1, <2>4
    <2>6. PICK step : step = IF IngestDeleted(c) THEN Idle ELSE [proc[c] EXCEPT !.pc = "chain"]
      OBVIOUS
    <2>7. step \in ProcType /\ step.pc \in {"idle", "chain"} /\ (step.pc = "chain" => step.note = m)
      BY <1>1, <1>2, <2>1, <2>6 DEF ProcType
    <2>8. /\ proc' = [proc EXCEPT ![c] = step] /\ UNCHANGED <<points, chunks, disturbed>>
          /\ proc[c].pc \notin IndexSteps
      BY <1>6, <2>6 DEF IngestDeleted, IngestCommit, At, IndexSteps
    <2> QED
      BY <2>5, <2>7, <2>8, QuietStep DEF IndexSteps
  <1> QED
    BY <1>3, <1>4, <1>5, <1>6

\* What comes before index_note in a process.
LEMMA BeforeKeeps ==
  ASSUME Core, Surroundings, NEW c \in Procs,
         \/ Chain(c) \/ StartBootstrap(c) \/ BootstrapNext(c) \/ (c = Worker /\ TakeTask)
         \/ ConnectFails(c) \/ SkipIndexing(c)
  PROVE  Core'
  <1> USE DEF Core, Stores
  <1>1. proc[c] \in ProcType
    OBVIOUS
  <1>2. Idle \in ProcType /\ Idle.pc = "idle"
    BY DEF Idle, ProcType
  <1>3. CASE Chain(c)
    <2>1. proc[c].note \in Notes /\ proc[c].pc = "chain"
      BY <1>3 DEF Chain, At, RunData, RunReady
    <2>2. CASE proc[c].job = "task"
      BY <1>2, <1>3, <2>1, <2>2, QuietStep DEF Chain, IndexSteps
    <2>3. CASE proc[c].job # "task"
      <3>1. PICK step : step = [Idle EXCEPT !.pc = "start", !.job = "pass", !.note = proc[c].note]
        OBVIOUS
      <3>2. step \in ProcType /\ step.pc = "start" /\ step.note \in Notes
        BY <2>1, <3>1 DEF Idle, ProcType
      <3>3. proc' = [proc EXCEPT ![c] = step]
        BY <1>3, <2>3, <3>1 DEF Chain
      <3> QED
        BY <1>3, <2>1, <3>2, <3>3, QuietStep DEF Chain, IndexSteps
    <2> QED
      BY <2>2, <2>3
  <1>4. CASE StartBootstrap(c)
    <2>1. PICK step : step = [Idle EXCEPT !.pc = "next", !.job = "pass", !.todo = NeedIndex]
      OBVIOUS
    <2>2. step \in ProcType /\ step.pc = "next"
      BY <2>1 DEF Idle, ProcType, NeedIndex
    <2> QED
      BY <1>4, <2>1, <2>2, QuietStep DEF StartBootstrap, At, IndexSteps
  <1>5. CASE BootstrapNext(c)
    <2>1. PICK n \in proc[c].todo :
            proc' = [proc EXCEPT ![c].pc = "start", ![c].note = n, ![c].todo = @ \ {n}]
      BY <1>5 DEF BootstrapNext
    <2>2. PICK step : step = [proc[c] EXCEPT !.pc = "start", !.note = n, !.todo = @ \ {n}]
      OBVIOUS
    <2>3. step \in ProcType /\ step.pc = "start" /\ step.note \in Notes
      BY <1>1, <2>1, <2>2 DEF ProcType
    <2>4. proc' = [proc EXCEPT ![c] = step]
      BY <2>1, <2>2
    <2> QED
      BY <1>5, <2>3, <2>4, QuietStep DEF BootstrapNext, At, IndexSteps
  <1>6. CASE c = Worker /\ TakeTask
    <2>1. Head(queue) \in Task
      BY <1>6 DEF TakeTask, Surroundings
    <2>2. PICK step : step = [Idle EXCEPT !.pc = "start", !.job = "task",
                                !.note = Head(queue).note, !.tries = Head(queue).tries]
      OBVIOUS
    <2>3. step \in ProcType /\ step.pc = "start" /\ step.note \in Notes
      BY <2>1, <2>2 DEF Idle, ProcType, Task
    <2> QED
      BY <1>6, <2>2, <2>3, QuietStep DEF TakeTask, At, IndexSteps
  <1>7. CASE ConnectFails(c) \/ SkipIndexing(c)
    <2>1. PICK step \in ProcType : /\ proc' = [proc EXCEPT ![c] = step]
                                   /\ step.pc \in {"idle", "next"}
      BY <1>2, <1>7, AfterIsQuiet DEF ConnectFails, SkipIndexing
    <2> QED
      BY <1>7, <2>1, QuietStep DEF ConnectFails, SkipIndexing, At, IndexSteps
  <1> QED
    BY <1>3, <1>4, <1>5, <1>6, <1>7

\* index_note begins, or finds its note deleted.
LEMMA BeginKeeps ==
  ASSUME Core, Surroundings, NEW c \in Procs, Begin(c)
  PROVE  Core'
  <1>1. PICK m \in Notes : m = proc[c].note
    BY DEF Begin, At, Core, RunData, RunReady
  <1>2. proc[c] \in ProcType /\ proc[c].pc = "start" /\ rows' = rows
    BY DEF Begin, At, Core, Stores
  <1>3. CASE ~Active(m)
    <2>1. proc' = [proc EXCEPT ![c] = After(c)] /\ UNCHANGED disturbed
      BY <1>1, <1>3 DEF Begin
    <2>2. After(c) \in ProcType /\ After(c).pc \in {"idle", "next"}
      BY AfterIsQuiet DEF Core
    <2> QED
      BY <1>2, <2>1, <2>2, QuietStep DEF Begin, Core, Stores, IndexSteps
  <1>4. CASE Active(m)
    <2>1. PICK step : step = [proc[c] EXCEPT !.pc = "read"]
      OBVIOUS
    <2>2. step \in ProcType /\ step.pc = "read" /\ step.note = m
      BY <1>1, <1>2, <2>1 DEF ProcType, IndexSteps
    <2>3. proc' = [proc EXCEPT ![c] = step]
      BY <1>1, <1>4, <2>1 DEF Begin, Goto
    <2>4. proc'[c] = step
      BY <2>3 DEF Core
    <2>5. /\ disturbed \ disturbed' \subseteq {m}
          /\ m \notin disturbed' => \A d \in Procs \ {c} : ~Runs(d, m)
      BY <1>1, <1>4 DEF Begin
    <2>6. \A n \in Notes : ~Runs(c, n) /\ (Runs(c, n)' <=> n = m)
      BY <1>2, <2>2, <2>4 DEF Runs, IndexSteps
    <2>7. RunReady(c)'
      BY <2>2, <2>4 DEF RunReady, At
    <2>8. ~AtRest(m)'
      BY <2>6 DEF AtRest
    <2>9. \A n \in Notes \ disturbed' : Runs(c, n)' =>
            n = m /\ OwnWork(c, n)' /\ \A d \in Procs \ {c} : ~Runs(d, n)
      BY <2>2, <2>4, <2>5, <2>6 DEF OwnWork, At
    <2>10. \A n \in disturbed \ disturbed' : n = m /\ \A d \in Procs \ {c} : ~Runs(d, n)
      BY <2>5
    <2>11. /\ points' \in [Notes -> SUBSET Point] /\ chunks' \in [Notes -> SUBSET Chunk]
           /\ rows' \in [Notes -> Row]
           /\ \A n \in Notes : n # m \/ ~Runs(c, n) =>
                points'[n] = points[n] /\ chunks'[n] = chunks[n] /\ rows'[n].state = rows[n].state
      BY <1>2 DEF Begin, Stores, Core
    <2>12. \A n \in Notes : Runs(c, n) => n = m
      BY <2>6
    <2>13. m \in Notes \ disturbed' /\ AtRest(m)' => \E t \in Texts : Tells(m, t)'
      BY <2>8
    <2> HIDE DEF IndexingAssumption
    <2> QED
      BY <2>2, <2>3, <2>7, <2>9, <2>10, <2>11, <2>12, <2>13, StepKeeps, ZenonT(60)
  <1> QED
    BY <1>3, <1>4

\* A step that raises leaves its work where it is.
LEMMA RaiseKeeps ==
  ASSUME Core, NEW c \in Procs, proc[c].pc \in IndexSteps, Raise(c)
  PROVE  Core'
  <1>1. /\ proc[c].note \in Notes /\ proc \in [Procs -> ProcType] /\ proc[c] \in ProcType
        /\ rows \in [Notes -> Row]
        /\ points \in [Notes -> SUBSET Point] /\ chunks \in [Notes -> SUBSET Chunk]
    BY DEF Core, RunData, RunReady, IndexSteps
  <1>2. PICK step : step = [proc[c] EXCEPT !.pc = "except"]
    OBVIOUS
  <1>3. step \in ProcType /\ step.pc = "except" /\ step.note = proc[c].note
    BY <1>1, <1>2 DEF ProcType, IndexSteps
  <1>4. proc' = [proc EXCEPT ![c] = step] /\ UNCHANGED <<rows, points, chunks, disturbed>>
    BY <1>2 DEF Raise, Goto, Stores
  <1>5. RunReady(c)' /\ OwnWork(c, proc[c].note)'
    BY <1>1, <1>3, <1>4 DEF RunReady, OwnWork, At
  <1>6. step.pc \in IndexSteps
    BY <1>3 DEF IndexSteps
  <1> QED
    BY <1>1, <1>3, <1>4, <1>5, <1>6, RunStep

\* A failed run says so in the row, or the history does.
LEMMA FailureKeeps ==
  ASSUME Core, NEW c \in Procs, MarkFailed(c) \/ MarkFailedFails(c)
  PROVE  Core'
  <1>1. /\ proc[c].pc \in IndexSteps /\ proc[c].note \in Notes
        /\ rows \in [Notes -> Row] /\ proc \in [Procs -> ProcType]
    BY DEF MarkFailed, MarkFailedFails, Leave, At, Core, RunData, RunReady, IndexSteps
  <1>2. After(c) \in ProcType /\ After(c).pc \in {"idle", "next"}
    BY <1>1, AfterIsQuiet
  <1>3. proc' = [proc EXCEPT ![c] = After(c)] /\ UNCHANGED <<points, chunks>>
    BY DEF MarkFailed, MarkFailedFails, Leave
  <1>4. CASE MarkFailed(c)
    <2>1. PICK r : r = [rows[proc[c].note] EXCEPT !.state = "failed"]
      OBVIOUS
    <2>2. r \in Row /\ r.state = "failed"
      BY <1>1, <2>1 DEF Row
    <2>3. rows' = [rows EXCEPT ![proc[c].note] = r] /\ disturbed' = disturbed
      BY <1>4, <2>1 DEF MarkFailed
    <2>4. rows' \in [Notes -> Row] /\ rows'[proc[c].note].state = "failed"
          /\ \A n \in Notes \ {proc[c].note} : rows'[n].state = rows[n].state
      BY <1>1, <2>2, <2>3
    <2> QED
      BY <1>1, <1>2, <1>3, <2>3, <2>4, EndStep
  <1>5. CASE MarkFailedFails(c)
    <2>1. rows' = rows /\ disturbed' = disturbed \cup {proc[c].note}
      BY <1>5 DEF MarkFailedFails
    <2> QED
      BY <1>1, <1>2, <1>3, <2>1, EndStep
  <1> QED
    BY <1>4, <1>5

\* The run is over: complete, or the process died.
LEMMA LeaveKeeps ==
  ASSUME Core, NEW c \in Procs, Report(c) \/ Crash(c)
  PROVE  Core'
  <1>1. proc \in [Procs -> ProcType] /\ rows' \in [Notes -> Row] /\ rows' = rows
        /\ UNCHANGED <<points, chunks>>
    BY DEF Core, Report, Crash, Stores
  <1>2. CASE Report(c)
    <2>1. After(c) \in ProcType /\ After(c).pc \in {"idle", "next"}
      BY <1>1, AfterIsQuiet
    <2> QED
      BY <1>1, <1>2, <2>1, EndStep DEF Report, At, Frame, IndexSteps
  <1>3. CASE Crash(c)
    <2>1. Idle \in ProcType /\ Idle.pc = "idle"
      BY DEF Idle, ProcType
    <2>2. CASE proc[c].pc \in IndexSteps
      <3>1. proc[c].note \in Notes
        BY <2>2 DEF Core, RunData, RunReady, IndexSteps
      <3>2. proc[c].note \in disturbed' /\ disturbed \subseteq disturbed'
        BY <1>3, <3>1 DEF Crash
      <3> QED
        BY <1>1, <1>3, <2>1, <2>2, <3>2, EndStep DEF Crash
    <2>3. CASE proc[c].pc \notin IndexSteps
      <3>1. disturbed \subseteq disturbed'
        BY <1>3 DEF Crash
      <3> QED
        BY <1>1, <1>3, <2>1, <2>3, <3>1, QuietStep DEF Crash, IndexSteps
    <2> QED
      BY <2>2, <2>3
  <1> QED
    BY <1>2, <1>3

\* What the invariant gives to a run under way.
LEMMA RunFacts ==
  ASSUME Core, NEW c \in Procs, proc[c].pc \in IndexSteps
  PROVE  /\ proc[c] \in ProcType /\ proc[c].note \in Notes
         /\ proc[c].pc \notin {"read", "except"} => proc[c].text \in Texts /\ Size[proc[c].text] \in Nat
         /\ proc[c].note \notin disturbed => OwnWork(c, proc[c].note)
  <1>1. proc[c] \in ProcType /\ RunReady(c)
    BY DEF Core, RunData
  <1>2. proc[c].note \in Notes /\ Runs(c, proc[c].note)
    BY <1>1 DEF RunReady, IndexSteps, Runs
  <1>3. proc[c].pc \notin {"read", "except"} => proc[c].text \in Texts
    BY <1>1 DEF RunReady
  <1> QED
    BY <1>1, <1>2, <1>3 DEF Core, Undisturbed

\* The steps of a run before its chunk rows are written.
LEMMA PointStepsKeep ==
  ASSUME Core, Surroundings, NEW c \in Procs, Read(c) \/ DropPoints(c) \/ Upsert(c)
  PROVE  Core'
  <1>1. proc[c].pc \in {"read", "drop", "upsert"} /\ proc[c].pc \in IndexSteps
    BY DEF Read, DropPoints, Upsert, At, IndexSteps
  <1>2. PICK m \in Notes : m = proc[c].note
    BY <1>1, RunFacts
  <1>3. /\ proc \in [Procs -> ProcType] /\ points \in [Notes -> SUBSET Point]
        /\ chunks \in [Notes -> SUBSET Chunk] /\ rows \in [Notes -> Row] /\ proc[c] \in ProcType
    BY DEF Core
  <1>4. CASE Read(c)
    <2>1. disk[m] \in Texts
      BY <1>2, <1>4 DEF Read, Surroundings
    <2>2. PICK step : step = [proc[c] EXCEPT !.pc = "drop", !.text = disk[m]]
      OBVIOUS
    <2>3. step \in ProcType /\ step.pc = "drop" /\ step.note = m /\ step.text \in Texts
      BY <1>1, <1>2, <1>3, <2>1, <2>2 DEF ProcType, IndexSteps
    <2>4. proc' = [proc EXCEPT ![c] = step] /\ UNCHANGED <<rows, points, chunks, disturbed>>
      BY <1>2, <1>4, <2>2 DEF Read, Frame, Stores
    <2>5. RunReady(c)' /\ OwnWork(c, proc[c].note)'
      BY <1>3, <2>3, <2>4 DEF RunReady, OwnWork, At
    <2>6. step.pc \in IndexSteps
      BY <2>3 DEF IndexSteps
    <2> QED
      BY <1>1, <1>2, <1>3, <2>3, <2>4, <2>5, <2>6, RunStep
  <1>5. CASE DropPoints(c)
    <2>1. proc[c].text \in Texts /\ Size[proc[c].text] \in Nat
      BY <1>1, <1>5, RunFacts DEF DropPoints, At
    <2>2. PICK step : step = [proc[c] EXCEPT !.pc = IF HasChunks(c) THEN "upsert" ELSE "purge"]
      OBVIOUS
    <2>3. step \in ProcType /\ step.pc = (IF HasChunks(c) THEN "upsert" ELSE "purge")
          /\ step.note = m /\ step.text = proc[c].text
      BY <1>1, <1>2, <1>3, <2>2 DEF ProcType, IndexSteps
    <2>4. proc' = [proc EXCEPT ![c] = step] /\ UNCHANGED <<rows, chunks, disturbed>>
      BY <1>5, <2>2 DEF DropPoints, Goto, Frame
    <2>5. points' = [points EXCEPT ![m] = {}]
      BY <1>2, <1>5 DEF DropPoints
    <2>6. RunReady(c)'
      BY <1>2, <1>3, <2>1, <2>3, <2>4 DEF RunReady, At, HasChunks
    <2>7. OwnWork(c, proc[c].note)'
      BY <1>2, <1>3, <2>1, <2>3, <2>4, <2>5 DEF OwnWork, At, HasChunks, PointsOf
    <2>8. step.pc \in IndexSteps
      BY <2>3 DEF IndexSteps
    <2>9. points' \in [Notes -> SUBSET Point]
      BY <1>3, <2>5
    <2> QED
      BY <1>1, <1>2, <1>3, <2>3, <2>4, <2>5, <2>6, <2>7, <2>8, <2>9, RunStep
  <1>6. CASE Upsert(c)
    <2>1. /\ proc[c].text \in Texts /\ Size[proc[c].text] \in Nat
          /\ m \notin disturbed => OwnWork(c, m)
      BY <1>1, <1>2, <1>6, RunFacts DEF Upsert, At
    <2>2. Size[proc[c].text] > 0
      BY <1>6 DEF Upsert, At, Core, RunData, RunReady, HasChunks
    <2>3. PICK b \in Batches :
            /\ points' = [points EXCEPT ![m] = @ \cup {[batch |-> b, text |-> proc[c].text]}]
            /\ proc' = [proc EXCEPT ![c].pc = "purge", ![c].batch = b]
      BY <1>2, <1>6 DEF Upsert
    <2>4. PICK step : step = [proc[c] EXCEPT !.pc = "purge", !.batch = b]
      OBVIOUS
    <2>5. step \in ProcType /\ step.pc = "purge" /\ step.batch = b
          /\ step.note = m /\ step.text = proc[c].text
      BY <1>1, <1>2, <1>3, <2>4 DEF ProcType, IndexSteps
    <2>6. proc' = [proc EXCEPT ![c] = step] /\ UNCHANGED <<rows, chunks, disturbed>>
      BY <1>6, <2>3, <2>4 DEF Upsert, Frame
    <2>7. RunReady(c)'
      BY <1>2, <1>3, <2>1, <2>5, <2>6 DEF RunReady, At
    <2>8. ASSUME m \notin disturbed PROVE OwnWork(c, proc[c].note)'
      <3>1. points[m] = {}
        BY <1>6, <2>1, <2>8 DEF OwnWork, Upsert, At
      <3>2. points'[m] = {[batch |-> b, text |-> proc[c].text]}
        BY <1>3, <2>3, <3>1
      <3>3. points'[m] = PointsOf(b, proc[c].text)
        BY <2>2, <3>2 DEF PointsOf
      <3>4. proc'[c] = step
        BY <1>3, <2>6
      <3> QED
        BY <2>5, <3>3, <3>4 DEF OwnWork, At, PointsOf
    <2>9. step.pc \in IndexSteps
      BY <2>5 DEF IndexSteps
    <2>10. points' \in [Notes -> SUBSET Point]
      BY <1>3, <2>1, <2>3 DEF Point
    <2> QED
      BY <1>1, <1>2, <1>3, <2>3, <2>5, <2>6, <2>7, <2>8, <2>9, <2>10, RunStep
  <1> QED
    BY <1>4, <1>5, <1>6

\* The chunk rows are replaced, one commit each.
LEMMA ChunkStepsKeep ==
  ASSUME Core, NEW c \in Procs, PurgeChunks(c) \/ InsertChunk(c)
  PROVE  Core'
  <1>1. proc[c].pc \in {"purge", "insert"} /\ proc[c].pc \in IndexSteps
    BY DEF PurgeChunks, InsertChunk, At, IndexSteps
  <1>2. PICK m \in Notes : m = proc[c].note
    BY <1>1, RunFacts
  <1>3. /\ proc \in [Procs -> ProcType] /\ points \in [Notes -> SUBSET Point]
        /\ chunks \in [Notes -> SUBSET Chunk] /\ rows \in [Notes -> Row] /\ proc[c] \in ProcType
    BY DEF Core
  <1>4. PICK t, b, k : t = proc[c].text /\ b = proc[c].batch /\ k = proc[c].next
    OBVIOUS
  <1>5. /\ t \in Texts /\ Size[t] \in Nat /\ b \in Batches \cup {NoBatch} /\ k \in Nat
        /\ m \notin disturbed => OwnWork(c, m)
    BY <1>1, <1>2, <1>3, <1>4, RunFacts DEF ProcType
  <1>6. CASE PurgeChunks(c)
    <2>1. PICK step : step = [proc[c] EXCEPT !.pc = IF HasChunks(c) THEN "insert" ELSE "mark",
                                             !.next = 1]
      OBVIOUS
    <2>2. step \in ProcType /\ step.pc = (IF Size[t] > 0 THEN "insert" ELSE "mark")
          /\ step.note = m /\ step.text = t /\ step.batch = b /\ step.next = 1
      BY <1>1, <1>2, <1>3, <1>4, <2>1 DEF ProcType, IndexSteps, HasChunks
    <2>3. /\ proc' = [proc EXCEPT ![c] = step] /\ UNCHANGED <<rows, points, disturbed>>
          /\ chunks' = [chunks EXCEPT ![m] = {}]
      BY <1>2, <1>6, <2>1 DEF PurgeChunks, Frame
    <2>4. RunReady(c)'
      <3>1. proc'[c] = step
        BY <1>3, <2>3
      <3>2. Size[t] > 0 => b \in Batches /\ 1 \in 1..Size[t]
        BY <1>4, <1>5, <1>6 DEF PurgeChunks, At, Core, RunData, RunReady, HasChunks
      <3> QED
        BY <1>2, <1>5, <2>2, <3>1, <3>2 DEF RunReady, At, HasChunks
    <2>5. ASSUME m \notin disturbed PROVE OwnWork(c, proc[c].note)'
      <3>1. points'[m] = PointsOf(b, t)
        BY <1>4, <1>5, <1>6, <2>3, <2>5 DEF OwnWork, PurgeChunks, At
      <3>2. chunks'[m] = {} /\ RowsOf(b, t, 0) = {}
        BY <1>3, <2>3 DEF RowsOf
      <3>3. Size[t] > 0 \/ Size[t] = 0
        BY <1>5
      <3>4. proc'[c] = step
        BY <1>3, <2>3
      <3>5. chunks'[m] = RowsOf(b, t, 1 - 1)
        BY <3>2
      <3> QED
        BY <2>2, <3>1, <3>2, <3>3, <3>4, <3>5 DEF OwnWork, At
    <2>6. step.pc \in IndexSteps
      BY <2>2 DEF IndexSteps
    <2>7. chunks' \in [Notes -> SUBSET Chunk]
      BY <1>3, <2>3
    <2> QED
      BY <1>1, <1>2, <1>3, <2>2, <2>3, <2>4, <2>5, <2>6, <2>7, RunStep
  <1>7. CASE InsertChunk(c)
    <2>1. k \in 1..Size[t]
      BY <1>4, <1>7 DEF InsertChunk, At, Core, RunData, RunReady
    <2>2. b \in Batches
      BY <1>4, <1>5, <1>7 DEF InsertChunk, At, Core, RunData, RunReady, HasChunks
    <2>3. PICK step : step = [proc[c] EXCEPT !.pc = IF k = Size[t] THEN "mark" ELSE "insert",
                                             !.next = k + 1]
      OBVIOUS
    <2>4. step \in ProcType /\ step.pc = (IF k = Size[t] THEN "mark" ELSE "insert")
          /\ step.note = m /\ step.text = t /\ step.batch = b /\ step.next = k + 1
      <3>1. PICK pc \in {"mark", "insert"} : pc = IF k = Size[t] THEN "mark" ELSE "insert"
        OBVIOUS
      <3>2. k + 1 \in Nat /\ step = [proc[c] EXCEPT !.pc = pc, !.next = k + 1]
        BY <1>5, <2>3, <3>1
      <3> QED
        BY <1>2, <1>3, <1>4, <3>1, <3>2 DEF ProcType, IndexSteps
    <2>5. /\ proc' = [proc EXCEPT ![c] = step] /\ UNCHANGED <<rows, points, disturbed>>
          /\ chunks' = [chunks EXCEPT ![m] = @ \cup {ChunkRow(b, t, k)}]
      BY <1>2, <1>4, <1>7, <2>3 DEF InsertChunk, Frame
    <2>6. RunReady(c)'
      <3>1. proc'[c] = step
        BY <1>3, <2>5
      <3>2. k # Size[t] => k + 1 \in 1..Size[t]
        BY <1>5, <2>1
      <3> QED
        BY <1>2, <1>5, <2>1, <2>2, <2>4, <3>1, <3>2 DEF RunReady, At, HasChunks
    <2>7. ASSUME m \notin disturbed PROVE OwnWork(c, proc[c].note)'
      <3>1. points'[m] = PointsOf(b, t)
        BY <1>4, <1>5, <1>7, <2>5, <2>7 DEF OwnWork, InsertChunk, At
      <3>2. chunks[m] = RowsOf(b, t, k - 1)
        BY <1>4, <1>5, <1>7, <2>7 DEF OwnWork, InsertChunk, At
      <3>3. 1..k = 1..(k - 1) \cup {k}
        BY <2>1
      <3>4. RowsOf(b, t, k) = RowsOf(b, t, k - 1) \cup {ChunkRow(b, t, k)}
        BY <3>3 DEF RowsOf
      <3>5. chunks'[m] = RowsOf(b, t, k)
        BY <1>3, <2>5, <3>2, <3>4
      <3>6. (k + 1) - 1 = k
        BY <1>5
      <3>7. proc'[c] = step
        BY <1>3, <2>5
      <3> QED
        BY <2>4, <3>1, <3>5, <3>6, <3>7 DEF OwnWork, At
    <2>8. step.pc \in IndexSteps
      BY <2>4 DEF IndexSteps
    <2>9. chunks' \in [Notes -> SUBSET Chunk]
      BY <1>3, <1>5, <2>2, <2>5 DEF Chunk, ChunkRow
    <2> QED
      BY <1>1, <1>2, <1>3, <2>4, <2>5, <2>6, <2>7, <2>8, <2>9, RunStep
  <1> QED
    BY <1>6, <1>7

\* The row is marked, and its draft promoted.
LEMMA RowStepsKeep ==
  ASSUME Core, NEW c \in Procs, MarkIndexed(c) \/ Promote(c)
  PROVE  Core'
  <1>1. proc[c].pc \in {"mark", "promote"} /\ proc[c].pc \in IndexSteps
    BY DEF MarkIndexed, Promote, At, IndexSteps
  <1>2. PICK m \in Notes : m = proc[c].note
    BY <1>1, RunFacts
  <1>3. /\ proc \in [Procs -> ProcType] /\ points \in [Notes -> SUBSET Point]
        /\ chunks \in [Notes -> SUBSET Chunk] /\ rows \in [Notes -> Row] /\ proc[c] \in ProcType
    BY DEF Core
  <1>4. PICK t, b : t = proc[c].text /\ b = proc[c].batch
    OBVIOUS
  <1>5. t \in Texts /\ Size[t] \in Nat /\ (m \notin disturbed => OwnWork(c, m))
    BY <1>1, <1>2, <1>4, RunFacts
  <1>6. HasChunks(c) <=> Size[t] > 0
    BY <1>4 DEF HasChunks
  <1>7. PICK pc \in {"promote", "report"} :
          proc' = [proc EXCEPT ![c].pc = pc] /\ (pc = "promote" => Size[t] > 0)
    BY <1>6 DEF MarkIndexed, Promote, Goto
  <1>8. PICK step : step = [proc[c] EXCEPT !.pc = pc]
    OBVIOUS
  <1>9. step \in ProcType /\ step.pc = pc /\ step.note = m /\ step.text = t /\ step.batch = b
    BY <1>2, <1>3, <1>4, <1>8 DEF ProcType, IndexSteps
  <1>10. proc' = [proc EXCEPT ![c] = step] /\ proc'[c] = step /\ UNCHANGED <<points, chunks, disturbed>>
    BY <1>3, <1>7, <1>8 DEF MarkIndexed, Promote, Frame
  <1>11. RunReady(c)'
    BY <1>2, <1>5, <1>7, <1>9, <1>10 DEF RunReady, At, HasChunks
  <1>12. ASSUME m \notin disturbed PROVE OwnWork(c, proc[c].note)'
    <2>1. points'[m] = PointsOf(b, t) /\ chunks'[m] = RowsOf(b, t, Size[t])
      BY <1>1, <1>4, <1>5, <1>10, <1>12 DEF OwnWork
    <2> QED
      BY <1>9, <1>10, <2>1 DEF OwnWork, At
  <1>13. step.pc \in IndexSteps
    BY <1>9 DEF IndexSteps
  <1>14. rows' \in [Notes -> Row] /\ \A n \in Notes \ {m} : rows'[n].state = rows[n].state
    <2>1. PICK r : r = IF At(c, "mark") THEN [rows[m] EXCEPT !.state = "current"]
                                        ELSE [rows[m] EXCEPT !.status = "active"]
      OBVIOUS
    <2>2. r \in Row
      BY <1>3, <2>1 DEF Row
    <2>3. rows' = [rows EXCEPT ![m] = r]
      BY <1>2, <2>1 DEF MarkIndexed, Promote, At
    <2> QED
      BY <1>3, <2>2, <2>3
  <1> QED
    BY <1>1, <1>2, <1>3, <1>9, <1>10, <1>11, <1>12, <1>13, <1>14, RunStep

\* The steps of a run that touch neither the vault nor the queue nor the history.
RunStepOf(c) ==
  \/ BootstrapNext(c) \/ Read(c) \/ ReadGone(c) \/ DropPoints(c) \/ Upsert(c) \/ PurgeChunks(c)
  \/ InsertChunk(c) \/ InsertClash(c) \/ MarkIndexed(c) \/ Promote(c) \/ Report(c)
  \/ StartBootstrap(c) \/ StepFails(c)

LEMMA RunStepsAside ==
  ASSUME NEW c \in Procs, RunStepOf(c)
  PROVE  UNCHANGED <<disk, signals, queue, delayed, locks, disturbed, forgone>>
  BY DEF RunStepOf, BootstrapNext, Read, ReadGone, DropPoints, Upsert, PurgeChunks, InsertChunk,
         InsertClash, MarkIndexed, Promote, Report, StartBootstrap, StepFails, Raise, Frame, Queues

\* The surroundings without the budget.
Others ==
  /\ disk \in [Notes -> Texts \cup {NoText}] /\ signals \in SUBSET Notes
  /\ queue \in Seq(Task) /\ delayed \in Seq(Task) /\ locks \in SUBSET Notes
  /\ disturbed \in SUBSET Notes /\ forgone \in SUBSET Notes

\* The vault, the queue, the history and the budget keep their types.
LEMMA SurroundingsKeep ==
  ASSUME Core, Surroundings, Next
  PROVE  Surroundings'
  <1>1. budget' \in [Budgeted -> Nat]
    <2>1. (\E kind \in Budgeted : Spend(kind)) \/ UNCHANGED budget
      <3>1. ASSUME \/ \E n \in Notes : Edit(n)
                   \/ \E c \in Procs : \/ IngestRefused(c) \/ IngestFails(c) \/ ConnectFails(c)
                                        \/ SkipIndexing(c) \/ StepFails(c) \/ MarkFailedFails(c)
                                        \/ Crash(c)
            PROVE  \E kind \in Budgeted : Spend(kind)
        BY <3>1 DEF Edit, IngestRefused, IngestFails, ConnectFails, SkipIndexing, StepFails,
                    MarkFailedFails, Crash, Budgeted
      <3>2. ASSUME \/ \E n \in Notes : IngestTask(n) \/ IngestLocked(n)
                   \/ TakeTask \/ RetryDue
                   \/ \E c \in Procs, n \in Notes : IngestPass(c, n)
                   \/ \E c \in Procs : StartBootstrap(c)
            PROVE  UNCHANGED budget
        BY <3>2 DEF IngestTask, IngestLocked, TakeTask, RetryDue, IngestPass, StartBootstrap
      <3>3. ASSUME NEW c \in Procs, JobStep(c) PROVE UNCHANGED budget
        BY <3>3 DEF JobStep, IngestNoop, IngestDeleted, IngestCommit, Chain, BootstrapNext, Begin,
                    Read, ReadGone, DropPoints, Upsert, PurgeChunks, InsertChunk, InsertClash,
                    MarkIndexed, Promote, Report, MarkFailed, Frame
      <3> HIDE DEF IndexingAssumption
      <3> QED
        BY <3>1, <3>2, <3>3, ZenonT(60) DEF Next
    <2> QED
      BY <2>1 DEF Spend, Surroundings
  <1> USE DEF Surroundings, Others
  <1>2. \A c \in Procs : proc[c] \in ProcType /\ proc[c].tries \in Nat
    BY DEF Core, ProcType
  <1>3. \A c \in Procs : proc[c].pc \notin {"idle", "next"} => proc[c].note \in Notes
    BY DEF Core, RunData, RunReady
  <1>4. ASSUME NEW n \in Notes, Edit(n) PROVE Others'
    BY <1>4 DEF Edit
  <1>5. ASSUME NEW n \in Notes, IngestTask(n) \/ IngestLocked(n) \/ \E c \in Procs : IngestPass(c, n)
        PROVE  Others'
    BY <1>5 DEF IngestTask, IngestLocked, IngestPass, Hold
  <1>6. ASSUME NEW c \in Procs, IngestNoop(c) \/ IngestDeleted(c) \/ IngestCommit(c)
        PROVE  Others'
    BY <1>6 DEF IngestNoop, IngestDeleted, IngestCommit, Release, Queues
  <1>7. ASSUME NEW c \in Procs, IngestRefused(c) \/ IngestFails(c) \/ SkipIndexing(c)
        PROVE  Others'
    <2>1. proc[c].note \in Notes /\ UNCHANGED <<disk, queue, delayed, disturbed>>
      BY <1>3, <1>7 DEF IngestRefused, IngestFails, SkipIndexing, At
    <2> QED
      BY <1>7, <2>1 DEF IngestRefused, IngestFails, SkipIndexing, GiveUp, Release
  <1>8. ASSUME RetryDue \/ TakeTask PROVE Others'
    <2>1. ASSUME RetryDue PROVE Others'
      <3>1. Head(delayed) \in Task /\ Tail(delayed) \in Seq(Task)
        BY <2>1 DEF RetryDue
      <3>2. queue' = Append(queue, Head(delayed)) /\ delayed' = Tail(delayed)
        BY <2>1 DEF RetryDue
      <3>3. queue' \in Seq(Task) /\ delayed' \in Seq(Task)
        BY <3>1, <3>2
      <3>4. UNCHANGED <<disk, signals, locks, disturbed, forgone>>
        BY <2>1 DEF RetryDue
      <3> QED
        BY <3>3, <3>4
    <2>2. ASSUME TakeTask PROVE Others'
      <3>1. queue' = Tail(queue) /\ queue # <<>>
        BY <2>2 DEF TakeTask
      <3>2. queue' \in Seq(Task)
        BY <3>1
      <3>3. UNCHANGED <<delayed, disk, signals, locks, disturbed, forgone>>
        BY <2>2 DEF TakeTask
      <3> QED
        BY <3>2, <3>3
    <2> QED
      BY <1>8, <2>1, <2>2
  <1>9. ASSUME NEW c \in Procs, Chain(c) PROVE Others'
    <2>1. PICK t \in Task : t = [note |-> proc[c].note, tries |-> Retries]
      BY <1>3, <1>9 DEF Chain, At, Task
    <2>2. /\ queue' \in {queue, Append(queue, t)} /\ locks' \subseteq locks
          /\ UNCHANGED <<delayed, disk, signals, disturbed, forgone>>
      BY <1>9, <2>1 DEF Chain, Release
    <2>3. queue' \in Seq(Task)
      <3>1. Append(queue, t) \in Seq(Task)
        BY <2>1
      <3> QED
        BY <2>2, <3>1
    <2>4. locks' \in SUBSET Notes /\ UNCHANGED <<delayed, disk, signals, disturbed, forgone>>
      BY <2>2
    <2> QED
      BY <2>3, <2>4
  <1>10. ASSUME NEW c \in Procs, ConnectFails(c) \/ MarkFailed(c) \/ MarkFailedFails(c) PROVE Others'
    <2>1. proc[c].note \in Notes
      BY <1>3, <1>10 DEF ConnectFails, MarkFailed, MarkFailedFails, Leave, At
    <2>2. PICK t : t = [note |-> proc[c].note, tries |-> proc[c].tries - 1]
      OBVIOUS
    <2>3. proc[c].tries > 0 => t \in Task
      BY <1>2, <2>1, <2>2 DEF Task
    <2>4. /\ delayed' = delayed \/ (proc[c].tries > 0 /\ delayed' = Append(delayed, t))
          /\ UNCHANGED <<disk, signals, queue, locks>>
          /\ disturbed' \in {disturbed, disturbed \cup {proc[c].note}}
          /\ forgone' \in {forgone, forgone \cup {proc[c].note}}
      BY <1>10, <2>2 DEF ConnectFails, MarkFailed, MarkFailedFails, Leave
    <2>5. delayed' \in Seq(Task)
      <3>1. CASE delayed' = delayed
        BY <3>1
      <3>2. CASE proc[c].tries > 0 /\ delayed' = Append(delayed, t)
        BY <2>3, <3>2
      <3> QED
        BY <2>4, <3>1, <3>2
    <2>6. /\ disturbed' \in SUBSET Notes /\ forgone' \in SUBSET Notes
          /\ UNCHANGED <<disk, signals, queue, locks>>
      BY <2>1, <2>4
    <2> QED
      BY <2>5, <2>6
  <1>11. ASSUME NEW c \in Procs, Begin(c) PROVE Others'
    <2>1. proc[c].note \in Notes
      BY <1>3, <1>11 DEF Begin, At
    <2> QED
      BY <1>11, <2>1 DEF Begin, Queues
  <1>12. ASSUME NEW c \in Procs, Crash(c) PROVE Others'
    <2>1. locks' \subseteq locks /\ UNCHANGED <<disk, signals, queue, delayed, forgone>>
          /\ disturbed' \subseteq disturbed \cup Notes
      BY <1>12 DEF Crash, Release
    <2> QED
      BY <2>1
  <1>13. ASSUME NEW c \in Procs, RunStepOf(c) PROVE Others'
    BY <1>13, RunStepsAside
  <1> HIDE DEF Others, Surroundings, IndexingAssumption
  <1>14. Others'
    BY <1>4, <1>5, <1>6, <1>7, <1>8, <1>9, <1>10, <1>11, <1>12, <1>13
       DEF Next, JobStep, RunStepOf
  <1> QED
    BY <1>1, <1>14 DEF Others, Surroundings

LEMMA IndexingInit == Init => IndexingInv
  <1> SUFFICES ASSUME Init PROVE IndexingInv
    OBVIOUS
  <1>1. Idle \in ProcType /\ Idle.pc = "idle" /\ NewRow \in Row /\ NewRow.state = "stale"
    BY DEF Idle, ProcType, NewRow, Row
  <1>2. Surroundings
    BY DEF Init, Surroundings
  <1>3. \A c \in Procs : proc[c] = Idle
    BY DEF Init
  <1>4. RunData
    BY <1>1, <1>3 DEF RunData, RunReady, IndexSteps, At
  <1>5. Undisturbed
    BY <1>1, <1>3 DEF Undisturbed, Runs, IndexSteps
  <1>6. CurrentAgrees
    BY <1>1 DEF CurrentAgrees, AtRest, Init
  <1>7. /\ proc \in [Procs -> ProcType] /\ points \in [Notes -> SUBSET Point]
        /\ chunks \in [Notes -> SUBSET Chunk] /\ rows \in [Notes -> Row]
    BY <1>1 DEF Init
  <1> QED
    BY <1>2, <1>4, <1>5, <1>6, <1>7, InvHalves DEF Core

LEMMA IndexingNext == IndexingInv /\ [Next]_vars => IndexingInv'
  <1> SUFFICES ASSUME Core, Surroundings, [Next]_vars PROVE Core' /\ Surroundings'
    BY InvHalves
  <1>1. CASE UNCHANGED vars
    <2>1. Core'
      BY <1>1, CoreUnchanged DEF vars
    <2> QED
      BY <1>1, <2>1 DEF vars, Surroundings
  <1>2. CASE Next
    <2>1. Worker \in Procs
      BY DEF Procs
    <2>2. ASSUME NEW n \in Notes, Edit(n) PROVE Core'
      BY <2>2, CoreUnchanged DEF Edit, Stores
    <2>3. ASSUME NEW n \in Notes, IngestTask(n) \/ IngestLocked(n) PROVE Core'
      <3>1. PICK c \in Procs : c = Worker
        BY <2>1
      <3> QED
        BY <2>3, <3>1, IngestKeeps
    <2>4. ASSUME NEW c \in Procs,
                 \/ \E n \in Notes : IngestPass(c, n)
                 \/ IngestNoop(c) \/ IngestDeleted(c) \/ IngestCommit(c)
                 \/ IngestRefused(c) \/ IngestFails(c)
          PROVE  Core'
      BY <2>4, IngestKeeps
    <2>5. ASSUME RetryDue PROVE Core'
      <3>1. /\ proc' = proc /\ points' = points /\ chunks' = chunks /\ rows' = rows
            /\ disturbed' = disturbed
        BY <2>5 DEF RetryDue, Stores
      <3> QED
        BY <3>1, CoreUnchanged
    <2>6. ASSUME TakeTask PROVE Core'
      <3>1. PICK c \in Procs : c = Worker /\ TakeTask
        BY <2>1, <2>6
      <3> QED
        BY <3>1, BeforeKeeps
    <2>7. ASSUME NEW c \in Procs, StartBootstrap(c) \/ Chain(c) \/ BootstrapNext(c) PROVE Core'
      BY <2>7, BeforeKeeps
    <2>8. ASSUME NEW c \in Procs, Begin(c) PROVE Core'
      BY <2>8, BeginKeeps
    <2>9. ASSUME NEW c \in Procs, Read(c) \/ DropPoints(c) \/ Upsert(c) PROVE Core'
      BY <2>9, PointStepsKeep
    <2>10. ASSUME NEW c \in Procs, PurgeChunks(c) \/ InsertChunk(c) PROVE Core'
      BY <2>10, ChunkStepsKeep
    <2>11. ASSUME NEW c \in Procs, MarkIndexed(c) \/ Promote(c) PROVE Core'
      BY <2>11, RowStepsKeep
    <2>12. ASSUME NEW c \in Procs, ReadGone(c) \/ InsertClash(c) \/ StepFails(c) PROVE Core'
      <3>1. Raise(c) /\ proc[c].pc \in IndexSteps
        BY <2>12 DEF ReadGone, InsertClash, StepFails, At, IndexSteps
      <3> QED
        BY <3>1, RaiseKeeps
    <2>13. ASSUME NEW c \in Procs, Report(c) \/ Crash(c) PROVE Core'
      BY <2>13, LeaveKeeps
    <2>14. ASSUME NEW c \in Procs, ConnectFails(c) \/ SkipIndexing(c) PROVE Core'
      BY <2>14, BeforeKeeps
    <2>15. ASSUME NEW c \in Procs, MarkFailed(c) \/ MarkFailedFails(c) PROVE Core'
      BY <2>15, FailureKeeps
    <2>16. Core'
      BY <1>2, <2>2, <2>3, <2>4, <2>5, <2>6, <2>7, <2>8, <2>9, <2>10, <2>11, <2>12, <2>13, <2>14, <2>15
         DEF Next, JobStep
    <2> QED
      BY <1>2, <2>16, SurroundingsKeep
  <1> QED
    BY <1>1, <1>2

\* Whatever ingestions and runs overlap, fail or die, the invariant of indexing holds: it says
\* nothing of a note whose latest run overlapped, died, or failed without recording it.
THEOREM IndexingInvariant == Spec => []IndexingInv
  BY IndexingInit, IndexingNext, PTL DEF Spec

\* index_state = 'current' is a commit marker: unless its latest run overlapped another, died,
\* or failed and could not record it, a note at rest has the points and rows of one text.
THEOREM CurrentNotesAgree == Spec => []CurrentAgrees
  <1>1. IndexingInv => CurrentAgrees
    BY DEF IndexingInv
  <1> QED
    BY <1>1, IndexingInvariant, PTL

\* No draft becomes active without points and chunk rows to be found by.
THEOREM PromotedNotesAreSearchable == Spec => PromotedIsSearchable
  <1>1. IndexingInv /\ [Next]_vars =>
          [\A n \in Notes \ disturbed : rows[n].status = "draft" /\ rows'[n].status = "active" =>
              points[n] # {} /\ chunks[n] # {}]_vars
    <2> SUFFICES ASSUME Core, Surroundings, Next, NEW n \in Notes \ disturbed,
                        rows[n].status = "draft", rows'[n].status = "active"
                 PROVE  points[n] # {} /\ chunks[n] # {}
      BY InvHalves
    <2>1. PICK c \in Procs : Promote(c) /\ proc[c].note = n
      <3>1. rows \in [Notes -> Row] /\ rows'[n] # rows[n]
        BY DEF Core
      <3>2. ASSUME NEW d \in Procs, IngestDeleted(d) \/ IngestCommit(d) PROVE FALSE
        <4>1. rows' \in {[rows EXCEPT ![proc[d].note].deleted = TRUE],
                         [rows EXCEPT ![proc[d].note].hash = proc[d].text]}
          BY <3>2 DEF IngestDeleted, IngestCommit
        <4> QED
          BY <3>1, <4>1 DEF Row
      <3>3. ASSUME NEW d \in Procs, MarkFailed(d) \/ MarkIndexed(d) PROVE FALSE
        <4>1. rows' \in {[rows EXCEPT ![proc[d].note].state = "failed"],
                         [rows EXCEPT ![proc[d].note].state = "current"]}
          BY <3>3 DEF MarkFailed, MarkIndexed
        <4> QED
          BY <3>1, <4>1 DEF Row
      <3>4. \E d \in Procs : Promote(d)
        BY <3>1, <3>2, <3>3
           DEF Next, JobStep, Edit, IngestTask, IngestLocked, TakeTask, RetryDue, IngestPass,
               StartBootstrap, IngestNoop, IngestRefused, IngestFails,
               Chain, BootstrapNext, Begin, Read, ReadGone, DropPoints, Upsert, PurgeChunks,
               InsertChunk, InsertClash, Report, ConnectFails, SkipIndexing, StepFails, Raise,
               MarkFailedFails, Crash, Stores
      <3> QED
        BY <3>1, <3>4 DEF Promote
    <2>2. proc[c].pc = "promote" /\ Runs(c, n)
      BY <2>1 DEF Promote, At, Runs, IndexSteps
    <2>3. OwnWork(c, n) /\ proc[c].text \in Texts /\ Size[proc[c].text] \in Nat \ {0}
      BY <2>2 DEF Core, Undisturbed, RunData, RunReady, IndexSteps, HasChunks
    <2>4. points[n] # {}
      BY <2>2, <2>3 DEF OwnWork, PointsOf
    <2>5. chunks[n] # {}
      <3>1. chunks[n] = RowsOf(proc[c].batch, proc[c].text, Size[proc[c].text])
        BY <2>2, <2>3 DEF OwnWork
      <3>2. 1 \in 1..Size[proc[c].text]
        BY <2>3
      <3> QED
        BY <3>1, <3>2 DEF RowsOf
    <2> QED
      BY <2>4, <2>5
  <1> QED
    BY <1>1, IndexingInvariant, PTL DEF Spec, PromotedIsSearchable
-----------------------------------------------------------------------------
(* The index is pursued                                                      *)

\* An idle process owes nothing to a note; one that waits for a job on n, or runs it, does.
Touches(d, n) == proc[d].pc \notin {"idle", "next"} /\ proc[d].note = n

\* A run past mark_indexed has its mark.
Marked(n) ==
  n \notin disturbed =>
    \A c \in Procs : Runs(c, n) /\ proc[c].pc \in {"promote", "report"} => rows[n].state = "current"

\* Nobody runs on n, and its row says truly that it is indexed, or that it is not.
RestsRight(n) ==
  /\ \A c \in Procs : ~Runs(c, n)
  /\ rows[n].state = "failed" \/ (rows[n].state = "current" /\ Tells(n, disk[n]))

\* A signal or an ingestion that will find the file changed.
Sought(n) ==
  \/ n \in signals /\ disk[n] # rows[n].hash
  \/ \E c \in Procs : Ingests(c, n)

\* The file is to be hashed, or a job is on its way to it, has read it, or has ended.
Pursued(n) ==
  n \notin disturbed \cup forgone /\ Active(n) =>
    Sought(n) \/ Owed(n) \/ (\E c \in Procs : Follows(c, n)) \/ RestsRight(n)

NotePursued(n) == Marked(n) /\ Pursued(n)

\* The strengthening of IndexIsPursued.
PursuitInv == \A n \in Notes : NotePursued(n)

LEMMA PursuitImplies == PursuitInv => IndexIsPursued
  <1> SUFFICES ASSUME PursuitInv, NEW n \in Notes, n \notin disturbed \cup forgone, Active(n)
               PROVE  \/ n \in signals /\ disk[n] # rows[n].hash
                      \/ \E c \in Procs : Ingests(c, n) \/ Follows(c, n)
                      \/ Owed(n)
                      \/ rows[n].state = "failed"
                      \/ rows[n].state = "current" /\ Tells(n, disk[n])
    BY DEF IndexIsPursued
  <1>1. Pursued(n)
    BY DEF PursuitInv, NotePursued
  <1>2. CASE Sought(n)
    <2>1. CASE n \in signals /\ disk[n] # rows[n].hash
      BY <2>1
    <2>2. ASSUME NEW c \in Procs, Ingests(c, n)
          PROVE  \E d \in Procs : Ingests(d, n) \/ Follows(d, n)
      BY <2>2
    <2> QED
      BY <1>2, <2>1, <2>2 DEF Sought
  <1>3. CASE Owed(n)
    BY <1>3
  <1>4. CASE \E c \in Procs : Follows(c, n)
    BY <1>4
  <1>5. CASE RestsRight(n)
    BY <1>5 DEF RestsRight
  <1> QED
    BY <1>1, <1>2, <1>3, <1>4, <1>5 DEF Pursued

\* What the stores tell of a note that nobody touches.
LEMMA TellsStays ==
  ASSUME NEW n \in Notes, points'[n] = points[n], chunks'[n] = chunks[n], disk'[n] = disk[n],
         Tells(n, disk[n])
  PROVE  Tells(n, disk[n])'
  <1>1. PICK b \in Batches \cup {NoBatch} :
          points[n] = PointsOf(b, disk[n]) /\ chunks[n] = RowsOf(b, disk[n], Size[disk[n]])
    BY DEF Tells
  <1>2. points'[n] = PointsOf(b, disk'[n]) /\ chunks'[n] = RowsOf(b, disk'[n], Size[disk'[n]])
    BY <1>1
  <1> QED
    BY <1>2 DEF Tells

\* Nothing happens to n, but perhaps a signal, a queued job or a mark in the history.
LEMMA NoteStays ==
  ASSUME NEW n \in Notes, NotePursued(n),
         points'[n] = points[n], chunks'[n] = chunks[n], rows'[n] = rows[n], disk'[n] = disk[n],
         n \in signals => n \in signals', n \in disturbed => n \in disturbed',
         n \in forgone => n \in forgone', Queued(n) => Queued(n)',
         \A d \in Procs : proc'[d] = proc[d] \/ (~Touches(d, n) /\ ~Touches(d, n)')
  PROVE  NotePursued(n)'
  <1>1. \A d \in Procs : Runs(d, n) <=> Runs(d, n)'
    BY DEF Runs, Touches, IndexSteps
  <1>2. \A d \in Procs : Runs(d, n) => proc'[d] = proc[d]
    BY DEF Runs, Touches, IndexSteps
  <1>3. Active(n)' <=> Active(n)
    BY DEF Active
  <1>4. Marked(n)'
    BY <1>1, <1>2 DEF NotePursued, Marked
  <1>5. Pursued(n)'
    <2> SUFFICES ASSUME n \notin disturbed \cup forgone, Active(n)
                 PROVE  (Sought(n) \/ Owed(n) \/ (\E c \in Procs : Follows(c, n)) \/ RestsRight(n))'
      BY <1>3 DEF Pursued
    <2>4. CASE Sought(n)
      <3>1. ASSUME NEW c \in Procs, Ingests(c, n) PROVE Ingests(c, n)'
        <4>1. proc'[c] = proc[c]
          BY <3>1 DEF Ingests, At, Touches
        <4> QED
          BY <3>1, <4>1 DEF Ingests, At
      <3> QED
        BY <2>4, <3>1 DEF Sought
    <2>1. CASE Owed(n)
      <3>1. ASSUME NEW c \in Procs, proc[c].pc \in {"chain", "start"}, proc[c].note = n
            PROVE  proc'[c] = proc[c]
        BY <3>1 DEF Touches
      <3> QED
        BY <2>1, <3>1 DEF Owed
    <2>2. CASE \E c \in Procs : Follows(c, n)
      <3>1. PICK c \in Procs : Follows(c, n)
        BY <2>2
      <3>2. Follows(c, n)'
        BY <1>1, <1>2, <3>1 DEF Follows, At
      <3> QED
        BY <3>2
    <2>3. CASE RestsRight(n)
      <3>1. Tells(n, disk[n]) => Tells(n, disk[n])'
        BY TellsStays
      <3>2. RestsRight(n)'
        BY <1>1, <2>3, <3>1 DEF RestsRight
      <3> QED
        BY <3>2
    <2> QED
      BY <2>4, <2>1, <2>2, <2>3 DEF NotePursued, Pursued
  <1> QED
    BY <1>4, <1>5 DEF NotePursued

\* A step of process c about note m: it is enough to look at m.
LEMMA OneNote ==
  ASSUME PursuitInv, proc \in [Procs -> ProcType], NEW c \in Procs, NEW m, NEW step,
         proc' = [proc EXCEPT ![c] = step],
         proc[c].pc \in {"idle", "next"} \/ proc[c].note = m,
         step.pc \in {"idle", "next"} \/ step.note = m,
         \A n \in Notes \ {m} :
            /\ points'[n] = points[n] /\ chunks'[n] = chunks[n] /\ rows'[n] = rows[n] /\ disk'[n] = disk[n]
            /\ n \in signals => n \in signals'
            /\ n \in disturbed => n \in disturbed'
            /\ n \in forgone => n \in forgone'
            /\ Queued(n) => Queued(n)',
         m \in Notes => NotePursued(m)'
  PROVE  PursuitInv'
  <1> SUFFICES ASSUME NEW n \in Notes, n # m PROVE NotePursued(n)'
    BY DEF PursuitInv
  <1>1. proc'[c] = step /\ \A d \in Procs \ {c} : proc'[d] = proc[d]
    OBVIOUS
  <1>2. \A d \in Procs : proc'[d] = proc[d] \/ (~Touches(d, n) /\ ~Touches(d, n)')
    BY <1>1 DEF Touches
  <1> QED
    BY <1>2, NoteStays DEF PursuitInv

\* A queue that loses no invocation.
LEMMA QueuesKeep ==
  ASSUME queue \in Seq(Task), delayed \in Seq(Task), NEW t
  PROVE  /\ queue' = Append(queue, t) /\ delayed' = delayed =>
              \A n \in Notes : (Queued(n) => Queued(n)') /\ (t.note = n => Queued(n)')
         /\ delayed' = Append(delayed, t) /\ queue' = queue =>
              \A n \in Notes : (Queued(n) => Queued(n)') /\ (t.note = n => Queued(n)')
         /\ UNCHANGED <<queue, delayed>> => \A n \in Notes : Queued(n) => Queued(n)'
  <1>1. ASSUME queue' = Append(queue, t), delayed' = delayed, NEW n \in Notes
        PROVE  (Queued(n) => Queued(n)') /\ (t.note = n => Queued(n)')
    <2>1. /\ DOMAIN queue \subseteq DOMAIN queue' /\ \A i \in DOMAIN queue : queue'[i] = queue[i]
          /\ Len(queue) + 1 \in DOMAIN queue' /\ queue'[Len(queue) + 1] = t
      BY <1>1
    <2> QED
      BY <1>1, <2>1 DEF Queued
  <1>2. ASSUME delayed' = Append(delayed, t), queue' = queue, NEW n \in Notes
        PROVE  (Queued(n) => Queued(n)') /\ (t.note = n => Queued(n)')
    <2>1. /\ DOMAIN delayed \subseteq DOMAIN delayed' /\ \A i \in DOMAIN delayed : delayed'[i] = delayed[i]
          /\ Len(delayed) + 1 \in DOMAIN delayed' /\ delayed'[Len(delayed) + 1] = t
      BY <1>2
    <2> QED
      BY <1>2, <2>1 DEF Queued
  <1>3. ASSUME UNCHANGED <<queue, delayed>> PROVE \A n \in Notes : Queued(n) => Queued(n)'
    BY <1>3 DEF Queued
  <1> QED
    BY <1>1, <1>2, <1>3

\* The first invocation of a queue is taken out of it.
LEMMA HeadLeaves ==
  ASSUME NEW q \in Seq(Task), q # <<>>
  PROVE  \A i \in DOMAIN q : q[i] = Head(q) \/ \E j \in DOMAIN Tail(q) : Tail(q)[j] = q[i]
  <1> SUFFICES ASSUME NEW i \in DOMAIN q, i # 1
               PROVE  \E j \in DOMAIN Tail(q) : Tail(q)[j] = q[i]
    OBVIOUS
  <1>1. i - 1 \in DOMAIN Tail(q) /\ Tail(q)[i - 1] = q[i]
    OBVIOUS
  <1> QED
    BY <1>1

\* What is sought or owed does not depend on a run.
LEMMA RunsAside ==
  ASSUME proc \in [Procs -> ProcType], NEW c \in Procs, NEW step, NEW m \in Notes,
         proc' = [proc EXCEPT ![c] = step], proc[c].pc \in IndexSteps,
         disk'[m] = disk[m], rows'[m].hash = rows[m].hash, m \in signals => m \in signals',
         Queued(m) => Queued(m)'
  PROVE  (Sought(m) => Sought(m)') /\ (Owed(m) => Owed(m)')
  <1>1. \A d \in Procs \ {c} : proc'[d] = proc[d]
    OBVIOUS
  <1>2. ASSUME NEW d \in Procs, proc[d].pc \in {"ingest", "chain", "start"} PROVE proc'[d] = proc[d]
    BY <1>1, <1>2 DEF IndexSteps
  <1>3. Sought(m) => Sought(m)'
    <2>1. ASSUME NEW d \in Procs, Ingests(d, m) PROVE Ingests(d, m)'
      <3>1. proc'[d] = proc[d]
        BY <1>2, <2>1 DEF Ingests, At
      <3> QED
        BY <2>1, <3>1 DEF Ingests, At
    <2> QED
      BY <2>1 DEF Sought
  <1>4. Owed(m) => Owed(m)'
    <2>1. ASSUME NEW d \in Procs, proc[d].pc \in {"chain", "start"} PROVE proc'[d] = proc[d]
      BY <1>2, <2>1
    <2> QED
      BY <2>1 DEF Owed
  <1> QED
    BY <1>3, <1>4

\* A run on an undisturbed note is the only one.
LEMMA RunsAlone ==
  ASSUME Core, NEW n \in Notes \ disturbed, NEW c \in Procs, Runs(c, n), NEW d \in Procs, Runs(d, n)
  PROVE  d = c
  BY DEF Core, Undisturbed

\* A run that has the file of its note goes on, and reaches its mark, or has failed.
LEMMA RunGoesOn ==
  ASSUME Core, PursuitInv, NEW c \in Procs, NEW step, NEW m \in Notes,
         proc' = [proc EXCEPT ![c] = step],
         Runs(c, m), step.pc \in IndexSteps \ {"read"}, step.note = m,
         \/ step.pc = "except"
         \/ proc[c].pc = "read" /\ step.text = disk[m]
         \/ proc[c].pc \notin {"read", "except"} /\ step.text = proc[c].text,
         \A n \in Notes \ {m} : points'[n] = points[n] /\ chunks'[n] = chunks[n] /\ rows'[n] = rows[n],
         rows'[m].hash = rows[m].hash, rows'[m].deleted = rows[m].deleted,
         step.pc \in {"promote", "report"} =>
            rows'[m].state = "current" \/ (proc[c].pc = "promote" /\ rows'[m].state = rows[m].state),
         UNCHANGED <<disk, signals, queue, delayed, disturbed, forgone>>
  PROVE  PursuitInv'
  <1>0. proc \in [Procs -> ProcType] /\ proc[c].note = m /\ proc[c].pc \in IndexSteps
    BY DEF Core, Runs
  <1>1. proc'[c] = step /\ \A d \in Procs \ {c} : proc'[d] = proc[d]
    BY <1>0
  <1>2. NotePursued(m) /\ (Active(m)' <=> Active(m)) /\ (Queued(m)' <=> Queued(m))
    BY DEF PursuitInv, Active, Queued
  <1>3. (Sought(m) => Sought(m)') /\ (Owed(m) => Owed(m)')
    BY <1>0, <1>2, RunsAside
  <1>4. Runs(c, m)' /\ \A d \in Procs \ {c} : Runs(d, m)' <=> Runs(d, m)
    BY <1>1 DEF Runs
  <1>5. Marked(m)'
    <2> SUFFICES ASSUME m \notin disturbed, NEW d \in Procs, Runs(d, m)',
                        proc'[d].pc \in {"promote", "report"}
                 PROVE  rows'[m].state = "current"
      BY DEF Marked
    <2>1. d = c
      BY <1>4, RunsAlone
    <2> QED
      BY <1>1, <1>2, <2>1 DEF NotePursued, Marked
  <1>6. Pursued(m)'
    <2> SUFFICES ASSUME m \notin disturbed \cup forgone, Active(m), ~Sought(m), ~Owed(m)
                 PROVE  (\E d \in Procs : Follows(d, m))'
      BY <1>2, <1>3 DEF Pursued
    <2>1. \E d \in Procs : Follows(d, m)
      BY <1>2 DEF NotePursued, Pursued, RestsRight
    <2>2. Follows(c, m)
      BY <2>1, RunsAlone DEF Follows
    <2>3. step.pc = "except" \/ step.text = disk[m]
      BY <2>2 DEF Follows, At
    <2>4. Follows(c, m)'
      BY <1>1, <1>4, <2>3 DEF Follows, At
    <2> QED
      BY <2>4
  <1>7. NotePursued(m)'
    BY <1>5, <1>6 DEF NotePursued
  <1>8. \A n \in Notes \ {m} :
          /\ points'[n] = points[n] /\ chunks'[n] = chunks[n] /\ rows'[n] = rows[n] /\ disk'[n] = disk[n]
          /\ n \in signals => n \in signals'
          /\ n \in disturbed => n \in disturbed'
          /\ n \in forgone => n \in forgone'
          /\ Queued(n) => Queued(n)'
    BY DEF Queued
  <1> QED
    BY <1>0, <1>7, <1>8, OneNote

\* A run that ends has failed, and the row or the history says so, or has done its work.
LEMMA RunEnds ==
  ASSUME Core, PursuitInv, NEW c \in Procs, NEW step, NEW m \in Notes,
         proc' = [proc EXCEPT ![c] = step],
         Runs(c, m), step.pc \in {"idle", "next"},
         UNCHANGED <<points, chunks, disk, signals, forgone>>, disturbed \subseteq disturbed',
         \A n \in Notes \ {m} : rows'[n] = rows[n],
         rows'[m].hash = rows[m].hash, rows'[m].deleted = rows[m].deleted,
         rows'[m].state = "failed" \/ m \in disturbed' \/ (At(c, "report") /\ rows' = rows),
         \A n \in Notes : Queued(n) => Queued(n)'
  PROVE  PursuitInv'
  <1>0. proc \in [Procs -> ProcType] /\ proc[c].note = m /\ proc[c].pc \in IndexSteps
    BY DEF Core, Runs
  <1>1. proc'[c] = step /\ \A d \in Procs \ {c} : proc'[d] = proc[d]
    BY <1>0
  <1>2. NotePursued(m) /\ (Active(m)' <=> Active(m))
    BY DEF PursuitInv, Active
  <1>3. (Sought(m) => Sought(m)') /\ (Owed(m) => Owed(m)')
    BY <1>0, <1>2, RunsAside
  <1>4. m \notin disturbed => \A d \in Procs : ~Runs(d, m)'
    <2> SUFFICES ASSUME m \notin disturbed, NEW d \in Procs, Runs(d, m)' PROVE FALSE
      OBVIOUS
    <2>1. d # c
      BY <1>1 DEF Runs, IndexSteps
    <2>2. Runs(d, m)
      BY <1>1, <2>1 DEF Runs
    <2> QED
      BY <2>1, <2>2, RunsAlone
  <1>5. Marked(m)'
    BY <1>4 DEF Marked
  <1>6. Pursued(m)'
    <2> SUFFICES ASSUME m \notin disturbed' \cup forgone, m \notin disturbed, Active(m),
                        ~Sought(m), ~Owed(m)
                 PROVE  RestsRight(m)'
      BY <1>2, <1>3 DEF Pursued
    <2>2. CASE rows'[m].state = "failed"
      BY <1>4, <2>2 DEF RestsRight
    <2>3. CASE At(c, "report") /\ rows' = rows
      <3>1. \E d \in Procs : Follows(d, m)
        BY <1>2 DEF NotePursued, Pursued, RestsRight
      <3>2. Follows(c, m)
        BY <3>1, RunsAlone DEF Follows
      <3>3. proc[c].text = disk[m] /\ proc[c].batch \in Batches \cup {NoBatch}
        BY <1>0, <2>3, <3>2 DEF Follows, At, ProcType
      <3>4. rows[m].state = "current" /\ OwnWork(c, m)
        BY <1>2, <2>3 DEF NotePursued, Marked, At, Core, Undisturbed
      <3>5. PICK b \in Batches \cup {NoBatch} :
              points[m] = PointsOf(b, disk[m]) /\ chunks[m] = RowsOf(b, disk[m], Size[disk[m]])
        BY <2>3, <3>3, <3>4 DEF OwnWork, At
      <3>6. points'[m] = PointsOf(b, disk'[m]) /\ chunks'[m] = RowsOf(b, disk'[m], Size[disk'[m]])
        BY <3>5
      <3>7. Tells(m, disk[m])'
        BY <3>6 DEF Tells
      <3> QED
        BY <1>4, <2>3, <3>4, <3>7 DEF RestsRight
    <2> QED
      BY <2>2, <2>3
  <1>7. NotePursued(m)'
    BY <1>5, <1>6 DEF NotePursued
  <1> QED
    BY <1>0, <1>7, OneNote

\* A process outside index_note does something for m, which stays pursued: it is to be hashed or
\* owed an index job, or is no longer active, or is given up.
LEMMA JobsMove ==
  ASSUME Core, PursuitInv, NEW c \in Procs, NEW step, NEW m \in Notes,
         proc' = [proc EXCEPT ![c] = step],
         proc[c].pc \notin IndexSteps, step.pc \notin IndexSteps,
         proc[c].pc = "idle" \/ proc[c].pc = "next" \/ proc[c].note = m,
         step.pc \in {"idle", "next"} \/ step.note = m,
         UNCHANGED <<points, chunks, disk, disturbed>>,
         \A n \in Notes \ {m} : rows'[n] = rows[n] /\ (Queued(n) => Queued(n)')
                                /\ (n \in signals => n \in signals') /\ (n \in forgone => n \in forgone'),
         rows'[m].state = rows[m].state,
         Pursued(m)'
  PROVE  PursuitInv'
  <1>0. proc \in [Procs -> ProcType]
    BY DEF Core
  <1>1. proc'[c] = step /\ \A d \in Procs \ {c} : proc'[d] = proc[d]
    BY <1>0
  <1>2. Marked(m)'
    <2>1. \A d \in Procs : Runs(d, m)' => Runs(d, m) /\ proc'[d] = proc[d]
      BY <1>1 DEF Runs
    <2> QED
      BY <2>1 DEF PursuitInv, NotePursued, Marked
  <1>3. NotePursued(m)'
    BY <1>2 DEF NotePursued
  <1> QED
    BY <1>0, <1>3, OneNote

\* The steps of a run.
LEMMA RunPursues ==
  ASSUME Core, PursuitInv, NEW c \in Procs,
         \/ Read(c) \/ DropPoints(c) \/ Upsert(c) \/ PurgeChunks(c) \/ InsertChunk(c)
         \/ MarkIndexed(c) \/ Promote(c)
  PROVE  PursuitInv'
  <1>0. proc[c].pc \in {"read", "drop", "upsert", "purge", "insert", "mark", "promote"}
        /\ proc[c].pc \in IndexSteps
    BY DEF Read, DropPoints, Upsert, PurgeChunks, InsertChunk, MarkIndexed, Promote, At, IndexSteps
  <1>1. /\ proc \in [Procs -> ProcType] /\ points \in [Notes -> SUBSET Point]
        /\ chunks \in [Notes -> SUBSET Chunk] /\ rows \in [Notes -> Row] /\ proc[c] \in ProcType
    BY DEF Core
  <1>2. PICK m \in Notes : m = proc[c].note
    BY <1>0, RunFacts
  <1>3. Runs(c, m) /\ UNCHANGED <<disk, signals, queue, delayed, disturbed, forgone>>
    BY <1>0, <1>2 DEF Runs, Read, DropPoints, Upsert, PurgeChunks, InsertChunk, MarkIndexed, Promote,
                      Frame, Queues
  <1>4. /\ \A n \in Notes \ {m} : points'[n] = points[n] /\ chunks'[n] = chunks[n]
        /\ ~(At(c, "mark") \/ At(c, "promote")) => rows' = rows
        /\ At(c, "mark") => rows' = [rows EXCEPT ![m].state = "current"]
        /\ At(c, "promote") => rows' = [rows EXCEPT ![m].status = "active"]
    BY <1>1, <1>2 DEF Read, DropPoints, Upsert, PurgeChunks, InsertChunk, MarkIndexed, Promote, At,
                      Frame, Stores
  <1>5. /\ rows'[m].hash = rows[m].hash /\ rows'[m].deleted = rows[m].deleted
        /\ \A n \in Notes \ {m} : rows'[n] = rows[n]
        /\ At(c, "mark") => rows'[m].state = "current"
        /\ At(c, "promote") => rows'[m].state = rows[m].state
    BY <1>1, <1>4 DEF Row
  <1>6. PICK step :
          /\ proc' = [proc EXCEPT ![c] = step]
          /\ step.pc \in IndexSteps \ {"read"} /\ step.note = m
          /\ \/ proc[c].pc = "read" /\ step.text = disk[m]
             \/ proc[c].pc \notin {"read", "except"} /\ step.text = proc[c].text
          /\ step.pc \in {"promote", "report"} => proc[c].pc \in {"mark", "promote"}
    <2>1. CASE Read(c)
      <3>1. PICK step : step = [proc[c] EXCEPT !.pc = "drop", !.text = disk[m]]
        OBVIOUS
      <3>2. step.pc = "drop" /\ step.note = m /\ step.text = disk[m]
        BY <1>1, <1>2, <3>1 DEF ProcType
      <3>3. proc' = [proc EXCEPT ![c] = step] /\ proc[c].pc = "read"
        BY <1>2, <2>1, <3>1 DEF Read, At
      <3> QED
        BY <3>2, <3>3 DEF IndexSteps
    <2>2. CASE Upsert(c)
      <3>1. PICK b : proc' = [proc EXCEPT ![c].pc = "purge", ![c].batch = b]
        BY <2>2 DEF Upsert
      <3>2. PICK step : step = [proc[c] EXCEPT !.pc = "purge", !.batch = b]
        OBVIOUS
      <3>3. step.pc = "purge" /\ step.note = m /\ step.text = proc[c].text
        BY <1>1, <1>2, <3>2 DEF ProcType
      <3>4. proc' = [proc EXCEPT ![c] = step] /\ proc[c].pc = "upsert"
        BY <2>2, <3>1, <3>2 DEF Upsert, At
      <3> QED
        BY <3>3, <3>4 DEF IndexSteps
    <2>3. CASE PurgeChunks(c) \/ InsertChunk(c)
      <3>1. PICK pc \in {"insert", "mark"}, k \in {1, proc[c].next + 1} :
              proc' = [proc EXCEPT ![c].pc = pc, ![c].next = k]
        BY <2>3 DEF PurgeChunks, InsertChunk
      <3>2. PICK step : step = [proc[c] EXCEPT !.pc = pc, !.next = k]
        OBVIOUS
      <3>3. step.pc = pc /\ step.note = m /\ step.text = proc[c].text
        BY <1>1, <1>2, <3>2 DEF ProcType
      <3>4. proc[c].pc \notin {"read", "except"}
        BY <2>3 DEF PurgeChunks, InsertChunk, At
      <3>5. proc' = [proc EXCEPT ![c] = step]
        BY <3>1, <3>2
      <3> QED
        BY <3>3, <3>4, <3>5 DEF IndexSteps
    <2>4. CASE DropPoints(c) \/ MarkIndexed(c) \/ Promote(c)
      <3>1. PICK pc \in {"upsert", "purge", "promote", "report"} :
              /\ proc' = [proc EXCEPT ![c].pc = pc] /\ proc[c].pc \notin {"read", "except"}
              /\ pc \in {"promote", "report"} => proc[c].pc \in {"mark", "promote"}
        BY <2>4 DEF DropPoints, MarkIndexed, Promote, Goto, At
      <3>2. PICK step : step = [proc[c] EXCEPT !.pc = pc]
        OBVIOUS
      <3>3. step.pc = pc /\ step.note = m /\ step.text = proc[c].text
        BY <1>1, <1>2, <3>2 DEF ProcType
      <3>4. proc' = [proc EXCEPT ![c] = step]
        BY <3>1, <3>2
      <3> QED
        BY <3>1, <3>3, <3>4 DEF IndexSteps
    <2> QED
      BY <2>1, <2>2, <2>3, <2>4
  <1> QED
    BY <1>3, <1>4, <1>5, <1>6, RunGoesOn DEF At

\* A step of a run raises.
LEMMA RaisePursues ==
  ASSUME Core, PursuitInv, NEW c \in Procs, proc[c].pc \in IndexSteps, Raise(c)
  PROVE  PursuitInv'
  <1>1. proc \in [Procs -> ProcType] /\ proc[c] \in ProcType
    BY DEF Core
  <1>2. PICK m \in Notes : m = proc[c].note
    BY RunFacts
  <1>3. PICK step : step = [proc[c] EXCEPT !.pc = "except"]
    OBVIOUS
  <1>4. step.pc = "except" /\ step.note = m /\ step.pc \in IndexSteps \ {"read"}
    BY <1>1, <1>2, <1>3 DEF ProcType, IndexSteps
  <1>5. proc' = [proc EXCEPT ![c] = step] /\ Runs(c, m)
    BY <1>2, <1>3 DEF Raise, Goto, Runs
  <1>6. UNCHANGED <<disk, rows, points, chunks, signals, queue, delayed, disturbed, forgone>>
    BY DEF Raise, Stores, Queues
  <1> QED
    BY <1>4, <1>5, <1>6, RunGoesOn

\* The end of a run.
LEMMA EndPursues ==
  ASSUME Core, Surroundings, PursuitInv, NEW c \in Procs,
         MarkFailed(c) \/ MarkFailedFails(c) \/ Report(c)
  PROVE  PursuitInv'
  <1>0. proc[c].pc \in IndexSteps
    BY DEF Report, MarkFailed, MarkFailedFails, Leave, At, IndexSteps
  <1>1. /\ proc \in [Procs -> ProcType] /\ rows \in [Notes -> Row]
        /\ queue \in Seq(Task) /\ delayed \in Seq(Task)
    BY DEF Core, Surroundings
  <1>2. PICK m \in Notes : m = proc[c].note
    BY <1>0, RunFacts
  <1>3. Runs(c, m)
    BY <1>0, <1>2 DEF Runs
  <1>4. PICK step : step = After(c)
    OBVIOUS
  <1>5. step.pc \in {"idle", "next"} /\ proc' = [proc EXCEPT ![c] = step]
    BY <1>1, <1>4, AfterIsQuiet DEF MarkFailed, MarkFailedFails, Leave, Report
  <1>6. UNCHANGED <<points, chunks, disk, signals, forgone>> /\ disturbed \subseteq disturbed'
    BY DEF MarkFailed, MarkFailedFails, Leave, Report, Frame, Stores, Queues
  <1>7. \/ At(c, "report") /\ rows' = rows
        \/ m \in disturbed' /\ rows' = rows
        \/ rows' = [rows EXCEPT ![m].state = "failed"]
    BY <1>2 DEF MarkFailed, MarkFailedFails, Report, Stores
  <1>8. /\ rows'[m].hash = rows[m].hash /\ rows'[m].deleted = rows[m].deleted
        /\ \A n \in Notes \ {m} : rows'[n] = rows[n]
        /\ rows'[m].state = "failed" \/ m \in disturbed' \/ (At(c, "report") /\ rows' = rows)
    BY <1>1, <1>7 DEF Row
  <1>9. \A n \in Notes : Queued(n) => Queued(n)'
    <2>1. PICK t : t = [note |-> proc[c].note, tries |-> proc[c].tries - 1]
      OBVIOUS
    <2>2. \/ delayed' = Append(delayed, t) /\ queue' = queue
          \/ UNCHANGED <<queue, delayed>>
      BY <2>1 DEF MarkFailed, MarkFailedFails, Leave, Report, Frame, Queues
    <2> QED
      BY <1>1, <2>2, QueuesKeep
  <1> QED
    BY <1>3, <1>5, <1>6, <1>8, <1>9, RunEnds

\* A process dies: its note, if it had one, is left to the history.
LEMMA CrashPursues ==
  ASSUME Core, PursuitInv, NEW c \in Procs, Crash(c)
  PROVE  PursuitInv'
  <1>1. proc \in [Procs -> ProcType] /\ proc' = [proc EXCEPT ![c] = Idle] /\ Idle.pc = "idle"
    BY DEF Core, Crash, Idle
  <1>2. UNCHANGED <<disk, rows, points, chunks, signals, queue, delayed, forgone>>
        /\ disturbed' = disturbed \cup ({proc[c].note} \cap Notes)
    BY DEF Crash, Stores, Queues
  <1>3. PICK m : m = proc[c].note
    OBVIOUS
  <1>4. ASSUME m \in Notes PROVE NotePursued(m)'
    <2>1. m \in disturbed'
      BY <1>2, <1>3, <1>4
    <2> QED
      BY <2>1 DEF NotePursued, Marked, Pursued
  <1>5. \A n \in Notes \ {m} :
          /\ points'[n] = points[n] /\ chunks'[n] = chunks[n] /\ rows'[n] = rows[n] /\ disk'[n] = disk[n]
          /\ n \in signals => n \in signals'
          /\ n \in disturbed => n \in disturbed'
          /\ n \in forgone => n \in forgone'
          /\ Queued(n) => Queued(n)'
    BY <1>2 DEF Queued
  <1> QED
    BY <1>1, <1>3, <1>4, <1>5, OneNote

\* index_note begins: it will read the file, or there is no active note.
LEMMA BeginPursues ==
  ASSUME Core, PursuitInv, NEW c \in Procs, Begin(c)
  PROVE  PursuitInv'
  <1>0. proc \in [Procs -> ProcType] /\ proc[c] \in ProcType /\ proc[c].pc = "start"
    BY DEF Core, Begin, At
  <1>1. PICK m \in Notes : m = proc[c].note
    BY <1>0 DEF Core, RunData, RunReady
  <1>2. UNCHANGED <<disk, rows, points, chunks, signals, queue, delayed>>
    BY DEF Begin, Stores, Queues
  <1>3. Active(m)' <=> Active(m)
    BY <1>2 DEF Active
  <1>4. \A n \in Notes \ {m} :
          /\ points'[n] = points[n] /\ chunks'[n] = chunks[n] /\ rows'[n] = rows[n] /\ disk'[n] = disk[n]
          /\ n \in signals => n \in signals'
          /\ n \in disturbed => n \in disturbed'
          /\ n \in forgone => n \in forgone'
          /\ Queued(n) => Queued(n)'
    BY <1>1, <1>2 DEF Queued, Begin
  <1>5. CASE Active(m)
    <2>1. PICK step : step = [proc[c] EXCEPT !.pc = "read"]
      OBVIOUS
    <2>2. step.pc = "read" /\ step.note = m
      BY <1>0, <1>1, <2>1 DEF ProcType
    <2>3. proc' = [proc EXCEPT ![c] = step]
          /\ (m \notin disturbed' => \A d \in Procs \ {c} : ~Runs(d, m))
      BY <1>1, <1>5, <2>1 DEF Begin, Goto
    <2>4. proc'[c] = step /\ \A d \in Procs \ {c} : proc'[d] = proc[d]
      BY <1>0, <2>3
    <2>5. Marked(m)'
      <3> SUFFICES ASSUME m \notin disturbed', NEW d \in Procs, Runs(d, m)',
                          proc'[d].pc \in {"promote", "report"}
                   PROVE  FALSE
        BY DEF Marked
      <3>1. d # c
        BY <2>2, <2>4
      <3>2. Runs(d, m)
        BY <2>4, <3>1 DEF Runs
      <3> QED
        BY <2>3, <3>1, <3>2
    <2>6. Follows(c, m)'
      BY <2>2, <2>4 DEF Follows, Runs, At, IndexSteps
    <2>7. NotePursued(m)'
      BY <2>5, <2>6 DEF NotePursued, Pursued
    <2> QED
      BY <1>0, <1>1, <1>4, <2>2, <2>3, <2>7, OneNote
  <1>6. CASE ~Active(m)
    <2>1. PICK step : step = After(c)
      OBVIOUS
    <2>2. step.pc \in {"idle", "next"}
      BY <1>0, <2>1, AfterIsQuiet
    <2>3. proc' = [proc EXCEPT ![c] = step] /\ UNCHANGED <<disturbed, forgone>>
      BY <1>1, <1>6, <2>1 DEF Begin
    <2>4. Pursued(m)'
      BY <1>3, <1>6 DEF Pursued
    <2> QED
      BY <1>0, <1>1, <1>2, <2>2, <2>3, <2>4, JobsMove DEF IndexSteps, Queued
  <1> QED
    BY <1>5, <1>6

\* ingest_note takes up a signal, or finds its path locked.
LEMMA TakenPursues ==
  ASSUME Core, Surroundings, PursuitInv, NEW c \in Procs, NEW n \in Notes,
         \/ c = Worker /\ (IngestTask(n) \/ IngestLocked(n))
         \/ IngestPass(c, n)
  PROVE  PursuitInv'
  <1>1. proc \in [Procs -> ProcType] /\ proc[c].pc = "idle" /\ Pursued(n)
    BY DEF Core, IngestTask, IngestLocked, IngestPass, At, PursuitInv, NotePursued
  <1>2. UNCHANGED <<disk, rows, points, chunks, queue, delayed, disturbed>>
    BY DEF IngestTask, IngestLocked, IngestPass, Stores
  <1>3. (Active(n)' <=> Active(n)) /\ \A m \in Notes : Queued(m) => Queued(m)'
    BY <1>2 DEF Active, Queued
  <1>4. CASE ~IngestLocked(n)
    <2>1. PICK step : step.pc = "ingest" /\ step.note = n /\ step.text = disk[n]
                      /\ proc' = [proc EXCEPT ![c] = step]
      <3>1. PICK job : Hold(c, n, job)
        BY <1>4 DEF IngestTask, IngestPass
      <3>2. PICK step : step = [Idle EXCEPT !.pc = "ingest", !.job = job, !.note = n, !.text = disk[n]]
        OBVIOUS
      <3>3. step.pc = "ingest" /\ step.note = n /\ step.text = disk[n]
        BY <3>2 DEF Idle
      <3> QED
        BY <3>1, <3>2, <3>3 DEF Hold
    <2>2. proc'[c] = step /\ \A d \in Procs \ {c} : proc'[d] = proc[d]
      BY <1>1, <2>1
    <2>3. \A m \in Notes \ {n} : m \in signals => m \in signals'
      BY <1>4 DEF IngestTask, IngestPass
    <2>4. forgone' = forgone
      BY <1>4 DEF IngestTask, IngestPass
    <2>5. Pursued(n)'
      <3> SUFFICES ASSUME n \notin disturbed \cup forgone, Active(n)
                   PROVE  (Sought(n) \/ Owed(n) \/ (\E d \in Procs : Follows(d, n)) \/ RestsRight(n))'
        BY <1>2, <1>3, <2>4 DEF Pursued
      <3>1. \A d \in Procs : proc[d].pc \notin {"idle", "next"} => proc'[d] = proc[d]
        BY <1>1, <2>2
      <3>2. CASE Sought(n)
        <4>1. CASE disk[n] # rows[n].hash
          BY <1>2, <2>1, <2>2, <4>1 DEF Sought, Ingests, At
        <4>2. CASE disk[n] = rows[n].hash
          BY <3>2, <4>2 DEF Sought, Ingests
        <4> QED
          BY <4>1, <4>2
      <3>3. CASE Owed(n)
        <4>1. \A d \in Procs : proc[d].pc \in {"chain", "start"} => proc'[d] = proc[d]
          BY <3>1
        <4> QED
          BY <1>3, <3>3, <4>1 DEF Owed
      <3>4. \A d \in Procs : Runs(d, n)' <=> Runs(d, n)
        <4>1. ~Runs(c, n) /\ ~Runs(c, n)'
          BY <1>1, <2>1, <2>2 DEF Runs, IndexSteps
        <4> QED
          BY <2>2, <4>1 DEF Runs
      <3>5. CASE \E d \in Procs : Follows(d, n)
        <4>1. PICK d \in Procs : Follows(d, n)
          BY <3>5
        <4>2. proc'[d] = proc[d]
          BY <3>1, <4>1 DEF Follows, Runs, IndexSteps
        <4>3. Follows(d, n)'
          BY <1>2, <3>4, <4>1, <4>2 DEF Follows, At
        <4> QED
          BY <4>3
      <3>6. CASE RestsRight(n)
        <4>1. Tells(n, disk[n]) => Tells(n, disk[n])'
          BY <1>2, TellsStays
        <4>2. RestsRight(n)'
          BY <1>2, <3>4, <3>6, <4>1 DEF RestsRight
        <4> QED
          BY <4>2
      <3> QED
        BY <1>1, <3>2, <3>3, <3>5, <3>6 DEF Pursued
    <2>6. proc[c].pc \notin IndexSteps /\ step.pc \notin IndexSteps
      BY <1>1, <2>1 DEF IndexSteps
    <2> QED
      BY <1>1, <1>2, <1>3, <2>1, <2>3, <2>4, <2>5, <2>6, JobsMove
  <1>5. CASE IngestLocked(n)
    <2>1. /\ proc' = proc /\ signals' = signals \ {n}
          /\ forgone' = IF Changes(n, disk[n]) THEN forgone \cup {n} ELSE forgone
      BY <1>5 DEF IngestLocked
    <2>2. ASSUME disk[n] = rows[n].hash PROVE ~Sought(n)
      BY <2>2 DEF Sought, Ingests
    <2>3. Active(n) /\ disk[n] # rows[n].hash => n \in forgone'
      BY <2>1 DEF Changes, Active
    <2>4. Pursued(n)'
      <3> SUFFICES ASSUME n \notin disturbed, n \notin forgone', Active(n)
                   PROVE  (Owed(n) \/ (\E d \in Procs : Follows(d, n)) \/ RestsRight(n))'
        BY <1>2, <1>3 DEF Pursued
      <3>1. ~Sought(n) /\ n \notin forgone
        BY <2>1, <2>2, <2>3
      <3>2. Owed(n) => Owed(n)'
        BY <1>3, <2>1 DEF Owed
      <3>3. \A d \in Procs : Follows(d, n) => Follows(d, n)'
        BY <1>2, <2>1 DEF Follows, Runs, At
      <3>4. Tells(n, disk[n]) => Tells(n, disk[n])'
        BY <1>2, TellsStays
      <3>5. RestsRight(n) => RestsRight(n)'
        BY <1>2, <2>1, <3>4 DEF RestsRight, Runs
      <3> QED
        BY <1>1, <3>1, <3>2, <3>3, <3>5 DEF Pursued
    <2>5. proc' = [proc EXCEPT ![c] = proc[c]] /\ proc[c].pc \notin IndexSteps
      BY <1>1, <2>1 DEF IndexSteps
    <2>6. \A m \in Notes \ {n} : (m \in signals => m \in signals') /\ (m \in forgone => m \in forgone')
      BY <2>1
    <2> QED
      BY <1>1, <1>2, <1>3, <2>4, <2>5, <2>6, JobsMove
  <1> QED
    BY <1>4, <1>5

\* ingest_note is over: the new hash has an index job that will be chained, or the note is gone,
\* or nothing was to be recorded, or the history says that it was not.
LEMMA IngestPursues ==
  ASSUME Core, Surroundings, PursuitInv, NEW c \in Procs,
         \/ IngestNoop(c) \/ IngestDeleted(c) \/ IngestCommit(c) \/ IngestRefused(c) \/ IngestFails(c)
  PROVE  PursuitInv'
  <1>1. /\ proc \in [Procs -> ProcType] /\ rows \in [Notes -> Row] /\ proc[c] \in ProcType
        /\ proc[c].pc \in {"ingest", "chain"}
    BY DEF Core, IngestNoop, IngestDeleted, IngestCommit, IngestRefused, IngestFails, At
  <1>2. PICK m \in Notes : m = proc[c].note
    BY <1>1 DEF Core, RunData, RunReady
  <1>3. UNCHANGED <<disk, points, chunks, queue, delayed, disturbed>>
    BY DEF IngestNoop, IngestDeleted, IngestCommit, IngestRefused, IngestFails, Stores, Queues
  <1>4. \A n \in Notes : Queued(n) => Queued(n)'
    BY <1>3 DEF Queued
  <1>5. Pursued(m)
    BY DEF PursuitInv, NotePursued
  <1>6. proc[c].pc \notin IndexSteps
    BY <1>1 DEF IndexSteps
  <1>7. CASE IngestDeleted(c) \/ IngestCommit(c)
    <2>1. PICK step : step = IF IngestDeleted(c) THEN Idle ELSE [proc[c] EXCEPT !.pc = "chain"]
      OBVIOUS
    <2>2. step.pc \in {"idle", "chain"} /\ (step.pc = "chain" => step.note = m)
          /\ (IngestCommit(c) => step.pc = "chain")
      <3>1. ~(IngestDeleted(c) /\ IngestCommit(c))
        BY DEF IngestDeleted, IngestCommit
      <3> QED
        BY <1>1, <1>2, <2>1, <3>1 DEF Idle, ProcType
    <2>3. proc' = [proc EXCEPT ![c] = step] /\ proc'[c] = step
      BY <1>1, <1>7, <2>1 DEF IngestDeleted, IngestCommit
    <2>4. /\ rows' = [rows EXCEPT ![m].deleted = TRUE] \/ rows' = [rows EXCEPT ![m].hash = proc[c].text]
          /\ IngestDeleted(c) => rows' = [rows EXCEPT ![m].deleted = TRUE]
      BY <1>2, <1>7 DEF IngestDeleted, IngestCommit
    <2>5. /\ rows'[m].state = rows[m].state /\ \A n \in Notes \ {m} : rows'[n] = rows[n]
          /\ IngestDeleted(c) => rows'[m].deleted
      BY <1>1, <2>4 DEF Row
    <2>6. Pursued(m)'
      <3>1. CASE IngestDeleted(c)
        BY <2>5, <3>1 DEF Pursued, Active
      <3>2. CASE IngestCommit(c)
        BY <2>2, <2>3, <3>2 DEF Pursued, Owed
      <3> QED
        BY <1>7, <3>1, <3>2
    <2>7. signals' = signals /\ \A n \in Notes \ {m} : n \in forgone => n \in forgone'
      BY <1>2, <1>7 DEF IngestDeleted, IngestCommit, Queues
    <2>8. step.pc \notin IndexSteps
      BY <2>2 DEF IndexSteps
    <2> QED
      BY <1>1, <1>2, <1>3, <1>4, <1>6, <2>2, <2>3, <2>5, <2>6, <2>7, <2>8, JobsMove
  <1>8. CASE IngestNoop(c) \/ IngestRefused(c) \/ IngestFails(c)
    <2>1. /\ proc' = [proc EXCEPT ![c] = Idle] /\ Idle.pc = "idle" /\ rows' = rows
          /\ signals \subseteq signals'
          /\ \A n \in Notes : n \in forgone => n \in forgone'
      BY <1>8 DEF IngestNoop, IngestRefused, IngestFails, GiveUp, Stores, Idle
    <2>2. proc'[c] = Idle /\ \A d \in Procs \ {c} : proc'[d] = proc[d]
      BY <1>1, <2>1
    <2>3. Active(m)' <=> Active(m)
      BY <2>1 DEF Active
    <2>4. Pursued(m)'
      <3> SUFFICES ASSUME m \notin disturbed, m \notin forgone', Active(m)
                   PROVE  (Sought(m) \/ Owed(m) \/ (\E d \in Procs : Follows(d, m)) \/ RestsRight(m))'
        BY <1>3, <2>3 DEF Pursued
      <3>1. At(c, "ingest") /\ (proc[c].text = rows[m].hash \/ m \in signals')
        <4>1. Changes(m, proc[c].text) \/ proc[c].text = rows[m].hash
          BY DEF Changes
        <4> QED
          BY <1>2, <1>8, <4>1 DEF IngestNoop, IngestRefused, IngestFails, GiveUp
      <3>2. Sought(m) => Sought(m)'
        <4>1. ASSUME NEW d \in Procs, Ingests(d, m) PROVE Sought(m)'
          <5>1. CASE d = c
            BY <1>3, <2>1, <3>1, <4>1, <5>1 DEF Ingests, Sought
          <5>2. CASE d # c
            BY <1>3, <2>1, <2>2, <4>1, <5>2 DEF Ingests, Sought, At
          <5> QED
            BY <5>1, <5>2
        <4>2. ASSUME m \in signals, disk[m] # rows[m].hash PROVE Sought(m)'
          BY <1>3, <2>1, <4>2 DEF Sought
        <4> QED
          BY <4>1, <4>2 DEF Sought
      <3>3. Owed(m) => Owed(m)'
        <4>1. \A d \in Procs : proc[d].pc \in {"chain", "start"} => proc'[d] = proc[d]
          BY <2>2, <3>1 DEF At
        <4> QED
          BY <1>4, <4>1 DEF Owed
      <3>4. \A d \in Procs : (Runs(d, m)' <=> Runs(d, m)) /\ (Runs(d, m) => proc'[d] = proc[d])
        BY <1>6, <2>1, <2>2 DEF Runs, IndexSteps
      <3>5. \A d \in Procs : Follows(d, m) => Follows(d, m)'
        BY <1>3, <3>4 DEF Follows, At
      <3>6. Tells(m, disk[m]) => Tells(m, disk[m])'
        BY <1>3, TellsStays
      <3>7. RestsRight(m) => RestsRight(m)'
        BY <2>1, <3>4, <3>6 DEF RestsRight
      <3> QED
        BY <1>5, <2>1, <3>2, <3>3, <3>5, <3>7 DEF Pursued
    <2>5. Idle.pc \notin IndexSteps
      BY <2>1 DEF IndexSteps
    <2> QED
      BY <1>1, <1>2, <1>3, <1>4, <1>6, <2>1, <2>4, <2>5, JobsMove
  <1> QED
    BY <1>7, <1>8

\* A chained job is queued or begun, a queued one is begun, and one that is given up is remembered.
LEMMA JobsPursue ==
  ASSUME Core, Surroundings, PursuitInv, NEW c \in Procs,
         \/ Chain(c) \/ BootstrapNext(c) \/ (c = Worker /\ TakeTask)
         \/ ConnectFails(c) \/ SkipIndexing(c)
  PROVE  PursuitInv'
  <1>1. /\ proc \in [Procs -> ProcType] /\ proc[c] \in ProcType
        /\ queue \in Seq(Task) /\ delayed \in Seq(Task)
    BY DEF Core, Surroundings
  <1>2. UNCHANGED <<disk, rows, points, chunks, signals, disturbed>> /\ proc[c].pc \notin IndexSteps
    BY DEF Chain, BootstrapNext, TakeTask, ConnectFails, SkipIndexing, Stores, Queues, At, IndexSteps
  <1>4. Idle.pc = "idle"
    BY DEF Idle
  <1>5. SUFFICES \E m \in Notes : \E step :
          /\ proc' = [proc EXCEPT ![c] = step]
          /\ step.pc \notin IndexSteps
          /\ proc[c].pc \in {"idle", "next"} \/ proc[c].note = m
          /\ step.pc \in {"idle", "next"} \/ step.note = m
          /\ \A n \in Notes \ {m} : (Queued(n) => Queued(n)') /\ (n \in forgone => n \in forgone')
          /\ Owed(m)' \/ m \in forgone'
    <2>1. \A m \in Notes : Owed(m)' \/ m \in forgone' => Pursued(m)'
      BY DEF Pursued
    <2> QED
      BY <1>2, <2>1, JobsMove
  <1>6. CASE Chain(c)
    <2>1. PICK m \in Notes : m = proc[c].note
      BY <1>6 DEF Core, RunData, RunReady, Chain, At
    <2>2. forgone' = forgone /\ delayed' = delayed
      BY <1>6 DEF Chain
    <2>3. CASE proc[c].job = "task"
      <3>1. PICK t : t = [note |-> m, tries |-> Retries]
        OBVIOUS
      <3>2. queue' = Append(queue, t) /\ t.note = m /\ proc' = [proc EXCEPT ![c] = Idle]
        BY <1>6, <2>1, <2>3, <3>1 DEF Chain
      <3>3. \A n \in Notes : (Queued(n) => Queued(n)') /\ (t.note = n => Queued(n)')
        BY <1>1, <2>2, <3>2, QueuesKeep
      <3> QED
        BY <1>4, <2>1, <2>2, <3>2, <3>3 DEF Owed, IndexSteps
    <2>4. CASE proc[c].job # "task"
      <3>1. PICK step : step = [Idle EXCEPT !.pc = "start", !.job = "pass", !.note = proc[c].note]
        OBVIOUS
      <3>2. step.pc = "start" /\ step.note = m
        BY <2>1, <3>1 DEF Idle
      <3>3. proc' = [proc EXCEPT ![c] = step] /\ proc'[c] = step /\ queue' = queue
        BY <1>1, <1>6, <2>4, <3>1 DEF Chain
      <3>4. Owed(m)' /\ \A n \in Notes : Queued(n) => Queued(n)'
        BY <2>2, <3>2, <3>3 DEF Owed, Queued
      <3> QED
        BY <2>1, <2>2, <3>2, <3>3, <3>4 DEF IndexSteps
    <2> QED
      BY <2>3, <2>4
  <1>7. CASE BootstrapNext(c)
    <2>1. PICK m \in proc[c].todo :
            proc' = [proc EXCEPT ![c].pc = "start", ![c].note = m, ![c].todo = @ \ {m}]
      BY <1>7 DEF BootstrapNext
    <2>2. PICK step : step = [proc[c] EXCEPT !.pc = "start", !.note = m, !.todo = @ \ {m}]
      OBVIOUS
    <2>3. step.pc = "start" /\ step.note = m /\ m \in Notes
      BY <1>1, <2>1, <2>2 DEF ProcType
    <2>4. proc' = [proc EXCEPT ![c] = step]
      BY <2>1, <2>2
    <2>5. proc'[c] = step /\ proc[c].pc = "next" /\ UNCHANGED <<queue, delayed, forgone>>
      BY <1>1, <1>7, <2>4 DEF BootstrapNext, At, Queues
    <2>6. Owed(m)' /\ \A n \in Notes : Queued(n) => Queued(n)'
      BY <2>3, <2>5 DEF Owed, Queued
    <2> QED
      BY <2>3, <2>4, <2>5, <2>6 DEF IndexSteps
  <1>8. CASE c = Worker /\ TakeTask
    <2>1. PICK t : t = Head(queue) /\ t \in Task
      BY <1>1, <1>8 DEF TakeTask
    <2>2. PICK step : step = [Idle EXCEPT !.pc = "start", !.job = "task", !.note = t.note, !.tries = t.tries]
      OBVIOUS
    <2>3. step.pc = "start" /\ step.note = t.note /\ t.note \in Notes
      BY <2>1, <2>2 DEF Idle, Task
    <2>4. /\ proc' = [proc EXCEPT ![c] = step] /\ proc'[c] = step /\ proc[c].pc = "idle"
          /\ queue # <<>> /\ queue' = Tail(queue) /\ UNCHANGED <<delayed, forgone>>
      BY <1>1, <1>8, <2>1, <2>2 DEF TakeTask, At
    <2>5. ASSUME NEW n \in Notes \ {t.note}, Queued(n) PROVE Queued(n)'
      BY <1>1, <2>1, <2>4, <2>5, HeadLeaves DEF Queued
    <2>6. Owed(t.note)'
      BY <2>3, <2>4 DEF Owed
    <2> QED
      BY <2>3, <2>4, <2>5, <2>6 DEF IndexSteps
  <1>9. CASE ConnectFails(c) \/ SkipIndexing(c)
    <2>1. PICK m \in Notes : m = proc[c].note
      BY <1>9 DEF Core, RunData, RunReady, ConnectFails, SkipIndexing, At
    <2>2. PICK step : step.pc \in {"idle", "next"} /\ proc' = [proc EXCEPT ![c] = step]
      BY <1>1, <1>4, <1>9, AfterIsQuiet DEF ConnectFails, SkipIndexing
    <2>3. PICK t : t = [note |-> m, tries |-> proc[c].tries - 1]
      OBVIOUS
    <2>4. /\ queue' = queue
          /\ \/ delayed' = Append(delayed, t) /\ forgone' = forgone
             \/ delayed' = delayed /\ forgone' = forgone \cup {m}
      BY <1>9, <2>1, <2>3 DEF ConnectFails, SkipIndexing, GiveUp, At
    <2>5. /\ \A n \in Notes : Queued(n) => Queued(n)'
          /\ Queued(m)' \/ m \in forgone'
      BY <1>1, <2>3, <2>4, QueuesKeep
    <2>6. step.pc \notin IndexSteps
      BY <2>2 DEF IndexSteps
    <2> QED
      BY <2>1, <2>2, <2>4, <2>5, <2>6 DEF Owed
  <1> QED
    BY <1>6, <1>7, <1>8, <1>9

\* What touches no process: an edit, or a retry that is due.
LEMMA OutsidePursues ==
  ASSUME Core, Surroundings, PursuitInv,
         (\E n \in Notes : Edit(n)) \/ RetryDue
  PROVE  PursuitInv'
  <1>1. UNCHANGED <<rows, points, chunks, proc, disturbed>>
    BY DEF Edit, RetryDue, Stores
  <1>2. \A n \in Notes : NotePursued(n)
    BY DEF PursuitInv
  <1>3. ASSUME NEW n \in Notes, Edit(n) PROVE PursuitInv'
    <2>1. PICK t \in Texts \cup {NoText} :
            /\ disk' = [disk EXCEPT ![n] = t]
            /\ forgone' = IF t = rows[n].hash THEN forgone \cup {n} ELSE forgone
      BY <1>3 DEF Edit
    <2>2. signals' = signals \cup {n} /\ UNCHANGED <<queue, delayed>> /\ disk'[n] = t
          /\ \A m \in Notes \ {n} : disk'[m] = disk[m]
      BY <1>3, <2>1 DEF Edit, Surroundings
    <2>3. NotePursued(n)'
      <3>1. Marked(n)'
        BY <1>1, <1>2 DEF NotePursued, Marked, Runs
      <3>2. Pursued(n)'
        BY <1>1, <2>1, <2>2 DEF Pursued, Sought
      <3> QED
        BY <3>1, <3>2 DEF NotePursued
    <2>4. ASSUME NEW m \in Notes \ {n} PROVE NotePursued(m)'
      <3>1. Queued(m) => Queued(m)'
        BY <2>2 DEF Queued
      <3> QED
        BY <1>1, <1>2, <2>1, <2>2, <3>1, NoteStays
    <2> QED
      BY <2>3, <2>4 DEF PursuitInv
  <1>4. ASSUME RetryDue PROVE PursuitInv'
    <2>1. /\ delayed # <<>> /\ queue' = Append(queue, Head(delayed)) /\ delayed' = Tail(delayed)
          /\ UNCHANGED <<disk, signals, forgone>> /\ queue \in Seq(Task) /\ delayed \in Seq(Task)
      BY <1>4 DEF RetryDue, Surroundings
    <2> SUFFICES ASSUME NEW m \in Notes PROVE NotePursued(m)'
      BY DEF PursuitInv
    <2>2. ASSUME NEW i \in DOMAIN queue PROVE i \in DOMAIN queue' /\ queue'[i] = queue[i]
      BY <2>1
    <2>3. Len(queue) + 1 \in DOMAIN queue' /\ queue'[Len(queue) + 1] = Head(delayed)
      BY <2>1
    <2>4. ASSUME NEW i \in DOMAIN delayed, delayed[i].note = m PROVE Queued(m)'
      <3>1. CASE delayed[i] = Head(delayed)
        BY <2>3, <2>4, <3>1 DEF Queued
      <3>2. CASE \E j \in DOMAIN Tail(delayed) : Tail(delayed)[j] = delayed[i]
        BY <2>1, <2>4, <3>2 DEF Queued
      <3> QED
        BY <2>1, <3>1, <3>2, HeadLeaves
    <2>5. Queued(m) => Queued(m)'
      BY <2>2, <2>4 DEF Queued
    <2> QED
      BY <1>1, <1>2, <2>1, <2>5, NoteStays
  <1> QED
    BY <1>3, <1>4

LEMMA PursuitInit == Init => PursuitInv
  <1> SUFFICES ASSUME Init, NEW n \in Notes PROVE NotePursued(n)
    BY DEF PursuitInv
  <1>1. rows[n].hash = NoText
    BY DEF Init, NewRow
  <1>2. ~Active(n) /\ \A c \in Procs : ~Runs(c, n)
    BY <1>1 DEF Active, Runs, Init, Idle, IndexSteps
  <1> QED
    BY <1>2 DEF NotePursued, Marked, Pursued

LEMMA PursuitNext == IndexingInv /\ PursuitInv /\ [Next]_vars => PursuitInv'
  <1> SUFFICES ASSUME Core, Surroundings, PursuitInv, [Next]_vars PROVE PursuitInv'
    BY InvHalves
  <1>0. Worker \in Procs
    BY DEF Procs
  <1>1. CASE UNCHANGED vars
    <2> SUFFICES ASSUME NEW m \in Notes PROVE NotePursued(m)'
      BY DEF PursuitInv
    <2>1. Queued(m) => Queued(m)'
      BY <1>1 DEF vars, Queued
    <2> QED
      BY <1>1, <2>1, NoteStays DEF PursuitInv, vars
  <1>2. ASSUME NEW n \in Notes, Edit(n) \/ IngestTask(n) \/ IngestLocked(n) PROVE PursuitInv'
    BY <1>0, <1>2, TakenPursues, OutsidePursues
  <1>3. ASSUME NEW c \in Procs, NEW n \in Notes, IngestPass(c, n) PROVE PursuitInv'
    BY <1>3, TakenPursues
  <1>4. ASSUME NEW c \in Procs, StartBootstrap(c) PROVE PursuitInv'
    <2>1. PICK step : step = [Idle EXCEPT !.pc = "next", !.job = "pass", !.todo = NeedIndex]
      OBVIOUS
    <2>2. step.pc = "next" /\ proc' = [proc EXCEPT ![c] = step] /\ proc[c].pc = "idle"
      BY <1>4, <2>1 DEF StartBootstrap, At, Idle
    <2>3. UNCHANGED <<disk, rows, points, chunks, signals, queue, delayed, disturbed, forgone>>
      BY <1>4 DEF StartBootstrap, Stores, Queues
    <2>4. \A n \in Notes : Queued(n) => Queued(n)'
      BY <2>3 DEF Queued
    <2> QED
      BY <2>2, <2>3, <2>4, OneNote DEF Core
  <1>5. ASSUME NEW c \in Procs, JobStep(c) PROVE PursuitInv'
    <2>1. CASE Chain(c) \/ BootstrapNext(c)
      BY <2>1, JobsPursue
    <2>2. CASE Begin(c)
      BY <2>2, BeginPursues
    <2>3. CASE ReadGone(c) \/ InsertClash(c)
      BY <2>3, RaisePursues DEF ReadGone, InsertClash, At, IndexSteps
    <2>4. CASE Read(c) \/ DropPoints(c) \/ Upsert(c) \/ PurgeChunks(c) \/ InsertChunk(c)
               \/ MarkIndexed(c) \/ Promote(c)
      BY <2>4, RunPursues
    <2>5. CASE MarkFailed(c) \/ Report(c)
      BY <2>5, EndPursues
    <2>6. CASE IngestNoop(c) \/ IngestDeleted(c) \/ IngestCommit(c)
      BY <2>6, IngestPursues
    <2> QED
      BY <1>5, <2>1, <2>2, <2>3, <2>4, <2>5, <2>6 DEF JobStep
  <1>6. ASSUME NEW c \in Procs, StepFails(c) PROVE PursuitInv'
    BY <1>6, RaisePursues DEF StepFails
  <1>7. ASSUME NEW c \in Procs, MarkFailedFails(c) \/ IngestRefused(c) \/ IngestFails(c) PROVE PursuitInv'
    BY <1>7, EndPursues, IngestPursues
  <1> QED
    BY <1>0, <1>1, <1>2, <1>3, <1>4, <1>5, <1>6, <1>7, CrashPursues, JobsPursue, OutsidePursues DEF Next

\* However edits, ingestions, failures, retries and passes interleave, an index that does not tell
\* the file, and does not say that it failed, is on its way to be made anew: but for notes
\* disturbed, or forgone by an ingestion or a job that ended without a word.
THEOREM IndexIsNeverForgotten == Spec => []IndexIsPursued
  <1>1. Spec => []PursuitInv
    BY PursuitInit, PursuitNext, IndexingInvariant, PTL DEF Spec
  <1> QED
    BY <1>1, PursuitImplies, PTL
=============================================================================
