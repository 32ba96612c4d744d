-------------------------- MODULE IngestionProofs ---------------------------
(***************************************************************************)
(* Safety of concurrent ingestion for any vault, any number of processes   *)
(* and any number of edits, failures and crashes.                          *)
(***************************************************************************)
EXTENDS Ingestion, TLAPS, SequenceTheorems

USE IngestionAssumption DEF IngestionAssumption

\* RowAt finds the row at a path exactly when there is one.
LEMMA RowAtFinds ==
  ASSUME NEW p
  PROVE  /\ RowAt(p) = 0 <=> \A i \in Ids : notes[i].path # p
         /\ RowAt(p) # 0 => RowAt(p) \in Ids /\ notes[RowAt(p)].path = p
  <1>1. CASE \E i \in Ids : notes[i].path = p
    <2>1. RowAt(p) \in Ids /\ notes[RowAt(p)].path = p
      BY <1>1 DEF RowAt
    <2>2. 0 \notin Ids
      BY DEF Ids
    <2> QED
      BY <1>1, <2>1, <2>2
  <1>2. CASE ~\E i \in Ids : notes[i].path = p
    BY <1>2 DEF RowAt
  <1> QED
    BY <1>1, <1>2

\* A process that leaves ingest_note holds no lock and has nothing decided.
LEMMA AfterIsQuiet ==
  ASSUME TypeOK, NEW c \in Procs
  PROVE  /\ After(c) \in ProcType
         /\ After(c).pc \in {"idle", "next"}
  <1>1. proc[c] \in ProcType
    BY DEF TypeOK
  <1>2. Idle \in ProcType /\ Idle.pc = "idle"
    BY DEF Idle, ProcType
  <1>3. CASE proc[c].job = "task"
    BY <1>2, <1>3 DEF After
  <1>4. CASE proc[c].job # "task"
    <2>1. After(c) = [pc |-> "next", job |-> proc[c].job, path |-> NoPath, tries |-> 0,
                      todo |-> proc[c].todo, snap |-> proc[c].snap, text |-> NoFile,
                      scan |-> NoFile, note |-> 0, op |-> "none"]
      BY <1>4 DEF After, Idle
    <2>2. /\ proc[c].job \in {"none", "task", "walk", "files", "missing"}
          /\ proc[c].todo \in SUBSET Paths /\ proc[c].snap \in SUBSET Paths
      BY <1>1 DEF ProcType
    <2> QED
      BY <2>1, <2>2 DEF ProcType
  <1> QED
    BY <1>3, <1>4

\* One step of process c: if c takes up no lock but a free one, gives no row a path
\* but its own locked one, and has what its next step needs, then every process
\* still owns its lock, has its data and finds its path free.
LEMMA StepKeeps ==
  ASSUME IngestionInv, NEW c \in Procs, NEW step \in ProcType,
         proc' = [proc EXCEPT ![c] = step],
         notes' \in Seq(Row), Len(notes) <= Len(notes'),
         \A i \in Ids' : \/ Locked(c) /\ notes'[i].path = proc[c].path
                         \/ i \in Ids /\ notes'[i].path = notes[i].path,
         \A d \in Procs \ {c} : Locked(d) => locks'[proc[d].path] = d,
         (Locked(c) => locks[proc[c].path] = c)',
         DataReady(c)',
         (NeedsFreePath(c) => \A i \in Ids : notes[i].path # proc[c].path)'
  PROVE  LockHeld' /\ JobData' /\ PathStillFree' /\ proc' \in [Procs -> ProcType]
  <1> USE DEF IngestionInv
  <1>1. proc \in [Procs -> ProcType] /\ notes \in Seq(Row)
    BY DEF TypeOK
  <1>2. proc' \in [Procs -> ProcType] /\ \A d \in Procs \ {c} : proc'[d] = proc[d]
    BY <1>1
  <1>3. Ids \subseteq Ids'
    BY <1>1 DEF Ids
  <1>4. LockHeld'
    BY <1>2 DEF LockHeld, Locked
  <1>5. JobData'
    <2> SUFFICES ASSUME NEW d \in Procs, d # c PROVE DataReady(d)'
      BY DEF JobData
    <2>1. DataReady(d) /\ proc'[d] = proc[d]
      BY <1>2 DEF JobData
    <2> QED
      BY <1>3, <2>1 DEF DataReady, UsesText, UsesNote, Locked, At
  <1>6. PathStillFree'
    <2> SUFFICES ASSUME NEW d \in Procs, d # c, NeedsFreePath(d)', NEW i \in Ids'
                 PROVE  notes'[i].path # proc'[d].path
      BY DEF PathStillFree
    <2>1. proc'[d] = proc[d] /\ NeedsFreePath(d)
      BY <1>2 DEF NeedsFreePath, At
    <2>2. Locked(d) /\ locks[proc[d].path] = d
      BY <2>1 DEF LockHeld, NeedsFreePath, Locked, At
    <2>3. CASE Locked(c) /\ notes'[i].path = proc[c].path
      <3>1. locks[proc[c].path] = c
        BY <2>3 DEF LockHeld
      <3> QED
        BY <2>1, <2>2, <2>3, <3>1
    <2>4. CASE i \in Ids /\ notes'[i].path = notes[i].path
      BY <2>1, <2>4 DEF PathStillFree
    <2> QED
      BY <2>3, <2>4
  <1> QED
    BY <1>2, <1>4, <1>5, <1>6

\* Releasing c's lock, or leaving the locks alone, takes nobody else's.
LEMMA OthersKeepLocks ==
  ASSUME IngestionInv, NEW c \in Procs, Unlock(c) \/ UNCHANGED locks,
         Locked(c) \/ UNCHANGED locks
  PROVE  /\ \A d \in Procs \ {c} : Locked(d) => locks'[proc[d].path] = d
         /\ locks' \in [Paths -> Procs \cup {NoProc}]
  <1> USE DEF IngestionInv, TypeOK, LockHeld, JobData, DataReady, UsesText, UsesNote
  <1>1. CASE UNCHANGED locks
    BY <1>1
  <1>2. CASE Unlock(c) /\ Locked(c)
    <2>1. locks[proc[c].path] = c /\ proc[c].path \in Paths
      BY <1>2
    <2>2. ASSUME NEW d \in Procs, d # c, Locked(d) PROVE locks'[proc[d].path] = d
      <3>1. locks[proc[d].path] = d /\ proc[d].path \in Paths
        BY <2>2
      <3> QED
        BY <1>2, <2>1, <2>2, <3>1 DEF Unlock
    <2> QED
      BY <1>2, <2>2 DEF Unlock
  <1> QED
    BY <1>1, <1>2

\* What the invariant says of the processes, the locks and the table.
Core == LockHeld /\ JobData /\ PathStillFree /\ UniquePaths /\ notes \in Seq(Row)
        /\ proc \in [Procs -> ProcType] /\ locks \in [Paths -> Procs \cup {NoProc}]

\* ... and of the vault, the watcher, the queue and the budget.
Surroundings ==
  /\ disk \in [Paths -> Contents \cup {NoFile}]
  /\ up \in BOOLEAN
  /\ signals \in SUBSET Paths
  /\ queue \in Seq(Task) /\ delayed \in Seq(Task)
  /\ budget \in [Budgeted -> Nat]

\* The invariant is these two halves.
LEMMA InvHalves ==
  /\ IngestionInv <=> Core /\ Surroundings
  /\ IngestionInv' <=> Core' /\ Surroundings'
  BY DEF IngestionInv, TypeOK, Core, Surroundings

\* A process outside the locked part keeps the invariant.
LEMMA QuietStep ==
  ASSUME IngestionInv, NEW c \in Procs, NEW step \in ProcType,
         proc' = [proc EXCEPT ![c] = step], UNCHANGED notes,
         step.pc \in {"idle", "next"} \/ (step.pc = "lock" /\ step.path \in Paths),
         (Unlock(c) /\ Locked(c)) \/ UNCHANGED locks
  PROVE  Core'
  <1>1. proc'[c] = step /\ notes \in Seq(Row) /\ Len(notes) \in Nat
    BY DEF IngestionInv, TypeOK
  <1>2. ~Locked(c)' /\ ~NeedsFreePath(c)' /\ DataReady(c)'
    BY <1>1 DEF Locked, NeedsFreePath, DataReady, UsesText, UsesNote, At
  <1>3. LockHeld' /\ JobData' /\ PathStillFree' /\ proc' \in [Procs -> ProcType]
    <2>1. \A d \in Procs \ {c} : Locked(d) => locks'[proc[d].path] = d
      BY OthersKeepLocks
    <2>2. \A i \in Ids' : i \in Ids /\ notes'[i].path = notes[i].path
      BY DEF Ids
    <2>3. (Locked(c) => locks[proc[c].path] = c)'
      BY <1>2
    <2>4. (NeedsFreePath(c) => \A i \in Ids : notes[i].path # proc[c].path)'
      BY <1>2
    <2>5. notes' \in Seq(Row) /\ Len(notes) <= Len(notes')
      BY <1>1
    <2> QED
      BY <1>2, <2>1, <2>2, <2>3, <2>4, <2>5, StepKeeps
  <1>4. locks' \in [Paths -> Procs \cup {NoProc}]
    BY OthersKeepLocks
  <1> QED
    BY <1>1, <1>3, <1>4 DEF Core, IngestionInv, UniquePaths, Ids

\* A process that returns from ingest_note keeps the invariant.
LEMMA ReturnStep ==
  ASSUME IngestionInv, NEW c \in Procs, Locked(c), Return(c), UNCHANGED notes
  PROVE  Core'
  BY AfterIsQuiet, QuietStep DEF Return, IngestionInv

\* A process that goes on with its lock keeps the invariant, if its data is ready.
LEMMA ProceedStep ==
  ASSUME IngestionInv, NEW c \in Procs, NEW step \in ProcType, Locked(c),
         Proceed(c, step), UNCHANGED notes, step.path = proc[c].path,
         Locked(c)', DataReady(c)',
         (NeedsFreePath(c) => \A i \in Ids : notes[i].path # proc[c].path)'
  PROVE  Core'
  <1>1. proc' = [proc EXCEPT ![c] = step] /\ locks' = locks
    BY DEF Proceed
  <1>2. proc'[c] = step /\ notes \in Seq(Row) /\ Len(notes) \in Nat
    BY <1>1 DEF IngestionInv, TypeOK
  <1>3. LockHeld' /\ JobData' /\ PathStillFree' /\ proc' \in [Procs -> ProcType]
    <2>1. \A d \in Procs \ {c} : Locked(d) => locks'[proc[d].path] = d
      BY <1>1 DEF IngestionInv, LockHeld
    <2>2. \A i \in Ids' : i \in Ids /\ notes'[i].path = notes[i].path
      BY DEF Ids
    <2>3. (Locked(c) => locks[proc[c].path] = c)'
      BY <1>1, <1>2 DEF IngestionInv, LockHeld
    <2>4. notes' \in Seq(Row) /\ Len(notes) <= Len(notes')
      BY <1>2
    <2> QED
      BY <1>1, <2>1, <2>2, <2>3, <2>4, StepKeeps
  <1> QED
    BY <1>1, <1>2, <1>3 DEF Core, IngestionInv, TypeOK, UniquePaths, Ids

\* The initial state satisfies the invariant.
LEMMA InitIngestion == Init => IngestionInv
  <1> SUFFICES ASSUME Init PROVE Core /\ Surroundings
    BY InvHalves
  <1> USE DEF Init
  <1>1. Idle \in ProcType /\ Idle.pc = "idle"
    BY DEF Idle, ProcType
  <1>2. \A c \in Procs : proc[c] = Idle
    OBVIOUS
  <1>3. Ids = {}
    BY DEF Ids
  <1>4. LockHeld /\ JobData /\ PathStillFree /\ UniquePaths
    BY <1>1, <1>2, <1>3
       DEF LockHeld, JobData, DataReady, UsesText, UsesNote, PathStillFree, NeedsFreePath, UniquePaths, Locked, At
  <1>5. notes \in Seq(Row) /\ proc \in [Procs -> ProcType]
        /\ locks \in [Paths -> Procs \cup {NoProc}]
    BY <1>1
  <1>6. Surroundings
    <2>1. budget \in [Budgeted -> Nat]
      BY DEF Budgeted
    <2>2. disk \in [Paths -> Contents \cup {NoFile}] /\ up \in BOOLEAN
      OBVIOUS
    <2>3. signals \in SUBSET Paths /\ queue \in Seq(Task) /\ delayed \in Seq(Task)
      OBVIOUS
    <2> QED
      BY <2>1, <2>2, <2>3 DEF Surroundings
  <1> QED
    BY <1>4, <1>5, <1>6 DEF Core

\* Spending keeps the budget a budget.
LEMMA SpendType ==
  ASSUME budget \in [Budgeted -> Nat],
         NEW kind \in Budgeted, Spend(kind)
  PROVE  budget' \in [Budgeted -> Nat]
  <1>1. budget[kind] - 1 \in Nat
    BY DEF Spend
  <1> QED
    BY <1>1 DEF Spend

\* The environment and the timers keep the invariant.
LEMMA OutsideStep ==
  ASSUME IngestionInv,
         Edit \/ (\E p \in Paths : OnSettle(p) \/ OnSettleFails(p)) \/ RetryDue
  PROVE  IngestionInv'
  <1>1. Core /\ Surroundings
    BY InvHalves
  <1>2. UNCHANGED <<notes, locks, proc>>
    BY DEF Edit, Write, Delete, Rename, OnSettle, OnSettleFails, RetryDue
  <1>3. Core'
    BY <1>1, <1>2
       DEF Core, LockHeld, JobData, DataReady, UsesText, UsesNote, PathStillFree, NeedsFreePath, UniquePaths,
           Locked, At, Ids
  <1> USE <1>1 DEF Surroundings, Budgeted
  <1>4. ASSUME NEW p \in Paths, NEW t \in Contents, Write(p, t) PROVE Surroundings'
    BY <1>4, SpendType DEF Write, Heard
  <1>5. ASSUME NEW p \in Paths, Delete(p) PROVE Surroundings'
    BY <1>5, SpendType DEF Delete, Heard
  <1>6. ASSUME NEW p \in Paths, NEW q \in Paths, Rename(p, q) PROVE Surroundings'
    BY <1>6, SpendType DEF Rename, Heard
  <1>7. ASSUME NEW p \in Paths, OnSettle(p) PROVE Surroundings'
    <2>1. Enqueue(p, Retries) \in Task
      BY DEF Enqueue, Task
    <2> QED
      BY <1>7, <2>1 DEF OnSettle
  <1>8. ASSUME NEW p \in Paths, OnSettleFails(p) PROVE Surroundings'
    BY <1>8, SpendType DEF OnSettleFails
  <1>9. CASE RetryDue
    <2>1. /\ delayed # <<>> /\ queue' = Append(queue, Head(delayed))
          /\ delayed' = Tail(delayed) /\ UNCHANGED <<disk, up, signals, budget>>
      BY <1>9 DEF RetryDue
    <2>2. queue' \in Seq(Task) /\ delayed' \in Seq(Task)
      BY <2>1
    <2>3. /\ disk' \in [Paths -> Contents \cup {NoFile}]
          /\ up' \in BOOLEAN
          /\ signals' \in SUBSET Paths
          /\ budget' \in [Budgeted -> Nat]
      BY <2>1, Zenon
    <2>4. Surroundings'
      BY <2>2, <2>3, Zenon
    <2> QED
      BY <1>3, <2>4, InvHalves
  <1> QED
    BY <1>3, <1>4, <1>5, <1>6, <1>7, <1>8, <1>9, InvHalves DEF Edit

\* Taking up a job and going through a pass keep the invariant.
LEMMA PassKeeps ==
  ASSUME IngestionInv, NEW c \in Procs,
         (TakeTask /\ c = Worker) \/ (StartWorker /\ c = Worker)
           \/ StartPass(c) \/ PassStep(c) \/ AbortPass(c)
  PROVE  IngestionInv'
  <1> SUFFICES Core' /\ Surroundings'
    BY InvHalves
  <1>1. Core /\ Surroundings
    BY InvHalves
  <1>2. proc[c] \in ProcType /\ Idle \in ProcType
    BY <1>1 DEF Core, Idle, ProcType
  <1>3. CASE TakeTask /\ c = Worker
    <2>1. Head(queue) \in Task /\ Tail(queue) \in Seq(Task)
      BY <1>1, <1>3 DEF TakeTask, Surroundings
    <2> DEFINE step == [Idle EXCEPT !.pc = "lock", !.job = "task", !.path = Head(queue).path,
                                    !.tries = Head(queue).tries]
    <2>2. step \in ProcType /\ step.pc = "lock" /\ step.path \in Paths
      BY <2>1 DEF Idle, ProcType, Task
    <2>3. Core'
      BY <1>3, <2>2, QuietStep DEF TakeTask
    <2> QED
      BY <1>1, <1>3, <2>1, <2>3 DEF TakeTask, Surroundings
  <1>4. CASE StartPass(c) \/ (StartWorker /\ c = Worker)
    <2> DEFINE step == [Idle EXCEPT !.pc = "next", !.job = "walk", !.todo = Paths]
    <2>1. step \in ProcType /\ step.pc = "next"
      <3> DEFINE all == Paths
      <3>1. all \in SUBSET Paths
        OBVIOUS
      <3>2. step = [Idle EXCEPT !.pc = "next", !.job = "walk", !.todo = all]
        OBVIOUS
      <3> HIDE DEF step, all
      <3>3. step \in ProcType
        BY <1>2, <3>1, <3>2 DEF ProcType
      <3>4. step.pc = "next"
        BY <1>2, <3>2 DEF ProcType
      <3> QED
        BY <3>3, <3>4
    <2>2. Core'
      BY <1>4, <2>1, QuietStep DEF StartPass, StartWorker
    <2> QED
      BY <1>1, <1>4, <2>2 DEF StartPass, StartWorker, Surroundings
  <1>5. CASE Walk(c)
    <2> PICK p \in proc[c].todo :
               proc' = [proc EXCEPT ![c].todo = @ \ {p},
                                    ![c].snap = IF OnDisk(p) THEN @ \cup {p} ELSE @]
      BY <1>5 DEF Walk
    <2> DEFINE step == [proc[c] EXCEPT !.todo = @ \ {p},
                                       !.snap = IF OnDisk(p) THEN @ \cup {p} ELSE @]
    <2>1. step \in ProcType /\ step.pc = "next"
      <3>1. proc[c].todo \in SUBSET Paths /\ proc[c].snap \in SUBSET Paths /\ p \in Paths
        BY <1>2 DEF ProcType
      <3> DEFINE rest == proc[c].todo \ {p}
                 seen == IF OnDisk(p) THEN proc[c].snap \cup {p} ELSE proc[c].snap
      <3>2. rest \in SUBSET Paths /\ seen \in SUBSET Paths
        BY <3>1
      <3>3. step = [proc[c] EXCEPT !.todo = rest, !.snap = seen]
        BY <1>2 DEF ProcType
      <3> HIDE DEF rest, seen, step
      <3> QED
        BY <1>2, <1>5, <3>2, <3>3 DEF Walk, ProcType
    <2>2. proc' = [proc EXCEPT ![c] = step]
      BY <1>1 DEF Core
    <2>3. Core'
      BY <1>5, <2>1, <2>2, QuietStep DEF Walk
    <2> QED
      BY <1>1, <1>5, <2>3 DEF Walk, Surroundings
  <1>6. CASE IngestNext(c)
    <2> PICK p \in proc[c].todo :
               proc' = [proc EXCEPT ![c].todo = @ \ {p}, ![c].path = p, ![c].pc = "lock"]
      BY <1>6 DEF IngestNext
    <2> DEFINE step == [proc[c] EXCEPT !.todo = @ \ {p}, !.path = p, !.pc = "lock"]
    <2>1. step \in ProcType /\ step.pc = "lock" /\ step.path \in Paths
      BY <1>2 DEF ProcType
    <2>2. proc' = [proc EXCEPT ![c] = step]
      BY <1>1 DEF Core
    <2>3. Core'
      BY <1>6, <2>1, <2>2, QuietStep DEF IngestNext
    <2> QED
      BY <1>1, <1>6, <2>3 DEF IngestNext, Surroundings
  <1>7. CASE NextPhase(c)
    <2> DEFINE step == CASE proc[c].job = "walk" ->
                              [proc[c] EXCEPT !.job = "files", !.todo = proc[c].snap]
                         [] proc[c].job = "files" ->
                              [proc[c] EXCEPT !.job = "missing",
                                              !.todo = ActivePaths \ proc[c].snap]
                         [] OTHER -> Idle
    <2>1. ActivePaths \subseteq Paths
      <3>1. \A i \in Ids : notes[i] \in Row
        BY <1>1, ElementOfSeq DEF Ids, Core
      <3>2. \A i \in Ids : notes[i].path \in Paths
        BY <3>1 DEF Row
      <3> QED
        BY <3>2 DEF ActivePaths
    <2>2. step \in ProcType /\ step.pc \in {"idle", "next"}
      <3>1. Idle.pc = "idle" BY DEF Idle
      <3>2. proc[c].pc = "next" BY <1>7 DEF NextPhase
      <3> QED
        BY <1>2, <2>1, <3>1, <3>2 DEF ProcType
    <2>3. Core'
      BY <1>7, <2>2, QuietStep DEF NextPhase
    <2> QED
      BY <1>1, <1>7, <2>3 DEF NextPhase, Surroundings
  <1>8. CASE AbortPass(c)
    <2>1. Core'
      BY <1>2, <1>8, QuietStep, Idle.pc = "idle" DEF AbortPass, Idle
    <2> QED
      BY <1>1, <1>8, <2>1, SpendType DEF AbortPass, Budgeted, Surroundings
  <1> QED
    BY <1>3, <1>4, <1>5, <1>6, <1>7, <1>8 DEF PassStep

\* Taking the lock, or finding it taken, keeps the invariant.
LEMMA TryLockKeeps == ASSUME IngestionInv, NEW c \in Procs, TryLock(c) PROVE IngestionInv'
  <1> SUFFICES Core'
    BY InvHalves DEF TryLock, Untouched, Surroundings
  <1>1. Core /\ proc[c] \in ProcType /\ proc[c].pc = "lock" /\ proc[c].path \in Paths
    BY InvHalves DEF TryLock, At, Core, JobData, DataReady, UsesText, UsesNote
  <1>2. CASE locks[proc[c].path] # NoProc
    BY <1>2, AfterIsQuiet, QuietStep DEF TryLock, IngestionInv
  <1>3. CASE locks[proc[c].path] = NoProc
    <2> DEFINE step == [proc[c] EXCEPT !.pc = "read"]
    <2>1. step \in ProcType /\ step.pc = "read" /\ step.path = proc[c].path
      BY <1>1 DEF ProcType
    <2>2. /\ proc' = [proc EXCEPT ![c] = step] /\ notes' = notes
          /\ locks' = [locks EXCEPT ![proc[c].path] = c]
      BY <1>1, <1>3 DEF TryLock, Core
    <2> HIDE DEF step
    <2>3. proc'[c] = step /\ locks'[proc[c].path] = c
      BY <1>1, <2>2 DEF Core
    <2>4. \A d \in Procs \ {c} : Locked(d) => locks'[proc[d].path] = d
      <3> SUFFICES ASSUME NEW d \in Procs, d # c, Locked(d) PROVE locks'[proc[d].path] = d
        OBVIOUS
      <3>1. locks[proc[d].path] = d /\ proc[d].path \in Paths
        BY <1>1 DEF Core, LockHeld, JobData, DataReady, UsesText, UsesNote
      <3>2. d # NoProc
        BY DEF Procs
      <3> QED
        BY <1>3, <2>2, <3>1, <3>2
    <2>5. (Locked(c) => locks[proc[c].path] = c)' /\ DataReady(c)' /\ ~NeedsFreePath(c)'
      BY <1>1, <2>1, <2>3 DEF DataReady, UsesText, UsesNote, NeedsFreePath, Locked, At
    <2>6. \A i \in Ids' : i \in Ids /\ notes'[i].path = notes[i].path
      BY <2>2 DEF Ids
    <2>7. notes' \in Seq(Row) /\ Len(notes) <= Len(notes')
      BY <1>1, <2>2 DEF Core
    <2>8. LockHeld' /\ JobData' /\ PathStillFree' /\ proc' \in [Procs -> ProcType]
      BY <2>1, <2>2, <2>4, <2>5, <2>6, <2>7, StepKeeps
    <2>9. locks' \in [Paths -> Procs \cup {NoProc}]
      BY <1>1, <2>2 DEF Core
    <2>10. UniquePaths'
      BY <1>1, <2>2 DEF Core, UniquePaths, Ids
    <2> QED
      BY <2>7, <2>8, <2>9, <2>10 DEF Core
  <1> QED
    BY <1>2, <1>3

\* The steps that only read keep the invariant: what they found is what the next
\* step needs, and Detect and Lookup found the path free.
LEMMA ReadKeeps ==
  ASSUME IngestionInv, NEW c \in Procs,
         Read(c) \/ Scan(c) \/ Lookup(c) \/ Detect(c) \/ Vanished(c) \/ Twin(c)
  PROVE  IngestionInv'
  <1> SUFFICES Core'
    BY InvHalves DEF Read, Scan, Lookup, Detect, Vanished, Twin, Untouched, Surroundings
  <1>1. Core /\ disk \in [Paths -> Contents \cup {NoFile}]
    BY InvHalves DEF Surroundings
  <1>2. proc[c] \in ProcType /\ proc \in [Procs -> ProcType]
    BY <1>1 DEF Core
  <1>3. Locked(c) /\ UNCHANGED notes
    BY DEF Read, Scan, Lookup, Detect, Vanished, Twin, Locked, At
  <1>4. proc[c].path \in Paths /\ DataReady(c)
    BY <1>1, <1>3 DEF Core, JobData, DataReady, UsesText, UsesNote
  <1>5. CASE Return(c)
    BY <1>3, <1>5, ReturnStep
  <1>6. \A i \in Ids : notes[i] \in Row
    BY <1>1, ElementOfSeq DEF Core, Ids
  <1>7. ASSUME NEW step \in ProcType, Proceed(c, step), step.path = proc[c].path,
               \/ step.pc = "vanished"
               \/ step.pc \in {"scan", "lookup"} /\ step.text \in Contents
               \/ step.pc = "twin" /\ step.note \in Ids
               \/ step.pc = "detect" /\ step.text \in Contents
                    /\ \A i \in Ids : notes[i].path # step.path
               \/ step.pc = "commit" /\ step.op = "create" /\ step.text \in Contents
                    /\ \A i \in Ids : notes[i].path # step.path
               \/ step.pc = "commit" /\ step.op = "update" /\ step.text \in Contents
                    /\ step.note \in Ids
               \/ step.pc = "commit" /\ step.op = "move" /\ step.note \in Ids
                    /\ \A i \in Ids : notes[i].path # step.path
               \/ step.pc = "commit" /\ step.op = "delete" /\ step.note \in Ids
        PROVE  Core'
    <2>1. proc'[c] = step /\ notes' = notes /\ Ids' = Ids
      BY <1>2, <1>3, <1>7 DEF Proceed, Ids
    <2>2. Locked(c)' /\ DataReady(c)'
      BY <1>4, <1>7, <2>1 DEF DataReady, UsesText, UsesNote, Locked, At
    <2>3. (NeedsFreePath(c) => \A i \in Ids : notes[i].path # proc[c].path)'
      BY <1>7, <2>1 DEF NeedsFreePath, At
    <2> QED
      BY <1>3, <1>7, <2>2, <2>3, ProceedStep
  <1>8. CASE Read(c)
    <2>1. CASE OnDisk(proc[c].path)
      <3> DEFINE step == [proc[c] EXCEPT !.pc = "scan", !.text = disk[proc[c].path]]
      <3>1. disk[proc[c].path] \in Contents
        BY <1>1, <1>4, <2>1 DEF OnDisk
      <3>2. /\ step \in ProcType /\ step.pc = "scan" /\ step.text \in Contents
            /\ step.path = proc[c].path
        BY <1>2, <3>1 DEF ProcType
      <3>3. Proceed(c, step)
        BY <1>8, <2>1 DEF Read
      <3> HIDE DEF step
      <3> QED
        BY <1>7, <3>2, <3>3
    <2>2. CASE ~OnDisk(proc[c].path)
      <3> DEFINE step == [proc[c] EXCEPT !.pc = "vanished"]
      <3>1. step \in ProcType /\ step.pc = "vanished" /\ step.path = proc[c].path
        BY <1>2 DEF ProcType
      <3>2. Proceed(c, step)
        BY <1>8, <2>2 DEF Read
      <3> HIDE DEF step
      <3> QED
        BY <1>7, <3>1, <3>2
    <2> QED
      BY <2>1, <2>2
  <1>9. CASE Scan(c) /\ ~Return(c)
    <2> DEFINE step == [proc[c] EXCEPT !.pc = "lookup", !.scan = disk[proc[c].path]]
    <2>4. proc[c].pc = "scan"
      BY <1>9 DEF Scan, At
    <2>1. proc[c].text \in Contents /\ disk[proc[c].path] \in Contents \cup {NoFile}
      BY <1>1, <1>4, <2>4 DEF DataReady, UsesText, UsesNote
    <2>2. /\ step \in ProcType /\ step.pc = "lookup" /\ step.text \in Contents
          /\ step.path = proc[c].path
      BY <1>2, <2>1 DEF ProcType
    <2>3. Proceed(c, step)
      BY <1>9 DEF Scan
    <2> HIDE DEF step
    <2> QED
      BY <1>7, <2>2, <2>3
  <1>10. CASE Lookup(c) /\ ~Return(c)
    <2>4. proc[c].pc = "lookup"
      BY <1>10 DEF Lookup, At
    <2>1. proc[c].text \in Contents
      BY <1>4, <2>4 DEF DataReady, UsesText, UsesNote
    <2>2. CASE RowAt(proc[c].path) = 0
      <3> DEFINE step == [proc[c] EXCEPT !.pc = "detect"]
      <3>1. /\ step \in ProcType /\ step.pc = "detect" /\ step.text \in Contents
            /\ step.path = proc[c].path
        BY <1>2, <2>1 DEF ProcType
      <3>2. Proceed(c, step)
        BY <1>10, <2>2 DEF Lookup
      <3>3. \A i \in Ids : notes[i].path # step.path
        BY <2>2, <3>1, RowAtFinds
      <3> HIDE DEF step
      <3> QED
        BY <1>7, <3>1, <3>2, <3>3
    <2>3. CASE RowAt(proc[c].path) # 0
      <3> PICK n : n = RowAt(proc[c].path)
        OBVIOUS
      <3> DEFINE step == [proc[c] EXCEPT !.pc = "commit", !.op = "update", !.note = n]
      <3>1. n \in Ids /\ n \in Nat
        BY <2>3, RowAtFinds DEF Ids
      <3>2. /\ step \in ProcType /\ step.pc = "commit" /\ step.op = "update"
            /\ step.note = n /\ step.text \in Contents /\ step.path = proc[c].path
        BY <1>2, <2>1, <3>1 DEF ProcType
      <3>3. Proceed(c, step)
        BY <1>10, <2>3 DEF Lookup
      <3> HIDE DEF step
      <3> QED
        BY <1>7, <3>1, <3>2, <3>3
    <2> QED
      BY <2>2, <2>3
  <1>11. CASE Detect(c)
    <2>4. proc[c].pc = "detect" /\ PathStillFree
      BY <1>1, <1>11 DEF Detect, At, Core
    <2>1. proc[c].text \in Contents /\ \A i \in Ids : notes[i].path # proc[c].path
      BY <1>4, <2>4 DEF DataReady, UsesText, UsesNote, PathStillFree, NeedsFreePath, At
    <2>2. CASE MovedFrom(proc[c].path, proc[c].text) = {}
      <3> DEFINE step == [proc[c] EXCEPT !.pc = "commit", !.op = "create"]
      <3>1. /\ step \in ProcType /\ step.pc = "commit" /\ step.op = "create"
            /\ step.text \in Contents /\ step.path = proc[c].path
        BY <1>2, <2>1 DEF ProcType
      <3>2. Proceed(c, step)
        BY <1>11, <2>2 DEF Detect
      <3> HIDE DEF step
      <3> QED
        BY <1>7, <2>1, <3>1, <3>2
    <2>3. CASE MovedFrom(proc[c].path, proc[c].text) # {}
      <3> PICK i \in MovedFrom(proc[c].path, proc[c].text) :
                 Proceed(c, [proc[c] EXCEPT !.pc = "commit", !.op = "move", !.note = i])
        BY <1>11, <2>3 DEF Detect
      <3> DEFINE step == [proc[c] EXCEPT !.pc = "commit", !.op = "move", !.note = i]
      <3>1. i \in Ids /\ i \in Nat
        BY DEF MovedFrom, WithHash, Ids
      <3>2. /\ step \in ProcType /\ step.pc = "commit" /\ step.op = "move"
            /\ step.note = i /\ step.path = proc[c].path
        BY <1>2, <3>1 DEF ProcType
      <3>3. Proceed(c, step)
        OBVIOUS
      <3> HIDE DEF step
      <3> QED
        BY <1>7, <2>1, <3>1, <3>2, <3>3
    <2> QED
      BY <2>2, <2>3
  <1>12. CASE Vanished(c) /\ ~Return(c)
    <2> PICK n : n = RowAt(proc[c].path)
      OBVIOUS
    <2> DEFINE step == [proc[c] EXCEPT !.pc = "twin", !.note = n, !.text = notes[n].hash]
    <2>1. n # 0 /\ Proceed(c, step)
      BY <1>12 DEF Vanished
    <2>2. n \in Ids /\ n \in Nat /\ notes[n].hash \in Contents
      BY <1>6, <2>1, RowAtFinds DEF Ids, Row
    <2>3. step \in ProcType /\ step.pc = "twin" /\ step.note = n /\ step.path = proc[c].path
      BY <1>2, <2>2 DEF ProcType
    <2> HIDE DEF step
    <2> QED
      BY <1>7, <2>1, <2>2, <2>3
  <1>13. CASE Twin(c) /\ ~Return(c)
    <2> DEFINE step == [proc[c] EXCEPT !.pc = "commit", !.op = "delete"]
    <2>4. proc[c].pc = "twin"
      BY <1>13 DEF Twin, At
    <2>1. proc[c].note \in Ids
      BY <1>4, <2>4 DEF DataReady, UsesText, UsesNote
    <2>2. /\ step \in ProcType /\ step.pc = "commit" /\ step.op = "delete"
          /\ step.note = proc[c].note /\ step.path = proc[c].path
      BY <1>2 DEF ProcType
    <2>3. Proceed(c, step)
      BY <1>13 DEF Twin
    <2> HIDE DEF step
    <2> QED
      BY <1>7, <2>1, <2>2, <2>3
  <1> QED
    BY <1>5, <1>8, <1>9, <1>10, <1>11, <1>12, <1>13

\* Rewriting one field of a row leaves a table of as many rows.
LEMMA RowUpdate ==
  ASSUME notes \in Seq(Row), NEW n \in Ids, NEW row \in Row
  PROVE  /\ [notes EXCEPT ![n] = row] \in Seq(Row)
         /\ Len([notes EXCEPT ![n] = row]) = Len(notes)
         /\ \A i \in Ids : [notes EXCEPT ![n] = row][i] = IF i = n THEN row ELSE notes[i]
  BY ExceptSeq DEF Ids

\* A step that writes to the table without moving a row, after which c has at most
\* the recording of its row left to do, keeps the invariant.
LEMMA WriteStep ==
  ASSUME IngestionInv, NEW c \in Procs, NEW step \in ProcType,
         proc' = [proc EXCEPT ![c] = step],
         \/ step.pc \in {"idle", "next"}
         \/ step.pc = "chain" /\ step.note \in Ids
         \/ step.pc = "persist" /\ step.note \in Ids /\ step.path = proc[c].path
              /\ Locked(c) /\ UNCHANGED locks,
         (Unlock(c) /\ Locked(c)) \/ UNCHANGED locks,
         NEW n \in Ids, NEW row \in Row, notes' = [notes EXCEPT ![n] = row],
         row.path = notes[n].path
  PROVE  Core'
  <1>1. Core
    BY InvHalves
  <1>2. notes \in Seq(Row) /\ proc'[c] = step
    BY <1>1 DEF Core
  <1>3. /\ notes' \in Seq(Row) /\ Len(notes) <= Len(notes') /\ Ids' = Ids
        /\ \A i \in Ids : notes'[i].path = notes[i].path
    BY <1>2, RowUpdate DEF Ids
  <1>4. \A d \in Procs \ {c} : Locked(d) => locks'[proc[d].path] = d
    BY OthersKeepLocks
  <1>5. (Locked(c) => locks[proc[c].path] = c)' /\ DataReady(c)' /\ ~NeedsFreePath(c)'
    <2>1. CASE step.pc # "persist"
      BY <1>2, <1>3, <2>1 DEF DataReady, UsesText, UsesNote, NeedsFreePath, Locked, At
    <2>2. CASE step.pc = "persist"
      <3>1. locks[proc[c].path] = c /\ proc[c].path \in Paths
        BY <1>1, <2>2 DEF Core, LockHeld, JobData, DataReady, UsesText, UsesNote
      <3> QED
        BY <1>2, <1>3, <2>2, <3>1 DEF DataReady, UsesText, UsesNote, NeedsFreePath, Locked, At
    <2> QED
      BY <2>1, <2>2
  <1>6. LockHeld' /\ JobData' /\ PathStillFree' /\ proc' \in [Procs -> ProcType]
    BY <1>3, <1>4, <1>5, StepKeeps
  <1>7. locks' \in [Paths -> Procs \cup {NoProc}]
    BY OthersKeepLocks
  <1>8. UniquePaths'
    BY <1>1, <1>3 DEF Core, UniquePaths
  <1> QED
    BY <1>3, <1>6, <1>7, <1>8 DEF Core

\* The write of a new or moved row keeps the invariant: UNIQUE let it through, and
\* nobody else has found that path free.
LEMMA PlaceKeeps ==
  ASSUME IngestionInv, NEW c \in Procs, CommitCreate(c) \/ CommitMove(c)
  PROVE  IngestionInv'
  <1> SUFFICES Core'
    BY InvHalves DEF CommitCreate, CommitMove, Untouched, Surroundings
  <1>1. Core /\ notes \in Seq(Row) /\ proc \in [Procs -> ProcType] /\ proc[c] \in ProcType
    BY InvHalves DEF Core
  <1>2. At(c, "commit") /\ ~Collides(c) /\ proc[c].op \in {"create", "move"}
    BY DEF CommitCreate, CommitMove
  <1>3. Locked(c) /\ \A i \in Ids : notes[i].path # proc[c].path
    BY <1>2, RowAtFinds DEF Locked, At, Collides
  <1>4. DataReady(c) /\ locks[proc[c].path] = c /\ proc[c].path \in Paths
    BY <1>1, <1>3 DEF Core, LockHeld, JobData, DataReady
  <1>5. \A i \in Ids : notes[i] \in Row
    BY <1>1, ElementOfSeq DEF Ids
  <1>6. UniquePaths
    BY <1>1 DEF Core
  <1>7. CASE CommitCreate(c)
    <2> PICK len : len = Len(notes) + 1
      OBVIOUS
    <2>12. len \in Nat /\ Len(notes) \in Nat
      BY <1>1
    <2> DEFINE step == [proc[c] EXCEPT !.pc = "persist", !.note = len]
               row == NewRow(proc[c].path, proc[c].text)
    <2>1. proc[c].text \in Contents
      BY <1>2, <1>4, <1>7 DEF DataReady, UsesText, CommitCreate
    <2>2. row \in Row /\ row.path = proc[c].path
      BY <1>4, <2>1 DEF NewRow, Row
    <2>3. /\ step \in ProcType /\ step.pc = "persist" /\ step.note = len
          /\ step.path = proc[c].path
      BY <1>1, <2>12 DEF ProcType
    <2>4. /\ proc' = [proc EXCEPT ![c] = step] /\ locks' = locks
          /\ notes' = Append(notes, row)
      BY <1>7 DEF CommitCreate, Proceed
    <2> HIDE DEF step, row
    <2>5. /\ notes' \in Seq(Row) /\ Len(notes') = len /\ Len(notes) <= Len(notes')
          /\ \A i \in Ids' : \/ i = len /\ notes'[i].path = proc[c].path
                             \/ i \in Ids /\ notes'[i].path = notes[i].path
      <3>1. notes' \in Seq(Row) /\ Len(notes') = len /\ Ids' = 1..len
        BY <1>1, <2>2, <2>4 DEF Ids
      <3>2. \A i \in 1..len : notes'[i] = IF i = len THEN row ELSE notes[i]
        BY <1>1, <2>2, <2>4
      <3>3. \A i \in 1..len : i = len \/ (i # len /\ i \in Ids)
        BY <2>12 DEF Ids
      <3>4. \A i \in Ids' : \/ i = len /\ notes'[i].path = proc[c].path
                            \/ i \in Ids /\ notes'[i].path = notes[i].path
        BY <2>2, <3>1, <3>2, <3>3, Zenon
      <3>5. Len(notes) <= Len(notes')
        BY <2>12, <3>1
      <3> QED
        BY <3>1, <3>4, <3>5, Zenon
    <2>6. proc'[c] = step /\ len \in Ids'
      BY <1>1, <2>4, <2>5 DEF Ids
    <2>7. /\ (Locked(c) => locks[proc[c].path] = c)' /\ ~NeedsFreePath(c)'
      BY <1>4, <2>3, <2>4, <2>6 DEF NeedsFreePath, Locked, At
    <2>8. DataReady(c)'
      BY <1>4, <2>3, <2>6 DEF DataReady, UsesText, UsesNote, Locked, At
    <2>9. \A d \in Procs \ {c} : Locked(d) => locks'[proc[d].path] = d
      BY <1>1, <2>4 DEF Core, LockHeld
    <2>10. LockHeld' /\ JobData' /\ PathStillFree' /\ proc' \in [Procs -> ProcType]
      BY <1>3, <2>3, <2>4, <2>5, <2>7, <2>8, <2>9, StepKeeps
    <2>11. UniquePaths'
      BY <1>3, <1>6, <2>5 DEF UniquePaths
    <2> QED
      BY <1>1, <2>4, <2>5, <2>10, <2>11 DEF Core
  <1>8. CASE CommitMove(c)
    <2> PICK n : n = proc[c].note
      OBVIOUS
    <2> DEFINE step == After(c)
               row == [notes[n] EXCEPT !.path = proc[c].path]
    <2>1. n \in Ids
      BY <1>2, <1>4, <1>8 DEF DataReady, UsesNote, CommitMove
    <2>2. row \in Row /\ row.path = proc[c].path
      BY <1>4, <1>5, <2>1 DEF Row
    <2>3. step \in ProcType /\ step.pc \in {"idle", "next"}
      BY AfterIsQuiet DEF IngestionInv
    <2>4. /\ proc' = [proc EXCEPT ![c] = step] /\ Unlock(c)
          /\ notes' = [notes EXCEPT ![n] = row]
      BY <1>1, <2>1, <1>8 DEF CommitMove, Return, Ids
    <2> HIDE DEF step, row
    <2>5. /\ notes' \in Seq(Row) /\ Len(notes') = Len(notes) /\ Len(notes) <= Len(notes')
          /\ Ids' = Ids
          /\ \A i \in Ids : notes'[i] = IF i = n THEN row ELSE notes[i]
      BY <1>1, <2>1, <2>2, <2>4, RowUpdate DEF Ids
    <2>6. \A i \in Ids' : \/ notes'[i].path = proc[c].path
                          \/ i \in Ids /\ notes'[i].path = notes[i].path
      BY <2>2, <2>5
    <2>7. proc'[c] = step
      BY <1>1, <2>4
    <2>8. ~Locked(c)' /\ ~NeedsFreePath(c)' /\ DataReady(c)'
      BY <2>3, <2>7 DEF DataReady, UsesText, UsesNote, NeedsFreePath, Locked, At
    <2>9. /\ \A d \in Procs \ {c} : Locked(d) => locks'[proc[d].path] = d
          /\ locks' \in [Paths -> Procs \cup {NoProc}]
      BY <1>3, <2>4, OthersKeepLocks
    <2>10. (Locked(c) => locks[proc[c].path] = c)'
           /\ (NeedsFreePath(c) => \A i \in Ids : notes[i].path # proc[c].path)'
      BY <2>8
    <2>11. LockHeld' /\ JobData' /\ PathStillFree' /\ proc' \in [Procs -> ProcType]
      BY <1>3, <2>3, <2>4, <2>5, <2>6, <2>8, <2>9, <2>10, StepKeeps
    <2>12. UniquePaths'
      BY <1>3, <1>6, <2>1, <2>2, <2>5 DEF UniquePaths
    <2> QED
      BY <2>5, <2>9, <2>11, <2>12 DEF Core
  <1> QED
    BY <1>7, <1>8

\* The writes to an existing row, and the hand-over to indexing, keep the invariant.
LEMMA UpdateKeeps ==
  ASSUME IngestionInv, NEW c \in Procs,
         CommitUpdate(c) \/ CommitDelete(c) \/ Persist(c) \/ Chain(c)
  PROVE  IngestionInv'
  <1> SUFFICES Core'
    BY InvHalves DEF CommitUpdate, CommitDelete, Persist, Chain, Untouched, Surroundings
  <1>1. Core /\ notes \in Seq(Row) /\ proc \in [Procs -> ProcType] /\ proc[c] \in ProcType
    BY InvHalves DEF Core
  <1>2. DataReady(c)
    BY <1>1 DEF Core, JobData
  <1> PICK n : n = proc[c].note
    OBVIOUS
  <1>3. proc[c].note \in Ids /\ n \in Ids /\ n \in Nat
    <2>1. UsesNote(c)
      BY DEF CommitUpdate, CommitDelete, Persist, Chain, UsesNote, At
    <2> QED
      BY <1>2, <2>1 DEF DataReady, Ids
  <1>4. notes[n] \in Row
    BY <1>1, <1>3, ElementOfSeq DEF Ids
  <1>5. After(c) \in ProcType /\ After(c).pc \in {"idle", "next"}
    BY AfterIsQuiet DEF IngestionInv
  <1>6. proc[c].text \in Contents \cup {NoFile} /\ proc[c].scan \in Contents \cup {NoFile}
    BY <1>1 DEF ProcType
  <1>7. CASE CommitUpdate(c)
    <2> DEFINE step == [proc[c] EXCEPT !.pc = "persist"]
               row == [notes[n] EXCEPT !.hash = proc[c].text]
    <2>1. proc[c].text \in Contents /\ Locked(c)
      BY <1>2, <1>7 DEF DataReady, UsesText, CommitUpdate, At, Locked
    <2>2. row \in Row /\ row.path = notes[n].path
      BY <1>4, <2>1 DEF Row
    <2>3. /\ step \in ProcType /\ step.pc = "persist" /\ step.note = proc[c].note
          /\ step.path = proc[c].path
      BY <1>1 DEF ProcType
    <2>4. /\ proc' = [proc EXCEPT ![c] = step] /\ UNCHANGED locks
          /\ notes' = [notes EXCEPT ![n] = row]
      BY <1>1, <1>3, <1>7 DEF CommitUpdate, Proceed, Ids
    <2> HIDE DEF step, row
    <2> QED
      BY <1>3, <2>1, <2>2, <2>3, <2>4, WriteStep
  <1>8. CASE CommitDelete(c)
    <2> DEFINE row == [notes[n] EXCEPT !.deleted = TRUE]
    <2>1. row \in Row /\ row.path = notes[n].path
      BY <1>4 DEF Row
    <2>2. /\ proc' = [proc EXCEPT ![c] = After(c)] /\ Unlock(c) /\ Locked(c)
          /\ notes' = [notes EXCEPT ![n] = row]
      BY <1>1, <1>3, <1>8 DEF CommitDelete, Return, At, Locked, Ids
    <2> HIDE DEF row
    <2> QED
      BY <1>3, <1>5, <2>1, <2>2, WriteStep
  <1>9. CASE Persist(c)
    <2> DEFINE step == [proc[c] EXCEPT !.pc = "chain"]
               row == [notes[n] EXCEPT !.recorded = proc[c].scan]
    <2>1. row \in Row /\ row.path = notes[n].path
      BY <1>4, <1>6 DEF Row
    <2>2. step \in ProcType /\ step.pc = "chain" /\ step.note = proc[c].note
      BY <1>1 DEF ProcType
    <2>3. /\ proc' = [proc EXCEPT ![c] = step] /\ Unlock(c) /\ Locked(c)
          /\ notes' = [notes EXCEPT ![n] = row]
      BY <1>1, <1>3, <1>9 DEF Persist, At, Locked, Ids
    <2> HIDE DEF step, row
    <2> QED
      BY <1>3, <2>1, <2>2, <2>3, WriteStep
  <1>10. CASE Chain(c)
    BY <1>5, <1>10, QuietStep DEF Chain
  <1> QED
    BY <1>7, <1>8, <1>9, <1>10

\* The failures inside ingest_note keep the invariant.
LEMMA FaultKeeps ==
  ASSUME IngestionInv, NEW c \in Procs, ScanFails(c) \/ CommitFails(c) \/ PersistFails(c)
  PROVE  IngestionInv'
  <1> SUFFICES Core' /\ Surroundings'
    BY InvHalves
  <1>1. Core /\ Surroundings /\ proc[c] \in ProcType /\ notes \in Seq(Row)
    BY InvHalves DEF Core
  <1>2. Locked(c) /\ Return(c)
    BY DEF ScanFails, CommitFails, PersistFails, Raise, Locked, At
  <1>3. DataReady(c)
    BY <1>1 DEF Core, JobData
  <1>4. Core'
    <2>1. CASE UNCHANGED notes
      BY <1>2, <2>1, ReturnStep
    <2>2. CASE PersistFails(c)
      <3> PICK n : n = proc[c].note
        OBVIOUS
      <3>1. n \in Ids
        <4>1. UsesNote(c)
          BY <2>2 DEF PersistFails, UsesNote, At
        <4> QED
          BY <1>3, <4>1 DEF DataReady
      <3>2. notes[n] \in Row
        BY <1>1, <3>1, ElementOfSeq DEF Ids
      <3> PICK left \in {NoFile, notes[n].recorded} :
                 notes' = [notes EXCEPT ![n].recorded = left]
        BY <2>2 DEF PersistFails
      <3> DEFINE row == [notes[n] EXCEPT !.recorded = left]
      <3>3. row \in Row /\ row.path = notes[n].path
        BY <3>2 DEF Row
      <3>4. notes' = [notes EXCEPT ![n] = row]
        BY <1>1, <3>1 DEF Ids
      <3>5. After(c) \in ProcType /\ After(c).pc \in {"idle", "next"}
        BY AfterIsQuiet DEF IngestionInv
      <3> HIDE DEF row
      <3> QED
        BY <1>2, <3>1, <3>3, <3>4, <3>5, WriteStep DEF Return
    <2> QED
      BY <2>1, <2>2 DEF ScanFails, CommitFails
  <1>5. Surroundings'
    <2>1. budget' \in [Budgeted -> Nat]
      BY <1>1, SpendType DEF ScanFails, CommitFails, PersistFails, Surroundings, Budgeted
    <2>2. delayed' \in Seq(Task)
      <3>1. CASE Raise(c) /\ delayed' # delayed
        <4>1. proc[c].path \in Paths
          BY <1>2, <1>3 DEF DataReady
        <4>2. proc[c].tries > 0 /\ delayed' = Append(delayed, Enqueue(proc[c].path, proc[c].tries - 1))
          BY <3>1 DEF Raise
        <4>3. proc[c].tries - 1 \in 0..Retries
          BY <1>1, <4>2 DEF ProcType
        <4>4. Enqueue(proc[c].path, proc[c].tries - 1) \in Task
          BY <4>1, <4>3 DEF Enqueue, Task
        <4> QED
          BY <1>1, <4>2, <4>4 DEF Surroundings
      <3>2. CASE delayed' = delayed
        BY <1>1, <3>2 DEF Surroundings
      <3> QED
        BY <3>1, <3>2 DEF ScanFails, CommitFails, PersistFails
    <2>3. UNCHANGED <<disk, up, signals, queue>>
      BY DEF ScanFails, CommitFails, PersistFails, Raise
    <2> QED
      BY <1>1, <2>1, <2>2, <2>3 DEF Surroundings
  <1> QED
    BY <1>4, <1>5

\* A crash of the worker keeps the invariant: the locks of the others are theirs.
LEMMA CrashKeeps == ASSUME IngestionInv, Crash PROVE IngestionInv'
  <1> SUFFICES Core' /\ Surroundings'
    BY InvHalves
  <1>1. Core /\ Surroundings
    BY InvHalves
  <1>2. Idle \in ProcType /\ Idle.pc = "idle"
    BY DEF Idle, ProcType
  <1>3. /\ notes' = notes /\ notes \in Seq(Row) /\ Len(notes) \in Nat
        /\ proc' = [proc EXCEPT ![Worker] = Idle] /\ proc'[Worker] = Idle
    BY <1>1 DEF Crash, Core, Procs
  <1>4. \A d \in Procs \ {Worker} : Locked(d) => locks'[proc[d].path] = d
    <2> SUFFICES ASSUME NEW d \in Procs, d # Worker, Locked(d) PROVE locks'[proc[d].path] = d
      OBVIOUS
    <2>1. locks[proc[d].path] = d /\ proc[d].path \in Paths
      BY <1>1 DEF Core, LockHeld, JobData, DataReady
    <2> QED
      BY <2>1 DEF Crash
  <1>5. locks' \in [Paths -> Procs \cup {NoProc}]
    BY <1>1 DEF Crash, Core
  <1>6. ~Locked(Worker)' /\ ~NeedsFreePath(Worker)' /\ DataReady(Worker)'
    BY <1>2, <1>3 DEF Locked, NeedsFreePath, DataReady, UsesText, UsesNote, At
  <1>7. \A i \in Ids' : i \in Ids /\ notes'[i].path = notes[i].path
    BY <1>3 DEF Ids
  <1>8. LockHeld' /\ JobData' /\ PathStillFree' /\ proc' \in [Procs -> ProcType]
    <2>1. Worker \in Procs
      BY DEF Procs
    <2>2. (Locked(Worker) => locks[proc[Worker].path] = Worker)'
          /\ (NeedsFreePath(Worker) => \A i \in Ids : notes[i].path # proc[Worker].path)'
      BY <1>6
    <2>3. notes' \in Seq(Row) /\ Len(notes) <= Len(notes')
      BY <1>3
    <2> QED
      BY <1>2, <1>3, <1>4, <1>6, <1>7, <2>1, <2>2, <2>3, StepKeeps
  <1>9. Core'
    BY <1>1, <1>3, <1>5, <1>8 DEF Core, UniquePaths, Ids
  <1>10. Surroundings'
    <2>1. budget' \in [Budgeted -> Nat]
      BY <1>1, SpendType DEF Crash, Surroundings, Budgeted
    <2> QED
      BY <1>1, <2>1 DEF Crash, Surroundings
  <1> QED
    BY <1>9, <1>10

\* Every step keeps the invariant.
LEMMA NextKeeps == IngestionInv /\ [Next]_vars => IngestionInv'
  <1> SUFFICES ASSUME IngestionInv, [Next]_vars PROVE IngestionInv'
    OBVIOUS
  <1>1. CASE UNCHANGED vars
    <2>1. Core /\ Surroundings
      BY InvHalves
    <2>2. Core' /\ Surroundings'
      BY <1>1, <2>1
         DEF vars, Core, Surroundings, LockHeld, JobData, DataReady, UsesText, UsesNote,
             PathStillFree, NeedsFreePath, UniquePaths, Locked, At, Ids
    <2> QED
      BY <2>2, InvHalves
  <1>2. CASE Edit \/ (\E p \in Paths : OnSettle(p) \/ OnSettleFails(p)) \/ RetryDue
    BY <1>2, OutsideStep
  <1>3. CASE TakeTask \/ StartWorker
    BY <1>3, PassKeeps DEF Procs
  <1>4. ASSUME NEW c \in Procs, StartPass(c) \/ PassStep(c) PROVE IngestionInv'
    BY <1>4, PassKeeps
  <1>5. ASSUME NEW c \in Procs, JobStep(c) PROVE IngestionInv'
    BY <1>5, TryLockKeeps, ReadKeeps, PlaceKeeps, UpdateKeeps DEF JobStep
  <1>6. ASSUME NEW c \in Procs, Fault(c) PROVE IngestionInv'
    BY <1>6, FaultKeeps, PassKeeps DEF Fault
  <1>7. CASE Crash
    BY <1>7, CrashKeeps
  <1> QED
    BY <1>1, <1>2, <1>3, <1>4, <1>5, <1>6, <1>7 DEF Next

\* The locks, what each process has read and decided, and the notes table agree in
\* every reachable state, whatever the processes, edits, failures and crashes.
THEOREM IngestionInvariant == Spec => []IngestionInv
  BY InitIngestion, NextKeeps, PTL DEF Spec

\* The per-path lock is enough: move detection and the write that follows it never
\* collide with another process on UNIQUE(notes.path).
THEOREM IngestionNeverCollides == Spec => []NoPathCollision
  <1>1. IngestionInv => NoPathCollision
    <2> SUFFICES ASSUME IngestionInv, NEW c \in Procs, At(c, "commit"), Collides(c)
                 PROVE  FALSE
      BY DEF NoPathCollision
    <2>1. NeedsFreePath(c)
      BY DEF Collides, NeedsFreePath
    <2> QED
      BY <2>1, RowAtFinds DEF IngestionInv, PathStillFree, Collides
  <1> QED
    BY <1>1, IngestionInvariant, PTL
=============================================================================
