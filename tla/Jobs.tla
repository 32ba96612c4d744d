-------------------------------- MODULE Jobs --------------------------------
(***************************************************************************)
(* Background jobs on behalf of a client: the MCP tools research_start,    *)
(* reindex_start, duplicates_scan and job_cancel and the command line      *)
(* `athena research start`, their rows in research_jobs, and the huey      *)
(* tasks research_task, reindex_task and duplicates_scan_task.             *)
(*                                                                         *)
(* A dispatch first enqueues the task and then inserts its row, so the     *)
(* worker may run the task before the row exists; a cancellation revokes   *)
(* the task in huey's store and then marks the row.  Clients and the       *)
(* worker are different processes and share only the two databases.        *)
(*                                                                         *)
(* Abstracted: what a task computes.  A draft is the number of times it    *)
(* was recorded; times are calendar days.                                  *)
(***************************************************************************)
EXTENDS Integers, Sequences, FiniteSets

CONSTANTS
  Clients,    \* dispatching processes, one call at a time each
  Kinds,      \* the job types dispatched
  Limited,    \* those with a daily ceiling
  MaxPerDay,  \* that ceiling
  Retries,    \* retries= of the tasks
  NoKind,     \* no job; no row
  MaxTasks, MaxDay, MaxFaults, MaxCrashes  \* bounds on what is explored

ASSUME KindsAssumption ==
  /\ Kinds \subseteq {"research_start", "reindex_start", "duplicates_scan"}
  /\ Limited = {"research_start", "reindex_start"}

ASSUME JobsAssumption ==
  /\ NoKind \notin Kinds \cup Limited
  /\ MaxPerDay \in Nat
  /\ Retries \in Nat
  /\ MaxTasks \in Nat /\ MaxDay \in Nat /\ MaxFaults \in Nat /\ MaxCrashes \in Nat

VARIABLES
  day,      \* today
  jobs,     \* research_jobs, keyed by huey_task_id
  kindOf,   \* the task each id was enqueued for
  queue,    \* huey's queue of task ids with the tries they have left
  delayed,  \* huey's schedule: retries waiting out retry_delay
  revoked,  \* ids given to revoke_by_id
  client,   \* the call each client is in
  worker,   \* the task the consumer is executing
  budget    \* faults and crashes left

vars == <<day, jobs, kindOf, queue, delayed, revoked, client, worker, budget>>

Tasks == 1..MaxTasks

NoRow == [kind |-> NoKind, status |-> "none", created |-> 0, draft |-> 0]

Call(pc, kind, task) == [pc |-> pc, kind |-> kind, task |-> task, created |-> 0]

IdleClient == Call("idle", NoKind, 0)
IdleWorker == [pc |-> "idle", task |-> 0, tries |-> 0]

Budgeted == {"faults", "crashes"}

Init ==
  /\ day = 0
  /\ jobs = [t \in Tasks |-> NoRow]
  /\ kindOf = [t \in Tasks |-> NoKind]
  /\ queue = <<>>
  /\ delayed = <<>>
  /\ revoked = {}
  /\ client = [c \in Clients |-> IdleClient]
  /\ worker = IdleWorker
  /\ budget = [k \in Budgeted |-> IF k = "faults" THEN MaxFaults ELSE MaxCrashes]

Spend(k) ==
  /\ budget[k] > 0
  /\ budget' = [budget EXCEPT ![k] = budget[k] - 1]

HasRow(t) == jobs[t].kind # NoKind

\* count_dispatched_today: the rows of this type created today, whatever their status.
DispatchedToday(kind) == {t \in Tasks : jobs[t].kind = kind /\ jobs[t].created = day}

AtCeiling(kind) == kind \in Limited /\ Cardinality(DispatchedToday(kind)) >= MaxPerDay

-----------------------------------------------------------------------------
(* Dispatching                                                               *)

\* check_daily_dispatch_limit passes (duplicates_scan has no ceiling to check).
CheckLimit(c, kind) ==
  /\ client[c].pc = "idle"
  /\ ~AtCeiling(kind)
  /\ client' = [client EXCEPT ![c] = Call("dispatch", kind, 0)]
  /\ UNCHANGED <<day, jobs, kindOf, queue, delayed, revoked, worker, budget>>

\* The task is enqueued under a new id; created_at is read from the clock.
Dispatch(c) ==
  /\ client[c].pc = "dispatch"
  /\ \E t \in Tasks :
       /\ kindOf[t] = NoKind
       /\ \A u \in Tasks : u < t => kindOf[u] # NoKind
       /\ kindOf' = [kindOf EXCEPT ![t] = client[c].kind]
       /\ queue' = Append(queue, [task |-> t, tries |-> Retries])
       /\ client' = [client EXCEPT ![c].pc = "reserve", ![c].task = t, ![c].created = day]
  /\ UNCHANGED <<day, jobs, delayed, revoked, worker, budget>>

NewRow(c) ==
  [kind |-> client[c].kind, status |-> "queued", created |-> client[c].created, draft |-> 0]

\* Mutant of Reserve: the INSERT without counting again under the write lock.
BugReserve(c) ==
  /\ client[c].pc = "reserve"
  /\ jobs' = [jobs EXCEPT ![client[c].task] = NewRow(c)]
  /\ client' = [client EXCEPT ![c] = IdleClient]
  /\ UNCHANGED <<day, kindOf, queue, delayed, revoked, worker, budget>>

\* reserve_dispatch_slot: count and INSERT in one BEGIN IMMEDIATE transaction.  At
\* the ceiling the call is refused, but the task stays enqueued.
Reserve(c) ==
  /\ client[c].pc = "reserve"
  /\ jobs' = IF AtCeiling(client[c].kind) THEN jobs
             ELSE [jobs EXCEPT ![client[c].task] = NewRow(c)]
  /\ client' = [client EXCEPT ![c] = IdleClient]
  /\ UNCHANGED <<day, kindOf, queue, delayed, revoked, worker, budget>>

\* The client dies in mid-call: a task without a row, or a revocation without a mark.
ClientDies(c) ==
  /\ client[c].pc # "idle"
  /\ Spend("crashes")
  /\ client' = [client EXCEPT ![c] = IdleClient]
  /\ UNCHANGED <<day, jobs, kindOf, queue, delayed, revoked, worker>>

NextDay ==
  /\ day < MaxDay
  /\ day' = day + 1
  /\ UNCHANGED <<jobs, kindOf, queue, delayed, revoked, client, worker, budget>>

-----------------------------------------------------------------------------
(* job_cancel                                                                *)

\* Mutant of Revoke and MarkCancelled: the row is marked before the task is revoked.
BugRevoke(c) ==
  /\ client[c].pc = "idle"
  /\ \E t \in Tasks :
       /\ HasRow(t)
       /\ jobs' = [jobs EXCEPT ![t].status = "cancelled"]
       /\ client' = [client EXCEPT ![c] = Call("mark", NoKind, t)]
  /\ UNCHANGED <<day, kindOf, queue, delayed, revoked, worker, budget>>

\* The job has a row, whatever its status: revoke_by_id.
Revoke(c) ==
  /\ client[c].pc = "idle"
  /\ \E t \in Tasks :
       /\ HasRow(t)
       /\ revoked' = revoked \cup {t}
       /\ client' = [client EXCEPT ![c] = Call("mark", NoKind, t)]
  /\ UNCHANGED <<day, jobs, kindOf, queue, delayed, worker, budget>>

\* mark_cancelled, whatever has become of the job since.
MarkCancelled(c) ==
  /\ client[c].pc = "mark"
  /\ jobs' = [jobs EXCEPT ![client[c].task].status = "cancelled"]
  /\ client' = [client EXCEPT ![c] = IdleClient]
  /\ UNCHANGED <<day, kindOf, queue, delayed, revoked, worker, budget>>

-----------------------------------------------------------------------------
(* The consumer                                                              *)

Execute(t) ==
  [pc |-> IF kindOf[t] = "research_start" THEN "find" ELSE "run", task |-> t,
   tries |-> Head(queue).tries]

\* A revoked task is dropped when it is dequeued.
TakeTask ==
  /\ worker.pc = "idle" /\ queue # <<>>
  /\ worker' = LET t == Head(queue).task
               IN IF t \in revoked THEN IdleWorker ELSE Execute(t)
  /\ queue' = Tail(queue)
  /\ UNCHANGED <<day, jobs, kindOf, delayed, revoked, client, budget>>

\* The task raises: the same id again after retry_delay, while tries are left.
\* Nothing tells the row when they are not.
Raise ==
  /\ delayed' = IF worker.tries > 0
                  THEN Append(delayed, [task |-> worker.task, tries |-> worker.tries - 1])
                  ELSE delayed
  /\ worker' = IdleWorker

\* retry_delay (10 s) outlasts the INSERT of a live dispatcher (busy_timeout 5 s).
InDispatch(t) == \E c \in Clients : client[c].pc = "reserve" /\ client[c].task = t

RetryDue ==
  /\ delayed # <<>>
  /\ ~InDispatch(Head(delayed).task)
  /\ queue' = Append(queue, Head(delayed))
  /\ delayed' = Tail(delayed)
  /\ UNCHANGED <<day, jobs, kindOf, revoked, client, worker, budget>>

\* Mutant of FindJob: a task without a row gives up instead of raising.
BugFindJob ==
  /\ worker.pc = "find"
  /\ worker' = IF HasRow(worker.task) THEN [worker EXCEPT !.pc = "record"] ELSE IdleWorker
  /\ UNCHANGED <<day, jobs, kindOf, queue, delayed, revoked, client, budget>>

\* research_task looks itself up by its own id and raises when it has no row yet.
\* With a row it goes on to run_research, which never raises.
FindJob ==
  /\ worker.pc = "find"
  /\ IF HasRow(worker.task)
       THEN worker' = [worker EXCEPT !.pc = "record"] /\ UNCHANGED delayed
       ELSE Raise
  /\ UNCHANGED <<day, jobs, kindOf, queue, revoked, client, budget>>

\* Mutant of RecordDraft: the job is marked succeeded before its draft is there.
BugRecordDraft ==
  /\ worker.pc = "record"
  /\ jobs' = [jobs EXCEPT ![worker.task].status = "succeeded"]
  /\ worker' = [worker EXCEPT !.pc = "finish"]
  /\ UNCHANGED <<day, kindOf, queue, delayed, revoked, client, budget>>

\* record_draft, a transaction of its own.
RecordDraft ==
  /\ worker.pc = "record"
  /\ jobs' = [jobs EXCEPT ![worker.task].draft = jobs[worker.task].draft + 1]
  /\ worker' = [worker EXCEPT !.pc = "finish"]
  /\ UNCHANGED <<day, kindOf, queue, delayed, revoked, client, budget>>

Succeeded == [jobs EXCEPT ![worker.task].status = "succeeded"]

\* mark_finished(status="succeeded"), whatever the status was.
MarkFinished ==
  /\ worker.pc = "finish"
  /\ jobs' = Succeeded
  /\ worker' = IdleWorker
  /\ UNCHANGED <<day, kindOf, queue, delayed, revoked, client, budget>>

\* reindex_task and duplicates_scan_task do not touch the row.
RunTask ==
  /\ worker.pc = "run"
  /\ worker' = IdleWorker
  /\ UNCHANGED <<day, jobs, kindOf, queue, delayed, revoked, client, budget>>

\* Mutant of TaskFails: the task raises after its row was written, not before.
BugTaskFails ==
  /\ worker.pc \in {"record", "finish", "run"}
  /\ Spend("faults")
  /\ jobs' = IF worker.pc = "finish" THEN Succeeded ELSE jobs
  /\ Raise
  /\ UNCHANGED <<day, kindOf, queue, revoked, client>>

\* The database is busy, Qdrant is unreachable.
TaskFails ==
  /\ worker.pc \in {"record", "finish", "run"}
  /\ Spend("faults")
  /\ Raise
  /\ UNCHANGED <<day, jobs, kindOf, queue, revoked, client>>

\* The consumer dies and is started again: the task it was executing is lost.
WorkerCrash ==
  /\ worker.pc # "idle"
  /\ Spend("crashes")
  /\ worker' = IdleWorker
  /\ UNCHANGED <<day, jobs, kindOf, queue, delayed, revoked, client>>

-----------------------------------------------------------------------------

DispatchStep(c) == Dispatch(c) \/ Reserve(c)
CancelStep(c) == Revoke(c) \/ MarkCancelled(c)
WorkerStep == TakeTask \/ FindJob \/ RecordDraft \/ MarkFinished \/ RunTask

Next ==
  \/ \E c \in Clients, kind \in Kinds : CheckLimit(c, kind)
  \/ \E c \in Clients : DispatchStep(c) \/ CancelStep(c) \/ ClientDies(c)
  \/ NextDay
  \/ WorkerStep
  \/ RetryDue
  \/ TaskFails
  \/ WorkerCrash

Spec == Init /\ [][Next]_vars

\* A call under way ends, the consumer works, huey's scheduler ticks.  Nobody has
\* to dispatch or to cancel.
FairSpec ==
  /\ Spec
  /\ \A c \in Clients : WF_vars(Reserve(c)) /\ WF_vars(MarkCancelled(c))
  /\ WF_vars(WorkerStep)
  /\ WF_vars(RetryDue)

-----------------------------------------------------------------------------
(* Properties *)

Row == [kind : Kinds \cup {NoKind}, status : {"none", "queued", "succeeded", "cancelled"},
        created : Nat, draft : Nat]

Message == [task : Tasks, tries : 0..Retries]

ClientType == [pc : {"idle", "dispatch", "reserve", "mark"}, kind : Kinds \cup {NoKind},
               task : 0..MaxTasks, created : Nat]

WorkerType ==
  [pc : {"idle", "find", "record", "finish", "run"}, task : 0..MaxTasks, tries : 0..Retries]

\* The type invariant of the two databases, the clients and the worker.
TypeOK ==
  /\ day \in Nat
  /\ jobs \in [Tasks -> Row]
  /\ kindOf \in [Tasks -> Kinds \cup {NoKind}]
  /\ queue \in Seq(Message) /\ delayed \in Seq(Message)
  /\ revoked \in SUBSET Tasks
  /\ client \in [Clients -> ClientType]
  /\ worker \in WorkerType
  /\ budget \in [Budgeted -> Nat]

\* What a client or the worker is about to use has been set.
Prepared(c) ==
  /\ client[c].pc \in {"dispatch", "reserve"} => client[c].kind \in Kinds
  /\ client[c].pc \in {"reserve", "mark"} => client[c].task \in Tasks
  /\ client[c].pc = "reserve" =>
       kindOf[client[c].task] = client[c].kind /\ ~HasRow(client[c].task)
  /\ client[c].pc = "mark" => client[c].task \in revoked /\ HasRow(client[c].task)

ClientData == \A c \in Clients : Prepared(c)

\* No two calls insert the row of one task.
OneDispatcher ==
  \A c, d \in Clients :
    client[c].pc = "reserve" /\ client[d].pc = "reserve" /\ client[c].task = client[d].task
      => c = d

WorkerData ==
  /\ worker.pc # "idle" => worker.task \in Tasks
  /\ worker.pc = "finish" => jobs[worker.task].draft > 0
  /\ worker.pc \in {"record", "finish"} => HasRow(worker.task)

\* A row is of the job its task was enqueued for, and created no later than today.
RowsMatch ==
  \A t \in Tasks :
    /\ HasRow(t) => jobs[t].kind = kindOf[t] /\ jobs[t].created <= day
    /\ ~HasRow(t) => jobs[t] = NoRow

CreatedByNow == \A c \in Clients : client[c].created <= day

TaskIds(q) == {q[i].task : i \in 1..Len(q)}

NoTwice(q) == \A i, j \in 1..Len(q) : q[i].task = q[j].task => i = j

Running == IF worker.pc = "idle" THEN {} ELSE {worker.task}

Completed(t) == HasRow(t) /\ jobs[t].status = "succeeded"

\* A task waits, is scheduled or runs in at most one place, and never again once its
\* job has succeeded.
OneCopy ==
  /\ NoTwice(queue) /\ NoTwice(delayed)
  /\ TaskIds(queue) \cap TaskIds(delayed) = {}
  /\ Running \cap (TaskIds(queue) \cup TaskIds(delayed)) = {}
  /\ \A t \in TaskIds(queue) \cup TaskIds(delayed) \cup Running :
       kindOf[t] # NoKind /\ ~Completed(t)

\* The ceiling: however many clients dispatch at once, no more than MaxPerDay jobs of
\* a limited type created today are on record.
DispatchCeiling ==
  \A kind \in Limited : Cardinality(DispatchedToday(kind)) <= MaxPerDay

\* A job reported as completed has a draft for research_commit to read, although the
\* two are written in separate transactions with crashes and retries in between.
CompletedHasDraft ==
  \A t \in Tasks : jobs[t].status = "succeeded" => jobs[t].draft > 0

\* A row says cancelled only once huey has the revocation, so no consumer that starts
\* the task later can miss it.
CancelledIsRevoked ==
  \A t \in Tasks : jobs[t].status = "cancelled" => t \in revoked

\* The inductive invariant of the job tables: the three above, with what each client
\* and the worker know, and one copy of each task.
JobsInv ==
  /\ TypeOK /\ ClientData /\ OneDispatcher /\ WorkerData /\ RowsMatch /\ CreatedByNow
  /\ OneCopy
  /\ DispatchCeiling /\ CompletedHasDraft /\ CancelledIsRevoked

\* job_cancel's promise: a job whose row says cancelled while no run of it is under
\* way never starts again, from the queue or from a scheduled retry.
CancelledNeverStarts ==
  [][\A t \in Tasks :
       jobs[t].status = "cancelled" /\ worker.task # t => worker'.task # t]_vars

\* The draft of a job that has succeeded stays what the client was told is complete:
\* no retry records another one under a research_commit.
SucceededDraftIsFinal ==
  [][\A t \in Tasks : jobs[t].status = "succeeded" => jobs'[t].draft = jobs[t].draft]_vars

\* A research job on record succeeds or is cancelled, even if the worker took its task
\* before the row was there and a step failed, unless a process crashed.
ResearchCompletes ==
  \A t \in Tasks :
    jobs[t].kind = "research_start" ~>
      \/ jobs[t].status \in {"succeeded", "cancelled"}
      \/ budget.crashes < MaxCrashes
=============================================================================
