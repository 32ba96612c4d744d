----------------------------- MODULE JobsProofs -----------------------------
(***************************************************************************)
(* The job tables for any number of clients and tasks, any ceiling, and    *)
(* any number of retries, failures and crashes.                            *)
(***************************************************************************)
EXTENDS Jobs, TLAPS, SequenceTheorems, FiniteSetTheorems

USE JobsAssumption DEF JobsAssumption

-----------------------------------------------------------------------------
(* Queues of messages                                                        *)

LEMMA TailTasks ==
  ASSUME NEW q \in Seq(Message), q # <<>>
  PROVE  /\ Tail(q) \in Seq(Message) /\ Head(q) \in Message
         /\ TaskIds(q) = TaskIds(Tail(q)) \cup {Head(q).task}
         /\ NoTwice(q) => NoTwice(Tail(q)) /\ Head(q).task \notin TaskIds(Tail(q))
  <1>1. /\ Tail(q) \in Seq(Message) /\ Head(q) \in Message
        /\ Len(q) \in Nat \ {0} /\ Len(Tail(q)) = Len(q) - 1 /\ Head(q) = q[1]
        /\ \A i \in 1..Len(q) - 1 : Tail(q)[i] = q[i + 1]
    BY HeadTailProperties, EmptySeq, LenProperties
  <1>2. \A x : x \in TaskIds(Tail(q)) <=> \E i \in 1..Len(q) - 1 : x = q[i + 1].task
    BY <1>1 DEF TaskIds
  <1>3. ASSUME NEW x \in TaskIds(q), x # Head(q).task PROVE x \in TaskIds(Tail(q))
    <2>1. PICK i \in 1..Len(q) : x = q[i].task
      BY DEF TaskIds
    <2>2. i - 1 \in 1..Len(q) - 1 /\ (i - 1) + 1 = i
      BY <1>1, <1>3, <2>1
    <2> QED
      BY <1>2, <2>1, <2>2
  <1>4. TaskIds(q) = TaskIds(Tail(q)) \cup {Head(q).task}
    <2>1. Head(q).task \in TaskIds(q)
      BY <1>1 DEF TaskIds
    <2>2. ASSUME NEW x \in TaskIds(Tail(q)) PROVE x \in TaskIds(q)
      <3>1. PICK i \in 1..Len(q) - 1 : x = q[i + 1].task
        BY <1>2
      <3>2. i + 1 \in 1..Len(q)
        BY <1>1
      <3> QED
        BY <3>1, <3>2 DEF TaskIds
    <2> QED
      BY <1>3, <2>1, <2>2
  <1>5. ASSUME NoTwice(q) PROVE NoTwice(Tail(q))
    <2> SUFFICES ASSUME NEW i \in 1..Len(q) - 1, NEW j \in 1..Len(q) - 1,
                        q[i + 1].task = q[j + 1].task
                 PROVE  i = j
      BY <1>1 DEF NoTwice
    <2>1. i + 1 \in 1..Len(q) /\ j + 1 \in 1..Len(q)
      BY <1>1
    <2>2. i + 1 = j + 1
      BY <1>5, <2>1 DEF NoTwice
    <2> QED
      BY <2>2
  <1>6. ASSUME NoTwice(q) PROVE Head(q).task \notin TaskIds(Tail(q))
    <2> SUFFICES ASSUME NEW i \in 1..Len(q) - 1, q[i + 1].task = q[1].task PROVE FALSE
      BY <1>1, <1>2
    <2>1. i + 1 \in 1..Len(q) /\ 1 \in 1..Len(q) /\ i + 1 # 1
      BY <1>1
    <2> QED
      BY <1>6, <2>1 DEF NoTwice
  <1> QED
    BY <1>1, <1>4, <1>5, <1>6

LEMMA AppendTasks ==
  ASSUME NEW q \in Seq(Message), NEW m \in Message
  PROVE  /\ Append(q, m) \in Seq(Message)
         /\ TaskIds(Append(q, m)) = TaskIds(q) \cup {m.task}
         /\ NoTwice(q) /\ m.task \notin TaskIds(q) => NoTwice(Append(q, m))
  <1>1. /\ Append(q, m) \in Seq(Message)
        /\ Len(q) \in Nat /\ Len(Append(q, m)) = Len(q) + 1
        /\ Append(q, m)[Len(q) + 1] = m
        /\ \A i \in 1..Len(q) : Append(q, m)[i] = q[i]
    BY AppendProperties, LenProperties
  <1>2. 1..Len(q) + 1 = 1..Len(q) \cup {Len(q) + 1}
    BY <1>1
  <1>3. TaskIds(Append(q, m)) = TaskIds(q) \cup {m.task}
    BY <1>1, <1>2 DEF TaskIds
  <1>4. ASSUME NoTwice(q), m.task \notin TaskIds(q) PROVE NoTwice(Append(q, m))
    <2>1. \A i \in 1..Len(q) : q[i].task # m.task
      BY <1>4 DEF TaskIds
    <2> QED
      BY <1>1, <1>2, <1>4, <2>1 DEF NoTwice
  <1> QED
    BY <1>1, <1>3, <1>4

-----------------------------------------------------------------------------
(* Types                                                                     *)

LEMMA TasksFinite == IsFiniteSet(Tasks) /\ Tasks \subseteq 0..MaxTasks /\ 0 \notin Tasks
  BY FS_Interval DEF Tasks

LEMMA SpendType == ASSUME TypeOK, NEW k \in Budgeted, Spend(k) PROVE budget' \in [Budgeted -> Nat]
  <1>1. budget \in [Budgeted -> Nat] /\ budget[k] > 0
    BY DEF Spend, TypeOK
  <1>2. budget[k] - 1 \in Nat
    BY <1>1
  <1> QED
    BY <1>1, <1>2 DEF Spend

LEMMA IdleTypes == IdleClient \in ClientType /\ IdleWorker \in WorkerType
  BY DEF IdleClient, Call, ClientType, IdleWorker, WorkerType

LEMMA CallTypes ==
  /\ \A k \in Kinds : Call("dispatch", k, 0) \in ClientType
  /\ \A t \in Tasks : Call("mark", NoKind, t) \in ClientType
  BY TasksFinite DEF Call, ClientType

LEMMA RaiseTypes ==
  ASSUME TypeOK, worker.task \in Tasks, Raise
  PROVE  delayed' \in Seq(Message) /\ worker' \in WorkerType
  <1> DEFINE m == [task |-> worker.task, tries |-> worker.tries - 1]
  <1>1. worker' \in WorkerType
    BY IdleTypes DEF Raise
  <1>2. CASE worker.tries > 0
    <2>1. worker.tries - 1 \in 0..Retries
      BY <1>2 DEF TypeOK, WorkerType
    <2>2. m \in Message
      BY <2>1 DEF Message
    <2>3. delayed' = Append(delayed, m)
      BY <1>2 DEF Raise
    <2> HIDE DEF m
    <2> QED
      BY <1>1, <2>2, <2>3, AppendTasks DEF TypeOK
  <1>3. CASE ~(worker.tries > 0)
    BY <1>1, <1>3 DEF Raise, TypeOK
  <1> QED
    BY <1>2, <1>3

LEMMA TypeStep == ASSUME JobsInv, [Next]_vars PROVE TypeOK'
  <1> USE DEF JobsInv
  <1>1. CASE UNCHANGED vars
    BY <1>1 DEF vars, TypeOK
  <1>2. CASE NextDay
    BY <1>2 DEF NextDay, TypeOK
  <1>3. ASSUME NEW c \in Clients, NEW kind \in Kinds, CheckLimit(c, kind) PROVE TypeOK'
    <2>1. PICK call \in ClientType : client' = [client EXCEPT ![c] = call]
      BY <1>3, CallTypes DEF CheckLimit
    <2> QED
      BY <1>3, <2>1 DEF CheckLimit, TypeOK
  <1>4. ASSUME NEW c \in Clients, Dispatch(c) PROVE TypeOK'
    <2>1. PICK t \in Tasks : /\ kindOf' = [kindOf EXCEPT ![t] = client[c].kind]
                             /\ queue' = Append(queue, [task |-> t, tries |-> Retries])
                             /\ client' = [client EXCEPT ![c].pc = "reserve", ![c].task = t,
                                                         ![c].created = day]
      BY <1>4 DEF Dispatch
    <2>2. [task |-> t, tries |-> Retries] \in Message
      BY DEF Message
    <2>3. queue' \in Seq(Message)
      BY <2>1, <2>2, AppendTasks DEF TypeOK
    <2>4. client' \in [Clients -> ClientType] /\ kindOf' \in [Tasks -> Kinds \cup {NoKind}]
      <3>1. client \in [Clients -> ClientType] /\ client[c] \in ClientType
            /\ day \in Nat /\ t \in 0..MaxTasks /\ kindOf \in [Tasks -> Kinds \cup {NoKind}]
        BY TasksFinite DEF TypeOK
      <3>2. client' \in [Clients -> ClientType]
        BY <2>1, <3>1 DEF ClientType
      <3>3. client[c].kind \in Kinds \cup {NoKind}
        BY <3>1 DEF ClientType
      <3> QED
        BY <2>1, <3>1, <3>2, <3>3
    <2> QED
      BY <1>4, <2>3, <2>4 DEF Dispatch, TypeOK
  <1>5. ASSUME NEW c \in Clients, Reserve(c) PROVE TypeOK'
    <2>1. NewRow(c) \in Row
      BY <1>5 DEF Reserve, NewRow, Row, TypeOK, ClientType
    <2> QED
      BY <1>5, <2>1, IdleTypes DEF Reserve, TypeOK
  <1>6. ASSUME NEW c \in Clients, Revoke(c) PROVE TypeOK'
    <2>1. PICK t \in Tasks :
            /\ revoked' = revoked \cup {t}
            /\ client' = [client EXCEPT ![c] = Call("mark", NoKind, t)]
      BY <1>6 DEF Revoke
    <2>2. Call("mark", NoKind, t) \in ClientType
      BY CallTypes
    <2>3. client' \in [Clients -> ClientType] /\ revoked' \in SUBSET Tasks
      BY <2>1, <2>2 DEF TypeOK
    <2> QED
      BY <1>6, <2>3 DEF Revoke, TypeOK
  <1>7. ASSUME NEW c \in Clients, MarkCancelled(c) PROVE TypeOK'
    <2>1. jobs' \in [Tasks -> Row]
      BY <1>7 DEF MarkCancelled, TypeOK, Row
    <2> QED
      BY <1>7, <2>1, IdleTypes DEF MarkCancelled, TypeOK
  <1>8. ASSUME NEW c \in Clients, ClientDies(c) PROVE TypeOK'
    <2>1. budget' \in [Budgeted -> Nat]
      BY <1>8, SpendType DEF ClientDies, Budgeted
    <2> QED
      BY <1>8, <2>1, IdleTypes DEF ClientDies, TypeOK
  <1>9. CASE TakeTask
    <2>1. /\ Tail(queue) \in Seq(Message) /\ Head(queue) \in Message
          /\ queue' = Tail(queue)
          /\ worker' = IdleWorker \/ worker' = Execute(Head(queue).task)
      BY <1>9, TailTasks DEF TakeTask, TypeOK
    <2>2. Head(queue).task \in Tasks /\ Head(queue).tries \in 0..Retries
      BY <2>1 DEF Message
    <2>3. Execute(Head(queue).task) \in WorkerType
      BY <2>2, TasksFinite DEF Execute, WorkerType
    <2> QED
      BY <1>9, <2>1, <2>3, IdleTypes DEF TakeTask, TypeOK
  <1>10. CASE RetryDue
    <2>1. /\ Tail(delayed) \in Seq(Message) /\ Head(delayed) \in Message
          /\ queue' = Append(queue, Head(delayed)) /\ delayed' = Tail(delayed)
      BY <1>10, TailTasks DEF RetryDue, TypeOK
    <2>2. queue' \in Seq(Message)
      BY <2>1, AppendTasks DEF TypeOK
    <2> QED
      BY <1>10, <2>1, <2>2 DEF RetryDue, TypeOK
  <1>11. CASE FindJob
    <2>1. worker.task \in Tasks
      BY <1>11 DEF FindJob, WorkerData
    <2>2. CASE HasRow(worker.task)
      BY <1>11, <2>2 DEF FindJob, TypeOK, WorkerType
    <2>3. CASE ~HasRow(worker.task)
      BY <1>11, <2>1, <2>3, RaiseTypes DEF FindJob, TypeOK
    <2> QED
      BY <2>2, <2>3
  <1>12. CASE TaskFails
    <2>1. worker.task \in Tasks
      BY <1>12 DEF TaskFails, WorkerData
    <2>2. budget' \in [Budgeted -> Nat]
      BY <1>12, SpendType DEF TaskFails, Budgeted
    <2> QED
      BY <1>12, <2>1, <2>2, RaiseTypes DEF TaskFails, TypeOK
  <1>13. CASE RecordDraft
    <2>1. jobs' \in [Tasks -> Row]
      <3>1. worker.task \in Tasks
        BY <1>13 DEF RecordDraft, WorkerData
      <3>2. jobs \in [Tasks -> Row] /\ jobs[worker.task].draft + 1 \in Nat
        BY <3>1 DEF TypeOK, Row
      <3> QED
        BY <1>13, <3>2 DEF RecordDraft, Row
    <2> QED
      BY <1>13, <2>1 DEF RecordDraft, TypeOK, WorkerType
  <1>14. CASE MarkFinished
    <2>1. jobs' \in [Tasks -> Row]
      BY <1>14 DEF MarkFinished, Succeeded, TypeOK, Row
    <2>2. worker.task \in Tasks
      BY <1>14 DEF MarkFinished, WorkerData
    <2> QED
      BY <1>14, <2>1, <2>2, IdleTypes DEF MarkFinished, TypeOK
  <1>15. CASE RunTask
    BY <1>15, IdleTypes DEF RunTask, TypeOK, WorkerData
  <1>16. CASE WorkerCrash
    <2>1. budget' \in [Budgeted -> Nat]
      BY <1>16, SpendType DEF WorkerCrash, Budgeted
    <2> QED
      BY <1>16, <2>1, IdleTypes DEF WorkerCrash, TypeOK
  <1> QED
    BY <1>1, <1>2, <1>3, <1>4, <1>5, <1>6, <1>7, <1>8, <1>9, <1>10, <1>11, <1>12, <1>13,
       <1>14, <1>15, <1>16 DEF Next, DispatchStep, CancelStep, WorkerStep

-----------------------------------------------------------------------------
(* The daily ceiling                                                         *)

LEMMA TodayFinite == ASSUME NEW kind PROVE IsFiniteSet(DispatchedToday(kind))
  <1>1. DispatchedToday(kind) \subseteq Tasks
    BY DEF DispatchedToday
  <1> QED
    BY <1>1, TasksFinite, FS_Subset

\* A step that adds nothing to the rows created today keeps the ceiling.
LEMMA CeilingKept ==
  ASSUME DispatchCeiling, NEW kind \in Limited,
         DispatchedToday(kind)' \subseteq DispatchedToday(kind)
  PROVE  Cardinality(DispatchedToday(kind)') <= MaxPerDay
  <1>1. IsFiniteSet(DispatchedToday(kind))
    BY TodayFinite
  <1>2. /\ Cardinality(DispatchedToday(kind)') <= Cardinality(DispatchedToday(kind))
        /\ Cardinality(DispatchedToday(kind)') \in Nat
        /\ Cardinality(DispatchedToday(kind)) \in Nat
    BY <1>1, FS_Subset, FS_CardinalityType
  <1> QED
    BY <1>2 DEF DispatchCeiling

LEMMA CeilingStep == ASSUME JobsInv, [Next]_vars PROVE DispatchCeiling'
  <1> USE DEF JobsInv
  <1> SUFFICES ASSUME NEW kind \in Limited
               PROVE  Cardinality(DispatchedToday(kind)') <= MaxPerDay
    BY DEF DispatchCeiling
  <1>1. CASE UNCHANGED <<jobs, day>>
    BY <1>1, CeilingKept DEF DispatchedToday
  <1>2. CASE NextDay
    <2>1. ASSUME NEW t \in DispatchedToday(kind)' PROVE FALSE
      <3>1. t \in Tasks /\ jobs[t].kind = kind /\ jobs[t].created = day + 1
        BY <1>2 DEF NextDay, DispatchedToday
      <3>2. jobs[t].created <= day /\ jobs[t].created \in Nat /\ day \in Nat
        BY <3>1 DEF RowsMatch, HasRow, TypeOK, Row
      <3> QED
        BY <3>1, <3>2
    <2>2. DispatchedToday(kind)' \subseteq DispatchedToday(kind)
      BY <2>1
    <2> QED
      BY <2>2, CeilingKept
  <1>3. CASE \E t \in Tasks, st \in {"cancelled", "succeeded"} :
               jobs' = [jobs EXCEPT ![t].status = st] /\ day' = day
    <2>1. DispatchedToday(kind)' = DispatchedToday(kind)
      BY <1>3 DEF DispatchedToday, TypeOK
    <2> QED
      BY <2>1, CeilingKept
  <1>4. CASE RecordDraft
    <2>1. DispatchedToday(kind)' = DispatchedToday(kind)
      BY <1>4 DEF RecordDraft, DispatchedToday, TypeOK
    <2> QED
      BY <2>1, CeilingKept
  <1>5. ASSUME NEW c \in Clients, Reserve(c)
        PROVE  Cardinality(DispatchedToday(kind)') <= MaxPerDay
    <2> DEFINE t == client[c].task
               today == DispatchedToday(kind)
    <2>1. CASE AtCeiling(client[c].kind) \/ client[c].kind # kind
      <3>1. DispatchedToday(kind)' \subseteq today
        BY <1>5, <2>1 DEF Reserve, DispatchedToday, NewRow, TypeOK
      <3> QED
        BY <3>1, CeilingKept
    <2>2. CASE ~AtCeiling(kind) /\ client[c].kind = kind
      <3>1. DispatchedToday(kind)' \subseteq today \cup {t}
        BY <1>5 DEF Reserve, DispatchedToday, TypeOK
      <3>2. ~(Cardinality(today) >= MaxPerDay)
        BY <2>2 DEF AtCeiling
      <3> HIDE DEF today, t
      <3>3. IsFiniteSet(today)
        BY TodayFinite DEF today
      <3>4. /\ IsFiniteSet(today \cup {t})
            /\ \/ Cardinality(today \cup {t}) = Cardinality(today)
               \/ Cardinality(today \cup {t}) = Cardinality(today) + 1
        BY <3>3, FS_AddElement
      <3>5. /\ Cardinality(DispatchedToday(kind)') <= Cardinality(today \cup {t})
            /\ Cardinality(DispatchedToday(kind)') \in Nat
            /\ Cardinality(today \cup {t}) \in Nat /\ Cardinality(today) \in Nat
        BY <3>1, <3>3, <3>4, FS_Subset, FS_CardinalityType
      <3> QED
        BY <3>2, <3>4, <3>5
    <2> QED
      BY <2>1, <2>2
  <1>6. ASSUME NEW c \in Clients, CancelStep(c) \/ ClientDies(c) \/ Dispatch(c)
        PROVE  Cardinality(DispatchedToday(kind)') <= MaxPerDay
    <2>1. CASE MarkCancelled(c)
      BY <1>3, <2>1 DEF MarkCancelled, ClientData, Prepared
    <2> QED
      BY <1>1, <1>6, <2>1 DEF CancelStep, Revoke, ClientDies, Dispatch
  <1>7. CASE MarkFinished
    BY <1>3, <1>7 DEF MarkFinished, Succeeded, WorkerData
  <1> QED
    BY <1>1, <1>2, <1>4, <1>5, <1>6, <1>7
       DEF Next, vars, CheckLimit, DispatchStep, WorkerStep, TakeTask, FindJob, RunTask,
           RetryDue, TaskFails, WorkerCrash

-----------------------------------------------------------------------------
(* The clients and the rows                                                  *)

\* Days, revocations and the kinds of enqueued tasks only accumulate.
LEMMA Forward ==
  ASSUME JobsInv, [Next]_vars
  PROVE  /\ day \in Nat /\ day' \in Nat /\ day <= day'
         /\ revoked \subseteq revoked'
         /\ \A t \in Tasks : kindOf[t] # NoKind => kindOf'[t] = kindOf[t]
  <1>1. day \in Nat /\ day' \in Nat
    BY TypeStep DEF JobsInv, TypeOK
  <1>2. day' = day \/ day' = day + 1
    BY DEF Next, vars, CheckLimit, DispatchStep, CancelStep, WorkerStep, Dispatch, Reserve,
           Revoke, MarkCancelled, ClientDies, NextDay, TakeTask, FindJob, RecordDraft,
           MarkFinished, RunTask, RetryDue, TaskFails, WorkerCrash
  <1>3. revoked \subseteq revoked'
    BY DEF Next, vars, CheckLimit, DispatchStep, CancelStep, WorkerStep, Dispatch, Reserve, Revoke,
           MarkCancelled, ClientDies, NextDay, TakeTask, FindJob, RecordDraft, MarkFinished,
           RunTask, RetryDue, TaskFails, WorkerCrash
  <1>4. \A t \in Tasks : kindOf[t] # NoKind => kindOf'[t] = kindOf[t]
    <2>1. ASSUME NEW c \in Clients, Dispatch(c)
          PROVE  \A t \in Tasks : kindOf[t] # NoKind => kindOf'[t] = kindOf[t]
      BY <2>1 DEF Dispatch, JobsInv, TypeOK
    <2>2. (\A c \in Clients : ~Dispatch(c)) => kindOf' = kindOf
      BY DEF Next, vars, CheckLimit, DispatchStep, CancelStep, WorkerStep, Reserve,
             Revoke, MarkCancelled, ClientDies, NextDay, TakeTask, FindJob, RecordDraft,
             MarkFinished, RunTask, RetryDue, TaskFails, WorkerCrash
    <2> QED
      BY <2>1, <2>2
  <1> QED
    BY <1>1, <1>2, <1>3, <1>4

\* What a step may do to one row: insert it for its own client, or set its status or
\* its draft.
LEMMA RowChange ==
  ASSUME JobsInv, [Next]_vars
  PROVE  \/ UNCHANGED jobs
         \/ \E c \in Clients : /\ Reserve(c) /\ ~HasRow(client[c].task)
                               /\ client[c].task \in Tasks
                               /\ jobs' = [jobs EXCEPT ![client[c].task] = NewRow(c)]
         \/ \E c \in Clients : /\ MarkCancelled(c) /\ client[c].task \in revoked \cap Tasks
                               /\ HasRow(client[c].task)
                               /\ jobs' = [jobs EXCEPT ![client[c].task].status = "cancelled"]
         \/ /\ RecordDraft /\ worker.task \in Tasks /\ HasRow(worker.task)
            /\ jobs' = [jobs EXCEPT ![worker.task].draft = jobs[worker.task].draft + 1]
         \/ /\ MarkFinished /\ worker.task \in Tasks /\ HasRow(worker.task)
            /\ jobs' = [jobs EXCEPT ![worker.task].status = "succeeded"]
  <1> USE DEF JobsInv
  <1>1. ASSUME NEW c \in Clients, Reserve(c)
        PROVE  \/ UNCHANGED jobs
               \/ /\ ~HasRow(client[c].task) /\ client[c].task \in Tasks
                  /\ jobs' = [jobs EXCEPT ![client[c].task] = NewRow(c)]
    BY <1>1 DEF Reserve, ClientData, Prepared
  <1>2. ASSUME NEW c \in Clients, MarkCancelled(c)
        PROVE  /\ client[c].task \in revoked \cap Tasks /\ HasRow(client[c].task)
               /\ jobs' = [jobs EXCEPT ![client[c].task].status = "cancelled"]
    BY <1>2 DEF MarkCancelled, ClientData, Prepared
  <1>3. RecordDraft \/ MarkFinished => worker.task \in Tasks /\ HasRow(worker.task)
    BY DEF RecordDraft, MarkFinished, WorkerData
  <1> QED
    BY <1>1, <1>2, <1>3
       DEF Next, vars, CheckLimit, DispatchStep, CancelStep, WorkerStep, Dispatch, Revoke,
           ClientDies, NextDay, TakeTask, FindJob, RecordDraft, MarkFinished, Succeeded, RunTask,
           RetryDue, TaskFails, WorkerCrash

\* Rows never disappear, and only record_draft changes a draft.
LEMMA RowsStay ==
  ASSUME JobsInv, [Next]_vars, NEW t \in Tasks, HasRow(t)
  PROVE  /\ HasRow(t)' /\ jobs'[t].kind = jobs[t].kind /\ jobs'[t].created = jobs[t].created
         /\ jobs'[t].draft = jobs[t].draft \/ (RecordDraft /\ t = worker.task)
  <1>1. jobs \in [Tasks -> Row] /\ jobs[t].kind # NoKind
    BY DEF JobsInv, TypeOK, HasRow
  <1>2. /\ jobs'[t].kind = jobs[t].kind /\ jobs'[t].created = jobs[t].created
        /\ jobs'[t].draft = jobs[t].draft \/ (RecordDraft /\ t = worker.task)
    <2>1. ASSUME NEW c \in Clients, ~HasRow(client[c].task),
                 jobs' = [jobs EXCEPT ![client[c].task] = NewRow(c)]
          PROVE  jobs'[t] = jobs[t]
      BY <1>1, <2>1 DEF HasRow
    <2>2. ASSUME NEW u \in Tasks, NEW st, jobs' = [jobs EXCEPT ![u].status = st]
          PROVE  /\ jobs'[t].kind = jobs[t].kind /\ jobs'[t].created = jobs[t].created
                 /\ jobs'[t].draft = jobs[t].draft
      BY <1>1, <2>2 DEF Row
    <2>3. ASSUME NEW u \in Tasks, NEW n, jobs' = [jobs EXCEPT ![u].draft = n]
          PROVE  /\ jobs'[t].kind = jobs[t].kind /\ jobs'[t].created = jobs[t].created
                 /\ t # u => jobs'[t].draft = jobs[t].draft
      BY <1>1, <2>3 DEF Row
    <2> QED
      BY <2>1, <2>2, <2>3, RowChange
  <1> QED
    BY <1>1, <1>2 DEF HasRow

LEMMA RowsStep ==
  ASSUME JobsInv, [Next]_vars
  PROVE  CompletedHasDraft' /\ CancelledIsRevoked'
  <1> USE DEF JobsInv
  <1>1. revoked \subseteq revoked'
    BY Forward
  <1>2. CASE UNCHANGED jobs
    BY <1>1, <1>2 DEF CompletedHasDraft, CancelledIsRevoked
  <1>3. ASSUME NEW c \in Clients, client[c].task \in Tasks,
               jobs' = [jobs EXCEPT ![client[c].task] = NewRow(c)]
        PROVE  CompletedHasDraft' /\ CancelledIsRevoked'
    <2>1. NewRow(c).status = "queued"
      BY DEF NewRow
    <2> QED
      BY <1>1, <1>3, <2>1 DEF CompletedHasDraft, CancelledIsRevoked, TypeOK
  <1>4. ASSUME NEW c \in Clients, client[c].task \in revoked \cap Tasks,
               jobs' = [jobs EXCEPT ![client[c].task].status = "cancelled"]
        PROVE  CompletedHasDraft' /\ CancelledIsRevoked'
    BY <1>1, <1>4 DEF CompletedHasDraft, CancelledIsRevoked, TypeOK, Row
  <1>5. ASSUME worker.task \in Tasks,
               jobs' = [jobs EXCEPT ![worker.task].draft = jobs[worker.task].draft + 1]
        PROVE  CompletedHasDraft' /\ CancelledIsRevoked'
    BY <1>1, <1>5 DEF CompletedHasDraft, CancelledIsRevoked, TypeOK, Row
  <1>6. ASSUME MarkFinished, worker.task \in Tasks,
               jobs' = [jobs EXCEPT ![worker.task].status = "succeeded"]
        PROVE  CompletedHasDraft' /\ CancelledIsRevoked'
    <2>1. jobs[worker.task].draft > 0
      BY <1>6 DEF MarkFinished, WorkerData
    <2> QED
      BY <1>1, <1>6, <2>1 DEF CompletedHasDraft, CancelledIsRevoked, TypeOK, Row
  <1> QED
    BY RowChange, <1>2, <1>3, <1>4, <1>5, <1>6

LEMMA WorkerStepKeeps == ASSUME JobsInv, [Next]_vars PROVE WorkerData'
  <1> USE DEF JobsInv, WorkerData
  <1>1. CASE worker' = worker
    <2>1. ASSUME worker.pc = "finish" PROVE jobs'[worker.task].draft > 0
      <3>1. worker.task \in Tasks /\ HasRow(worker.task) /\ jobs[worker.task].draft > 0
        BY <2>1
      <3>2. ~RecordDraft /\ ~MarkFinished
        <4>1. worker'.pc # "idle"
          BY <1>1, <2>1
        <4> QED
          BY <2>1, <4>1 DEF RecordDraft, MarkFinished, IdleWorker
      <3> QED
        BY <3>1, <3>2, RowsStay
    <2> QED
      BY <1>1, <2>1, RowsStay
  <1>2. CASE worker' = IdleWorker
    BY <1>2 DEF IdleWorker
  <1>3. CASE TakeTask /\ worker' = Execute(Head(queue).task)
    <2>1. Head(queue).task \in Tasks
      BY <1>3, TailTasks DEF TakeTask, TypeOK, Message
    <2> QED
      BY <1>3, <2>1 DEF Execute
  <1>4. CASE FindJob /\ HasRow(worker.task)
    <2>1. worker'.pc = "record" /\ worker'.task = worker.task /\ worker.task \in Tasks
      BY <1>4 DEF FindJob, TypeOK, WorkerType
    <2> QED
      BY <1>4, <2>1, RowsStay
  <1>5. CASE RecordDraft
    <2>1. /\ worker'.pc = "finish" /\ worker'.task = worker.task /\ worker.task \in Tasks
          /\ HasRow(worker.task)
      BY <1>5 DEF RecordDraft, TypeOK, WorkerType
    <2>2. jobs'[worker.task].draft > 0
      BY <1>5, <2>1 DEF RecordDraft, TypeOK, Row
    <2> QED
      BY <2>1, <2>2, RowsStay
  <1> QED
    BY <1>1, <1>2, <1>3, <1>4, <1>5
       DEF Next, vars, CheckLimit, DispatchStep, CancelStep, WorkerStep, Dispatch, Reserve, Revoke,
           MarkCancelled, ClientDies, NextDay, TakeTask, FindJob, MarkFinished,
           RunTask, RetryDue, TaskFails, WorkerCrash, Raise

LEMMA RowsMatchStep == ASSUME JobsInv, [Next]_vars PROVE RowsMatch'
  <1> USE DEF JobsInv
  <1>1. day \in Nat /\ day' \in Nat /\ day <= day'
    BY Forward
  <1>2. \A t \in Tasks : kindOf[t] # NoKind => kindOf'[t] = kindOf[t]
    BY Forward
  <1>5. ASSUME NEW t \in Tasks, ~HasRow(t)' PROVE jobs'[t] = NoRow
    <2>1. ~HasRow(t) /\ jobs[t] = NoRow /\ jobs \in [Tasks -> Row]
      BY <1>5, RowsStay DEF RowsMatch, TypeOK
    <2>2. ASSUME NEW c \in Clients, NewRow(c).kind \in Kinds,
                 jobs' = [jobs EXCEPT ![client[c].task] = NewRow(c)]
          PROVE  jobs'[t] = NoRow
      BY <1>5, <2>1, <2>2 DEF HasRow
    <2>3. ASSUME NEW c \in Clients, Reserve(c) PROVE NewRow(c).kind \in Kinds
      BY <2>3 DEF Reserve, ClientData, Prepared, NewRow
    <2> QED
      BY <1>5, <2>1, <2>2, <2>3, RowChange
  <1> SUFFICES ASSUME NEW t \in Tasks, HasRow(t)'
               PROVE  jobs'[t].kind = kindOf'[t] /\ jobs'[t].created <= day'
    BY <1>5 DEF RowsMatch
  <1>3. CASE HasRow(t)
    <2>1. jobs[t].kind = kindOf[t] /\ jobs[t].created <= day /\ jobs[t].created \in Nat
      BY <1>3 DEF RowsMatch, TypeOK, Row
    <2>2. kindOf[t] # NoKind
      BY <1>3, <2>1 DEF HasRow
    <2> QED
      BY <1>1, <1>2, <1>3, <2>1, <2>2, RowsStay
  <1>4. CASE ~HasRow(t)
    <2>1. PICK c \in Clients : /\ Reserve(c) /\ client[c].task \in Tasks
                               /\ jobs' = [jobs EXCEPT ![client[c].task] = NewRow(c)]
                               /\ t = client[c].task
      <3>1. jobs \in [Tasks -> Row] /\ jobs[t].kind = NoKind /\ jobs'[t].kind # NoKind
        BY <1>4 DEF HasRow, TypeOK
      <3>2. ASSUME NEW u \in Tasks, NEW st, jobs' = [jobs EXCEPT ![u].status = st] PROVE FALSE
        BY <3>1, <3>2 DEF Row
      <3>3. ASSUME NEW u \in Tasks, NEW n, jobs' = [jobs EXCEPT ![u].draft = n] PROVE FALSE
        BY <3>1, <3>3 DEF Row
      <3> QED
        BY <3>1, <3>2, <3>3, RowChange
    <2>2. jobs'[t] = NewRow(c)
      BY <2>1 DEF TypeOK
    <2>3. /\ kindOf[t] = client[c].kind /\ client[c].kind \in Kinds
          /\ client[c].created <= day /\ client[c].created \in Nat
      BY <2>1 DEF Reserve, ClientData, Prepared, CreatedByNow, TypeOK, ClientType
    <2>4. kindOf'[t] = kindOf[t] /\ client[c].created <= day'
      BY <1>1, <1>2, <2>3
    <2> QED
      BY <2>2, <2>3, <2>4 DEF NewRow
  <1> QED
    BY <1>3, <1>4

\* A client the step leaves where it was keeps what it knows.
LEMMA BystanderPrepared ==
  ASSUME JobsInv, [Next]_vars, NEW c \in Clients, client'[c] = client[c],
         ~Reserve(c)
  PROVE  Prepared(c)'
  <1> USE DEF JobsInv
  <1>1. Prepared(c)
    BY DEF ClientData
  <1>2. ASSUME client[c].pc = "mark" PROVE client[c].task \in revoked' /\ HasRow(client[c].task)'
    BY <1>1, <1>2, Forward, RowsStay DEF Prepared
  <1>3. ASSUME client[c].pc = "reserve"
        PROVE  kindOf'[client[c].task] = client[c].kind /\ ~HasRow(client[c].task)'
    <2>1. /\ client[c].task \in Tasks /\ ~HasRow(client[c].task)
          /\ kindOf[client[c].task] = client[c].kind /\ client[c].kind \in Kinds
      BY <1>1, <1>3 DEF Prepared
    <2>2. jobs \in [Tasks -> Row] /\ jobs[client[c].task].kind = NoKind
      BY <2>1 DEF TypeOK, HasRow
    <2>3. jobs'[client[c].task].kind = NoKind
      <3>1. ASSUME NEW d \in Clients, Reserve(d),
                   jobs' = [jobs EXCEPT ![client[d].task] = NewRow(d)]
            PROVE  jobs'[client[c].task].kind = NoKind
        <4>1. d # c /\ client[d].task # client[c].task
          BY <1>3, <3>1 DEF Reserve, OneDispatcher
        <4> QED
          BY <2>1, <2>2, <3>1, <4>1
      <3>2. ASSUME NEW u \in Tasks, NEW st, jobs' = [jobs EXCEPT ![u].status = st]
            PROVE  jobs'[client[c].task].kind = NoKind
        BY <2>1, <2>2, <3>2 DEF Row
      <3>3. ASSUME NEW u \in Tasks, NEW n, jobs' = [jobs EXCEPT ![u].draft = n]
            PROVE  jobs'[client[c].task].kind = NoKind
        BY <2>1, <2>2, <3>3 DEF Row
      <3> QED
        BY <2>2, <3>1, <3>2, <3>3, RowChange
    <2> QED
      BY <2>1, <2>3, Forward DEF HasRow
  <1> QED
    BY <1>1, <1>2, <1>3 DEF Prepared

\* A step moves at most one client, and only Dispatch brings one to its INSERT.
LEMMA ClientMove ==
  ASSUME JobsInv, [Next]_vars
  PROVE  \/ client' = client
         \/ \E c \in Clients, kind \in Kinds :
              CheckLimit(c, kind) /\ client' = [client EXCEPT ![c] = Call("dispatch", kind, 0)]
         \/ \E c \in Clients : Dispatch(c)
         \/ \E c \in Clients : client' = [client EXCEPT ![c] = IdleClient]
         \/ \E c \in Clients, t \in Tasks :
              /\ HasRow(t) /\ revoked' = revoked \cup {t}
              /\ client' = [client EXCEPT ![c] = Call("mark", NoKind, t)]
  BY DEF Next, vars, CheckLimit, DispatchStep, CancelStep, WorkerStep, Reserve, Revoke,
         MarkCancelled, ClientDies, NextDay, TakeTask, FindJob, RecordDraft, MarkFinished,
         RunTask, RetryDue, TaskFails, WorkerCrash

\* What the other clients know survives the move of one.
LEMMA OthersPrepared ==
  ASSUME JobsInv, [Next]_vars, NEW c \in Clients, NEW call \in ClientType,
         client' = [client EXCEPT ![c] = call], call.pc # "reserve",
         Prepared(c)', call.created <= day'
  PROVE  ClientData' /\ OneDispatcher' /\ CreatedByNow'
  <1> USE DEF JobsInv
  <1>1. /\ client \in [Clients -> ClientType] /\ client'[c] = call
        /\ \A d \in Clients \ {c} : client'[d] = client[d]
    BY DEF TypeOK
  <1>2. ASSUME NEW d \in Clients \ {c} PROVE Prepared(d)'
    <2>1. ~Reserve(d)
      <3>1. SUFFICES ASSUME Reserve(d) PROVE FALSE
        OBVIOUS
      <3>2. client[d].pc = "reserve" /\ client'[d].pc = "idle"
        BY <1>1, <3>1 DEF Reserve, IdleClient, Call
      <3> QED
        BY <1>1, <3>2
    <2> QED
      BY <1>1, <2>1, BystanderPrepared
  <1>3. ClientData'
    BY <1>2 DEF ClientData
  <1>4. OneDispatcher'
    BY <1>1 DEF OneDispatcher
  <1>5. CreatedByNow'
    <2>1. \A d \in Clients : client[d].created \in Nat /\ client[d].created <= day
      BY <1>1 DEF CreatedByNow, ClientType
    <2> QED
      BY <1>1, <2>1, Forward DEF CreatedByNow
  <1> QED
    BY <1>3, <1>4, <1>5

LEMMA ClientStep == ASSUME JobsInv, [Next]_vars PROVE ClientData' /\ OneDispatcher' /\ CreatedByNow'
  <1> USE DEF JobsInv
  <1>1. client \in [Clients -> ClientType]
    BY DEF TypeOK
  <1>2. CASE client' = client
    <2>1. ASSUME NEW c \in Clients PROVE Prepared(c)'
      <3>1. ~Reserve(c)
        <4>1. SUFFICES ASSUME Reserve(c) PROVE FALSE
          OBVIOUS
        <4>2. client[c].pc = "reserve" /\ client'[c].pc = "idle"
          BY <1>1, <4>1 DEF Reserve, IdleClient, Call
        <4> QED
          BY <1>2, <4>2
      <3> QED
        BY <1>2, <3>1, BystanderPrepared
    <2>2. \A d \in Clients : client[d].created \in Nat /\ client[d].created <= day
      BY <1>1 DEF CreatedByNow, ClientType
    <2> QED
      BY <1>2, <2>1, <2>2, Forward DEF ClientData, OneDispatcher, CreatedByNow
  <1>3. ASSUME NEW c \in Clients, NEW kind \in Kinds,
               client' = [client EXCEPT ![c] = Call("dispatch", kind, 0)]
        PROVE  ClientData' /\ OneDispatcher' /\ CreatedByNow'
    <2>1. /\ Call("dispatch", kind, 0).pc = "dispatch" /\ Call("dispatch", kind, 0).kind = kind
          /\ Call("dispatch", kind, 0).created = 0
      BY DEF Call
    <2>2. client'[c] = Call("dispatch", kind, 0) /\ 0 <= day'
      BY <1>1, <1>3, Forward
    <2>3. Prepared(c)'
      BY <2>1, <2>2 DEF Prepared
    <2>4. Call("dispatch", kind, 0) \in ClientType
      BY CallTypes
    <2> HIDE DEF Call
    <2> QED
      BY <1>3, <2>1, <2>2, <2>3, <2>4, OthersPrepared
  <1>4. ASSUME NEW c \in Clients, client' = [client EXCEPT ![c] = IdleClient]
        PROVE  ClientData' /\ OneDispatcher' /\ CreatedByNow'
    <2>1. IdleClient.pc = "idle" /\ IdleClient.created = 0
      BY DEF IdleClient, Call
    <2>2. client'[c] = IdleClient /\ 0 <= day'
      BY <1>1, <1>4, Forward
    <2>3. Prepared(c)'
      BY <2>1, <2>2 DEF Prepared
    <2> QED
      BY <1>4, <2>1, <2>2, <2>3, IdleTypes, OthersPrepared
  <1>5. ASSUME NEW c \in Clients, NEW t \in Tasks, HasRow(t), revoked' = revoked \cup {t},
               client' = [client EXCEPT ![c] = Call("mark", NoKind, t)]
        PROVE  ClientData' /\ OneDispatcher' /\ CreatedByNow'
    <2>1. /\ Call("mark", NoKind, t).pc = "mark" /\ Call("mark", NoKind, t).task = t
          /\ Call("mark", NoKind, t).created = 0
      BY DEF Call
    <2>2. client'[c] = Call("mark", NoKind, t) /\ 0 <= day'
      BY <1>1, <1>5, Forward
    <2>3. Prepared(c)'
      BY <1>5, <2>1, <2>2, RowsStay DEF Prepared
    <2>4. Call("mark", NoKind, t) \in ClientType
      BY CallTypes
    <2> QED
      BY <1>5, <2>1, <2>2, <2>3, <2>4, OthersPrepared
  <1>6. ASSUME NEW c \in Clients, Dispatch(c)
        PROVE  ClientData' /\ OneDispatcher' /\ CreatedByNow'
    <2>1. PICK t \in Tasks : /\ kindOf[t] = NoKind
                             /\ kindOf' = [kindOf EXCEPT ![t] = client[c].kind]
                             /\ client' = [client EXCEPT ![c].pc = "reserve", ![c].task = t,
                                                         ![c].created = day]
      BY <1>6 DEF Dispatch
    <2>2. /\ client'[c].pc = "reserve" /\ client'[c].task = t /\ client'[c].created = day
          /\ client'[c].kind = client[c].kind
          /\ \A d \in Clients \ {c} : client'[d] = client[d]
      BY <1>1, <2>1 DEF ClientType
    <2>3. /\ kindOf'[t] = client[c].kind /\ client[c].kind \in Kinds
          /\ jobs' = jobs /\ day' = day
      BY <1>6, <2>1 DEF Dispatch, ClientData, Prepared, TypeOK
    <2>4. ~HasRow(t)
      BY <2>1 DEF RowsMatch, HasRow
    <2>5. Prepared(c)'
      BY <2>2, <2>3, <2>4 DEF Prepared, HasRow
    <2>6. ASSUME NEW d \in Clients \ {c} PROVE Prepared(d)' /\ ~(client[d].pc = "reserve" /\ client[d].task = t)
      <3>1. ~(client[d].pc = "reserve" /\ client[d].task = t)
        BY <2>1 DEF ClientData, Prepared
      <3>2. ~Reserve(d)
        <4>1. SUFFICES ASSUME Reserve(d) PROVE FALSE
          OBVIOUS
        <4>2. client[d].pc = "reserve" /\ client'[d].pc = "idle"
          BY <1>1, <4>1 DEF Reserve, IdleClient, Call
        <4> QED
          BY <2>2, <4>2
      <3> QED
        BY <2>2, <3>1, <3>2, BystanderPrepared
    <2>7. OneDispatcher'
      BY <2>2, <2>6 DEF OneDispatcher
    <2>8. CreatedByNow'
      BY <2>2, <2>3, Forward DEF CreatedByNow
    <2> QED
      BY <2>5, <2>6, <2>7, <2>8 DEF ClientData
  <1> QED
    BY <1>2, <1>3, <1>4, <1>5, <1>6, ClientMove

-----------------------------------------------------------------------------
(* One copy of each task                                                     *)

LEMMA CompletedStep ==
  ASSUME JobsInv, [Next]_vars, NEW t \in Tasks, Completed(t)'
  PROVE  Completed(t) \/ (MarkFinished /\ t = worker.task)
  <1>1. jobs \in [Tasks -> Row]
    BY DEF JobsInv, TypeOK
  <1>2. ASSUME NEW c \in Clients, client[c].task \in Tasks,
               jobs' = [jobs EXCEPT ![client[c].task] = NewRow(c)]
        PROVE  Completed(t)
    BY <1>1, <1>2 DEF Completed, HasRow, NewRow
  <1>3. ASSUME NEW u \in Tasks, jobs' = [jobs EXCEPT ![u].status = "cancelled"]
        PROVE  Completed(t)
    BY <1>1, <1>3 DEF Completed, HasRow, Row
  <1>4. ASSUME NEW u \in Tasks, NEW n, jobs' = [jobs EXCEPT ![u].draft = n]
        PROVE  Completed(t)
    BY <1>1, <1>4 DEF Completed, HasRow, Row
  <1>5. ASSUME NEW u \in Tasks, jobs' = [jobs EXCEPT ![u].status = "succeeded"]
        PROVE  Completed(t) \/ t = u
    BY <1>1, <1>5 DEF Completed, HasRow, Row
  <1>6. CASE UNCHANGED jobs
    BY <1>6 DEF Completed, HasRow
  <1> QED
    BY <1>2, <1>3, <1>4, <1>5, <1>6, RowChange

\* Where tasks wait and run changes in five ways.
LEMMA TaskMove ==
  ASSUME JobsInv, [Next]_vars
  PROVE  \/ queue' = queue /\ delayed' = delayed /\ (worker' = worker \/ worker' = IdleWorker)
         \/ queue' = queue /\ delayed' = delayed /\ worker'.task = worker.task /\ worker.pc # "idle"
         \/ \E c \in Clients : Dispatch(c)
         \/ TakeTask
         \/ RetryDue
         \/ queue' = queue /\ Raise /\ worker.pc # "idle" /\ ~MarkFinished
  <1>1. worker \in WorkerType
    BY DEF JobsInv, TypeOK
  <1>2. TaskFails => ~MarkFinished
    BY <1>1 DEF TaskFails, MarkFinished, Spend, JobsInv, TypeOK, Budgeted
  <1> QED
    BY <1>1, <1>2 DEF Next, vars, CheckLimit, DispatchStep, CancelStep, WorkerStep, Reserve,
       Revoke, MarkCancelled, ClientDies, NextDay, FindJob, RecordDraft, MarkFinished,
       RunTask, TaskFails, WorkerCrash, WorkerType

Copies == TaskIds(queue) \cup TaskIds(delayed) \cup Running

LEMMA CopiesAreTasks == ASSUME TypeOK, WorkerData PROVE Copies \subseteq Tasks
  <1>1. ASSUME NEW q \in Seq(Message) PROVE TaskIds(q) \subseteq Tasks
    <2> SUFFICES ASSUME NEW i \in 1..Len(q) PROVE q[i].task \in Tasks
      BY DEF TaskIds
    <2>1. q[i] \in Message
      BY ElementOfSeq
    <2> QED
      BY <2>1 DEF Message
  <1> QED
    BY <1>1 DEF Copies, Running, TypeOK, WorkerData

\* A task that was already a copy, and has not just finished, is still one to run.
LEMMA StillToRun ==
  ASSUME JobsInv, [Next]_vars, NEW t \in Copies, ~(MarkFinished /\ t = worker.task)
  PROVE  kindOf'[t] # NoKind /\ ~Completed(t)'
  <1>1. t \in Tasks /\ kindOf[t] # NoKind /\ ~Completed(t)
    BY CopiesAreTasks DEF JobsInv, OneCopy, Copies
  <1> QED
    BY <1>1, Forward, CompletedStep

LEMMA CopyStep == ASSUME JobsInv, [Next]_vars PROVE OneCopy'
  <1> USE DEF JobsInv
  <1>1. /\ queue \in Seq(Message) /\ delayed \in Seq(Message)
        /\ NoTwice(queue) /\ NoTwice(delayed)
        /\ TaskIds(queue) \cap TaskIds(delayed) = {}
        /\ Running \cap (TaskIds(queue) \cup TaskIds(delayed)) = {}
        /\ worker \in WorkerType
    BY DEF OneCopy, TypeOK
  <1>2. MarkFinished => worker' = IdleWorker /\ worker.pc # "idle" /\ queue' = queue /\ delayed' = delayed
    BY DEF MarkFinished
  <1>3. ASSUME queue' = queue, delayed' = delayed, worker' = worker \/ worker' = IdleWorker
        PROVE  OneCopy'
    <2>1. Running' \subseteq Running /\ (worker' = IdleWorker => Running' = {})
      BY <1>3 DEF Running, IdleWorker
    <2>2. /\ TaskIds(queue)' = TaskIds(queue) /\ TaskIds(delayed)' = TaskIds(delayed)
          /\ NoTwice(queue)' /\ NoTwice(delayed)'
      BY <1>1, <1>3 DEF TaskIds, NoTwice
    <2>3. ASSUME NEW t \in TaskIds(queue) \cup TaskIds(delayed) \cup Running'
          PROVE  kindOf'[t] # NoKind /\ ~Completed(t)'
      <3>1. t \in Copies
        BY <2>1 DEF Copies
      <3>2. ~(MarkFinished /\ t = worker.task)
        BY <1>1, <1>2, <2>1 DEF Running
      <3> QED
        BY <3>1, <3>2, StillToRun
    <2> QED
      BY <1>1, <2>1, <2>2, <2>3 DEF OneCopy
  <1>4. ASSUME queue' = queue, delayed' = delayed, worker'.task = worker.task, worker.pc # "idle"
        PROVE  OneCopy'
    <2>1. Running' \subseteq Running
      BY <1>4 DEF Running
    <2>2. /\ TaskIds(queue)' = TaskIds(queue) /\ TaskIds(delayed)' = TaskIds(delayed)
          /\ NoTwice(queue)' /\ NoTwice(delayed)'
      BY <1>1, <1>4 DEF TaskIds, NoTwice
    <2>3. ~MarkFinished
      BY <1>2, <1>4, TasksFinite DEF IdleWorker, WorkerData
    <2>4. ASSUME NEW t \in TaskIds(queue) \cup TaskIds(delayed) \cup Running'
          PROVE  kindOf'[t] # NoKind /\ ~Completed(t)'
      BY <2>1, <2>3, StillToRun DEF Copies
    <2> QED
      BY <1>1, <2>1, <2>2, <2>4 DEF OneCopy
  <1>5. ASSUME NEW c \in Clients, Dispatch(c) PROVE OneCopy'
    <2>1. PICK t \in Tasks : /\ kindOf[t] = NoKind
                             /\ kindOf' = [kindOf EXCEPT ![t] = client[c].kind]
                             /\ queue' = Append(queue, [task |-> t, tries |-> Retries])
      BY <1>5 DEF Dispatch
    <2>2. /\ kindOf'[t] # NoKind /\ delayed' = delayed /\ worker' = worker /\ jobs' = jobs
          /\ ~MarkFinished
      <3>1. client[c].kind \in Kinds /\ kindOf \in [Tasks -> Kinds \cup {NoKind}]
        BY <1>5 DEF Dispatch, ClientData, Prepared, TypeOK
      <3>2. client'[c].pc = "reserve" /\ client[c].pc = "dispatch"
        BY <1>5 DEF Dispatch, TypeOK, ClientType
      <3> QED
        BY <1>5, <2>1, <3>1, <3>2 DEF Dispatch, MarkFinished
    <2>3. ~Completed(t)' /\ t \notin Copies
      BY <2>1, <2>2 DEF Completed, HasRow, RowsMatch, OneCopy, Copies
    <2>4. [task |-> t, tries |-> Retries] \in Message
      BY DEF Message
    <2>5. /\ TaskIds(queue)' = TaskIds(queue) \cup {t} /\ NoTwice(queue)'
          /\ TaskIds(delayed)' = TaskIds(delayed) /\ NoTwice(delayed)' /\ Running' = Running
      <3>1. TaskIds(Append(queue, [task |-> t, tries |-> Retries])) = TaskIds(queue) \cup {t}
        BY <1>1, <2>4, AppendTasks
      <3>2. NoTwice(Append(queue, [task |-> t, tries |-> Retries]))
        BY <1>1, <2>3, <2>4, AppendTasks DEF Copies
      <3> QED
        BY <1>1, <2>1, <2>2, <3>1, <3>2 DEF TaskIds, NoTwice, Running
    <2>6. \A u \in Copies : kindOf'[u] # NoKind /\ ~Completed(u)'
      BY <2>2, StillToRun
    <2> QED
      BY <1>1, <2>2, <2>3, <2>5, <2>6 DEF OneCopy, Copies
  <1>6. CASE TakeTask
    <2>1. /\ TaskIds(queue) = TaskIds(queue') \cup {Head(queue).task}
          /\ NoTwice(queue') /\ Head(queue).task \notin TaskIds(queue')
          /\ delayed' = delayed /\ worker.pc = "idle"
          /\ worker' = IdleWorker \/ worker' = Execute(Head(queue).task)
      BY <1>1, <1>6, TailTasks DEF TakeTask
    <2>2. Running' \subseteq {Head(queue).task}
      BY <2>1 DEF Running, IdleWorker, Execute
    <2>3. ~MarkFinished
      BY <2>1 DEF MarkFinished
    <2>4. \A u \in Copies : kindOf'[u] # NoKind /\ ~Completed(u)'
      BY <2>3, StillToRun
    <2>5. TaskIds(delayed') = TaskIds(delayed) /\ NoTwice(delayed')
      BY <1>1, <2>1
    <2> QED
      BY <1>1, <2>1, <2>2, <2>4, <2>5 DEF OneCopy, Copies
  <1>7. CASE RetryDue
    <2>1. /\ TaskIds(delayed) = TaskIds(delayed') \cup {Head(delayed).task}
          /\ NoTwice(delayed') /\ Head(delayed).task \notin TaskIds(delayed')
          /\ Head(delayed) \in Message /\ queue' = Append(queue, Head(delayed))
          /\ worker' = worker
      BY <1>1, <1>7, TailTasks DEF RetryDue
    <2>2. Head(delayed).task \notin TaskIds(queue)
      BY <1>1, <2>1
    <2>3. TaskIds(queue') = TaskIds(queue) \cup {Head(delayed).task} /\ NoTwice(queue')
      BY <1>1, <2>1, <2>2, AppendTasks
    <2>4. ~MarkFinished
      BY <2>1, <1>2 DEF IdleWorker
    <2>5. \A u \in Copies : kindOf'[u] # NoKind /\ ~Completed(u)'
      BY <2>4, StillToRun
    <2>6. Running' = Running
      BY <2>1 DEF Running
    <2> QED
      BY <1>1, <2>1, <2>2, <2>3, <2>5, <2>6 DEF OneCopy, Copies
  <1>8. ASSUME queue' = queue, Raise, worker.pc # "idle", ~MarkFinished PROVE OneCopy'
    <2>1. Running' = {} /\ worker.task \in Tasks /\ Running = {worker.task}
      BY <1>8 DEF Raise, IdleWorker, Running, WorkerData
    <2>2. worker.task \notin TaskIds(delayed) /\ worker.task \notin TaskIds(queue)
      BY <1>1, <2>1
    <2>3. NoTwice(delayed') /\ TaskIds(delayed') \subseteq TaskIds(delayed) \cup {worker.task}
      <3>1. CASE worker.tries > 0
        <4>1. worker.tries - 1 \in 0..Retries
          BY <1>1, <3>1 DEF WorkerType
        <4> DEFINE m == [task |-> worker.task, tries |-> worker.tries - 1]
        <4>2. m \in Message /\ m.task = worker.task
          BY <2>1, <4>1 DEF Message
        <4>3. delayed' = Append(delayed, m)
          BY <1>8, <3>1 DEF Raise
        <4> HIDE DEF m
        <4> QED
          BY <1>1, <2>2, <4>2, <4>3, AppendTasks
      <3>2. CASE ~(worker.tries > 0)
        BY <1>1, <1>8, <3>2 DEF Raise
      <3> QED
        BY <3>1, <3>2
    <2>4. \A u \in Copies : kindOf'[u] # NoKind /\ ~Completed(u)'
      BY <1>8, StillToRun
    <2>5. TaskIds(queue') = TaskIds(queue) /\ NoTwice(queue')
      BY <1>1, <1>8
    <2> QED
      BY <1>1, <2>1, <2>2, <2>3, <2>4, <2>5 DEF OneCopy, Copies
  <1> QED
    BY <1>3, <1>4, <1>5, <1>6, <1>7, <1>8, TaskMove

-----------------------------------------------------------------------------
(* The theorems                                                              *)

LEMMA JobsInit == ASSUME Init PROVE JobsInv
  <1>1. TypeOK
    <2>1. NoRow \in Row
      BY DEF NoRow, Row
    <2>2. /\ <<>> \in Seq(Message)
          /\ budget \in [Budgeted -> Nat]
      BY DEF Init, Budgeted
    <2> QED
      BY <2>1, <2>2, IdleTypes DEF Init, TypeOK
  <1>2. ClientData /\ OneDispatcher /\ CreatedByNow
    BY DEF Init, ClientData, Prepared, OneDispatcher, CreatedByNow, IdleClient, Call
  <1>3. WorkerData /\ RowsMatch /\ CompletedHasDraft /\ CancelledIsRevoked
    BY DEF Init, WorkerData, IdleWorker, RowsMatch, HasRow, NoRow, CompletedHasDraft,
           CancelledIsRevoked
  <1>4. OneCopy
    <2>1. TaskIds(<<>>) = {} /\ NoTwice(<<>>)
      BY EmptySeq DEF TaskIds, NoTwice
    <2> QED
      BY <2>1 DEF Init, OneCopy, Running, IdleWorker
  <1>5. DispatchCeiling
    <2> SUFFICES ASSUME NEW kind \in Limited PROVE Cardinality(DispatchedToday(kind)) <= MaxPerDay
      BY DEF DispatchCeiling
    <2>1. DispatchedToday(kind) = {}
      BY DEF Init, DispatchedToday, NoRow
    <2> QED
      BY <2>1, FS_EmptySet
  <1> QED
    BY <1>1, <1>2, <1>3, <1>4, <1>5 DEF JobsInv

LEMMA JobsNext == ASSUME JobsInv, [Next]_vars PROVE JobsInv'
  BY TypeStep, ClientStep, WorkerStepKeeps, RowsMatchStep, CopyStep, CeilingStep, RowsStep
     DEF JobsInv

\* The job tables, the clients and the worker stay consistent, and every task has at
\* most one copy: the invariant holds of every reachable state.
THEOREM JobsInvariant == Spec => []JobsInv
  <1>1. Init => JobsInv
    BY JobsInit
  <1>2. JobsInv /\ [Next]_vars => JobsInv'
    BY JobsNext
  <1> QED
    BY <1>1, <1>2, PTL DEF Spec

\* Whatever the clients' calls interleave to, no more than MaxPerDay jobs of a limited
\* type created today are on record.
THEOREM CeilingHolds == Spec => []DispatchCeiling
  <1>1. JobsInv => DispatchCeiling
    BY DEF JobsInv
  <1> QED
    BY <1>1, JobsInvariant, PTL

\* A job reported as completed always has a draft.
THEOREM CompletedJobsHaveDrafts == Spec => []CompletedHasDraft
  <1>1. JobsInv => CompletedHasDraft
    BY DEF JobsInv
  <1> QED
    BY <1>1, JobsInvariant, PTL

\* A cancelled job that no worker is executing never starts again.
THEOREM CancelledJobsNeverStart == Spec => CancelledNeverStarts
  <1>1. ASSUME JobsInv, [Next]_vars, NEW t \in Tasks,
               jobs[t].status = "cancelled", worker.task # t
        PROVE  worker'.task # t
    <2>1. t \in revoked /\ t # 0 /\ worker \in WorkerType
      BY <1>1, TasksFinite DEF JobsInv, CancelledIsRevoked, TypeOK
    <2>2. CASE TakeTask
      BY <2>1, <2>2 DEF TakeTask, IdleWorker, Execute
    <2>3. ~TakeTask => worker' = IdleWorker \/ worker'.task = worker.task
      BY <1>1, <2>1 DEF Next, vars, CheckLimit, DispatchStep, CancelStep, WorkerStep, Dispatch,
         Reserve, Revoke, MarkCancelled, ClientDies, NextDay, FindJob, RecordDraft,
         MarkFinished, RunTask, RetryDue, TaskFails, WorkerCrash, Raise, WorkerType
    <2> QED
      BY <1>1, <2>1, <2>2, <2>3 DEF IdleWorker
  <1>2. JobsInv /\ [Next]_vars
          => [\A t \in Tasks :
                jobs[t].status = "cancelled" /\ worker.task # t => worker'.task # t]_vars
    BY <1>1
  <1> QED
    BY <1>2, JobsInvariant, PTL DEF Spec, CancelledNeverStarts

\* No step changes the draft of a job that has succeeded.
THEOREM SucceededDraftsAreFinal == Spec => SucceededDraftIsFinal
  <1>1. ASSUME JobsInv, [Next]_vars, NEW t \in Tasks, jobs[t].status = "succeeded"
        PROVE  jobs'[t].draft = jobs[t].draft
    <2>1. CASE HasRow(t)
      <3>1. ASSUME RecordDraft, t = worker.task PROVE FALSE
        BY <1>1, <2>1, <3>1 DEF RecordDraft, JobsInv, OneCopy, Running, Completed
      <3> QED
        BY <1>1, <2>1, <3>1, RowsStay
    <2>2. CASE ~HasRow(t)
      BY <1>1, <2>2 DEF JobsInv, RowsMatch, NoRow
    <2> QED
      BY <2>1, <2>2
  <1>2. JobsInv /\ [Next]_vars
          => [\A t \in Tasks : jobs[t].status = "succeeded" => jobs'[t].draft = jobs[t].draft]_vars
    BY <1>1
  <1> QED
    BY <1>2, JobsInvariant, PTL DEF Spec, SucceededDraftIsFinal
=============================================================================
