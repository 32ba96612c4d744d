--------------------------- MODULE WatcherProofs ----------------------------
(***************************************************************************)
(* Safety of the debouncing watcher for any set of paths and any number of *)
(* recorded events.                                                        *)
(***************************************************************************)
EXTENDS Watcher, TLAPS

USE WatcherAssumption DEF WatcherAssumption

\* The signals of one raw event are watched paths only.
LEMMA SignalsType ==
  ASSUME NEW d \in BOOLEAN, NEW src \in Paths, NEW dest \in Paths \cup {NoPath}
  PROVE  Signals(d, src, dest) \in Seq(Paths \ Excluded)
         /\ Len(Signals(d, src, dest)) <= 2
  <1> DEFINE W == Paths \ Excluded
  <1>1. ASSUME NEW p \in Paths \cup {NoPath}
        PROVE  Signal(p) \in Seq(W) /\ Len(Signal(p)) <= 1
    <2>1. CASE p = NoPath \/ p \in Excluded
      <3>1. Signal(p) = <<>> BY <2>1 DEF Signal
      <3> QED BY <3>1
    <2>2. CASE p # NoPath /\ p \notin Excluded
      <3>1. Signal(p) = <<p>> /\ p \in W BY <2>2 DEF Signal
      <3> QED BY <3>1
    <2> QED BY <2>1, <2>2
  <1>2. Signal(src) \in Seq(W) /\ Signal(dest) \in Seq(W) /\ Len(Signal(src)) <= 1 /\ Len(Signal(dest)) <= 1
    BY <1>1
  <1>3. \A u, v \in Seq(W) : u \o v \in Seq(W) /\ Len(u \o v) = Len(u) + Len(v)
    OBVIOUS
  <1>4. <<>> \in Seq(W) /\ Len(<<>>) = 0
    OBVIOUS
  <1> HIDE DEF W
  <1>5. Signals(d, src, dest) \in Seq(W) /\ Len(Signals(d, src, dest)) <= 2
    <2>1. CASE d
      BY <2>1, <1>4 DEF Signals
    <2>2. CASE ~d
      BY <2>2, <1>2, <1>3 DEF Signals
    <2> QED BY <2>1, <2>2
  <1> QED BY <1>5 DEF W

\* Cancelling changes no timer but the one named, which stays a legal timer and
\* is never switched off or made to settle.
LEMMA CancelEffect ==
  ASSUME TypeOK, NEW s
  PROVE  /\ Cancel(timer, s) \in [Seqs -> TimerState]
         /\ \A t \in Seqs : \/ Cancel(timer, s)[t] = timer[t]
                            \/ /\ t = s /\ timer[t] \in {"new", "armed"}
                               /\ Cancel(timer, s)[t] = "dropped"
  BY DEF Cancel, TypeOK, TimerState

\* The initial state satisfies the inductive invariant.
LEMMA InitInv == Init => WatcherInv
  <1> SUFFICES ASSUME Init PROVE WatcherInv
    OBVIOUS
  <1> USE DEF Init
  <1>1. obs \in ObsType /\ Len(obs.todo) = 0 /\ obs.pc = "idle"
    BY DEF Idle, ObsType
  <1>2. TypeOK
    <2>1. 0 \in 0..MaxEvents
      OBVIOUS
    <2>2. /\ pending \in [Paths -> 0..MaxEvents]
          /\ timer \in [Seqs -> TimerState]
          /\ owner \in [Seqs -> (Paths \ Excluded) \cup {NoPath}]
      BY <2>1 DEF TimerState
    <2> QED
      BY <1>1, <2>1, <2>2 DEF TypeOK
  <1>3. \A s \in Seqs : ~(s <= nextSeq) /\ owner[s] = NoPath /\ timer[s] = "off"
    BY DEF Seqs
  <1>4. \A p \in Paths : pending[p] = 0
    OBVIOUS
  <1> QED
    BY <1>1, <1>2, <1>3, <1>4
       DEF WatcherInv, Allocation, PendingIsNewest, ObserverIsNewest, CleanStop

\* Every step preserves the type invariant.
LEMMA TypeStep == WatcherInv /\ [Next]_vars => TypeOK'
  <1> SUFFICES ASSUME WatcherInv, [Next]_vars PROVE TypeOK'
    OBVIOUS
  <1> USE DEF WatcherInv, Allocation, TypeOK, ObsType, Seqs
  <1>1. CASE Start
    BY <1>1 DEF Start
  <1>2. ASSUME NEW d \in BOOLEAN, NEW src \in Paths, NEW dest \in Paths \cup {NoPath},
               Dispatch(d, src, dest)
        PROVE  TypeOK'
    BY <1>2, SignalsType DEF Dispatch, Idle
  <1>3. CASE RecordEvent
    BY <1>3 DEF RecordEvent, TimerState
  <1>4. CASE CancelPrevious
    BY <1>4, CancelEffect DEF CancelPrevious
  <1>5. CASE StartTimer
    <2>1. timer' \in [Seqs -> TimerState]
      <3>1. CASE timer[obs.seq] = "new"
        BY <1>5, <3>1 DEF StartTimer, TimerState
      <3>2. CASE timer[obs.seq] # "new"
        BY <1>5, <3>2 DEF StartTimer
      <3> QED BY <3>1, <3>2
    <2>2. obs' \in ObsType
      <3>1. obs' = [pc |-> "idle", todo |-> obs.todo, seq |-> 0, prev |-> 0]
        BY <1>5 DEF StartTimer, Idle
      <3> QED BY <3>1
    <2> QED
      BY <1>5, <2>1, <2>2 DEF StartTimer
  <1>6. ASSUME NEW s \in Seqs, TimerStep(s) PROVE TypeOK'
    <2>1. CASE Expire(s)
      BY <2>1 DEF Expire, TimerState
    <2>2. CASE Fire(s) /\ pending[owner[s]] = s
      <3>1. pending' \in [Paths -> 0..MaxEvents]
        BY <2>2 DEF Fire
      <3>2. timer' \in [Seqs -> TimerState]
        BY <2>2 DEF Fire, TimerState
      <3> QED
        BY <2>2, <3>1, <3>2 DEF Fire
    <2>3. CASE Fire(s) /\ pending[owner[s]] # s
      BY <2>3 DEF Fire, TimerState
    <2>4. CASE OnSettle(s)
      BY <2>4 DEF OnSettle, TimerState
    <2> QED
      BY <1>6, <2>1, <2>2, <2>3, <2>4 DEF TimerStep
  <1>7. CASE StopObserver
    BY <1>7 DEF StopObserver
  <1>8. CASE Join
    BY <1>8 DEF Join
  <1>9. CASE Clear
    BY <1>9 DEF Clear
  <1>10. ASSUME NEW s \in Seqs, CancelTimer(s) PROVE TypeOK'
    BY <1>10, CancelEffect DEF CancelTimer
  <1>11. CASE StopReturns
    BY <1>11 DEF StopReturns
  <1>12. CASE UNCHANGED vars
    BY <1>12 DEF vars
  <1> QED
    BY <1>1, <1>2, <1>3, <1>4, <1>5, <1>6, <1>7, <1>8, <1>9, <1>10, <1>11, <1>12
       DEF Next, ObserverStep, StopStep

\* Every step keeps the allocation of sequences to timers.
LEMMA AllocationStep == WatcherInv /\ [Next]_vars => Allocation'
  <1> SUFFICES ASSUME WatcherInv, [Next]_vars PROVE Allocation'
    OBVIOUS
  <1> USE DEF WatcherInv, Allocation, TypeOK, ObsType, Seqs
  <1>1. CASE Start
    BY <1>1 DEF Start
  <1>2. ASSUME NEW d \in BOOLEAN, NEW src \in Paths, NEW dest \in Paths \cup {NoPath},
               Dispatch(d, src, dest)
        PROVE  Allocation'
    BY <1>2, SignalsType DEF Dispatch, Idle
  <1>3. CASE RecordEvent
    <2>1. Len(Tail(obs.todo)) = Len(obs.todo) - 1 /\ Head(obs.todo) \in Paths
      BY <1>3 DEF RecordEvent
    <2> QED
      BY <1>3, <2>1 DEF RecordEvent
  <1>4. CASE CancelPrevious
    BY <1>4, CancelEffect DEF CancelPrevious
  <1>5. CASE StartTimer
    BY <1>5 DEF StartTimer, Idle
  <1>6. ASSUME NEW s \in Seqs, TimerStep(s) PROVE Allocation'
    BY <1>6 DEF TimerStep, Expire, Fire, OnSettle
  <1>7. CASE StopObserver
    BY <1>7 DEF StopObserver
  <1>8. CASE Join
    BY <1>8 DEF Join
  <1>9. CASE Clear
    BY <1>9 DEF Clear
  <1>10. ASSUME NEW s \in Seqs, CancelTimer(s) PROVE Allocation'
    BY <1>10, CancelEffect DEF CancelTimer
  <1>11. CASE StopReturns
    BY <1>11 DEF StopReturns
  <1>12. CASE UNCHANGED vars
    BY <1>12 DEF vars
  <1> QED
    BY <1>1, <1>2, <1>3, <1>4, <1>5, <1>6, <1>7, <1>8, <1>9, <1>10, <1>11, <1>12
       DEF Next, ObserverStep, StopStep

\* IsNewest depends on the recorded events alone, and recording is the only step
\* that adds one.
LEMMA NewestFrame ==
  ASSUME UNCHANGED <<nextSeq, owner>>, NEW s
  PROVE  IsNewest(s)' <=> IsNewest(s)
  BY DEF IsNewest

\* Every step keeps the pending entries, and the event the Observer works on, newest.
LEMMA NewestStep ==
  WatcherInv /\ [Next]_vars => PendingIsNewest' /\ ObserverIsNewest'
  <1> SUFFICES ASSUME WatcherInv, [Next]_vars
               PROVE  PendingIsNewest' /\ ObserverIsNewest'
    OBVIOUS
  <1> USE DEF WatcherInv, PendingIsNewest, ObserverIsNewest, TypeOK, ObsType
  <1>1. CASE RecordEvent
    <2> PICK p, s : p = Head(obs.todo) /\ s = nextSeq + 1
      OBVIOUS
    <2>1. p \in Paths /\ s \in Seqs /\ s \in Nat /\ nextSeq \in Nat
      BY <1>1, Len(obs.todo) > 0 DEF RecordEvent, Allocation, Seqs
    <2>2. /\ nextSeq' = s /\ pending' = [pending EXCEPT ![p] = s]
          /\ owner' = [owner EXCEPT ![s] = p]
          /\ obs'.pc = "cancel" /\ obs'.seq = s /\ obs'.prev = pending[p]
      BY <1>1 DEF RecordEvent
    <2>3. \A t \in 1..nextSeq : owner'[t] = owner[t]
      BY <2>1, <2>2 DEF Seqs
    <2>4. owner'[s] = p
      BY <2>1, <2>2 DEF Seqs
    <2>5. IsNewest(s)'
      BY <2>1, <2>2 DEF IsNewest
    <2>6. ASSUME NEW q \in Paths, q # p, pending[q] # 0
          PROVE  IsNewest(pending[q])' /\ owner'[pending[q]] = q
      <3>1. IsNewest(pending[q]) /\ owner[pending[q]] = q
        BY <2>6
      <3>2. pending[q] \in 1..nextSeq
        BY <3>1 DEF IsNewest
      <3> QED
        BY <2>1, <2>2, <2>3, <2>4, <2>6, <3>1, <3>2 DEF IsNewest
    <2>7. PendingIsNewest'
      BY <2>1, <2>2, <2>4, <2>5, <2>6
    <2>8. pending[p] # 0 => pending[p] < s /\ owner'[pending[p]] = owner'[s]
      BY <2>1, <2>3, <2>4 DEF IsNewest
    <2> QED
      BY <2>2, <2>5, <2>7, <2>8
  <1>2. CASE /\ UNCHANGED <<nextSeq, owner>>
             /\ pending' = pending
             /\ \/ obs'.pc = "idle"
                \/ obs'.pc = "start" /\ obs.pc # "idle" /\ obs'.seq = obs.seq
                \/ obs' = obs
    BY <1>2, NewestFrame
  <1>3. CASE /\ UNCHANGED <<nextSeq, owner, obs>>
             /\ \A p \in Paths : pending'[p] \in {pending[p], 0}
    BY <1>3, NewestFrame
  <1>4. ASSUME NEW s \in Seqs, TimerStep(s)
        PROVE  PendingIsNewest' /\ ObserverIsNewest'
    BY <1>2, <1>3, <1>4 DEF TimerStep, Expire, Fire, OnSettle
  <1>5. CASE ObserverStep \/ \E d \in BOOLEAN, src \in Paths, dest \in Paths \cup {NoPath} :
                                Dispatch(d, src, dest)
    BY <1>1, <1>2, <1>5 DEF ObserverStep, CancelPrevious, StartTimer, Dispatch, Idle
  <1>6. CASE Start \/ StopObserver \/ StopStep \/ UNCHANGED vars
    BY <1>2, <1>3, <1>6
       DEF Start, StopObserver, StopStep, Join, Clear, CancelTimer, StopReturns, vars
  <1> QED
    BY <1>4, <1>5, <1>6 DEF Next

\* Every step keeps _pending empty after a clean stop.
LEMMA CleanStopStep == WatcherInv /\ [Next]_vars => CleanStop'
  <1> SUFFICES ASSUME WatcherInv, [Next]_vars PROVE CleanStop'
    OBVIOUS
  <1> USE DEF WatcherInv, CleanStop, TypeOK
  <1>1. ASSUME NEW d \in BOOLEAN, NEW src \in Paths, NEW dest \in Paths \cup {NoPath},
               Dispatch(d, src, dest)
        PROVE  CleanStop'
    BY <1>1 DEF Dispatch
  <1>2. CASE ObserverStep
    BY <1>2 DEF ObserverStep, RecordEvent, CancelPrevious, StartTimer, Idle
  <1>3. ASSUME NEW s \in Seqs, TimerStep(s) PROVE CleanStop'
    BY <1>3 DEF TimerStep, Expire, Fire, OnSettle
  <1>4. CASE Start \/ StopObserver \/ StopStep \/ UNCHANGED vars
    BY <1>4 DEF Start, StopObserver, StopStep, Join, Clear, CancelTimer, StopReturns, vars
  <1> QED
    BY <1>1, <1>2, <1>3, <1>4 DEF Next

\* The debounce map, the timers' sequence numbers and the Observer agree in every
\* reachable state.
THEOREM WatcherInvariant == Spec => []WatcherInv
  <1>1. WatcherInv /\ [Next]_vars => WatcherInv'
    BY TypeStep, AllocationStep, NewestStep, CleanStopStep DEF WatcherInv
  <1> QED
    BY InitInv, <1>1, PTL DEF Spec

\* No change is forgotten: until stop() clears the map, the newest event of each
\* path is pending with a timer that can still fire, or handed to on_settle.
THEOREM NoChangeForgotten == Spec => []NewestEventKept
  <1>1. Init => NewestEventKept
    BY DEF Init, NewestEventKept, IsNewest
  <1>2. WatcherInv /\ NewestEventKept /\ [Next]_vars => NewestEventKept'
    <2> SUFFICES ASSUME WatcherInv, NewestEventKept, [Next]_vars,
                        life' \in {"new", "started", "joining", "joined"},
                        NEW s \in Seqs, IsNewest(s)'
                 PROVE  \/ pending'[owner'[s]] = s /\ timer'[s] \in {"new", "armed", "firing"}
                        \/ timer'[s] \in {"settling", "delivered"}
      BY DEF NewestEventKept
    <2> USE DEF WatcherInv, TypeOK, ObsType, Seqs
    <2>1. CASE RecordEvent
      <3> PICK p, n : p = Head(obs.todo) /\ n = nextSeq + 1
        OBVIOUS
      <3>1. p \in Paths /\ n \in Seqs
        BY <2>1, Len(obs.todo) > 0 DEF RecordEvent, Allocation
      <3>2. /\ nextSeq' = n /\ pending' = [pending EXCEPT ![p] = n]
            /\ owner' = [owner EXCEPT ![n] = p] /\ timer' = [timer EXCEPT ![n] = "new"]
            /\ life' = life
        BY <2>1 DEF RecordEvent
      <3>3. CASE s = n
        BY <3>1, <3>2, <3>3
      <3>4. CASE s # n
        <4>1. s \in 1..nextSeq /\ owner'[s] = owner[s] /\ timer'[s] = timer[s]
          BY <3>1, <3>2, <3>4 DEF IsNewest
        <4>2. owner[s] # p
          BY <3>1, <3>2, <3>4, <4>1 DEF IsNewest
        <4>3. IsNewest(s) /\ pending'[owner'[s]] = pending[owner[s]]
          BY <3>1, <3>2, <3>4, <4>1, <4>2 DEF IsNewest, Allocation
        <4> QED
          BY <3>2, <4>1, <4>3 DEF NewestEventKept
      <3> QED BY <3>3, <3>4
    <2> DEFINE Alive == \/ pending[owner[s]] = s /\ timer[s] \in {"new", "armed", "firing"}
                        \/ timer[s] \in {"settling", "delivered"}
    <2>2. ASSUME UNCHANGED <<nextSeq, owner>>,
                 life \in {"new", "started", "joining", "joined"}
          PROVE  IsNewest(s) /\ Alive
      BY <2>2, NewestFrame DEF NewestEventKept
    <2>3. CASE CancelPrevious
      <3>1. obs.prev # s
        BY <2>2, <2>3 DEF CancelPrevious, ObserverIsNewest, IsNewest
      <3> QED
        BY <2>2, <2>3, <3>1, CancelEffect DEF CancelPrevious
    <2>4. CASE StartTimer
      BY <2>2, <2>4 DEF StartTimer
    <2>5. ASSUME NEW t \in Seqs, TimerStep(t)
          PROVE  \/ pending'[owner'[s]] = s /\ timer'[s] \in {"new", "armed", "firing"}
                 \/ timer'[s] \in {"settling", "delivered"}
      <3>1. CASE Expire(t)
        BY <2>2, <3>1 DEF Expire
      <3>2. CASE Fire(t) /\ pending[owner[t]] = t
        <4>1. owner[s] = owner[t] => s = t
          <5>1. t <= nextSeq /\ owner[t] \in Paths
            BY <3>2 DEF Fire, Allocation
          <5>2. IsNewest(t)
            BY <3>2, <5>1 DEF PendingIsNewest
          <5>3. IsNewest(s)
            BY <2>2, <3>2 DEF Fire
          <5> QED
            BY <5>2, <5>3 DEF IsNewest
        <4>2. /\ pending' = [pending EXCEPT ![owner[t]] = 0]
              /\ timer' = [timer EXCEPT ![t] = "settling"]
              /\ owner' = owner /\ Alive
          BY <2>2, <3>2 DEF Fire
        <4>3. CASE s = t
          BY <4>2, <4>3
        <4>4. CASE s # t
          BY <4>1, <4>2, <4>4
        <4> QED
          BY <4>3, <4>4
      <3>3. CASE Fire(t) /\ pending[owner[t]] # t
        BY <2>2, <3>3 DEF Fire
      <3>4. CASE OnSettle(t)
        BY <2>2, <3>4 DEF OnSettle
      <3> QED BY <2>5, <3>1, <3>2, <3>3, <3>4 DEF TimerStep
    <2>6. CASE Start \/ StopObserver \/ Join \/ UNCHANGED vars
      BY <2>2, <2>6 DEF Start, StopObserver, Join, vars
    <2>7. CASE Clear \/ StopReturns \/ \E t \in Seqs : CancelTimer(t)
      BY <2>7 DEF Clear, StopReturns, CancelTimer
    <2>8. ASSUME NEW d \in BOOLEAN, NEW src \in Paths, NEW dest \in Paths \cup {NoPath},
                 Dispatch(d, src, dest)
          PROVE  Alive /\ UNCHANGED <<pending, timer, owner>>
      BY <2>2, <2>8 DEF Dispatch
    <2> QED
      BY <2>1, <2>3, <2>4, <2>5, <2>6, <2>7, <2>8 DEF Next, ObserverStep, StopStep
  <1> QED
    BY <1>1, <1>2, WatcherInvariant, PTL DEF Spec

\* A timer that passes _fire's check is the newest of its path.
THEOREM SupersededTimersNeverSettle == Spec => SettleOnlyNewest
  <1>1. WatcherInv /\ [Next]_vars =>
          [\A s \in Seqs : timer[s] = "firing" /\ timer'[s] = "settling" => IsNewest(s)]_vars
    <2> SUFFICES ASSUME WatcherInv, Next, NEW s \in Seqs,
                        timer[s] = "firing", timer'[s] = "settling"
                 PROVE  IsNewest(s)
      OBVIOUS
    <2> USE DEF WatcherInv, TypeOK, Seqs
    <2>1. ASSUME NEW t \in Seqs, TimerStep(t) PROVE IsNewest(s)
      BY <2>1 DEF TimerStep, Expire, Fire, OnSettle, PendingIsNewest, Allocation
    <2>2. ~ObserverStep
      <3>1. ~CancelPrevious
        BY CancelEffect DEF CancelPrevious
      <3>2. ~RecordEvent
        BY DEF RecordEvent
      <3>3. ~StartTimer
        BY DEF StartTimer
      <3> QED
        BY <3>1, <3>2, <3>3 DEF ObserverStep
    <2>3. ~StopStep
      BY CancelEffect DEF StopStep, Join, Clear, StopReturns, CancelTimer
    <2> QED
      BY <2>1, <2>2, <2>3 DEF Next, Start, StopObserver, Dispatch
  <1> QED
    BY <1>1, WatcherInvariant, PTL DEF Spec, SettleOnlyNewest

\* After a clean stop no timer passes _fire's check.
THEOREM StopDropsPendingPaths == Spec => NoSettleDecidedAfterStop
  <1>1. WatcherInv /\ [Next]_vars =>
          [~orphaned /\ life \in {"cancelling", "stopped"} =>
             \A s \in Seqs : ~(timer[s] = "firing" /\ timer'[s] = "settling")]_vars
    <2> SUFFICES ASSUME WatcherInv, Next, ~orphaned, life \in {"cancelling", "stopped"},
                        NEW s \in Seqs, timer[s] = "firing", timer'[s] = "settling"
                 PROVE  FALSE
      OBVIOUS
    <2> USE DEF WatcherInv, TypeOK, Seqs
    <2>1. ASSUME NEW t \in Seqs, TimerStep(t) PROVE FALSE
      BY <2>1 DEF TimerStep, Expire, Fire, OnSettle, CleanStop, PendingIsNewest, Allocation
    <2>2. ~ObserverStep
      <3>1. ~CancelPrevious
        BY CancelEffect DEF CancelPrevious
      <3>2. ~RecordEvent
        BY DEF RecordEvent
      <3>3. ~StartTimer
        BY DEF StartTimer
      <3> QED
        BY <3>1, <3>2, <3>3 DEF ObserverStep
    <2>3. ~StopStep
      BY CancelEffect DEF StopStep, Join, Clear, StopReturns, CancelTimer
    <2> QED
      BY <2>1, <2>2, <2>3 DEF Next, Start, StopObserver, Dispatch
  <1> QED
    BY <1>1, WatcherInvariant, PTL DEF Spec, NoSettleDecidedAfterStop

\* The log of the changes, seen from the timers: it grows by one path at a time.
LEMMA ChangesFacts ==
  ASSUME TypeOK
  PROVE  /\ Changes \in Seq(Paths \cup {NoPath}) /\ Len(Changes) = nextSeq
         /\ \A s \in 1..nextSeq : Changes[s] = owner[s]
  <1>1. nextSeq \in Nat /\ 1..nextSeq \subseteq Seqs
    BY DEF TypeOK, Seqs
  <1>2. Changes \in [1..nextSeq -> Paths \cup {NoPath}]
    BY <1>1 DEF Changes, TypeOK
  <1> QED
    BY <1>1, <1>2 DEF Changes

\* Nothing that a reader of the callbacks sees.
LEMMA Unseen ==
  ASSUME TypeOK, UNCHANGED <<nextSeq, owner, pending>>,
         life \in {"cancelling", "stopped"} <=> life' \in {"cancelling", "stopped"},
         \A s \in Seqs : /\ timer'[s] \in {"settling", "delivered"} <=> timer[s] \in {"settling", "delivered"}
                         /\ timer'[s] = "delivered" <=> timer[s] = "delivered"
  PROVE  UNCHANGED <<IsOpen, Changes, Waiting, Settled, Delivered>>
  <1>1. UNCHANGED Changes /\ UNCHANGED Waiting
    BY DEF Changes, Waiting
  <1>2. UNCHANGED Settled /\ UNCHANGED Delivered
    BY DEF Settled, Delivered
  <1>3. UNCHANGED IsOpen
    BY DEF IsOpen
  <1> QED
    BY <1>1, <1>2, <1>3

\* A timer that starts, expires or is dropped before it passes _fire's check shows nothing.
LEMMA OneTimerUnseen ==
  ASSUME TypeOK, UNCHANGED <<nextSeq, owner, pending, life>>, NEW x \in Seqs,
         NEW v \in {"armed", "firing", "dropped"}, timer[x] \in {"new", "armed", "firing"},
         timer' = [timer EXCEPT ![x] = v]
  PROVE  UNCHANGED <<IsOpen, Changes, Waiting, Settled, Delivered>>
  <1>1. timer \in [Seqs -> TimerState]
    BY DEF TypeOK
  <1>2. \A s \in Seqs : timer'[s] = IF s = x THEN v ELSE timer[s]
    BY <1>1
  <1> QED
    BY <1>2, Unseen

\* A step of a thread is a step of Debounce or shows nothing.
LEMMA PromiseStep ==
  WatcherInv /\ [Next]_vars => [Promise!Next]_(Promise!debounceVars)
  <1> SUFFICES ASSUME WatcherInv, [Next]_vars
               PROVE  \/ Promise!Next
                      \/ UNCHANGED <<IsOpen, Changes, Waiting, Settled, Delivered>>
    BY DEF Promise!debounceVars
  <1>0. /\ TypeOK /\ Allocation /\ PendingIsNewest
        /\ nextSeq \in Nat /\ timer \in [Seqs -> TimerState] /\ pending \in [Paths -> 0..MaxEvents]
        /\ owner \in [Seqs -> (Paths \ Excluded) \cup {NoPath}]
    BY DEF WatcherInv, TypeOK
  <1>1. ASSUME RecordEvent PROVE Promise!Next
    <2> PICK p, n : p = Head(obs.todo) /\ n = nextSeq + 1
      OBVIOUS
    <2>1. p \in Paths \ Excluded /\ n \in Seqs /\ n \notin 1..nextSeq
      BY <1>0, <1>1, Len(obs.todo) > 0 DEF RecordEvent, Allocation, TypeOK, ObsType, Seqs
    <2>2. /\ nextSeq' = n /\ pending' = [pending EXCEPT ![p] = n]
          /\ owner' = [owner EXCEPT ![n] = p] /\ timer' = [timer EXCEPT ![n] = "new"]
          /\ life' = life
      BY <1>1 DEF RecordEvent
    <2>3. Changes' = Append(Changes, p)
      <3>1. Changes' = [s \in 1..(nextSeq + 1) |-> IF s = n THEN p ELSE owner[s]]
        BY <1>0, <2>1, <2>2 DEF Changes, Seqs
      <3>2. Append(Changes, p) = [s \in 1..(nextSeq + 1) |-> IF s = n THEN p ELSE owner[s]]
        BY <1>0, ChangesFacts
      <3> QED
        BY <3>1, <3>2
    <2>4. Waiting' = {m \in Waiting : Changes[m] # p} \cup {Len(Changes) + 1}
      <3>1. \A q \in Paths : pending[q] # 0 => pending[q] \in 1..nextSeq /\ owner[pending[q]] = q
        BY <1>0 DEF PendingIsNewest, IsNewest
      <3>2. \A q \in Paths : pending[q] # 0 => Changes[pending[q]] = q
        BY <1>0, <3>1, ChangesFacts
      <3>3. \A q \in Paths : pending'[q] = IF q = p THEN n ELSE pending[q]
        BY <1>0, <2>2
      <3>4. Len(Changes) + 1 = n /\ n # 0
        BY <1>0, ChangesFacts
      <3>5. \A m : m \in Waiting' <=> m # 0 /\ \E q \in Paths : m = (IF q = p THEN n ELSE pending[q])
        BY <3>3 DEF Waiting
      <3>6. ASSUME NEW m \in Waiting PROVE m # 0 /\ \E q \in Paths : pending[q] = m /\ Changes[m] = q
        BY <3>2, <3>6 DEF Waiting
      <3>7. ASSUME NEW m \in Waiting' PROVE m = n \/ (m \in Waiting /\ Changes[m] # p)
        BY <3>2, <3>5, <3>7 DEF Waiting
      <3>8. ASSUME NEW m \in Waiting, Changes[m] # p PROVE m \in Waiting'
        BY <3>5, <3>6, <3>8
      <3>9. n \in Waiting'
        BY <2>1, <3>4, <3>5
      <3> QED
        BY <3>4, <3>7, <3>8, <3>9
    <2>5. UNCHANGED <<IsOpen, Settled, Delivered>>
      <3>1. timer[n] = "off"
        BY <1>0, <2>1 DEF Allocation, Seqs
      <3>2. UNCHANGED Settled /\ UNCHANGED Delivered
        BY <1>0, <2>1, <2>2, <3>1 DEF Settled, Delivered
      <3> QED
        BY <2>2, <3>2 DEF IsOpen
    <2> QED
      BY <2>1, <2>3, <2>4, <2>5 DEF Promise!Next, Promise!Change
  <1>2. ASSUME NEW s \in Seqs, Fire(s), pending[owner[s]] = s PROVE Promise!Next
    <2>1. owner[s] \in Paths /\ s # 0
      BY <1>0, <1>2 DEF Fire, Allocation, Seqs
    <2>2. /\ pending' = [pending EXCEPT ![owner[s]] = 0] /\ timer' = [timer EXCEPT ![s] = "settling"]
          /\ UNCHANGED <<life, nextSeq, owner>> /\ timer[s] = "firing"
      BY <1>2 DEF Fire
    <2>3. s \in Waiting
      BY <1>2, <2>1 DEF Waiting
    <2>4. Waiting' = Waiting \ {s}
      <3>1. \A q \in Paths : pending[q] = s => q = owner[s]
        BY <1>0, <2>1 DEF PendingIsNewest
      <3>2. \A q \in Paths : pending'[q] = IF q = owner[s] THEN 0 ELSE pending[q]
        BY <1>0, <2>2
      <3>3. \A m : m \in Waiting' <=> m # 0 /\ \E q \in Paths : m = (IF q = owner[s] THEN 0 ELSE pending[q])
        BY <3>2 DEF Waiting
      <3> QED
        BY <1>2, <3>1, <3>3 DEF Waiting
    <2>5. Settled' = Settled \cup {s} /\ UNCHANGED Delivered
      BY <1>0, <2>2 DEF Settled, Delivered
    <2>6. UNCHANGED IsOpen /\ UNCHANGED Changes
      BY <2>2 DEF IsOpen, Changes
    <2> QED
      BY <2>3, <2>4, <2>5, <2>6 DEF Promise!Next, Promise!Settle
  <1>3. ASSUME NEW s \in Seqs, OnSettle(s) PROVE Promise!Next
    <2>1. timer[s] = "settling" /\ timer' = [timer EXCEPT ![s] = "delivered"]
          /\ UNCHANGED <<life, nextSeq, owner, pending>>
      BY <1>3 DEF OnSettle
    <2>2. s \in Settled /\ s \notin Delivered /\ Delivered' = Delivered \cup {s} /\ UNCHANGED Settled
      BY <1>0, <2>1 DEF Settled, Delivered
    <2>3. UNCHANGED IsOpen /\ UNCHANGED Changes /\ UNCHANGED Waiting
      BY <2>1 DEF IsOpen, Changes, Waiting
    <2> QED
      BY <2>2, <2>3 DEF Promise!Next, Promise!Deliver
  <1>4. ASSUME Clear PROVE Promise!Next
    <2>1. IsOpen = TRUE /\ IsOpen' = FALSE
      BY <1>4 DEF Clear, IsOpen
    <2>2. Waiting' = {}
      BY <1>4 DEF Clear, Waiting
    <2>3. UNCHANGED Changes /\ UNCHANGED Settled /\ UNCHANGED Delivered
      BY <1>4 DEF Clear, Changes, Settled, Delivered
    <2> QED
      BY <2>1, <2>2, <2>3 DEF Promise!Next, Promise!Stop
  <1>5. ASSUME \/ Start \/ StopObserver \/ Join \/ StopReturns \/ UNCHANGED vars
               \/ \E d \in BOOLEAN, src \in Paths, dest \in Paths \cup {NoPath} : Dispatch(d, src, dest)
        PROVE  UNCHANGED <<IsOpen, Changes, Waiting, Settled, Delivered>>
    <2>1. /\ UNCHANGED <<nextSeq, owner, pending, timer>>
          /\ life \in {"cancelling", "stopped"} <=> life' \in {"cancelling", "stopped"}
      BY <1>5 DEF Start, StopObserver, Join, StopReturns, Dispatch, vars
    <2> QED
      BY <1>0, <2>1, Unseen
  <1>6. ASSUME NEW t \in 0..MaxEvents, timer' = Cancel(timer, t),
               UNCHANGED <<nextSeq, owner, pending, life>>
        PROVE  UNCHANGED <<IsOpen, Changes, Waiting, Settled, Delivered>>
    <2>1. CASE t \in Seqs /\ timer[t] \in {"new", "armed"}
      <3>1. timer' = [timer EXCEPT ![t] = "dropped"]
        BY <1>6, <2>1 DEF Cancel
      <3> QED
        BY <1>0, <1>6, <2>1, <3>1, OneTimerUnseen
    <2>2. CASE ~(t \in Seqs /\ timer[t] \in {"new", "armed"})
      <3>1. timer' = timer
        BY <1>6, <2>2 DEF Cancel
      <3> QED
        BY <1>0, <1>6, <3>1, Unseen
    <2> QED
      BY <2>1, <2>2
  <1>7. ASSUME CancelPrevious PROVE UNCHANGED <<IsOpen, Changes, Waiting, Settled, Delivered>>
    <2>1. obs.prev \in 0..MaxEvents
      BY <1>0 DEF TypeOK, ObsType
    <2>2. timer' = Cancel(timer, obs.prev) /\ UNCHANGED <<nextSeq, owner, pending, life>>
      BY <1>7 DEF CancelPrevious
    <2> QED
      BY <1>6, <2>1, <2>2
  <1>8. ASSUME NEW s \in Seqs, CancelTimer(s)
        PROVE  UNCHANGED <<IsOpen, Changes, Waiting, Settled, Delivered>>
    <2>1. s \in 0..MaxEvents
      BY WatcherAssumption DEF Seqs
    <2>2. timer' = Cancel(timer, s) /\ UNCHANGED <<nextSeq, owner, pending, life>>
      BY <1>8 DEF CancelTimer
    <2> QED
      BY <1>6, <2>1, <2>2
  <1>9. ASSUME StartTimer PROVE UNCHANGED <<IsOpen, Changes, Waiting, Settled, Delivered>>
    <2>1. UNCHANGED <<nextSeq, owner, pending, life>>
      BY <1>9 DEF StartTimer
    <2>2. CASE timer[obs.seq] = "new"
      <3>1. timer' = [timer EXCEPT ![obs.seq] = "armed"]
        BY <1>9, <2>2 DEF StartTimer
      <3>2. obs.seq \in Seqs
        BY <1>9, WatcherAssumption DEF WatcherInv, ObserverIsNewest, IsNewest, StartTimer, TypeOK, Seqs
      <3> QED
        BY <1>0, <2>1, <2>2, <3>1, <3>2, OneTimerUnseen
    <2>3. CASE timer[obs.seq] # "new"
      <3>1. timer' = timer
        BY <1>9, <2>3 DEF StartTimer
      <3> QED
        BY <1>0, <2>1, <3>1, Unseen
    <2> QED
      BY <2>2, <2>3
  <1>10. ASSUME NEW s \in Seqs, Expire(s)
         PROVE  UNCHANGED <<IsOpen, Changes, Waiting, Settled, Delivered>>
    <2>1. timer[s] = "armed" /\ timer' = [timer EXCEPT ![s] = "firing"]
          /\ UNCHANGED <<nextSeq, owner, pending, life>>
      BY <1>10 DEF Expire
    <2> QED
      BY <1>0, <2>1, OneTimerUnseen
  <1>11. ASSUME NEW s \in Seqs, Fire(s), pending[owner[s]] # s
         PROVE  UNCHANGED <<IsOpen, Changes, Waiting, Settled, Delivered>>
    <2>1. timer[s] = "firing" /\ timer' = [timer EXCEPT ![s] = "dropped"]
          /\ UNCHANGED <<nextSeq, owner, pending, life>>
      BY <1>11 DEF Fire
    <2> QED
      BY <1>0, <2>1, OneTimerUnseen
  <1> QED
    BY <1>1, <1>2, <1>3, <1>4, <1>5, <1>7, <1>8, <1>9, <1>10, <1>11 DEF Next, ObserverStep, TimerStep, StopStep

\* The watcher implements Debounce: behind the timers that are superseded, cancelled too late or
\* cleared by stop(), each newest change settles once and on_settle is called once for it.
THEOREM WatcherDebounces == Spec => Debounces
  <1>1. Init => Promise!Init
    <2> SUFFICES ASSUME Init PROVE Promise!Init
      OBVIOUS
    <2>1. Changes = <<>>
      BY DEF Init, Changes
    <2>2. Waiting = {} /\ Settled = {} /\ Delivered = {} /\ IsOpen = TRUE
      BY DEF Init, Waiting, Settled, Delivered, IsOpen
    <2> QED
      BY <2>1, <2>2 DEF Promise!Init
  <1> QED
    BY <1>1, PromiseStep, WatcherInvariant, PTL DEF Spec, Debounces, Promise!Spec
=============================================================================
