------------------------------- MODULE Watcher -------------------------------
(***************************************************************************)
(* The debouncing filesystem watcher, athena.vault.watcher.VaultWatcher.   *)
(*                                                                         *)
(* Threads: the watchdog Observer (obs), one threading.Timer per recorded  *)
(* event (timer[s], s being the sequence number bound into its _fire       *)
(* call), and the thread that calls start() and stop() (life).  Only the   *)
(* blocks under self._lock are atomic; Timer.cancel, Timer.start and the   *)
(* on_settle callback happen outside it and interleave freely.             *)
(*                                                                         *)
(* Abstracted: the length of the settle window (an armed timer may expire  *)
(* at any later moment) and _last_seen, which is written and never read.   *)
(***************************************************************************)
EXTENDS Integers, Sequences

CONSTANTS
  Paths,      \* every path watchdog may report
  Excluded,   \* those under .git or .obsidian
  NoPath,     \* the missing dest_path of an event that is not a move
  MaxEvents   \* bound on recorded events

ASSUME WatcherAssumption ==
  /\ Excluded \subseteq Paths
  /\ NoPath \notin Paths
  /\ MaxEvents \in Nat

VARIABLES
  life,       \* progress of the lifecycle thread through start() and stop()
  orphaned,   \* stop()'s join(timeout) returned with the Observer still busy
  obs,        \* the Observer thread: signals left, and where _record_event is
  nextSeq,    \* self._next_sequence
  pending,    \* self._pending: path -> sequence of its timer, 0 when absent
  timer,      \* state of each Timer thread
  owner,      \* the path bound into each timer's _fire call
  toCancel    \* the timers stop() took out of _pending and still has to cancel

vars == <<life, orphaned, obs, nextSeq, pending, timer, owner, toCancel>>

Seqs == 1..MaxEvents

\* "off": no such timer yet.  "new": constructed.  "armed": started, waiting.
\* "firing": past its own cancel check, about to enter _fire's lock.
\* "settling": left the lock, about to call on_settle.
TimerState ==
  {"off", "new", "armed", "firing", "settling", "delivered", "dropped"}

Idle == [pc |-> "idle", todo |-> <<>>, seq |-> 0, prev |-> 0]

Init ==
  /\ life = "new"
  /\ orphaned = FALSE
  /\ obs = Idle
  /\ nextSeq = 0
  /\ pending = [p \in Paths |-> 0]
  /\ timer = [s \in Seqs |-> "off"]
  /\ owner = [s \in Seqs |-> NoPath]
  /\ toCancel = {}

\* Timer.cancel(): stops a timer that has not passed its check, else no effect.
Cancel(t, s) ==
  IF s \in Seqs /\ t[s] \in {"new", "armed"}
    THEN [t EXCEPT ![s] = "dropped"] ELSE t

\* _signal: a path under an excluded subtree is dropped (NoPath: no dest_path).
Signal(p) == IF p = NoPath \/ p \in Excluded THEN <<>> ELSE <<p>>

\* The handler: directories signal nothing, a move signals both of its ends.
Signals(isDirectory, src, dest) ==
  IF isDirectory THEN <<>> ELSE Signal(src) \o Signal(dest)

-----------------------------------------------------------------------------
(* start() *)

Start ==
  /\ life = "new"
  /\ life' = "started"
  /\ UNCHANGED <<orphaned, obs, nextSeq, pending, timer, owner, toCancel>>

-----------------------------------------------------------------------------
(* The Observer thread *)

Dispatch(isDirectory, src, dest) ==
  /\ life = "started"
  /\ obs = Idle
  /\ nextSeq + 2 <= MaxEvents
  /\ obs' = [Idle EXCEPT !.todo = Signals(isDirectory, src, dest)]
  /\ UNCHANGED <<life, orphaned, nextSeq, pending, timer, owner, toCancel>>

\* Mutant of RecordEvent: a path already pending keeps its old sequence.
BugRecordEvent ==
  /\ obs.pc = "idle" /\ obs.todo # <<>>
  /\ LET p == Head(obs.todo)
         s == nextSeq + 1
     IN /\ nextSeq' = s
        /\ pending' = IF pending[p] = 0 THEN [pending EXCEPT ![p] = s] ELSE pending
        /\ timer' = [timer EXCEPT ![s] = "new"]
        /\ owner' = [owner EXCEPT ![s] = p]
        /\ obs' = [pc |-> "cancel", todo |-> Tail(obs.todo), seq |-> s, prev |-> pending[p]]
  /\ UNCHANGED <<life, orphaned, toCancel>>

\* _record_event, the block under the lock: the pending entry of the path is
\* replaced wholesale, whatever its old timer is doing.
RecordEvent ==
  /\ obs.pc = "idle" /\ obs.todo # <<>>
  /\ LET p == Head(obs.todo)
         s == nextSeq + 1
     IN /\ nextSeq' = s
        /\ pending' = [pending EXCEPT ![p] = s]
        /\ timer' = [timer EXCEPT ![s] = "new"]
        /\ owner' = [owner EXCEPT ![s] = p]
        /\ obs' = [pc |-> "cancel", todo |-> Tail(obs.todo), seq |-> s, prev |-> pending[p]]
  /\ UNCHANGED <<life, orphaned, toCancel>>

\* _record_event after the lock: cancel the superseded timer ...
CancelPrevious ==
  /\ obs.pc = "cancel"
  /\ timer' = Cancel(timer, obs.prev)
  /\ obs' = [obs EXCEPT !.pc = "start"]
  /\ UNCHANGED <<life, orphaned, nextSeq, pending, owner, toCancel>>

\* Mutant of StartTimer: cancels the new timer instead of starting it.
BugStartTimer ==
  /\ obs.pc = "start"
  /\ timer' = Cancel(timer, obs.seq)
  /\ obs' = [Idle EXCEPT !.todo = obs.todo]
  /\ UNCHANGED <<life, orphaned, nextSeq, pending, owner, toCancel>>

\* ... and start the new one (which stop() may have cancelled meanwhile).
StartTimer ==
  /\ obs.pc = "start"
  /\ timer' = IF timer[obs.seq] = "new"
                THEN [timer EXCEPT ![obs.seq] = "armed"] ELSE timer
  /\ obs' = [Idle EXCEPT !.todo = obs.todo]
  /\ UNCHANGED <<life, orphaned, nextSeq, pending, owner, toCancel>>

-----------------------------------------------------------------------------
(* A Timer thread *)

Expire(s) ==
  /\ timer[s] = "armed"
  /\ timer' = [timer EXCEPT ![s] = "firing"]
  /\ UNCHANGED <<life, orphaned, obs, nextSeq, pending, owner, toCancel>>

\* Mutant of Fire: the sequence comparison is forgotten.
BugFire(s) ==
  /\ timer[s] = "firing"
  /\ IF pending[owner[s]] # 0
       THEN /\ pending' = [pending EXCEPT ![owner[s]] = 0]
            /\ timer' = [timer EXCEPT ![s] = "settling"]
       ELSE /\ timer' = [timer EXCEPT ![s] = "dropped"]
            /\ UNCHANGED pending
  /\ UNCHANGED <<life, orphaned, obs, nextSeq, owner, toCancel>>

\* _fire, the block under the lock: a superseded or stopped timer gives up.
Fire(s) ==
  /\ timer[s] = "firing"
  /\ IF pending[owner[s]] = s
       THEN /\ pending' = [pending EXCEPT ![owner[s]] = 0]
            /\ timer' = [timer EXCEPT ![s] = "settling"]
       ELSE /\ timer' = [timer EXCEPT ![s] = "dropped"]
            /\ UNCHANGED pending
  /\ UNCHANGED <<life, orphaned, obs, nextSeq, owner, toCancel>>

\* _fire after the lock: self._on_settle(path).
OnSettle(s) ==
  /\ timer[s] = "settling"
  /\ timer' = [timer EXCEPT ![s] = "delivered"]
  /\ UNCHANGED <<life, orphaned, obs, nextSeq, pending, owner, toCancel>>

-----------------------------------------------------------------------------
(* stop() *)

StopObserver ==
  /\ life = "started"
  /\ life' = "joining"
  /\ UNCHANGED <<orphaned, obs, nextSeq, pending, timer, owner, toCancel>>

\* observer.join(timeout=5.0) returns: the thread has ended, or it is late.
Join ==
  /\ life = "joining"
  /\ life' = "joined"
  /\ orphaned' = (obs # Idle)
  /\ UNCHANGED <<obs, nextSeq, pending, timer, owner, toCancel>>

\* Mutant of Clear: the timers are collected but _pending is left as it is.
BugClear ==
  /\ life = "joined"
  /\ life' = "cancelling"
  /\ toCancel' = {pending[p] : p \in Paths} \ {0}
  /\ UNCHANGED <<orphaned, obs, nextSeq, pending, timer, owner>>

\* stop() under the lock: take every pending timer out of _pending.
Clear ==
  /\ life = "joined"
  /\ life' = "cancelling"
  /\ toCancel' = {pending[p] : p \in Paths} \ {0}
  /\ pending' = [p \in Paths |-> 0]
  /\ UNCHANGED <<orphaned, obs, nextSeq, timer, owner>>

CancelTimer(s) ==
  /\ life = "cancelling"
  /\ s \in toCancel
  /\ timer' = Cancel(timer, s)
  /\ toCancel' = toCancel \ {s}
  /\ UNCHANGED <<life, orphaned, obs, nextSeq, pending, owner>>

StopReturns ==
  /\ life = "cancelling"
  /\ toCancel = {}
  /\ life' = "stopped"
  /\ UNCHANGED <<orphaned, obs, nextSeq, pending, timer, owner, toCancel>>

-----------------------------------------------------------------------------

ObserverStep == RecordEvent \/ CancelPrevious \/ StartTimer
TimerStep(s) == Expire(s) \/ Fire(s) \/ OnSettle(s)
StopStep == Join \/ Clear \/ StopReturns \/ \E s \in Seqs : CancelTimer(s)

Next ==
  \/ Start
  \/ \E isDirectory \in BOOLEAN, src \in Paths, dest \in Paths \cup {NoPath} :
       Dispatch(isDirectory, src, dest)
  \/ ObserverStep
  \/ \E s \in Seqs : TimerStep(s)
  \/ StopObserver
  \/ StopStep

Spec == Init /\ [][Next]_vars

\* The runtime schedules every started thread; nobody has to call stop().
FairSpec ==
  /\ Spec
  /\ WF_vars(ObserverStep)
  /\ \A s \in Seqs : WF_vars(TimerStep(s))
  /\ WF_vars(StopStep)

-----------------------------------------------------------------------------
(* Properties *)

ObsType ==
  [pc : {"idle", "cancel", "start"}, todo : Seq(Paths \ Excluded), seq : 0..MaxEvents,
   prev : 0..MaxEvents]

\* The type invariant of the watcher's fields and threads; nothing under an
\* excluded subtree reaches the debounce map.
TypeOK ==
  /\ life \in {"new", "started", "joining", "joined", "cancelling", "stopped"}
  /\ orphaned \in BOOLEAN
  /\ obs \in ObsType
  /\ nextSeq \in 0..MaxEvents
  /\ pending \in [Paths -> 0..MaxEvents]
  /\ timer \in [Seqs -> TimerState]
  /\ owner \in [Seqs -> (Paths \ Excluded) \cup {NoPath}]
  /\ toCancel \subseteq Seqs

\* s is the last event _record_event has seen for its path.
IsNewest(s) ==
  s \in 1..nextSeq /\ \A t \in 1..nextSeq : owner[t] = owner[s] => t <= s

\* Sequences are allocated in order, each to one timer of one path.
Allocation ==
  /\ nextSeq + Len(obs.todo) <= MaxEvents
  /\ \A s \in Seqs :
       IF s <= nextSeq THEN owner[s] \in Paths /\ timer[s] # "off"
                       ELSE owner[s] = NoPath /\ timer[s] = "off"

\* A pending entry names the newest event of its own path.
PendingIsNewest ==
  \A p \in Paths : pending[p] # 0 => IsNewest(pending[p]) /\ owner[pending[p]] = p

\* The Observer only cancels a timer older than the one it has just recorded.
ObserverIsNewest ==
  /\ obs.pc # "idle" => IsNewest(obs.seq)
  /\ obs.pc = "cancel" /\ obs.prev # 0 =>
       obs.prev < obs.seq /\ owner[obs.prev] = owner[obs.seq]

\* Once the Observer has ended and stop() has cleared it, _pending stays empty.
CleanStop ==
  /\ ~orphaned /\ life \in {"joined", "cancelling", "stopped"} => obs = Idle
  /\ ~orphaned /\ life \in {"cancelling", "stopped"} => \A p \in Paths : pending[p] = 0

\* The inductive invariant behind the safety properties below: it ties the debounce
\* map, the sequence numbers of the timers and the Observer's place in
\* _record_event together.
WatcherInv ==
  TypeOK /\ Allocation /\ PendingIsNewest /\ ObserverIsNewest /\ CleanStop

\* Until stop() clears _pending, the newest event of every path is either
\* covered by the pending entry of that path, with a timer that can still run
\* _fire, or its callback is under way or done: however the Observer, the
\* superseded timers and the new timer interleave, no change is forgotten.
NewestEventKept ==
  life \in {"new", "started", "joining", "joined"} =>
    \A s \in Seqs : IsNewest(s) =>
      \/ pending[owner[s]] = s /\ timer[s] \in {"new", "armed", "firing"}
      \/ timer[s] \in {"settling", "delivered"}

\* A timer that passes _fire's check is the newest of its path at that moment:
\* the race between cancel() and a timer already running never lets a
\* superseded timer settle the path early.
SettleOnlyNewest ==
  [][\A s \in Seqs : timer[s] = "firing" /\ timer'[s] = "settling" => IsNewest(s)]_vars

\* Once stop() has cleared _pending and the Observer had really ended, no timer
\* passes _fire's check any more.
NoSettleDecidedAfterStop ==
  [][~orphaned /\ life \in {"cancelling", "stopped"} =>
       \A s \in Seqs : ~(timer[s] = "firing" /\ timer'[s] = "settling")]_vars

\* What is left when threads, timers and their cancellation are forgotten.
IsOpen == life \notin {"cancelling", "stopped"}
Changes == [s \in 1..nextSeq |-> owner[s]]
Waiting == {pending[p] : p \in Paths} \ {0}
Settled == {s \in Seqs : timer[s] \in {"settling", "delivered"}}
Delivered == {s \in Seqs : timer[s] = "delivered"}

Promise == INSTANCE Debounce WITH
  Watched <- Paths \ Excluded, open <- IsOpen, changes <- Changes, waiting <- Waiting,
  settled <- Settled, delivered <- Delivered

\* The watcher implements Debounce: whatever timers it starts, supersedes, cancels too late or
\* clears, a reader of the callbacks sees each newest change settle once and be delivered once,
\* and nothing else.
Debounces == Promise!Spec

\* Every recorded change reaches on_settle, through its own timer or a newer
\* one of the same path, unless stop() is called.
EveryChangeSettles ==
  \A s \in Seqs :
    s <= nextSeq ~>
      \/ life # "started"
      \/ \E t \in s..nextSeq : owner[t] = owner[s] /\ timer[t] = "delivered"
=============================================================================
