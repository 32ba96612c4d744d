------------------------------ MODULE Debounce ------------------------------
(***************************************************************************)
(* What the watcher promises of the changes it is told of, whatever its    *)
(* threads and timers do (vault/watcher.py, VaultWatcher): of the changes  *)
(* of a path the newest waits; it settles once, and on_settle is called    *)
(* once for it; only stop() forgets the changes that wait.                 *)
(***************************************************************************)
EXTENDS Naturals, Sequences

CONSTANT Watched   \* the paths outside the excluded subtrees

VARIABLES
  open,       \* stop() has not cleared what waits
  changes,    \* the path of each change, in the order of the changes
  waiting,    \* the changes that wait for their path to go quiet
  settled,    \* those whose path went quiet before the next change
  delivered   \* those that on_settle was called for

debounceVars == <<open, changes, waiting, settled, delivered>>

Init == open = TRUE /\ changes = <<>> /\ waiting = {} /\ settled = {} /\ delivered = {}

\* A change takes the place of the one of its path that waits; a late observer may bring one after stop().
Change(p) ==
  /\ changes' = Append(changes, p)
  /\ waiting' = {n \in waiting : changes[n] # p} \cup {Len(changes) + 1}
  /\ UNCHANGED <<open, settled, delivered>>

Settle(n) ==
  /\ n \in waiting
  /\ waiting' = waiting \ {n}
  /\ settled' = settled \cup {n}
  /\ UNCHANGED <<open, changes, delivered>>

Deliver(n) ==
  /\ n \in settled \ delivered
  /\ delivered' = delivered \cup {n}
  /\ UNCHANGED <<open, changes, waiting, settled>>

Stop ==
  /\ open = TRUE /\ open' = FALSE
  /\ waiting' = {}
  /\ UNCHANGED <<changes, settled, delivered>>

Next ==
  \/ \E p \in Watched : Change(p)
  \/ \E n \in waiting : Settle(n)
  \/ \E n \in settled : Deliver(n)
  \/ Stop

Spec == Init /\ [][Next]_debounceVars
=============================================================================
