----------------------------- MODULE MCWatcher ------------------------------
(* Model values for Watcher: two vault paths and one under .git; every raw   *)
(* event kind, including moves into and out of the excluded subtree.         *)
EXTENDS Watcher
=============================================================================
