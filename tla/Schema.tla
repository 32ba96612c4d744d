------------------------------- MODULE Schema -------------------------------
(***************************************************************************)
(* What `athena migrate` promises of the database, whoever runs it and     *)
(* however often (db/migrate.py, apply_pending_migrations): the schema     *)
(* climbs one version at a time, and a version arrives whole or not at     *)
(* all.  There is one file per version, and a file may have been revised   *)
(* before it was applied, so which revision arrives is left open.          *)
(***************************************************************************)
EXTENDS Naturals, Sequences, Functions

CONSTANTS
  Last,        \* the newest version there will ever be
  Revisions,   \* the texts a migration file may have
  Script       \* Script[v][r]: the objects that text r of file v creates, in order

VARIABLES
  level,       \* the version of the schema
  tables       \* its tables, columns, indexes and triggers

schemaVars == <<level, tables>>

Creates(v, r) == Range(Script[v][r])

Init == level = 0 /\ tables = {}

\* The next version arrives, with every object its file creates and none of
\* them there before.
Upgrade(r) ==
  /\ level < Last
  /\ Creates(level + 1, r) \cap tables = {}
  /\ level' = level + 1
  /\ tables' = tables \cup Creates(level + 1, r)

Next == \E r \in Revisions : Upgrade(r)

Spec == Init /\ [][Next]_schemaVars
=============================================================================
