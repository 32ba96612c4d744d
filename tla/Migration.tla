----------------------------- MODULE Migration ------------------------------
(***************************************************************************)
(* The schema migration runner (db/migrate.py), as `athena migrate` and    *)
(* `athena doctor` call it.  Several of these commands may run at once on  *)
(* one database, any of them may be killed at any point, and the files of  *)
(* the migrations directory may be extended or edited meanwhile.           *)
(*                                                                         *)
(* A version is the position of its file in the directory: files are       *)
(* appended to it and edited, never removed or renumbered, which is how    *)
(* the five files under db/migrations are kept.  A statement creates one   *)
(* object, and fails when the object is there: CREATE TABLE, ADD COLUMN,   *)
(* CREATE INDEX and CREATE TRIGGER alike.  SQLite is external: one writer  *)
(* at a time, a transaction is visible when it commits, and is gone when   *)
(* its process is.                                                         *)
(***************************************************************************)
EXTENDS Naturals, Sequences, FiniteSets, Functions

CONSTANTS
  Commands,     \* processes that run `athena migrate` or `athena doctor`
  Nobody,       \* no process
  Last,         \* the newest version there will ever be
  Revisions,    \* the texts a migration file may have
  Objects,      \* tables, columns, indexes and triggers
  Script,       \* Script[v][r]: the objects that text r of file v creates, in order
  MaxEdits,     \* bound: edits of migration files
  MaxCrashes    \* bound: killed processes

ASSUME MigrationAssumption ==
  /\ Last \in Nat /\ MaxEdits \in Nat /\ MaxCrashes \in Nat
  /\ Nobody \notin Commands /\ Revisions # {}
  /\ Script \in [1..Last -> [Revisions -> Seq(Objects)]]

VARIABLES
  files,        \* the migrations directory: files[v] is the text of file v
  objects,      \* what the committed schema consists of
  rows,         \* schema_migrations: version -> recorded checksum
  userVersion,  \* PRAGMA user_version
  writer,       \* the command that holds SQLite's write lock, or Nobody
  run,          \* the state of each command
  edits, crashes

vars == <<files, objects, rows, userVersion, writer, run, edits, crashes>>
db == <<objects, rows, userVersion>>
env == <<files, edits, crashes>>

Versions == 1..Last
Unread == CHOOSE r \in Revisions : TRUE    \* before a file is read
Places == {"off", "verify", "version", "checksum", "text", "script"}
Verdicts == {"none", "drift", "failed", "behind", "current"}

\* Of a command: `listed` is how many files discover_migrations found, `at` the
\* version its loop has come to, `sum` and `text` the two readings of that
\* file, `done` the statements executed and `made` what they created.
Commanded ==
  [place : Places, task : {"migrate", "doctor"}, listed : 0..Last, at : 0..Last + 1,
   sum : Revisions, text : Revisions, done : Nat, made : SUBSET Objects,
   verdict : Verdicts]

TypeOK ==
  /\ files \in Seq(Revisions) /\ Len(files) <= Last
  /\ objects \subseteq Objects
  /\ DOMAIN rows \subseteq Versions /\ rows \in [DOMAIN rows -> Revisions]
  /\ userVersion \in 0..Last
  /\ writer \in Commands \cup {Nobody}
  /\ run \in [Commands -> Commanded]
  /\ edits \in 0..MaxEdits /\ crashes \in 0..MaxCrashes

Init ==
  /\ files = <<>> /\ objects = {} /\ rows = <<>> /\ userVersion = 0
  /\ writer = Nobody
  /\ run = [c \in Commands |->
              [place |-> "off", task |-> "migrate", listed |-> 0, at |-> 0, sum |-> Unread,
               text |-> Unread, done |-> 0, made |-> {}, verdict |-> "none"]]
  /\ edits = 0 /\ crashes = 0

-----------------------------------------------------------------------------
(* Steps of one command.                                                    *)

At(c, place) == run[c].place = place
Goto(c, r) == run' = [run EXCEPT ![c] = r]

\* The command is over; what it left unfinished is forgotten.
Over(r, v) ==
  [r EXCEPT !.place = "off", !.task = "migrate", !.at = 0, !.sum = Unread, !.text = Unread,
            !.done = 0, !.made = {}, !.verdict = v]

\* Back at the head of the loop, with version v next.
Loop(r, v) ==
  IF v > r.listed THEN Over(r, "current")
  ELSE [r EXCEPT !.place = "checksum", !.at = v, !.sum = Unread, !.text = Unread,
                 !.done = 0, !.made = {}]

Rollback(c) == writer' = IF writer = c THEN Nobody ELSE writer

\* discover_migrations, by a new command.
Start(c, task) ==
  /\ At(c, "off")
  /\ Goto(c, [run[c] EXCEPT !.place = "verify", !.task = task, !.at = 0,
                            !.listed = Len(files), !.verdict = "none"])
  /\ UNCHANGED <<db, writer, env>>

\* _verify_applied_checksums: an applied file is gone from the list or is not
\* the text that was recorded.
Drifted(listed) == \E v \in DOMAIN rows : v > listed \/ files[v] # rows[v]

Verify(c) ==
  /\ At(c, "verify")
  /\ Goto(c, IF Drifted(run[c].listed) THEN Over(run[c], "drift")
             ELSE [run[c] EXCEPT !.place = "version"])
  /\ UNCHANGED <<db, writer, env>>

UpToDate(listed) == userVersion >= listed

\* A bug: the loop without its `continue`.
BugReadVersion(c) ==
  /\ At(c, "version")
  /\ Goto(c, IF run[c].task = "migrate" THEN Loop(run[c], 1)
             ELSE Over(run[c], IF UpToDate(run[c].listed) THEN "current" ELSE "behind"))
  /\ UNCHANGED <<db, writer, env>>

\* _user_version: doctor reports on it, migrate loops over what is newer.  It
\* is read once, outside any transaction.
ReadVersion(c) ==
  /\ At(c, "version")
  /\ Goto(c, IF run[c].task = "migrate" THEN Loop(run[c], userVersion + 1)
             ELSE Over(run[c], IF UpToDate(run[c].listed) THEN "current" ELSE "behind"))
  /\ UNCHANGED <<db, writer, env>>

\* The file is read for its checksum, and read again for its statements.
Checksum(c) ==
  /\ At(c, "checksum")
  /\ Goto(c, [run[c] EXCEPT !.place = "text", !.sum = files[run[c].at]])
  /\ UNCHANGED <<db, writer, env>>

ReadScript(c) ==
  /\ At(c, "text")
  /\ Goto(c, [run[c] EXCEPT !.place = "script", !.text = files[run[c].at]])
  /\ UNCHANGED <<db, writer, env>>

Statements(c) == Script[run[c].at][run[c].text]
Statement(c) == Statements(c)[run[c].done + 1]
Locked(c) == writer \notin {c, Nobody}

\* A bug: executescript(), which commits every statement by itself.
BugExecute(c) ==
  /\ At(c, "script") /\ ~Locked(c)
  /\ run[c].done < Len(Statements(c))
  /\ Statement(c) \notin objects
  /\ objects' = objects \cup {Statement(c)}
  /\ Goto(c, [run[c] EXCEPT !.done = @ + 1])
  /\ UNCHANGED <<rows, userVersion, writer, env>>

\* One statement, inside the command's transaction.
Execute(c) ==
  /\ At(c, "script") /\ ~Locked(c)
  /\ run[c].done < Len(Statements(c))
  /\ Statement(c) \notin objects \cup run[c].made
  /\ writer' = c
  /\ Goto(c, [run[c] EXCEPT !.done = @ + 1, !.made = @ \cup {Statement(c)}])
  /\ UNCHANGED <<db, env>>

\* A bug: schema_migrations without its primary key.
BugRecorded(c) == FALSE

Recorded(c) == run[c].at \in DOMAIN rows

\* The row of schema_migrations, the PRAGMA and COMMIT.
Commit(c) ==
  /\ At(c, "script") /\ ~Locked(c)
  /\ run[c].done = Len(Statements(c))
  /\ ~Recorded(c)
  /\ objects' = objects \cup run[c].made
  /\ rows' = [v \in DOMAIN rows \cup {run[c].at} |->
                IF v = run[c].at THEN run[c].sum ELSE rows[v]]
  /\ userVersion' = run[c].at
  /\ Rollback(c)
  /\ Goto(c, Loop(run[c], run[c].at + 1))
  /\ UNCHANGED env

\* What raises inside the transaction: an object that is there, a version that
\* is recorded, or another writer for longer than busy_timeout.
Refused(c) ==
  \/ Locked(c)
  \/ /\ run[c].done < Len(Statements(c))
     /\ Statement(c) \in objects \cup run[c].made
  \/ /\ run[c].done = Len(Statements(c))
     /\ Recorded(c)

\* The rollback, and MigrationError: nothing further is attempted.
Fail(c) ==
  /\ At(c, "script")
  /\ Refused(c)
  /\ Rollback(c)
  /\ Goto(c, Over(run[c], "failed"))
  /\ UNCHANGED <<db, env>>

Crash(c) ==
  /\ ~At(c, "off")
  /\ crashes < MaxCrashes
  /\ crashes' = crashes + 1
  /\ Rollback(c)
  /\ Goto(c, Over(run[c], "none"))
  /\ UNCHANGED <<db, files, edits>>

-----------------------------------------------------------------------------
(* The migrations directory.                                                *)

\* A release adds the next file.
Release(r) ==
  /\ Len(files) < Last
  /\ files' = Append(files, r)
  /\ UNCHANGED <<db, writer, run, edits, crashes>>

\* A file is edited, applied or not.
Edit(v, r) ==
  /\ edits < MaxEdits /\ files[v] # r
  /\ files' = [files EXCEPT ![v] = r]
  /\ edits' = edits + 1
  /\ UNCHANGED <<db, writer, run, crashes>>

-----------------------------------------------------------------------------

Work(c) ==
  \/ Verify(c)
  \/ ReadVersion(c)
  \/ Checksum(c)
  \/ ReadScript(c)
  \/ Execute(c)
  \/ Commit(c)
  \/ Fail(c)

Next ==
  \/ \E c \in Commands : Work(c)
  \/ \E c \in Commands, task \in {"migrate", "doctor"} : Start(c, task)
  \/ \E c \in Commands : Crash(c)
  \/ \E r \in Revisions : Release(r)
  \/ \E v \in 1..Len(files), r \in Revisions : Edit(v, r)

Spec == Init /\ [][Next]_vars

\* A command that runs comes to an end, and the operator runs `athena migrate`
\* again and again, other commands in between: "safe to fix the file and re-run" (migration-runner-and-vault-
\* ingestion.md:285).
FairSpec ==
  /\ Spec
  /\ \A c \in Commands : WF_vars(Work(c)) /\ SF_vars(Start(c, "migrate"))

-----------------------------------------------------------------------------
(* Properties.                                                              *)

\* What the loop and the transaction of a command rest on.
CommandOK(c) ==
  LET r == run[c] IN
  /\ r.place \in {"checksum", "text", "script"} => r.at \in 1..r.listed
  /\ r.listed <= Len(files)
  /\ r.place \in {"checksum", "text", "script"} => r.at <= userVersion + 1
  /\ r.place # "script" => r.made = {} /\ r.done = 0
  /\ r.place = "script" =>
       /\ r.done \in 0..Len(Statements(c))
       /\ r.made = {Statements(c)[i] : i \in 1..r.done}
       /\ r.done > 0 => writer = c
       /\ r.made \cap objects = {}
  /\ writer = c => r.place = "script"

\* The schema consists of whole migrations: there is a text for every version
\* up to user_version, and none beyond, such that the schema is exactly what
\* these texts create; and the audit table has a row for each.  It holds with
\* several migrators that read user_version before they begin, edits between
\* their readings, failures and kills in the middle of a file.
WholeMigrations ==
  /\ DOMAIN rows = 1..userVersion
  /\ \E ran \in [1..userVersion -> Revisions] :
       objects = UNION {Range(Script[v][ran[v]]) : v \in 1..userVersion}

\* A verdict stays true: when `athena migrate` has ended well, or `athena
\* doctor` said that the schema is up to date, every file it had listed is
\* applied, whatever other commands do before or after.
VerdictHolds ==
  \A c \in Commands :
    run[c].place = "off" /\ run[c].verdict = "current" =>
      1..run[c].listed \subseteq DOMAIN rows

MigrationInv ==
  /\ TypeOK
  /\ \A c \in Commands : CommandOK(c)
  /\ WholeMigrations
  /\ VerdictHolds

\* The runner keeps the promise of Schema.
Promise == INSTANCE Schema WITH level <- userVersion, tables <- objects

KeepsPromise == Promise!Spec

\* The files apply cleanly after what is applied, and nothing applied has
\* been edited since.
Sound ==
  /\ ~Drifted(Len(files))
  /\ \A v \in (userVersion + 1)..Len(files) :
       LET s == Script[v][files[v]] IN
       /\ \A i, j \in DOMAIN s : i # j => s[i] # s[j]
       /\ Range(s) \cap objects = {}
       /\ \A u \in (userVersion + 1)..(v - 1) :
            Range(s) \cap Range(Script[u][files[u]]) = {}

\* Once the files are sound, running migrate again brings the schema to the
\* newest version, whatever was left behind by failures, kills and migrators
\* that met: no lock, no half migration and no row bars the way.
Recovers == <>[]Sound => <>[](userVersion = Len(files))
=============================================================================
