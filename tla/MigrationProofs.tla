-------------------------- MODULE MigrationProofs ---------------------------
(***************************************************************************)
(* Proofs about Migration, for every number of commands, of versions and   *)
(* of texts: the schema always consists of whole migrations in order, a    *)
(* verdict stays true, and the runner implements Schema.                   *)
(***************************************************************************)
EXTENDS Migration, TLAPS

\* The part of MigrationInv that is inductive by itself.
CoreInv == TypeOK /\ (\A c \in Commands : CommandOK(c)) /\ WholeMigrations

-----------------------------------------------------------------------------
(* The records of commands.                                                 *)

\* Revisions is not empty: there is a text to stand for one not read yet.
LEMMA UnreadType == Unread \in Revisions
  BY MigrationAssumption DEF Unread

\* What a command that is over looks like.
LEMMA OverFacts ==
  ASSUME NEW r \in Commanded, NEW v \in Verdicts
  PROVE  /\ Over(r, v) \in Commanded
         /\ Over(r, v).place = "off" /\ Over(r, v).made = {} /\ Over(r, v).done = 0
         /\ Over(r, v).listed = r.listed /\ Over(r, v).verdict = v
<1>1. 0 \in 0..Last + 1 /\ 0 \in Nat
  BY MigrationAssumption
<1> QED BY <1>1, UnreadType DEF Over, Commanded, Places

\* What a command at the head of its loop looks like.
LEMMA LoopFacts ==
  ASSUME NEW r \in Commanded, NEW v \in 1..Last + 1
  PROVE  /\ Loop(r, v) \in Commanded
         /\ Loop(r, v).made = {} /\ Loop(r, v).done = 0
         /\ Loop(r, v).listed = r.listed
         /\ Loop(r, v).place \in {"off", "checksum"}
         /\ v > r.listed => Loop(r, v).place = "off" /\ Loop(r, v).verdict = "current"
         /\ v <= r.listed =>
              /\ Loop(r, v).place = "checksum" /\ Loop(r, v).at = v
              /\ Loop(r, v).verdict = r.verdict
<1>1. CASE v > r.listed
  <2>1. Loop(r, v) = Over(r, "current")
    BY <1>1 DEF Loop
  <2>2. r.listed \in Nat /\ v \in Nat /\ "current" \in Verdicts
    BY MigrationAssumption DEF Commanded, Verdicts
  <2> QED BY <1>1, <2>1, <2>2, OverFacts
<1>2. CASE ~(v > r.listed)
  <2>1. Loop(r, v) = [r EXCEPT !.place = "checksum", !.at = v, !.sum = Unread,
                               !.text = Unread, !.done = 0, !.made = {}]
    BY <1>2 DEF Loop
  <2>2. v \in 0..Last + 1 /\ 0 \in Nat /\ v \in Nat /\ r.listed \in Nat
    BY MigrationAssumption DEF Commanded
  <2>3. Loop(r, v) \in Commanded
    BY <2>1, <2>2, UnreadType DEF Commanded, Places
  <2>4. /\ Loop(r, v).made = {} /\ Loop(r, v).done = 0
        /\ Loop(r, v).listed = r.listed /\ Loop(r, v).place = "checksum"
        /\ Loop(r, v).at = v /\ Loop(r, v).verdict = r.verdict
    BY <2>1 DEF Commanded
  <2> QED BY <1>2, <2>2, <2>3, <2>4
<1> QED BY <1>1, <1>2

\* The statements of the file a command is executing.
LEMMA StatementsType ==
  ASSUME TypeOK, NEW c \in Commands, run[c].at \in 1..Last
  PROVE  /\ Statements(c) \in Seq(Objects)
         /\ Len(Statements(c)) \in Nat
         /\ \A i \in 1..Len(Statements(c)) : Statements(c)[i] \in Objects
         /\ Range(Statements(c)) = {Statements(c)[i] : i \in 1..Len(Statements(c))}
<1>1. run[c].text \in Revisions
  BY DEF TypeOK, Commanded
<1>2. Statements(c) \in Seq(Objects)
  BY <1>1, MigrationAssumption DEF Statements
<1> QED BY <1>2 DEF Range

\* A step of one command leaves the others' invariant alone, if no committed
\* version or listed file is taken back and what it commits is committed under
\* the lock.
LEMMA OthersOK ==
  ASSUME CoreInv, NEW c \in Commands, NEW r, Goto(c, r),
         NEW d \in Commands, d # c,
         Len(files') >= Len(files), Len(files') \in Nat,
         userVersion' \in 0..Last, userVersion' >= userVersion,
         objects' = objects \/ writer \in {c, Nobody},
         writer = d => writer' = d, writer' = d => writer = d
  PROVE  CommandOK(d)'
<1>1. run'[d] = run[d] /\ d # Nobody /\ c # Nobody
  BY MigrationAssumption DEF Goto, CoreInv, TypeOK
<1>2. Statements(d)' = Statements(d)
  BY <1>1 DEF Statements
<1>3. CommandOK(d) /\ run[d] \in Commanded
  BY DEF CoreInv, TypeOK
<1>4. run[d].at \in Nat /\ run[d].listed \in Nat /\ userVersion \in Nat
      /\ userVersion' \in Nat /\ run[d].done \in Nat /\ Len(files) \in Nat
  BY <1>3, MigrationAssumption DEF Commanded, CoreInv, TypeOK
<1>5. run'[d].place = "script" => run'[d].made \cap objects' = {}
  <2>1. CASE objects' = objects
    BY <2>1, <1>1, <1>3 DEF CommandOK
  <2>2. CASE writer \in {c, Nobody}
    <3>1. ASSUME run[d].place = "script"
          PROVE run[d].made = {}
      <4>1. writer # d
        BY <2>2, <1>1
      <4>2. run[d].done = 0
        BY <4>1, <3>1, <1>3, <1>4 DEF CommandOK
      <4>3. run[d].made = {Statements(d)[i] : i \in 1..0}
        BY <4>2, <3>1, <1>3 DEF CommandOK
      <4> QED BY <4>3
    <3> QED BY <3>1, <1>1
  <2> QED BY <2>1, <2>2
<1>6. writer' = d <=> writer = d
  BY <1>1
<1> QED
  <2>1. run'[d].place \in {"checksum", "text", "script"} =>
          run'[d].at \in 1..run'[d].listed /\ run'[d].at <= userVersion' + 1
    BY <1>1, <1>3, <1>4 DEF CommandOK
  <2>2. run'[d].listed <= Len(files')
    BY <1>1, <1>3, <1>4 DEF CommandOK
  <2>3. run'[d].place # "script" => run'[d].made = {} /\ run'[d].done = 0
    BY <1>1, <1>3 DEF CommandOK
  <2>4. run'[d].place = "script" =>
          /\ run'[d].done \in 0..Len(Statements(d)')
          /\ run'[d].made = {Statements(d)'[i] : i \in 1..run'[d].done}
          /\ run'[d].done > 0 => writer' = d
    BY <1>1, <1>2, <1>3, <1>6 DEF CommandOK
  <2>5. writer' = d => run'[d].place = "script"
    BY <1>1, <1>3, <1>6 DEF CommandOK
  <2> QED BY <2>1, <2>2, <2>3, <2>4, <2>5, <1>5 DEF CommandOK

-----------------------------------------------------------------------------
(* Steps that change nothing but their command.                             *)

\* A command that reads, or goes off, outside a transaction.
LEMMA QuietStep ==
  ASSUME CoreInv, NEW c \in Commands, NEW r \in Commanded, Goto(c, r),
         UNCHANGED <<db, writer, env>>,
         writer # c, r.listed <= Len(files), r.made = {}, r.done = 0,
         r.place \in {"checksum", "text", "script"} =>
           r.at \in 1..r.listed /\ r.at <= userVersion + 1
  PROVE  CoreInv'
<1> USE DEF db, env
<1>1. run'[c] = r /\ run' \in [Commands -> Commanded]
  BY DEF CoreInv, TypeOK, Goto
<1>2. TypeOK'
  BY <1>1 DEF CoreInv, TypeOK
<1>3. Len(files) \in Nat /\ userVersion \in 0..Last
  BY DEF CoreInv, TypeOK
<1>4. CommandOK(c)'
  <2>1. Len(Statements(c)') \in Nat \/ r.place # "script"
    <3>1. CASE r.place = "script"
      <4>1. run'[c].at \in 1..Last
        BY <3>1, <1>1, <1>3, MigrationAssumption DEF Commanded
      <4>2. run'[c].text \in Revisions
        BY <1>1 DEF Commanded
      <4>3. Statements(c)' \in Seq(Objects)
        BY <4>1, <4>2, MigrationAssumption DEF Statements
      <4> QED BY <4>3
    <3> QED BY <3>1
  <2>2. {Statements(c)'[i] : i \in 1..0} = {}
    OBVIOUS
  <2> QED BY <1>1, <2>1, <2>2 DEF CommandOK
<1>5. ASSUME NEW d \in Commands, d # c PROVE CommandOK(d)'
  BY <1>3, <1>5, OthersOK DEF CoreInv, TypeOK
<1>6. WholeMigrations'
  BY DEF CoreInv, WholeMigrations
<1> QED BY <1>2, <1>4, <1>5, <1>6 DEF CoreInv

\* What holds of a command that is not in its transaction.
LEMMA Outside ==
  ASSUME CoreInv, NEW c \in Commands, run[c].place # "script"
  PROVE  /\ writer # c /\ run[c] \in Commanded
         /\ run[c].listed <= Len(files) /\ run[c].listed \in Nat
         /\ run[c].made = {} /\ run[c].done = 0
         /\ run[c].place \in {"checksum", "text"} =>
              run[c].at \in 1..run[c].listed /\ run[c].at <= userVersion + 1
<1>1. CommandOK(c) /\ run[c] \in Commanded
  BY DEF CoreInv, TypeOK
<1> QED BY <1>1 DEF CommandOK, Commanded

\* A new command lists the files that are there.
LEMMA StartStep ==
  ASSUME CoreInv, NEW c \in Commands, NEW task \in {"migrate", "doctor"}, Start(c, task)
  PROVE  CoreInv'
<1> DEFINE r == [run[c] EXCEPT !.place = "verify", !.task = task, !.at = 0,
                               !.listed = Len(files), !.verdict = "none"]
<1>1. run[c].place # "script"
  BY DEF Start, At
<1>2. Len(files) \in 0..Last /\ 0 \in 0..Last + 1 /\ Len(files) <= Len(files)
  BY MigrationAssumption DEF CoreInv, TypeOK
<1>3. r \in Commanded /\ r.place = "verify" /\ r.made = {} /\ r.done = 0
      /\ r.listed = Len(files)
  BY <1>1, <1>2, Outside DEF Commanded, Places, Verdicts
<1>4. Goto(c, r) /\ UNCHANGED <<db, writer, env>>
  BY DEF Start
<1> HIDE DEF r
<1> QED BY <1>1, <1>2, <1>3, <1>4, Outside, QuietStep

\* The applied files are compared with what was recorded.
LEMMA VerifyStep ==
  ASSUME CoreInv, NEW c \in Commands, Verify(c)
  PROVE  CoreInv'
<1> DEFINE s == [run[c] EXCEPT !.place = "version"]
<1>1. run[c].place # "script"
  BY DEF Verify, At
<1>2. "drift" \in Verdicts
  BY DEF Verdicts
<1>3. s \in Commanded /\ s.place = "version" /\ s.made = {} /\ s.done = 0
      /\ s.listed = run[c].listed
  BY <1>1, Outside DEF Commanded, Places
<1>4. UNCHANGED <<db, writer, env>> /\ (Goto(c, Over(run[c], "drift")) \/ Goto(c, s))
  BY DEF Verify
<1>5. CASE Goto(c, Over(run[c], "drift"))
  BY <1>1, <1>2, <1>4, <1>5, Outside, OverFacts, QuietStep
<1>6. CASE Goto(c, s)
  <2> HIDE DEF s
  <2> QED BY <1>1, <1>3, <1>4, <1>6, Outside, QuietStep
<1> QED BY <1>4, <1>5, <1>6

\* The version is read before any transaction: it can only grow until then.
LEMMA ReadVersionStep ==
  ASSUME CoreInv, NEW c \in Commands, ReadVersion(c)
  PROVE  CoreInv'
<1>1. run[c].place # "script" /\ run[c] \in Commanded
  BY DEF ReadVersion, At, CoreInv, TypeOK
<1>2. userVersion + 1 \in 1..Last + 1 /\ userVersion \in Nat
  BY MigrationAssumption DEF CoreInv, TypeOK
<1>3. UNCHANGED <<db, writer, env>>
  BY DEF ReadVersion
<1>4. CASE Goto(c, Loop(run[c], userVersion + 1))
  <2> DEFINE r == Loop(run[c], userVersion + 1)
  <2>1. /\ r \in Commanded /\ r.made = {} /\ r.done = 0 /\ r.listed = run[c].listed
        /\ r.place \in {"off", "checksum"}
        /\ userVersion + 1 > run[c].listed => r.place = "off"
        /\ userVersion + 1 <= run[c].listed => r.at = userVersion + 1
    BY <1>1, <1>2, LoopFacts
  <2>2. r.place = "checksum" => r.at \in 1..r.listed /\ r.at <= userVersion + 1
    BY <1>1, <1>2, <2>1, Outside
  <2>3. Goto(c, r)
    BY <1>4
  <2> HIDE DEF r
  <2> QED BY <1>1, <1>3, <2>1, <2>2, <2>3, Outside, QuietStep
<1>5. ASSUME NEW v \in Verdicts, Goto(c, Over(run[c], v))
      PROVE  CoreInv'
  BY <1>1, <1>3, <1>5, Outside, OverFacts, QuietStep
<1>6. \/ Goto(c, Loop(run[c], userVersion + 1))
      \/ Goto(c, Over(run[c], "current"))
      \/ Goto(c, Over(run[c], "behind"))
  BY DEF ReadVersion
<1>7. "current" \in Verdicts /\ "behind" \in Verdicts
  BY DEF Verdicts
<1> QED BY <1>4, <1>5, <1>6, <1>7

\* The first reading of a file.
LEMMA ChecksumStep ==
  ASSUME CoreInv, NEW c \in Commands, Checksum(c)
  PROVE  CoreInv'
<1> DEFINE r == [run[c] EXCEPT !.place = "text", !.sum = files[run[c].at]]
<1>1. run[c].place = "checksum" /\ run[c].place # "script"
  BY DEF Checksum, At
<1>2. files[run[c].at] \in Revisions
  BY <1>1, Outside DEF CoreInv, TypeOK
<1>3. r \in Commanded /\ r.place = "text" /\ r.made = {} /\ r.done = 0
      /\ r.listed = run[c].listed /\ r.at = run[c].at
  BY <1>1, <1>2, Outside DEF Commanded, Places
<1>4. Goto(c, r) /\ UNCHANGED <<db, writer, env>>
  BY DEF Checksum
<1> HIDE DEF r
<1> QED BY <1>1, <1>3, <1>4, Outside, QuietStep

\* The second reading of it.
LEMMA ReadScriptStep ==
  ASSUME CoreInv, NEW c \in Commands, ReadScript(c)
  PROVE  CoreInv'
<1> DEFINE r == [run[c] EXCEPT !.place = "script", !.text = files[run[c].at]]
<1>1. run[c].place = "text" /\ run[c].place # "script"
  BY DEF ReadScript, At
<1>2. files[run[c].at] \in Revisions
  BY <1>1, Outside DEF CoreInv, TypeOK
<1>3. r \in Commanded /\ r.place = "script" /\ r.made = {} /\ r.done = 0
      /\ r.listed = run[c].listed /\ r.at = run[c].at
  BY <1>1, <1>2, Outside DEF Commanded, Places
<1>4. Goto(c, r) /\ UNCHANGED <<db, writer, env>>
  BY DEF ReadScript
<1> HIDE DEF r
<1> QED BY <1>1, <1>3, <1>4, Outside, QuietStep

-----------------------------------------------------------------------------
(* Steps inside a transaction, and its end.                                 *)

\* What holds of a command in its transaction.
LEMMA Inside ==
  ASSUME CoreInv, NEW c \in Commands, run[c].place = "script"
  PROVE  /\ run[c] \in Commanded
         /\ run[c].listed <= Len(files) /\ run[c].listed \in Nat
         /\ run[c].at \in 1..run[c].listed /\ run[c].at \in Versions
         /\ run[c].at <= userVersion + 1
         /\ run[c].done \in 0..Len(Statements(c))
         /\ run[c].made = {Statements(c)[i] : i \in 1..run[c].done}
         /\ run[c].made \cap objects = {}
<1>1. CommandOK(c) /\ run[c] \in Commanded
  BY DEF CoreInv, TypeOK
<1>2. Len(files) \in Nat /\ Len(files) <= Last /\ Last \in Nat
  BY MigrationAssumption DEF CoreInv, TypeOK
<1> QED BY <1>1, <1>2 DEF CommandOK, Commanded, Versions

\* A statement creates an object that is neither committed nor made before.
LEMMA ExecuteStep ==
  ASSUME CoreInv, NEW c \in Commands, Execute(c)
  PROVE  CoreInv'
<1> DEFINE r == [run[c] EXCEPT !.done = @ + 1, !.made = @ \cup {Statement(c)}]
<1>1. /\ run[c].place = "script" /\ writer \in {c, Nobody} /\ writer' = c
      /\ run[c].done < Len(Statements(c)) /\ Statement(c) \notin objects
      /\ UNCHANGED <<db, env>> /\ Goto(c, r)
  BY DEF Execute, At, Locked
<1>2. /\ Statements(c) \in Seq(Objects) /\ Len(Statements(c)) \in Nat
      /\ \A i \in 1..Len(Statements(c)) : Statements(c)[i] \in Objects
  BY <1>1, Inside, StatementsType DEF Versions, CoreInv
<1>3. run[c].done \in Nat /\ run[c].done + 1 \in 1..Len(Statements(c))
  BY <1>1, <1>2, Inside
<1>4. Statement(c) \in Objects
  BY <1>2, <1>3 DEF Statement
<1>5. /\ r \in Commanded /\ r.place = "script" /\ r.done = run[c].done + 1
      /\ r.made = run[c].made \cup {Statement(c)}
      /\ r.listed = run[c].listed /\ r.at = run[c].at /\ r.text = run[c].text
  <2>1. run[c] \in Commanded
    BY <1>1, Inside
  <2>2. run[c].done + 1 \in Nat /\ run[c].made \cup {Statement(c)} \in SUBSET Objects
    BY <1>3, <1>4, <2>1 DEF Commanded
  <2>3. r = [run[c] EXCEPT !.done = run[c].done + 1, !.made = run[c].made \cup {Statement(c)}]
    OBVIOUS
  <2> QED BY <1>1, <2>1, <2>2, <2>3 DEF Commanded
<1> HIDE DEF r
<1>6. run'[c] = r /\ run' \in [Commands -> Commanded]
  BY <1>1, <1>5 DEF CoreInv, TypeOK, Goto
<1>7. TypeOK'
  BY <1>1, <1>6 DEF CoreInv, TypeOK, db, env
<1>8. CommandOK(c)'
  <2>1. Statements(c)' = Statements(c)
    BY <1>5, <1>6 DEF Statements
  <2>2. r.made = {Statements(c)[i] : i \in 1..r.done}
    <3>1. 1..r.done = 1..run[c].done \cup {run[c].done + 1}
      BY <1>3, <1>5
    <3> QED BY <1>1, <1>5, <3>1, Inside DEF Statement
  <2>3. r.made \cap objects = {}
    BY <1>1, <1>5, Inside
  <2>4. r.done \in 0..Len(Statements(c))
    BY <1>2, <1>3, <1>5
  <2>5. r.at \in 1..r.listed /\ r.listed <= Len(files) /\ r.at <= userVersion + 1
    BY <1>1, <1>5, Inside
  <2>6. userVersion' = userVersion /\ files' = files /\ objects' = objects
    BY <1>1 DEF db, env
  <2> QED BY <1>1, <1>5, <1>6, <2>1, <2>2, <2>3, <2>4, <2>5, <2>6 DEF CommandOK
<1>9. ASSUME NEW d \in Commands, d # c PROVE CommandOK(d)'
  <2>1. /\ Len(files') >= Len(files) /\ Len(files') \in Nat /\ userVersion' \in 0..Last
        /\ userVersion' >= userVersion /\ objects' = objects
    BY <1>1 DEF db, env, CoreInv, TypeOK
  <2>2. (writer = d => writer' = d) /\ (writer' = d => writer = d)
    BY <1>1, <1>9, MigrationAssumption
  <2> QED BY <1>1, <1>9, <2>1, <2>2, OthersOK
<1>10. WholeMigrations'
  BY <1>1 DEF CoreInv, WholeMigrations, db
<1> QED BY <1>7, <1>8, <1>9, <1>10 DEF CoreInv

\* The version a command commits is the next one: an earlier one is recorded,
\* and it cannot have skipped any.
LEMMA CommitsNext ==
  ASSUME CoreInv, NEW c \in Commands, Commit(c)
  PROVE  /\ run[c].at = userVersion + 1 /\ userVersion' = userVersion + 1
         /\ userVersion + 1 \in Versions
         /\ run[c].made = Range(Statements(c))
         /\ run[c].made \subseteq Objects
<1>1. run[c].place = "script" /\ run[c].at \notin DOMAIN rows
      /\ run[c].done = Len(Statements(c)) /\ userVersion' = run[c].at
  BY DEF Commit, At, Recorded
<1>2. DOMAIN rows = 1..userVersion /\ userVersion \in Nat
  BY MigrationAssumption DEF CoreInv, WholeMigrations, TypeOK
<1>3. run[c].at \in Versions /\ run[c].at <= userVersion + 1
  BY <1>1, Inside
<1>4. run[c].at = userVersion + 1
  BY <1>1, <1>2, <1>3, MigrationAssumption DEF Versions
<1>5. run[c].made = Range(Statements(c))
  BY <1>1, <1>3, Inside, StatementsType DEF CoreInv, Versions
<1>6. run[c] \in Commanded
  BY DEF CoreInv, TypeOK
<1> QED BY <1>1, <1>3, <1>4, <1>5, <1>6 DEF Commanded

\* One more whole migration.
LEMMA CommitStep ==
  ASSUME CoreInv, NEW c \in Commands, Commit(c)
  PROVE  CoreInv'
<1> DEFINE r == Loop(run[c], run[c].at + 1)
<1>1. /\ run[c].place = "script" /\ writer \in {c, Nobody}
      /\ objects' = objects \cup run[c].made
      /\ rows' = [v \in DOMAIN rows \cup {run[c].at} |->
                    IF v = run[c].at THEN run[c].sum ELSE rows[v]]
      /\ Rollback(c) /\ Goto(c, r) /\ UNCHANGED env
  BY DEF Commit, At, Locked
<1>2. /\ run[c].at = userVersion + 1 /\ userVersion' = userVersion + 1
      /\ userVersion + 1 \in Versions /\ userVersion \in Nat /\ userVersion' \in 0..Last
      /\ run[c].made = Range(Statements(c)) /\ run[c].made \subseteq Objects
  BY CommitsNext, MigrationAssumption DEF CoreInv, TypeOK, Versions
<1>3. /\ run[c] \in Commanded /\ run[c].listed <= Len(files) /\ run[c].listed \in Nat
      /\ run[c].at \in 1..run[c].listed
  BY <1>1, Inside
<1>4. writer' = Nobody /\ c # Nobody
  BY <1>1, MigrationAssumption DEF Rollback
<1>5. /\ r \in Commanded /\ r.made = {} /\ r.done = 0 /\ r.listed = run[c].listed
      /\ r.place \in {"off", "checksum"}
      /\ r.place = "checksum" => r.at = run[c].at + 1 /\ r.at <= r.listed
  <2>1. run[c].at + 1 \in 1..Last + 1
    BY <1>2, MigrationAssumption DEF Versions
  <2>2. /\ r \in Commanded /\ r.made = {} /\ r.done = 0 /\ r.listed = run[c].listed
        /\ r.place \in {"off", "checksum"}
        /\ run[c].at + 1 > run[c].listed => r.place = "off"
        /\ run[c].at + 1 <= run[c].listed => r.at = run[c].at + 1
    <3>1. run[c] \in Commanded
      BY <1>3
    <3> HIDE DEF r
    <3>2. r = Loop(run[c], run[c].at + 1)
      BY DEF r
    <3> QED BY <2>1, <3>1, <3>2, LoopFacts
  <2>3. run[c].at \in Nat
    BY <1>3
  <2> HIDE DEF r
  <2> QED BY <1>3, <2>2, <2>3
<1> HIDE DEF r
<1>6. run'[c] = r /\ run' \in [Commands -> Commanded]
  BY <1>1, <1>5 DEF CoreInv, TypeOK, Goto
<1>7. /\ DOMAIN rows' = 1..userVersion'
      /\ DOMAIN rows' \subseteq Versions /\ rows' \in [DOMAIN rows' -> Revisions]
  <2>1. DOMAIN rows = 1..userVersion /\ rows \in [DOMAIN rows -> Revisions]
    BY DEF CoreInv, TypeOK, WholeMigrations
  <2>2. DOMAIN rows \cup {run[c].at} = 1..(userVersion + 1)
    BY <1>2, <2>1
  <2>3. run[c].sum \in Revisions
    BY <1>3 DEF Commanded
  <2> QED BY <1>1, <1>2, <2>1, <2>2, <2>3, MigrationAssumption DEF Versions
<1>8. TypeOK'
  BY <1>1, <1>2, <1>4, <1>6, <1>7 DEF CoreInv, TypeOK, env
<1>9. CommandOK(c)'
  <2>1. r.place = "checksum" => r.at \in 1..r.listed /\ r.at <= userVersion' + 1
    BY <1>2, <1>3, <1>5
  <2>2. files' = files
    BY <1>1 DEF env
  <2> QED BY <1>3, <1>4, <1>5, <1>6, <2>1, <2>2 DEF CommandOK
<1>10. ASSUME NEW d \in Commands, d # c PROVE CommandOK(d)'
  <2>1. /\ Len(files') >= Len(files) /\ Len(files') \in Nat
        /\ userVersion' >= userVersion
    BY <1>1, <1>2 DEF env, CoreInv, TypeOK
  <2>2. (writer = d => writer' = d) /\ (writer' = d => writer = d)
    BY <1>1, <1>4, <1>10, MigrationAssumption
  <2> QED BY <1>1, <1>2, <1>10, <2>1, <2>2, OthersOK
<1>11. WholeMigrations'
  <2>1. PICK ran \in [1..userVersion -> Revisions] :
          objects = UNION {Range(Script[v][ran[v]]) : v \in 1..userVersion}
    BY DEF CoreInv, WholeMigrations
  <2> DEFINE now == [v \in 1..(userVersion + 1) |->
                       IF v = userVersion + 1 THEN run[c].text ELSE ran[v]]
  <2>2. now \in [1..(userVersion + 1) -> Revisions]
    <3>1. run[c].text \in Revisions
      BY <1>3 DEF Commanded
    <3>2. ASSUME NEW v \in 1..(userVersion + 1), v # userVersion + 1
          PROVE  ran[v] \in Revisions
      BY <1>2, <3>2
    <3> QED BY <3>1, <3>2
  <2>3. run[c].made = Range(Script[userVersion + 1][now[userVersion + 1]])
    BY <1>2 DEF Statements
  <2>4. ASSUME NEW v \in 1..userVersion PROVE now[v] = ran[v]
    BY <1>2
  <2>5. 1..(userVersion + 1) = 1..userVersion \cup {userVersion + 1}
    BY <1>2
  <2> HIDE DEF now
  <2>6. objects' = UNION {Range(Script[v][now[v]]) : v \in 1..(userVersion + 1)}
    BY <1>1, <2>1, <2>3, <2>4, <2>5
  <2> QED BY <1>2, <1>7, <2>2, <2>6 DEF WholeMigrations
<1> QED BY <1>8, <1>9, <1>10, <1>11 DEF CoreInv

\* A rollback leaves nothing behind but the command's own record.
LEMMA RollbackStep ==
  ASSUME CoreInv, NEW c \in Commands, NEW v \in Verdicts,
         Rollback(c), Goto(c, Over(run[c], v)), UNCHANGED <<db, files>>,
         edits' \in 0..MaxEdits, crashes' \in 0..MaxCrashes
  PROVE  CoreInv'
<1>1. CommandOK(c) /\ run[c] \in Commanded /\ c # Nobody
  BY MigrationAssumption DEF CoreInv, TypeOK
<1>2. /\ Over(run[c], v) \in Commanded
      /\ Over(run[c], v).place = "off" /\ Over(run[c], v).made = {}
      /\ Over(run[c], v).done = 0 /\ Over(run[c], v).listed = run[c].listed
  BY <1>1, OverFacts
<1>3. run'[c] = Over(run[c], v) /\ run' \in [Commands -> Commanded]
  BY <1>2 DEF CoreInv, TypeOK, Goto
<1>4. writer' # c /\ writer' \in Commands \cup {Nobody} /\ writer' \in {writer, Nobody}
  BY <1>1 DEF Rollback, CoreInv, TypeOK
<1>5. TypeOK'
  BY <1>3, <1>4 DEF CoreInv, TypeOK, db
<1>6. CommandOK(c)'
  BY <1>1, <1>2, <1>3, <1>4 DEF CommandOK
<1>7. ASSUME NEW d \in Commands, d # c PROVE CommandOK(d)'
  <2>1. /\ Len(files') >= Len(files) /\ Len(files') \in Nat /\ userVersion' \in 0..Last
        /\ userVersion' >= userVersion /\ objects' = objects
    BY DEF db, CoreInv, TypeOK
  <2>2. (writer = d => writer' = d) /\ (writer' = d => writer = d)
    BY <1>7, MigrationAssumption DEF Rollback
  <2> QED BY <1>7, <2>1, <2>2, OthersOK
<1>8. WholeMigrations'
  BY DEF CoreInv, WholeMigrations, db
<1> QED BY <1>5, <1>6, <1>7, <1>8 DEF CoreInv

\* Every way a transaction fails ends in a rollback.
LEMMA FailStep ==
  ASSUME CoreInv, NEW c \in Commands, Fail(c)
  PROVE  CoreInv'
<1>1. /\ Rollback(c) /\ Goto(c, Over(run[c], "failed")) /\ UNCHANGED <<db, env>>
  BY DEF Fail
<1>2. "failed" \in Verdicts /\ edits' \in 0..MaxEdits /\ crashes' \in 0..MaxCrashes
      /\ UNCHANGED <<db, files>>
  BY <1>1 DEF Verdicts, env, CoreInv, TypeOK
<1> QED BY <1>1, <1>2, RollbackStep

\* So does a kill.
LEMMA CrashStep ==
  ASSUME CoreInv, NEW c \in Commands, Crash(c)
  PROVE  CoreInv'
<1>1. /\ Rollback(c) /\ Goto(c, Over(run[c], "none")) /\ UNCHANGED <<db, files, edits>>
      /\ crashes < MaxCrashes /\ crashes' = crashes + 1
  BY DEF Crash
<1>2. "none" \in Verdicts /\ edits' \in 0..MaxEdits /\ crashes' \in 0..MaxCrashes
  BY <1>1, MigrationAssumption DEF Verdicts, CoreInv, TypeOK
<1> QED BY <1>1, <1>2, RollbackStep

-----------------------------------------------------------------------------
(* The migrations directory.                                                *)

\* The directory grows and changes under the commands; what they have listed
\* stays there.
LEMMA DirectoryStep ==
  ASSUME CoreInv, UNCHANGED <<db, writer, run>>,
         files' \in Seq(Revisions), Len(files') <= Last, Len(files') >= Len(files),
         edits' \in 0..MaxEdits, crashes' = crashes
  PROVE  CoreInv'
<1>1. TypeOK'
  BY DEF CoreInv, TypeOK, db
<1>2. ASSUME NEW d \in Commands PROVE CommandOK(d)'
  <2>1. CommandOK(d) /\ run[d] \in Commanded
    BY DEF CoreInv, TypeOK
  <2>2. Statements(d)' = Statements(d)
    BY DEF Statements
  <2>3. run[d].listed <= Len(files')
    <3>1. run[d].listed \in Nat /\ Len(files) \in Nat /\ Len(files') \in Nat
      BY <2>1 DEF Commanded, CoreInv, TypeOK
    <3> QED BY <2>1, <3>1 DEF CommandOK
  <2> QED BY <2>1, <2>2, <2>3 DEF CommandOK, db
<1>3. WholeMigrations'
  BY DEF CoreInv, WholeMigrations, db
<1> QED BY <1>1, <1>2, <1>3 DEF CoreInv

-----------------------------------------------------------------------------
(* The theorems.                                                            *)

LEMMA CoreInit == Init => CoreInv
<1> SUFFICES ASSUME Init PROVE CoreInv
  OBVIOUS
<1>1. TypeOK
  <2>1. 0 \in 0..Last /\ 0 \in 0..Last + 1 /\ 0 \in Nat /\ 0 \in 0..MaxEdits
        /\ 0 \in 0..MaxCrashes
    BY MigrationAssumption
  <2>2. run \in [Commands -> Commanded]
    BY <2>1, UnreadType DEF Init, Commanded, Places, Verdicts
  <2>3. <<>> \in Seq(Revisions) /\ Len(<<>>) = 0 /\ DOMAIN <<>> = {}
    OBVIOUS
  <2>4. files \in Seq(Revisions) /\ Len(files) <= Last
    BY <2>3, MigrationAssumption DEF Init
  <2>5. DOMAIN rows \subseteq Versions /\ rows \in [DOMAIN rows -> Revisions]
    BY <2>3 DEF Init
  <2> QED BY <2>1, <2>2, <2>4, <2>5 DEF Init, TypeOK
<1>2. ASSUME NEW c \in Commands PROVE CommandOK(c)
  <2>1. run[c].place = "off" /\ run[c].listed = 0 /\ run[c].made = {} /\ run[c].done = 0
    BY DEF Init
  <2>2. Len(files) = 0 /\ writer # c
    BY MigrationAssumption DEF Init
  <2> QED BY <2>1, <2>2 DEF CommandOK
<1>3. WholeMigrations
  <2>1. 1..userVersion = {} /\ DOMAIN rows = {} /\ objects = {}
    BY DEF Init
  <2>2. [v \in {} |-> Unread] \in [1..userVersion -> Revisions]
    BY <2>1
  <2> DEFINE ran == [v \in {} |-> Unread]
  <2>3. objects = UNION {Range(Script[v][ran[v]]) : v \in 1..userVersion}
    BY <2>1
  <2> QED BY <2>1, <2>2, <2>3 DEF WholeMigrations
<1> QED BY <1>1, <1>2, <1>3 DEF CoreInv

\* Every step keeps the invariant.
LEMMA CoreStep == CoreInv /\ [Next]_vars => CoreInv'
<1> SUFFICES ASSUME CoreInv, [Next]_vars PROVE CoreInv'
  OBVIOUS
<1>1. ASSUME NEW c \in Commands, Work(c) PROVE CoreInv'
  BY <1>1, VerifyStep, ReadVersionStep, ChecksumStep, ReadScriptStep, ExecuteStep,
     CommitStep, FailStep DEF Work
<1>2. ASSUME NEW c \in Commands, NEW task \in {"migrate", "doctor"}, Start(c, task)
      PROVE  CoreInv'
  BY <1>2, StartStep
<1>3. ASSUME NEW c \in Commands, Crash(c) PROVE CoreInv'
  BY <1>3, CrashStep
<1>4. ASSUME NEW r \in Revisions, Release(r) PROVE CoreInv'
  <2>1. files' = Append(files, r) /\ Len(files) < Last /\ files \in Seq(Revisions)
        /\ UNCHANGED <<db, writer, run, edits, crashes>>
    BY <1>4 DEF Release, CoreInv, TypeOK
  <2>2. files' \in Seq(Revisions) /\ Len(files') = Len(files) + 1 /\ Len(files) \in Nat
    BY <2>1
  <2>3. Len(files') <= Last /\ Len(files') >= Len(files)
    BY <2>1, <2>2, MigrationAssumption
  <2> QED BY <2>1, <2>2, <2>3, DirectoryStep DEF CoreInv, TypeOK
<1>5. ASSUME NEW v \in 1..Len(files), NEW r \in Revisions, Edit(v, r) PROVE CoreInv'
  <2>1. files' = [files EXCEPT ![v] = r] /\ files \in Seq(Revisions)
        /\ edits < MaxEdits /\ edits' = edits + 1
        /\ UNCHANGED <<db, writer, run, crashes>>
    BY <1>5 DEF Edit, CoreInv, TypeOK
  <2>2. files' \in Seq(Revisions) /\ Len(files') = Len(files) /\ Len(files) \in Nat
    BY <2>1
  <2>3. edits' \in 0..MaxEdits
    BY <2>1, MigrationAssumption DEF CoreInv, TypeOK
  <2> QED BY <2>1, <2>2, <2>3, DirectoryStep DEF CoreInv, TypeOK
<1>6. CASE UNCHANGED vars
  <2>1. UNCHANGED <<db, writer, run>> /\ UNCHANGED <<files, edits, crashes>>
    BY <1>6 DEF vars, db
  <2>2. Len(files) \in Nat
    BY DEF CoreInv, TypeOK
  <2> QED BY <2>1, <2>2, DirectoryStep DEF CoreInv, TypeOK
<1> QED BY <1>1, <1>2, <1>3, <1>4, <1>5, <1>6 DEF Next

\* A verdict of "current" is given when user_version has reached the listed
\* files, and user_version never falls.
LEMMA VerdictStep ==
  ASSUME CoreInv, CoreInv', VerdictHolds, [Next]_vars
  PROVE  VerdictHolds'
<1>1. /\ userVersion \in Nat /\ userVersion' \in Nat
      /\ DOMAIN rows = 1..userVersion /\ DOMAIN rows' = 1..userVersion'
  BY DEF CoreInv, WholeMigrations, TypeOK
<1>2. userVersion' = userVersion \/ \E c \in Commands : Commit(c)
  BY DEF Next, Work, Verify, ReadVersion, Checksum, ReadScript, Execute, Fail, Start,
         Crash, Release, Edit, vars, db
<1>3. userVersion' >= userVersion
  <2>1. ASSUME NEW c \in Commands, Commit(c) PROVE userVersion' = userVersion + 1
    BY <2>1, CommitsNext
  <2> QED BY <1>1, <1>2, <2>1
<1>4. SUFFICES ASSUME NEW d \in Commands, run'[d].place = "off",
                      run'[d].verdict = "current"
               PROVE  run'[d].listed <= userVersion'
  <2>1. ASSUME NEW d \in Commands, run'[d].listed <= userVersion'
        PROVE  1..run'[d].listed \subseteq DOMAIN rows'
    <3>1. run'[d].listed \in 0..Last
      BY DEF CoreInv, TypeOK, Commanded
    <3>2. run'[d].listed \in Nat
      BY <3>1, MigrationAssumption
    <3> QED BY <1>1, <2>1, <3>2
  <2> QED BY <2>1 DEF VerdictHolds
<1>5. run[d] \in Commanded /\ run[d].listed \in Nat
  <2>1. run[d] \in Commanded
    BY DEF CoreInv, TypeOK
  <2>2. run[d].listed \in 0..Last
    BY <2>1 DEF Commanded
  <2> QED BY <2>1, <2>2, MigrationAssumption
<1>6. CASE run'[d] = run[d]
  <2>1. 1..run[d].listed \subseteq 1..userVersion
    BY <1>1, <1>4, <1>6 DEF VerdictHolds
  <2>2. run[d].listed <= userVersion
    BY <1>1, <1>5, <2>1
  <2> QED BY <1>1, <1>3, <1>5, <1>6, <2>2
<1>7. ASSUME NEW r, run' = [run EXCEPT ![d] = r]
      PROVE  run'[d] = r
  BY <1>7 DEF CoreInv, TypeOK
<1>8. ASSUME NEW v \in Verdicts, v # "current" PROVE ~Goto(d, Over(run[d], v))
  BY <1>4, <1>5, <1>7, <1>8, OverFacts DEF Goto
<1>9. ASSUME Verify(d) PROVE FALSE
  <2>1. "drift" \in Verdicts
    BY DEF Verdicts
  <2>2. Goto(d, [run[d] EXCEPT !.place = "version"])
    BY <1>8, <1>9, <2>1 DEF Verify
  <2>3. [run[d] EXCEPT !.place = "version"].place = "version"
    BY <1>5 DEF Commanded
  <2> QED BY <1>4, <1>7, <2>2, <2>3 DEF Goto
<1>10. ASSUME NEW v \in 1..Last + 1, Goto(d, Loop(run[d], v)), userVersion' + 1 >= v
       PROVE  run'[d].listed <= userVersion'
  <2>1. run'[d] = Loop(run[d], v)
    BY <1>7, <1>10 DEF Goto
  <2>2. v > run[d].listed
    <3>1. v \in Nat
      BY MigrationAssumption
    <3>2. ~(v <= run[d].listed)
      BY <1>4, <1>5, <2>1, LoopFacts
    <3> QED BY <1>5, <3>1, <3>2
  <2>3. run'[d].listed = run[d].listed
    BY <1>5, <2>1, LoopFacts
  <2>4. v \in Nat
    BY MigrationAssumption
  <2>5. userVersion' + 1 >= v /\ userVersion' \in Nat
    BY <1>1, <1>10
  <2>6. \A l, u, w \in Nat : w > l /\ u + 1 >= w => l <= u
    OBVIOUS
  <2>7. run[d].listed <= userVersion'
    BY <1>5, <2>2, <2>4, <2>5, <2>6, Zenon
  <2> QED BY <2>3, <2>7
<1>11. ASSUME ReadVersion(d) PROVE run'[d].listed <= userVersion'
  <2>1. userVersion' = userVersion /\ userVersion + 1 \in 1..Last + 1
    BY <1>11, MigrationAssumption DEF ReadVersion, db, CoreInv, TypeOK
  <2>2. CASE Goto(d, Loop(run[d], userVersion + 1))
    BY <1>1, <1>10, <2>1, <2>2
  <2>3. CASE UpToDate(run[d].listed) /\ Goto(d, Over(run[d], "current"))
    <3>1. run'[d].listed = run[d].listed
      BY <1>5, <1>7, <2>3, OverFacts DEF Goto, Verdicts
    <3> QED BY <1>1, <1>5, <2>1, <2>3, <3>1 DEF UpToDate
  <2>4. CASE Goto(d, Over(run[d], "behind"))
    BY <1>8, <2>4 DEF Verdicts
  <2> QED BY <1>11, <2>2, <2>3, <2>4 DEF ReadVersion
<1>12. ASSUME Commit(d) PROVE run'[d].listed <= userVersion'
  <2>1. run[d].at + 1 \in 1..Last + 1 /\ userVersion' + 1 >= run[d].at + 1
    BY <1>1, <1>12, CommitsNext, MigrationAssumption DEF Versions
  <2> QED BY <1>10, <1>12, <2>1 DEF Commit
<1>13. ASSUME NEW r, Goto(d, r), r.place # "off" PROVE FALSE
  BY <1>4, <1>7, <1>13 DEF Goto
<1>14. ASSUME Checksum(d) \/ ReadScript(d) \/ Execute(d)
              \/ \E task \in {"migrate", "doctor"} : Start(d, task)
       PROVE  FALSE
  BY <1>5, <1>13, <1>14 DEF Checksum, ReadScript, Execute, Start, At, Commanded
<1>15. ASSUME Fail(d) \/ Crash(d) PROVE FALSE
  BY <1>8, <1>15 DEF Fail, Crash, Verdicts
<1>16. ASSUME NEW c \in Commands, c # d,
              Work(c) \/ Crash(c) \/ \E task \in {"migrate", "doctor"} : Start(c, task)
       PROVE  run'[d] = run[d]
  BY <1>16 DEF Work, Verify, ReadVersion, Checksum, ReadScript, Execute, Commit, Fail,
               Start, Crash, Goto, CoreInv, TypeOK
<1> QED
  BY <1>6, <1>9, <1>11, <1>12, <1>14, <1>15, <1>16
     DEF Next, Work, Release, Edit, vars

\* Whatever commands run, fail or are killed, the schema is made of whole
\* migrations and what was reported of it stays true.
THEOREM MigrationInvariant == Spec => []MigrationInv
<1>1. Init => CoreInv /\ VerdictHolds
  BY CoreInit DEF Init, VerdictHolds
<1>2. (CoreInv /\ VerdictHolds) /\ [Next]_vars => (CoreInv /\ VerdictHolds)'
  BY CoreStep, VerdictStep
<1>3. CoreInv /\ VerdictHolds => MigrationInv
  BY DEF CoreInv, MigrationInv
<1> QED BY <1>1, <1>2, <1>3, PTL DEF Spec

\* The runner implements Schema: only a commit is visible, and it is the next
\* version with all its objects and none that were there.
THEOREM MigrationKeepsPromise == Spec => KeepsPromise
<1>1. Init => Promise!Init
  BY DEF Init, Promise!Init
<1>2. CoreInv /\ [Next]_vars => [Promise!Next]_<<userVersion, objects>>
  <2> SUFFICES ASSUME CoreInv, [Next]_vars
               PROVE  [Promise!Next]_<<userVersion, objects>>
    OBVIOUS
  <2>1. ASSUME NEW c \in Commands, Commit(c) PROVE Promise!Next
    <3>1. /\ userVersion' = userVersion + 1 /\ userVersion + 1 \in Versions
          /\ run[c].at = userVersion + 1 /\ run[c].made = Range(Statements(c))
      BY <2>1, CommitsNext
    <3>2. /\ run[c].place = "script" /\ objects' = objects \cup run[c].made
      BY <2>1 DEF Commit, At
    <3>3. run[c].made \cap objects = {} /\ run[c].text \in Revisions
      BY <3>2, Inside DEF Commanded
    <3>4. Promise!Creates(userVersion + 1, run[c].text) = run[c].made
      BY <3>1 DEF Promise!Creates, Promise!Range, Range, Statements
    <3>5. userVersion < Last
      BY <3>1, MigrationAssumption DEF Versions, CoreInv, TypeOK
    <3>6. Promise!Upgrade(run[c].text)
      BY <3>1, <3>2, <3>3, <3>4, <3>5 DEF Promise!Upgrade
    <3> QED BY <3>3, <3>6 DEF Promise!Next
  <2>2. (\E c \in Commands : Commit(c)) \/ UNCHANGED <<userVersion, objects>>
    BY DEF Next, Work, Verify, ReadVersion, Checksum, ReadScript, Execute, Fail, Start,
           Crash, Release, Edit, vars, db
  <2> QED BY <2>1, <2>2
<1>3. Spec => []CoreInv
  BY CoreInit, CoreStep, PTL DEF Spec
<1> QED BY <1>1, <1>2, <1>3, PTL DEF Spec, KeepsPromise, Promise!Spec, Promise!schemaVars
=============================================================================
