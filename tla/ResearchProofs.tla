--------------------------- MODULE ResearchProofs ---------------------------
(***************************************************************************)
(* For any paths, URLs, clients, retries and faults: the safety of         *)
(* research commits, against other commits, ingestion, the user and        *)
(* crashes.                                                                *)
(***************************************************************************)
EXTENDS Research, FiniteSetTheorems, TLAPS

USE DEF Consumer, Ingesting

\* What the consumer read is what the file holds, unless another ingestion is due or was
\* given up; and then its hash is that of the redacted file.
ReadIsFresh ==
  Ingesting =>
    \/ worker.path \in signals \cup skipped
    \/ /\ worker.text = files[worker.path]
       /\ worker.pc = "ingest" /\ worker.text # NoFile => worker.hash = Redact(worker.text)

FilesInv == UsersFilesKept /\ SecretsAccounted
Inv == ResearchInv /\ FilesInv /\ ResultIsTraced /\ ReadIsFresh /\ NothingForgotten

-----------------------------------------------------------------------------
(* The values.                                                              *)

LEMMA TextFacts ==
  /\ NoFile \in Files /\ Texts \subseteq Files /\ Drafts \subseteq Texts /\ UserTexts \subseteq Texts
  /\ ~Leaky(NoFile)
  /\ \A t \in Texts : \A S : Mask(t, S) \in Texts
  /\ \A t \in Drafts : \A S : Mask(t, S) \in Drafts
  /\ \A t \in Texts : ~Leaky(Redact(t))
<1>1. NoFile \in Files /\ Texts \subseteq Files /\ Drafts \subseteq Texts /\ UserTexts \subseteq Texts
  BY DEF Files, Drafts, UserTexts
<1>2. ~Leaky(NoFile)
  BY ResearchAssumption DEF Leaky, Raw
<1>3. ASSUME NEW t \in Texts, NEW S
      PROVE  /\ Mask(t, S) \in Texts /\ Mask(t, S).edited = t.edited
             /\ \A u \in Urls : Mask(t, S).parts[u] = IF u \in S THEN "masked" ELSE t.parts[u]
  BY DEF Mask, Texts
<1>4. \A t \in Drafts : \A S : Mask(t, S) \in Drafts
  BY <1>3 DEF Drafts, UserTexts
<1>5. ASSUME NEW t \in Texts
      PROVE  ~Leaky(Redact(t))
  <2>1. PICK S : S = Raw(t)
    OBVIOUS
  <2>2. \A u \in Leaks : u \in S \/ t.parts[u] # "raw"
    BY <2>1 DEF Raw
  <2>3. \A u \in Leaks : Mask(t, S).parts[u] # "raw"
    BY <1>3, <2>2, ResearchAssumption
  <2>4. Raw(Mask(t, S)) = {}
    BY <2>3 DEF Raw
  <2> QED BY <2>1, <2>4 DEF Redact, Leaky
<1> QED BY <1>1, <1>2, <1>3, <1>4, <1>5

LEMMA RecordFacts ==
  /\ Idle \in Call /\ Idle.pc = "idle" /\ Idle.body = NoFile
  /\ Resting \in Executed /\ Resting.pc = "idle"
  /\ \A n \in 0..MaxNotes : /\ Tracing(n) \in Call
                            /\ Tracing(n).pc = "trace" /\ Tracing(n).note = n
<1>1. 0 \in 0..MaxNotes
  BY ResearchAssumption
<1> QED BY <1>1 DEF Idle, Resting, Tracing, Call, Executed, Files

\* Ids are handed out in order.
LEMMA NextIdFacts ==
  ASSUME NEW k \in Nat, NEW S, S = 1..k
  PROVE  Cardinality(S) = k
  BY FS_Interval

\* What an INSERT does.
LEMMA InsertFacts ==
  ASSUME TypeOK, NEW p \in Paths, NEW h \in Texts, NEW o \in {"human", "web_research"},
         Insert(p, h, o)
  PROVE  /\ \E k \in 0..MaxNotes : notes' \in [1..k -> Note]
         /\ NextId \in 0..MaxNotes /\ NextId \notin DOMAIN notes
         /\ DOMAIN notes' = DOMAIN notes \cup {NextId}
         /\ \A n \in DOMAIN notes : notes'[n] = notes[n]
         /\ notes'[NextId] = Row(p, h, o)
<1>1. PICK k \in 0..MaxNotes : notes \in [1..k -> Note]
  BY DEF TypeOK
<1>2. k \in Nat /\ DOMAIN notes = 1..k
  BY <1>1, ResearchAssumption
<1>3. NextId = k + 1
  BY <1>2, NextIdFacts DEF NextId
<1>4. k + 1 \in 1..MaxNotes /\ 1..k \cup {k + 1} = 1..(k + 1)
  BY <1>2, <1>3, ResearchAssumption DEF Insert, NoteIds
<1>5. Row(p, h, o) \in Note
  BY DEF Row, Note
<1>6. notes' = [n \in 1..(k + 1) |-> IF n = k + 1 THEN Row(p, h, o) ELSE notes[n]]
  BY <1>2, <1>3, <1>4 DEF Insert
<1>7. notes' \in [1..(k + 1) -> Note]
  BY <1>1, <1>2, <1>5, <1>6
<1> QED BY <1>2, <1>3, <1>4, <1>6, <1>7, ResearchAssumption

\* What an UPDATE of one row does.
LEMMA ChangeFacts ==
  ASSUME TypeOK, NEW n \in DOMAIN notes, NEW row \in Note, Change(n, row)
  PROVE  /\ \E k \in 0..MaxNotes : notes' \in [1..k -> Note]
         /\ DOMAIN notes' = DOMAIN notes
         /\ notes'[n] = row
         /\ \A m \in DOMAIN notes : m # n => notes'[m] = notes[m]
<1>1. PICK k \in 0..MaxNotes : notes \in [1..k -> Note]
  BY DEF TypeOK
<1>2. notes' \in [1..k -> Note]
  BY <1>1 DEF Change
<1> QED BY <1>1, <1>2 DEF Change

\* The fields of a row that is updated.
LEMMA RowFacts ==
  ASSUME TypeOK, NEW n \in DOMAIN notes
  PROVE  /\ notes[n] \in Note /\ n \in 0..MaxNotes
         /\ [notes[n] EXCEPT !.traced = TRUE] \in Note
         /\ [notes[n] EXCEPT !.deleted = TRUE] \in Note
         /\ \A p \in Paths : [notes[n] EXCEPT !.path = p] \in Note
         /\ \A h \in Texts : [notes[n] EXCEPT !.hash = h] \in Note
<1>1. PICK k \in 0..MaxNotes : notes \in [1..k -> Note]
  BY DEF TypeOK
<1>2. notes[n] \in Note /\ n \in 1..k
  BY <1>1
<1>3. n \in 0..MaxNotes
  BY <1>2, ResearchAssumption
<1> QED BY <1>2, <1>3 DEF Note

\* The records the steps start from.
LEMMA TypeFacts ==
  ASSUME TypeOK
  PROVE  /\ \A c \in Clients : call[c] \in Call
         /\ worker \in Executed /\ worker.text \in Files
         /\ Ingesting => worker.path \in Paths
         /\ \A p \in Paths : files[p] \in Files
  BY DEF TypeOK, Call, Executed

\* What the user writes is a text of the user's.
LEMMA HandwrittenFacts ==
  ASSUME TypeOK
  PROVE  Handwritten \subseteq UserTexts /\ UserTexts \subseteq Files
<1>1. ASSUME NEW q \in Paths, files[q] # NoFile
      PROVE  files[q].parts \in [Urls -> {"none", "raw", "masked"}]
  BY <1>1, TypeFacts DEF Files, Texts
<1>2. [u \in Urls |-> "none"] \in [Urls -> {"none", "raw", "masked"}]
  OBVIOUS
<1>3. \A s \in [Urls -> {"none", "raw", "masked"}] : [parts |-> s, edited |-> TRUE] \in UserTexts
  BY DEF Texts, UserTexts
<1> QED BY <1>1, <1>2, <1>3, TextFacts DEF Handwritten

-----------------------------------------------------------------------------
(* The steps of a commit, of the worker and of the others.                  *)

LEMMA GotoFacts ==
  ASSUME TypeOK, NEW c \in Clients,
         NEW pc \in {"idle", "open", "scan", "redact", "unlink", "create", "trace", "result"},
         Goto(c, pc)
  PROVE  /\ call' \in [Clients -> Call]
         /\ call'[c] = [call[c] EXCEPT !.pc = pc]
         /\ call'[c].pc = pc /\ call'[c].path = call[c].path
         /\ call'[c].body = call[c].body /\ call'[c].note = call[c].note
         /\ call'[c].scanned = call[c].scanned
         /\ \A d \in Clients : d # c => call'[d] = call[d]
<1>1. call[c] \in Call /\ call \in [Clients -> Call]
  BY DEF TypeOK
<1>2. call' = [call EXCEPT ![c] = [call[c] EXCEPT !.pc = pc]]
  BY <1>1 DEF Goto
<1>3. [call[c] EXCEPT !.pc = pc] \in Call
  BY <1>1 DEF Call
<1>4. call'[c] = [call[c] EXCEPT !.pc = pc]
  BY <1>1, <1>2
<1> QED BY <1>1, <1>2, <1>3, <1>4 DEF Call

LEMMA SetCallFacts ==
  ASSUME TypeOK, NEW c \in Clients, NEW r \in Call, call' = [call EXCEPT ![c] = r]
  PROVE  /\ call' \in [Clients -> Call]
         /\ call'[c] = r
         /\ \A d \in Clients : d # c => call'[d] = call[d]
  BY DEF TypeOK

LEMMA MaskedFacts ==
  ASSUME TypeOK, NEW c \in Clients, call[c].body \in Drafts, NEW S
  PROVE  /\ Masked(c, S) \in Call /\ Masked(c, S).pc = "create"
         /\ Masked(c, S).path = call[c].path
         /\ Masked(c, S).body = Mask(call[c].body, S) /\ Masked(c, S).body \in Drafts
<1>1. Mask(call[c].body, S) \in Drafts /\ call[c] \in Call
  BY TextFacts DEF TypeOK
<1> QED BY <1>1, TextFacts DEF Masked, Call, Files

\* A scan that finds something has its text.
LEMMA ScannedFacts ==
  ASSUME TypeOK, NEW c \in Clients, NEW t \in Files,
         call' = [call EXCEPT ![c].pc = "redact", ![c].scanned = t]
  PROVE  /\ call' \in [Clients -> Call]
         /\ call'[c].pc = "redact" /\ call'[c].scanned = t
         /\ call'[c].path = call[c].path /\ call'[c].body = call[c].body
         /\ \A d \in Clients : d # c => call'[d] = call[d]
<1>1. PICK r : r = [call[c] EXCEPT !.pc = "redact", !.scanned = t]
  OBVIOUS
<1>2. call[c] \in Call /\ call \in [Clients -> Call]
  BY DEF TypeOK
<1>3. r \in Call /\ r.pc = "redact" /\ r.scanned = t /\ r.path = call[c].path /\ r.body = call[c].body
  BY <1>1, <1>2 DEF Call
<1>4. call' = [call EXCEPT ![c] = r]
  BY <1>1, <1>2
<1> QED BY <1>2, <1>3, <1>4

LEMMA InitType == Init => TypeOK
<1> SUFFICES ASSUME Init PROVE TypeOK
  OBVIOUS
<1>1. 1..0 = {} /\ 0 \in 0..MaxNotes /\ Retries \in -1..Retries
  BY ResearchAssumption
<1>2. notes \in [1..0 -> Note]
  BY <1>1 DEF Init
<1>3. job \in Job
  BY <1>1 DEF Init, Job
<1>4. files \in [Paths -> Files]
  BY TextFacts DEF Init
<1>5. worker \in Executed /\ worker.pc = "idle" /\ call \in [Clients -> Call]
  BY RecordFacts DEF Init
<1> QED BY <1>1, <1>2, <1>3, <1>4, <1>5 DEF Init, TypeOK

\* The steps of a commit keep the types.
LEMMA CommitType ==
  ASSUME TypeOK, NEW c \in Clients, CallOK(c),
         Commit(c) \/ ScanFails(c) \/ Dies(c) \/ (\E p \in Paths : ReadDraft(c, p))
  PROVE  TypeOK'
<1> USE TypeFacts, TextFacts, RecordFacts
<1>1. CASE \E p \in Paths : ReadDraft(c, p)
  <2>1. PICK p \in Paths : ReadDraft(c, p)
    BY <1>1
  <2>2. PICK r : r = [Idle EXCEPT !.pc = "open", !.path = p, !.body = job.draft]
    OBVIOUS
  <2>3. r \in Call
    BY <2>2 DEF Call, TypeOK, Job
  <2>4. call' \in [Clients -> Call]
    BY <2>1, <2>2, <2>3, SetCallFacts DEF ReadDraft
  <2> QED BY <2>1, <2>4 DEF ReadDraft, TypeOK
<1>2. CASE Open(c)
  <2>1. call' \in [Clients -> Call]
    BY <1>2, GotoFacts, SetCallFacts DEF Open, Finish
  <2>2. files' \in [Paths -> Files] /\ signals' \subseteq Paths
    BY <1>2 DEF Open, TypeOK, CallOK, At
  <2> QED BY <1>2, <2>1, <2>2 DEF Open, TypeOK
<1>3. CASE Scan(c)
  <2>1. call[c].path \in Paths
    BY <1>3 DEF Scan, CallOK, At
  <2>2. call' \in [Clients -> Call]
    BY <1>3, <2>1, GotoFacts, ScannedFacts DEF Scan
  <2> QED BY <1>3, <2>2 DEF Scan, TypeOK
<1>4. CASE RedactFile(c)
  <2>1. call[c].body \in Drafts /\ call[c].path \in Paths
    BY <1>4 DEF RedactFile, CallOK, At
  <2>2. PICK S : Masks(c, S) /\ call' = [call EXCEPT ![c] = Masked(c, S)]
    BY <1>4 DEF RedactFile
  <2>3. call' \in [Clients -> Call]
    BY <2>1, <2>2, MaskedFacts, SetCallFacts
  <2>4. Mask(call[c].body, S) \in Files
    BY <2>1
  <2>5. files' \in [Paths -> Files] /\ signals' \subseteq Paths
    BY <2>1, <2>2, <2>4 DEF Masks, TypeOK
  <2>6. spilt' \subseteq Paths
    BY <1>4, <2>1 DEF RedactFile, TypeOK
  <2> QED BY <1>4, <2>3, <2>5, <2>6 DEF RedactFile, TypeOK
<1>5. CASE Unlink(c)
  <2>1. call' \in [Clients -> Call]
    BY <1>5, SetCallFacts DEF Unlink, Finish
  <2>2. files' \in [Paths -> Files] /\ signals' \subseteq Paths
    BY <1>5 DEF Unlink, TypeOK, CallOK, At
  <2> QED BY <1>5, <2>1, <2>2 DEF Unlink, TypeOK
<1>6. CASE CreateNote(c)
  <2>1. CASE RowsAt(call[c].path) = {}
    <3>1. /\ Insert(call[c].path, call[c].body, "web_research")
          /\ call[c].body \in Texts /\ call[c].path \in Paths
      BY <1>6, <2>1 DEF CreateNote, CallOK, At
    <3>2. (\E k \in 0..MaxNotes : notes' \in [1..k -> Note]) /\ NextId \in 0..MaxNotes
      BY <3>1, InsertFacts
    <3>3. call' \in [Clients -> Call]
      BY <1>6, <2>1, <3>2, SetCallFacts DEF CreateNote
    <3> QED BY <1>6, <3>2, <3>3 DEF CreateNote, TypeOK
  <2>2. CASE RowsAt(call[c].path) # {}
    <3>1. call' \in [Clients -> Call]
      BY <1>6, <2>2, SetCallFacts DEF CreateNote, Finish
    <3> QED BY <1>6, <2>2, <3>1 DEF CreateNote, TypeOK
  <2> QED BY <2>1, <2>2
<1>7. CASE Trace(c)
  <2>1. call[c].note \in DOMAIN notes
    BY <1>7 DEF Trace, CallOK, At
  <2>2. \E k \in 0..MaxNotes : notes' \in [1..k -> Note]
    BY <1>7, <2>1, ChangeFacts, RowFacts DEF Trace
  <2>3. call' \in [Clients -> Call]
    BY <1>7, GotoFacts DEF Trace
  <2> QED BY <1>7, <2>2, <2>3 DEF Trace, TypeOK
<1>8. CASE RecordResult(c)
  <2>1. call' \in [Clients -> Call]
    BY <1>8, SetCallFacts DEF RecordResult, Finish
  <2>2. job' \in Job
    BY <1>8 DEF RecordResult, TypeOK, Call, Job
  <2> QED BY <1>8, <2>1, <2>2 DEF RecordResult, TypeOK
<1>9. CASE ScanFails(c)
  <2>1. call' \in [Clients -> Call]
    BY <1>9, GotoFacts DEF ScanFails
  <2>2. spilt' \subseteq Paths
    BY <1>9 DEF ScanFails, TypeOK, CallOK, At
  <2> QED BY <1>9, <2>1, <2>2 DEF ScanFails, TypeOK
<1>10. CASE Dies(c)
  <2>1. call' \in [Clients -> Call]
    BY <1>10, SetCallFacts DEF Dies, Finish
  <2>2. spilt' \subseteq Paths
    BY <1>10 DEF Dies, TypeOK, CallOK
  <2> QED BY <1>10, <2>1, <2>2 DEF Dies, TypeOK
<1> QED BY <1>1, <1>2, <1>3, <1>4, <1>5, <1>6, <1>7, <1>8, <1>9, <1>10 DEF Commit

\* So do those of the worker and of the user.
LEMMA OtherType ==
  ASSUME TypeOK,
         \/ Task \/ TaskFails \/ Ingest \/ IngestFails \/ WorkerRestart
         \/ \E p \in Paths : Overlook(p) \/ Write(p) \/ Remove(p)
  PROVE  TypeOK'
<1> USE TypeFacts, TextFacts, RecordFacts
<1>1. CASE RunResearch
  <2>1. PICK outcome \in [Urls -> Outcomes] :
          worker' = [worker EXCEPT !.pc = "record", !.text = Draft(outcome)]
    BY <1>1 DEF RunResearch
  <2>2. Draft(outcome) \in Drafts
    BY DEF Draft, Drafts, Texts, UserTexts
  <2>3. worker' \in Executed /\ worker'.text \in Drafts /\ worker'.pc = "record"
    BY <2>1, <2>2 DEF Executed
  <2> QED BY <1>1, <2>3 DEF RunResearch, TypeOK
<1>2. CASE RecordDraft
  <2>1. job' \in Job
    BY <1>2 DEF RecordDraft, TypeOK, Job
  <2>2. worker' \in Executed /\ worker'.pc = "finish"
    BY <1>2 DEF RecordDraft, Executed
  <2> QED BY <1>2, <2>1, <2>2 DEF RecordDraft, TypeOK
<1>3. CASE MarkFinished
  <2>1. job' \in Job
    <3>1. 0 \in 0..MaxNotes /\ job \in Job
      BY ResearchAssumption DEF TypeOK
    <3> QED BY <1>3, <3>1 DEF MarkFinished, Job
  <2>2. tries' \in -1..Retries
    BY <1>3, ResearchAssumption DEF MarkFinished
  <2> QED BY <1>3, <2>1, <2>2 DEF MarkFinished, TypeOK
<1>4. CASE TaskFails
  <2>1. tries \in Int /\ tries >= 0 /\ tries <= Retries
    BY <1>4, ResearchAssumption DEF TaskFails, TypeOK
  <2>2. tries' \in -1..Retries
    BY <1>4, <2>1, ResearchAssumption DEF TaskFails
  <2> QED BY <1>4, <2>2 DEF TaskFails, TypeOK
<1>5. CASE \E p \in Paths : ReadFile(p)
  <2>1. PICK p \in Paths : ReadFile(p)
    BY <1>5
  <2>2. files[p] \in Files
    OBVIOUS
  <2>3. PICK r : r = [pc |-> IF files[p] = NoFile THEN "ingest" ELSE "vet", path |-> p,
                      text |-> files[p], hash |-> NoFile]
    OBVIOUS
  <2>4. /\ r \in Executed /\ r.path = p /\ r.text = files[p]
        /\ (r.pc = "ingest" /\ files[p] = NoFile) \/ (r.pc = "vet" /\ files[p] \in Texts)
    <3>1. NoFile \in Files /\ p \in Paths \cup {NoPath} /\ NoFile \notin Texts
      BY ResearchAssumption DEF Files
    <3>2. CASE files[p] = NoFile
      <4>1. r = [pc |-> "ingest", path |-> p, text |-> NoFile, hash |-> NoFile]
        BY <2>3, <3>2
      <4>2. r \in Executed
        BY <3>1, <4>1 DEF Executed
      <4>3. r.pc = "ingest" /\ r.path = p /\ r.text = NoFile
        BY <4>1
      <4> QED BY <3>2, <4>2, <4>3
    <3>3. CASE files[p] # NoFile
      <4>1. r = [pc |-> "vet", path |-> p, text |-> files[p], hash |-> NoFile]
        BY <2>3, <3>3
      <4>2. files[p] \in Texts
        BY <2>2, <3>3 DEF Files
      <4> QED BY <2>2, <3>1, <4>1, <4>2 DEF Executed
    <3> QED BY <3>2, <3>3
  <2>5. worker' = r
    BY <2>1, <2>3 DEF ReadFile
  <2> QED BY <2>1, <2>4, <2>5 DEF ReadFile, TypeOK
<1>6. CASE IngestVanished
  <2>1. \E k \in 0..MaxNotes : notes' \in [1..k -> Note]
    <3>1. CASE UNCHANGED notes
      BY <3>1 DEF TypeOK
    <3>2. CASE \E n \in RowsAt(worker.path) : Change(n, [notes[n] EXCEPT !.deleted = TRUE])
      BY <3>2, ChangeFacts, RowFacts DEF RowsAt
    <3> QED BY <1>6, <3>1, <3>2 DEF IngestVanished
  <2> QED BY <1>6, <2>1 DEF IngestVanished, TypeOK
<1>7. CASE IngestFile
  <2>1. PICK hash : hash = worker.hash
    OBVIOUS
  <2>2. \E k \in 0..MaxNotes : notes' \in [1..k -> Note]
    <3>1. hash \in Texts
      BY <1>7, <2>1 DEF IngestFile, TypeOK
    <3>2. CASE UNCHANGED notes
      BY <3>2 DEF TypeOK
    <3>3. CASE \E n \in Moved(worker.path, hash) : Change(n, [notes[n] EXCEPT !.path = worker.path])
      BY <1>7, <3>3, ChangeFacts, RowFacts DEF Moved, Alike, IngestFile
    <3>4. CASE Insert(worker.path, hash, "human")
      BY <1>7, <3>4, <3>1, InsertFacts DEF IngestFile
    <3>5. CASE \E n \in RowsAt(worker.path) : Change(n, [notes[n] EXCEPT !.hash = hash])
      BY <3>5, <3>1, ChangeFacts, RowFacts DEF RowsAt
    <3> QED BY <1>7, <2>1, <3>2, <3>3, <3>4, <3>5 DEF IngestFile
  <2> QED BY <1>7, <2>2 DEF IngestFile, TypeOK
<1>8. CASE WorkerRestart
  <2>1. tries' \in -1..Retries
    BY <1>8, ResearchAssumption DEF WorkerRestart, WorkerDies, TypeOK
  <2>2. orphans' \subseteq Paths
    BY <1>8 DEF WorkerRestart, WorkerDies, TypeOK
  <2> QED BY <1>8, <2>1, <2>2 DEF WorkerRestart, WorkerDies, TypeOK
<1>9. CASE Vet
  <2>1. worker.text \in Texts /\ worker \in Executed
    BY <1>9 DEF Vet, TypeOK
  <2>2. CASE worker' = Resting
    BY <1>9, <2>2 DEF Vet, TypeOK
  <2>3. ASSUME NEW S, worker' = [worker EXCEPT !.pc = "ingest", !.hash = Mask(worker.text, S)]
        PROVE  TypeOK'
    <3>1. PICK t \in Texts : t = Mask(worker.text, S)
      BY <2>1
    <3>2. PICK r : r = [worker EXCEPT !.pc = "ingest", !.hash = t]
      OBVIOUS
    <3>3. r \in Executed /\ r.pc = "ingest" /\ r.path = worker.path /\ r.hash = t
      BY <2>1, <3>2 DEF Executed
    <3>4. worker' = r
      BY <2>3, <3>1, <3>2
    <3> QED BY <1>9, <3>3, <3>4 DEF Vet, TypeOK
  <2> QED BY <1>9, <2>2, <2>3 DEF Vet
<1>10. CASE IngestFails
  BY <1>10 DEF IngestFails, TypeOK
<1>11. CASE \E p \in Paths : Overlook(p)
  BY <1>11 DEF Overlook, TypeOK
<1>12. CASE \E p \in Paths : Write(p) \/ Remove(p)
  <2>1. PICK p \in Paths : Write(p) \/ Remove(p)
    BY <1>12
  <2>2. PICK t \in Files : files' = [files EXCEPT ![p] = t]
    BY <2>1, HandwrittenFacts DEF Write, Remove
  <2>3. /\ files' \in [Paths -> Files] /\ signals' \subseteq Paths
        /\ kept' \subseteq Paths /\ spilt' \subseteq Paths
    BY <2>1, <2>2 DEF Write, Remove, TypeOK
  <2> QED BY <2>1, <2>3 DEF Write, Remove, TypeOK
<1> QED BY <1>1, <1>2, <1>3, <1>4, <1>5, <1>6, <1>7, <1>8, <1>9, <1>10, <1>11, <1>12
           DEF Task, Ingest

LEMMA TypeStep == ResearchInv /\ [Next]_vars => TypeOK'
<1>1. CASE UNCHANGED vars
  BY <1>1 DEF vars, ResearchInv, TypeOK
<1> QED BY <1>1, CommitType, OtherType DEF ResearchInv, Next

-----------------------------------------------------------------------------
(* The table of notes.                                                      *)

\* An UPDATE of one row: who wrote it stays, it moves only to a free path from a
\* path without a file, and it gets no other text than the one being ingested.
Updates(n, row) ==
  /\ Change(n, row)
  /\ row.origin = notes[n].origin
  /\ notes[n].traced => row.traced
  /\ \/ row.path = notes[n].path
     \/ RowsAt(row.path) = {} /\ files[notes[n].path] = NoFile
  /\ \/ row.hash = notes[n].hash
     \/ /\ worker.pc = "ingest" /\ worker.path = row.path /\ worker.path = notes[n].path
        /\ worker.text # NoFile /\ row.hash = worker.hash

RowsStep ==
  \/ UNCHANGED notes
  \/ \E p \in Paths, h \in Texts, o \in {"human", "web_research"} :
       RowsAt(p) = {} /\ Insert(p, h, o)
  \/ \E n \in DOMAIN notes : \E row \in Note : Updates(n, row)

LEMMA FieldFacts ==
  ASSUME NEW r \in Note
  PROVE  /\ [r EXCEPT !.traced = TRUE].origin = r.origin
         /\ [r EXCEPT !.traced = TRUE].path = r.path
         /\ [r EXCEPT !.traced = TRUE].hash = r.hash
         /\ [r EXCEPT !.traced = TRUE].traced = TRUE
         /\ [r EXCEPT !.deleted = TRUE].origin = r.origin
         /\ [r EXCEPT !.deleted = TRUE].path = r.path
         /\ [r EXCEPT !.deleted = TRUE].hash = r.hash
         /\ [r EXCEPT !.deleted = TRUE].traced = r.traced
         /\ \A p : /\ [r EXCEPT !.path = p].origin = r.origin
                   /\ [r EXCEPT !.path = p].path = p
                   /\ [r EXCEPT !.path = p].hash = r.hash
                   /\ [r EXCEPT !.path = p].traced = r.traced
         /\ \A h : /\ [r EXCEPT !.hash = h].origin = r.origin
                   /\ [r EXCEPT !.hash = h].path = r.path
                   /\ [r EXCEPT !.hash = h].hash = h
                   /\ [r EXCEPT !.hash = h].traced = r.traced
  BY DEF Note

LEMMA NotesStep ==
  ASSUME ResearchInv, [Next]_vars
  PROVE  RowsStep
<1> USE TypeFacts, TextFacts DEF ResearchInv
<1>1. ASSUME NEW c \in Clients, CreateNote(c)
      PROVE  RowsStep
  <2>1. call[c].body \in Texts /\ call[c].path \in Paths
    BY <1>1 DEF CreateNote, CallOK, At
  <2> QED BY <1>1, <2>1 DEF CreateNote, RowsStep
<1>2. ASSUME NEW c \in Clients, Trace(c)
      PROVE  RowsStep
  <2>1. PICK n : n = call[c].note
    OBVIOUS
  <2>2. n \in DOMAIN notes
    BY <1>2, <2>1 DEF Trace, CallOK, At
  <2>3. PICK row : row = [notes[n] EXCEPT !.traced = TRUE]
    OBVIOUS
  <2>4. row \in Note /\ notes[n] \in Note
    BY <2>2, <2>3, RowFacts
  <2>5. Updates(n, row)
    BY <1>2, <2>1, <2>3, <2>4, FieldFacts DEF Trace, Updates
  <2> QED BY <2>2, <2>4, <2>5 DEF RowsStep
<1>3. CASE IngestVanished
  <2>1. CASE UNCHANGED notes
    BY <2>1 DEF RowsStep
  <2>2. ASSUME NEW n \in RowsAt(worker.path), Change(n, [notes[n] EXCEPT !.deleted = TRUE])
        PROVE  RowsStep
    <3>1. PICK row : row = [notes[n] EXCEPT !.deleted = TRUE]
      OBVIOUS
    <3>2. n \in DOMAIN notes /\ row \in Note /\ notes[n] \in Note
      BY <2>2, <3>1, RowFacts DEF RowsAt
    <3>3. Updates(n, row)
      BY <2>2, <3>1, <3>2, FieldFacts DEF Updates
    <3> QED BY <3>2, <3>3 DEF RowsStep
  <2> QED BY <1>3, <2>1, <2>2 DEF IngestVanished
<1>4. CASE IngestFile
  <2>1. PICK hash : hash = worker.hash
    OBVIOUS
  <2>2. hash \in Texts /\ worker.pc = "ingest" /\ worker.path \in Paths /\ worker.text # NoFile
    BY <1>4, <2>1 DEF IngestFile, TypeOK
  <2>3. CASE UNCHANGED notes
    BY <2>3 DEF RowsStep
  <2>4. ASSUME RowsAt(worker.path) = {}, NEW n \in Moved(worker.path, hash),
               Change(n, [notes[n] EXCEPT !.path = worker.path])
        PROVE  RowsStep
    <3>1. PICK row : row = [notes[n] EXCEPT !.path = worker.path]
      OBVIOUS
    <3>2. n \in DOMAIN notes /\ row \in Note /\ notes[n] \in Note
      BY <2>2, <2>4, <3>1, RowFacts DEF Moved, Alike
    <3>3. files[notes[n].path] = NoFile
      BY <2>4 DEF Moved, OnDisk
    <3>4. Updates(n, row)
      BY <2>4, <3>1, <3>2, <3>3, FieldFacts DEF Updates
    <3> QED BY <3>2, <3>4 DEF RowsStep
  <2>5. ASSUME RowsAt(worker.path) = {}, Insert(worker.path, hash, "human")
        PROVE  RowsStep
    BY <2>2, <2>5 DEF RowsStep
  <2>6. ASSUME NEW n \in RowsAt(worker.path), Change(n, [notes[n] EXCEPT !.hash = hash])
        PROVE  RowsStep
    <3>1. PICK row : row = [notes[n] EXCEPT !.hash = hash]
      OBVIOUS
    <3>2. n \in DOMAIN notes /\ row \in Note /\ notes[n] \in Note
      BY <2>2, <2>6, <3>1, RowFacts DEF RowsAt
    <3>3. notes[n].path = worker.path
      BY <2>6 DEF RowsAt
    <3>4. Updates(n, row)
      BY <2>1, <2>2, <2>6, <3>1, <3>2, <3>3, FieldFacts DEF Updates
    <3> QED BY <3>2, <3>4 DEF RowsStep
  <2> QED BY <1>4, <2>1, <2>3, <2>4, <2>5, <2>6 DEF IngestFile
<1>5. CASE UNCHANGED notes
  BY <1>5 DEF RowsStep
<1>6. \/ UNCHANGED notes \/ IngestVanished \/ IngestFile
      \/ \E c \in Clients : CreateNote(c) \/ Trace(c)
  BY DEF Next, vars, Task, RunResearch, RecordDraft, MarkFinished, TaskFails, Ingest, ReadFile,
         Overlook, Vet, IngestFails, WorkerRestart, WorkerDies, ReadDraft, Commit, Open, Scan,
         RedactFile, Unlink, RecordResult, ScanFails, Dies, Write, Remove
<1> QED BY <1>1, <1>2, <1>3, <1>4, <1>5, <1>6

\* A path keeps one row; a row keeps who wrote it and its provenance.
LEMMA UniqueStep ==
  ASSUME ResearchInv, [Next]_vars
  PROVE  /\ PathsUnique'
         /\ DOMAIN notes \subseteq DOMAIN notes'
         /\ \A n \in DOMAIN notes : /\ notes'[n].origin = notes[n].origin
                                    /\ notes[n].traced => notes'[n].traced
<1> USE DEF ResearchInv
<1>1. CASE UNCHANGED notes
  BY <1>1 DEF PathsUnique
<1>2. ASSUME NEW p \in Paths, NEW h \in Texts, NEW o \in {"human", "web_research"},
             RowsAt(p) = {}, Insert(p, h, o)
      PROVE  /\ PathsUnique'
             /\ DOMAIN notes \subseteq DOMAIN notes'
             /\ \A n \in DOMAIN notes : notes'[n] = notes[n]
  <2>1. PICK id : id = NextId
    OBVIOUS
  <2>2. /\ id \notin DOMAIN notes /\ DOMAIN notes' = DOMAIN notes \cup {id}
        /\ \A n \in DOMAIN notes : notes'[n] = notes[n]
        /\ notes'[id].path = p
    <3>1. Row(p, h, o).path = p
      BY DEF Row
    <3>2. /\ NextId \notin DOMAIN notes /\ DOMAIN notes' = DOMAIN notes \cup {NextId}
          /\ \A n \in DOMAIN notes : notes'[n] = notes[n]
          /\ notes'[NextId] = Row(p, h, o)
      BY <1>2, InsertFacts
    <3> QED BY <2>1, <3>1, <3>2
  <2>3. \A n \in DOMAIN notes : notes[n].path # p
    BY <1>2 DEF RowsAt
  <2> QED BY <2>2, <2>3 DEF PathsUnique
<1>3. ASSUME NEW n \in DOMAIN notes, NEW row \in Note, Updates(n, row)
      PROVE  /\ PathsUnique'
             /\ DOMAIN notes \subseteq DOMAIN notes'
             /\ \A m \in DOMAIN notes : /\ notes'[m].origin = notes[m].origin
                                        /\ notes[m].traced => notes'[m].traced
  <2>1. /\ DOMAIN notes' = DOMAIN notes /\ notes'[n] = row
        /\ \A m \in DOMAIN notes : m # n => notes'[m] = notes[m]
    BY <1>3, ChangeFacts DEF Updates
  <2>2. \A m \in DOMAIN notes : m # n => row.path # notes[m].path
    BY <1>3 DEF Updates, RowsAt, PathsUnique
  <2>3. PathsUnique'
    BY <2>1, <2>2 DEF PathsUnique
  <2> QED BY <1>3, <2>1, <2>3 DEF Updates
<1>4. RowsStep
  BY NotesStep
<1> QED BY <1>1, <1>2, <1>3, <1>4 DEF RowsStep

-----------------------------------------------------------------------------
(* What each client knows.                                                  *)

\* A call that is left alone knows what it knew.
LEMMA CallKeeps ==
  ASSUME ResearchInv, [Next]_vars, NEW c \in Clients, call'[c] = call[c]
  PROVE  CallOK(c)'
<1>1. Leaky(call[c].scanned)' <=> Leaky(call[c].scanned)
  BY DEF Leaky, Raw
<1> QED BY <1>1, UniqueStep DEF ResearchInv, CallOK, At

LEMMA CallStep == ResearchInv /\ [Next]_vars => \A c \in Clients : CallOK(c)'
<1> SUFFICES ASSUME ResearchInv, [Next]_vars PROVE \A c \in Clients : CallOK(c)'
  OBVIOUS
<1> USE RecordFacts, TextFacts DEF ResearchInv
<1>1. ASSUME NEW c \in Clients,
             \/ \E p \in Paths : ReadDraft(c, p)
             \/ Commit(c) \/ ScanFails(c) \/ Dies(c)
      PROVE  CallOK(c)'
  <2>3. ASSUME NEW pc \in {"scan", "unlink", "create"}, Goto(c, pc),
               call[c].pc \in {"open", "scan"}
        PROVE  CallOK(c)'
    BY <2>3, GotoFacts DEF CallOK, At
  <2>4. ASSUME Finish(c)
        PROVE  CallOK(c)'
    <3>1. call'[c] = Idle
      BY <2>4, SetCallFacts DEF Finish
    <3> QED BY <3>1 DEF CallOK, At
  <2>5. CASE \E p \in Paths : ReadDraft(c, p)
    <3>1. PICK p \in Paths : ReadDraft(c, p)
      BY <2>5
    <3>2. PICK r : r = [Idle EXCEPT !.pc = "open", !.path = p, !.body = job.draft]
      OBVIOUS
    <3>3. r.pc = "open" /\ r.path = p /\ r.body = job.draft /\ call'[c] = r
      BY <3>1, <3>2 DEF ReadDraft, TypeOK, Idle
    <3>4. job.draft \in Drafts
      BY <3>1 DEF ReadDraft, TypeOK, Job
    <3> QED BY <3>3, <3>4 DEF CallOK, At
  <2>6. CASE Open(c)
    BY <2>6, <2>3, <2>4 DEF Open, At
  <2>7. CASE Scan(c)
    <3>1. PICK t \in Files : t = files[call[c].path]
      BY <2>7, TypeFacts DEF Scan, CallOK, At
    <3>2. CASE Goto(c, "create") \/ Goto(c, "unlink")
      BY <2>3, <2>7, <3>2 DEF Scan, At
    <3>3. CASE Leaky(t) /\ call' = [call EXCEPT ![c].pc = "redact", ![c].scanned = t]
      <4>1. /\ call'[c].scanned = t /\ call'[c].pc = "redact"
            /\ call'[c].path = call[c].path /\ call'[c].body = call[c].body
        BY <3>3, ScannedFacts
      <4>2. PICK u \in Leaks : t \in Texts /\ t.parts[u] = "raw"
        BY <3>3 DEF Leaky, Raw
      <4>3. u \in Raw(call[c].scanned)'
        BY <4>1, <4>2 DEF Raw
      <4>4. Leaky(call[c].scanned)'
        BY <4>3 DEF Leaky
      <4> QED BY <2>7, <4>1, <4>4 DEF Scan, CallOK, At
    <3> QED BY <2>7, <3>1, <3>2, <3>3 DEF Scan
  <2>8. CASE ScanFails(c)
    BY <2>8, <2>3 DEF ScanFails, At
  <2>9. CASE RedactFile(c)
    <3>1. call[c].body \in Drafts /\ call[c].path \in Paths
      BY <2>9 DEF RedactFile, CallOK, At
    <3>2. PICK S : call' = [call EXCEPT ![c] = Masked(c, S)]
      BY <2>9 DEF RedactFile
    <3>3. call'[c] = Masked(c, S)
      BY <3>1, <3>2, MaskedFacts, SetCallFacts
    <3> QED BY <3>1, <3>3, MaskedFacts DEF CallOK, At
  <2>10. CASE CreateNote(c)
    <3>1. CASE RowsAt(call[c].path) = {}
      <4>1. PICK id : id = NextId
        OBVIOUS
      <4>2. call[c].body \in Texts /\ call[c].path \in Paths
        BY <2>10 DEF CreateNote, CallOK, At
      <4>3. Insert(call[c].path, call[c].body, "web_research")
        BY <2>10, <3>1 DEF CreateNote
      <4>4. /\ id \in 0..MaxNotes /\ id \in DOMAIN notes'
            /\ notes'[id] = Row(call[c].path, call[c].body, "web_research")
        BY <4>1, <4>2, <4>3, InsertFacts
      <4>5. call'[c] = Tracing(id)
        BY <2>10, <3>1, <4>1, <4>4, SetCallFacts DEF CreateNote
      <4>6. notes'[id].origin = "web_research"
        BY <4>4 DEF Row
      <4> QED BY <4>4, <4>5, <4>6 DEF CallOK, At
    <3>2. CASE RowsAt(call[c].path) # {}
      BY <2>4, <2>10, <3>2 DEF CreateNote
    <3> QED BY <3>1, <3>2
  <2>11. CASE Trace(c)
    <3>1. PICK n : n = call[c].note
      OBVIOUS
    <3>2. n \in DOMAIN notes /\ notes[n].origin = "web_research"
      BY <2>11, <3>1 DEF Trace, CallOK, At
    <3>3. PICK row : row = [notes[n] EXCEPT !.traced = TRUE]
      OBVIOUS
    <3>4. row \in Note /\ row.traced /\ row.origin = "web_research"
      BY <3>2, <3>3, RowFacts, FieldFacts
    <3>5. DOMAIN notes' = DOMAIN notes /\ notes'[n] = row
      BY <2>11, <3>1, <3>2, <3>3, <3>4, ChangeFacts DEF Trace
    <3>6. call'[c].pc = "result" /\ call'[c].note = n
      BY <2>11, <3>1, GotoFacts DEF Trace
    <3> QED BY <3>2, <3>4, <3>5, <3>6 DEF CallOK, At
  <2>12. CASE Unlink(c) \/ RecordResult(c) \/ Dies(c)
    BY <2>4, <2>12 DEF Unlink, RecordResult, Dies
  <2> QED BY <1>1, <2>5, <2>6, <2>7, <2>8, <2>9, <2>10, <2>11, <2>12 DEF Commit
<1>2. ASSUME NEW c \in Clients,
             \/ \E p \in Paths : ReadDraft(c, p)
             \/ Commit(c) \/ ScanFails(c) \/ Dies(c)
      PROVE  \A d \in Clients : CallOK(d)'
  <2>1. \A d \in Clients : d # c => call'[d] = call[d]
    BY <1>2 DEF TypeOK, Commit, ReadDraft, Open, Scan, RedactFile, Unlink, CreateNote, Trace,
                RecordResult, ScanFails, Dies, Goto, Finish
  <2> QED BY <1>1, <1>2, <2>1, CallKeeps
<1>3. CASE UNCHANGED call
  BY <1>3, CallKeeps
<1> QED BY <1>2, <1>3 DEF Next, vars, Task, RunResearch, RecordDraft, MarkFinished, TaskFails,
                          Ingest, ReadFile, Overlook, Vet, IngestFails, IngestVanished, IngestFile,
                          WorkerRestart, WorkerDies, Write, Remove

\* The result of the job.
LEMMA ResultStep == ResearchInv /\ ResultIsTraced /\ [Next]_vars => ResultIsTraced'
<1> SUFFICES ASSUME ResearchInv, ResultIsTraced, [Next]_vars PROVE ResultIsTraced'
  OBVIOUS
<1> USE DEF ResearchInv
<1>1. ASSUME NEW c \in Clients, RecordResult(c)
      PROVE  ResultIsTraced'
  <2>1. /\ call[c].note \in DOMAIN notes
        /\ notes[call[c].note].origin = "web_research" /\ notes[call[c].note].traced
    BY <1>1 DEF RecordResult, CallOK, At
  <2>2. job'.result = call[c].note /\ notes' = notes
    BY <1>1 DEF RecordResult, TypeOK, Job
  <2> QED BY <2>1, <2>2 DEF ResultIsTraced
<1>2. CASE job'.result \in {0, job.result}
  BY <1>2, UniqueStep DEF ResultIsTraced
<1>3. CASE RecordDraft \/ MarkFinished
  BY <1>2, <1>3 DEF RecordDraft, MarkFinished, TypeOK, Job
<1>4. CASE UNCHANGED job
  BY <1>2, <1>4
<1> QED BY <1>1, <1>3, <1>4 DEF Next, vars, Task, RunResearch, TaskFails, Ingest, ReadFile,
          Overlook, Vet, IngestFails, IngestVanished, IngestFile, WorkerRestart, WorkerDies, Write,
          Remove, ReadDraft, Commit, Open, Scan, RedactFile, Unlink, CreateNote, Trace, ScanFails,
          Dies

-----------------------------------------------------------------------------
(* The vault.                                                               *)

\* Whose step it is.
CommitStep(c) ==
  (\E p \in Paths : ReadDraft(c, p)) \/ Commit(c) \/ ScanFails(c) \/ Dies(c)
UserStep(p) == Write(p) \/ Remove(p)
WorkerStep ==
  Task \/ TaskFails \/ Ingest \/ IngestFails \/ WorkerRestart \/ \E p \in Paths : Overlook(p)

\* The other clients are left alone, and so is every path but one's own.
LEMMA CommitLocal ==
  ASSUME TypeOK, NEW c \in Clients, CommitStep(c)
  PROVE  /\ \A d \in Clients : d # c => call'[d] = call[d]
         /\ \A p \in Paths : p # call[c].path => files'[p] = files[p]
         /\ kept' = kept /\ spilt \subseteq spilt'
         /\ UNCHANGED Consumer
  BY DEF TypeOK, CommitStep, Commit, ReadDraft, Open, Scan, RedactFile, Unlink, CreateNote,
         Trace, RecordResult, ScanFails, Dies, Goto, Finish, Masks

LEMMA WorkerLocal ==
  ASSUME WorkerStep
  PROVE  UNCHANGED <<files, call, kept, spilt>>
  BY DEF WorkerStep, Task, RunResearch, RecordDraft, MarkFinished, TaskFails, Ingest, ReadFile,
         Overlook, Vet, IngestFails, IngestVanished, IngestFile, WorkerRestart, WorkerDies

LEMMA UserLocal ==
  ASSUME TypeOK, NEW p \in Paths, UserStep(p)
  PROVE  /\ UNCHANGED <<call, Consumer>>
         /\ \A q \in Paths : q # p => files'[q] = files[q]
         /\ kept' \subseteq kept \cup {p} /\ spilt \subseteq spilt'
         /\ p \in kept' => files'[p] \in UserTexts /\ (~Held(p) \/ p \in kept)
         /\ Leaky(files'[p]) => p \in spilt' \/ Held(p)
<1>1. CASE Write(p)
  <2>1. PICK t \in UserTexts :
          /\ files' = [files EXCEPT ![p] = t]
          /\ spilt' = IF Leaky(t) /\ ~Held(p) THEN spilt \cup {p} ELSE spilt
    BY <1>1, HandwrittenFacts DEF Write
  <2> QED BY <1>1, <2>1 DEF Write, TypeOK
<1>2. CASE Remove(p)
  <2>1. files'[p] = NoFile /\ spilt' = spilt /\ kept' = kept \ {p}
    BY <1>2 DEF Remove, TypeOK
  <2> QED BY <1>2, <2>1, TextFacts DEF Remove, TypeOK
<1> QED BY <1>1, <1>2 DEF UserStep

LEMMA WhoSteps ==
  ASSUME [Next]_vars
  PROVE  \/ UNCHANGED vars
         \/ WorkerStep
         \/ \E c \in Clients : CommitStep(c)
         \/ \E p \in Paths : UserStep(p)
  BY DEF Next, WorkerStep, CommitStep, UserStep

\* Where a commit is, before and after its step.
Working == {"scan", "redact", "unlink"}

LEMMA CommitPlaces ==
  ASSUME ResearchInv, NEW c \in Clients, CommitStep(c)
  PROVE  \/ call[c].pc \notin Working /\ call'[c].pc \notin Working /\ UNCHANGED files
         \/ /\ call[c].pc = "open" /\ call'[c].pc = "scan" /\ call'[c].path = call[c].path
            /\ files[call[c].path] = NoFile
         \/ /\ call[c].pc = "scan" /\ call'[c].path = call[c].path /\ UNCHANGED files
            /\ \/ call'[c].pc \in {"redact", "unlink"}
               \/ call'[c].pc = "create" /\ ~Leaky(files[call[c].path])
               \/ call'[c].pc = "create" /\ call[c].path \in spilt'
         \/ /\ call[c].pc = "redact" /\ call'[c].pc = "create"
            /\ ~Leaky(files'[call[c].path]) \/ call[c].path \in spilt'
         \/ /\ call[c].pc = "unlink" /\ call'[c].pc = "idle" /\ files'[call[c].path] = NoFile
         \/ /\ call[c].pc \in Working /\ call'[c].pc = "idle" /\ UNCHANGED files
            /\ call[c].path \in spilt'
<1> USE DEF Working, ResearchInv
<1>1. CASE \E p \in Paths : ReadDraft(c, p)
  <2>1. PICK p \in Paths : ReadDraft(c, p)
    BY <1>1
  <2>2. PICK r : r = [Idle EXCEPT !.pc = "open", !.path = p, !.body = job.draft]
    OBVIOUS
  <2>3. r.pc = "open" /\ call'[c] = r
    BY <2>1, <2>2 DEF ReadDraft, TypeOK, Idle
  <2> QED BY <2>1, <2>3 DEF ReadDraft, At
<1>2. ASSUME Finish(c)
      PROVE  call'[c].pc = "idle"
  BY <1>2, SetCallFacts, RecordFacts DEF Finish
<1>3. CASE Open(c)
  <2>1. CASE Free(call[c].path)
    <3>1. Goto(c, "scan")
      BY <1>3, <2>1 DEF Open
    <3> QED BY <1>3, <2>1, <3>1, GotoFacts DEF Open, At, Free
  <2>2. CASE ~Free(call[c].path)
    BY <1>2, <1>3, <2>2 DEF Open, At
  <2> QED BY <2>1, <2>2
<1>4. CASE Scan(c)
  <2>1. PICK t \in Files : t = files[call[c].path]
    BY <1>4, TypeFacts DEF Scan, CallOK, At
  <2>2. CASE ~Leaky(t) /\ Goto(c, "create")
    BY <1>4, <2>1, <2>2, GotoFacts DEF Scan, At
  <2>3. CASE Goto(c, "unlink")
    BY <1>4, <2>3, GotoFacts DEF Scan, At
  <2>4. CASE call' = [call EXCEPT ![c].pc = "redact", ![c].scanned = t]
    BY <1>4, <2>4, ScannedFacts DEF Scan, At
  <2> QED BY <1>4, <2>1, <2>2, <2>3, <2>4 DEF Scan
<1>5. CASE ScanFails(c)
  BY <1>5, GotoFacts DEF ScanFails, At
<1>6. CASE RedactFile(c)
  <2>1. call[c].body \in Drafts /\ call[c].path \in Paths /\ Leaky(call[c].scanned)
    BY <1>6 DEF RedactFile, CallOK, At
  <2>2. PICK S \in Found(call[c].scanned, call[c].body) :
          Masks(c, S) /\ call' = [call EXCEPT ![c] = Masked(c, S)]
    BY <1>6 DEF RedactFile
  <2>3. call'[c].pc = "create"
    BY <2>1, <2>2, MaskedFacts, SetCallFacts
  <2>4. CASE call[c].scanned = call[c].body
    <3>1. S = Raw(call[c].body) /\ S # {}
      BY <2>1, <2>2, <2>4 DEF Found, Leaky
    <3>2. files'[call[c].path] = Redact(call[c].body)
      BY <2>1, <2>2, <3>1 DEF Masks, TypeOK, Redact
    <3> QED BY <1>6, <2>1, <2>3, <3>2, TextFacts DEF RedactFile, At
  <2>5. CASE call[c].scanned # call[c].body
    BY <1>6, <2>3, <2>5 DEF RedactFile, At
  <2> QED BY <2>4, <2>5
<1>7. CASE Unlink(c)
  <2>1. files'[call[c].path] = NoFile
    BY <1>7 DEF Unlink, TypeOK, CallOK, At
  <2> QED BY <1>2, <1>7, <2>1 DEF Unlink, At
<1>8. CASE CreateNote(c)
  <2>1. CASE RowsAt(call[c].path) = {}
    <3>1. NextId \in 0..MaxNotes
      <4>1. call[c].body \in Texts /\ call[c].path \in Paths
        BY <1>8, TextFacts DEF CreateNote, CallOK, At
      <4> QED BY <1>8, <2>1, <4>1, InsertFacts DEF CreateNote
    <3>2. call'[c].pc = "trace"
      BY <1>8, <2>1, <3>1, RecordFacts, SetCallFacts DEF CreateNote
    <3> QED BY <1>8, <3>2 DEF CreateNote, At
  <2>2. CASE RowsAt(call[c].path) # {}
    BY <1>2, <1>8, <2>2 DEF CreateNote, At
  <2> QED BY <2>1, <2>2
<1>9. CASE Trace(c)
  BY <1>9, GotoFacts DEF Trace, At
<1>10. CASE RecordResult(c)
  BY <1>2, <1>10 DEF RecordResult, At
<1>11. CASE Dies(c)
  BY <1>2, <1>11 DEF Dies, At
<1> QED BY <1>1, <1>3, <1>4, <1>5, <1>6, <1>7, <1>8, <1>9, <1>10, <1>11 DEF CommitStep, Commit

LEMMA KeptStep == ResearchInv /\ UsersFilesKept /\ [Next]_vars => UsersFilesKept'
<1> SUFFICES ASSUME ResearchInv, UsersFilesKept, [Next]_vars PROVE UsersFilesKept'
  OBVIOUS
<1>0. kept' \subseteq Paths
  BY TypeStep DEF TypeOK
<1> SUFFICES ASSUME NEW p \in Paths, p \in kept'
             PROVE  files'[p] \in UserTexts /\ ~Held(p)'
  BY <1>0 DEF UsersFilesKept
<1> USE DEF ResearchInv
<1>1. CASE UNCHANGED <<files, call, kept>>
  BY <1>1 DEF UsersFilesKept, Held, Holds
<1>2. ASSUME NEW c \in Clients, CommitStep(c)
      PROVE  files'[p] \in UserTexts /\ ~Held(p)'
  <2>1. files[p] \in UserTexts /\ ~Held(p) /\ files[p] # NoFile
    BY <1>2, CommitLocal, ResearchAssumption, TextFacts DEF UsersFilesKept
  <2>2. ~(call[c].path = p /\ call[c].pc \in Working)
    BY <2>1 DEF Held, Holds, Working
  <2>3. ~(call[c].path = p /\ call[c].pc = "open" /\ call'[c].pc = "scan")
    BY <1>2, <2>1, CommitPlaces DEF Working
  <2>4. ~Holds(c, p)' /\ files'[p] = files[p]
    BY <1>2, <2>2, <2>3, CommitPlaces, CommitLocal DEF Holds, Working
  <2>5. \A d \in Clients : d # c => ~Holds(d, p)'
    BY <1>2, <2>1, CommitLocal DEF Held, Holds
  <2> QED BY <2>1, <2>4, <2>5 DEF Held
<1>3. ASSUME NEW q \in Paths, UserStep(q)
      PROVE  files'[p] \in UserTexts /\ ~Held(p)'
  <2>1. Held(p)' <=> Held(p)
    BY <1>3, UserLocal DEF Held, Holds
  <2> QED BY <1>3, <2>1, UserLocal DEF UsersFilesKept
<1> QED BY <1>1, <1>2, <1>3, WhoSteps, WorkerLocal DEF vars

LEMMA SecretsStep == ResearchInv /\ SecretsAccounted /\ [Next]_vars => SecretsAccounted'
<1> SUFFICES ASSUME ResearchInv, SecretsAccounted, [Next]_vars, NEW p \in Paths, Leaky(files'[p])
             PROVE  p \in spilt' \/ Held(p)'
  <2>1. \A p \in Paths : Leaky(files'[p]) <=> Leaky(files[p])'
    BY DEF Leaky, Raw
  <2> QED BY <2>1 DEF SecretsAccounted
<1> USE DEF ResearchInv
<1>1. CASE UNCHANGED <<files, call, spilt>>
  BY <1>1 DEF SecretsAccounted, Held, Holds
<1>2. ASSUME NEW c \in Clients, CommitStep(c)
      PROVE  p \in spilt' \/ Held(p)'
  <2>1. ASSUME files'[p] = files[p], NEW d \in Clients, d # c, Holds(d, p)
        PROVE  Held(p)'
    BY <1>2, <2>1, CommitLocal DEF Holds, Held
  <2>2. ASSUME files'[p] = files[p], Holds(c, p), p \notin spilt'
        PROVE  Held(p)'
    BY <1>2, <2>2, CommitPlaces, TextFacts DEF Holds, Held, Working
  <2>3. CASE files'[p] = files[p]
    BY <1>2, <2>1, <2>2, <2>3, CommitLocal DEF SecretsAccounted, Held
  <2>4. CASE files'[p] # files[p]
    <3>1. call[c].path = p
      BY <1>2, <2>4, CommitLocal
    <3>2. p \in spilt' \/ (call'[c].pc = "scan" /\ call'[c].path = p)
      BY <1>2, <2>4, <3>1, CommitPlaces, TextFacts
    <3> QED BY <3>2 DEF Holds, Held
  <2> QED BY <2>3, <2>4
<1>3. ASSUME NEW q \in Paths, UserStep(q)
      PROVE  p \in spilt' \/ Held(p)'
  <2>1. Held(p)' <=> Held(p)
    BY <1>3, UserLocal DEF Held, Holds
  <2>2. CASE p = q
    BY <1>3, <2>1, <2>2, UserLocal
  <2>3. CASE p # q
    BY <1>3, <2>1, <2>3, UserLocal DEF SecretsAccounted
  <2> QED BY <2>2, <2>3
<1> QED BY <1>1, <1>2, <1>3, WhoSteps, WorkerLocal DEF vars

-----------------------------------------------------------------------------
(* Ingestion.                                                               *)

\* What is written is due for ingestion, until the worker reads it or it is given up.
LEMMA SignalsStep ==
  ASSUME ResearchInv, [Next]_vars, NEW p \in Paths
  PROVE  /\ files'[p] = files[p] \/ p \in signals'
         /\ p \in signals => p \in signals' \cup skipped' \/ ReadFile(p)
         /\ p \in skipped => p \in skipped' \/ ReadFile(p)
<1> USE DEF ResearchInv
<1>1. CASE UNCHANGED <<files, signals, skipped>>
  BY <1>1
<1>2. ASSUME NEW c \in Clients, CommitStep(c)
      PROVE  /\ files'[p] = files[p] \/ p \in signals'
             /\ p \in signals => p \in signals'
             /\ p \in skipped => p \in skipped'
  BY <1>2, TypeFacts DEF TypeOK, CommitStep, ReadDraft, Commit, Open, Scan, RedactFile, Masks,
       Unlink, CreateNote, Trace, RecordResult, ScanFails, Dies
<1>3. ASSUME NEW q \in Paths, UserStep(q)
      PROVE  /\ files'[p] = files[p] \/ p \in signals'
             /\ p \in signals => p \in signals'
             /\ p \in skipped => p \in skipped'
  BY <1>3 DEF TypeOK, UserStep, Write, Remove
<1>4. CASE WorkerStep
  BY <1>4 DEF WorkerStep, Task, RunResearch, RecordDraft, MarkFinished, TaskFails, Ingest,
       ReadFile, Overlook, Vet, IngestFails, IngestVanished, IngestFile, WorkerRestart, WorkerDies
<1> QED BY <1>1, <1>2, <1>3, <1>4, WhoSteps DEF vars

\* The worker reads a path, or scans what it has read, or goes on, or is done with it.
LEMMA WorkerPlaces ==
  ASSUME ResearchInv, [Next]_vars
  PROVE  \/ worker' = worker
         \/ worker'.pc \notin {"vet", "ingest"}
         \/ \E p \in Paths : /\ ReadFile(p)
                             /\ worker'.path = p /\ worker'.text = files[p]
                             /\ worker'.pc = "ingest" => files[p] = NoFile
         \/ /\ Vet /\ worker'.path = worker.path /\ worker'.text = worker.text
            /\ \E S \in Found(files[worker.path], worker.text) : worker'.hash = Mask(worker.text, S)
<1> USE DEF ResearchInv
<1>1. ASSUME NEW p \in Paths, ReadFile(p)
      PROVE  /\ worker'.path = p /\ worker'.text = files[p]
             /\ worker'.pc = "ingest" => files[p] = NoFile
  <2>1. PICK pc : pc = IF files[p] = NoFile THEN "ingest" ELSE "vet"
    OBVIOUS
  <2>2. worker' = [pc |-> pc, path |-> p, text |-> files[p], hash |-> NoFile]
    BY <1>1, <2>1 DEF ReadFile
  <2> QED BY <2>1, <2>2
<1>2. ASSUME Vet, worker' # Resting
      PROVE  /\ worker'.path = worker.path /\ worker'.text = worker.text
             /\ \E S \in Found(files[worker.path], worker.text) : worker'.hash = Mask(worker.text, S)
  <2>1. PICK S \in Found(files[worker.path], worker.text) :
          worker' = [worker EXCEPT !.pc = "ingest", !.hash = Mask(worker.text, S)]
    BY <1>2 DEF Vet
  <2> QED BY <2>1 DEF TypeOK, Executed
<1>3. CASE WorkerStep
  <2>1. CASE RunResearch \/ RecordDraft
    <3>1. worker'.pc \in {"record", "finish"}
      BY <2>1 DEF RunResearch, RecordDraft, TypeOK, Executed
    <3> QED BY <3>1
  <2>2. CASE \/ MarkFinished \/ TaskFails \/ IngestFails \/ IngestVanished \/ IngestFile
             \/ WorkerRestart
    BY <2>2, RecordFacts
       DEF MarkFinished, TaskFails, IngestFails, IngestVanished, IngestFile, WorkerRestart, WorkerDies
  <2>3. CASE \E p \in Paths : Overlook(p)
    BY <2>3 DEF Overlook
  <2>4. CASE Vet
    BY <1>2, <2>4, RecordFacts
  <2> QED BY <1>1, <1>3, <2>1, <2>2, <2>3, <2>4 DEF WorkerStep, Task, Ingest
<1>4. CASE UNCHANGED vars
  BY <1>4 DEF vars
<1> QED BY <1>3, <1>4, WhoSteps, CommitLocal, UserLocal

LEMMA FreshStep == ResearchInv /\ ReadIsFresh /\ [Next]_vars => ReadIsFresh'
<1> SUFFICES ASSUME ResearchInv, ReadIsFresh, [Next]_vars, worker'.pc \in {"vet", "ingest"}
             PROVE  \/ worker'.path \in signals' \cup skipped'
                    \/ /\ worker'.text = files'[worker'.path]
                       /\ worker'.pc = "ingest" /\ worker'.text # NoFile =>
                            worker'.hash = Redact(worker'.text)
  <2>1. Redact(worker.text)' = Redact(worker'.text)
    BY DEF Redact, Mask, Raw
  <2> QED BY <2>1 DEF ReadIsFresh
<1>1. CASE worker' = worker
  <2>1. worker.path \in Paths /\ worker.pc \in {"vet", "ingest"}
    BY <1>1, TypeFacts DEF ResearchInv
  <2>2. ~ReadFile(worker.path)
    BY <2>1 DEF ReadFile
  <2> QED BY <1>1, <2>1, <2>2, SignalsStep DEF ReadIsFresh
<1>2. CASE \E p \in Paths : /\ ReadFile(p)
                            /\ worker'.path = p /\ worker'.text = files[p]
                            /\ worker'.pc = "ingest" => files[p] = NoFile
  BY <1>2 DEF ReadFile
<1>3. ASSUME Vet, worker'.path = worker.path, worker'.text = worker.text,
             NEW S \in Found(files[worker.path], worker.text), worker'.hash = Mask(worker.text, S)
      PROVE  \/ worker'.path \in signals' \cup skipped'
             \/ /\ worker'.text = files'[worker'.path]
                /\ worker'.hash = Redact(worker'.text)
  <2>1. worker.pc = "vet" /\ UNCHANGED <<files, signals, skipped>>
    BY <1>3 DEF Vet
  <2>2. CASE worker.text = files[worker.path]
    BY <1>3, <2>1, <2>2 DEF Found, Redact
  <2> QED BY <1>3, <2>1, <2>2 DEF ReadIsFresh
<1> QED BY <1>1, <1>2, <1>3, WorkerPlaces

\* The row that keeps a file accounted for.
Recorded(p) == \E n \in RowsAt(p) : notes[n].hash = Redact(files[p])

LEMMA RecordedStays ==
  ASSUME ResearchInv, ReadIsFresh, [Next]_vars, NEW p \in Paths,
         Recorded(p), ~Pending(p), p \notin skipped, files[p] # NoFile, files'[p] = files[p]
  PROVE  Recorded(p)'
<1> USE DEF ResearchInv
<1>1. PICK m \in DOMAIN notes : notes[m].path = p /\ notes[m].hash = Redact(files[p])
  BY DEF Recorded, RowsAt
<1>2. Redact(files'[p]) = Redact(files[p])
  OBVIOUS
<1>3. SUFFICES m \in DOMAIN notes' /\ notes'[m].path = p /\ notes'[m].hash = Redact(files'[p])
  <2>1. Redact(files[p])' = Redact(files'[p])
    BY DEF Redact, Mask, Raw
  <2> QED BY <2>1 DEF Recorded, RowsAt
<1>4. CASE UNCHANGED notes
  BY <1>1, <1>2, <1>4
<1>5. ASSUME NEW q \in Paths, NEW h \in Texts, NEW o \in {"human", "web_research"},
             Insert(q, h, o)
      PROVE  m \in DOMAIN notes' /\ notes'[m] = notes[m]
  BY <1>1, <1>5, InsertFacts
<1>6. ASSUME NEW n \in DOMAIN notes, NEW row \in Note, Updates(n, row)
      PROVE  m \in DOMAIN notes' /\ notes'[m].path = notes[m].path /\ notes'[m].hash = notes[m].hash
  <2>1. /\ DOMAIN notes' = DOMAIN notes /\ notes'[n] = row
        /\ \A k \in DOMAIN notes : k # n => notes'[k] = notes[k]
    BY <1>6, ChangeFacts DEF Updates
  <2>2. CASE m # n
    BY <1>1, <2>1, <2>2
  <2>3. CASE m = n
    <3>1. row.path = notes[n].path
      BY <1>1, <1>6, <2>3 DEF Updates
    <3>2. row.hash = notes[n].hash
      BY <1>1, <1>6, <2>3 DEF Updates, ReadIsFresh, Pending
    <3> QED BY <2>1, <2>3, <3>1, <3>2
  <2> QED BY <2>2, <2>3
<1>7. RowsStep
  BY NotesStep
<1> QED BY <1>1, <1>2, <1>4, <1>5, <1>6, <1>7 DEF RowsStep

\* The file the worker read gets its row, if nothing was written since.
LEMMA IngestRecords ==
  ASSUME ResearchInv, NEW p \in Paths, p = worker.path,
         IngestFile, files[p] = worker.text, worker.hash = Redact(worker.text)
  PROVE  Recorded(p)'
<1> USE DEF ResearchInv
<1>2. PICK hash : hash = worker.hash
  OBVIOUS
<1>3. hash \in Texts
  BY <1>2 DEF IngestFile, TypeOK
<1>4. SUFFICES \E n \in DOMAIN notes' : notes'[n].path = p /\ notes'[n].hash = hash
  <2>1. worker' = Resting /\ files' = files
    BY DEF IngestFile
  <2>2. Redact(files[p])' = hash
    BY <1>2, <2>1 DEF Redact, Mask, Raw
  <2>3. \E n \in RowsAt(p)' : notes'[n].hash = hash
    BY <1>4 DEF RowsAt
  <2> QED BY <2>2, <2>3 DEF Recorded
<1>5. CASE UNCHANGED notes /\ \E n \in RowsAt(p) : Active(n) /\ notes[n].hash = hash
  BY <1>5 DEF RowsAt
<1>6. ASSUME NEW n \in Moved(p, hash), Change(n, [notes[n] EXCEPT !.path = p])
      PROVE  n \in DOMAIN notes' /\ notes'[n].path = p /\ notes'[n].hash = hash
  <2>1. n \in DOMAIN notes /\ notes[n].hash = hash
    BY <1>6 DEF Moved, Alike
  <2>2. notes'[n] = [notes[n] EXCEPT !.path = p] /\ DOMAIN notes' = DOMAIN notes
    BY <1>6, <2>1, RowFacts, ChangeFacts
  <2> QED BY <2>1, <2>2, RowFacts, FieldFacts
<1>7. ASSUME Insert(p, hash, "human")
      PROVE  \E n \in DOMAIN notes' : notes'[n].path = p /\ notes'[n].hash = hash
  <2>1. NextId \in DOMAIN notes' /\ notes'[NextId] = Row(p, hash, "human")
    BY <1>3, <1>7, InsertFacts
  <2> QED BY <2>1 DEF Row
<1>8. ASSUME NEW n \in RowsAt(p), Change(n, [notes[n] EXCEPT !.hash = hash])
      PROVE  n \in DOMAIN notes' /\ notes'[n].path = p /\ notes'[n].hash = hash
  <2>1. n \in DOMAIN notes /\ notes[n].path = p
    BY <1>8 DEF RowsAt
  <2>2. notes'[n] = [notes[n] EXCEPT !.hash = hash] /\ DOMAIN notes' = DOMAIN notes
    BY <1>3, <1>8, <2>1, RowFacts, ChangeFacts
  <2> QED BY <2>1, <2>2, RowFacts, FieldFacts
<1> QED BY <1>2, <1>5, <1>6, <1>7, <1>8 DEF IngestFile

LEMMA ForgottenStep ==
  ResearchInv /\ ReadIsFresh /\ NothingForgotten /\ [Next]_vars => NothingForgotten'
<1> SUFFICES ASSUME ResearchInv, ReadIsFresh, NothingForgotten, [Next]_vars,
                    NEW p \in Paths, p \notin skipped',
                    files'[p] # NoFile, ~Refused(files'[p]), ~Pending(p)'
             PROVE  Recorded(p)'
  <2>1. \A p \in Paths : Refused(files'[p]) <=> Refused(files[p])'
    BY DEF Refused, Leaky, Raw
  <2> QED BY <2>1 DEF NothingForgotten, Recorded
<1>1. /\ p \notin signals'
      /\ ~(worker'.pc \in {"vet", "ingest"} /\ worker'.path = p /\ worker'.text = files'[p])
  BY DEF Pending
<1>2. files'[p] = files[p]
  BY <1>1, SignalsStep
<1>3. ~Refused(files[p]) /\ files[p] # NoFile
  BY <1>2
<1>4. ~ReadFile(p)
  <2>1. ASSUME ReadFile(p)
        PROVE  worker'.pc \in {"vet", "ingest"} /\ worker'.path = p /\ worker'.text = files[p]
    <3>1. PICK pc \in {"vet", "ingest"} :
            worker' = [pc |-> pc, path |-> p, text |-> files[p], hash |-> NoFile]
      BY <2>1 DEF ReadFile
    <3> QED BY <3>1
  <2> QED BY <1>1, <1>2, <2>1
<1>5. p \notin signals /\ p \notin skipped
  BY <1>1, <1>4, SignalsStep
<1>6. CASE ~Pending(p)
  <2>1. Recorded(p)
    BY <1>3, <1>5, <1>6 DEF NothingForgotten, Recorded
  <2> QED BY <1>2, <1>3, <1>5, <1>6, <2>1, RecordedStays
<1>7. CASE worker.pc \in {"vet", "ingest"} /\ worker.path = p /\ worker.text = files[p]
  <2>1. worker' # worker
    BY <1>1, <1>2, <1>7
  <2>2. WorkerStep
    BY <2>1, WhoSteps, CommitLocal, UserLocal DEF vars, ResearchInv
  <2>3. ~WorkerRestart /\ ~IngestFails
    BY <1>1, <1>7 DEF WorkerRestart, IngestFails
  <2>4. ~IngestVanished
    BY <1>3, <1>7 DEF IngestVanished
  <2>5. ~Vet
    <3> SUFFICES ASSUME Vet PROVE FALSE
      OBVIOUS
    <3>1. PICK S : worker' = [worker EXCEPT !.pc = "ingest", !.hash = Mask(worker.text, S)]
      BY <1>3, <1>7 DEF Vet
    <3>2. worker'.pc = "ingest" /\ worker'.path = p /\ worker'.text = files[p]
      BY <1>7, <3>1 DEF ResearchInv, TypeOK, Executed
    <3> QED BY <1>1, <1>2, <3>2
  <2>6. IngestFile
    BY <1>7, <2>1, <2>2, <2>3, <2>4, <2>5 DEF WorkerStep, Task, TaskFails, RunResearch, RecordDraft,
         MarkFinished, Ingest, ReadFile, Overlook
  <2>7. worker.hash = Redact(worker.text)
    BY <1>5, <1>7, <2>6 DEF IngestFile, ReadIsFresh
  <2> QED BY <1>7, <2>6, <2>7, IngestRecords
<1> QED BY <1>5, <1>6, <1>7 DEF Pending

-----------------------------------------------------------------------------
(* The theorems.                                                            *)

\* The vault, the table and the job start in the invariant.
THEOREM ResearchInit == Init => Inv
<1> SUFFICES ASSUME Init PROVE Inv
  OBVIOUS
<1>1. TypeOK
  BY InitType
<1>2. DOMAIN notes = {}
  BY DEF Init
<1>3. worker.pc = "idle" /\ \A c \in Clients : call[c].pc = "idle"
  BY RecordFacts DEF Init
<1>4. \A p \in Paths : files[p] = NoFile
  BY DEF Init
<1>5. ResearchInv
  BY <1>1, <1>2, <1>3 DEF ResearchInv, PathsUnique, CallOK, At
<1>6. FilesInv
  BY <1>4, TextFacts DEF Init, FilesInv, UsersFilesKept, SecretsAccounted
<1>7. ResultIsTraced
  BY DEF Init, ResultIsTraced
<1>8. ReadIsFresh /\ NothingForgotten
  BY <1>3, <1>4 DEF ReadIsFresh, NothingForgotten
<1> QED BY <1>5, <1>6, <1>7, <1>8 DEF Inv

\* No step of a commit, of the worker or of the user leaves it.
THEOREM ResearchStep == Inv /\ [Next]_vars => Inv'
  BY TypeStep, UniqueStep, CallStep, KeptStep, SecretsStep, ResultStep, FreshStep, ForgottenStep
  DEF Inv, FilesInv, ResearchInv

LEMMA AlwaysInv == Spec => []Inv
  BY ResearchInit, ResearchStep, PTL DEF Spec

\* For every instance: the types hold, a path has one row, and a client that is
\* about to use a row or a body has it.
THEOREM ResearchInvariant == Spec => []ResearchInv
<1>1. Inv => ResearchInv
  BY DEF Inv
<1> QED BY <1>1, AlwaysInv, PTL

\* For every instance: a file the user put where no commit was at work is not written
\* over, masked or unlinked by one, until the user takes it away.
THEOREM FilesAreKept == Spec => []UsersFilesKept
<1>1. Inv => UsersFilesKept
  BY DEF Inv, FilesInv
<1> QED BY <1>1, AlwaysInv, PTL

\* For every instance: a secret of a page is in the vault only where a commit is about to
\* deal with it; but where one died, could not scan, or masked its draft by the findings
\* of another text than that draft, and where the user put a copy.
THEOREM SecretsAreMasked == Spec => []SecretsAccounted
<1>1. Inv => SecretsAccounted
  BY DEF Inv, FilesInv
<1> QED BY <1>1, AlwaysInv, PTL

\* For every instance: the result a job names is traced to it.
THEOREM ResultsAreTraced == Spec => []ResultIsTraced
<1>1. Inv => ResultIsTraced
  BY DEF Inv
<1> QED BY <1>1, AlwaysInv, PTL

\* For every instance: a file that is not refused has a row with its hash or an ingestion
\* due or under way, unless its latest ingestion was given up without a word.
THEOREM FilesAreRecorded == Spec => []NothingForgotten
<1>1. Inv => NothingForgotten
  BY DEF Inv
<1> QED BY <1>1, AlwaysInv, PTL
=============================================================================
