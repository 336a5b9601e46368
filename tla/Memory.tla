------------------------------ MODULE Memory ------------------------------
(***************************************************************************)
(* The memory of a session: candidates its runs write, the compaction that *)
(* summarises its transcript before a handoff, and the user who confirms   *)
(* or discards candidates.                                                 *)
(*                                                                         *)
(* Memory activities write one statement at a time.  Temporal tries each   *)
(* at most MaxAttempts times: a statement may fail, the worker may be lost *)
(* or the answer come too late, after any of them.  Attempts do not        *)
(* overlap, and neither do requests of the web server: between their       *)
(* statements they await nothing but SQLite, which is synchronous.         *)
(*                                                                         *)
(* Abstracted: what notes say, their layer and tags; embeddings, which no  *)
(* workflow and no route writes.                                           *)
(***************************************************************************)
EXTENDS Integers, Sequences, SequencesExt, FiniteSetsExt, Retrieval

CONSTANTS
  MaxRuns,       \* bound: runs of a session, one fewer after each restart
  MaxEvents,     \* bound: transcript events of a run
  MaxAttempts,   \* attempts of an activity (2 or 3 in the code)
  MaxLives,      \* bound: times a failed session is started again
  MaxFaults,     \* bound: attempts that are given up
  MaxAnswers     \* bound: candidates the user answers

ASSUME MemoryAssumption ==
  /\ {MaxRuns, MaxEvents, MaxAttempts} \subseteq Nat \ {0}
  /\ {MaxLives, MaxFaults, MaxAnswers} \subseteq Nat

VARIABLES
  transcript,    \* transcript_events of the session: the run and its own sequence
  notes,         \* memory_notes, by id
  cards,         \* memory.candidate events on the stream, by id of the note
  row,           \* sessions.transcript_cursor and sessions.memory_refs
  phase,         \* what the session is doing
  run,           \* runs started in this life of the session
  held,          \* memoryCursor and memoryRefs of the session workflow
  attempt,       \* attempts of the activity the session waits for
  at,            \* the attempt: its next statement and what it carries
  discarding,    \* the candidate a request is removing
  life,          \* counter of the bound MaxLives
  faults,        \* counter of the bound MaxFaults
  compacted      \* history: the compactions, their life, last run, events and references

session == <<phase, run, held, attempt>>
tables == <<transcript, notes, cards, row>>
memoryVars == <<tables, session, at, discarding, life, faults, compacted>>

-----------------------------------------------------------------------------
(* An attempt is at a statement and carries what its activity was called with,
   and the ids it has made so far. *)
Idle == [at |-> "none", run |-> 0, covers |-> {}, to |-> 0, refs |-> {}, proposes |-> FALSE,
         ids |-> {}]

MemoryInit ==
  /\ transcript = <<>> /\ notes = <<>> /\ cards = {}
  /\ row = [cursor |-> 0, refs |-> {}]
  /\ phase = "idle" /\ run = 0 /\ attempt = 0 /\ life = 0
  /\ held = [cursor |-> 0, refs |-> {}]
  /\ at = Idle
  /\ discarding = 0 /\ faults = 0
  /\ compacted = <<>>

-----------------------------------------------------------------------------
(* Runs. *)

EventsOf(r) == Cardinality({i \in DOMAIN transcript : transcript[i].run = r})

(* appendTranscriptEvent for the first n events of a run: the sequence counts
   within the run, and an event whose id is already there is left alone (the ids
   of a session that was started again are those of its first life). *)
Appended(r, n) ==
  transcript \o [i \in 1..n - EventsOf(r) |-> [run |-> r, seq |-> EventsOf(r) + i]]

WriteAttempt(r) == [Idle EXCEPT !.at = "insert", !.run = r]

(* A run writes its transcript, and a candidate for what it did. *)
Run ==
  /\ phase = "idle" /\ run + life < MaxRuns
  /\ run' = run + 1
  /\ \E n \in 0..MaxEvents : transcript' = Appended(run + 1, n)
  /\ phase' = "write" /\ attempt' = 1
  /\ at' = WriteAttempt(run + 1)
  /\ UNCHANGED <<notes, cards, row, held, discarding, life, faults, compacted>>

NewId == Len(notes) + 1

(* confirmedAt: an explicit null stays null. *)
NullMeansNow(confirmed) == "confirmed"

Confirmation(confirmed) == IF confirmed THEN "confirmed" ELSE "pending"

Note(kind, confirmed) == [kind |-> kind, of |-> run, state |-> Confirmation(confirmed)]

Then(next) == at' = [at EXCEPT !.at = next]

MadeNote(note, next) ==
  /\ notes' = Append(notes, note)
  /\ at' = [at EXCEPT !.at = next, !.ids = @ \cup {NewId}]

(* writeCandidate: the row, under a fresh id, then the card. *)
InsertCandidate ==
  /\ at.at = "insert"
  /\ MadeNote(Note("run", FALSE), "publish")
  /\ UNCHANGED <<transcript, cards, row>>

PublishCard ==
  /\ at.at = "publish"
  /\ cards' = cards \cup at.ids
  /\ Then("written")
  /\ UNCHANGED <<transcript, notes, row>>

(* trimCompletedRunStream, when the run is recorded as complete. *)
Trimmed == {c \in cards : notes[c].of # run}

(* The ids of the run's candidates become references of the session. *)
RunReturns ==
  /\ phase = "write" /\ at.at = "written"
  /\ held' = [held EXCEPT !.refs = @ \cup at.ids]
  /\ at' = Idle
  /\ cards' \in {cards, Trimmed}
  /\ phase' = "returned" /\ attempt' = 0
  /\ UNCHANGED <<transcript, notes, row, run, discarding, life, faults, compacted>>

-----------------------------------------------------------------------------
(* Compaction, between two runs and before a handoff. *)

NextRun ==
  /\ phase = "returned"
  /\ phase' = "idle"
  /\ UNCHANGED <<tables, run, held, attempt, at, discarding, life, faults, compacted>>

After(c) == {i \in DOMAIN transcript : transcript[i].seq > c}

NoRefs == {}

(* parseMemoryRefs of sessions.memory_refs. *)
ExistingRefs == row.refs

(* loadMemoryCompactionInput, then summarizeCompaction, which proposes notes. *)
Load ==
  /\ phase = "returned"
  /\ LET covers == After(held.cursor)
     IN \E proposes \in {FALSE, covers # {}} :
          at' = [at |-> "summary", run |-> run, covers |-> covers, refs |-> ExistingRefs,
                 to |-> Max({held.cursor} \cup {transcript[i].seq : i \in covers}),
                 proposes |-> proposes, ids |-> {}]
  /\ phase' = "persist" /\ attempt' = 1
  /\ UNCHANGED <<tables, run, held, discarding, life, faults, compacted>>

AfterSummary == IF at.proposes THEN "proposal" ELSE "update"

(* compactSessionMemory. *)
InsertSummary ==
  /\ at.at = "summary"
  /\ MadeNote(Note("summary", TRUE), AfterSummary)
  /\ UNCHANGED <<transcript, cards, row>>

InsertProposal ==
  /\ at.at = "proposal"
  /\ MadeNote(Note("proposed", FALSE), "update")
  /\ UNCHANGED <<transcript, cards, row>>

UpdateSession ==
  /\ at.at = "update"
  /\ row' = [cursor |-> at.to, refs |-> at.refs \cup at.ids]
  /\ Then("updated")
  /\ UNCHANGED <<transcript, notes, cards>>

(* The session takes references and cursor from the result, in place of its own (those
   of its runs' candidates go with them), and hands off. *)
CompactionReturns ==
  /\ phase = "persist" /\ at.at = "updated"
  /\ LET a == at
     IN /\ held' = [cursor |-> a.to, refs |-> a.refs \cup a.ids]
        /\ compacted' = Append(compacted, [life |-> life, run |-> run, covers |-> a.covers,
                                           refs |-> held'.refs])
  /\ at' = Idle
  /\ phase' = "idle" /\ attempt' = 0
  /\ UNCHANGED <<tables, run, discarding, life, faults>>

-----------------------------------------------------------------------------
(* Attempts. *)

Writes ==
  \/ InsertCandidate \/ PublishCard
  \/ InsertSummary \/ InsertProposal \/ UpdateSession

Statement ==
  /\ Writes
  /\ UNCHANGED <<session, discarding, life, faults, compacted>>

Retried == IF phase = "write" THEN WriteAttempt(run)
           ELSE [at EXCEPT !.at = "summary", !.ids = {}]

AttemptLeft == attempt < MaxAttempts

(* An attempt is given up: it failed, ran out of time, or its answer was lost. *)
Fault == faults < MaxFaults /\ faults' = faults + 1

Retry ==
  /\ phase \in {"write", "persist"} /\ AttemptLeft /\ Fault
  /\ attempt' = attempt + 1
  /\ at' = Retried
  /\ UNCHANGED <<tables, phase, run, held, discarding, life, compacted>>

(* A candidate that cannot be written is left out; a compaction that fails fails
   the session. *)
GiveUp ==
  /\ phase \in {"write", "persist"} /\ ~AttemptLeft /\ Fault
  /\ at' = Idle
  /\ phase' = IF phase = "write" THEN "returned" ELSE "failed"
  /\ attempt' = 0
  /\ UNCHANGED <<tables, run, held, discarding, life, compacted>>

(* A session that failed is started again under its key: memoryCursor and
   memoryRefs begin at their defaults, the tables stay. *)
StartAgain ==
  /\ phase = "failed" /\ life < MaxLives
  /\ life' = life + 1
  /\ phase' = "idle" /\ run' = 0
  /\ held' = [cursor |-> 0, refs |-> {}]
  /\ UNCHANGED <<tables, attempt, at, discarding, faults, compacted>>

-----------------------------------------------------------------------------
(* The user. *)

Pending(i) == i \in DOMAIN notes /\ notes[i].state = "pending"

MayAnswer ==
  /\ discarding = 0
  /\ Cardinality({i \in DOMAIN notes : notes[i].state \in {"kept", "deleted"}}) < MaxAnswers

Confirm(i) ==
  /\ Pending(i) /\ MayAnswer
  /\ notes' = [notes EXCEPT ![i].state = "kept"]
  /\ UNCHANGED <<transcript, cards, row, session, at, discarding, life, faults, compacted>>

Discard(i) ==
  /\ Pending(i) /\ MayAnswer
  /\ notes' = [notes EXCEPT ![i].state = "deleted"]
  /\ discarding' = i
  /\ UNCHANGED <<transcript, cards, row, session, at, life, faults, compacted>>

(* The second statement of the request, which may fail. *)
DiscardCard ==
  /\ discarding # 0
  /\ cards' \in {cards, cards \ {discarding}}
  /\ discarding' = 0
  /\ UNCHANGED <<transcript, notes, row, session, at, life, faults, compacted>>

Proceed ==
  \/ Run \/ RunReturns \/ NextRun \/ Load \/ CompactionReturns
  \/ Statement \/ Retry \/ GiveUp

MemoryNext ==
  \/ Proceed \/ StartAgain \/ DiscardCard
  \/ \E i \in DOMAIN notes : Confirm(i) \/ Discard(i)

MemorySpec == MemoryInit /\ [][MemoryNext]_memoryVars

-----------------------------------------------------------------------------
(* listBySession, listAll, searchLexical and searchVector. *)
Retrievable == {i \in DOMAIN notes : notes[i].state \in {"confirmed", "kept"}}

MemoryTypeOK ==
  /\ \A i \in DOMAIN transcript : transcript[i] \in [run : 1..MaxRuns, seq : Nat \ {0}]
  /\ \A i \in DOMAIN notes :
       notes[i] \in [kind : {"run", "summary", "proposed"}, of : 1..MaxRuns,
                    state : {"pending", "confirmed", "kept", "deleted"}]
  /\ cards \subseteq DOMAIN notes
  /\ {row, held} \subseteq [cursor : Nat, refs : SUBSET DOMAIN notes]
  /\ phase \in {"idle", "write", "returned", "persist", "failed"}
  /\ at.covers \subseteq DOMAIN transcript /\ at.refs \cup at.ids \subseteq DOMAIN notes
  /\ discarding \in {0} \cup DOMAIN notes
  /\ run \in 0..MaxRuns /\ attempt \in 0..MaxAttempts
  /\ life \in 0..MaxLives /\ faults \in 0..MaxFaults

(* What a run or a compaction proposes is not retrieved unless the user confirmed
   it; only the summary of a compaction needs no confirmation. *)
NothingLeaks == \A i \in Retrievable : notes[i].kind = "summary" \/ notes[i].state = "kept"

(* Two compactions summarise the same event only if the session failed between them and
   was started again, at cursor zero. *)
SummarisedOnce ==
  \A i, j \in DOMAIN compacted :
    i # j /\ compacted[i].covers \cap compacted[j].covers # {}
    => compacted[i].life # compacted[j].life

(* A compaction keeps the references of the compactions before it, in the lives before
   too, however often one of its attempts was repeated. *)
ReferencesAccumulate == \A i \in DOMAIN compacted : compacted[i].refs \subseteq row.refs

Compacted == compacted # <<>> /\ Last(compacted).life = life

(* The candidates of the runs since the last compaction. *)
Gathered == {i \in DOMAIN notes : notes[i].kind = "run" /\ notes[i].of > Last(compacted).run}

(* From a handoff to the next compaction the session works with the position that the
   sessions row tells, and refers to what the row refers to and to candidates of the runs
   since: to those of earlier runs no longer. *)
HandoffIsRecorded ==
  Compacted /\ phase \in {"idle", "write", "returned"} =>
    /\ held.cursor = row.cursor
    /\ row.refs \subseteq held.refs /\ held.refs \subseteq row.refs \cup Gathered

(* What is remembered: what nobody confirmed is not found, but for summaries, and no
   part of the transcript is summarised twice unless the session was started again. *)
MemoryIsVetted == MemoryTypeOK /\ NothingLeaks /\ SummarisedOnce

(* Compactions add to what the sessions row refers to, and a handoff hands on exactly
   that; the candidates that the session itself had gathered are not handed on, although
   AgentSessionInput calls memoryRefs the accumulated candidate refs. *)
HandoffKeepsMemory == ReferencesAccumulate /\ HandoffIsRecorded

(* What the next run loads is found the same way by every search: they and their
   fusion agree with one another (Retrieval). *)
RetrievalAgrees == phase = "idle" => FusionKeepsOrder /\ IndexAgrees
=============================================================================
