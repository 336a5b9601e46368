----------------------------- MODULE StreamBus -----------------------------
(***************************************************************************)
(* The live stream of one run: stream_events rows with their per-run       *)
(* sequence, the activity that records the end of the run and trims them,  *)
(* and the SSE route that polls them for its subscribers.                  *)
(*                                                                         *)
(* Every action is one SQLite statement or transaction; between two of     *)
(* them the worker and the web process interleave, and an activity may be  *)
(* lost and tried again.  An attempt that was given up may still publish.  *)
(*                                                                         *)
(* Abstracted: payloads, session ids and timestamps.  An event is its      *)
(* deduplication key.  The transcript is whether it says the run ended.    *)
(***************************************************************************)
EXTENDS Naturals, FiniteSets

CONSTANTS
  Subscribers,   \* clients of the SSE route
  MaxEvents,     \* events the run publishes before its end
  Limit,         \* rows per read (100 in the code)
  MaxAttempts,   \* attempts of recordRunCompleted
  MaxLate,       \* bound: events published by attempts that were given up
  MaxIds         \* bound: ids after which no other run publishes

ASSUME StreamAssumption ==
  /\ {MaxEvents, MaxLate, MaxIds} \subseteq Nat
  /\ {Limit, MaxAttempts} \subseteq Nat \ {0}

VARIABLES
  published,     \* history: every stream_events row this run ever had
  trimmed,       \* history: ids of the rows that were deleted
  lastId,        \* the autoincrement counter, shared by all runs
  produced,      \* events published in turn so far
  late,          \* counter of the bound MaxLate
  status,        \* runs.status
  transcript,    \* the transcript holds the answer and the terminal event
  writer,        \* the next statement of recordRunCompleted
  outcome,       \* the status it was called with
  attempts,      \* attempts begun
  upTo,          \* maxId of trimCompletedRunStream
  phase,         \* what the route does next for a subscriber
  cursor,        \* id of the last row it sent, from which a client resumes
  lastSequence,  \* sequence of that row, 0 on a new connection
  seen,          \* seenTerminalLifecycle
  received,      \* ids of the rows the client has
  noticed,       \* history: this connection was sent a stream.gap
  ends           \* history: statuses this connection was told the run ended with

bus == <<published, trimmed, lastId>>
producer == <<produced, late>>
completion == <<status, transcript, writer, outcome, attempts, upTo>>
route == <<phase, cursor, lastSequence, seen>>
client == <<received, noticed, ends>>

vars == <<bus, producer, completion, route, client>>

Outcomes == {"complete", "failed", "cancelled"}

(* Deduplication keys: those of the events in turn, and lifecycle:completed. *)
TerminalKey == 0
Keys == 0..MaxEvents

(* The stream_events table. *)
Rows == {r \in published : r.id \notin trimmed}

Init ==
  /\ published = {}
  /\ trimmed = {}
  /\ lastId = 0
  /\ produced = 0
  /\ late = 0
  /\ status = "running"
  /\ transcript = FALSE
  /\ writer = "idle"
  /\ outcome \in Outcomes
  /\ attempts = 0
  /\ upTo = 0
  /\ phase = [s \in Subscribers |-> "off"]
  /\ cursor = [s \in Subscribers |-> 0]
  /\ lastSequence = [s \in Subscribers |-> 0]
  /\ seen = [s \in Subscribers |-> FALSE]
  /\ received = [s \in Subscribers |-> {}]
  /\ noticed = [s \in Subscribers |-> FALSE]
  /\ ends = [s \in Subscribers |-> {}]

-----------------------------------------------------------------------------
(* publishStreamEvent. *)

HighestId(rows) == CHOOSE i \in {r.id : r \in rows} : \A r \in rows : r.id <= i

(* AUTOINCREMENT never gives an id twice, also after deletes. *)
NextId == lastId + 1

(* One more than the highest sequence in the table. *)
NextSequence ==
  IF Rows = {} THEN 1
  ELSE 1 + CHOOSE n \in {r.sequence : r \in Rows} : \A r \in Rows : r.sequence <= n

(* A key that is in the table is not inserted again. *)
Publish(key) ==
  /\ UNCHANGED trimmed
  /\ IF \E r \in Rows : r.key = key
     THEN UNCHANGED <<published, lastId>>
     ELSE /\ published' = published \cup
                 {[id |-> NextId, sequence |-> NextSequence, key |-> key]}
          /\ lastId' = NextId

(* The run's activities publish in turn, until the workflow completes the run. *)
PublishEvent ==
  /\ writer = "idle"
  /\ produced < MaxEvents
  /\ produced' = produced + 1
  /\ Publish(produced + 1)
  /\ UNCHANGED <<late, completion, route, client>>

(* An attempt that timed out or was cancelled publishes what it has left to, before
   or after the attempt that replaced it does, or after the end of the run. *)
PublishLate(key) ==
  /\ late < MaxLate
  /\ late' = late + 1
  /\ Publish(key)
  /\ UNCHANGED <<produced, completion, route, client>>

OtherRunPublishes ==
  /\ lastId < MaxIds
  /\ lastId' = lastId + 1
  /\ UNCHANGED <<published, trimmed, producer, completion, route, client>>

-----------------------------------------------------------------------------
(* recordRunCompleted, statement by statement. *)

CompletionBegins ==
  /\ writer = "idle"
  /\ writer' = "status"
  /\ attempts' = 1
  /\ UNCHANGED <<bus, producer, status, transcript, outcome, upTo, route, client>>

PublishesFirst ==
  /\ writer = "status"
  /\ status' = outcome
  /\ writer' = "publish"
  /\ UNCHANGED <<bus, producer, transcript, outcome, attempts, upTo, route, client>>

WriteStatus ==
  /\ writer = "status"
  /\ status' = outcome
  /\ writer' = "transcript"
  /\ UNCHANGED <<bus, producer, transcript, outcome, attempts, upTo, route, client>>

(* Two appends, each at most once by its id: the answer and the terminal event.
   Nothing here reads between them, and a retry repeats both. *)
WriteTranscript ==
  /\ writer = "transcript"
  /\ transcript' = TRUE
  /\ writer' = "publish"
  /\ UNCHANGED <<bus, producer, status, outcome, attempts, upTo, route, client>>

(* Only a complete run is trimmed. *)
PublishTerminal ==
  /\ writer = "publish"
  /\ Publish(TerminalKey)
  /\ writer' = IF outcome = "complete" THEN "list" ELSE "done"
  /\ UNCHANGED <<producer, status, transcript, outcome, attempts, upTo, route, client>>

(* The run has just published, so that there are rows. *)
ListRows ==
  /\ writer = "list"
  /\ upTo' = HighestId(Rows)
  /\ writer' = "delete"
  /\ UNCHANGED <<bus, producer, status, transcript, outcome, attempts, route, client>>

DeleteRows ==
  /\ writer = "delete"
  /\ trimmed' = trimmed \cup {r.id : r \in {q \in Rows : q.id <= upTo}}
  /\ writer' = "done"
  /\ UNCHANGED <<published, lastId, producer, status, transcript, outcome, attempts,
                 upTo, route, client>>

AttemptLeft == attempts < MaxAttempts

(* The attempt failed or was lost, at the latest before its answer was seen. *)
RetryCompletion ==
  /\ writer \notin {"idle", "status"}
  /\ AttemptLeft
  /\ attempts' = attempts + 1
  /\ writer' = "status"
  /\ UNCHANGED <<bus, producer, status, transcript, outcome, upTo, route, client>>

-----------------------------------------------------------------------------
(* The SSE route. *)

Pending(s) == {r \in Rows : r.id > cursor[s]}

NewestRows(s) ==
  {r \in Pending(s) : Cardinality({q \in Pending(s) : q.id >= r.id}) <= Limit}

(* readStreamEventsAfterCursor: the rows after the cursor by id, Limit at most. *)
Batch(s) ==
  {r \in Pending(s) : Cardinality({q \in Pending(s) : q.id <= r.id}) <= Limit}

First(batch) == CHOOSE r \in batch : \A q \in batch : r.id <= q.id
Last(batch) == CHOOSE r \in batch : \A q \in batch : q.id <= r.id

LeadingGap(s, batch) ==
  lastSequence[s] > 0 /\ First(batch).sequence # lastSequence[s] + 1

InteriorGap(batch) ==
  \E r \in batch \ {First(batch)} : ~\E q \in batch : q.id < r.id /\ q.sequence + 1 = r.sequence

(* What one read sends. *)
Deliver(s) ==
  LET batch == Batch(s) IN
  IF batch = {}
  THEN UNCHANGED <<cursor, lastSequence, received, noticed>>
  ELSE /\ cursor' = [cursor EXCEPT ![s] = Last(batch).id]
       /\ lastSequence' = [lastSequence EXCEPT ![s] = Last(batch).sequence]
       /\ received' = [received EXCEPT ![s] = @ \cup {r.id : r \in batch}]
       /\ noticed' = [noticed EXCEPT ![s] = @ \/ LeadingGap(s, batch) \/ InteriorGap(batch)]

(* The status of the terminal event, when this read has it. *)
Ended(s) == {outcome : r \in {q \in Batch(s) : q.key = TerminalKey}}

(* A client connects afresh or resumes after the last row it has. *)
Connect(s, resume) ==
  /\ phase[s] \in {"off", "closed"}
  /\ phase' = [phase EXCEPT ![s] = "polling"]
  /\ cursor' = [cursor EXCEPT ![s] = IF resume THEN @ ELSE 0]
  /\ received' = [received EXCEPT ![s] = IF resume THEN @ ELSE {}]
  /\ lastSequence' = [lastSequence EXCEPT ![s] = 0]
  /\ seen' = [seen EXCEPT ![s] = FALSE]
  /\ noticed' = [noticed EXCEPT ![s] = FALSE]
  /\ ends' = [ends EXCEPT ![s] = {}]
  /\ UNCHANGED <<bus, producer, completion>>

Disconnect(s) ==
  /\ phase[s] \in {"polling", "checking", "draining"}
  /\ phase' = [phase EXCEPT ![s] = "off"]
  /\ UNCHANGED <<bus, producer, completion, cursor, lastSequence, seen, client>>

Poll(s) ==
  /\ phase[s] = "polling"
  /\ Deliver(s)
  /\ seen' = [seen EXCEPT ![s] = @ \/ Ended(s) # {}]
  /\ ends' = [ends EXCEPT ![s] = @ \cup Ended(s)]
  /\ phase' = [phase EXCEPT ![s] = "checking"]
  /\ UNCHANGED <<bus, producer, completion>>

EndsWhenSeen(s) == seen[s]

RunIsTerminal(s) == status \in Outcomes

CheckStatus(s) ==
  /\ phase[s] = "checking"
  /\ phase' = [phase EXCEPT ![s] = IF RunIsTerminal(s) THEN "draining" ELSE "polling"]
  /\ UNCHANGED <<bus, producer, completion, cursor, lastSequence, seen, client>>

(* The frame made from the run record when no read had the terminal event. *)
Recovery(s) == IF seen[s] \/ Ended(s) # {} THEN {} ELSE {status}

FinalDrain(s) ==
  /\ phase[s] = "draining"
  /\ Deliver(s)
  /\ seen' = [seen EXCEPT ![s] = @ \/ Ended(s) # {}]
  /\ ends' = [ends EXCEPT ![s] = @ \cup Ended(s) \cup Recovery(s)]
  /\ phase' = [phase EXCEPT ![s] = "closed"]
  /\ UNCHANGED <<bus, producer, completion>>

-----------------------------------------------------------------------------
RunStep ==
  \/ PublishEvent
  \/ \E key \in 1..MaxEvents : PublishLate(key)
  \/ OtherRunPublishes

CompletionStep ==
  \/ CompletionBegins \/ WriteStatus \/ WriteTranscript \/ PublishTerminal
  \/ ListRows \/ DeleteRows \/ RetryCompletion

RouteStep(s) == Poll(s) \/ CheckStatus(s) \/ FinalDrain(s)

ClientStep(s) ==
  \/ \E resume \in BOOLEAN : Connect(s, resume)
  \/ Disconnect(s)

Next ==
  \/ RunStep
  \/ CompletionStep
  \/ \E s \in Subscribers : RouteStep(s) \/ ClientStep(s)

Spec == Init /\ [][Next]_vars

(* The route polls on a timer.  Nothing is assumed of the run and the clients. *)
FairSpec == Spec /\ \A s \in Subscribers : WF_vars(RouteStep(s))

-----------------------------------------------------------------------------
RowType == [id : Nat, sequence : Nat, key : Keys]

TypeOK ==
  /\ published \subseteq RowType
  /\ trimmed \subseteq Nat
  /\ lastId \in Nat
  /\ produced \in 0..MaxEvents
  /\ late \in 0..MaxLate
  /\ status \in Outcomes \cup {"running"}
  /\ transcript \in BOOLEAN
  /\ writer \in {"idle", "status", "transcript", "publish", "list", "delete", "done"}
  /\ outcome \in Outcomes
  /\ attempts \in 0..MaxAttempts
  /\ upTo \in Nat
  /\ phase \in [Subscribers -> {"off", "polling", "checking", "draining", "closed"}]
  /\ cursor \in [Subscribers -> Nat]
  /\ lastSequence \in [Subscribers -> Nat]
  /\ seen \in [Subscribers -> BOOLEAN]
  /\ received \in [Subscribers -> SUBSET Nat]
  /\ noticed \in [Subscribers -> BOOLEAN]
  /\ ends \in [Subscribers -> SUBSET Outcomes]

(* The rows of a run, by id, have consecutive sequences, also while they are
   trimmed and while late events arrive between the trim's two statements. *)
BusContiguous ==
  \A r, q \in Rows :
    r.id < q.id /\ (~\E p \in Rows : r.id < p.id /\ p.id < q.id)
      => q.sequence = r.sequence + 1

(* A row the client's position has passed was sent to it, on this connection or
   on one it resumed from, or was trimmed before it could be. *)
LossOnlyByTrim ==
  \A s \in Subscribers, r \in published :
    r.id <= cursor[s] /\ r.id \notin trimmed => r.id \in received[s]

(* A subscriber is told of a gap only when rows of this run were trimmed, never
   because other runs publish at the same time. *)
GapsAreReal == \A s \in Subscribers : noticed[s] => trimmed # {}

(* A stream the server ends has told its subscriber how the run ended, as the run
   record has it and nothing else, however the trim and the retries fell. *)
TerminalSignal == \A s \in Subscribers : phase[s] = "closed" => ends[s] = {status}

(* A client that was sent the terminal event finds the whole turn when it reads the
   transcript: recordRunCompleted appends the answer before it publishes, also in
   a retry.  (A stream that ends on the run status alone promises no such thing.) *)
AnswerPrecedesSignal ==
  \A s \in Subscribers, r \in published :
    r.key = TerminalKey /\ r.id \in received[s] => transcript

(* Once the run has ended, every open stream ends. *)
StreamCloses ==
  \A s \in Subscribers :
    status \in Outcomes /\ phase[s] # "off" ~> phase[s] \in {"closed", "off"}

(* What the bus holds reaches its subscribers: rows in sequence, no row lost but by
   the trim, and word of a gap only when there is one. *)
RowsReachSubscribers == TypeOK /\ BusContiguous /\ LossOnlyByTrim /\ GapsAreReal

(* A subscriber is told the true end of the run, and not before the answer is kept. *)
EndIsTold == TerminalSignal /\ AnswerPrecedesSignal
=============================================================================
