-------------------------- MODULE ConversationView --------------------------
(***************************************************************************)
(* The conversation a session page shows: what a run writes to the         *)
(* transcript and to the stream bus, the submission that follows its       *)
(* stream, the transcript that is fetched after it, and the fold of either *)
(* into messages, which is kept and extended from one rendering to the     *)
(* next.                                                                   *)
(*                                                                         *)
(* A step of the page is what it does between two awaits; Svelte renders   *)
(* once after each.  A step of the server is one statement.  A run may     *)
(* stop before it has written everything: its row then says that it is     *)
(* running, and the next run goes on.                                      *)
(*                                                                         *)
(* Abstracted: payloads (a text is a sequence of tokens, a call or an      *)
(* approval its key), the slicing of frames into chunks, attachments.      *)
(***************************************************************************)
EXTENDS Naturals, SequencesExt

CONSTANTS
  Shapes,     \* what runs may do: sets of features
  MaxTurns,   \* bound: submissions
  MaxWords,   \* bound: tokens of a model response
  MaxToggles, \* bound: changes of the transcript mode by the user
  MaxStops    \* bound: runs that stop

ASSUME ConversationAssumption ==
  /\ Shapes \subseteq SUBSET {"tool", "approval", "delegate"}
  /\ {MaxTurns, MaxWords, MaxToggles, MaxStops} \subseteq Nat

VARIABLES
  queue,      \* messages that wait for the session
  turn,       \* runs begun
  todo,       \* what the current run has still to write
  rows,       \* transcript_events of the session
  bus,        \* every event a run published
  trimmed,    \* runs whose events were deleted
  finished,   \* runs with a terminal runs.status
  asked,      \* history: the message of every accepted turn
  nextId,     \* stream_events ids given so far
  stage,      \* where handleSubmit is; the page is running unless idle
  follows,    \* the run whose stream it follows
  cursor,     \* frames of it that arrived
  live,       \* liveEvents
  canonical,  \* rows of canonicalTranscript
  mode,       \* transcriptMode
  fetch,      \* loadTranscript calls: of the submission, and after a gap
  builder,    \* the fold the view keeps
  submitted, toggled   \* counters of the bounds

session == <<queue, turn, todo, rows, bus, trimmed, finished, nextId>>
pageState == <<stage, follows, cursor, live, canonical, mode, fetch, builder>>
bounds == <<submitted, toggled>>
viewVars == <<session, asked, pageState, bounds>>

Runs == 1..MaxTurns

-----------------------------------------------------------------------------
(* Events and rows. *)

NoText == <<>>
NoKey == <<>>

(* One step writes a row and publishes its event, either possibly none: a
   reader of both cannot tell, as frames may be late. *)
Written(row, event, text, key, status) ==
  [row |-> row, event |-> event, text |-> text, key |-> key, status |-> status]

Write(row, event, text, key, status) == <<Written(row, event, text, key, status)>>

Words(r, call) == [i \in 1..MaxWords |-> <<r, call, i>>]

(* A response of the model arrives token by token. *)
Deltas(r, call) ==
  [i \in 1..MaxWords |-> Written("", "assistant.delta", <<<<r, call, i>>>>, NoKey, "")]

Key(r) == <<r>>

Part(feature, shape, writes) == IF feature \in shape THEN writes ELSE <<>>

Approve(r) ==
  Write("approval_request", "approval.request", NoText, Key(r), "")
  \o Write("approval_resolution", "approval.resolution", NoText, Key(r), "approve")

Delegate(r) ==
  Write("lifecycle", "subagent.start", NoText, Key(r), "")
  \o Write("lifecycle", "subagent.complete", NoText, Key(r), "complete")

ToolCall(r, shape) ==
  Deltas(r, 1) \o Write("tool_call", "tool.call", Words(r, 1), Key(r), "")
  \o Part("approval", shape, Approve(r)) \o Part("delegate", shape, Delegate(r))
  \o Write("tool_result", "tool.result", NoText, Key(r), "")

(* runs.status changes before the rows of the end are there. *)
Script(r, m, shape) ==
  Write("user_message", "", m, NoKey, "")
  \o Write("lifecycle", "lifecycle", NoText, NoKey, "started")
  \o Part("tool", shape, ToolCall(r, shape)) \o Deltas(r, 2)
  \o Write("", "", NoText, NoKey, "finished")
  \o Write("assistant_message", "", Words(r, 2), NoKey, "")
  \o Write("lifecycle", "lifecycle", NoText, NoKey, "complete")
  \o Write("", "", NoText, NoKey, "trim")

TranscriptKind(kind) ==
  CASE kind = "user_message" -> "user.message"
    [] kind = "assistant_message" -> "assistant.message"
    [] kind = "tool_call" -> "tool.call"
    [] kind = "tool_result" -> "tool.result"
    [] kind = "approval_request" -> "approval.request"
    [] kind = "approval_resolution" -> "approval.resolution"
    [] OTHER -> kind

(* Positions become ids; of a tool_call only the calls are taken. *)
Mapped(n) ==
  [i \in 1..n |-> [id |-> i - 1, kind |-> TranscriptKind(rows[i].kind),
                   text |-> IF rows[i].kind = "tool_call" THEN NoText ELSE rows[i].text,
                   key |-> rows[i].key, status |-> rows[i].status, seq |-> rows[i].seq]]

-----------------------------------------------------------------------------
(* applyNewStreamEvents. *)

Empty == [messages |-> <<>>, said |-> NoText, speaker |-> 0]

Message(role, e) ==
  [role |-> role, text |-> e.text, key |-> e.key, status |-> e.status, seq |-> e.seq, settled |-> ""]

Append1(b, m) == [b EXCEPT !.messages = Append(@, m)]

StillSpeaking(b) == b

(* The next reply is a message of its own. *)
Silent(b) == [messages |-> b.messages, said |-> NoText, speaker |-> 0]

Says(b, e, text) ==
  IF b.speaker # 0
  THEN [b EXCEPT !.said = text, !.messages[b.speaker].text = text]
  ELSE [b EXCEPT !.said = text, !.speaker = Len(b.messages) + 1,
                 !.messages = Append(@, [Message("assistant", e) EXCEPT !.text = text])]

Resolves(b, e) ==
  [b EXCEPT !.messages = [i \in DOMAIN @ |->
     IF @[i].role = "approval" /\ @[i].key = e.key THEN [@[i] EXCEPT !.settled = e.status] ELSE @[i]]]

Apply(b, e) ==
  CASE e.kind = "user.message" -> Append1(Silent(b), Message("user", e))
    [] e.kind = "assistant.delta" -> Says(b, e, b.said \o e.text)
    [] e.kind = "assistant.message" -> Says(b, e, e.text)
    [] e.kind = "tool.call" -> Append1(Silent(b), Message("tool-call", e))
    [] e.kind = "tool.result" -> Append1(b, Message("tool-result", e))
    [] e.kind = "approval.request" -> Append1(b, Message("approval", e))
    [] e.kind = "approval.resolution" -> Resolves(b, e)
    [] e.kind \in {"subagent.start", "subagent.complete"} -> Append1(b, Message("subagent", e))
    [] e.kind = "lifecycle" -> Append1(b, Message("lifecycle", e))

(* The events after the first n that are in b already. *)
Folded(b, n, events) ==
  LET fold[i \in n..Len(events)] == IF i = n THEN b ELSE Apply(fold[i - 1], events[i])
  IN  fold[Len(events)]

(* buildConversation: the reference. *)
Conversation(events) == Folded(Empty, 0, events).messages

-----------------------------------------------------------------------------
(* The view. *)

Shown(m, l, c) == IF m = "live" THEN l ELSE Mapped(c)

Events == Shown(mode, live, canonical)

SameEvent(e, f) == e.id = f.id /\ e.kind = f.kind /\ e.seq = f.seq

LongerOnly(previous, next) == Len(next) >= Len(previous)

IsPrefixExtension(previous, next) ==
  /\ Len(next) >= Len(previous)
  /\ \A i \in DOMAIN previous : SameEvent(previous[i], next[i])

(* Events that were folded already are not folded again. *)
Rendered(previous, next) ==
  IF IsPrefixExtension(previous, next)
  THEN Folded(builder, Len(previous), next)
  ELSE Folded(Empty, 0, next)

(* The primed variables of the page are given before. *)
Render ==
  \E previous \in {Events}, next \in {Shown(mode', live', canonical')} :
    builder' = Rendered(previous, next)

ViewInit ==
  /\ queue = <<>> /\ turn = 0 /\ todo = <<>> /\ rows = <<>> /\ nextId = 0
  /\ bus = [r \in Runs |-> <<>>] /\ trimmed = {} /\ finished = {}
  /\ asked = <<>>
  /\ stage = "idle" /\ follows = 0 /\ cursor = 0
  /\ live = <<>> /\ canonical = 0 /\ mode = "live"
  /\ fetch = [of \in {"submit", "gap"} |-> [at |-> "none", rows |-> 0]]
  /\ builder = Empty
  /\ submitted = 0 /\ toggled = 0

-----------------------------------------------------------------------------
(* The server. *)

BeginRun ==
  /\ todo = <<>> /\ queue # <<>>
  /\ turn' = turn + 1 /\ queue' = Tail(queue)
  /\ \E shape \in Shapes : todo' = Script(turn + 1, Head(queue), shape)
  /\ UNCHANGED <<rows, bus, trimmed, finished, nextId, asked, pageState, bounds>>

(* Sequences of transcript rows are counted per run, ids of events overall. *)
RunRows == {i \in DOMAIN rows : rows[i].run = turn}

Perform(w) ==
  /\ rows' = IF w.row = "" THEN rows
             ELSE Append(rows, [kind |-> w.row, text |-> w.text, key |-> w.key,
                                status |-> w.status, seq |-> Cardinality(RunRows) + 1, run |-> turn])
  /\ bus' = IF w.event = "" THEN bus
            ELSE [bus EXCEPT ![turn] =
                    Append(@, [id |-> nextId + 1, kind |-> w.event, key |-> w.key, status |-> w.status, seq |-> 0,
                               text |-> IF w.event = "tool.call" THEN NoText ELSE w.text])]
  /\ nextId' = IF w.event = "" THEN nextId ELSE nextId + 1
  /\ finished' = IF w.status = "finished" THEN finished \cup {turn} ELSE finished
  /\ trimmed' = IF w.status = "trim" THEN trimmed \cup {turn} ELSE trimmed

RunWrites ==
  /\ todo # <<>>
  /\ Perform(Head(todo))
  /\ todo' = Tail(todo)
  /\ UNCHANGED <<queue, turn, asked, pageState, bounds>>

(* The run was cancelled, by an interrupt of this page or of another one, or
   its completion cannot be recorded. *)
RunStops ==
  /\ todo # <<>> /\ Cardinality(1..(turn - 1) \ trimmed) < MaxStops
  /\ todo' = <<>>
  /\ UNCHANGED <<queue, turn, rows, bus, trimmed, finished, nextId, asked, pageState, bounds>>

-----------------------------------------------------------------------------
(* handleSubmit. *)

Running == stage # "idle"

(* Every message is another one. *)
Question == <<<<submitted + 1>>>>

UserEvent(m) ==
  [id |-> canonical, kind |-> "user.message", text |-> m, key |-> NoKey, status |-> "", seq |-> 0]

(* The live view starts from the transcript as the page has it. *)
Submit ==
  /\ ~Running /\ submitted < MaxTurns
  /\ submitted' = submitted + 1
  /\ stage' = "posting" /\ mode' = "live"
  /\ live' = Append(Mapped(canonical), UserEvent(Question))
  /\ UNCHANGED <<session, asked, follows, cursor, canonical, fetch, toggled>>
  /\ Render

Asking == Last(live).text

(* The session accepts the turn; the answer may yet be lost, or the turn was
   refused or never arrived. *)
Accepted ==
  /\ stage = "posting"
  /\ queue' = Append(queue, Asking) /\ asked' = Append(asked, Asking)
  /\ \/ stage' = "connecting" /\ follows' = Len(asked) + 1 /\ cursor' = 0
     \/ stage' = "idle" /\ UNCHANGED <<follows, cursor>>
  /\ UNCHANGED <<turn, todo, rows, bus, trimmed, finished, nextId, live, canonical, mode, fetch,
                 builder, bounds>>

Refused ==
  /\ stage = "posting"
  /\ stage' = "idle"
  /\ UNCHANGED <<session, asked, follows, cursor, live, canonical, mode, fetch, builder, bounds>>

StartFetch(of) == fetch' = [fetch EXCEPT ![of] = [at |-> "sent", rows |-> 0]]

(* connectToStream retries while the run is not found, and gives up in the end. *)
Connect ==
  /\ stage = "connecting"
  /\ \/ follows <= turn /\ stage' = "streaming" /\ UNCHANGED fetch
     \/ stage' = "loading" /\ StartFetch("submit")
  /\ UNCHANGED <<session, asked, follows, cursor, live, canonical, mode, builder, bounds>>

Stream == bus[follows]
More == follows \notin trimmed /\ cursor < Len(Stream)

(* applyFrame. *)
Frame ==
  /\ stage = "streaming" /\ More
  /\ live' = Append(live, Stream[cursor + 1])
  /\ cursor' = cursor + 1
  /\ UNCHANGED <<session, asked, stage, follows, canonical, mode, fetch, bounds>>
  /\ Render

(* Rows were deleted before they were sent, and the route noticed. *)
Gap ==
  /\ stage = "streaming" /\ follows \in trimmed /\ cursor < Len(Stream)
  /\ fetch["gap"].at = "none"
  /\ mode' = "canonical" /\ StartFetch("gap")
  /\ UNCHANGED <<session, asked, stage, follows, cursor, live, canonical, bounds>>
  /\ Render

SawTheEnd == cursor > 0 /\ Stream[cursor].kind = "lifecycle" /\ Stream[cursor].status = "complete"

Recovery ==
  [id |-> Len(live), kind |-> "lifecycle", text |-> NoText, key |-> NoKey, status |-> "complete", seq |-> 0]

WithoutRecovery == ~More /\ SawTheEnd

MayEnd == ~More

(* The run has ended, and the route has nothing more to send; it adds an end
   of its own when the run's is gone. *)
StreamEnds ==
  /\ stage = "streaming" /\ follows \in finished /\ MayEnd
  /\ live' = IF SawTheEnd THEN live ELSE Append(live, Recovery)
  /\ stage' = "loading" /\ StartFetch("submit")
  /\ UNCHANGED <<session, asked, follows, cursor, canonical, mode, bounds>>
  /\ Render

(* Interrupted by the user or closed by the server: the transcript is fetched.
   Broken: it is not.  Of an interrupt the server makes RunStops, if anything. *)
StreamBreaks ==
  /\ stage = "streaming"
  /\ \/ stage' = "loading" /\ StartFetch("submit")
     \/ stage' = "idle" /\ UNCHANGED fetch
  /\ UNCHANGED <<session, asked, follows, cursor, live, canonical, mode, builder, bounds>>

-----------------------------------------------------------------------------
(* loadTranscript. *)

ReadTranscript(of) ==
  /\ fetch[of].at = "sent"
  /\ fetch' = [fetch EXCEPT ![of] = [at |-> "read", rows |-> Len(rows)]]
  /\ UNCHANGED <<session, asked, stage, follows, cursor, live, canonical, mode, builder, bounds>>

Returned(of) ==
  /\ fetch' = [fetch EXCEPT ![of] = [at |-> "none", rows |-> 0]]
  /\ stage' = IF of = "submit" THEN "idle" ELSE stage

(* applyTranscript. *)
Loaded(of) ==
  /\ fetch[of].at = "read"
  /\ canonical' = fetch[of].rows
  /\ Returned(of)
  /\ mode' = IF ~Running /\ live = <<>> THEN "canonical" ELSE mode
  /\ UNCHANGED <<session, asked, follows, cursor, live, bounds>>
  /\ Render

LoadFails(of) ==
  /\ fetch[of].at = "read"
  /\ Returned(of)
  /\ UNCHANGED <<session, asked, follows, cursor, live, canonical, mode, builder, bounds>>

Toggle ==
  /\ toggled < MaxToggles
  /\ toggled' = toggled + 1
  /\ mode' = IF mode = "live" THEN "canonical" ELSE "live"
  /\ UNCHANGED <<session, asked, stage, follows, cursor, live, canonical, fetch, submitted>>
  /\ Render

Loads(of) == ReadTranscript(of) \/ Loaded(of) \/ LoadFails(of)

ViewNext ==
  \/ BeginRun \/ RunWrites \/ RunStops
  \/ Submit
  \/ Accepted \/ Refused \/ Connect \/ Frame \/ Gap \/ StreamEnds \/ StreamBreaks \/ Toggle
  \/ \E of \in {"submit", "gap"} : Loads(of)

ViewSpec == ViewInit /\ [][ViewNext]_viewVars

(* Requests and streams are answered and the server writes on unless a run
   stops; nobody has to submit, no run has to stop and no stream to break. *)
RunsGoOn == BeginRun \/ RunWrites

Proceed == Accepted \/ Refused \/ Connect \/ Frame \/ StreamEnds \/ Loads("submit")

Fairness == WF_viewVars(RunsGoOn) /\ WF_viewVars(Proceed)

ViewFairSpec == ViewSpec /\ Fairness

-----------------------------------------------------------------------------
(* Properties. *)

(* The type of every variable. *)
ViewTypeOK ==
  /\ turn \in 0..MaxTurns /\ submitted \in 0..MaxTurns /\ toggled \in 0..MaxToggles
  /\ stage \in {"idle", "posting", "connecting", "streaming", "loading"}
  /\ follows \in 0..MaxTurns /\ (Running /\ stage # "posting" => follows > 0)
  /\ mode \in {"live", "canonical"} /\ canonical \in 0..Len(rows)
  /\ follows > 0 => cursor \in 0..Len(bus[follows])
  /\ trimmed \subseteq finished /\ finished \subseteq 1..turn
  /\ Len(asked) = turn + Len(queue)
  /\ DOMAIN fetch = {"submit", "gap"}
  /\ \A of \in DOMAIN fetch : fetch[of].at \in {"none", "sent", "read"} /\ fetch[of].rows \in 0..Len(rows)
  /\ (fetch["submit"].at = "none") <=> (stage # "loading")
  /\ builder.speaker \in 0..Len(builder.messages)

(* What a rendering of a message shows, but for what the user typed. *)
Outline(m) == IF m.role = "user" THEN [m EXCEPT !.text = NoText] ELSE m

Outlines(messages) == [i \in DOMAIN messages |-> Outline(messages[i])]

(* The kept fold shows what a fold from nothing would show, whatever was
   loaded, toggled, refused, streamed or recovered before: every message in
   its place, with the text the model said and the state of its approval.
   What the user typed is left out: the message the page adds for it has no id
   of the server, so a fold that was kept may show an earlier text there. *)
ViewIsFold == Outlines(builder.messages) = Outlines(Conversation(Events))

(* The message of the user that a message is an answer to. *)
QuestionAbove(messages, i) ==
  LET above == {j \in 1..(i - 1) : messages[j].role = "user"}
  IN  IF above = {} THEN NoText
      ELSE messages[CHOOSE j \in above : \A k \in above : k <= j].text

(* In either view, what a run says is below the message that started the run
   and above the next one, also when earlier submissions were refused, lost or
   only half shown. *)
AnswersBelowTheirQuestions ==
  LET messages == Conversation(Events)
  IN  \A i \in DOMAIN messages :
        messages[i].role = "assistant" =>
          \A n \in DOMAIN messages[i].text :
            QuestionAbove(messages, i) = asked[messages[i].text[n][1]]

(* The transcript has no text before a tool call, and it has markers of its
   own: nothing else is lost. *)
KeptByTranscript(messages, i) ==
  /\ messages[i].role \notin {"lifecycle", "subagent"}
  /\ ~(messages[i].role = "assistant" /\ i < Len(messages) /\ messages[i + 1].role = "tool-call")

Durable(messages) ==
  LET kept == SelectSeq([i \in DOMAIN messages |-> i], LAMBDA i : KeptByTranscript(messages, i))
  IN  [n \in DOMAIN kept |-> [messages[kept[n]] EXCEPT !.seq = 0]]

RowsBefore(r) == SelectSeq(rows, LAMBDA row : row.run < r)

(* All of a run that wrote to its end was received, after a transcript that
   was complete. *)
WholeRunShown ==
  /\ follows > 0 /\ follows = turn /\ stage # "posting" /\ todo = <<>> /\ turn \in trimmed
  /\ cursor = Len(Stream)
  /\ \E n \in DOMAIN live :
       /\ n = Len(RowsBefore(follows)) + 1
       /\ live[n].kind = "user.message" /\ live[n].seq = 0 /\ live[n].text = asked[follows]

(* A turn reads the same whether it was streamed or is fetched afterwards:
   the fold of the stream and the fold of the transcript agree on every
   message both have. *)
LiveAgreesWithTranscript ==
  WholeRunShown => Durable(Conversation(live)) = Durable(Conversation(Mapped(Len(rows))))

(* The run was stopped before its status was written. *)
LeftOpen(r) == r \in 1..turn /\ r \notin finished /\ (r < turn \/ todo = <<>>)

(* A submission is over in the end, also when its run was accepted and never
   found, when the end of its stream was deleted before it was sent, and when
   the transcript cannot be fetched.  Only the stream of a run that was stopped
   and is recorded as running has no end: the route polls it without a bound,
   until it breaks or the user interrupts. *)
ComposerFreed == []<>(~Running \/ (stage = "streaming" /\ LeftOpen(follows)))

(* A conversation reads the same live and afterwards, every answer below the message
   it answers. *)
ReadsInOrder == ViewTypeOK /\ AnswersBelowTheirQuestions /\ LiveAgreesWithTranscript
=============================================================================
