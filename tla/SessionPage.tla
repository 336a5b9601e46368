---------------------------- MODULE SessionPage ----------------------------
(***************************************************************************)
(* The session page: how it loads a session that may be in the middle of a *)
(* run, follows the run by polling until it has settled, and takes a       *)
(* submission, while the user moves between sessions.                      *)
(*                                                                         *)
(* A run writes its rows one after the other, unless it stops before: a    *)
(* cancelled run, or one whose completion cannot be recorded, leaves its   *)
(* row as it is, and the next run goes on.  The page fetches the           *)
(* transcript, and the inspector of the latest run, which takes the list   *)
(* of runs, the row of the run, and then the other tables.  Each is read   *)
(* at a moment of its own and arrives at a later one.  The stream of the   *)
(* page's own submission adds frames to what it shows.                     *)
(*                                                                         *)
(* Abstracted: texts, what the view makes of events (ConversationView),    *)
(* the pending approval, which is fetched beside the rest and whose        *)
(* waiting run counts as running, the clock.  A poll that was stopped is   *)
(* forgotten at once: what it gets is dropped, its generation being over.  *)
(* A poll always finds a run: the reconnection starts when the page has    *)
(* seen one, and rows of runs are not deleted.                             *)
(***************************************************************************)
EXTENDS Integers, Sequences, FiniteSetsExt

CONSTANTS
  Sessions,
  Scripts,             \* what a run may write, in order
  MaxRuns,             \* bound: runs of each session
  MaxVisits,           \* bound: navigations
  MaxSubmissions,      \* bound
  MaxMoves,            \* bound: runs and navigations together
  MaxUnobservable, MaxHandoff, MaxSettlement   \* maximum...Attempts

(* Its row with its first events, others, its terminal status, and its last
   event. *)
Writes == {"started", "more", "status", "ended"}

ASSUME PageAssumption ==
  /\ MaxRuns \in [Sessions -> Nat]
  /\ {MaxVisits, MaxSubmissions, MaxMoves} \subseteq Nat
  /\ {MaxUnobservable, MaxHandoff, MaxSettlement} \subseteq Nat \ {0}
  /\ \A script \in Scripts :
       /\ script \in Seq(Writes)
       /\ Len(script) >= 3 /\ script[1] = "started"
       /\ script[Len(script) - 1] = "status"
       /\ \A i \in DOMAIN script : script[i] = "ended" <=> i = Len(script)

VARIABLES
  db,              \* the runs of each session, each with what it has written
  shown, visits,   \* sessionKey of the page, and how often it was navigated
  running, submissions, abortController, sent,
  canonicalTranscript, inspector,
  requests,        \* fetches in flight, but those of the reconnection
  booting,         \* bootstrapSessionPage, by visit, until its .then
  liveEvents,      \* the sessions whose events it or whose failures errorMessage
                   \* may hold: the one shown from the start
  crossing,        \* history: a submission began beside another one, or one of
                   \* a session the user has left may still answer
  reconnectionState, poll, scheduled,
  unobservableAttempts, observedRunId, handoffAttempts, settlementAttempts,
  owed             \* history: the run that was open when the page was opened,
                   \* with no request of an earlier visit on its way

submitting == <<running, submissions, abortController, sent>>
page == <<canonicalTranscript, inspector>>
view == <<liveEvents, crossing>>
attempts == <<unobservableAttempts, observedRunId, handoffAttempts,
              settlementAttempts>>
reconnection == <<reconnectionState, poll, scheduled, attempts>>
vars == <<db, shown, visits, submitting, page, view, requests, booting, reconnection, owed>>

-----------------------------------------------------------------------------
(* The rows of a run, and what the routes make of them. *)

Written(run) == {run.script[i] : i \in 1..run.n}

Ended(run) == run.n = Len(run.script)

Over(run) == Ended(run) \/ run.stopped

Status(written) == IF "status" \in written THEN "complete" ELSE "running"

NeverTerminal(status) == FALSE

isTerminalRunStatus(status) == status = "complete"

(* GET transcript: every row but those of other tables. *)
InTranscript == Writes \ {"status"}

TranscriptOf(session) == [i \in DOMAIN db[session] |-> Written(db[session][i]) \cap InTranscript]

RunInTranscript(transcript, run) == run \in DOMAIN transcript

transcriptHasTerminalEvent(transcript, run) ==
  run \in DOMAIN transcript /\ "ended" \in transcript[run]

transcriptHasUnsettledRun(transcript) ==
  \E i \in DOMAIN transcript : "started" \in transcript[i] /\ "ended" \notin transcript[i]

Rows(session) == {i \in DOMAIN db[session] : "started" \in Written(db[session][i])}

LatestRunId(session) == CHOOSE i \in Rows(session) : \A j \in Rows(session) : j <= i

(* fetchLatestRunInspector and readRunInspectorProjection: the runs, then the
   row, then the tables. *)
Unlooked == [at |-> "list", run |-> 0, status |-> "none"]

Look(look, session) ==
  CASE look.at = "list" /\ Rows(session) = {} -> [look EXCEPT !.at = "done"]
    [] look.at = "list" /\ Rows(session) # {} -> [look EXCEPT !.at = "row", !.run = LatestRunId(session)]
    [] look.at = "row" -> [look EXCEPT !.at = "done", !.status = Status(Written(db[session][look.run]))]

Request(why, of, wants, session) ==
  [why |-> why, of |-> of, session |-> session, wants |-> wants, got |-> {},
   transcript |-> <<>>, look |-> Unlooked]

(* The requests a request may become: one answer more. *)
Got(request) ==
  LET missing == request.wants \ request.got
      looked == Look(request.look, request.session)
  IN  {[request EXCEPT !.got = @ \cup {"transcript"}, !.transcript = TranscriptOf(request.session)] :
         any \in missing \cap {"transcript"}}
      \cup {[request EXCEPT !.look = looked,
                            !.got = IF looked.at = "done" THEN @ \cup {"inspector"} ELSE @] :
              any \in missing \cap {"inspector"}}

Answered(request) == request.got = request.wants

-----------------------------------------------------------------------------
NoPoll == Request("none", 0, {}, "")

TranscriptFor(session, runs) == [session |-> session, runs |-> runs]
InspectorFor(session, look) ==
  [session |-> session, run |-> look.run, status |-> look.status]

runActive == running \/ reconnectionState \notin {"dormant", "failed-unobservable"}

Init ==
  /\ db = [s \in Sessions |-> <<>>]
  /\ shown = "" /\ visits = 0
  /\ running = FALSE /\ submissions = {} /\ abortController = 0 /\ sent = 0
  /\ canonicalTranscript = TranscriptFor(shown, <<>>)
  /\ inspector = InspectorFor(shown, Unlooked)
  /\ requests = {} /\ booting = {}
  /\ liveEvents = {} /\ crossing = FALSE
  /\ reconnectionState = "dormant" /\ poll = NoPoll /\ scheduled = FALSE
  /\ unobservableAttempts = 0 /\ observedRunId = 0
  /\ handoffAttempts = 0 /\ settlementAttempts = 0
  /\ owed = 0

MayMove == FoldSet(LAMBDA s, n : n + Len(db[s]), visits, Sessions) < MaxMoves

-----------------------------------------------------------------------------
(* The server: runs of a session follow one another. *)

Unfinished(session) == {i \in DOMAIN db[session] : ~Over(db[session][i])}

(* The run that is going on; later ones wait. *)
Current(session) == CHOOSE i \in Unfinished(session) : \A j \in Unfinished(session) : i <= j

Queued(session) ==
  /\ Len(db[session]) < MaxRuns[session] /\ MayMove
  /\ \E script \in Scripts :
       db' = [db EXCEPT ![session] = Append(@, [script |-> script, n |-> 0, stopped |-> FALSE])]

Elsewhere == UNCHANGED <<shown, visits, submitting, page, view, requests, booting, reconnection, owed>>

(* A schedule, or another page. *)
RunBegins(session) ==
  /\ Unfinished(session) = {} /\ Queued(session)
  /\ Elsewhere

RunWrites(session) ==
  /\ Unfinished(session) # {}
  /\ db' = [db EXCEPT ![session][Current(session)].n = @ + 1]
  /\ Elsewhere

(* An interrupt of this page or of another one has cancelled it, or its
   completion cannot be recorded: it writes nothing more. *)
RunStops(session) ==
  /\ Unfinished(session) # {}
  /\ db' = [db EXCEPT ![session][Current(session)].stopped = TRUE]
  /\ Elsewhere

-----------------------------------------------------------------------------
(* afterNavigate. *)

stop == poll' = NoPoll /\ scheduled' = FALSE

(* The runs that are going on, by their rows. *)
OpenRuns(session) ==
  {i \in Rows(session) : "status" \notin Written(db[session][i]) /\ ~db[session][i].stopped}

(* The submission whose stream abortController aborts. *)
Streaming(id) == {s \in submissions : s.id = id /\ s.at = "streaming"}

(* When its stream ends or is aborted, a submission loads the transcript of
   the session that is then shown. *)
Close(ended, session, more) ==
  /\ submissions' = (submissions \ ended) \cup {[s EXCEPT !.at = "loading"] : s \in ended}
  /\ requests' = requests \cup more
                   \cup {Request("submission", s.id, {"transcript"}, session) : s \in ended}

Visit(session) ==
  /\ MayMove /\ visits < MaxVisits /\ session # shown
  /\ shown' = session /\ visits' = visits + 1
  /\ abortController' = 0 /\ running' = FALSE
  /\ canonicalTranscript' = TranscriptFor(session, <<>>)
  /\ inspector' = InspectorFor(session, Unlooked)
  /\ stop /\ reconnectionState' = "dormant"
  /\ liveEvents' = {session}
  /\ crossing' = \E s \in submissions' : s.at = "posting" \/ (crossing /\ s.at = "streaming")
  /\ UNCHANGED <<db, sent, attempts>>

(* fresh: nothing of the session exists.  With a startMessage it is followed
   by a submission at once. *)
VisitFresh(session) ==
  /\ Close(Streaming(abortController), session, {}) /\ Visit(session)
  /\ db[session] = <<>>
  /\ owed' = 0
  /\ UNCHANGED booting

Revisit(session) ==
  /\ Close(Streaming(abortController), session, {Request("boot", visits + 1, {"transcript"}, session)})
  /\ Visit(session)
  /\ booting' = booting \cup {[visit |-> visits', session |-> session]}
  /\ owed' = IF OpenRuns(session) = {} \/ \E r \in requests : r.session = session THEN 0
             ELSE CHOOSE i \in OpenRuns(session) : TRUE

(* isCurrentSession. *)
AnySession(session) == TRUE

CurrentSession(session) == session = shown

(* loadTranscript is followed by loadLatestRunInspector of the session that is
   then shown; that of a submission, by its end. *)
Follow(request) ==
  IF request.wants = {"transcript"} /\ request.why # "submission"
  THEN {Request(request.why, request.of, {"inspector"}, shown)}
  ELSE {}

Done(request) == requests' = (requests \ {request}) \cup Follow(request)

RequestReads ==
  /\ \E request \in requests : \E next \in Got(request) :
       requests' = (requests \ {request}) \cup {next}
  /\ UNCHANGED <<db, shown, visits, submitting, page, view, booting, reconnection, owed>>

Loaded(request) ==
  IF ~CurrentSession(request.session) THEN UNCHANGED page
  ELSE /\ canonicalTranscript' = IF "transcript" \in request.wants
                                 THEN TranscriptFor(request.session, request.transcript)
                                 ELSE canonicalTranscript
       /\ inspector' = IF "inspector" \in request.wants
                       THEN InspectorFor(request.session, request.look) ELSE inspector

Load ==
  \E request \in requests :
    /\ request.why # "submission" /\ Answered(request)
    /\ Loaded(request) /\ Done(request)
    /\ UNCHANGED <<db, shown, visits, submitting, view, booting, reconnection, owed>>

LoadFails ==
  \E request \in requests :
    /\ request.why # "submission" /\ ~Answered(request)
    /\ Done(request)
    /\ UNCHANGED <<db, shown, visits, submitting, page, view, booting, reconnection, owed>>

(* SessionReconnection.start. *)
Poll(session) == Request("poll", 0, {"transcript", "inspector"}, session)

start ==
  /\ scheduled' = FALSE /\ poll' = Poll(shown)
  /\ reconnectionState' = "discovering"
  /\ unobservableAttempts' = 0 /\ observedRunId' = 0
  /\ handoffAttempts' = 0 /\ settlementAttempts' = 0

InspectorNeedsReconnection ==
  inspector.run # 0 /\ (isTerminalRunStatus(inspector.status) =>
                          ~transcriptHasTerminalEvent(canonicalTranscript.runs, inspector.run))

BootDone ==
  \E boot \in booting :
    /\ ~\E request \in requests : request.why = "boot" /\ request.of = boot.visit
    /\ booting' = booting \ {boot}
    /\ IF /\ CurrentSession(boot.session)
          /\ InspectorNeedsReconnection \/ transcriptHasUnsettledRun(canonicalTranscript.runs)
       THEN start
       ELSE UNCHANGED reconnection
    /\ owed' = IF boot.visit = visits /\ canonicalTranscript.runs = <<>> /\ inspector.run = 0
               THEN 0 ELSE owed
    /\ UNCHANGED <<db, shown, visits, submitting, page, view, requests>>

-----------------------------------------------------------------------------
(* SessionReconnection.poll. *)

PollReads ==
  /\ poll' \in Got(poll)
  /\ UNCHANGED <<db, shown, visits, submitting, page, view, requests, booting, reconnectionState,
                 scheduled, attempts, owed>>

scheduleNext == poll' = NoPoll /\ scheduled' = TRUE

(* setState shows the message of a failure. *)
fail == reconnectionState' = "failed-unobservable" /\ stop /\ liveEvents' = liveEvents \cup {shown}

PollFails ==
  /\ poll # NoPoll /\ ~Answered(poll)
  /\ unobservableAttempts' = unobservableAttempts + 1
  /\ IF unobservableAttempts' >= MaxUnobservable THEN fail
     ELSE reconnectionState' = "discovering" /\ scheduleNext /\ UNCHANGED liveEvents
  /\ UNCHANGED <<db, shown, visits, submitting, page, crossing, requests, booting,
                 observedRunId, handoffAttempts, settlementAttempts, owed>>

(* applyReconnectionSnapshot. *)
applySnapshot ==
  /\ poll # NoPoll /\ Answered(poll)
  /\ unobservableAttempts' = 0
  /\ canonicalTranscript' = TranscriptFor(poll.session, poll.transcript)
  /\ inspector' = InspectorFor(poll.session, poll.look)
  /\ UNCHANGED <<db, shown, visits, submitting, crossing, requests, booting, owed>>

ObservedStatus == poll.look.status

AnotherRun ==
  /\ applySnapshot
  /\ observedRunId # 0 /\ poll.look.run # observedRunId
  /\ handoffAttempts' = 0 /\ settlementAttempts' = 0
  /\ observedRunId' = poll.look.run
  /\ reconnectionState' = "handoff" /\ scheduleNext /\ UNCHANGED liveEvents

SameRun ==
  /\ applySnapshot
  /\ observedRunId \in {0, poll.look.run}
  /\ observedRunId' = poll.look.run

Settling ==
  /\ SameRun /\ isTerminalRunStatus(ObservedStatus)
  /\ ~transcriptHasTerminalEvent(poll.transcript, poll.look.run)
  /\ settlementAttempts' = settlementAttempts + 1
  /\ IF settlementAttempts' >= MaxSettlement THEN fail
     ELSE reconnectionState' = "settling" /\ scheduleNext /\ UNCHANGED liveEvents
  /\ UNCHANGED handoffAttempts

Settled ==
  /\ SameRun /\ isTerminalRunStatus(ObservedStatus)
  /\ transcriptHasTerminalEvent(poll.transcript, poll.look.run)
  /\ settlementAttempts' = 0

HandedOff == handoffAttempts >= MaxHandoff

Handoff ==
  /\ Settled /\ ~HandedOff
  /\ handoffAttempts' = handoffAttempts + 1
  /\ reconnectionState' = "handoff" /\ scheduleNext /\ UNCHANGED liveEvents

Dormant ==
  /\ Settled /\ HandedOff
  /\ reconnectionState' = "dormant" /\ stop
  /\ UNCHANGED <<handoffAttempts, liveEvents>>

Observing ==
  /\ SameRun /\ ~isTerminalRunStatus(ObservedStatus)
  /\ handoffAttempts' = 0 /\ settlementAttempts' = 0
  /\ reconnectionState' = "observing"
  /\ scheduleNext /\ UNCHANGED liveEvents

Timer ==
  /\ scheduled
  /\ scheduled' = FALSE /\ poll' = Poll(shown)
  /\ UNCHANGED <<db, shown, visits, submitting, page, view, requests, booting, reconnectionState,
                 attempts, owed>>

-----------------------------------------------------------------------------
(* handleSubmit. *)

Submit ==
  /\ ~runActive /\ visits > 0 /\ sent < MaxSubmissions
  /\ running' = TRUE /\ sent' = sent + 1
  /\ submissions' = submissions \cup
       {[id |-> sent + 1, session |-> shown, at |-> "posting", run |-> 0]}
  /\ liveEvents' = {shown}
  /\ crossing' = (submissions # {})
  /\ UNCHANGED <<db, shown, visits, abortController, page, requests, booting, reconnection, owed>>

(* POST turn, and consumeStream: whatever session is then shown, its stream is
   the one that abortController aborts. *)
Accept(s) ==
  /\ s.at = "posting" /\ Queued(s.session)
  /\ submissions' = (submissions \ {s}) \cup
       {[s EXCEPT !.at = "streaming", !.run = Len(db[s.session]) + 1]}
  /\ abortController' = s.id
  /\ UNCHANGED <<shown, visits, running, sent, page, view, requests, booting, reconnection, owed>>

RunOf(s) == db[s.session][s.run]

(* applyFrame: into the page that is there. *)
Frame(s) ==
  /\ s.at = "streaming" /\ Written(RunOf(s)) # {} /\ s.session \notin liveEvents
  /\ liveEvents' = liveEvents \cup {s.session}
  /\ UNCHANGED <<db, shown, visits, submitting, page, crossing, requests, booting,
                 reconnection, owed>>

(* The route closes the stream of a run once its status is terminal. *)
StreamEnds(s) ==
  /\ s.at = "streaming" /\ "status" \in Written(RunOf(s))
  /\ Close({s}, shown, {})
  /\ UNCHANGED <<db, shown, visits, running, abortController, sent, page, view, booting, reconnection,
                 owed>>

(* connectToStream: the run has no row, for too long. *)
ConnectFails(s) ==
  /\ s.at = "streaming" /\ Written(RunOf(s)) = {}
  /\ Close({s}, shown, {})
  /\ liveEvents' = liveEvents \cup {s.session}
  /\ UNCHANGED <<db, shown, visits, running, abortController, sent, page, crossing, booting,
                 reconnection, owed>>

(* handleInterrupt.  The server cancels what the session it shows is running:
   see RunStops. *)
Interrupt ==
  /\ Streaming(abortController) # {}
  /\ Close(Streaming(abortController), shown, {})
  /\ UNCHANGED <<db, shown, visits, running, abortController, sent, page, view, booting, reconnection,
                 owed>>

Finally(s) ==
  /\ running' = FALSE /\ abortController' = 0
  /\ submissions' = submissions \ {s}
  /\ UNCHANGED <<db, shown, visits, sent, crossing, booting, reconnection, owed>>

After == Request("after", 0, {"inspector"}, shown)

Caught(s) ==
  /\ Finally(s)
  /\ liveEvents' = liveEvents \cup {s.session}
  /\ requests' = requests \cup {After}
  /\ UNCHANGED page

(* The answer is not an accepted turn, or it is lost. *)
SubmissionFails(s) == s.at = "posting" /\ Caught(s)

StreamBreaks(s) == s.at = "streaming" /\ Caught(s)

Reloaded(s) ==
  \E request \in requests :
    /\ request.why = "submission" /\ request.of = s.id
    /\ \/ Answered(request) /\ Loaded(request)
       \/ UNCHANGED page
    /\ Finally(s)
    /\ requests' = (requests \ {request}) \cup {After}
    /\ UNCHANGED liveEvents

-----------------------------------------------------------------------------
Polling ==
  \/ PollReads \/ PollFails \/ AnotherRun
  \/ Settling \/ Handoff \/ Dormant \/ Observing \/ Timer

Submitting ==
  \E s \in submissions :
    Accept(s) \/ Frame(s) \/ StreamEnds(s) \/ ConnectFails(s) \/ SubmissionFails(s) \/ Reloaded(s)

Breaking == \E s \in submissions : StreamBreaks(s)

Loading == RequestReads \/ Load \/ LoadFails \/ BootDone

User == (\E s \in Sessions : VisitFresh(s) \/ Revisit(s)) \/ Submit \/ Interrupt

Next ==
  \/ \E s \in Sessions : RunBegins(s) \/ RunWrites(s) \/ RunStops(s)
  \/ User \/ Loading \/ Polling \/ Submitting \/ Breaking

Spec == Init /\ [][Next]_vars

(* Runs go on unless they are stopped, requests are answered or fail, timers
   fire; no run has to stop and no stream has to break. *)
FairSpec ==
  /\ Spec
  /\ WF_vars(\E s \in Sessions : RunWrites(s))
  /\ WF_vars(Loading \/ Polling \/ Submitting)

-----------------------------------------------------------------------------
(* Every variable holds what its code counterpart may hold. *)
Requests ==
  [why : {"none", "boot", "submission", "after", "poll"}, of : Nat, session : Sessions \cup {""},
   wants : SUBSET {"transcript", "inspector"}, got : SUBSET {"transcript", "inspector"},
   transcript : Seq(SUBSET InTranscript),
   look : [at : {"list", "row", "done"}, run : Nat, status : {"none", "running", "complete"}]]

TypeOK ==
  /\ db \in [Sessions -> Seq([script : Scripts, n : Nat, stopped : BOOLEAN])]
  /\ \A s \in Sessions : \A i \in DOMAIN db[s] : db[s][i].n <= Len(db[s][i].script)
  /\ shown \in Sessions \cup {""} /\ visits \in 0..MaxVisits
  /\ running \in BOOLEAN /\ sent \in 0..MaxSubmissions /\ abortController \in 0..sent
  /\ submissions \subseteq [id : 1..sent, session : Sessions,
                            at : {"posting", "streaming", "loading"}, run : Nat]
  /\ liveEvents \subseteq Sessions /\ crossing \in BOOLEAN
  /\ requests \subseteq Requests /\ poll \in Requests
  /\ booting \subseteq [visit : 1..visits, session : Sessions]
  /\ reconnectionState \in {"dormant", "discovering", "observing", "settling", "handoff",
                            "failed-unobservable"}
  /\ scheduled \in BOOLEAN
  /\ unobservableAttempts \in 0..MaxUnobservable
  /\ handoffAttempts \in 0..MaxHandoff /\ settlementAttempts \in 0..MaxSettlement

(* Whatever answers late, the transcript and the inspector the page shows are
   of its session: loadTranscript and loadLatestRunInspector compare the keys,
   and a poll of an older session is of an older generation.  What it streams
   and the failures it tells are of its session too, unless submissions cross:
   nothing compares keys there, so that a turn posted before a navigation and
   accepted after it streams into the page of the other session, and the
   finally of an older submission forgets the controller of a newer one. *)
ShownSessionOnly ==
  /\ canonicalTranscript.session = shown
  /\ inspector.session = shown
  /\ ~crossing => liveEvents \subseteq {shown}

(* "One cancellable, non-overlapping state machine": while the reconnection is
   active exactly one of a poll and a timer drives it, and when it is not,
   neither is left behind by a navigation, a second start or a failure. *)
ReconnectionDriven ==
  LET active == reconnectionState \notin {"dormant", "failed-unobservable"}
  IN  /\ active <=> (poll # NoPoll \/ scheduled)
      /\ ~(poll # NoPoll /\ scheduled)

(* When the reconnection goes dormant by itself, after reads that each saw the
   database at a moment of its own, the page shows everything its run wrote. *)
SettledIsWhole ==
  [][reconnectionState' = "dormant" /\ reconnectionState # "dormant" /\ visits' = visits
     => /\ Ended(db[shown][observedRunId'])
        /\ canonicalTranscript'.runs[observedRunId'] = TranscriptOf(shown)[observedRunId']
        /\ inspector'.run = observedRunId' /\ isTerminalRunStatus(inspector'.status)]_vars

(* A page opened while a run is going on follows it until the run is over,
   whichever of its two loads fails: its composer is locked, or it has said
   that it cannot observe the run. *)
OpenRunIsFollowed ==
  owed # 0 /\ ~Over(db[shown][owed]) /\ (\A boot \in booting : boot.visit # visits)
    => runActive \/ reconnectionState = "failed-unobservable"

(* A run that was stopped and whose row says that it is running. *)
LeftOpen(session, i) ==
  /\ db[session][i].stopped
  /\ "started" \in Written(db[session][i]) /\ "status" \notin Written(db[session][i])

FollowsLeftOpen ==
  \/ \E s \in submissions : s.at = "streaming" /\ s.session = shown /\ LeftOpen(shown, s.run)
  \/ reconnectionState = "observing" /\ Rows(shown) # {} /\ LeftOpen(shown, LatestRunId(shown))

(* The composer stays locked only by a run that was stopped and is recorded as
   running, which the stream and the polls wait for without a bound: polls else
   settle or give up, and every submission, interrupted, failed or of a run that
   never started, comes to its finally. *)
ComposerFreed == []<>(~runActive \/ FollowsLeftOpen)

(* The page shows its own session, follows the run that is open in it, and always has
   something under way that will change the state it is in. *)
PageFollowsRun == TypeOK /\ ShownSessionOnly /\ ReconnectionDriven /\ OpenRunIsFollowed
=============================================================================
