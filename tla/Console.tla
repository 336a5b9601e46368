------------------------------ MODULE Console ------------------------------
(* The pages that show lists of the server: the inbox (routes/inbox and the
   InboxStore), the schedules page, the schedules panel and the run panels of the
   operations console, the list of sessions and the health snapshot of the layout.

   Each page keeps a copy of rows it fetched.  A request is answered by the server
   at one moment and applied by the page at a later one, so that requests that are
   open at the same time are applied in any order.  A request of several fetches
   (InboxStore.refresh) is answered part by part and applied as a whole.

   An approval, a schedule, ... stands for its list: a row is what the list says of
   it.  What the routes do to their tables is modelled in Approvals, Memory and
   Schedules; here a route accepts a move of a row or refuses it. *)
EXTENDS Naturals, FiniteSets

CONSTANTS
  MaxOpen,        \* bound: the requests that are open at the same time: of the console,
  MaxCrossing,    \* bound: and of the other pages
  Sessions,       \* the sessions of the operations console
  MaxActs,        \* bound: what the user does on a page,
  MaxSteps,       \* bound: and in the console, where a run of a second session takes four
  MaxChanges,     \* bound: what workflows and other clients change
  MaxFaults       \* bound: fetches that fail

ASSUME ConsoleAssumption ==
  /\ {MaxOpen, MaxCrossing, MaxActs, MaxSteps, MaxChanges, MaxFaults} \subseteq Nat
  /\ MaxOpen >= 2
  /\ {"none", "lost"} \cap Sessions = {}

VARIABLES
  page,           \* the page that is open
  server,         \* part -> what the tables say of it
  shown,          \* part -> what the page last applied
  requests,       \* slot -> an open request, or Free
  timer,          \* the page will poll by itself
  loading,        \* what the page says is loading: list, saving, or a panel
  active,         \* activeScheduleId: the row whose buttons are disabled
  told,           \* part -> the decision the page reports: candidateDecisions, resolvedNow
  selected,       \* selectedSession
  selectedRun,    \* the session of the selected run
  clean,          \* since the last load nothing crossed, failed or was changed elsewhere
  acts, changes, faults

vars == <<page, server, shown, requests, timer, loading, active, told, selected,
          selectedRun, clean, acts, changes, faults>>

None == "none"
Free == [do |-> "free"]
Lost == "lost"

-----------------------------------------------------------------------------
(* Pages and rows. *)

Panels == {"inspector", "memory", "approvals", "sandbox", "workspace"}

(* The rows of a page; of the operations console, its panels and the list of runs. *)
Rows == [inbox     |-> {"approval", "candidate"},
         schedules |-> {"schedule"},
         panel     |-> {"schedule", "other"},
         home      |-> {"session"},
         layout    |-> {"health"},
         ops       |-> Panels \cup {"runs"}]

Pages == DOMAIN Rows

Slots == 1..MaxOpen
Open(n) == page = "ops" \/ n <= MaxCrossing
MayAct == acts < IF page = "ops" THEN MaxSteps ELSE MaxActs

Schedules == {"schedule", "other"}

(* What a row may be when the page is opened, and the moves it makes in its table. *)
Opening(row) ==
  CASE row \in Schedules -> {"absent", "active"}
    [] row = "session"   -> {"first"}
    [] row = "health"    -> {"up"}
    [] row \in {"approval", "candidate"} -> {"absent", "pending"}
    [] row \in Panels \cup {"runs"} -> {None}

Moves(row) ==
  CASE row = "approval"  ->
         {<<"absent", "pending">>, <<"pending", "approved">>, <<"pending", "denied">>}
    [] row = "candidate" ->
         {<<"absent", "pending">>, <<"pending", "saved">>, <<"pending", "discarded">>}
    [] row \in Schedules -> {<<"active", "paused">>, <<"paused", "active">>,
                             <<"active", "deleted">>, <<"paused", "deleted">>}
    [] row = "session"   -> {<<"first", "second">>}
    [] row = "health"    -> {<<"up", "down">>, <<"down", "up">>}

(* What a list says of a row: decided candidates and deleted schedules are not in it. *)
Listed(state) == IF state \in {"saved", "discarded", "deleted"} THEN "absent" ELSE state

-----------------------------------------------------------------------------
(* The buttons of a row as it is shown. *)

ApprovalButtons == IF shown["approval"] = "pending" THEN {"approved", "denied"} ELSE {}

CandidateButtons ==
  IF shown["candidate"] = "pending" /\ told["candidate"] = None THEN {"saved", "discarded"} ELSE {}

RenameButton == IF shown["session"] = "absent" THEN {} ELSE {"second"}

ScheduleButtons(row) ==
  CASE shown[row] = "active" -> {"trigger", "paused"}
    [] shown[row] = "paused" -> {"trigger", "active"}
    [] shown[row] = "absent" -> {}

(* Only the panel deletes; it disables the buttons of the active row. *)
PanelButtons(row) ==
  IF shown[row] = "absent" \/ active = row THEN {} ELSE ScheduleButtons(row) \cup {"deleted"}

(* A row is created once, as what a second submission creates is another row. *)
CreateButton(row) ==
  IF shown[row] = "absent" /\ server[row] = "absent" /\ "saving" \notin loading
    THEN {"create"}
    ELSE {}

Offered(row) ==
  CASE page = "inbox"     -> IF row = "approval" THEN ApprovalButtons ELSE CandidateButtons
    [] page = "schedules" -> ScheduleButtons(row) \cup CreateButton(row)
    [] page = "panel"     -> PanelButtons(row) \cup CreateButton(row)
    [] page = "home"      -> RenameButton
    [] page \in {"layout", "ops"} -> {}

-----------------------------------------------------------------------------
(* Requests. *)

AllFree == \A n \in Slots : requests[n] = Free
InFlight == {requests[n] : n \in Slots} \ {Free}

(* A load of parts; poll: sent by the page's own timer; key: the session it asks about. *)
Load(parts, poll, key) ==
  [do |-> "load", todo |-> parts, body |-> [p \in parts |-> Lost], poll |-> poll, key |-> key]

Act(row, move, key) ==
  [do |-> "act", todo |-> {row}, body |-> [p \in {row} |-> Lost], move |-> move, key |-> key]

(* Approvals and candidates are fetched together and applied together. *)
InboxRefresh(poll) == Load(Rows["inbox"], poll, None)
LoadList == Load(Rows[page], FALSE, None)

(* A load of the whole page makes up for what crossed before it, if it goes alone. *)
Send(request) ==
  /\ \E n \in Slots :
       /\ Open(n) /\ requests[n] = Free /\ \A m \in 1..(n - 1) : requests[m] # Free
       /\ requests' = [requests EXCEPT ![n] = request]
  /\ clean' = (AllFree /\ (clean \/ request.do = "load"))

Kept == UNCHANGED <<page, server, shown, told, changes, faults>>

-----------------------------------------------------------------------------
(* What a page does by itself. *)

Polls == UNCHANGED <<loading, active, selected, selectedRun, acts>> /\ Kept

(* The next refresh is only timed when this one is over. *)
InboxPoll == page = "inbox" /\ timer /\ Send(InboxRefresh(TRUE)) /\ timer' = FALSE /\ Polls

(* A load is aborted after 5 s, before the next tick of 15 s. *)
SchedulesTick ==
  /\ page = "schedules" /\ \A r \in InFlight : r.do = "load" => ~r.poll
  /\ Send(Load(Rows["schedules"], TRUE, None)) /\ UNCHANGED timer /\ Polls

HealthTick == page = "layout" /\ Send(Load(Rows["layout"], TRUE, None)) /\ UNCHANGED timer /\ Polls

Tick == InboxPoll \/ SchedulesTick \/ HealthTick

-----------------------------------------------------------------------------
(* What the user does. *)

Press(row, move) ==
  /\ move \in Offered(row)
  /\ MayAct /\ acts' = acts + 1
  /\ Send(Act(row, move, None))
  /\ loading' = IF move = "create" THEN loading \cup {"saving"} ELSE loading
  /\ active' = IF page = "panel" /\ move # "create" THEN row ELSE active
  /\ Kept /\ UNCHANGED <<timer, selected, selectedRun>>

(* Refresh Schedules is disabled while it loads; ensureLoaded does nothing then, as
   after a load that succeeded. *)
Reload ==
  /\ page \in {"panel", "home"} /\ "list" \notin loading
  /\ MayAct /\ acts' = acts + 1
  /\ Send(LoadList)
  /\ loading' = loading \cup {"list"}
  /\ Kept /\ UNCHANGED <<timer, active, selected, selectedRun>>

(* The run, its inspector and the list of runs are reset, the other panels are not. *)
SelectSession(s) ==
  /\ page = "ops"
  /\ MayAct /\ acts' = acts + 1
  /\ Send(Load({"runs"}, FALSE, s))
  /\ selected' = s /\ selectedRun' = None
  /\ shown' = [shown EXCEPT !["inspector"] = None, !["runs"] = None]
  /\ loading' = loading \cup {"runs"}
  /\ UNCHANGED <<page, server, timer, active, told, changes, faults>>

(* One load per panel, all at once: of the session selected, and the inspector of a run
   of the list that is shown.  The workspace has no flag. *)
SelectRun ==
  LET unused == {n \in Slots : requests[n] = Free}
  IN  /\ page = "ops" /\ shown["runs"] # None /\ Cardinality(unused) >= Cardinality(Panels)
      /\ MayAct /\ acts' = acts + 1
      /\ LET of == CHOOSE of \in [Panels -> unused] :
                     \A p, q \in Panels : of[p] = of[q] => p = q
         IN  requests' = [n \in Slots |->
                            IF \E p \in Panels : of[p] = n
                              THEN Load({p \in Panels : of[p] = n}, FALSE, selected)
                              ELSE requests[n]]
      /\ clean' = (AllFree /\ clean)
      /\ selectedRun' = shown["runs"]
      /\ shown' = [shown EXCEPT !["inspector"] = None]
      /\ loading' = loading \cup (Panels \ {"workspace"})
      /\ UNCHANGED <<page, server, timer, active, told, selected, changes, faults>>

(* Decisions are taken on panels that are displayed: below an inspector. *)
Decide(p) ==
  /\ page = "ops" /\ p \in {"memory", "approvals"} \ loading
  /\ selected # None /\ shown[p] # None /\ shown["inspector"] # None
  /\ MayAct /\ acts' = acts + 1
  /\ Send(Act(p, "decide", selected))
  /\ Kept /\ UNCHANGED <<timer, loading, active, selected, selectedRun>>

-----------------------------------------------------------------------------
(* What the server does.  A route answers with the row after the move, or refuses. *)

Moved(row, move) == IF <<server[row], move>> \in Moves(row) THEN {move} ELSE {Lost}

(* A second resolver is refused, or told what the first one decided (AgentRun). *)
ResolveRoute(move) ==
  Moved("approval", move) \cup ({server["approval"]} \cap {"approved", "denied"})

CandidateRoute(move) == Moved("candidate", move)

RenameRoute == IF server["session"] = "absent" THEN {Lost} ELSE {"second"}

(* Temporal pauses what is paused and resumes what is active. *)
ScheduleRoute(row, move) ==
  CASE server[row] = "absent" -> {IF move = "create" THEN "active" ELSE Lost}
    [] server[row] = "deleted" -> {Lost}
    [] server[row] \in {"active", "paused"} ->
         {CASE move = "create" -> Lost [] move = "trigger" -> server[row]
            [] move \notin {"create", "trigger"} -> move}

Route(row, move) ==
  CASE row = "approval"    -> ResolveRoute(move)
    [] row = "candidate"   -> CandidateRoute(move)
    [] row = "session"     -> RenameRoute
    [] row \in Schedules   -> ScheduleRoute(row, move)

(* One fetch of a request is answered. *)
Answer(n, p, value) ==
  requests' = [requests EXCEPT ![n].todo = @ \ {p}, ![n].body[p] = value]

(* A panel has what its session has; a run of another session is not found. *)
Fetched(request, p) ==
  IF page # "ops" THEN Listed(server[p])
  ELSE IF p = "inspector" /\ selectedRun # request.key THEN Lost ELSE request.key

Served ==
  UNCHANGED <<page, shown, timer, loading, active, told, selected, selectedRun, acts, changes>>

Serve(n, p) ==
  /\ requests[n] # Free /\ p \in requests[n].todo
  /\ \/ requests[n].do = "load" /\ Answer(n, p, Fetched(requests[n], p)) /\ UNCHANGED server
     \/ /\ requests[n].do = "act" /\ page = "ops" /\ UNCHANGED server
        /\ \E value \in {requests[n].key, Lost} : Answer(n, p, value)
     \/ /\ requests[n].do = "act" /\ page # "ops"
        /\ \E value \in Route(p, requests[n].move) :
             /\ Answer(n, p, value)
             /\ server' = IF value = Lost THEN server ELSE [server EXCEPT ![p] = value]
  /\ Served /\ UNCHANGED <<clean, faults>>

(* The connection fails, or a load is aborted, before or after the route did its work. *)
Fail(n, p) ==
  /\ requests[n] # Free /\ p \in requests[n].todo
  /\ faults < MaxFaults /\ faults' = faults + 1
  /\ Answer(n, p, Lost)
  /\ \/ UNCHANGED server
     \/ /\ requests[n].do = "act" /\ page # "ops"
        /\ \E value \in Route(p, requests[n].move) \ {Lost} : server' = [server EXCEPT ![p] = value]
  /\ clean' = FALSE
  /\ Served

(* Workflows, other clients and other pages. *)
Elsewhere(row) ==
  /\ page # "ops" /\ row \in Rows[page]
  /\ changes < MaxChanges /\ changes' = changes + 1
  /\ \E move \in Moves(row) : move[1] = server[row] /\ server' = [server EXCEPT ![row] = move[2]]
  /\ clean' = FALSE
  /\ UNCHANGED <<page, shown, requests, timer, loading, active, told, selected,
                 selectedRun, acts, faults>>

-----------------------------------------------------------------------------
(* What a page does with an answer: each handler of the pages, from its await on. *)

Same == [shown |-> shown, told |-> told, loading |-> loading, active |-> active, next |-> Free]

(* A fetch that failed leaves what was shown, and every load ends its flag. *)
Applied(body) ==
  [p \in DOMAIN shown |-> IF p \in DOMAIN body /\ body[p] # Lost THEN body[p] ELSE shown[p]]

ListLoaded(r) == [Same EXCEPT !.shown = Applied(r.body), !.loading = @ \ {"list"}]

RunsLoaded(r) == [Same EXCEPT !.shown = Applied(r.body), !.loading = @ \ {"runs"}]
InspectorLoaded(r) == [Same EXCEPT !.shown = Applied(r.body), !.loading = @ \ {"inspector"}]
MemoryLoaded(r) == [Same EXCEPT !.shown = Applied(r.body), !.loading = @ \ {"memory"}]
ApprovalsLoaded(r) == [Same EXCEPT !.shown = Applied(r.body), !.loading = @ \ {"approvals"}]
SandboxLoaded(r) == [Same EXCEPT !.shown = Applied(r.body), !.loading = @ \ {"sandbox"}]
WorkspaceLoaded(r) == [Same EXCEPT !.shown = Applied(r.body)]

PanelLoaded(r, p) ==
  CASE p = "runs" -> RunsLoaded(r)           [] p = "inspector" -> InspectorLoaded(r)
    [] p = "memory" -> MemoryLoaded(r)       [] p = "approvals" -> ApprovalsLoaded(r)
    [] p = "sandbox" -> SandboxLoaded(r)     [] p = "workspace" -> WorkspaceLoaded(r)

RearmsOnSuccess(r) == page = "inbox" /\ r.poll /\ \A p \in DOMAIN r.body : r.body[p] # Lost

Rearms(r) == page = "inbox" /\ r.poll

LoadAnswered(n) ==
  LET r == requests[n] IN
  /\ r # Free /\ r.do = "load" /\ r.todo = {}
  /\ \E p \in DOMAIN r.body :
       LET result == IF page = "ops" THEN PanelLoaded(r, p) ELSE ListLoaded(r)
       IN  shown' = result.shown /\ loading' = result.loading
  /\ timer' = (timer \/ Rearms(r))
  /\ requests' = [requests EXCEPT ![n] = Free]
  /\ UNCHANGED <<page, server, active, told, selected, selectedRun, clean, acts, changes, faults>>

Ok(r, row) == r.body[row] # Lost

(* The inbox: a notice for what was accepted, and a refresh whatever came back. *)
ResolveApproval(r) ==
  [Same EXCEPT !.next = InboxRefresh(FALSE),
               !.told = IF Ok(r, "approval") THEN [@ EXCEPT !["approval"] = r.move] ELSE @]

DecideCandidate(r) ==
  [Same EXCEPT !.told = IF Ok(r, "candidate") THEN [@ EXCEPT !["candidate"] = r.move] ELSE @]

(* The schedules page: an action loads the list again, a creation upserts. *)
ScheduleChanged == [Same EXCEPT !.next = LoadList]

KeepsCopy(r, row) == shown

Upserted(r, row) == IF Ok(r, row) THEN [shown EXCEPT ![row] = Listed(r.body[row])] ELSE shown

ScheduleCreated(r, row) == [Same EXCEPT !.shown = Upserted(r, row), !.loading = @ \ {"saving"}]

(* The panel: every action upserts or filters, and nothing is loaded again. *)
PanelActed(r, row) == [Same EXCEPT !.shown = Upserted(r, row), !.active = None]

(* A renamed session is changed in place. *)
Renamed(r) == [Same EXCEPT !.shown = Upserted(r, "session")]

(* The console: memory is loaded again for the session the decision was made in, the
   approvals for the one selected by then. *)
CandidateDecided(r) ==
  IF Ok(r, "memory")
    THEN [Same EXCEPT !.next = Load({"memory"}, FALSE, r.key), !.loading = @ \cup {"memory"}]
    ELSE Same

ApprovalDecided(r) ==
  IF Ok(r, "approvals")
    THEN [Same EXCEPT !.next = Load({"approvals"}, FALSE, selected),
                      !.loading = @ \cup {"approvals"}]
    ELSE Same

Acted(r, row) ==
  CASE row = "approval"  -> ResolveApproval(r)
    [] row = "candidate" -> DecideCandidate(r)
    [] row = "session"   -> Renamed(r)
    [] row = "memory"    -> CandidateDecided(r)
    [] row = "approvals" -> ApprovalDecided(r)
    [] row \in Schedules -> CASE r.move = "create" -> ScheduleCreated(r, row)
                              [] r.move # "create" /\ page = "panel" -> PanelActed(r, row)
                              [] r.move # "create" /\ page # "panel" -> ScheduleChanged

ActAnswered(n) ==
  LET r == requests[n] IN
  /\ r # Free /\ r.do = "act" /\ r.todo = {}
  /\ \E row \in DOMAIN r.body :
       LET result == Acted(r, row)
           alone == \A m \in Slots \ {n} : requests[m] = Free
       IN  /\ shown' = result.shown /\ told' = result.told
           /\ loading' = result.loading /\ active' = result.active
           /\ \/ requests' = [requests EXCEPT ![n] = result.next]
                 /\ clean' = IF result.next = Free THEN clean ELSE alone /\ (clean \/ page # "ops")
              \/ (* a fetch that throws skips the load of the schedules page *)
                 /\ page = "schedules" /\ ~Ok(r, row) /\ result.next # Free
                 /\ requests' = [requests EXCEPT ![n] = Free] /\ UNCHANGED clean
  /\ UNCHANGED <<page, server, timer, selected, selectedRun, acts, changes, faults>>

-----------------------------------------------------------------------------
(* onMount: the inbox is loaded by the layout's poll and by the page. *)
Mount(p) ==
  [n \in Slots |->
    IF p = "inbox" /\ n = 2 THEN InboxRefresh(FALSE)
    ELSE IF p # "ops" /\ n = 1 THEN Load(Rows[p], p = "inbox", None)
    ELSE Free]

Init ==
  /\ page \in Pages
  /\ server \in [Rows[page] -> UNION {Opening(row) : row \in Rows[page]}]
  /\ \A row \in Rows[page] : server[row] \in Opening(row)
  /\ shown = [p \in Rows[page] |-> IF page = "ops" THEN None ELSE "absent"]
  /\ requests = Mount(page)
  /\ timer = FALSE
  /\ loading = IF page \in {"schedules", "panel", "home"} THEN {"list"} ELSE {}
  /\ active = None
  /\ told = [p \in Rows[page] |-> None]
  /\ selected = None /\ selectedRun = None
  /\ clean = (page # "inbox")
  /\ acts = 0 /\ changes = 0 /\ faults = 0

Handle(n) ==
  \/ \E p \in Rows[page] : Serve(n, p) \/ Fail(n, p)
  \/ LoadAnswered(n) \/ ActAnswered(n)

Next ==
  \/ InboxPoll \/ SchedulesTick \/ HealthTick \/ Reload \/ SelectRun
  \/ \E row \in Rows[page] : Elsewhere(row) \/ Decide(row)
  \/ \E row \in Rows[page] : \E move \in Offered(row) : Press(row, move)
  \/ \E s \in Sessions : SelectSession(s)
  \/ \E n \in Slots : Handle(n)

Spec == Init /\ [][Next]_vars

(* On the pages that poll, timers fire and a fetch is answered or fails. *)
FairSpec == Spec /\ WF_vars(Tick) /\ \A n \in 1..MaxCrossing : WF_vars(Handle(n))

-----------------------------------------------------------------------------
States == {None, Lost, "absent", "pending", "approved", "denied", "saved", "discarded",
           "active", "paused", "deleted", "first", "second", "up", "down"} \cup Sessions

TypeOK ==
  /\ page \in Pages
  /\ {server, shown, told} \subseteq [Rows[page] -> States]
  /\ \A r \in InFlight : r.todo \subseteq DOMAIN r.body /\ DOMAIN r.body \subseteq Rows[page]
  /\ timer \in BOOLEAN /\ clean \in BOOLEAN
  /\ loading \subseteq {"list", "saving"} \cup Rows[page]
  /\ active \in Schedules \cup {None} /\ {selected, selectedRun} \subseteq Sessions \cup {None}
  /\ acts \in 0..(MaxActs + MaxSteps) /\ changes \in 0..MaxChanges /\ faults \in 0..MaxFaults

(* Nothing is said to load, to be saved or to be acted upon without a request under
   way that will end it, though actions on two rows share one activeScheduleId and
   loads of one panel share one flag. *)
LoadingEnds ==
  /\ \A what \in loading : \E r \in InFlight :
       CASE what = "list"   -> r.do = "load"
         [] what = "saving" -> r.do = "act" /\ r.move = "create"
         [] what \notin {"list", "saving"} -> r.do = "load" /\ what \in DOMAIN r.body
  /\ active # None => \E r \in InFlight : r.do = "act" /\ active \in DOMAIN r.body

(* "Saved", "discarded" or resolved: what the inbox reports of a decision happened,
   also when its answer crossed with polls and with other clients. *)
DecisionsAreTrue ==
  \A row \in Rows[page] : told[row] # None =>
    IF row = "candidate" THEN server[row] = told[row] ELSE server[row] \in {"approved", "denied"}

(* A user alone with a page, who does one thing after the other over a connection that
   does not fail, sees what the tables say, though most actions change the copy of
   the page and load nothing. *)
AloneIsTrue ==
  clean /\ AllFree /\ page # "ops" =>
    \A row \in Rows[page] : shown[row] = Listed(server[row]) \/ told[row] = server[row]

(* So does an operator who waits for one session before selecting the next: every
   panel is of the session selected, though selecting it resets the inspector only. *)
PanelsFollowSelection ==
  clean /\ AllFree /\ selectedRun # None => \A p \in Panels : shown[p] = selected

(* What the pages keep of the server is what they say it is: flags end, decisions
   happened, and a copy nothing crossed is the original. *)
PagesKeepTrueCopies ==
  TypeOK /\ LoadingEnds /\ DecisionsAreTrue /\ AloneIsTrue /\ PanelsFollowSelection

(* A page that polls agrees with the server in the end, whatever order answers are
   applied in and whichever fetches fail: an approval that was resolved leaves the
   inbox for good (startPolling, the interval of the schedules page, loadHealth). *)
ListsCatchUp ==
  <>[](page \in {"inbox", "schedules", "layout"} =>
         \A row \in Rows[page] : shown[row] = Listed(server[row]))
=============================================================================
