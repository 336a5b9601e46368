--------------------------- MODULE ConsoleProofs ---------------------------
(***************************************************************************)
(* What the pages show is what the tables say, for every number of         *)
(* sessions, requests, acts, changes and faults.                           *)
(*                                                                         *)
(* A page may say something is under way only while a request that will    *)
(* end it is open (EndedBy), whichever answers are late, refused or lost.  *)
(* The copies themselves are related to the tables through the requests    *)
(* in flight: on a page where nothing crossed there is at most one, and    *)
(* what it has read or written is what the page lacks (Brings); on the     *)
(* console all of them are of the session selected (OfSelected).           *)
(*                                                                         *)
(* The last part is about the conversation of a session page: the fold the *)
(* view keeps is like a fold from nothing, for any events that reach it.   *)
(***************************************************************************)
EXTENDS Console, ConversationView, FiniteSetTheorems, WellFoundedInduction, TLAPS

-----------------------------------------------------------------------------
(* The inductive invariant. *)

(* What the tables say of a row, and what the lists and the buttons of the pages are of. *)
Held(row) ==
  CASE row = "approval"  -> {"absent", "pending", "approved", "denied"}
    [] row = "candidate" -> {"absent", "pending", "saved", "discarded"}
    [] row \in Schedules -> {"absent", "active", "paused", "deleted"}
    [] row = "session"   -> {"first", "second"}
    [] row = "health"    -> {"up", "down"}
    [] row \in Panels \cup {"runs"} -> {None}

(* What a page may show of it. *)
Seen(row) ==
  CASE row = "approval"  -> {"absent", "pending", "approved", "denied"}
    [] row = "candidate" -> {"absent", "pending"}
    [] row \in Schedules -> {"absent", "active", "paused"}
    [] row = "session"   -> {"absent", "first", "second"}
    [] row = "health"    -> {"absent", "up", "down"}
    [] row \in Panels \cup {"runs"} -> {None} \cup Sessions

(* What the user may ask for it. *)
Asked(row) ==
  CASE row = "approval"  -> {"approved", "denied"}
    [] row = "candidate" -> {"saved", "discarded"}
    [] row \in Schedules -> {"create", "trigger", "active", "paused", "deleted"}
    [] row = "session"   -> {"second"}
    [] row \in {"memory", "approvals"} -> {"decide"}
    [] row \in {"health", "inspector", "sandbox", "workspace", "runs"} -> {}

(* A load of a list is of all rows of the page pg, one of the console of one panel. *)
LoadOK(r, pg) ==
  /\ r \in [do : {"load"}, todo : SUBSET DOMAIN r.body, body : {r.body}, poll : BOOLEAN,
            key : Sessions \cup {None}]
  /\ r.body \in [DOMAIN r.body -> States]
  /\ pg # "ops" => DOMAIN r.body = Rows[pg]
  /\ pg = "ops" => \E p \in Rows[pg] : DOMAIN r.body = {p}
  /\ \A p \in DOMAIN r.body : r.body[p] \in Seen(p) \cup {Lost}

(* An action is on one row.  A decision that the tables, sv, accepted holds. *)
ActOn(r, row, pg, sv) ==
  /\ r \in [do : {"act"}, todo : SUBSET {row}, body : [{row} -> States],
            move : Asked(row), key : Sessions \cup {None}]
  /\ row \in r.todo => r.body[row] = Lost
  /\ r.body[row] \in IF pg = "ops" THEN Sessions \cup {None, Lost} ELSE Held(row) \cup {Lost}
  /\ r.body[row] # Lost =>
       /\ row = "candidate" => sv[row] = r.move
       /\ row = "approval" => sv[row] \in {"approved", "denied"}

ActOK(r, pg, sv) == \E row \in Rows[pg] : ActOn(r, row, pg, sv)

(* The page's rows: the original of each, the copy, and what was reported of it. *)
RowsOK ==
  /\ page \in Pages
  /\ server \in [Rows[page] -> States] /\ \A row \in Rows[page] : server[row] \in Held(row)
  /\ shown \in [Rows[page] -> States] /\ \A row \in Rows[page] : shown[row] \in Seen(row)
  /\ told \in [Rows[page] -> States]
  /\ \A row \in Rows[page] :
       told[row] \in IF page = "inbox" THEN {None} \cup Asked(row) ELSE {None}

(* Every open request is a load or an action of this page. *)
RequestsOK ==
  /\ DOMAIN requests = Slots
  /\ \A n \in Slots : requests[n] # Free =>
       LoadOK(requests[n], page) \/ ActOK(requests[n], page, server)

(* The timer, the flags and the selection, each on the pages that have it. *)
ControlsOK ==
  /\ timer \in BOOLEAN /\ clean \in BOOLEAN
  /\ loading \subseteq ({"list", "saving"} \cup Rows[page]) \ {"workspace"}
  /\ active \in Schedules \cup {None} /\ {selected, selectedRun} \subseteq Sessions \cup {None}
  /\ page # "ops" => selectedRun = None /\ loading \cap Rows[page] = {}
  /\ page = "ops" => loading \cap {"list", "saving"} = {}
  /\ page # "panel" => active = None
  /\ acts \in 0..(MaxActs + MaxSteps) /\ changes \in 0..MaxChanges /\ faults \in 0..MaxFaults

(* What ends what the page says is under way. *)
Ends(r, what) ==
  \/ what = "list" /\ r.do = "load"
  \/ what = "saving" /\ r.do = "act" /\ r.move = "create"
  \/ what \notin {"list", "saving"} /\ r.do = "load" /\ what \in DOMAIN r.body

(* What ends the action that a panel shows as running. *)
EndsAction(r, row) == r.do = "act" /\ r.move # "create" /\ row \in DOMAIN r.body

(* Whatever is said to be under way, a request that ends it is open. *)
EndedBy ==
  /\ \A what \in loading : \E n \in Slots : Ends(requests[n], what)
  /\ active # None => \E n \in Slots : EndsAction(requests[n], active)

(* The copy of a row is the original, or the page has reported what became of it. *)
Agrees(row) == shown[row] = Listed(server[row]) \/ told[row] = server[row]

(* While a page is clean at most one request is open, and the copies agree but for what
   that request is about to bring. *)
Brings(r) ==
  /\ r.do = "load" => \A p \in Rows[page] \ r.todo : r.body[p] = Listed(server[p])
  /\ r.do = "act" => \A row \in Rows[page] :
       IF row \in DOMAIN r.body /\ r.body[row] # Lost
         THEN server[row] = r.body[row]
         ELSE Agrees(row)

(* A list on which nothing crossed. *)
CleanList ==
  clean /\ page # "ops" =>
    /\ \A m, n \in Slots : requests[m] # Free /\ requests[n] # Free => m = n
    /\ AllFree => \A row \in Rows[page] : Agrees(row)
    /\ \A n \in Slots : requests[n] # Free => Brings(requests[n])

(* While the console is clean all that is shown or on its way is of the session selected. *)
OfSelected(r) ==
  /\ r.key = selected
  /\ r.do = "load" => /\ \A p \in DOMAIN r.body \ r.todo : r.body[p] = selected
                      /\ "inspector" \in DOMAIN r.body => selectedRun = selected

(* The console on which nothing crossed. *)
CleanConsole ==
  clean /\ page = "ops" =>
    /\ shown["runs"] \in {None, selected} /\ selectedRun \in {None, selected}
    /\ \A n \in Slots : requests[n] # Free => OfSelected(requests[n])
    /\ selectedRun # None => \A p \in Panels :
         shown[p] = selected \/ \E n \in Slots : Ends(requests[n], p)

(* The inductive invariant. *)
ConsoleInv ==
  RowsOK /\ RequestsOK /\ ControlsOK /\ EndedBy /\ DecisionsAreTrue /\ CleanList /\ CleanConsole

-----------------------------------------------------------------------------
(* Lemmas about pages and rows. *)

(* The bounds one by one. *)
LEMMA Bounds ==
  /\ MaxOpen \in Nat /\ MaxCrossing \in Nat /\ MaxActs \in Nat /\ MaxSteps \in Nat
  /\ MaxChanges \in Nat /\ MaxFaults \in Nat /\ MaxOpen >= 2
  /\ None \notin Sessions /\ Lost \notin Sessions
BY ConsoleAssumption DEF None, Lost

(* The rows of each page. *)
LEMMA PageRows ==
  /\ Pages = {"inbox", "schedules", "panel", "home", "layout", "ops"}
  /\ Rows["inbox"] = {"approval", "candidate"} /\ Rows["schedules"] = {"schedule"}
  /\ Rows["panel"] = {"schedule", "other"} /\ Rows["home"] = {"session"}
  /\ Rows["layout"] = {"health"}
  /\ Rows["ops"] = {"inspector", "memory", "approvals", "sandbox", "workspace", "runs"}
BY DEF Pages, Rows, Panels

(* Which page a row is on. *)
LEMMA RowPages ==
  ASSUME page \in Pages, NEW row \in Rows[page]
  PROVE  /\ row \in {"approval", "candidate"} <=> page = "inbox"
         /\ row = "schedule" <=> page \in {"schedules", "panel"} /\ row # "other"
         /\ row = "other" => page = "panel"
         /\ row \in Schedules <=> page \in {"schedules", "panel"}
         /\ row = "session" <=> page = "home"
         /\ row = "health" <=> page = "layout"
         /\ row \in Panels \cup {"runs"} <=> page = "ops"
         /\ row \in {"approval", "candidate", "schedule", "other", "session", "health"} \cup Panels
                      \cup {"runs"}
BY PageRows DEF Panels, Schedules

(* The rows of all pages. *)
AllRows ==
  {"approval", "candidate", "schedule", "other", "session", "health"} \cup Panels \cup {"runs"}

(* What Held, Seen and Asked say, row by row. *)
LEMMA RowTables ==
  /\ Held("approval") = {"absent", "pending", "approved", "denied"}
  /\ Held("candidate") = {"absent", "pending", "saved", "discarded"}
  /\ \A row \in Schedules : Held(row) = {"absent", "active", "paused", "deleted"}
  /\ Held("session") = {"first", "second"} /\ Held("health") = {"up", "down"}
  /\ \A row \in Panels \cup {"runs"} : Held(row) = {None}
  /\ Seen("approval") = {"absent", "pending", "approved", "denied"}
  /\ Seen("candidate") = {"absent", "pending"}
  /\ \A row \in Schedules : Seen(row) = {"absent", "active", "paused"}
  /\ Seen("session") = {"absent", "first", "second"} /\ Seen("health") = {"absent", "up", "down"}
  /\ \A row \in Panels \cup {"runs"} : Seen(row) = {None} \cup Sessions
  /\ Asked("approval") = {"approved", "denied"} /\ Asked("candidate") = {"saved", "discarded"}
  /\ \A row \in Schedules : Asked(row) = {"create", "trigger", "active", "paused", "deleted"}
  /\ Asked("session") = {"second"}
  /\ Asked("memory") = {"decide"} /\ Asked("approvals") = {"decide"}
  /\ \A row \in {"health", "inspector", "sandbox", "workspace", "runs"} : Asked(row) = {}
BY DEF Held, Seen, Asked, Panels, Schedules

(* What is held can be shown. *)
LEMMA ListedFacts ==
  ASSUME page \in Pages, page # "ops", NEW row \in Rows[page], NEW state \in Held(row)
  PROVE  Listed(state) \in Seen(row) /\ Listed(state) # Lost /\ state # Lost
BY RowPages, RowTables DEF Listed, Lost, Panels, Schedules

(* All of it is a state. *)
LEMMA RowStates ==
  ASSUME NEW row \in AllRows
  PROVE  Held(row) \subseteq States /\ Seen(row) \subseteq States
BY RowTables DEF AllRows, States, Panels, Schedules, None

(* What a route answers. *)
LEMMA RouteFacts ==
  ASSUME page \in Pages, page \notin {"ops", "layout"}, NEW row \in Rows[page],
         NEW move \in Asked(row), server[row] \in Held(row), NEW value \in Route(row, move)
  PROVE  /\ value \in Held(row) \cup {Lost}
         /\ row = "candidate" /\ value # Lost =>
              value = move /\ server[row] \in {"absent", "pending"}
         /\ row = "approval" /\ value # Lost => value \in {"approved", "denied"}
<1>1. CASE row = "approval"
  <2>1. value \in Moved("approval", move) \cup ({server["approval"]} \cap {"approved", "denied"})
    BY <1>1 DEF Route, ResolveRoute, Schedules
  <2>2. move \in {"approved", "denied"}
    BY <1>1, RowTables
  <2> QED BY <1>1, <2>1, <2>2, RowTables DEF Moved
<1>2. CASE row = "candidate"
  <2>1. value \in IF <<server["candidate"], move>> \in Moves("candidate") THEN {move} ELSE {Lost}
    BY <1>2 DEF Route, CandidateRoute, Moved, Schedules
  <2>2. /\ move \in {"saved", "discarded"}
        /\ server[row] \in {"absent", "pending", "saved", "discarded"}
    BY <1>2, RowTables
  <2>3. Moves("candidate") =
          {<<"absent", "pending">>, <<"pending", "saved">>, <<"pending", "discarded">>}
    BY DEF Moves, Schedules
  <2>4. value # Lost => value = move /\ <<server["candidate"], move>> \in Moves("candidate")
    BY <2>1
  <2>5. value # Lost => server["candidate"] = "pending"
    BY <2>2, <2>3, <2>4
  <2> QED BY <1>2, <2>1, <2>2, <2>4, <2>5, RowTables
<1>3. CASE row = "session"
  BY <1>3, RowTables DEF Route, RenameRoute, Schedules
<1>4. CASE row \in Schedules
  <2>1. value \in ScheduleRoute(row, move) /\ row \notin {"approval", "candidate"}
    BY <1>4 DEF Route, Schedules
  <2>2. /\ server[row] \in {"absent", "active", "paused", "deleted"}
        /\ move \in {"create", "trigger", "active", "paused", "deleted"}
    BY <1>4, RowTables
  <2>3. CASE server[row] = "absent"
    BY <1>4, <2>1, <2>3, RowTables DEF ScheduleRoute
  <2>4. CASE server[row] = "deleted"
    BY <1>4, <2>1, <2>4, RowTables DEF ScheduleRoute
  <2>5. CASE server[row] \in {"active", "paused"}
    <3>1. value = CASE move = "create" -> Lost [] move = "trigger" -> server[row]
                    [] move \notin {"create", "trigger"} -> move
      BY <2>1, <2>5 DEF ScheduleRoute
    <3>2. value \in {Lost, server[row], "active", "paused", "deleted"}
      BY <2>2, <3>1
    <3> QED BY <1>4, <2>1, <2>2, <3>2, RowTables
  <2> QED BY <2>2, <2>3, <2>4, <2>5
<1> QED BY <1>1, <1>2, <1>3, <1>4, RowPages, PageRows

(* What others do to a row. *)
LEMMA MoveFacts ==
  ASSUME page \in Pages, page # "ops", NEW row \in Rows[page], NEW move \in Moves(row),
         move[1] = server[row]
  PROVE  /\ move[2] \in Held(row)
         /\ row = "candidate" => server[row] \in {"absent", "pending"}
         /\ row = "approval" => server[row] \in {"absent", "pending"}
<1>1. CASE row = "approval"
  BY <1>1, RowTables DEF Moves
<1>2. CASE row = "candidate"
  BY <1>2, RowTables DEF Moves, Schedules
<1>3. CASE row \in Schedules
  <2>1. Moves(row) = {<<"active", "paused">>, <<"paused", "active">>,
                      <<"active", "deleted">>, <<"paused", "deleted">>}
    BY <1>3 DEF Moves, Schedules
  <2> QED BY <1>3, <2>1, RowTables DEF Schedules
<1>4. CASE row = "session"
  BY <1>4, RowTables DEF Moves, Schedules
<1>5. CASE row = "health"
  BY <1>5, RowTables DEF Moves, Schedules
<1> QED BY <1>1, <1>2, <1>3, <1>4, <1>5, RowPages, PageRows

-----------------------------------------------------------------------------
(* The tables. *)

(* A step of the server: a decision is not taken back. *)
Settles ==
  /\ server' \in [Rows[page] -> States] /\ \A row \in Rows[page] : server'[row] \in Held(row)
  /\ server["candidate"] \in {"saved", "discarded"} => server'["candidate"] = server["candidate"]
  /\ server["approval"] \in {"approved", "denied"} => server'["approval"] \in {"approved", "denied"}

(* Rows of a page are rows. *)
LEMMA RowsOfPages ==
  ASSUME page \in Pages
  PROVE  Rows[page] \subseteq AllRows
BY PageRows DEF AllRows, Panels

(* A step that writes nothing. *)
LEMMA NothingWritten ==
  ASSUME RowsOK, UNCHANGED server
  PROVE  Settles
BY DEF RowsOK, Settles

(* A step that writes a row. *)
LEMMA RowWritten ==
  ASSUME RowsOK, NEW row \in Rows[page], NEW value \in Held(row),
         row = "candidate" => server[row] \in {"absent", "pending"},
         row = "approval" /\ server[row] \in {"approved", "denied"} =>
           value \in {"approved", "denied"},
         server' = [server EXCEPT ![row] = value]
  PROVE  Settles
<1>1. value \in States
  BY RowsOfPages, RowStates DEF RowsOK
<1>2. server' \in [Rows[page] -> States] /\ \A x \in Rows[page] : server'[x] \in Held(x)
  BY <1>1 DEF RowsOK
<1>3. server["candidate"] \in {"saved", "discarded"} => server'["candidate"] = server["candidate"]
  BY DEF RowsOK
<1>4. server["approval"] \in {"approved", "denied"} =>
        server'["approval"] \in {"approved", "denied"}
  BY DEF RowsOK
<1> QED BY <1>2, <1>3, <1>4 DEF Settles

(* A route that answers, whether its answer arrives or not. *)
LEMMA RouteSettles ==
  ASSUME RowsOK, page # "ops", NEW row \in Rows[page], NEW move \in Asked(row),
         NEW value \in Route(row, move),
         server' = IF value = Lost THEN server ELSE [server EXCEPT ![row] = value]
  PROVE  /\ Settles
         /\ value \in Held(row) \cup {Lost}
         /\ value # Lost => /\ server'[row] = value
                            /\ row = "candidate" => value = move
                            /\ row = "approval" => value \in {"approved", "denied"}
<1>1. page \in Pages /\ server[row] \in Held(row) /\ server \in [Rows[page] -> States]
  BY DEF RowsOK
<1>2. page # "layout"
  BY <1>1, PageRows, RowTables
<1>3. /\ value \in Held(row) \cup {Lost}
      /\ row = "candidate" /\ value # Lost => value = move /\ server[row] \in {"absent", "pending"}
      /\ row = "approval" /\ value # Lost => value \in {"approved", "denied"}
  BY <1>1, <1>2, RouteFacts
<1>4. CASE value = Lost
  BY <1>3, <1>4, NothingWritten
<1>5. CASE value # Lost
  <2>1. value \in Held(row) /\ server' = [server EXCEPT ![row] = value]
    BY <1>3, <1>5
  <2>2. Settles
    BY <1>3, <1>5, <2>1, RowWritten
  <2> QED BY <1>1, <1>3, <2>1, <2>2
<1> QED BY <1>4, <1>5

-----------------------------------------------------------------------------
(* Requests. *)

(* A request is no free slot. *)
LEMMA RequestsAreNotFree ==
  /\ Free.do = "free"
  /\ \A r, pg : LoadOK(r, pg) => r.do = "load" /\ r # Free
  /\ \A r, row, pg, sv : ActOn(r, row, pg, sv) => r.do = "act" /\ r # Free
  /\ \A r, pg, sv : ActOK(r, pg, sv) => r.do = "act" /\ r # Free
<1>1. Free.do = "free"
  BY DEF Free
<1>2. \A r, pg : LoadOK(r, pg) => r.do = "load"
  BY DEF LoadOK
<1>3. \A r, row, pg, sv : ActOn(r, row, pg, sv) => r.do = "act"
  BY DEF ActOn
<1>4. \A r, pg, sv : ActOK(r, pg, sv) => r.do = "act"
  BY <1>3 DEF ActOK
<1>5. \A r : r.do \in {"load", "act"} => r # Free
  BY <1>1
<1> QED BY <1>1, <1>2, <1>3, <1>4, <1>5

(* An open request is one or the other. *)
LEMMA RequestKinds ==
  ASSUME RequestsOK, NEW n \in Slots, requests[n] # Free
  PROVE  /\ requests[n].do \in {"load", "act"}
         /\ requests[n].do = "load" => LoadOK(requests[n], page)
         /\ requests[n].do = "act" => ActOK(requests[n], page, server)
BY RequestsAreNotFree DEF RequestsOK

(* A new load. *)
LEMMA NewLoad ==
  ASSUME page \in Pages, NEW parts \in SUBSET Rows[page], NEW poll \in BOOLEAN,
         NEW key \in Sessions \cup {None},
         IF page # "ops" THEN parts = Rows[page] ELSE \E p \in Rows[page] : parts = {p}
  PROVE  /\ LoadOK(Load(parts, poll, key), page)
         /\ Load(parts, poll, key).do = "load" /\ Load(parts, poll, key).todo = parts
         /\ DOMAIN Load(parts, poll, key).body = parts /\ Load(parts, poll, key).key = key
         /\ Load(parts, poll, key).poll = poll
BY DEF Load, LoadOK, States

(* One that the page's own timer did not send. *)
LEMMA NewQuietLoad ==
  ASSUME page \in Pages, NEW parts \in SUBSET Rows[page], NEW key \in Sessions \cup {None},
         page # "ops" => parts = Rows[page], page = "ops" => \E p \in Rows[page] : parts = {p}
  PROVE  /\ LoadOK(Load(parts, FALSE, key), page)
         /\ Load(parts, FALSE, key).do = "load" /\ Load(parts, FALSE, key).todo = parts
         /\ DOMAIN Load(parts, FALSE, key).body = parts /\ Load(parts, FALSE, key).key = key
BY DEF Load, LoadOK, States

(* A load of one panel. *)
LEMMA NewPanelLoad ==
  ASSUME page = "ops", NEW p \in Rows[page], NEW key \in Sessions \cup {None}
  PROVE  /\ LoadOK(Load({p}, FALSE, key), page)
         /\ Load({p}, FALSE, key).do = "load" /\ Load({p}, FALSE, key).todo = {p}
         /\ DOMAIN Load({p}, FALSE, key).body = {p} /\ Load({p}, FALSE, key).key = key
BY DEF Load, LoadOK, States

(* A new action. *)
LEMMA NewAct ==
  ASSUME page \in Pages, NEW row \in Rows[page], NEW move \in Asked(row),
         NEW key \in Sessions \cup {None}
  PROVE  /\ ActOn(Act(row, move, key), row, page, server)
         /\ Act(row, move, key).do = "act" /\ Act(row, move, key).todo = {row}
         /\ DOMAIN Act(row, move, key).body = {row} /\ Act(row, move, key).key = key
         /\ Act(row, move, key).move = move /\ Act(row, move, key).body[row] = Lost
BY DEF Act, ActOn, States

(* An action that was all right stays so. *)
LEMMA ActKept ==
  ASSUME Settles, NEW r, NEW row, ActOn(r, row, page, server)
  PROVE  ActOn(r, row, page, server')
<1>1. row = "candidate" => r.move \in {"saved", "discarded"}
  BY RowTables DEF ActOn
<1> QED BY <1>1 DEF ActOn, Settles
(* A request with one more answer. *)
Answered(r, p, value) == [r EXCEPT !.todo = @ \ {p}, !.body[p] = value]

(* An answer of a load. *)
LEMMA LoadGetsAnswer ==
  ASSUME page \in Pages, NEW r, LoadOK(r, page), NEW p \in r.todo, NEW value \in Seen(p) \cup {Lost}
  PROVE  /\ LoadOK(Answered(r, p, value), page)
         /\ Answered(r, p, value).do = "load" /\ Answered(r, p, value).todo = r.todo \ {p}
         /\ Answered(r, p, value).body = [r.body EXCEPT ![p] = value]
         /\ Answered(r, p, value).key = r.key
         /\ DOMAIN Answered(r, p, value).body = DOMAIN r.body /\ p \in DOMAIN r.body
<1> DEFINE q == Answered(r, p, value)
<1>1. /\ r \in [do : {"load"}, todo : SUBSET DOMAIN r.body, body : {r.body}, poll : BOOLEAN,
                key : Sessions \cup {None}]
      /\ r.body \in [DOMAIN r.body -> States] /\ DOMAIN r.body \subseteq Rows[page]
      /\ page # "ops" => DOMAIN r.body = Rows[page]
      /\ page = "ops" => \E x \in Rows[page] : DOMAIN r.body = {x}
      /\ \A x \in DOMAIN r.body : r.body[x] \in Seen(x) \cup {Lost}
  BY DEF LoadOK
<1>2. p \in DOMAIN r.body /\ p \in AllRows
  BY <1>1, RowsOfPages
<1>3. value \in States
  BY <1>2, RowStates DEF States
<1>4. /\ q.do = "load" /\ q.todo = r.todo \ {p} /\ q.body = [r.body EXCEPT ![p] = value]
      /\ q.key = r.key /\ q.poll = r.poll
  BY <1>1 DEF Answered
<1>5. /\ q.body \in [DOMAIN r.body -> States] /\ DOMAIN q.body = DOMAIN r.body
      /\ \A x \in DOMAIN q.body : q.body[x] \in Seen(x) \cup {Lost}
  BY <1>1, <1>2, <1>3, <1>4
<1>6. q \in [do : {"load"}, todo : SUBSET DOMAIN q.body, body : {q.body}, poll : BOOLEAN,
             key : Sessions \cup {None}]
  BY <1>1, <1>4, <1>5 DEF Answered
<1>7. LoadOK(q, page)
  BY <1>1, <1>5, <1>6 DEF LoadOK
<1> QED BY <1>2, <1>4, <1>5, <1>7

(* An answer of an action: if it was accepted, its decision holds. *)
LEMMA ActGetsAnswer ==
  ASSUME Settles, NEW r, NEW row, ActOn(r, row, page, server),
         NEW p \in r.todo, NEW value \in States,
         value \in IF page = "ops" THEN Sessions \cup {None, Lost} ELSE Held(row) \cup {Lost},
         value # Lost =>
           /\ row = "candidate" => server'[row] = r.move
           /\ row = "approval" => server'[row] \in {"approved", "denied"}
  PROVE  /\ p = row /\ ActOn(Answered(r, p, value), row, page, server')
         /\ Answered(r, p, value).do = "act" /\ Answered(r, p, value).todo = {}
         /\ DOMAIN Answered(r, p, value).body = {row} /\ Answered(r, p, value).body[row] = value
         /\ Answered(r, p, value).key = r.key /\ Answered(r, p, value).move = r.move
<1> DEFINE q == Answered(r, p, value)
<1>1. r \in [do : {"act"}, todo : SUBSET {row}, body : [{row} -> States],
             move : Asked(row), key : Sessions \cup {None}]
  BY DEF ActOn
<1>2. p = row /\ r.todo = {row}
  BY <1>1
<1>3. /\ q.do = "act" /\ q.todo = {} /\ q.body = [r.body EXCEPT ![row] = value]
      /\ q.key = r.key /\ q.move = r.move
  BY <1>1, <1>2 DEF Answered
<1>4. q.body \in [{row} -> States] /\ q.body[row] = value /\ DOMAIN q.body = {row}
  BY <1>1, <1>3
<1>5. q \in [do : {"act"}, todo : SUBSET {row}, body : [{row} -> States],
             move : Asked(row), key : Sessions \cup {None}]
  BY <1>1, <1>2, <1>3, <1>4 DEF Answered
<1>6. ActOn(q, row, page, server')
  BY <1>3, <1>4, <1>5 DEF ActOn
<1> QED BY <1>2, <1>3, <1>4, <1>6

(* One answer changes one request. *)
LEMMA AnswerChanges ==
  ASSUME RequestsOK, NEW n \in Slots, NEW p, NEW value, Answer(n, p, value)
  PROVE  /\ DOMAIN requests' = Slots /\ requests'[n] = Answered(requests[n], p, value)
         /\ \A m \in Slots \ {n} : requests'[m] = requests[m]
BY DEF RequestsOK, Answer, Answered

(* What a route or a table may answer to a request. *)
Fits(r, p, value) ==
  \/ value = Lost
  \/ r.do = "load" /\ value \in Seen(p)
  \/ r.do = "act" /\ page = "ops" /\ value \in Sessions \cup {None}
  \/ /\ r.do = "act" /\ page # "ops" /\ value \in Held(p)
     /\ p = "candidate" => server'[p] = r.move
     /\ p = "approval" => server'[p] \in {"approved", "denied"}

(* The requests are all right after a step that changes some of them. *)
LEMMA RequestsKept ==
  ASSUME RequestsOK, Settles, page' = page, DOMAIN requests' = Slots,
         \A n \in Slots : \/ requests'[n] \in {requests[n], Free}
                          \/ LoadOK(requests'[n], page) \/ ActOK(requests'[n], page, server')
  PROVE  RequestsOK'
<1>1. ASSUME NEW n \in Slots, requests'[n] # Free
      PROVE  LoadOK(requests'[n], page) \/ ActOK(requests'[n], page, server')
  <2>1. CASE requests'[n] = requests[n]
    <3>1. CASE ActOK(requests[n], page, server)
      <4>1. PICK row \in Rows[page] : ActOn(requests[n], row, page, server)
        BY <3>1 DEF ActOK
      <4>2. ActOn(requests[n], row, page, server')
        BY <4>1, ActKept
      <4> QED BY <2>1, <4>2 DEF ActOK
    <3> QED BY <1>1, <2>1, <3>1 DEF RequestsOK
  <2> QED BY <1>1, <2>1
<1> QED BY <1>1 DEF RequestsOK

(* A step that answers one fetch. *)
LEMMA AnswerKeeps ==
  ASSUME RowsOK, RequestsOK, Settles, page' = page, NEW n \in Slots, requests[n] # Free,
         NEW p \in requests[n].todo, NEW value, Fits(requests[n], p, value), Answer(n, p, value)
  PROVE  /\ RequestsOK'
         /\ requests'[n] = Answered(requests[n], p, value)
         /\ requests'[n].do = requests[n].do /\ requests'[n].todo = requests[n].todo \ {p}
         /\ requests'[n].key = requests[n].key
         /\ DOMAIN requests'[n].body = DOMAIN requests[n].body /\ p \in DOMAIN requests[n].body
         /\ requests'[n].do = "act" =>
              requests'[n].move = requests[n].move /\ DOMAIN requests[n].body = {p}
         /\ requests'[n].body[p] = value
         /\ \A x \in DOMAIN requests[n].body \ {p} : requests'[n].body[x] = requests[n].body[x]
         /\ requests'[n] # Free /\ \A m \in Slots \ {n} : requests'[m] = requests[m]
         /\ requests[n].do \in {"load", "act"}
<1> DEFINE r == requests[n]  q == requests'[n]
<1>1. /\ DOMAIN requests' = Slots /\ q = Answered(r, p, value)
      /\ \A m \in Slots \ {n} : requests'[m] = requests[m]
  BY AnswerChanges
<1>2. page \in Pages
  BY DEF RowsOK
<1>3. CASE r.do = "load"
  <2>1. LoadOK(r, page) /\ value \in Seen(p) \cup {Lost}
    BY <1>3, RequestKinds DEF Fits
  <2>2. /\ LoadOK(q, page) /\ q.do = "load" /\ q.todo = r.todo \ {p}
        /\ q.body = [r.body EXCEPT ![p] = value] /\ q.key = r.key
        /\ DOMAIN q.body = DOMAIN r.body /\ p \in DOMAIN r.body
    BY <1>1, <1>2, <2>1, LoadGetsAnswer
  <2>3. \A m \in Slots : \/ requests'[m] \in {requests[m], Free}
                         \/ LoadOK(requests'[m], page) \/ ActOK(requests'[m], page, server')
    BY <1>1, <2>2
  <2>4. RequestsOK'
    BY <1>1, <2>3, RequestsKept
  <2>5. q.body[p] = value /\ \A x \in DOMAIN r.body \ {p} : q.body[x] = r.body[x]
    BY <2>1, <2>2 DEF LoadOK
  <2> QED BY <1>1, <1>3, <2>2, <2>4, <2>5, RequestsAreNotFree
<1>4. CASE r.do = "act"
  <2>1. PICK row \in Rows[page] : ActOn(r, row, page, server)
    BY <1>4, RequestKinds DEF ActOK
  <2>2. p = row /\ row \in AllRows /\ DOMAIN r.body = {row}
    BY <1>2, <2>1, RowsOfPages DEF ActOn
  <2>3. value \in States
    BY <1>4, <2>2, RowStates DEF Fits, States
  <2>4. /\ value \in IF page = "ops" THEN Sessions \cup {None, Lost} ELSE Held(row) \cup {Lost}
        /\ value # Lost => /\ row = "candidate" => server'[row] = r.move
                           /\ row = "approval" => server'[row] \in {"approved", "denied"}
    <3>1. CASE page = "ops"
      BY <1>4, <2>2, <3>1, PageRows DEF Fits
    <3>2. CASE page # "ops"
      BY <1>4, <2>2, <3>2 DEF Fits
    <3> QED BY <3>1, <3>2
  <2>5. /\ ActOn(q, row, page, server') /\ q.do = "act" /\ q.todo = {}
        /\ DOMAIN q.body = {row} /\ q.body[row] = value /\ q.key = r.key /\ q.move = r.move
    BY <1>1, <2>1, <2>3, <2>4, ActGetsAnswer
  <2>6. ActOK(q, page, server')
    BY <2>5 DEF ActOK
  <2>7. \A m \in Slots : \/ requests'[m] \in {requests[m], Free}
                         \/ LoadOK(requests'[m], page) \/ ActOK(requests'[m], page, server')
    BY <1>1, <2>6
  <2>8. RequestsOK'
    BY <1>1, <2>7, RequestsKept
  <2>9. r.todo \ {p} = {}
    BY <2>1, <2>2 DEF ActOn
  <2> QED BY <1>1, <1>4, <2>2, <2>5, <2>8, <2>9, RequestsAreNotFree
<1> QED BY <1>3, <1>4, RequestKinds
-----------------------------------------------------------------------------
(* Sending. *)

(* A request takes a free slot, and the others stay. *)
LEMMA SendStep ==
  ASSUME RowsOK, RequestsOK, UNCHANGED <<page, server>>, NEW request, Send(request),
         LoadOK(request, page) \/ ActOK(request, page, server)
  PROVE  /\ RequestsOK'
         /\ \E n \in Slots :
              /\ requests[n] = Free /\ requests'[n] = request /\ request # Free
              /\ \A m \in Slots \ {n} : requests'[m] = requests[m]
              /\ clean' => \A m \in Slots \ {n} : requests'[m] = Free
         /\ clean' => AllFree /\ (clean \/ request.do = "load")
         /\ clean' \in BOOLEAN
<1>1. PICK n \in Slots : requests[n] = Free /\ requests' = [requests EXCEPT ![n] = request]
  BY DEF Send
<1>2. /\ DOMAIN requests' = Slots /\ requests'[n] = request
      /\ \A m \in Slots \ {n} : requests'[m] = requests[m]
  BY <1>1 DEF RequestsOK
<1>3. clean' = (AllFree /\ (clean \/ request.do = "load"))
  BY DEF Send
<1>4. clean' => \A m \in Slots \ {n} : requests'[m] = Free
  BY <1>2, <1>3 DEF AllFree
<1>5. \A m \in Slots : \/ requests'[m] \in {requests[m], Free}
                       \/ LoadOK(requests'[m], page) \/ ActOK(requests'[m], page, server')
  BY <1>2
<1>6. RequestsOK'
  BY <1>2, <1>5, NothingWritten, RequestsKept
<1>7. clean' \in BOOLEAN
  BY <1>3 DEF AllFree
<1> QED BY <1>1, <1>2, <1>3, <1>4, <1>6, <1>7, RequestsAreNotFree

(* What was ended by a request that stays is still. *)
LEMMA StillEnded ==
  ASSUME EndedBy, \A n \in Slots : requests[n] # Free => requests'[n] = requests[n]
  PROVE  /\ \A what \in loading : \E n \in Slots : Ends(requests'[n], what)
         /\ active # None => \E n \in Slots : EndsAction(requests'[n], active)
BY RequestsAreNotFree DEF EndedBy, Ends, EndsAction

(* On the pages of lists. *)
LEMMA ListSend ==
  ASSUME RowsOK, RequestsOK, EndedBy, DecisionsAreTrue, CleanList, page # "ops",
         UNCHANGED <<page, server, shown, told>>, NEW request, Send(request),
         \/ \E poll \in BOOLEAN : request = Load(Rows[page], poll, None)
         \/ \E row \in Rows[page] : \E move \in Asked(row) : request = Act(row, move, None)
  PROVE  /\ RowsOK' /\ RequestsOK' /\ DecisionsAreTrue' /\ CleanList' /\ CleanConsole'
         /\ clean' \in BOOLEAN
         /\ \E n \in Slots : requests'[n] = request
         /\ \A n \in Slots : requests[n] # Free => requests'[n] = requests[n]
<1>1. page \in Pages
  BY DEF RowsOK
<1>2. LoadOK(request, page) \/ ActOK(request, page, server)
  <2>1. CASE \E poll \in BOOLEAN : request = Load(Rows[page], poll, None)
    BY <1>1, <2>1, NewLoad
  <2>2. ASSUME NEW row \in Rows[page], NEW move \in Asked(row), request = Act(row, move, None)
        PROVE  ActOK(request, page, server)
    BY <1>1, <2>2, NewAct DEF ActOK
  <2> QED BY <2>1, <2>2
<1>3. /\ RequestsOK' /\ clean' \in BOOLEAN
      /\ clean' => AllFree /\ (clean \/ request.do = "load")
  BY <1>2, SendStep
<1>4. PICK n \in Slots : /\ requests[n] = Free /\ requests'[n] = request /\ request # Free
                         /\ \A m \in Slots \ {n} : requests'[m] = requests[m]
                         /\ clean' => \A m \in Slots \ {n} : requests'[m] = Free
  BY <1>2, SendStep
<1>5. RowsOK' /\ DecisionsAreTrue'
  BY DEF RowsOK, DecisionsAreTrue
<1>6. ASSUME clean'
      PROVE  Brings(request)'
  <2>1. CASE \E poll \in BOOLEAN : request = Load(Rows[page], poll, None)
    <3>1. request.do = "load" /\ request.todo = Rows[page]
      BY <1>1, <2>1, NewLoad
    <3> QED BY <3>1 DEF Brings
  <2>2. ASSUME NEW row \in Rows[page], NEW move \in Asked(row), request = Act(row, move, None)
        PROVE  Brings(request)'
    <3>1. request.do = "act" /\ DOMAIN request.body = {row} /\ request.body[row] = Lost
      BY <1>1, <2>2, NewAct
    <3>2. clean /\ AllFree
      BY <1>3, <1>6, <3>1
    <3>3. \A x \in Rows[page] : Agrees(x)
      BY <3>2 DEF CleanList
    <3> QED BY <3>1, <3>3 DEF Brings, Agrees
  <2> QED BY <2>1, <2>2
<1>7. CleanList'
  <2>1. ASSUME clean'
        PROVE  /\ \A m, k \in Slots : requests'[m] # Free /\ requests'[k] # Free => m = k
               /\ ~AllFree' /\ \A m \in Slots : requests'[m] # Free => Brings(requests[m])'
    <3>1. \A m \in Slots : requests'[m] # Free => m = n
      BY <1>4, <2>1
    <3>2. Brings(requests[n])'
      BY <1>4, <1>6, <2>1 DEF Brings, Agrees
    <3>3. ~AllFree'
      BY <1>4 DEF AllFree
    <3>4. ASSUME NEW m \in Slots, requests'[m] # Free
          PROVE  Brings(requests[m])'
      BY <3>1, <3>2, <3>4
    <3> QED BY <3>1, <3>3, <3>4
  <2> QED BY <2>1 DEF CleanList
<1>8. CleanConsole'
  BY DEF CleanConsole
<1>9. \A m \in Slots : requests[m] # Free => requests'[m] = requests[m]
  BY <1>4
<1>10. \E m \in Slots : requests'[m] = request
  BY <1>4
<1> QED BY <1>3, <1>5, <1>7, <1>8, <1>9, <1>10
(* The user is allowed one more step. *)
LEMMA ActsBound ==
  ASSUME ControlsOK, MayAct, acts' = acts + 1
  PROVE  acts' \in 0..(MaxActs + MaxSteps)
BY Bounds DEF ControlsOK, MayAct

(* The console's own part of a step on another page. *)
LEMMA PollKeeps ==
  ASSUME ConsoleInv, page # "ops", NEW poll \in BOOLEAN, Send(Load(Rows[page], poll, None)),
         timer' \in BOOLEAN, Polls
  PROVE  ConsoleInv'
<1> DEFINE request == Load(Rows[page], poll, None)
<1>1. /\ RowsOK' /\ RequestsOK' /\ DecisionsAreTrue' /\ CleanList' /\ CleanConsole'
      /\ clean' \in BOOLEAN
      /\ \A n \in Slots : requests[n] # Free => requests'[n] = requests[n]
  BY ListSend DEF ConsoleInv, Polls, Kept
<1>2. ControlsOK'
  BY <1>1 DEF ConsoleInv, ControlsOK, Polls, Kept
<1>3. EndedBy'
  BY <1>1, StillEnded DEF ConsoleInv, EndedBy, Polls, Kept
<1> QED BY <1>1, <1>2, <1>3 DEF ConsoleInv

(* What pages do by themselves. *)
LEMMA TickKeeps ==
  ASSUME ConsoleInv, InboxPoll \/ SchedulesTick \/ HealthTick
  PROVE  ConsoleInv'
<1>1. CASE InboxPoll
  <2>1. page = "inbox" /\ Send(Load(Rows[page], TRUE, None)) /\ timer' = FALSE /\ Polls
    BY <1>1 DEF InboxPoll, InboxRefresh
  <2> QED BY <2>1, PollKeeps
<1>2. CASE SchedulesTick
  <2>1. page = "schedules" /\ Send(Load(Rows[page], TRUE, None)) /\ timer' = timer /\ Polls
    BY <1>2 DEF SchedulesTick
  <2>2. timer' \in BOOLEAN
    BY <2>1 DEF ConsoleInv, ControlsOK
  <2> QED BY <2>1, <2>2, PollKeeps
<1>3. CASE HealthTick
  <2>1. page = "layout" /\ Send(Load(Rows[page], TRUE, None)) /\ timer' = timer /\ Polls
    BY <1>3 DEF HealthTick
  <2>2. timer' \in BOOLEAN
    BY <2>1 DEF ConsoleInv, ControlsOK
  <2> QED BY <2>1, <2>2, PollKeeps
<1> QED BY <1>1, <1>2, <1>3

(* A list that is loaded again is said to load. *)
LEMMA ReloadKeeps ==
  ASSUME ConsoleInv, Reload
  PROVE  ConsoleInv'
<1> DEFINE request == Load(Rows[page], FALSE, None)
<1>1. page \in {"panel", "home"} /\ page # "ops" /\ Send(request)
  BY DEF Reload, LoadList
<1>2. UNCHANGED <<page, server, shown, told, changes, faults, timer, active, selected, selectedRun>>
  BY DEF Reload, Kept
<1>3. /\ RowsOK' /\ RequestsOK' /\ DecisionsAreTrue' /\ CleanList' /\ CleanConsole'
      /\ clean' \in BOOLEAN
      /\ \E n \in Slots : requests'[n] = request
      /\ \A n \in Slots : requests[n] # Free => requests'[n] = requests[n]
  BY <1>1, <1>2, ListSend DEF ConsoleInv
<1>4. loading' = loading \cup {"list"}
  BY DEF Reload
<1>5. ControlsOK'
  <2>1. acts' \in 0..(MaxActs + MaxSteps)
    BY ActsBound DEF Reload, ConsoleInv
  <2>2. "list" \notin Rows[page]
    BY <1>1, PageRows
  <2> QED BY <1>1, <1>2, <1>3, <1>4, <2>1, <2>2 DEF ConsoleInv, ControlsOK
<1>6. EndedBy'
  <2>1. request.do = "load"
    <3>1. page \in Pages /\ page # "ops" /\ FALSE \in BOOLEAN /\ None \in Sessions \cup {None}
      BY <1>1 DEF ConsoleInv, RowsOK
    <3> QED BY <3>1, NewQuietLoad
  <2>2. /\ \A what \in loading : \E n \in Slots : Ends(requests'[n], what)
        /\ active # None => \E n \in Slots : EndsAction(requests'[n], active)
    BY <1>3, StillEnded DEF ConsoleInv
  <2>3. \E n \in Slots : Ends(requests'[n], "list")
    BY <1>3, <2>1 DEF Ends
  <2> QED BY <1>2, <1>4, <2>2, <2>3 DEF EndedBy
<1> QED BY <1>3, <1>5, <1>6 DEF ConsoleInv

(* Buttons are of moves that can be asked for. *)
LEMMA OfferedFacts ==
  ASSUME RowsOK, NEW row \in Rows[page], NEW move \in Offered(row)
  PROVE  /\ page \notin {"ops", "layout"} /\ move \in Asked(row)
         /\ page # "home" /\ page # "inbox" => row \in Schedules
         /\ move = "create" => page \in {"schedules", "panel"}
         /\ page = "panel" /\ move # "create" => active # row
<1>1. page \in Pages /\ shown[row] \in Seen(row) /\ row \in Rows[page]
  BY DEF RowsOK
<1>2. page \notin {"ops", "layout"}
  BY <1>1 DEF Offered
<1>3. CASE page = "inbox"
  <2>1. move \in IF row = "approval" THEN ApprovalButtons ELSE CandidateButtons
    BY <1>3 DEF Offered
  <2>2. row \in {"approval", "candidate"}
    BY <1>1, <1>3, PageRows
  <2> QED BY <1>3, <2>1, <2>2, RowTables DEF ApprovalButtons, CandidateButtons
<1>4. CASE page = "home"
  <2>1. move \in RenameButton /\ row = "session"
    BY <1>1, <1>4, PageRows DEF Offered
  <2> QED BY <1>4, <2>1, RowTables DEF RenameButton
<1>5. ASSUME row \in Schedules, NEW x \in ScheduleButtons(row)
      PROVE  x \in {"trigger", "paused", "active"}
  <2>1. shown[row] \in {"absent", "active", "paused"}
    BY <1>1, <1>5, RowTables
  <2> QED BY <1>5, <2>1 DEF ScheduleButtons
<1>6. \A x \in CreateButton(row) : x = "create"
  BY DEF CreateButton
<1>7. CASE page = "schedules"
  <2>1. move \in ScheduleButtons(row) \cup CreateButton(row) /\ row \in Schedules
    BY <1>1, <1>7, PageRows DEF Offered, Schedules
  <2> QED BY <1>5, <1>6, <1>7, <2>1, RowTables
<1>8. CASE page = "panel"
  <2>1. move \in PanelButtons(row) \cup CreateButton(row) /\ row \in Schedules
    BY <1>1, <1>8, PageRows DEF Offered, Schedules
  <2>2. \A x \in PanelButtons(row) : active # row /\ x \in ScheduleButtons(row) \cup {"deleted"}
    BY DEF PanelButtons
  <2> QED BY <1>5, <1>6, <1>8, <2>1, <2>2, RowTables
<1> QED BY <1>1, <1>2, <1>3, <1>4, <1>7, <1>8, PageRows

(* A button is pressed. *)
LEMMA PressKeeps ==
  ASSUME ConsoleInv, NEW row \in Rows[page], NEW move \in Offered(row), Press(row, move)
  PROVE  ConsoleInv'
<1> DEFINE request == Act(row, move, None)
<1>1. /\ page \notin {"ops", "layout"} /\ move \in Asked(row)
      /\ page # "home" /\ page # "inbox" => row \in Schedules
      /\ move = "create" => page \in {"schedules", "panel"}
      /\ page = "panel" /\ move # "create" => active # row
  BY OfferedFacts DEF ConsoleInv
<1>2. /\ UNCHANGED <<page, server, shown, told, changes, faults, timer, selected, selectedRun>>
      /\ Send(request)
      /\ loading' = IF move = "create" THEN loading \cup {"saving"} ELSE loading
      /\ active' = IF page = "panel" /\ move # "create" THEN row ELSE active
  BY DEF Press, Kept
<1>3. /\ RowsOK' /\ RequestsOK' /\ DecisionsAreTrue' /\ CleanList' /\ CleanConsole'
      /\ clean' \in BOOLEAN
      /\ \E n \in Slots : requests'[n] = request
      /\ \A n \in Slots : requests[n] # Free => requests'[n] = requests[n]
  <2>1. \E x \in Rows[page] : \E m \in Asked(x) : request = Act(x, m, None)
    BY <1>1
  <2>2. page # "ops" /\ UNCHANGED <<page, server, shown, told>>
    BY <1>1, <1>2
  <2> QED BY <1>2, <2>1, <2>2, ListSend DEF ConsoleInv
<1>4. ControlsOK'
  <2>1. acts' \in 0..(MaxActs + MaxSteps)
    BY ActsBound DEF Press, ConsoleInv
  <2>2. page # "ops" /\ (page = "panel" => row \in Schedules)
    BY <1>1
  <2>3. "saving" \notin Rows[page]
    BY <1>1, PageRows DEF ConsoleInv, RowsOK
  <2> QED BY <1>2, <1>3, <2>1, <2>2, <2>3 DEF ConsoleInv, ControlsOK
<1>5. EndedBy'
  <2>1. request.do = "act" /\ DOMAIN request.body = {row} /\ request.move = move
    BY <1>1, NewAct DEF ConsoleInv, RowsOK
  <2>2. /\ \A what \in loading : \E n \in Slots : Ends(requests'[n], what)
        /\ active # None => \E n \in Slots : EndsAction(requests'[n], active)
    BY <1>3, StillEnded DEF ConsoleInv
  <2>3. move = "create" => \E n \in Slots : Ends(requests'[n], "saving")
    BY <1>3, <2>1 DEF Ends
  <2>4. move # "create" => \E n \in Slots : EndsAction(requests'[n], row)
    BY <1>3, <2>1 DEF EndsAction
  <2> QED BY <1>2, <2>2, <2>3, <2>4 DEF EndedBy
<1> QED BY <1>3, <1>4, <1>5 DEF ConsoleInv

-----------------------------------------------------------------------------
(* The console. *)

(* What the console's rows may be. *)
LEMMA ConsoleRows ==
  ASSUME RowsOK, page = "ops"
  PROVE  /\ Rows[page] = Panels \cup {"runs"} /\ page \in Pages
         /\ \A row \in Rows[page] : Seen(row) = Sessions \cup {None}
         /\ \A row \in Rows[page] : shown[row] \in Sessions \cup {None}
         /\ \A row \in Rows[page] : told[row] = None
         /\ DOMAIN shown = Rows[page] /\ Lost \notin Sessions \cup {None}
<1>1. Rows[page] = Panels \cup {"runs"} /\ page \in Pages
  BY PageRows DEF Panels
<1>2. \A row \in Rows[page] : Seen(row) = Sessions \cup {None}
  BY <1>1, RowTables
<1>3. /\ \A row \in Rows[page] : shown[row] \in Sessions \cup {None}
      /\ \A row \in Rows[page] : told[row] = None
      /\ DOMAIN shown = Rows[page]
  BY <1>2 DEF RowsOK
<1> QED BY <1>1, <1>2, <1>3, Bounds DEF None, Lost

(* A step of the console that leaves the tables alone keeps what is said of rows if it
   shows what a panel may have. *)
LEMMA ConsoleRowsKept ==
  ASSUME RowsOK, page = "ops", UNCHANGED <<page, server, told>>,
         shown' \in [Rows[page] -> Sessions \cup {None}]
  PROVE  RowsOK' /\ DecisionsAreTrue' /\ CleanList'
<1>1. /\ Rows[page] = Panels \cup {"runs"} /\ page \in Pages
      /\ \A row \in Rows[page] : Seen(row) = Sessions \cup {None}
      /\ \A row \in Rows[page] : told[row] = None
  BY ConsoleRows
<1>2. Sessions \cup {None} \subseteq States
  BY DEF States
<1>3. shown' \in [Rows[page] -> States] /\ \A row \in Rows[page] : shown'[row] \in Seen(row)
  BY <1>1, <1>2
<1>4. RowsOK'
  BY <1>3 DEF RowsOK
<1>5. DecisionsAreTrue'
  BY <1>1 DEF DecisionsAreTrue
<1>6. CleanList'
  BY DEF CleanList
<1> QED BY <1>4, <1>5, <1>6

(* Another session is selected. *)
LEMMA SelectSessionKeeps ==
  ASSUME ConsoleInv, NEW s \in Sessions, SelectSession(s)
  PROVE  ConsoleInv'
<1> DEFINE request == Load({"runs"}, FALSE, s)
<1>1. /\ page = "ops" /\ Send(request) /\ selected' = s /\ selectedRun' = None
      /\ shown' = [shown EXCEPT !["inspector"] = None, !["runs"] = None]
      /\ loading' = loading \cup {"runs"}
      /\ UNCHANGED <<page, server, timer, active, told, changes, faults>>
  BY DEF SelectSession
<1>2. /\ Rows[page] = Panels \cup {"runs"} /\ page \in Pages
      /\ \A row \in Rows[page] : shown[row] \in Sessions \cup {None}
      /\ DOMAIN shown = Rows[page]
  BY <1>1, ConsoleRows DEF ConsoleInv
<1>3. /\ LoadOK(request, page) /\ request.do = "load" /\ request.todo = {"runs"}
      /\ DOMAIN request.body = {"runs"} /\ request.key = s
  <2>1. "runs" \in Rows[page] /\ s \in Sessions \cup {None}
    BY <1>2
  <2> QED BY <1>1, <2>1, NewPanelLoad
<1>4. RequestsOK' /\ clean' \in BOOLEAN
  BY <1>1, <1>3, SendStep DEF ConsoleInv
<1>5. PICK n \in Slots : /\ requests[n] = Free /\ requests'[n] = request /\ request # Free
                         /\ \A m \in Slots \ {n} : requests'[m] = requests[m]
                         /\ clean' => \A m \in Slots \ {n} : requests'[m] = Free
  BY <1>1, <1>3, SendStep DEF ConsoleInv
<1>6. RowsOK' /\ DecisionsAreTrue' /\ CleanList'
  <2>1. shown' \in [Rows[page] -> Sessions \cup {None}]
    BY <1>1, <1>2 DEF ConsoleInv, RowsOK
  <2> QED BY <1>1, <2>1, ConsoleRowsKept DEF ConsoleInv
<1>7. ControlsOK'
  <2>1. acts' \in 0..(MaxActs + MaxSteps)
    BY ActsBound DEF SelectSession, ConsoleInv
  <2>2. "runs" \in Rows[page] /\ "runs" \notin {"list", "saving", "workspace"}
    BY <1>2
  <2> QED BY <1>1, <1>4, <2>1, <2>2 DEF ConsoleInv, ControlsOK
<1>8. EndedBy'
  <2>1. /\ \A what \in loading : \E m \in Slots : Ends(requests'[m], what)
        /\ active # None => \E m \in Slots : EndsAction(requests'[m], active)
    BY <1>5, StillEnded DEF ConsoleInv
  <2>2. Ends(requests'[n], "runs")
    BY <1>3, <1>5 DEF Ends
  <2> QED BY <1>1, <2>1, <2>2 DEF EndedBy
<1>9. CleanConsole'
  <2>1. shown'["runs"] = None
    BY <1>1, <1>2
  <2>2. OfSelected(request)'
    BY <1>1, <1>3 DEF OfSelected
  <2>3. ASSUME clean', NEW m \in Slots, requests'[m] # Free
        PROVE  OfSelected(requests[m])'
    BY <1>5, <2>2, <2>3 DEF OfSelected
  <2> QED BY <1>1, <2>1, <2>3 DEF CleanConsole
<1> QED BY <1>4, <1>6, <1>7, <1>8, <1>9 DEF ConsoleInv

(* One set of slots is enough for one request per panel. *)
LEMMA SlotsForPanels ==
  ASSUME NEW unused \in SUBSET Slots, Cardinality(unused) >= Cardinality(Panels)
  PROVE  \E of \in [Panels -> unused] : \A p, q \in Panels : of[p] = of[q] => p = q
<1>1. IsFiniteSet(unused)
  <2>1. 1 \in Int /\ MaxOpen \in Int
    BY Bounds
  <2>2. IsFiniteSet(Slots)
    BY <2>1, FS_Interval DEF Slots
  <2> QED BY <2>2, FS_Subset
<1>2. IsFiniteSet(Panels)
  <2>1. IsFiniteSet({"inspector"} \cup {"memory"})
    BY FS_Singleton, FS_AddElement
  <2>2. IsFiniteSet(({"inspector"} \cup {"memory"}) \cup {"approvals"})
    BY <2>1, FS_AddElement
  <2>3. IsFiniteSet((({"inspector"} \cup {"memory"}) \cup {"approvals"}) \cup {"sandbox"})
    BY <2>2, FS_AddElement
  <2>4. IsFiniteSet(((({"inspector"} \cup {"memory"}) \cup {"approvals"}) \cup {"sandbox"})
                    \cup {"workspace"})
    BY <2>3, FS_AddElement
  <2>5. Panels = ((({"inspector"} \cup {"memory"}) \cup {"approvals"}) \cup {"sandbox"})
                 \cup {"workspace"}
    BY DEF Panels
  <2> QED BY <2>4, <2>5
<1>3. /\ Cardinality(unused) \in Nat /\ Cardinality(Panels) \in Nat
      /\ ExistsBijection(1..Cardinality(unused), unused)
      /\ ExistsBijection(1..Cardinality(Panels), Panels)
  BY <1>1, <1>2, FS_CardinalityType
<1>4. PICK f \in Bijection(1..Cardinality(unused), unused) : TRUE
  BY <1>3 DEF ExistsBijection
<1>5. PICK g \in Bijection(1..Cardinality(Panels), Panels) : TRUE
  BY <1>3 DEF ExistsBijection
<1>6. /\ f \in [1..Cardinality(unused) -> unused]
      /\ \A i, j \in 1..Cardinality(unused) : f[i] = f[j] => i = j
  BY <1>4 DEF Bijection, Injection, Surjection, IsInjective
<1>7. /\ g \in [1..Cardinality(Panels) -> Panels]
      /\ \A p \in Panels : \E i \in 1..Cardinality(Panels) : g[i] = p
  BY <1>5 DEF Bijection, Injection, Surjection
<1> DEFINE at == [p \in Panels |-> CHOOSE i \in 1..Cardinality(Panels) : g[i] = p]
           of == [p \in Panels |-> f[at[p]]]
<1>8. \A p \in Panels : at[p] \in 1..Cardinality(Panels) /\ g[at[p]] = p
  BY <1>7
<1>9. \A p \in Panels : at[p] \in 1..Cardinality(unused)
  BY <1>3, <1>8
<1>10. of \in [Panels -> unused] /\ \A p, q \in Panels : of[p] = of[q] => p = q
  BY <1>6, <1>8, <1>9
<1> QED BY <1>10

(* A run is selected: one request per panel, in slots that were free. *)
LEMMA SelectRunSends ==
  ASSUME RowsOK, RequestsOK, ControlsOK, SelectRun
  PROVE  /\ DOMAIN requests' = Slots
         /\ \A p \in Panels : \E n \in Slots :
              requests[n] = Free /\ requests'[n] = Load({p}, FALSE, selected)
         /\ \A n \in Slots : \/ requests'[n] = requests[n]
                             \/ /\ requests[n] = Free
                                /\ \E p \in Panels : requests'[n] = Load({p}, FALSE, selected)
<1> DEFINE unused == {n \in Slots : requests[n] = Free}
           Chosen == CHOOSE of \in [Panels -> unused] : \A p, q \in Panels : of[p] = of[q] => p = q
<1>1. Cardinality(unused) >= Cardinality(Panels)
  BY DEF SelectRun
<1>2. requests' = [n \in Slots |->
                     IF \E p \in Panels : Chosen[p] = n
                       THEN Load({p \in Panels : Chosen[p] = n}, FALSE, selected)
                       ELSE requests[n]]
  BY DEF SelectRun
<1>3. \E of \in [Panels -> unused] : \A p, q \in Panels : of[p] = of[q] => p = q
  BY <1>1, SlotsForPanels
<1>4. /\ Chosen \in [Panels -> unused]
      /\ \A p, q \in Panels : Chosen[p] = Chosen[q] => p = q
  BY <1>3
<1> HIDE DEF Chosen
<1>5. \A p \in Panels : {q \in Panels : Chosen[q] = Chosen[p]} = {p}
  BY <1>4
<1>6. ASSUME NEW p \in Panels
      PROVE  /\ Chosen[p] \in Slots /\ requests[Chosen[p]] = Free
             /\ requests'[Chosen[p]] = Load({p}, FALSE, selected)
  <2>1. Chosen[p] \in Slots /\ requests[Chosen[p]] = Free
    BY <1>4
  <2>2. requests'[Chosen[p]] = Load({q \in Panels : Chosen[q] = Chosen[p]}, FALSE, selected)
    BY <1>2, <2>1
  <2> QED BY <1>5, <2>1, <2>2
<1>7. ASSUME NEW n \in Slots, requests'[n] # requests[n]
      PROVE  requests[n] = Free /\ \E p \in Panels : requests'[n] = Load({p}, FALSE, selected)
  <2>1. PICK p \in Panels : Chosen[p] = n
    BY <1>2, <1>7
  <2> QED BY <1>6, <2>1
<1>8. DOMAIN requests' = Slots
  BY <1>2
<1>9. \A p \in Panels : \E n \in Slots :
        requests[n] = Free /\ requests'[n] = Load({p}, FALSE, selected)
  BY <1>6
<1> QED BY <1>7, <1>8, <1>9

(* Selecting a run keeps the invariant: every panel is loading, and its request is of it. *)
LEMMA SelectRunKeeps ==
  ASSUME ConsoleInv, SelectRun
  PROVE  ConsoleInv'
<1>1. /\ page = "ops" /\ shown["runs"] # None /\ clean' = (AllFree /\ clean)
      /\ selectedRun' = shown["runs"] /\ shown' = [shown EXCEPT !["inspector"] = None]
      /\ loading' = loading \cup (Panels \ {"workspace"})
      /\ UNCHANGED <<page, server, timer, active, told, selected, changes, faults>>
  BY DEF SelectRun
<1>2. /\ Rows[page] = Panels \cup {"runs"} /\ page \in Pages
      /\ \A row \in Rows[page] : shown[row] \in Sessions \cup {None}
      /\ DOMAIN shown = Rows[page]
  BY <1>1, ConsoleRows DEF ConsoleInv
<1>3. /\ DOMAIN requests' = Slots
      /\ \A p \in Panels : \E n \in Slots :
           requests[n] = Free /\ requests'[n] = Load({p}, FALSE, selected)
      /\ \A n \in Slots : \/ requests'[n] = requests[n]
                          \/ /\ requests[n] = Free
                             /\ \E p \in Panels : requests'[n] = Load({p}, FALSE, selected)
  BY SelectRunSends DEF ConsoleInv
<1>4. selected \in Sessions \cup {None}
  BY DEF ConsoleInv, ControlsOK
<1>5. \A p \in Panels :
        /\ LoadOK(Load({p}, FALSE, selected), page) /\ Load({p}, FALSE, selected).do = "load"
        /\ Load({p}, FALSE, selected).todo = {p} /\ DOMAIN Load({p}, FALSE, selected).body = {p}
        /\ Load({p}, FALSE, selected).key = selected
  <2>1. ASSUME NEW p \in Panels
        PROVE  /\ LoadOK(Load({p}, FALSE, selected), page) /\ Load({p}, FALSE, selected).do = "load"
               /\ Load({p}, FALSE, selected).todo = {p}
               /\ DOMAIN Load({p}, FALSE, selected).body = {p}
               /\ Load({p}, FALSE, selected).key = selected
    <3>1. p \in Rows[page]
      BY <1>2
    <3> QED BY <1>1, <1>4, <3>1, NewPanelLoad
  <2> QED BY <2>1
<1>6. RequestsOK'
  <2>1. \A n \in Slots : \/ requests'[n] \in {requests[n], Free}
                         \/ LoadOK(requests'[n], page) \/ ActOK(requests'[n], page, server')
    BY <1>3, <1>5
  <2>2. Settles
    BY <1>1, NothingWritten DEF ConsoleInv
  <2> QED BY <1>1, <1>3, <2>1, <2>2, RequestsKept DEF ConsoleInv
<1>7. RowsOK' /\ DecisionsAreTrue' /\ CleanList'
  <2>1. shown' \in [Rows[page] -> Sessions \cup {None}]
    BY <1>1, <1>2 DEF ConsoleInv, RowsOK
  <2> QED BY <1>1, <2>1, ConsoleRowsKept DEF ConsoleInv
<1>8. ControlsOK'
  <2>1. acts' \in 0..(MaxActs + MaxSteps)
    BY ActsBound DEF SelectRun, ConsoleInv
  <2>2. clean' \in BOOLEAN
    BY <1>1 DEF AllFree
  <2>3. shown["runs"] \in Sessions
    BY <1>1, <1>2
  <2>4. Panels \cap {"list", "saving"} = {}
    BY DEF Panels
  <2> QED BY <1>1, <1>2, <2>1, <2>2, <2>3, <2>4 DEF ConsoleInv, ControlsOK
<1>9. \A p \in Panels : \E n \in Slots : Ends(requests'[n], p)
  <2>1. ASSUME NEW p \in Panels
        PROVE  \E n \in Slots : Ends(requests'[n], p)
    <3>1. PICK n \in Slots : requests'[n] = Load({p}, FALSE, selected)
      BY <1>3
    <3>2. requests'[n].do = "load" /\ p \in DOMAIN requests'[n].body
      BY <1>5, <3>1
    <3>3. p \notin {"list", "saving"}
      BY DEF Panels
    <3> QED BY <3>2, <3>3 DEF Ends
  <2> QED BY <2>1
<1>10. EndedBy'
  <2>1. /\ \A what \in loading : \E n \in Slots : Ends(requests'[n], what)
        /\ active # None => \E n \in Slots : EndsAction(requests'[n], active)
    BY <1>3, StillEnded DEF ConsoleInv
  <2> QED BY <1>1, <1>9, <2>1 DEF EndedBy
<1>11. CleanConsole'
  <2>1. ASSUME clean'
        PROVE  /\ AllFree /\ shown["runs"] = selected /\ shown'["runs"] = selected
               /\ selectedRun' = selected
    <3>1. clean /\ AllFree
      BY <1>1, <2>1
    <3>2. shown["runs"] = selected
      BY <1>1, <3>1 DEF ConsoleInv, CleanConsole
    <3> QED BY <1>1, <1>2, <3>1, <3>2
  <2>2. ASSUME clean', NEW n \in Slots, requests'[n] # Free
        PROVE  OfSelected(requests[n])'
    <3>1. PICK p \in Panels : requests'[n] = Load({p}, FALSE, selected)
      BY <1>3, <2>1, <2>2 DEF AllFree
    <3> QED BY <1>1, <1>5, <2>1, <2>2, <3>1 DEF OfSelected
  <2> QED BY <1>1, <1>9, <2>1, <2>2 DEF CleanConsole
<1> QED BY <1>6, <1>7, <1>8, <1>10, <1>11 DEF ConsoleInv

(* A decision is taken in the console. *)
LEMMA DecideKeeps ==
  ASSUME ConsoleInv, NEW p \in Rows[page], Decide(p)
  PROVE  ConsoleInv'
<1> DEFINE request == Act(p, "decide", selected)
<1>1. /\ page = "ops" /\ p \in {"memory", "approvals"} /\ Send(request)
      /\ UNCHANGED <<page, server, shown, told, changes, faults, timer, loading, active,
                     selected, selectedRun>>
  BY DEF Decide, Kept
<1>2. page \in Pages /\ selected \in Sessions \cup {None} /\ "decide" \in Asked(p)
  BY <1>1, RowTables DEF ConsoleInv, RowsOK, ControlsOK
<1>3. /\ ActOK(request, page, server) /\ request.do = "act" /\ request.key = selected
  BY <1>2, NewAct DEF ActOK
<1>4. /\ RequestsOK' /\ clean' \in BOOLEAN
      /\ clean' => AllFree /\ (clean \/ request.do = "load")
  BY <1>1, <1>3, SendStep DEF ConsoleInv
<1>5. PICK n \in Slots : /\ requests[n] = Free /\ requests'[n] = request /\ request # Free
                         /\ \A m \in Slots \ {n} : requests'[m] = requests[m]
                         /\ clean' => \A m \in Slots \ {n} : requests'[m] = Free
  BY <1>1, <1>3, SendStep DEF ConsoleInv
<1>6. RowsOK' /\ DecisionsAreTrue' /\ CleanList'
  BY <1>1 DEF ConsoleInv, RowsOK, DecisionsAreTrue, CleanList
<1>7. ControlsOK'
  <2>1. acts' \in 0..(MaxActs + MaxSteps)
    BY ActsBound DEF Decide, ConsoleInv
  <2> QED BY <1>1, <1>4, <2>1 DEF ConsoleInv, ControlsOK
<1>8. EndedBy'
  <2>1. /\ \A what \in loading : \E m \in Slots : Ends(requests'[m], what)
        /\ active # None => \E m \in Slots : EndsAction(requests'[m], active)
    BY <1>5, StillEnded DEF ConsoleInv
  <2> QED BY <1>1, <2>1 DEF EndedBy
<1>9. CleanConsole'
  <2>1. ASSUME clean'
        PROVE  clean /\ AllFree
    <3>1. request.do # "load"
      BY <1>3
    <3> QED BY <1>4, <2>1, <3>1
  <2>2. ASSUME clean', NEW m \in Slots, requests'[m] # Free
        PROVE  OfSelected(requests[m])'
    <3>1. m = n
      BY <1>5, <2>2
    <3>2. requests'[m].do = "act" /\ requests'[m].key = selected'
      BY <1>1, <1>3, <1>5, <3>1
    <3> QED BY <3>2 DEF OfSelected
  <2>3. ASSUME clean', selectedRun' # None, NEW x \in Panels
        PROVE  shown'[x] = selected'
    <3>1. \A m \in Slots : ~Ends(requests[m], x)
      BY <2>1, <2>3, RequestsAreNotFree DEF Ends, AllFree, Panels
    <3> QED BY <1>1, <2>1, <2>3, <3>1 DEF ConsoleInv, CleanConsole
  <2>4. clean' => shown'["runs"] \in {None, selected'} /\ selectedRun' \in {None, selected'}
    BY <1>1, <2>1 DEF ConsoleInv, CleanConsole
  <2> QED BY <2>2, <2>3, <2>4 DEF CleanConsole
<1> QED BY <1>4, <1>6, <1>7, <1>8, <1>9 DEF ConsoleInv

-----------------------------------------------------------------------------
(* What the server does. *)

(* What a table says of a row can be shown. *)
LEMMA FetchedFits ==
  ASSUME RowsOK, NEW r, r.key \in Sessions \cup {None}, NEW p \in Rows[page]
  PROVE  Fetched(r, p) \in Seen(p) \cup {Lost}
<1>1. CASE page = "ops"
  <2>1. Seen(p) = Sessions \cup {None}
    BY <1>1, ConsoleRows
  <2> QED BY <1>1, <2>1 DEF Fetched
<1>2. CASE page # "ops"
  <2>1. page \in Pages /\ server[p] \in Held(p)
    BY DEF RowsOK
  <2> QED BY <1>2, <2>1, ListedFacts DEF Fetched
<1> QED BY <1>1, <1>2

(* A fetch is answered: what the step leaves to be said of the answer. *)
Delivers(n, p, value) ==
  /\ requests[n] # Free /\ p \in requests[n].todo /\ Answer(n, p, value)
  /\ Settles /\ Fits(requests[n], p, value)
  /\ clean' => /\ clean
               /\ requests[n].do = "load" => value = Fetched(requests[n], p) /\ UNCHANGED server
               /\ requests[n].do = "act" /\ page # "ops" =>
                    server' = IF value = Lost THEN server ELSE [server EXCEPT ![p] = value]

(* A route answers an action. *)
LEMMA RouteDelivers ==
  ASSUME RowsOK, RequestsOK, NEW n \in Slots, NEW p \in Rows[page], requests[n] # Free,
         p \in requests[n].todo, requests[n].do = "act", page # "ops",
         NEW value \in Route(p, requests[n].move),
         server' = IF value = Lost THEN server ELSE [server EXCEPT ![p] = value]
  PROVE  Settles /\ Fits(requests[n], p, value)
<1>1. PICK row \in Rows[page] : ActOn(requests[n], row, page, server)
  BY RequestKinds DEF ActOK
<1>2. p = row /\ requests[n].move \in Asked(row)
  BY <1>1 DEF ActOn
<1>3. /\ Settles
      /\ value \in Held(p) \cup {Lost}
      /\ value # Lost => /\ server'[p] = value
                         /\ p = "candidate" => value = requests[n].move
                         /\ p = "approval" => value \in {"approved", "denied"}
  BY <1>2, RouteSettles
<1> QED BY <1>3 DEF Fits

(* A fetch that is served delivers something. *)
LEMMA ServeDelivers ==
  ASSUME RowsOK, RequestsOK, NEW n \in Slots, NEW p \in Rows[page], Serve(n, p)
  PROVE  \E value : Delivers(n, p, value)
<1> DEFINE r == requests[n]
<1>1. r # Free /\ p \in r.todo /\ clean' = clean
  BY DEF Serve
<1>2. CASE r.do = "load" /\ Answer(n, p, Fetched(r, p)) /\ UNCHANGED server
  <2>1. r.key \in Sessions \cup {None}
    BY <1>1, <1>2, RequestKinds DEF LoadOK
  <2>2. Fits(r, p, Fetched(r, p))
    BY <1>2, <2>1, FetchedFits DEF Fits
  <2>3. Settles
    BY <1>2, NothingWritten
  <2>4. Delivers(n, p, Fetched(r, p))
    BY <1>1, <1>2, <2>2, <2>3 DEF Delivers
  <2> QED BY <2>4
<1>3. ASSUME r.do = "act", page = "ops", UNCHANGED server, NEW value \in {r.key, Lost},
             Answer(n, p, value)
      PROVE  Delivers(n, p, value)
  <2>1. PICK row \in Rows[page] : ActOn(r, row, page, server)
    BY <1>1, <1>3, RequestKinds DEF ActOK
  <2>2. r.key \in Sessions \cup {None}
    BY <2>1 DEF ActOn
  <2>3. Fits(r, p, value)
    BY <1>3, <2>2 DEF Fits
  <2>4. Settles
    BY <1>3, NothingWritten
  <2> QED BY <1>1, <1>3, <2>3, <2>4 DEF Delivers
<1>4. ASSUME r.do = "act", page # "ops", NEW value \in Route(p, r.move), Answer(n, p, value),
             server' = IF value = Lost THEN server ELSE [server EXCEPT ![p] = value]
      PROVE  Delivers(n, p, value)
  <2>1. Settles /\ Fits(r, p, value)
    BY <1>1, <1>4, RouteDelivers
  <2> QED BY <1>1, <1>4, <2>1 DEF Delivers
<1>5. \/ r.do = "load" /\ Answer(n, p, Fetched(r, p)) /\ UNCHANGED server
      \/ /\ r.do = "act" /\ page = "ops" /\ UNCHANGED server
         /\ \E value \in {r.key, Lost} : Answer(n, p, value)
      \/ /\ r.do = "act" /\ page # "ops"
         /\ \E value \in Route(p, r.move) :
              /\ Answer(n, p, value)
              /\ server' = IF value = Lost THEN server ELSE [server EXCEPT ![p] = value]
  BY DEF Serve
<1> QED BY <1>2, <1>3, <1>4, <1>5

(* One that fails delivers that it was lost; its route may have acted. *)
LEMMA FailDelivers ==
  ASSUME RowsOK, RequestsOK, NEW n \in Slots, NEW p \in Rows[page], Fail(n, p)
  PROVE  Delivers(n, p, Lost)
<1> DEFINE r == requests[n]
<1>1. r # Free /\ p \in r.todo /\ clean' = FALSE /\ Answer(n, p, Lost)
  BY DEF Fail
<1>2. Settles
  <2>1. CASE UNCHANGED server
    BY <2>1, NothingWritten
  <2>2. ASSUME r.do = "act", page # "ops", NEW value \in Route(p, r.move) \ {Lost},
               server' = [server EXCEPT ![p] = value]
        PROVE  Settles
    BY <1>1, <2>2, RouteDelivers
  <2>3. \/ UNCHANGED server
        \/ /\ r.do = "act" /\ page # "ops"
           /\ \E value \in Route(p, r.move) \ {Lost} : server' = [server EXCEPT ![p] = value]
    BY DEF Fail
  <2> QED BY <2>1, <2>2, <2>3
<1> QED BY <1>1, <1>2 DEF Delivers, Fits

(* Decisions that were reported are not taken back. *)
LEMMA DecisionsStay ==
  ASSUME RowsOK, DecisionsAreTrue, Settles, UNCHANGED <<page, told>>
  PROVE  DecisionsAreTrue'
<1>1. ASSUME NEW row \in Rows[page], told[row] # None
      PROVE  IF row = "candidate" THEN server'[row] = told[row]
             ELSE server'[row] \in {"approved", "denied"}
  <2>1. page = "inbox" /\ row \in {"approval", "candidate"} /\ told[row] \in Asked(row)
    BY <1>1, PageRows DEF RowsOK
  <2>2. row = "candidate" => told[row] \in {"saved", "discarded"}
    BY <2>1, RowTables
  <2> QED BY <1>1, <2>1, <2>2 DEF DecisionsAreTrue, Settles
<1> QED BY <1>1 DEF DecisionsAreTrue

(* Served or failed, an answer on its way keeps the invariant. *)
LEMMA ServedKeeps ==
  ASSUME ConsoleInv, NEW n \in Slots, NEW p \in Rows[page], Serve(n, p) \/ Fail(n, p)
  PROVE  ConsoleInv'
<1> DEFINE r == requests[n]
           q == requests'[n]
<1>1. PICK value : Delivers(n, p, value)
  BY ServeDelivers, FailDelivers DEF ConsoleInv
<1>2. /\ UNCHANGED <<page, shown, timer, loading, active, told>>
      /\ UNCHANGED <<selected, selectedRun, acts, changes>>
      /\ clean' \in {clean, FALSE} /\ faults' \in 0..MaxFaults
  <2>1. CASE Serve(n, p)
    BY <2>1 DEF Serve, Served, ConsoleInv, ControlsOK
  <2>2. CASE Fail(n, p)
    <3>1. faults \in 0..MaxFaults /\ faults < MaxFaults /\ faults' = faults + 1
      BY <2>2 DEF Fail, ConsoleInv, ControlsOK
    <3>2. faults' \in 0..MaxFaults
      BY <3>1, Bounds
    <3> QED BY <2>2, <3>2 DEF Fail, Served
  <2> QED BY <2>1, <2>2
<1>3. /\ r # Free /\ p \in r.todo /\ Answer(n, p, value) /\ Settles /\ Fits(r, p, value)
  BY <1>1 DEF Delivers
<1>4. /\ RequestsOK' /\ q.do = r.do /\ q.todo = r.todo \ {p} /\ q.key = r.key
      /\ DOMAIN q.body = DOMAIN r.body /\ p \in DOMAIN r.body
      /\ q.do = "act" => q.move = r.move /\ DOMAIN r.body = {p}
      /\ q.body[p] = value /\ \A x \in DOMAIN r.body \ {p} : q.body[x] = r.body[x]
      /\ q # Free /\ \A m \in Slots \ {n} : requests'[m] = requests[m]
      /\ r.do \in {"load", "act"}
  BY <1>2, <1>3, AnswerKeeps DEF ConsoleInv
<1>5. RowsOK'
  BY <1>2, <1>3 DEF ConsoleInv, RowsOK, Settles
<1>6. ControlsOK'
  BY <1>2 DEF ConsoleInv, ControlsOK
<1>7. /\ \A m \in Slots : \A what : Ends(requests[m], what) => Ends(requests'[m], what)
      /\ \A m \in Slots : \A row :
           EndsAction(requests[m], row) => EndsAction(requests'[m], row)
  BY <1>4 DEF Ends, EndsAction
<1>8. EndedBy'
  BY <1>2, <1>7 DEF ConsoleInv, EndedBy
<1>9. DecisionsAreTrue'
  BY <1>2, <1>3, DecisionsStay DEF ConsoleInv
<1>10. clean' => /\ clean
                 /\ r.do = "load" => value = Fetched(r, p) /\ UNCHANGED server
                 /\ r.do = "act" /\ page # "ops" =>
                      server' = IF value = Lost THEN server ELSE [server EXCEPT ![p] = value]
  BY <1>1 DEF Delivers
<1>11. ASSUME clean', page # "ops"
       PROVE  /\ \A m \in Slots : requests'[m] # Free => m = n
              /\ Brings(requests[n])'
  <2>1. clean /\ \A m \in Slots : requests[m] # Free => m = n
    BY <1>3, <1>10, <1>11 DEF ConsoleInv, CleanList
  <2>2. Brings(r)
    BY <1>3, <1>11, <2>1 DEF ConsoleInv, CleanList
  <2>3. CASE r.do = "load"
    <3>1. /\ \A x \in Rows[page] \ r.todo : r.body[x] = Listed(server[x])
          /\ value = Listed(server[p]) /\ server' = server /\ DOMAIN r.body = Rows[page]
      BY <1>3, <1>10, <1>11, <2>2, <2>3, RequestKinds DEF Brings, Fetched, ConsoleInv, LoadOK
    <3>2. \A x \in Rows[page] \ q.todo : q.body[x] = Listed(server'[x])
      BY <1>4, <3>1
    <3> QED BY <1>2, <1>4, <2>1, <2>3, <3>2 DEF Brings
  <2>4. CASE r.do = "act"
    <3>1. \A x \in Rows[page] :
            IF x \in DOMAIN r.body /\ r.body[x] # Lost THEN server[x] = r.body[x] ELSE Agrees(x)
      BY <2>2, <2>4 DEF Brings
    <3>2. PICK row \in Rows[page] : ActOn(r, row, page, server)
      BY <1>3, <2>4, RequestKinds DEF ConsoleInv, ActOK
    <3>3. r.body[p] = Lost
      BY <1>3, <3>2 DEF ActOn
    <3>4. server' = IF value = Lost THEN server ELSE [server EXCEPT ![p] = value]
      BY <1>10, <1>11, <2>4
    <3>5. /\ \A x \in Rows[page] \ {p} : server'[x] = server[x]
          /\ IF value = Lost THEN server'[p] = server[p] ELSE server'[p] = value
      BY <3>4 DEF ConsoleInv, RowsOK
    <3>6. ASSUME NEW x \in Rows[page]
          PROVE  IF x \in DOMAIN q.body /\ q.body[x] # Lost THEN server'[x] = q.body[x]
                 ELSE Agrees(x)'
      <4>1. CASE x = p /\ value # Lost
        BY <1>4, <3>5, <4>1
      <4>2. CASE x # p \/ value = Lost
        <5>1. Agrees(x) /\ server'[x] = server[x]
          BY <1>4, <2>4, <3>1, <3>3, <3>5, <4>2
        <5>2. ~(x \in DOMAIN q.body /\ q.body[x] # Lost)
          BY <1>4, <2>4, <4>2
        <5> QED BY <1>2, <5>1, <5>2 DEF Agrees
      <4> QED BY <4>1, <4>2
    <3> QED BY <1>2, <1>4, <2>1, <2>4, <3>6 DEF Brings
  <2> QED BY <1>4, <2>3, <2>4
<1>12. CleanList'
  <2>1. ~AllFree'
    BY <1>4 DEF AllFree
  <2>2. ASSUME clean', page # "ops", NEW m \in Slots, requests'[m] # Free
        PROVE  Brings(requests[m])'
    BY <1>11, <2>2
  <2> QED BY <1>2, <1>11, <2>1, <2>2 DEF CleanList
<1>13. CleanConsole'
  <2>1. ASSUME clean', page = "ops"
        PROVE  /\ clean /\ OfSelected(r)
               /\ \A m \in Slots : requests[m] # Free => OfSelected(requests[m])
    BY <1>3, <1>10, <2>1 DEF ConsoleInv, CleanConsole
  <2>2. ASSUME clean', page = "ops"
        PROVE  OfSelected(requests[n])'
    <3>1. r.key = selected
      BY <2>1, <2>2 DEF OfSelected
    <3>2. r.do = "load" =>
            /\ value = selected
            /\ \A x \in DOMAIN r.body \ r.todo : r.body[x] = selected
            /\ "inspector" \in DOMAIN r.body => selectedRun = selected
      BY <1>4, <1>10, <2>1, <2>2, <3>1 DEF OfSelected, Fetched
    <3>3. q.do = "load" =>
            /\ \A x \in DOMAIN q.body \ q.todo : q.body[x] = selected
            /\ "inspector" \in DOMAIN q.body => selectedRun = selected
      BY <1>4, <3>2
    <3> QED BY <1>2, <1>4, <3>1, <3>3 DEF OfSelected
  <2>3. ASSUME clean', page = "ops", NEW m \in Slots, requests'[m] # Free
        PROVE  OfSelected(requests[m])'
    <3>1. CASE m = n
      BY <2>2, <2>3, <3>1
    <3>2. CASE m # n
      <4>1. requests'[m] = requests[m] /\ OfSelected(requests[m])
        BY <1>4, <2>1, <2>3, <3>2
      <4> QED BY <1>2, <4>1 DEF OfSelected
    <3> QED BY <3>1, <3>2
  <2> QED BY <1>2, <1>7, <2>1, <2>3 DEF ConsoleInv, CleanConsole
<1> QED BY <1>4, <1>5, <1>6, <1>8, <1>9, <1>12, <1>13 DEF ConsoleInv

(* A row is changed elsewhere. *)
LEMMA ElsewhereKeeps ==
  ASSUME ConsoleInv, NEW row \in Rows[page], Elsewhere(row)
  PROVE  ConsoleInv'
<1>1. PICK move \in Moves(row) : move[1] = server[row] /\ server' = [server EXCEPT ![row] = move[2]]
  BY DEF Elsewhere
<1>2. /\ page # "ops" /\ changes < MaxChanges /\ changes' = changes + 1 /\ clean' = FALSE
      /\ UNCHANGED <<page, shown, requests, timer, loading, active, told, selected,
                     selectedRun, acts, faults>>
  BY DEF Elsewhere
<1>3. Settles
  <2>1. /\ move[2] \in Held(row)
        /\ row = "candidate" => server[row] \in {"absent", "pending"}
        /\ row = "approval" => server[row] \in {"absent", "pending"}
    BY <1>1, <1>2, MoveFacts DEF ConsoleInv, RowsOK
  <2> QED BY <1>1, <2>1, RowWritten DEF ConsoleInv
<1>4. RowsOK'
  BY <1>2, <1>3 DEF ConsoleInv, RowsOK, Settles
<1>5. RequestsOK'
  <2>1. DOMAIN requests' = Slots /\ \A n \in Slots : requests'[n] \in {requests[n], Free}
    BY <1>2 DEF ConsoleInv, RequestsOK
  <2> QED BY <1>2, <1>3, <2>1, RequestsKept DEF ConsoleInv
<1>6. ControlsOK'
  <2>1. changes' \in 0..MaxChanges
    BY <1>2, Bounds DEF ConsoleInv, ControlsOK
  <2> QED BY <1>2, <2>1 DEF ConsoleInv, ControlsOK
<1>7. EndedBy'
  BY <1>2 DEF ConsoleInv, EndedBy
<1>8. DecisionsAreTrue'
  BY <1>2, <1>3, DecisionsStay DEF ConsoleInv
<1>9. CleanList' /\ CleanConsole'
  BY <1>2 DEF CleanList, CleanConsole
<1> QED BY <1>4, <1>5, <1>6, <1>7, <1>8, <1>9 DEF ConsoleInv

-----------------------------------------------------------------------------
(* What a page does with the answer of a load. *)

(* A load shows what it brought, and takes its own flag away. *)
LEMMA LoadResult ==
  ASSUME RowsOK, ControlsOK, NEW r, LoadOK(r, page), NEW p \in DOMAIN r.body
  PROVE  /\ (IF page = "ops" THEN PanelLoaded(r, p) ELSE ListLoaded(r)).shown = Applied(r.body)
         /\ (IF page = "ops" THEN PanelLoaded(r, p) ELSE ListLoaded(r)).loading =
              loading \ {IF page = "ops" THEN p ELSE "list"}
<1>1. CASE page # "ops"
  BY <1>1 DEF ListLoaded, Same
<1>2. CASE page = "ops"
  <2>1. p \in {"inspector", "memory", "approvals", "sandbox", "workspace", "runs"}
    BY <1>2, PageRows DEF LoadOK
  <2>2. "workspace" \notin loading
    BY DEF ControlsOK
  <2>3. CASE p = "inspector"
    BY <1>2, <2>3 DEF PanelLoaded, InspectorLoaded, Same
  <2>4. CASE p = "memory"
    BY <1>2, <2>4 DEF PanelLoaded, MemoryLoaded, Same
  <2>5. CASE p = "approvals"
    BY <1>2, <2>5 DEF PanelLoaded, ApprovalsLoaded, Same
  <2>6. CASE p = "sandbox"
    BY <1>2, <2>6 DEF PanelLoaded, SandboxLoaded, Same
  <2>7. CASE p = "workspace"
    <3>1. PanelLoaded(r, p).shown = Applied(r.body) /\ PanelLoaded(r, p).loading = loading
      BY <2>7 DEF PanelLoaded, WorkspaceLoaded, Same
    <3> QED BY <1>2, <2>2, <2>7, <3>1
  <2>8. CASE p = "runs"
    BY <1>2, <2>8 DEF PanelLoaded, RunsLoaded, Same
  <2> QED BY <2>1, <2>3, <2>4, <2>5, <2>6, <2>7, <2>8
<1> QED BY <1>1, <1>2

(* What is shown then. *)
LEMMA AppliedFacts ==
  ASSUME RowsOK, NEW r, LoadOK(r, page)
  PROVE  /\ Applied(r.body) \in [Rows[page] -> States]
         /\ \A x \in Rows[page] : /\ Applied(r.body)[x] \in Seen(x)
                                  /\ x \notin DOMAIN r.body => Applied(r.body)[x] = shown[x]
                                  /\ x \in DOMAIN r.body /\ r.body[x] # Lost =>
                                       Applied(r.body)[x] = r.body[x]
<1>1. DOMAIN shown = Rows[page]
  BY DEF RowsOK
<1>2. ASSUME NEW x \in Rows[page]
      PROVE  /\ Applied(r.body)[x] \in Seen(x)
             /\ x \notin DOMAIN r.body => Applied(r.body)[x] = shown[x]
             /\ x \in DOMAIN r.body /\ r.body[x] # Lost => Applied(r.body)[x] = r.body[x]
  <2>1. shown[x] \in Seen(x)
    BY DEF RowsOK
  <2>2. \A y \in DOMAIN r.body : r.body[y] \in Seen(y) \cup {Lost}
    BY DEF LoadOK
  <2>3. Applied(r.body)[x] = IF x \in DOMAIN r.body /\ r.body[x] # Lost THEN r.body[x] ELSE shown[x]
    BY <1>1 DEF Applied
  <2> QED BY <2>1, <2>2, <2>3
<1>3. \A x \in Rows[page] : Applied(r.body)[x] \in States
  BY <1>2, RowsOfPages, RowStates DEF RowsOK
<1> QED BY <1>1, <1>2, <1>3 DEF Applied

(* A load that has all its answers is shown. *)
LEMMA LoadAnsweredKeeps ==
  ASSUME ConsoleInv, NEW n \in Slots, LoadAnswered(n)
  PROVE  ConsoleInv'
<1> DEFINE r == requests[n]
<1>1. /\ r # Free /\ r.do = "load" /\ r.todo = {}
      /\ timer' = (timer \/ Rearms(r)) /\ requests' = [requests EXCEPT ![n] = Free]
      /\ UNCHANGED <<page, server, active, told, selected, selectedRun, clean>>
      /\ UNCHANGED <<acts, changes, faults>>
  BY DEF LoadAnswered
<1>2. LoadOK(r, page)
  BY <1>1, RequestKinds DEF ConsoleInv
<1>3. PICK p \in DOMAIN r.body :
        /\ shown' = (IF page = "ops" THEN PanelLoaded(r, p) ELSE ListLoaded(r)).shown
        /\ loading' = (IF page = "ops" THEN PanelLoaded(r, p) ELSE ListLoaded(r)).loading
  BY DEF LoadAnswered
<1>4. /\ shown' = Applied(r.body) /\ loading' = loading \ {IF page = "ops" THEN p ELSE "list"}
  BY <1>2, <1>3, LoadResult DEF ConsoleInv
<1>5. /\ shown' \in [Rows[page] -> States]
      /\ \A x \in Rows[page] : /\ shown'[x] \in Seen(x)
                               /\ x \notin DOMAIN r.body => shown'[x] = shown[x]
                               /\ x \in DOMAIN r.body /\ r.body[x] # Lost => shown'[x] = r.body[x]
  BY <1>2, <1>4, AppliedFacts DEF ConsoleInv
<1>6. /\ DOMAIN requests' = Slots /\ requests'[n] = Free
      /\ \A m \in Slots \ {n} : requests'[m] = requests[m]
  BY <1>1 DEF ConsoleInv, RequestsOK
<1>7. RowsOK'
  BY <1>1, <1>5 DEF ConsoleInv, RowsOK
<1>8. RequestsOK'
  <2>1. Settles
    BY <1>1, NothingWritten DEF ConsoleInv
  <2> QED BY <1>1, <1>6, <2>1, RequestsKept DEF ConsoleInv
<1>9. ControlsOK'
  <2>1. timer' \in BOOLEAN
    BY <1>1 DEF Rearms
  <2>2. loading' \subseteq loading
    BY <1>4
  <2> QED BY <1>1, <2>1, <2>2 DEF ConsoleInv, ControlsOK
<1>10. EndedBy'
  <2>1. ASSUME NEW what \in loading'
        PROVE  \E m \in Slots : Ends(requests'[m], what)
    <3>1. PICK m \in Slots : Ends(requests[m], what)
      BY <1>4, <2>1 DEF ConsoleInv, EndedBy
    <3>2. /\ page # "ops" => what # "list" /\ what \notin Rows[page]
          /\ page = "ops" => what # p /\ what \notin {"list", "saving"}
      BY <1>4, <2>1 DEF ConsoleInv, ControlsOK
    <3>3. /\ page # "ops" => DOMAIN r.body = Rows[page]
          /\ page = "ops" => DOMAIN r.body = {p}
      BY <1>2 DEF LoadOK
    <3>4. m # n
      BY <1>1, <3>1, <3>2, <3>3 DEF Ends
    <3> QED BY <1>6, <3>1, <3>4
  <2>2. ASSUME active # None
        PROVE  \E m \in Slots : EndsAction(requests'[m], active)
    <3>1. PICK m \in Slots : EndsAction(requests[m], active)
      BY <2>2 DEF ConsoleInv, EndedBy
    <3>2. m # n
      BY <1>1, <3>1 DEF EndsAction
    <3> QED BY <1>6, <3>1, <3>2
  <2> QED BY <1>1, <2>1, <2>2 DEF EndedBy
<1>11. DecisionsAreTrue'
  BY <1>1 DEF ConsoleInv, DecisionsAreTrue
<1>12. CleanList'
  <2>1. ASSUME clean, page # "ops"
        PROVE  /\ \A m \in Slots : requests'[m] = Free
               /\ \A row \in Rows[page] : Agrees(row)'
    <3>1. \A m \in Slots : requests[m] # Free => m = n
      BY <1>1, <2>1 DEF ConsoleInv, CleanList
    <3>2. Brings(r)
      BY <1>1, <2>1 DEF ConsoleInv, CleanList
    <3>3. ASSUME NEW row \in Rows[page]
          PROVE  shown'[row] = Listed(server[row])
      <4>1. r.body[row] = Listed(server[row]) /\ row \in DOMAIN r.body
        BY <1>1, <1>2, <2>1, <3>2 DEF Brings, LoadOK
      <4>2. Listed(server[row]) # Lost
        BY <2>1, ListedFacts DEF ConsoleInv, RowsOK
      <4> QED BY <1>5, <4>1, <4>2
    <3> QED BY <1>1, <1>6, <3>1, <3>3 DEF Agrees
  <2> QED BY <1>1, <2>1 DEF CleanList
<1>13. CleanConsole'
  <2>1. ASSUME clean, page = "ops"
        PROVE  /\ shown["runs"] \in {None, selected} /\ selectedRun \in {None, selected}
               /\ \A m \in Slots : requests[m] # Free => OfSelected(requests[m])
               /\ selectedRun # None => \A x \in Panels :
                    shown[x] = selected \/ \E m \in Slots : Ends(requests[m], x)
    BY <2>1 DEF ConsoleInv, CleanConsole
  <2>2. ASSUME clean, page = "ops", NEW x \in Rows[page]
        PROVE  shown'[x] = IF x = p THEN selected ELSE shown[x]
    <3>1. selected \in Sessions \cup {None} /\ selected # Lost
      BY Bounds DEF ConsoleInv, ControlsOK, None, Lost
    <3>2. DOMAIN r.body = {p} /\ r.body[p] = selected
      BY <1>1, <1>2, <2>1, <2>2 DEF OfSelected, LoadOK
    <3> QED BY <1>5, <3>1, <3>2
  <2>3. ASSUME clean, page = "ops", NEW m \in Slots, requests'[m] # Free
        PROVE  OfSelected(requests[m])'
    <3>1. requests'[m] = requests[m] /\ OfSelected(requests[m])
      BY <1>6, <2>1, <2>3
    <3> QED BY <1>1, <3>1 DEF OfSelected
  <2>4. ASSUME clean, page = "ops", selectedRun # None, NEW x \in Panels
        PROVE  shown'[x] = selected \/ \E m \in Slots : Ends(requests'[m], x)
    <3>1. x \in Rows[page] /\ x \notin {"list", "saving"}
      BY <2>4, PageRows DEF Panels
    <3>2. shown[x] = selected \/ \E m \in Slots : Ends(requests[m], x)
      BY <2>1, <2>4
    <3>3. ASSUME NEW m \in Slots, Ends(requests[m], x), x # p
          PROVE  Ends(requests'[m], x)
      <4>1. m # n
        BY <1>1, <1>2, <2>4, <3>1, <3>3 DEF Ends, LoadOK
      <4> QED BY <1>6, <3>3, <4>1
    <3> QED BY <2>2, <2>4, <3>1, <3>2, <3>3
  <2>5. ASSUME clean, page = "ops"
        PROVE  shown'["runs"] \in {None, selected}
    BY <2>1, <2>2, <2>5, PageRows
  <2> QED BY <1>1, <2>1, <2>3, <2>4, <2>5 DEF CleanConsole
<1> QED BY <1>7, <1>8, <1>9, <1>10, <1>11, <1>12, <1>13 DEF ConsoleInv

-----------------------------------------------------------------------------
(* What a page does with the answer of an action. *)

(* What is left of it: if it was accepted the copy is changed or the decision told, its
   flags are taken away, and a load may follow. *)
ActedWell(r, row, result) ==
  /\ \/ result.shown = shown
     \/ /\ page # "ops" /\ r.body[row] # Lost
        /\ result.shown = [shown EXCEPT ![row] = Listed(r.body[row])]
  /\ \/ result.told = told
     \/ page = "inbox" /\ r.body[row] # Lost /\ result.told = [told EXCEPT ![row] = r.move]
  /\ page # "ops" /\ result.next = Free /\ r.body[row] # Lost =>
       \/ result.shown = [shown EXCEPT ![row] = Listed(r.body[row])]
       \/ row = "candidate" /\ result.told = [told EXCEPT ![row] = r.move]
  /\ IF r.move = "create" THEN result.loading = loading \ {"saving"}
     ELSE \/ result.loading = loading
          \/ /\ page = "ops" /\ result.loading = loading \cup {row}
             /\ result.next # Free /\ row \in {"memory", "approvals"}
  /\ result.active = IF page = "panel" /\ r.move # "create" THEN None ELSE active
  /\ result.next # Free =>
       /\ LoadOK(result.next, page) /\ result.next.do = "load"
       /\ result.next.todo = DOMAIN result.next.body
       /\ page = "ops" => /\ DOMAIN result.next.body = {row} /\ row \in {"memory", "approvals"}
                          /\ result.next.key \in {r.key, selected}

(* Each handler does that and no more. *)
LEMMA ActedIsWell ==
  ASSUME RowsOK, ControlsOK, NEW r, NEW row \in Rows[page], ActOn(r, row, page, server)
  PROVE  ActedWell(r, row, Acted(r, row))
<1>1. page \in Pages /\ selected \in Sessions \cup {None} /\ r.key \in Sessions \cup {None}
  BY DEF RowsOK, ControlsOK, ActOn
<1>2. r.move \in Asked(row)
  BY DEF ActOn
<1>3. page # "ops" => /\ LoadOK(Load(Rows[page], FALSE, None), page)
                      /\ Load(Rows[page], FALSE, None).do = "load"
                      /\ Load(Rows[page], FALSE, None).todo = Rows[page]
                      /\ DOMAIN Load(Rows[page], FALSE, None).body = Rows[page]
  <2>1. FALSE \in BOOLEAN /\ None \in Sessions \cup {None} /\ Rows[page] \in SUBSET Rows[page]
    OBVIOUS
  <2> QED BY <1>1, <2>1, NewQuietLoad, ZenonT(40)
<1>4. CASE row = "approval"
  <2>1. page = "inbox" /\ r.move \in {"approved", "denied"}
    BY <1>1, <1>2, <1>4, PageRows, RowTables
  <2>2. Acted(r, row) = ResolveApproval(r)
    BY <1>4 DEF Acted, Schedules
  <2>3. /\ Acted(r, row).shown = shown /\ Acted(r, row).loading = loading
        /\ Acted(r, row).active = active /\ Acted(r, row).next = Load(Rows[page], FALSE, None)
        /\ Acted(r, row).told =
             IF Ok(r, "approval") THEN [told EXCEPT !["approval"] = r.move] ELSE told
    BY <2>1, <2>2 DEF ResolveApproval, Same, InboxRefresh
  <2> QED BY <1>3, <1>4, <2>1, <2>3, RequestsAreNotFree DEF ActedWell, Ok
<1>5. CASE row = "candidate"
  <2>1. page = "inbox" /\ r.move \in {"saved", "discarded"}
    BY <1>1, <1>2, <1>5, PageRows, RowTables
  <2>2. Acted(r, row) = DecideCandidate(r)
    BY <1>5 DEF Acted, Schedules
  <2>3. /\ Acted(r, row).shown = shown /\ Acted(r, row).loading = loading
        /\ Acted(r, row).active = active /\ Acted(r, row).next = Free
        /\ Acted(r, row).told =
             IF Ok(r, "candidate") THEN [told EXCEPT !["candidate"] = r.move] ELSE told
    BY <2>1, <2>2 DEF DecideCandidate, Same
  <2> QED BY <1>5, <2>1, <2>3 DEF ActedWell, Ok
<1>6. CASE row = "session"
  <2>1. page = "home" /\ r.move = "second"
    BY <1>1, <1>2, <1>6, PageRows, RowTables
  <2>2. Acted(r, row) = Renamed(r)
    BY <1>6 DEF Acted, Schedules
  <2>3. /\ Acted(r, row).shown = Upserted(r, row) /\ Acted(r, row).loading = loading
        /\ Acted(r, row).active = active /\ Acted(r, row).next = Free
        /\ Acted(r, row).told = told
    BY <1>6, <2>1, <2>2 DEF Renamed, Same
  <2> QED BY <1>6, <2>1, <2>3 DEF ActedWell, Ok, Upserted
<1>7. CASE row = "memory"
  <2>1. page = "ops" /\ r.move = "decide"
    BY <1>1, <1>2, <1>7, PageRows, RowTables
  <2>2. Acted(r, row) = CandidateDecided(r)
    BY <1>7 DEF Acted, Schedules
  <2>3. CASE Ok(r, "memory")
    <3>1. /\ LoadOK(Load({row}, FALSE, r.key), page) /\ Load({row}, FALSE, r.key).do = "load"
          /\ Load({row}, FALSE, r.key).todo = {row} /\ DOMAIN Load({row}, FALSE, r.key).body = {row}
          /\ Load({row}, FALSE, r.key).key = r.key
      <4>1. page = "ops" /\ row \in Rows[page] /\ r.key \in Sessions \cup {None}
        BY <1>1, <2>1
      <4> QED BY <4>1, NewPanelLoad, ZenonT(40)
    <3>2. /\ Acted(r, row).shown = shown /\ Acted(r, row).loading = loading \cup {row}
          /\ Acted(r, row).active = active /\ Acted(r, row).next = Load({row}, FALSE, r.key)
          /\ Acted(r, row).told = told
      BY <1>7, <2>2, <2>3 DEF CandidateDecided, Same
    <3>3. Acted(r, row).next # Free
      BY <3>1, <3>2, RequestsAreNotFree
    <3> QED BY <1>7, <2>1, <3>1, <3>2, <3>3 DEF ActedWell
  <2>4. CASE ~Ok(r, "memory")
    <3>1. /\ Acted(r, row).shown = shown /\ Acted(r, row).loading = loading
          /\ Acted(r, row).active = active /\ Acted(r, row).next = Free
          /\ Acted(r, row).told = told
      BY <2>2, <2>4 DEF CandidateDecided, Same
    <3> QED BY <2>1, <3>1 DEF ActedWell
  <2> QED BY <2>3, <2>4
<1>8. CASE row = "approvals"
  <2>1. page = "ops" /\ r.move = "decide"
    BY <1>1, <1>2, <1>8, PageRows, RowTables
  <2>2. Acted(r, row) = ApprovalDecided(r)
    BY <1>8 DEF Acted, Schedules
  <2>3. CASE Ok(r, "approvals")
    <3>1. /\ LoadOK(Load({row}, FALSE, selected), page) /\ Load({row}, FALSE, selected).do = "load"
          /\ Load({row}, FALSE, selected).todo = {row}
          /\ DOMAIN Load({row}, FALSE, selected).body = {row}
          /\ Load({row}, FALSE, selected).key = selected
      <4>1. page = "ops" /\ row \in Rows[page] /\ selected \in Sessions \cup {None}
        BY <1>1, <2>1
      <4> QED BY <4>1, NewPanelLoad, ZenonT(40)
    <3>2. /\ Acted(r, row).shown = shown /\ Acted(r, row).loading = loading \cup {row}
          /\ Acted(r, row).active = active /\ Acted(r, row).next = Load({row}, FALSE, selected)
          /\ Acted(r, row).told = told
      BY <1>8, <2>2, <2>3 DEF ApprovalDecided, Same
    <3>3. Acted(r, row).next # Free
      BY <3>1, <3>2, RequestsAreNotFree
    <3> QED BY <1>8, <2>1, <3>1, <3>2, <3>3 DEF ActedWell
  <2>4. CASE ~Ok(r, "approvals")
    <3>1. /\ Acted(r, row).shown = shown /\ Acted(r, row).loading = loading
          /\ Acted(r, row).active = active /\ Acted(r, row).next = Free
          /\ Acted(r, row).told = told
      BY <2>2, <2>4 DEF ApprovalDecided, Same
    <3> QED BY <2>1, <3>1 DEF ActedWell
  <2> QED BY <2>3, <2>4
<1>9. CASE row \in Schedules
  <2>1. page \in {"schedules", "panel"}
    BY <1>1, <1>9, PageRows DEF Schedules
  <2>2. Acted(r, row) =
          CASE r.move = "create" -> ScheduleCreated(r, row)
            [] r.move # "create" /\ page = "panel" -> PanelActed(r, row)
            [] r.move # "create" /\ page # "panel" -> ScheduleChanged
    BY <1>9 DEF Acted, Schedules
  <2>3. CASE r.move = "create"
    <3>1. /\ Acted(r, row).shown = Upserted(r, row) /\ Acted(r, row).loading = loading \ {"saving"}
          /\ Acted(r, row).active = active /\ Acted(r, row).next = Free
          /\ Acted(r, row).told = told
      BY <2>2, <2>3 DEF ScheduleCreated, Same
    <3> QED BY <2>1, <2>3, <3>1 DEF ActedWell, Ok, Upserted
  <2>4. CASE r.move # "create" /\ page = "panel"
    <3>1. /\ Acted(r, row).shown = Upserted(r, row) /\ Acted(r, row).loading = loading
          /\ Acted(r, row).active = None /\ Acted(r, row).next = Free
          /\ Acted(r, row).told = told
      BY <2>2, <2>4 DEF PanelActed, Same
    <3> QED BY <2>1, <2>4, <3>1 DEF ActedWell, Ok, Upserted
  <2>5. CASE r.move # "create" /\ page # "panel"
    <3>1. /\ Acted(r, row).shown = shown /\ Acted(r, row).loading = loading
          /\ Acted(r, row).active = active /\ Acted(r, row).next = Load(Rows[page], FALSE, None)
          /\ Acted(r, row).told = told
      BY <2>2, <2>5 DEF ScheduleChanged, LoadList, Same
    <3> QED BY <1>3, <2>1, <2>5, <3>1, RequestsAreNotFree DEF ActedWell
  <2> QED BY <2>3, <2>4, <2>5
<1>10. row \in {"approval", "candidate", "session", "memory", "approvals"} \cup Schedules
  BY <1>1, <1>2, PageRows, RowTables DEF Schedules
<1> QED BY <1>4, <1>5, <1>6, <1>7, <1>8, <1>9, <1>10

(* An action that has its answer is reported. *)
LEMMA ActAnsweredKeeps ==
  ASSUME ConsoleInv, NEW n \in Slots, ActAnswered(n)
  PROVE  ConsoleInv'
<1> DEFINE r == requests[n]
           alone == \A m \in Slots \ {n} : requests[m] = Free
<1>1. /\ r # Free /\ r.do = "act" /\ r.todo = {}
      /\ UNCHANGED <<page, server, timer, selected, selectedRun, acts, changes, faults>>
  BY DEF ActAnswered
<1>2. PICK row \in Rows[page] : ActOn(r, row, page, server)
  BY <1>1, RequestKinds DEF ConsoleInv, ActOK
<1>3. DOMAIN r.body = {row} /\ r.move \in Asked(row)
  BY <1>2 DEF ActOn
<1> DEFINE result == Acted(r, row)
<1>4. /\ shown' = result.shown /\ told' = result.told
      /\ loading' = result.loading /\ active' = result.active
      /\ \/ requests' = [requests EXCEPT ![n] = result.next]
            /\ clean' = IF result.next = Free THEN clean ELSE alone /\ (clean \/ page # "ops")
         \/ /\ page = "schedules" /\ ~Ok(r, row) /\ result.next # Free
            /\ requests' = [requests EXCEPT ![n] = Free] /\ UNCHANGED clean
  BY <1>3 DEF ActAnswered
<1>5. ActedWell(r, row, result)
  BY <1>2, ActedIsWell DEF ConsoleInv
<1> HIDE DEF result
<1>6. /\ DOMAIN requests' = Slots
      /\ \A m \in Slots \ {n} : requests'[m] = requests[m]
      /\ \/ /\ requests'[n] = result.next
            /\ clean' = IF result.next = Free THEN clean ELSE alone /\ (clean \/ page # "ops")
         \/ page = "schedules" /\ r.body[row] = Lost /\ requests'[n] = Free /\ clean' = clean
  BY <1>4 DEF ConsoleInv, RequestsOK, Ok
<1>7. page = "ops" => requests'[n] = result.next
  BY <1>6
<1>8. /\ page \in Pages /\ row \in AllRows
      /\ DOMAIN shown = Rows[page] /\ DOMAIN told = Rows[page]
  BY RowsOfPages DEF ConsoleInv, RowsOK
<1>9. RowsOK'
  <2>1. /\ shown' \in [Rows[page] -> States]
        /\ \A x \in Rows[page] : shown'[x] \in Seen(x)
    <3>1. CASE shown' = shown
      BY <3>1 DEF ConsoleInv, RowsOK
    <3>2. CASE /\ page # "ops" /\ r.body[row] # Lost
               /\ shown' = [shown EXCEPT ![row] = Listed(r.body[row])]
      <4>1. r.body[row] \in Held(row)
        BY <1>2, <3>2 DEF ActOn
      <4>2. Listed(r.body[row]) \in Seen(row)
        BY <1>8, <3>2, <4>1, ListedFacts
      <4>3. Listed(r.body[row]) \in States
        BY <1>8, <4>2, RowStates
      <4> QED BY <3>2, <4>2, <4>3 DEF ConsoleInv, RowsOK
    <3> QED BY <1>4, <1>5, <3>1, <3>2 DEF ActedWell
  <2>2. /\ told' \in [Rows[page] -> States]
        /\ \A x \in Rows[page] :
             told'[x] \in IF page = "inbox" THEN {None} \cup Asked(x) ELSE {None}
    <3>1. CASE told' = told
      BY <3>1 DEF ConsoleInv, RowsOK
    <3>2. CASE page = "inbox" /\ told' = [told EXCEPT ![row] = r.move]
      <4>1. row \in {"approval", "candidate"}
        BY <1>8, <3>2, PageRows
      <4>2. r.move \in States
        BY <1>3, <4>1, RowTables DEF States
      <4> QED BY <1>3, <3>2, <4>2 DEF ConsoleInv, RowsOK
    <3> QED BY <1>4, <1>5, <3>1, <3>2 DEF ActedWell
  <2> QED BY <1>1, <2>1, <2>2 DEF ConsoleInv, RowsOK
<1>10. RequestsOK'
  <2>1. Settles
    BY <1>1, NothingWritten DEF ConsoleInv
  <2>2. result.next # Free => LoadOK(result.next, page)
    BY <1>5 DEF ActedWell
  <2>3. \A m \in Slots : \/ requests'[m] \in {requests[m], Free}
                         \/ LoadOK(requests'[m], page) \/ ActOK(requests'[m], page, server')
    BY <1>6, <2>2
  <2> QED BY <1>1, <1>6, <2>1, <2>3, RequestsKept DEF ConsoleInv
<1>11. ControlsOK'
  <2>1. clean' \in BOOLEAN
    BY <1>4 DEF ConsoleInv, ControlsOK
  <2>2. page = "ops" => {"memory", "approvals"} \subseteq Rows[page]
    BY PageRows
  <2>3. loading' \subseteq loading \/ (/\ page = "ops" /\ row \in {"memory", "approvals"}
                                       /\ loading' = loading \cup {row})
    BY <1>4, <1>5 DEF ActedWell
  <2>4. /\ loading' \subseteq ({"list", "saving"} \cup Rows[page]) \ {"workspace"}
        /\ page # "ops" => loading' \cap Rows[page] = {}
        /\ page = "ops" => loading' \cap {"list", "saving"} = {}
    BY <2>2, <2>3 DEF ConsoleInv, ControlsOK
  <2>5. active' \in {active, None}
    BY <1>4, <1>5 DEF ActedWell
  <2> QED BY <1>1, <2>1, <2>4, <2>5 DEF ConsoleInv, ControlsOK
<1>12. EndedBy'
  <2>1. ASSUME NEW what \in loading', what \in loading, r.move = "create" => what # "saving"
        PROVE  \E m \in Slots : Ends(requests'[m], what)
    <3>1. PICK m \in Slots : Ends(requests[m], what)
      BY <2>1 DEF ConsoleInv, EndedBy
    <3>2. m # n
      BY <1>1, <2>1, <3>1 DEF Ends
    <3> QED BY <1>6, <3>1, <3>2
  <2>2. ASSUME page = "ops", result.next # Free, row \in {"memory", "approvals"}
        PROVE  Ends(requests'[n], row)
    BY <1>5, <1>7, <2>2 DEF ActedWell, Ends
  <2>3. \A what \in loading' : \E m \in Slots : Ends(requests'[m], what)
    <3>1. CASE r.move = "create"
      <4>1. loading' = loading \ {"saving"}
        BY <1>4, <1>5, <3>1 DEF ActedWell
      <4> QED BY <2>1, <4>1
    <3>2. CASE r.move # "create"
      <4>1. \/ loading' = loading
            \/ /\ page = "ops" /\ loading' = loading \cup {row}
               /\ result.next # Free /\ row \in {"memory", "approvals"}
        BY <1>4, <1>5, <3>2 DEF ActedWell
      <4>2. ASSUME NEW what \in loading'
            PROVE  \E m \in Slots : Ends(requests'[m], what)
        BY <2>1, <2>2, <3>2, <4>1, <4>2
      <4> QED BY <4>2
    <3> QED BY <3>1, <3>2
  <2>4. ASSUME active' # None
        PROVE  \E m \in Slots : EndsAction(requests'[m], active')
    <3>1. active' = active /\ ~(page = "panel" /\ r.move # "create")
      BY <1>4, <1>5, <2>4 DEF ActedWell
    <3>2. r.move = "create"
      BY <2>4, <3>1 DEF ConsoleInv, ControlsOK
    <3>3. PICK m \in Slots : EndsAction(requests[m], active)
      BY <2>4, <3>1 DEF ConsoleInv, EndedBy
    <3>4. m # n
      BY <3>2, <3>3 DEF EndsAction
    <3> QED BY <1>6, <3>1, <3>3, <3>4
  <2> QED BY <2>3, <2>4 DEF EndedBy
<1>13. DecisionsAreTrue'
  <2>1. CASE told' = told
    BY <1>1, <2>1 DEF ConsoleInv, DecisionsAreTrue
  <2>2. CASE page = "inbox" /\ r.body[row] # Lost /\ told' = [told EXCEPT ![row] = r.move]
    <3>1. row \in {"approval", "candidate"}
      BY <1>8, <2>2, PageRows
    <3>2. IF row = "candidate" THEN server[row] = r.move ELSE server[row] \in {"approved", "denied"}
      BY <1>2, <2>2, <3>1 DEF ActOn
    <3> QED BY <1>1, <1>8, <2>2, <3>2 DEF ConsoleInv, DecisionsAreTrue
  <2> QED BY <1>4, <1>5, <2>1, <2>2 DEF ActedWell
<1>14. CleanList'
  <2>1. CASE requests'[n] # Free
    <3>1. requests'[n] = result.next /\ result.next # Free /\ clean' => alone
      BY <1>6, <2>1
    <3>2. ASSUME page # "ops"
          PROVE  Brings(requests[n])'
      <4>1. /\ LoadOK(result.next, page) /\ result.next.do = "load"
            /\ result.next.todo = DOMAIN result.next.body
        BY <1>5, <1>6, <2>1 DEF ActedWell
      <4>2. result.next.todo = Rows[page]
        BY <3>2, <4>1 DEF LoadOK
      <4> QED BY <1>1, <1>6, <2>1, <4>1, <4>2 DEF Brings
    <3>3. ~AllFree'
      BY <2>1 DEF AllFree
    <3>4. clean' => \A m \in Slots : requests'[m] # Free => m = n
      BY <1>6, <2>1
    <3>5. ASSUME clean', page # "ops", NEW m \in Slots, requests'[m] # Free
          PROVE  Brings(requests[m])'
      BY <3>2, <3>4, <3>5
    <3> QED BY <1>1, <3>3, <3>4, <3>5 DEF CleanList
  <2>2. CASE requests'[n] = Free
    <3>1. /\ clean' = clean
          /\ result.next = Free \/ r.body[row] = Lost
      BY <1>6, <2>2
    <3>2. ASSUME clean, page # "ops"
          PROVE  /\ \A m \in Slots : requests'[m] = Free
                 /\ \A x \in Rows[page] : Agrees(x)'
      <4>1. \A m \in Slots : requests[m] # Free => m = n
        BY <1>1, <3>2 DEF ConsoleInv, CleanList
      <4>2. Brings(r)
        BY <1>1, <3>2 DEF ConsoleInv, CleanList
      <4>3. \A x \in Rows[page] :
              IF x \in DOMAIN r.body /\ r.body[x] # Lost THEN server[x] = r.body[x] ELSE Agrees(x)
        BY <1>1, <4>2 DEF Brings
      <4>4. ASSUME NEW x \in Rows[page], x # row
            PROVE  Agrees(x)'
        <5>1. Agrees(x)
          BY <1>3, <4>3, <4>4
        <5>2. shown'[x] = shown[x]
          BY <1>4, <1>5, <1>8, <4>4 DEF ActedWell
        <5>3. told'[x] = told[x]
          BY <1>4, <1>5, <1>8, <4>4 DEF ActedWell
        <5> QED BY <1>1, <5>1, <5>2, <5>3 DEF Agrees
      <4>5. CASE r.body[row] = Lost
        <5>1. Agrees(row)
          BY <1>3, <4>3, <4>5
        <5>2. shown' = shown /\ told' = told
          BY <1>4, <1>5, <4>5 DEF ActedWell
        <5>3. Agrees(row)'
          BY <1>1, <5>1, <5>2 DEF Agrees
        <5> QED BY <1>6, <2>2, <4>1, <4>4, <5>3
      <4>6. CASE r.body[row] # Lost
        <5>1. server[row] = r.body[row]
          BY <1>3, <4>3, <4>6
        <5>2. \/ shown' = [shown EXCEPT ![row] = Listed(r.body[row])]
              \/ row = "candidate" /\ told' = [told EXCEPT ![row] = r.move]
          BY <1>4, <1>5, <3>1, <3>2, <4>6 DEF ActedWell
        <5>3. row = "candidate" => server[row] = r.move
          BY <1>2, <4>6 DEF ActOn
        <5>4. Agrees(row)'
          BY <1>1, <1>8, <5>1, <5>2, <5>3 DEF Agrees
        <5> QED BY <1>6, <2>2, <4>1, <4>4, <5>4
      <4> QED BY <4>5, <4>6
    <3> QED BY <1>1, <3>1, <3>2 DEF CleanList
  <2> QED BY <2>1, <2>2
<1>15. CleanConsole'
  <2>1. ASSUME clean', page = "ops"
        PROVE  /\ clean /\ shown["runs"] \in {None, selected} /\ selectedRun \in {None, selected}
               /\ \A m \in Slots : requests[m] # Free => OfSelected(requests[m])
               /\ selectedRun # None => \A x \in Panels :
                    shown[x] = selected \/ \E m \in Slots : Ends(requests[m], x)
    <3>1. clean
      BY <1>6, <2>1
    <3> QED BY <2>1, <3>1 DEF ConsoleInv, CleanConsole
  <2>2. page = "ops" => shown' = shown
    BY <1>4, <1>5 DEF ActedWell
  <2>3. ASSUME clean', page = "ops", NEW m \in Slots, requests'[m] # Free
        PROVE  OfSelected(requests[m])'
    <3>1. CASE m = n
      <4>1. requests'[m] = result.next /\ result.next # Free
        BY <1>7, <2>3, <3>1
      <4>2. /\ result.next.todo = DOMAIN result.next.body
            /\ DOMAIN result.next.body = {row} /\ row \in {"memory", "approvals"}
            /\ result.next.key \in {r.key, selected}
        BY <1>5, <2>3, <4>1 DEF ActedWell
      <4>3. r.key = selected
        BY <1>1, <2>1, <2>3 DEF OfSelected
      <4> QED BY <1>1, <4>1, <4>2, <4>3 DEF OfSelected
    <3>2. CASE m # n
      <4>1. requests'[m] = requests[m] /\ OfSelected(requests[m])
        BY <1>6, <2>1, <2>3, <3>2
      <4> QED BY <1>1, <4>1 DEF OfSelected
    <3> QED BY <3>1, <3>2
  <2>4. ASSUME NEW x \in Panels, NEW m \in Slots, Ends(requests[m], x)
        PROVE  Ends(requests'[m], x)
    <3>1. m # n
      BY <1>1, <2>4 DEF Ends, Panels
    <3> QED BY <1>6, <2>4, <3>1
  <2> QED BY <1>1, <2>1, <2>2, <2>3, <2>4 DEF CleanConsole
<1> QED BY <1>9, <1>10, <1>11, <1>12, <1>13, <1>14, <1>15 DEF ConsoleInv

-----------------------------------------------------------------------------
(* The theorem: pages keep true copies. *)

(* A page opens with its first loads sent. *)
LEMMA InitHolds == Init => ConsoleInv
<1> SUFFICES ASSUME Init PROVE ConsoleInv
  OBVIOUS
<1>1. /\ page \in Pages /\ requests = Mount(page) /\ timer = FALSE /\ active = None
      /\ selected = None /\ selectedRun = None /\ clean = (page # "inbox")
      /\ acts = 0 /\ changes = 0 /\ faults = 0
      /\ shown = [p \in Rows[page] |-> IF page = "ops" THEN None ELSE "absent"]
      /\ told = [p \in Rows[page] |-> None]
      /\ loading = IF page \in {"schedules", "panel", "home"} THEN {"list"} ELSE {}
  BY DEF Init
<1>2. \A row \in Rows[page] : server[row] \in Opening(row) /\ server \in [Rows[page] -> States]
  <2>1. ASSUME NEW row \in Rows[page]
        PROVE  Opening(row) \subseteq States
    BY <1>1, PageRows DEF Opening, States, None, Panels, Schedules
  <2>2. \A row \in Rows[page] : server[row] \in Opening(row)
    BY DEF Init
  <2>3. DOMAIN server = Rows[page] /\ server = [row \in Rows[page] |-> server[row]]
    BY DEF Init
  <2> QED BY <2>1, <2>2, <2>3
<1>3. ASSUME NEW row \in Rows[page]
      PROVE  /\ Opening(row) \subseteq Held(row)
             /\ (IF page = "ops" THEN None ELSE "absent") \in Seen(row)
  <2>1. CASE page = "ops"
    <3>1. row \in Panels \cup {"runs"} /\ row \notin Schedules
      BY <2>1, PageRows DEF Panels, Schedules
    <3>2. row \notin {"session", "health", "approval", "candidate"}
      BY <3>1 DEF Panels
    <3>3. Opening(row) = {None}
      BY <3>1, <3>2 DEF Opening
    <3> QED BY <2>1, <3>1, <3>3, RowTables
  <2>2. CASE page = "inbox"
    BY <2>2, PageRows, RowTables DEF Opening, Schedules
  <2>3. CASE page \in {"schedules", "panel"}
    <3>1. row \in Schedules
      BY <2>3, PageRows DEF Schedules
    <3>2. Opening(row) = {"absent", "active"}
      BY <3>1 DEF Opening, Schedules, Panels
    <3> QED BY <2>3, <3>1, <3>2, RowTables
  <2>4. CASE page = "home"
    BY <2>4, PageRows, RowTables DEF Opening, Schedules
  <2>5. CASE page = "layout"
    BY <2>5, PageRows, RowTables DEF Opening, Schedules
  <2> QED BY <1>1, <2>1, <2>2, <2>3, <2>4, <2>5, PageRows
<1>4. RowsOK
  <2>1. server \in [Rows[page] -> States] /\ \A row \in Rows[page] : server[row] \in Held(row)
    <3>1. Rows[page] # {}
      BY <1>1, PageRows
    <3> QED BY <1>2, <1>3, <3>1
  <2>2. shown \in [Rows[page] -> States] /\ \A row \in Rows[page] : shown[row] \in Seen(row)
    BY <1>1, <1>3 DEF States
  <2>3. /\ told \in [Rows[page] -> States]
        /\ \A row \in Rows[page] :
             told[row] \in IF page = "inbox" THEN {None} \cup Asked(row) ELSE {None}
    BY <1>1 DEF States
  <2> QED BY <1>1, <2>1, <2>2, <2>3 DEF RowsOK
<1>5. /\ page # "ops" => /\ requests[1] = Load(Rows[page], page = "inbox", None)
                         /\ 1 \in Slots
      /\ DOMAIN requests = Slots
      /\ \A n \in Slots : requests[n] # Free =>
           /\ page # "ops" /\ (page = "inbox" \/ n = 1)
           /\ \E poll \in BOOLEAN : requests[n] = Load(Rows[page], poll, None)
  <2>1. 1 \in Slots /\ Slots \subseteq Nat
    BY Bounds DEF Slots
  <2>2. page = "inbox" => InboxRefresh(FALSE) = Load(Rows[page], FALSE, None)
    BY DEF InboxRefresh
  <2>3. DOMAIN requests = Slots
    BY <1>1 DEF Mount
  <2>4. \A n \in Slots :
          requests[n] = IF page = "inbox" /\ n = 2 THEN InboxRefresh(FALSE)
                        ELSE IF page # "ops" /\ n = 1 THEN Load(Rows[page], page = "inbox", None)
                        ELSE Free
    BY <1>1 DEF Mount
  <2>5. page # "ops" => requests[1] = Load(Rows[page], page = "inbox", None)
    <3>1. 1 # 2
      OBVIOUS
    <3> QED BY <2>1, <2>4, <3>1, Zenon
  <2>6. ASSUME NEW n \in Slots, requests[n] # Free
        PROVE  /\ page # "ops" /\ (page = "inbox" \/ n = 1)
               /\ \E poll \in BOOLEAN : requests[n] = Load(Rows[page], poll, None)
    <3>1. CASE page = "inbox" /\ n = 2
      BY <2>2, <2>4, <3>1
    <3>2. CASE ~(page = "inbox" /\ n = 2)
      <4>1. page # "ops" /\ n = 1 /\ requests[n] = Load(Rows[page], page = "inbox", None)
        BY <2>4, <2>6, <3>2
      <4>2. (page = "inbox") \in BOOLEAN
        OBVIOUS
      <4> QED BY <4>1, <4>2
    <3> QED BY <3>1, <3>2
  <2> QED BY <2>1, <2>3, <2>5, <2>6
<1>6. ASSUME NEW n \in Slots, requests[n] # Free
      PROVE  /\ LoadOK(requests[n], page) /\ requests[n].do = "load"
             /\ requests[n].todo = Rows[page]
  <2>1. PICK poll \in BOOLEAN : requests[n] = Load(Rows[page], poll, None)
    BY <1>5, <1>6
  <2>2. page # "ops" /\ None \in Sessions \cup {None} /\ Rows[page] \in SUBSET Rows[page]
    BY <1>5, <1>6
  <2> QED BY <1>1, <2>1, <2>2, NewLoad
<1>7. RequestsOK
  BY <1>5, <1>6 DEF RequestsOK
<1>8. ControlsOK
  <2>1. /\ {0} \subseteq 0..(MaxActs + MaxSteps)
        /\ {0} \subseteq 0..MaxChanges /\ {0} \subseteq 0..MaxFaults
    BY Bounds
  <2>2. loading \cap (Rows[page] \cup {"workspace"}) = {}
    BY <1>1, PageRows
  <2> QED BY <1>1, <2>1, <2>2 DEF ControlsOK
<1>9. EndedBy
  <2>1. ASSUME NEW what \in loading
        PROVE  what = "list" /\ requests[1].do = "load" /\ 1 \in Slots
    <3>1. what = "list" /\ page # "ops"
      BY <1>1, <2>1
    <3>2. requests[1] = Load(Rows[page], page = "inbox", None) /\ 1 \in Slots
      BY <1>5, <3>1
    <3> QED BY <3>1, <3>2 DEF Load
  <2> QED BY <1>1, <2>1 DEF EndedBy, Ends
<1>10. DecisionsAreTrue
  BY <1>1 DEF DecisionsAreTrue
<1>11. CleanList
  <2>1. ASSUME clean, page # "ops"
        PROVE  /\ \A m, n \in Slots : requests[m] # Free /\ requests[n] # Free => m = n
               /\ ~AllFree
    <3>1. page # "inbox"
      BY <1>1, <2>1
    <3>2. \A m \in Slots : requests[m] # Free => m = 1
      BY <1>5, <3>1
    <3>3. requests[1].do = "load" /\ 1 \in Slots
      BY <1>5, <2>1 DEF Load
    <3> QED BY <3>2, <3>3, RequestsAreNotFree DEF AllFree
  <2>2. ASSUME NEW n \in Slots, requests[n] # Free
        PROVE  Brings(requests[n])
    BY <1>6, <2>2 DEF Brings
  <2> QED BY <2>1, <2>2 DEF CleanList
<1>12. CleanConsole
  <2>1. page = "ops" => "runs" \in Rows[page]
    BY PageRows
  <2> QED BY <1>1, <1>5, <2>1 DEF CleanConsole
<1> QED BY <1>4, <1>7, <1>8, <1>9, <1>10, <1>11, <1>12 DEF ConsoleInv

(* One step per action of the page, of the server and of others. *)
LEMMA NextKeeps == ConsoleInv /\ [Next]_vars => ConsoleInv'
<1> SUFFICES ASSUME ConsoleInv, [Next]_vars PROVE ConsoleInv'
  OBVIOUS
<1>1. CASE InboxPoll \/ SchedulesTick \/ HealthTick
  BY <1>1, TickKeeps
<1>2. CASE Reload
  BY <1>2, ReloadKeeps
<1>3. CASE SelectRun
  BY <1>3, SelectRunKeeps
<1>4. ASSUME NEW row \in Rows[page], Elsewhere(row) \/ Decide(row)
      PROVE  ConsoleInv'
  BY <1>4, ElsewhereKeeps, DecideKeeps
<1>5. ASSUME NEW row \in Rows[page], NEW move \in Offered(row), Press(row, move)
      PROVE  ConsoleInv'
  BY <1>5, PressKeeps
<1>6. ASSUME NEW s \in Sessions, SelectSession(s)
      PROVE  ConsoleInv'
  BY <1>6, SelectSessionKeeps
<1>7. ASSUME NEW n \in Slots, Handle(n)
      PROVE  ConsoleInv'
  <2>1. CASE LoadAnswered(n)
    BY <2>1, LoadAnsweredKeeps
  <2>2. CASE ActAnswered(n)
    BY <2>2, ActAnsweredKeeps
  <2>3. ASSUME NEW p \in Rows[page], Serve(n, p) \/ Fail(n, p)
        PROVE  ConsoleInv'
    BY <2>3, ServedKeeps
  <2> QED BY <1>7, <2>1, <2>2, <2>3 DEF Handle
<1>8. CASE UNCHANGED vars
  <2>1. UNCHANGED <<page, server, shown, requests, timer, loading, active, told, selected,
                    selectedRun, clean, acts, changes, faults>>
    BY <1>8 DEF vars
  <2>2. RowsOK' /\ RequestsOK' /\ ControlsOK' /\ EndedBy' /\ DecisionsAreTrue'
    BY <2>1 DEF ConsoleInv, RowsOK, RequestsOK, ControlsOK, EndedBy, DecisionsAreTrue
  <2>3. CleanList'
    BY <2>1 DEF ConsoleInv, CleanList, AllFree, Brings, Agrees
  <2>4. CleanConsole'
    BY <2>1 DEF ConsoleInv, CleanConsole, OfSelected
  <2> QED BY <2>2, <2>3, <2>4 DEF ConsoleInv
<1> QED BY <1>1, <1>2, <1>3, <1>4, <1>5, <1>6, <1>7, <1>8 DEF Next

(* The invariant holds of every state. *)
LEMMA ConsoleInvariant == Spec => []ConsoleInv
BY InitHolds, NextKeeps, PTL DEF Spec

(* What the invariant says of types and of the requests in flight. *)
LEMMA TypesFollow == ConsoleInv => TypeOK
<1> SUFFICES ASSUME ConsoleInv PROVE TypeOK
  OBVIOUS
<1>1. \A r \in InFlight : r.todo \subseteq DOMAIN r.body /\ DOMAIN r.body \subseteq Rows[page]
  <2>1. ASSUME NEW n \in Slots, requests[n] # Free
        PROVE  /\ requests[n].todo \subseteq DOMAIN requests[n].body
               /\ DOMAIN requests[n].body \subseteq Rows[page]
    <3>1. CASE LoadOK(requests[n], page)
      BY <3>1 DEF LoadOK
    <3>2. CASE ActOK(requests[n], page, server)
      BY <3>2 DEF ActOK, ActOn
    <3> QED BY <2>1, <3>1, <3>2 DEF ConsoleInv, RequestsOK
  <2> QED BY <2>1 DEF InFlight
<1>2. loading \subseteq {"list", "saving"} \cup Rows[page]
  BY DEF ConsoleInv, ControlsOK
<1> QED BY <1>1, <1>2 DEF ConsoleInv, RowsOK, ControlsOK, TypeOK

(* A flag that is up has a request that takes it down. *)
LEMMA FlagsEnd == ConsoleInv => LoadingEnds
<1> SUFFICES ASSUME ConsoleInv PROVE LoadingEnds
  OBVIOUS
<1>1. ASSUME NEW what \in loading
      PROVE  \E r \in InFlight :
               CASE what = "list"   -> r.do = "load"
                 [] what = "saving" -> r.do = "act" /\ r.move = "create"
                 [] what \notin {"list", "saving"} -> r.do = "load" /\ what \in DOMAIN r.body
  <2>1. PICK n \in Slots : Ends(requests[n], what)
    BY <1>1 DEF ConsoleInv, EndedBy
  <2>2. requests[n] \in InFlight
    BY <2>1, RequestsAreNotFree DEF Ends, InFlight
  <2> QED BY <2>1, <2>2 DEF Ends
<1>2. ASSUME active # None
      PROVE  \E r \in InFlight : r.do = "act" /\ active \in DOMAIN r.body
  <2>1. PICK n \in Slots : EndsAction(requests[n], active)
    BY <1>2 DEF ConsoleInv, EndedBy
  <2>2. requests[n] \in InFlight
    BY <2>1, RequestsAreNotFree DEF EndsAction, InFlight
  <2> QED BY <2>1, <2>2 DEF EndsAction
<1> QED BY <1>1, <1>2 DEF LoadingEnds

(* Flags end, decisions the inbox reports were taken, and a page on which nothing
   crossed shows what the tables say, whatever answers are late, refused or lost. *)
THEOREM PagesKeepCopies == Spec => []PagesKeepTrueCopies
<1>1. ASSUME ConsoleInv
      PROVE  PagesKeepTrueCopies
  <2>1. AloneIsTrue
    BY <1>1 DEF ConsoleInv, CleanList, AloneIsTrue, Agrees
  <2>2. PanelsFollowSelection
    <3>1. ASSUME clean, AllFree, selectedRun # None, NEW p \in Panels
          PROVE  shown[p] = selected
      <4>1. page = "ops"
        BY <1>1, <3>1 DEF ConsoleInv, ControlsOK
      <4>2. \A n \in Slots : ~Ends(requests[n], p)
        BY <3>1, RequestsAreNotFree DEF AllFree, Ends, Panels
      <4> QED BY <1>1, <3>1, <4>1, <4>2 DEF ConsoleInv, CleanConsole
    <3> QED BY <3>1 DEF PanelsFollowSelection
  <2> QED BY <1>1, <2>1, <2>2, TypesFollow, FlagsEnd DEF ConsoleInv, PagesKeepTrueCopies
<1> QED BY <1>1, ConsoleInvariant, PTL

-----------------------------------------------------------------------------
(* The conversation: types. *)

Texts == Seq(Seq(Nat))
Keys == Seq(Nat)
Statuses == {"", "approve", "complete", "started", "finished", "trim"}

RowKinds == {"user_message", "lifecycle", "tool_call", "tool_result", "approval_request",
             "approval_resolution", "assistant_message"}

BusKinds == {"assistant.delta", "approval.request", "approval.resolution", "subagent.start",
             "subagent.complete", "tool.call", "tool.result", "lifecycle"}

EventKinds == BusKinds \cup {"user.message", "assistant.message"}

Writes ==
  [row : RowKinds \cup {""}, event : BusKinds \cup {""}, text : Texts, key : Keys, status : Statuses]

RowRecords ==
  [kind : RowKinds, text : Texts, key : Keys, status : Statuses, seq : Nat \ {0}, run : Nat]

EventRecords ==
  [id : Nat, kind : EventKinds, text : Texts, key : Keys, status : Statuses, seq : Nat]

BusEvents == {e \in EventRecords : e.kind \in BusKinds /\ e.seq = 0}

Roles == {"user", "assistant", "tool-call", "tool-result", "approval", "subagent", "lifecycle"}

Messages ==
  [role : Roles, text : Texts, key : Keys, status : Statuses, seq : Nat, settled : Statuses]

Builders ==
  {b \in [messages : Seq(Messages), said : Texts, speaker : Nat] : b.speaker <= Len(b.messages)}

-----------------------------------------------------------------------------
(* The fold. *)

(* What holds of a number and is handed on holds of all above. *)
LEMMA SetInduction ==
  ASSUME NEW n \in Nat, NEW T \in SUBSET Nat, n \in T, \A i \in T : i + 1 \in T
  PROVE  \A i \in Nat : i >= n => i \in T
<1> DEFINE Out == {i \in Nat : i >= n /\ i \notin T}
<1> SUFFICES ASSUME Out # {} PROVE FALSE
  OBVIOUS
<1>1. \E y \in Out : \A z \in Out : <<z, y>> \notin OpToRel(<, Nat)
  <2>1. Out \subseteq Nat
    OBVIOUS
  <2> HIDE DEF Out
  <2> QED BY <2>1, NatLessThanWellFounded, WFMin, Zenon
<1>2. PICK y \in Out : \A z \in Out : ~(z < y)
  BY <1>1 DEF OpToRel
<1>3. y > n /\ y - 1 \in Nat /\ y - 1 >= n /\ (y - 1) + 1 = y
  OBVIOUS
<1>4. y - 1 \notin Out
  BY <1>2, <1>3
<1>5. y - 1 \in T
  BY <1>3, <1>4
<1> QED BY <1>3, <1>5

(* A function folds events from b. *)
FoldsTo(f, b, n, events, k) ==
  f = [i \in n..k |-> IF i = n THEN b ELSE Apply(f[i - 1], events[i])]

(* There is one for any events. *)
LEMMA FoldExists ==
  ASSUME NEW b, NEW n \in Nat, NEW events
  PROVE  \A k \in Nat : k >= n => \E f : FoldsTo(f, b, n, events, k)
<1> DEFINE T == {k \in Nat : k >= n /\ \E f : FoldsTo(f, b, n, events, k)}
<1>1. n \in T
  <2>1. FoldsTo([i \in n..n |-> b], b, n, events, n)
    BY DEF FoldsTo
  <2> QED BY <2>1
<1>2. \A k \in T : k + 1 \in T
  <2> SUFFICES ASSUME NEW k \in T PROVE k + 1 \in T
    OBVIOUS
  <2>1. PICK f : FoldsTo(f, b, n, events, k)
    OBVIOUS
  <2> DEFINE g == [i \in n..(k + 1) |-> IF i <= k THEN f[i] ELSE Apply(f[k], events[k + 1])]
  <2>2. k \in Nat /\ k >= n
    OBVIOUS
  <2>3. FoldsTo(g, b, n, events, k + 1)
    <3>1. \A i \in n..(k + 1) : g[i] = IF i = n THEN b ELSE Apply(g[i - 1], events[i])
      <4> SUFFICES ASSUME NEW i \in n..(k + 1)
                   PROVE  g[i] = IF i = n THEN b ELSE Apply(g[i - 1], events[i])
        OBVIOUS
      <4>1. CASE i = k + 1
        <5>1. i # n /\ i - 1 = k /\ k \in n..(k + 1) /\ ~(i <= k)
          BY <2>2, <4>1
        <5>2. g[k] = f[k]
          BY <2>2, <5>1
        <5> QED BY <4>1, <5>1, <5>2
      <4>2. CASE i # k + 1
        <5>1. i \in n..k
          BY <2>2, <4>2
        <5>2. f[i] = IF i = n THEN b ELSE Apply(f[i - 1], events[i])
          BY <2>1, <5>1 DEF FoldsTo
        <5>3. g[i] = f[i]
          BY <2>2, <5>1
        <5>4. i # n => i - 1 \in n..k /\ i - 1 \in n..(k + 1)
          BY <2>2, <5>1
        <5>5. i # n => g[i - 1] = f[i - 1]
          BY <2>2, <5>4
        <5> QED BY <5>2, <5>3, <5>5
      <4> QED BY <4>1, <4>2
    <3>2. g = [i \in n..(k + 1) |-> g[i]]
      OBVIOUS
    <3> HIDE DEF g
    <3>3. g = [i \in n..(k + 1) |-> IF i = n THEN b ELSE Apply(g[i - 1], events[i])]
      BY <3>1, <3>2
    <3> QED BY <3>3 DEF FoldsTo
  <2>4. \E h : FoldsTo(h, b, n, events, k + 1)
    BY <2>3
  <2> QED BY <2>2, <2>4
<1> HIDE DEF T
<1>3. T \in SUBSET Nat
  BY DEF T
<1>4. \A k \in Nat : k >= n => k \in T
  BY <1>1, <1>2, <1>3, SetInduction
<1> QED BY <1>4 DEF T

(* Step by step. *)
Folds(f, b, n, events) ==
  f[n] = b /\ \A i \in (n + 1)..Len(events) : f[i] = Apply(f[i - 1], events[i])

(* Folded is the last value of one. *)
LEMMA FoldedFacts ==
  ASSUME NEW b, NEW n \in Nat, NEW events, Len(events) \in Nat, n <= Len(events)
  PROVE  \E f : Folds(f, b, n, events) /\ Folded(b, n, events) = f[Len(events)]
<1> DEFINE f == CHOOSE fold : fold = [i \in n..Len(events) |->
                                       IF i = n THEN b ELSE Apply(fold[i - 1], events[i])]
<1>1. \E fold : fold = [i \in n..Len(events) |->
                         IF i = n THEN b ELSE Apply(fold[i - 1], events[i])]
  <2>1. \E fold : FoldsTo(fold, b, n, events, Len(events))
    BY FoldExists
  <2> QED BY <2>1 DEF FoldsTo
<1>2. f = [i \in n..Len(events) |-> IF i = n THEN b ELSE Apply(f[i - 1], events[i])]
  BY <1>1
<1>3. Folded(b, n, events) = f[Len(events)]
  BY DEF Folded
<1> HIDE DEF f
<1>4. f[n] = b
  BY <1>2
<1>5. ASSUME NEW i \in (n + 1)..Len(events) PROVE f[i] = Apply(f[i - 1], events[i])
  <2>1. i \in n..Len(events) /\ i # n
    OBVIOUS
  <2> QED BY <1>2, <2>1
<1> QED BY <1>3, <1>4, <1>5 DEF Folds

-----------------------------------------------------------------------------
(* What an event does to the fold. *)

(* Records are given by their fields. *)
LEMMA MessageTyped ==
  ASSUME NEW e \in EventRecords, NEW role \in Roles
  PROVE  /\ Message(role, e) \in Messages /\ Message(role, e).role = role
         /\ Message(role, e).text = e.text
BY DEF Message, EventRecords, Messages, Statuses

LEMMA BuilderFields ==
  ASSUME NEW b \in Builders
  PROVE  /\ b.messages \in Seq(Messages) /\ b.said \in Texts /\ b.speaker \in Nat
         /\ b.speaker <= Len(b.messages) /\ Len(b.messages) \in Nat
         /\ DOMAIN b.messages = 1..Len(b.messages)
         /\ b = [messages |-> b.messages, said |-> b.said, speaker |-> b.speaker]
BY DEF Builders

(* A message is added. *)
LEMMA Append1Typed ==
  ASSUME NEW b \in Builders, NEW m \in Messages
  PROVE  /\ Append1(b, m) \in Builders
         /\ Append1(b, m) = [messages |-> Append(b.messages, m), said |-> b.said,
                             speaker |-> b.speaker]
<1>1. Append1(b, m) = [messages |-> Append(b.messages, m), said |-> b.said, speaker |-> b.speaker]
  <2>1. PICK x, y, z : b = [messages |-> x, said |-> y, speaker |-> z]
    BY BuilderFields
  <2> QED BY <2>1 DEF Append1
<1>2. Append(b.messages, m) \in Seq(Messages) /\ Len(Append(b.messages, m)) = Len(b.messages) + 1
  BY BuilderFields
<1> QED BY <1>1, <1>2, BuilderFields DEF Builders

(* The reply is over. *)
LEMMA SilentTyped ==
  ASSUME NEW b \in Builders
  PROVE  /\ Silent(b) \in Builders
         /\ Silent(b) = [messages |-> b.messages, said |-> NoText, speaker |-> 0]
<1>1. Silent(b) = [messages |-> b.messages, said |-> NoText, speaker |-> 0]
  BY DEF Silent
<1>2. NoText \in Texts
  BY DEF NoText, Texts
<1> QED BY <1>1, <1>2, BuilderFields DEF Builders

(* A text is said. *)
LEMMA SaysTyped ==
  ASSUME NEW b \in Builders, NEW e \in EventRecords, NEW text \in Texts
  PROVE  /\ Says(b, e, text) \in Builders
         /\ Says(b, e, text) =
              IF b.speaker # 0
              THEN [messages |-> [b.messages EXCEPT ![b.speaker] = [@ EXCEPT !.text = text]],
                    said |-> text, speaker |-> b.speaker]
              ELSE [messages |-> Append(b.messages, [Message("assistant", e) EXCEPT !.text = text]),
                    said |-> text, speaker |-> Len(b.messages) + 1]
<1>1. /\ b.messages \in Seq(Messages) /\ b.said \in Texts /\ b.speaker \in Nat
      /\ b.speaker <= Len(b.messages) /\ Len(b.messages) \in Nat
      /\ b = [messages |-> b.messages, said |-> b.said, speaker |-> b.speaker]
  BY DEF Builders
<1>2. \A m \in Messages : [m EXCEPT !.text = text] \in Messages
  BY DEF Messages
<1>3. CASE b.speaker # 0
  <2> DEFINE messages == [b.messages EXCEPT ![b.speaker] = [@ EXCEPT !.text = text]]
  <2>1. Says(b, e, text) = [messages |-> messages, said |-> text, speaker |-> b.speaker]
    BY <1>1, <1>3 DEF Says
  <2>2. b.speaker \in 1..Len(b.messages) /\ b.messages[b.speaker] \in Messages
    BY <1>1, <1>3
  <2>3. messages \in Seq(Messages) /\ Len(messages) = Len(b.messages)
    BY <1>1, <1>2, <2>2
  <2> HIDE DEF messages
  <2>4. Says(b, e, text) \in Builders
    BY <1>1, <2>1, <2>3 DEF Builders
  <2> QED BY <1>3, <2>1, <2>4 DEF messages
<1>4. CASE b.speaker = 0
  <2> DEFINE said == [Message("assistant", e) EXCEPT !.text = text]
  <2>1. said \in Messages
    BY <1>2, MessageTyped DEF Roles
  <2>2. Says(b, e, text) =
          [messages |-> Append(b.messages, said), said |-> text, speaker |-> Len(b.messages) + 1]
    BY <1>1, <1>4 DEF Says
  <2> HIDE DEF said
  <2>3. Append(b.messages, said) \in Seq(Messages)
        /\ Len(Append(b.messages, said)) = Len(b.messages) + 1
    BY <1>1, <2>1
  <2>4. Says(b, e, text) \in Builders
    BY <1>1, <2>2, <2>3 DEF Builders
  <2> QED BY <1>4, <2>2, <2>4 DEF said
<1> QED BY <1>1, <1>3, <1>4

(* An approval is resolved. *)
Resolved(m, e) ==
  IF m.role = "approval" /\ m.key = e.key THEN [m EXCEPT !.settled = e.status] ELSE m

LEMMA ResolvesTyped ==
  ASSUME NEW b \in Builders, NEW e \in EventRecords
  PROVE  /\ Resolves(b, e) \in Builders
         /\ Resolves(b, e) = [messages |-> [i \in DOMAIN b.messages |-> Resolved(b.messages[i], e)],
                             said |-> b.said, speaker |-> b.speaker]
<1> DEFINE messages == [i \in DOMAIN b.messages |-> Resolved(b.messages[i], e)]
<1>1. /\ b.messages \in Seq(Messages) /\ b.said \in Texts /\ b.speaker \in Nat
      /\ b.speaker <= Len(b.messages) /\ DOMAIN b.messages = 1..Len(b.messages)
      /\ b = [messages |-> b.messages, said |-> b.said, speaker |-> b.speaker]
  BY DEF Builders
<1>2. Resolves(b, e) = [messages |-> messages, said |-> b.said, speaker |-> b.speaker]
  <2>1. PICK x, y, z : b = [messages |-> x, said |-> y, speaker |-> z]
    BY <1>1
  <2>2. \A new : [b EXCEPT !.messages = new] = [messages |-> new, said |-> y, speaker |-> z]
    BY <2>1
  <2>3. Resolves(b, e) = [b EXCEPT !.messages = messages]
    BY DEF Resolves, Resolved
  <2> QED BY <2>1, <2>2, <2>3
<1>3. \A m \in Messages : Resolved(m, e) \in Messages
  BY DEF Resolved, Messages, EventRecords
<1>4. messages \in Seq(Messages) /\ Len(messages) = Len(b.messages)
  BY <1>1, <1>3
<1> HIDE DEF messages
<1>5. Resolves(b, e) \in Builders
  BY <1>1, <1>2, <1>4 DEF Builders
<1> QED BY <1>2, <1>5 DEF messages

(* Whatever the event. *)
LEMMA ApplyTyped ==
  ASSUME NEW b \in Builders, NEW e \in EventRecords
  PROVE  Apply(b, e) \in Builders
<1>1. e.kind \in EventKinds /\ e.text \in Texts /\ b.said \in Texts
  BY DEF EventRecords, Builders
<1>2. b.said \o e.text \in Texts
  BY <1>1 DEF Texts
<1>3. \A c \in Builders, role \in Roles : Append1(c, Message(role, e)) \in Builders
  BY MessageTyped, Append1Typed
<1>4. Silent(b) \in Builders
  BY SilentTyped
<1>5. Says(b, e, b.said \o e.text) \in Builders /\ Says(b, e, e.text) \in Builders
  BY <1>1, <1>2, SaysTyped
<1>6. Resolves(b, e) \in Builders
  BY ResolvesTyped
<1>7. CASE e.kind \in {"user.message", "tool.call"}
  BY <1>3, <1>4, <1>7 DEF Apply, Roles
<1>8. CASE e.kind \in {"assistant.delta", "assistant.message", "approval.resolution"}
  BY <1>5, <1>6, <1>8 DEF Apply
<1>9. CASE e.kind \in {"tool.result", "approval.request", "subagent.start", "subagent.complete",
                       "lifecycle"}
  BY <1>3, <1>9 DEF Apply, Roles
<1> QED BY <1>1, <1>7, <1>8, <1>9 DEF EventKinds, BusKinds

-----------------------------------------------------------------------------
(* Folds that look alike. *)

(* Events that differ in what the user typed at most, and in their ids. *)
Alike(e, f) ==
  /\ e.kind = f.kind /\ e.key = f.key /\ e.status = f.status /\ e.seq = f.seq
  /\ e.kind = "user.message" \/ e.text = f.text

(* Folds that show the same but for that. *)
Like(b, c) ==
  /\ b.said = c.said /\ b.speaker = c.speaker
  /\ Outlines(b.messages) = Outlines(c.messages)

(* An interval has one length. *)
LEMMA IntervalsEqual ==
  ASSUME NEW m \in Nat, NEW n \in Nat, 1..m = 1..n
  PROVE  m = n
<1>1. \A i \in Nat : i \in 1..m <=> i \in 1..n
  OBVIOUS
<1>2. m > 0 => m \in 1..m
  OBVIOUS
<1>3. n > 0 => n \in 1..n
  OBVIOUS
<1>4. m > 0 => m <= n
  BY <1>1, <1>2
<1>5. n > 0 => n <= m
  BY <1>1, <1>3
<1> QED BY <1>4, <1>5

(* Outlines message by message. *)
LEMMA OutlinesAgree ==
  ASSUME NEW x \in Seq(Messages), NEW y \in Seq(Messages)
  PROVE  Outlines(x) = Outlines(y) <=>
           Len(x) = Len(y) /\ \A i \in 1..Len(x) : Outline(x[i]) = Outline(y[i])
<1>1. DOMAIN x = 1..Len(x) /\ DOMAIN y = 1..Len(y) /\ Len(x) \in Nat /\ Len(y) \in Nat
  OBVIOUS
<1>2. ASSUME Outlines(x) = Outlines(y)
      PROVE  Len(x) = Len(y) /\ \A i \in 1..Len(x) : Outline(x[i]) = Outline(y[i])
  <2>1. DOMAIN Outlines(x) = 1..Len(x) /\ DOMAIN Outlines(y) = 1..Len(y)
    BY <1>1 DEF Outlines
  <2>2. 1..Len(x) = 1..Len(y)
    BY <1>2, <2>1
  <2>3. Len(x) = Len(y)
    BY <1>1, <2>2, IntervalsEqual
  <2>4. ASSUME NEW i \in 1..Len(x) PROVE Outline(x[i]) = Outline(y[i])
    <3>1. Outlines(x)[i] = Outline(x[i]) /\ Outlines(y)[i] = Outline(y[i])
      BY <1>1, <2>3 DEF Outlines
    <3> QED BY <1>2, <3>1
  <2> QED BY <2>3, <2>4
<1>3. ASSUME Len(x) = Len(y), \A i \in 1..Len(x) : Outline(x[i]) = Outline(y[i])
      PROVE  Outlines(x) = Outlines(y)
  BY <1>1, <1>3 DEF Outlines
<1> QED BY <1>2, <1>3

(* Messages of events that are alike. *)
LEMMA MessagesAlike ==
  ASSUME NEW e \in EventRecords, NEW f \in EventRecords, NEW role \in Roles, Alike(e, f),
         role = "user" \/ e.kind # "user.message"
  PROVE  Outline(Message(role, e)) = Outline(Message(role, f))
<1>1. e.key = f.key /\ e.status = f.status /\ e.seq = f.seq
  BY DEF Alike
<1>2. CASE role = "user"
  <2>1. \A g : Outline(Message(role, g)) =
                 [role |-> role, text |-> NoText, key |-> g.key, status |-> g.status, seq |-> g.seq,
                  settled |-> ""]
    BY <1>2 DEF Outline, Message
  <2> QED BY <1>1, <2>1
<1>3. CASE role # "user"
  BY <1>1, <1>3 DEF Alike, Outline, Message
<1> QED BY <1>2, <1>3

(* The same text, or the same resolution, of messages that are alike. *)
LEMMA ChangesAlike ==
  ASSUME NEW x \in Messages, NEW y \in Messages, Outline(x) = Outline(y)
  PROVE  /\ \A text : Outline([x EXCEPT !.text = text]) = Outline([y EXCEPT !.text = text])
         /\ \A status : Outline([x EXCEPT !.settled = status]) = Outline([y EXCEPT !.settled = status])
         /\ x.role = y.role /\ x.key = y.key
<1>1. PICK a, t, k, s, q, d :
        x = [role |-> a, text |-> t, key |-> k, status |-> s, seq |-> q, settled |-> d]
  BY DEF Messages
<1>2. PICK a2, t2, k2, s2, q2, d2 :
        y = [role |-> a2, text |-> t2, key |-> k2, status |-> s2, seq |-> q2, settled |-> d2]
  BY DEF Messages
<1>3. a = a2 /\ k = k2 /\ s = s2 /\ q = q2 /\ d = d2 /\ (a = "user" \/ t = t2)
  <2>1. Outline(x).role = a /\ Outline(x).key = k /\ Outline(x).status = s
        /\ Outline(x).seq = q /\ Outline(x).settled = d /\ (a # "user" => Outline(x).text = t)
    BY <1>1 DEF Outline
  <2>2. Outline(y).role = a2 /\ Outline(y).key = k2 /\ Outline(y).status = s2
        /\ Outline(y).seq = q2 /\ Outline(y).settled = d2 /\ (a2 # "user" => Outline(y).text = t2)
    BY <1>2 DEF Outline
  <2> QED BY <2>1, <2>2
<1>4. ASSUME NEW text PROVE Outline([x EXCEPT !.text = text]) = Outline([y EXCEPT !.text = text])
  BY <1>1, <1>2, <1>3 DEF Outline
<1>5. ASSUME NEW status
      PROVE  Outline([x EXCEPT !.settled = status]) = Outline([y EXCEPT !.settled = status])
  BY <1>1, <1>2, <1>3 DEF Outline
<1>6. x.role = y.role /\ x.key = y.key
  BY <1>1, <1>2, <1>3
<1> QED BY <1>4, <1>5, <1>6

(* The same resolution of them. *)
LEMMA ResolvedAlike ==
  ASSUME NEW x \in Messages, NEW y \in Messages, Outline(x) = Outline(y),
         NEW e, NEW f, e.key = f.key, e.status = f.status
  PROVE  Outline(Resolved(x, e)) = Outline(Resolved(y, f))
<1>1. Outline([x EXCEPT !.settled = e.status]) = Outline([y EXCEPT !.settled = f.status])
  BY ChangesAlike
<1>2. x.role = y.role /\ x.key = y.key
  BY ChangesAlike
<1> QED BY <1>1, <1>2 DEF Resolved

(* Messages are added to both. *)
LEMMA AppendsAlike ==
  ASSUME NEW x \in Seq(Messages), NEW y \in Seq(Messages), Outlines(x) = Outlines(y),
         NEW m \in Messages, NEW n \in Messages, Outline(m) = Outline(n)
  PROVE  Outlines(Append(x, m)) = Outlines(Append(y, n))
<1>1. Len(x) = Len(y) /\ \A i \in 1..Len(x) : Outline(x[i]) = Outline(y[i])
  BY OutlinesAgree
<1>2. /\ Append(x, m) \in Seq(Messages) /\ Append(y, n) \in Seq(Messages)
      /\ Len(Append(x, m)) = Len(x) + 1 /\ Len(Append(y, n)) = Len(y) + 1 /\ Len(x) \in Nat
      /\ \A i \in 1..(Len(x) + 1) : Append(x, m)[i] = IF i = Len(x) + 1 THEN m ELSE x[i]
      /\ \A i \in 1..(Len(y) + 1) : Append(y, n)[i] = IF i = Len(y) + 1 THEN n ELSE y[i]
  OBVIOUS
<1>3. \A i \in 1..(Len(x) + 1) : Outline(Append(x, m)[i]) = Outline(Append(y, n)[i])
  <2> SUFFICES ASSUME NEW i \in 1..(Len(x) + 1)
               PROVE  Outline(Append(x, m)[i]) = Outline(Append(y, n)[i])
    OBVIOUS
  <2>1. i # Len(x) + 1 => i \in 1..Len(x)
    BY <1>2
  <2> QED BY <1>1, <1>2, <2>1
<1>4. Len(Append(x, m)) = Len(Append(y, n))
      /\ \A i \in 1..Len(Append(x, m)) : Outline(Append(x, m)[i]) = Outline(Append(y, n)[i])
  BY <1>1, <1>2, <1>3
<1>5. Append(x, m) \in Seq(Messages) /\ Append(y, n) \in Seq(Messages)
  BY <1>2
<1> DEFINE xs == Append(x, m)
           ys == Append(y, n)
<1> HIDE DEF xs, ys
<1> QED BY <1>4, <1>5, OutlinesAgree DEF xs, ys

(* The same message is added to both. *)
LEMMA Append1Alike ==
  ASSUME NEW b \in Builders, NEW c \in Builders, Like(b, c),
         NEW m \in Messages, NEW n \in Messages, Outline(m) = Outline(n)
  PROVE  Like(Append1(b, m), Append1(c, n))
<1>1. b.messages \in Seq(Messages) /\ c.messages \in Seq(Messages)
  BY BuilderFields
<1>2. Outlines(Append(b.messages, m)) = Outlines(Append(c.messages, n))
  BY <1>1, AppendsAlike DEF Like
<1>3. /\ Append1(b, m) = [messages |-> Append(b.messages, m), said |-> b.said, speaker |-> b.speaker]
      /\ Append1(c, n) = [messages |-> Append(c.messages, n), said |-> c.said, speaker |-> c.speaker]
  BY Append1Typed
<1> QED BY <1>2, <1>3 DEF Like

(* The reply is over in both. *)
LEMMA SilentAlike ==
  ASSUME NEW b, NEW c, Like(b, c)
  PROVE  Like(Silent(b), Silent(c))
BY DEF Like, Silent

(* The same text is said in both. *)
LEMMA SaysAlike ==
  ASSUME NEW b \in Builders, NEW c \in Builders, Like(b, c),
         NEW e \in EventRecords, NEW f \in EventRecords, Alike(e, f), e.kind # "user.message",
         NEW text \in Texts
  PROVE  Like(Says(b, e, text), Says(c, f, text))
<1>1. /\ b.messages \in Seq(Messages) /\ c.messages \in Seq(Messages)
      /\ b.speaker = c.speaker /\ b.speaker \in Nat
      /\ b.speaker <= Len(b.messages) /\ Len(b.messages) \in Nat
      /\ Outlines(b.messages) = Outlines(c.messages)
  BY BuilderFields DEF Like
<1>2. /\ Len(b.messages) = Len(c.messages)
      /\ \A i \in 1..Len(b.messages) : Outline(b.messages[i]) = Outline(c.messages[i])
  BY <1>1, OutlinesAgree
<1>3. \A m \in Messages : [m EXCEPT !.text = text] \in Messages
  BY DEF Messages
<1>4. CASE b.speaker # 0
  <2> DEFINE x == [b.messages EXCEPT ![b.speaker] = [@ EXCEPT !.text = text]]
             y == [c.messages EXCEPT ![c.speaker] = [@ EXCEPT !.text = text]]
  <2>1. b.speaker \in 1..Len(b.messages) /\ b.messages[b.speaker] \in Messages
        /\ c.messages[b.speaker] \in Messages
    BY <1>1, <1>2, <1>4
  <2>2. Outline([b.messages[b.speaker] EXCEPT !.text = text]) =
          Outline([c.messages[b.speaker] EXCEPT !.text = text])
    BY <1>2, <2>1, ChangesAlike
  <2>3. /\ x \in Seq(Messages) /\ y \in Seq(Messages)
        /\ Len(x) = Len(b.messages) /\ Len(y) = Len(c.messages)
    BY <1>1, <1>2, <1>3, <2>1
  <2>4. /\ \A i \in 1..Len(b.messages) : x[i] = IF i = b.speaker THEN [b.messages[i] EXCEPT !.text = text]
                                                 ELSE b.messages[i]
        /\ \A i \in 1..Len(b.messages) : y[i] = IF i = b.speaker THEN [c.messages[i] EXCEPT !.text = text]
                                                 ELSE c.messages[i]
    BY <1>1, <1>2
  <2> HIDE DEF x, y
  <2>5. \A i \in 1..Len(x) : Outline(x[i]) = Outline(y[i])
    BY <1>2, <2>2, <2>3, <2>4
  <2>6. Outlines(x) = Outlines(y)
    BY <1>2, <2>3, <2>5, OutlinesAgree
  <2>7. /\ Says(b, e, text) = [messages |-> x, said |-> text, speaker |-> b.speaker]
        /\ Says(c, f, text) = [messages |-> y, said |-> text, speaker |-> c.speaker]
    BY <1>1, <1>4, SaysTyped DEF x, y
  <2> QED BY <1>1, <2>6, <2>7 DEF Like
<1>5. CASE b.speaker = 0
  <2> DEFINE m == [Message("assistant", e) EXCEPT !.text = text]
             n == [Message("assistant", f) EXCEPT !.text = text]
  <2>1. Message("assistant", e) \in Messages /\ Message("assistant", f) \in Messages
        /\ "assistant" \in Roles
    BY MessageTyped DEF Roles
  <2>2. Outline(Message("assistant", e)) = Outline(Message("assistant", f))
    BY <2>1, MessagesAlike
  <2>3. Outline(m) = Outline(n)
    BY <2>1, <2>2, ChangesAlike
  <2>4. m \in Messages /\ n \in Messages
    BY <1>3, <2>1
  <2>5. /\ Says(b, e, text) = [messages |-> Append(b.messages, m), said |-> text,
                               speaker |-> Len(b.messages) + 1]
        /\ Says(c, f, text) = [messages |-> Append(c.messages, n), said |-> text,
                               speaker |-> Len(c.messages) + 1]
    BY <1>1, <1>5, SaysTyped
  <2> HIDE DEF m, n
  <2>6. Outlines(Append(b.messages, m)) = Outlines(Append(c.messages, n))
    BY <1>1, <2>3, <2>4, AppendsAlike
  <2> QED BY <1>2, <2>5, <2>6 DEF Like
<1> QED BY <1>4, <1>5

(* The same approval is resolved in both. *)
LEMMA ResolvesAlike ==
  ASSUME NEW b \in Builders, NEW c \in Builders, Like(b, c),
         NEW e \in EventRecords, NEW f \in EventRecords, Alike(e, f)
  PROVE  Like(Resolves(b, e), Resolves(c, f))
<1>1. /\ b.messages \in Seq(Messages) /\ c.messages \in Seq(Messages)
      /\ Len(b.messages) \in Nat
      /\ DOMAIN b.messages = 1..Len(b.messages) /\ DOMAIN c.messages = 1..Len(c.messages)
      /\ Outlines(b.messages) = Outlines(c.messages)
  BY BuilderFields DEF Like
<1>2. /\ Len(b.messages) = Len(c.messages)
      /\ \A i \in 1..Len(b.messages) : Outline(b.messages[i]) = Outline(c.messages[i])
  BY <1>1, OutlinesAgree
<1> DEFINE x == [i \in DOMAIN b.messages |-> Resolved(b.messages[i], e)]
           y == [i \in DOMAIN c.messages |-> Resolved(c.messages[i], f)]
<1>3. /\ Resolves(b, e) = [messages |-> x, said |-> b.said, speaker |-> b.speaker]
      /\ Resolves(c, f) = [messages |-> y, said |-> c.said, speaker |-> c.speaker]
      /\ Resolves(b, e) \in Builders /\ Resolves(c, f) \in Builders
  BY ResolvesTyped
<1>4. x \in Seq(Messages) /\ y \in Seq(Messages)
  <2>1. Resolves(b, e).messages = x /\ Resolves(c, f).messages = y
    BY <1>3
  <2> HIDE DEF x, y
  <2> QED BY <1>3, <2>1, BuilderFields
<1>5. /\ Len(x) = Len(b.messages) /\ Len(y) = Len(b.messages)
      /\ \A i \in 1..Len(b.messages) : x[i] = Resolved(b.messages[i], e)
                                       /\ y[i] = Resolved(c.messages[i], f)
  BY <1>1, <1>2
<1> HIDE DEF x, y
<1>6. \A i \in 1..Len(x) : Outline(x[i]) = Outline(y[i])
  <2> SUFFICES ASSUME NEW i \in 1..Len(x) PROVE Outline(x[i]) = Outline(y[i])
    OBVIOUS
  <2>1. i \in 1..Len(b.messages) /\ b.messages[i] \in Messages /\ c.messages[i] \in Messages
    BY <1>1, <1>2, <1>5
  <2>2. Outline(b.messages[i]) = Outline(c.messages[i])
    BY <1>2, <2>1
  <2>3. e.key = f.key /\ e.status = f.status
    BY DEF Alike
  <2>4. Outline(Resolved(b.messages[i], e)) = Outline(Resolved(c.messages[i], f))
    <3> DEFINE m == b.messages[i]
               n == c.messages[i]
    <3>1. m \in Messages /\ n \in Messages /\ Outline(m) = Outline(n)
      BY <2>1, <2>2
    <3> HIDE DEF m, n
    <3>2. Outline(Resolved(m, e)) = Outline(Resolved(n, f))
      BY <2>3, <3>1, ResolvedAlike
    <3> QED BY <3>2 DEF m, n
  <2> QED BY <1>5, <2>1, <2>4
<1>7. Outlines(x) = Outlines(y)
  BY <1>4, <1>5, <1>6, OutlinesAgree
<1> QED BY <1>3, <1>7 DEF Like

(* Events that are alike leave folds alike. *)
LEMMA ApplyAlike ==
  ASSUME NEW b \in Builders, NEW c \in Builders, Like(b, c),
         NEW e \in EventRecords, NEW f \in EventRecords, Alike(e, f)
  PROVE  Like(Apply(b, e), Apply(c, f))
<1>1. e.kind \in EventKinds /\ e.text \in Texts /\ b.said \in Texts /\ e.kind = f.kind
      /\ b.said = c.said /\ (e.kind = "user.message" \/ e.text = f.text)
  BY DEF EventRecords, Builders, Alike, Like
<1>2. b.said \o e.text \in Texts
  BY <1>1 DEF Texts
<1>3. ASSUME NEW d \in Builders, NEW g \in Builders, Like(d, g), NEW role \in Roles,
             role = "user" \/ e.kind # "user.message"
      PROVE  Like(Append1(d, Message(role, e)), Append1(g, Message(role, f)))
  <2>1. Message(role, e) \in Messages /\ Message(role, f) \in Messages
    BY MessageTyped
  <2>2. Outline(Message(role, e)) = Outline(Message(role, f))
    BY <1>3, MessagesAlike
  <2> QED BY <1>3, <2>1, <2>2, Append1Alike
<1>4. Silent(b) \in Builders /\ Silent(c) \in Builders /\ Like(Silent(b), Silent(c))
  BY SilentTyped, SilentAlike
<1>5. CASE e.kind = "user.message"
  BY <1>1, <1>3, <1>4, <1>5 DEF Apply, Roles
<1>6. CASE e.kind = "assistant.delta"
  <2>1. Like(Says(b, e, b.said \o e.text), Says(c, f, b.said \o e.text))
    BY <1>2, <1>6, SaysAlike
  <2>2. b.said \o e.text = c.said \o f.text
    BY <1>1, <1>6
  <2>3. Apply(b, e) = Says(b, e, b.said \o e.text) /\ Apply(c, f) = Says(c, f, c.said \o f.text)
    BY <1>1, <1>6 DEF Apply
  <2> QED BY <2>1, <2>2, <2>3
<1>7. CASE e.kind = "assistant.message"
  <2>1. Like(Says(b, e, e.text), Says(c, f, e.text))
    BY <1>1, <1>7, SaysAlike
  <2>2. Apply(b, e) = Says(b, e, e.text) /\ Apply(c, f) = Says(c, f, f.text)
    BY <1>1, <1>7 DEF Apply
  <2> QED BY <1>1, <1>7, <2>1, <2>2
<1>8. CASE e.kind = "approval.resolution"
  BY <1>1, <1>8, ResolvesAlike DEF Apply
<1>9. CASE e.kind = "tool.call"
  BY <1>1, <1>3, <1>4, <1>9 DEF Apply, Roles
<1>10. CASE e.kind \in {"tool.result", "approval.request", "subagent.start", "subagent.complete",
                        "lifecycle"}
  BY <1>1, <1>3, <1>10 DEF Apply, Roles
<1> QED BY <1>1, <1>5, <1>6, <1>7, <1>8, <1>9, <1>10 DEF EventKinds, BusKinds

(* Being alike is handed on. *)
LEMMA LikeIsEquivalence ==
  /\ \A b : Like(b, b)
  /\ \A b, c, d : Like(b, c) /\ Like(c, d) => Like(b, d)
BY DEF Like

(* Nothing is shown at first. *)
LEMMA EmptyTyped == Empty \in Builders
<1>1. NoText \in Texts /\ <<>> \in Seq(Messages) /\ Len(<<>>) = 0
  BY DEF NoText, Texts
<1> QED BY <1>1 DEF Empty, Builders

(* A fold that was kept, of events that were folded already, and extended by
   the others is like a fold of all of them from nothing. *)
LEMMA KeptFoldIsLike ==
  ASSUME NEW b \in Builders, NEW previous \in Seq(EventRecords), NEW next \in Seq(EventRecords),
         Like(b, Folded(Empty, 0, previous)),
         Len(previous) <= Len(next),
         \A i \in 1..Len(previous) : Alike(previous[i], next[i])
  PROVE  /\ Folded(b, Len(previous), next) \in Builders
         /\ Folded(Empty, 0, next) \in Builders
         /\ Like(Folded(b, Len(previous), next), Folded(Empty, 0, next))
<1>1. PICK m \in Nat, n \in Nat : m = Len(previous) /\ n = Len(next) /\ m <= n
  OBVIOUS
<1>2. /\ \A i \in 1..m : previous[i] \in EventRecords
      /\ \A i \in 1..n : next[i] \in EventRecords
  BY <1>1
<1>3. PICK p : Folds(p, Empty, 0, previous) /\ Folded(Empty, 0, previous) = p[m]
  BY <1>1, FoldedFacts
<1>4. PICK f : Folds(f, Empty, 0, next) /\ Folded(Empty, 0, next) = f[n]
  BY <1>1, FoldedFacts
<1>5. PICK g : Folds(g, b, m, next) /\ Folded(b, m, next) = g[n]
  BY <1>1, FoldedFacts
<1>6. \A i \in 1..m : Alike(previous[i], next[i])
  BY <1>1
<1>7. Like(b, p[m])
  BY <1>3
<1>8. /\ p[0] = Empty /\ f[0] = Empty /\ g[m] = b
      /\ \A i \in 1..m : p[i] = Apply(p[i - 1], previous[i])
      /\ \A i \in 1..n : f[i] = Apply(f[i - 1], next[i])
      /\ \A i \in (m + 1)..n : g[i] = Apply(g[i - 1], next[i])
  BY <1>1, <1>3, <1>4, <1>5 DEF Folds
<1>12. \A i \in Nat : m <= i /\ i + 1 <= n => /\ g[i + 1] = Apply(g[i], next[i + 1])
                                              /\ f[i + 1] = Apply(f[i], next[i + 1])
  <2> SUFFICES ASSUME NEW i \in Nat, m <= i, i + 1 <= n
               PROVE  g[i + 1] = Apply(g[i], next[i + 1]) /\ f[i + 1] = Apply(f[i], next[i + 1])
    OBVIOUS
  <2> DEFINE k == i + 1
  <2>1. k \in (m + 1)..n /\ k \in 1..n /\ k - 1 = i
    BY <1>1
  <2> HIDE DEF k
  <2>2. g[k] = Apply(g[k - 1], next[k]) /\ f[k] = Apply(f[k - 1], next[k])
    BY <1>8, <2>1
  <2>3. g[k] = Apply(g[i], next[k]) /\ f[k] = Apply(f[i], next[k])
    BY <2>1, <2>2
  <2> QED BY <2>3 DEF k
<1>9. \A i \in 0..m : p[i] \in Builders /\ f[i] \in Builders /\ Like(p[i], f[i])
  <2> DEFINE T == {i \in Nat : i <= m => /\ p[i] \in Builders /\ f[i] \in Builders
                                         /\ Like(p[i], f[i])}
  <2>1. 0 \in T
    BY <1>8, EmptyTyped, LikeIsEquivalence
  <2>2. ASSUME NEW i \in T PROVE i + 1 \in T
    <3>1. i \in Nat /\ i + 1 \in Nat /\ (i + 1) - 1 = i
      OBVIOUS
    <3>2. CASE i + 1 <= m
      <4>1. i + 1 \in 1..m /\ i + 1 \in 1..n /\ i <= m
        BY <1>1, <3>1, <3>2
      <4>2. /\ p[i + 1] = Apply(p[i], previous[i + 1]) /\ f[i + 1] = Apply(f[i], next[i + 1])
            /\ previous[i + 1] \in EventRecords /\ next[i + 1] \in EventRecords
            /\ Alike(previous[i + 1], next[i + 1])
        BY <1>2, <1>6, <1>8, <3>1, <4>1
      <4>3. p[i] \in Builders /\ f[i] \in Builders /\ Like(p[i], f[i])
        BY <4>1
      <4> HIDE DEF T
      <4>4. p[i + 1] \in Builders /\ f[i + 1] \in Builders /\ Like(p[i + 1], f[i + 1])
        BY <4>2, <4>3, ApplyTyped, ApplyAlike
      <4> QED BY <3>1, <4>4 DEF T
    <3> QED BY <3>1, <3>2
  <2>3. T \in SUBSET Nat
    OBVIOUS
  <2> HIDE DEF T
  <2>4. \A i \in Nat : i >= 0 => i \in T
    BY <2>1, <2>2, <2>3, SetInduction
  <2> QED BY <1>1, <2>4 DEF T
<1>10. \A i \in m..n : g[i] \in Builders /\ f[i] \in Builders /\ Like(g[i], f[i])
  <2> DEFINE T == {i \in Nat : m <= i /\ i <= n => /\ g[i] \in Builders /\ f[i] \in Builders
                                                   /\ Like(g[i], f[i])}
  <2>1. m \in T
    <3>1. p[m] \in Builders /\ f[m] \in Builders /\ Like(p[m], f[m])
      BY <1>1, <1>9
    <3>2. Like(b, f[m])
      BY <1>7, <3>1, LikeIsEquivalence
    <3> QED BY <1>1, <1>8, <3>1, <3>2
  <2>2. ASSUME NEW i \in T PROVE i + 1 \in T
    <3>1. i \in Nat /\ i + 1 \in Nat /\ (i + 1) - 1 = i
      OBVIOUS
    <3>2. CASE m <= i /\ i + 1 <= n
      <4>1. i + 1 \in 1..n /\ i + 1 \in (m + 1)..n /\ i <= n
        BY <1>1, <3>1, <3>2
      <4>2. /\ g[i + 1] = Apply(g[i], next[i + 1]) /\ f[i + 1] = Apply(f[i], next[i + 1])
            /\ next[i + 1] \in EventRecords
        BY <1>2, <3>1, <3>2, <4>1, <1>12
      <4>3. g[i] \in Builders /\ f[i] \in Builders /\ Like(g[i], f[i])
        BY <3>2, <4>1
      <4>4. Alike(next[i + 1], next[i + 1])
        BY DEF Alike
      <4> HIDE DEF T
      <4>5. g[i + 1] \in Builders /\ f[i + 1] \in Builders /\ Like(g[i + 1], f[i + 1])
        BY <4>2, <4>3, <4>4, ApplyTyped, ApplyAlike
      <4> QED BY <3>1, <4>5 DEF T
    <3>3. CASE i + 1 = m
      <4>1. i + 1 \in T
        BY <2>1, <3>3
      <4> QED BY <4>1
    <3>4. CASE i + 1 < m
      BY <1>1, <3>1, <3>4
    <3> QED BY <1>1, <3>1, <3>2, <3>3, <3>4
  <2>3. T \in SUBSET Nat
    OBVIOUS
  <2> HIDE DEF T
  <2>4. \A i \in Nat : i >= m => i \in T
    BY <1>1, <2>1, <2>2, <2>3, SetInduction
  <2> QED BY <1>1, <2>4 DEF T
<1>11. g[n] \in Builders /\ f[n] \in Builders /\ Like(g[n], f[n])
  BY <1>1, <1>10
<1> QED BY <1>1, <1>4, <1>5, <1>11

-----------------------------------------------------------------------------
(* The invariant. *)

(* The types of what the fold is made of. *)
Typed ==
  /\ queue \in Seq(Texts) /\ asked \in Seq(Texts) /\ turn \in Nat
  /\ todo \in Seq(Writes) /\ rows \in Seq(RowRecords) /\ nextId \in Nat
  /\ bus \in [Runs -> Seq(BusEvents)]
  /\ live \in Seq(EventRecords) /\ builder \in Builders
  /\ mode \in {"live", "canonical"} /\ cursor \in Nat /\ submitted \in Nat
  /\ canonical \in Nat /\ canonical <= Len(rows)
  /\ fetch \in [{"submit", "gap"} -> [at : {"none", "sent", "read"}, rows : Nat]]
  /\ \A of \in {"submit", "gap"} : fetch[of].rows <= Len(rows)

(* The page follows a run there can be. *)
RunsFollowed ==
  /\ stage # "posting" => Len(asked) <= submitted
  /\ stage = "posting" => Len(asked) + 1 <= submitted /\ live # <<>>
  /\ submitted <= MaxTurns
  /\ stage \in {"connecting", "streaming"} => follows \in Runs

(* What the i-th row becomes. *)
RowEvent(i) ==
  [id |-> i - 1, kind |-> TranscriptKind(rows[i].kind),
   text |-> IF rows[i].kind = "tool_call" THEN NoText ELSE rows[i].text,
   key |-> rows[i].key, status |-> rows[i].status, seq |-> rows[i].seq]

(* The i-th event is of the i-th row, or of the page or the stream: it says
   which. *)
FitsRow(e, i) ==
  IF e.seq = 0
  THEN e.kind = "user.message" => e.key = NoKey /\ e.status = ""
  ELSE i \in DOMAIN rows /\ e = RowEvent(i)

LiveFits == \A i \in DOMAIN live : FitsRow(live[i], i)

(* The fold that is kept is like one from nothing. *)
FoldKept == Like(builder, Folded(Empty, 0, Events))

ViewInv == Typed /\ RunsFollowed /\ LiveFits /\ FoldKept

(* It has no event of the stream. *)
Plain(e) == e.seq # 0 \/ e.kind = "user.message"

(* The transcript as the view has it. *)
LEMMA MappedFacts ==
  ASSUME rows \in Seq(RowRecords), NEW n \in Nat, n <= Len(rows)
  PROVE  /\ Mapped(n) \in Seq(EventRecords) /\ Len(Mapped(n)) = n
         /\ \A i \in 1..n : Mapped(n)[i] = RowEvent(i)
         /\ \A i \in 1..n : FitsRow(Mapped(n)[i], i) /\ Plain(Mapped(n)[i])
<1>1. ASSUME NEW i \in 1..n
      PROVE  /\ RowEvent(i) \in EventRecords /\ RowEvent(i).seq # 0
             /\ Mapped(n)[i] = RowEvent(i) /\ i \in DOMAIN rows
  <2>1. i \in 1..Len(rows) /\ i \in DOMAIN rows /\ rows[i] \in RowRecords /\ i - 1 \in Nat
    OBVIOUS
  <2>2. /\ rows[i].kind \in RowKinds /\ rows[i].text \in Texts /\ rows[i].key \in Keys
        /\ rows[i].status \in Statuses /\ rows[i].seq \in Nat \ {0}
    BY <2>1 DEF RowRecords
  <2>3. TranscriptKind(rows[i].kind) \in EventKinds
    BY <2>2 DEF TranscriptKind, RowKinds, EventKinds, BusKinds
  <2>4. NoText \in Texts
    BY DEF NoText, Texts
  <2>5. RowEvent(i) \in EventRecords /\ RowEvent(i).seq # 0
    BY <2>1, <2>2, <2>3, <2>4 DEF RowEvent, EventRecords
  <2>6. Mapped(n)[i] = RowEvent(i)
    BY DEF Mapped, RowEvent
  <2> QED BY <2>1, <2>5, <2>6
<1>2. Mapped(n) = [i \in 1..n |-> RowEvent(i)]
  BY DEF Mapped, RowEvent
<1>3. Mapped(n) \in Seq(EventRecords) /\ Len(Mapped(n)) = n
  BY <1>1, <1>2
<1> QED BY <1>1, <1>3 DEF FitsRow, Plain

(* Whichever of the two is shown. *)
LEMMA ShownFacts ==
  ASSUME rows \in Seq(RowRecords), NEW l \in Seq(EventRecords), \A i \in DOMAIN l : FitsRow(l[i], i),
         NEW m, NEW n \in Nat, n <= Len(rows)
  PROVE  /\ Shown(m, l, n) \in Seq(EventRecords)
         /\ \A i \in 1..Len(Shown(m, l, n)) : FitsRow(Shown(m, l, n)[i], i)
         /\ m # "live" => \A i \in 1..Len(Shown(m, l, n)) : Plain(Shown(m, l, n)[i])
<1>1. CASE m = "live"
  BY <1>1 DEF Shown
<1>2. CASE m # "live"
  <2>1. Shown(m, l, n) = Mapped(n)
    BY <1>2 DEF Shown
  <2> QED BY <1>2, <2>1, MappedFacts
<1> QED BY <1>1, <1>2

(* Events of one place that are the same to the view are alike, unless both
   are of the stream. *)
LEMMA SameAreAlike ==
  ASSUME NEW e, NEW f, NEW i, FitsRow(e, i), FitsRow(f, i), SameEvent(e, f), Plain(e) \/ Plain(f)
  PROVE  Alike(e, f)
BY DEF FitsRow, SameEvent, Plain, Alike

(* From nothing. *)
LEMMA FoldFromNothing ==
  ASSUME NEW next \in Seq(EventRecords)
  PROVE  Folded(Empty, 0, next) \in Builders /\ Like(Empty, Folded(Empty, 0, <<>>))
<1>1. <<>> \in Seq(EventRecords) /\ Len(<<>>) = 0
  OBVIOUS
<1>2. PICK f : Folds(f, Empty, 0, <<>>) /\ Folded(Empty, 0, <<>>) = f[0]
  BY <1>1, FoldedFacts
<1>3. Like(Empty, Folded(Empty, 0, <<>>))
  BY <1>2, LikeIsEquivalence DEF Folds
<1>4. Len(<<>>) <= Len(next) /\ \A i \in 1..Len(<<>>) : Alike(<<>>[i], next[i])
  BY <1>1
<1>5. Folded(Empty, 0, next) \in Builders
  BY <1>1, <1>3, <1>4, EmptyTyped, KeptFoldIsLike
<1> QED BY <1>3, <1>5

(* A rendering keeps the fold. *)
LEMMA RenderKeeps ==
  ASSUME Typed, LiveFits, FoldKept, Render,
         rows' = rows, live' \in Seq(EventRecords), LiveFits', canonical' \in Nat, canonical' <= Len(rows),
         \/ live' = live
         \/ \E e \in EventRecords : live' = Append(live, e)
         \/ \A i \in DOMAIN live' : Plain(live'[i])
  PROVE  builder' \in Builders /\ FoldKept'
<1> DEFINE previous == Events
           next == Shown(mode', live', canonical')
<1>1. builder' = Rendered(previous, next)
  BY DEF Render
<1>2. Events' = next
  BY DEF Events, Shown, Mapped
<1>3. /\ previous \in Seq(EventRecords)
      /\ \A i \in 1..Len(previous) : FitsRow(previous[i], i)
      /\ mode # "live" => \A i \in 1..Len(previous) : Plain(previous[i])
  BY ShownFacts DEF Typed, LiveFits, Events
<1>4. /\ next \in Seq(EventRecords)
      /\ \A i \in 1..Len(next) : FitsRow(next[i], i)
      /\ mode' # "live" => \A i \in 1..Len(next) : Plain(next[i])
  <2>1. \A i \in DOMAIN live' : FitsRow(live'[i], i)
    BY DEF LiveFits, FitsRow, RowEvent
  <2> QED BY <2>1, ShownFacts DEF Typed
<1>5. mode = "live" => previous = live
  BY DEF Events, Shown
<1>6. mode' = "live" => next = live'
  BY DEF Shown
<1>7. builder \in Builders /\ live \in Seq(EventRecords)
  BY DEF Typed
<1>8. Like(builder, Folded(Empty, 0, previous))
  BY DEF FoldKept
<1> HIDE DEF previous, next
<1>9. CASE IsPrefixExtension(previous, next)
  <2>1. Len(previous) <= Len(next) /\ \A i \in 1..Len(previous) : SameEvent(previous[i], next[i])
    BY <1>3, <1>4, <1>9 DEF IsPrefixExtension
  <2>2. ASSUME NEW i \in 1..Len(previous) PROVE Alike(previous[i], next[i])
    <3>1. i \in 1..Len(next) /\ SameEvent(previous[i], next[i]) /\ FitsRow(previous[i], i) /\ FitsRow(next[i], i)
      BY <1>3, <1>4, <2>1
    <3>2. CASE Plain(previous[i]) \/ Plain(next[i])
      BY <3>1, <3>2, SameAreAlike
    <3>3. CASE ~Plain(previous[i]) /\ ~Plain(next[i])
      <4>1. mode = "live" /\ mode' = "live"
        BY <1>3, <1>4, <3>1, <3>3
      <4>2. previous = live /\ next = live'
        BY <1>5, <1>6, <4>1
      <4>3. ~\A j \in DOMAIN live' : Plain(live'[j])
        BY <1>4, <3>1, <3>3, <4>2
      <4>4. previous[i] = next[i]
        <5>1. CASE live' = live
          BY <4>2, <5>1
        <5>2. CASE \E e \in EventRecords : live' = Append(live, e)
          BY <1>7, <4>2, <5>2
        <5> QED BY <4>3, <5>1, <5>2
      <4> QED BY <4>4 DEF Alike
    <3> QED BY <3>2, <3>3
  <2>3. /\ Folded(builder, Len(previous), next) \in Builders
        /\ Like(Folded(builder, Len(previous), next), Folded(Empty, 0, next))
    BY <1>3, <1>4, <1>7, <1>8, <2>1, <2>2, KeptFoldIsLike
  <2>4. builder' = Folded(builder, Len(previous), next)
    BY <1>1, <1>9 DEF Rendered
  <2>5. FoldKept' <=> Like(builder', Folded(Empty, 0, Events'))
    BY DEF FoldKept, Like, Folded, Apply, Empty
  <2> QED BY <1>2, <2>3, <2>4, <2>5
<1>10. CASE ~IsPrefixExtension(previous, next)
  <2>1. builder' = Folded(Empty, 0, next)
    BY <1>1, <1>10 DEF Rendered
  <2>2. builder' \in Builders
    BY <1>4, <2>1, FoldFromNothing
  <2>3. Like(builder', Folded(Empty, 0, Events'))
    BY <1>2, <2>1, LikeIsEquivalence
  <2> QED BY <2>2, <2>3 DEF FoldKept
<1> QED BY <1>9, <1>10

(* It holds at first. *)
LEMMA InitViewInv == ViewInit => ViewInv
<1> SUFFICES ASSUME ViewInit PROVE ViewInv
  OBVIOUS
<1>1. /\ <<>> \in Seq(Texts) /\ <<>> \in Seq(Writes) /\ <<>> \in Seq(RowRecords)
      /\ <<>> \in Seq(EventRecords) /\ <<>> \in Seq(BusEvents) /\ Len(<<>>) = 0
  OBVIOUS
<1>2. Typed
  BY <1>1, EmptyTyped DEF ViewInit, Typed
<1>3. RunsFollowed
  BY <1>1, ConversationAssumption DEF ViewInit, RunsFollowed
<1>4. LiveFits
  BY DEF ViewInit, LiveFits
<1>5. FoldKept
  <2>1. Events = <<>> /\ builder = Empty
    BY DEF ViewInit, Events, Shown
  <2> QED BY <1>1, <2>1, FoldFromNothing DEF FoldKept
<1> QED BY <1>2, <1>3, <1>4, <1>5 DEF ViewInv

(* A sequence of one. *)
LEMMA SingletonTyped ==
  ASSUME NEW S, NEW x \in S
  PROVE  <<x>> \in Seq(S)
<1>1. <<x>> = [i \in 1..1 |-> x]
  OBVIOUS
<1>2. [i \in 1..1 |-> x] \in Seq(S)
  OBVIOUS
<1> QED BY <1>1, <1>2

(* A run writes its question first, and of what it says only its own. *)
WritesOf(r) ==
  {w \in Writes :
     /\ w.row # "user_message"
     /\ w.row = "assistant_message" \/ w.event = "assistant.delta" =>
          \A n \in DOMAIN w.text : w.text[n][1] = r}

(* What a run writes: its question, and what is its own. *)
LEMMA ScriptOfRun ==
  ASSUME NEW r \in Nat, NEW m \in Texts, NEW shape
  PROVE  /\ Script(r, m, shape) \in Seq(Writes) /\ Script(r, m, shape) # <<>>
         /\ Head(Script(r, m, shape)) = Written("user_message", "", m, NoKey, "")
         /\ Tail(Script(r, m, shape)) \in Seq(WritesOf(r))
<1>1. MaxWords \in Nat
  BY ConversationAssumption
<1>2. Key(r) \in Keys /\ NoKey \in Keys /\ NoText \in Texts
  BY DEF Key, Keys, NoKey, NoText, Texts
<1>3. \A call \in Nat : Words(r, call) \in Texts /\ \A n \in DOMAIN Words(r, call) : Words(r, call)[n][1] = r
  BY <1>1 DEF Words, Texts
<1>4. ASSUME NEW row \in (RowKinds \cup {""}) \ {"user_message"}, NEW event \in BusKinds \cup {""},
             NEW text \in Texts, NEW key \in Keys, NEW status \in Statuses,
             row = "assistant_message" \/ event = "assistant.delta" => \A n \in DOMAIN text : text[n][1] = r
      PROVE  Written(row, event, text, key, status) \in WritesOf(r)
             /\ Write(row, event, text, key, status) \in Seq(WritesOf(r))
  <2>1. Written(row, event, text, key, status) \in WritesOf(r)
    BY <1>4 DEF Written, Writes, WritesOf
  <2>2. \A w \in WritesOf(r) : <<w>> \in Seq(WritesOf(r))
    BY SingletonTyped
  <2>3. Write(row, event, text, key, status) = <<Written(row, event, text, key, status)>>
    BY DEF Write
  <2> QED BY <2>1, <2>2, <2>3
<1>5. \A call \in Nat : Deltas(r, call) \in Seq(WritesOf(r))
  <2> SUFFICES ASSUME NEW call \in Nat PROVE Deltas(r, call) \in Seq(WritesOf(r))
    OBVIOUS
  <2>1. ASSUME NEW i \in 1..MaxWords
        PROVE  Written("", "assistant.delta", <<<<r, call, i>>>>, NoKey, "") \in WritesOf(r)
    <3>1. <<<<r, call, i>>>> \in Texts /\ \A n \in DOMAIN <<<<r, call, i>>>> : <<<<r, call, i>>>>[n][1] = r
      BY <1>1 DEF Texts
    <3>2. "" \in (RowKinds \cup {""}) \ {"user_message"} /\ "assistant.delta" \in BusKinds \cup {""}
          /\ "" \in Statuses
      BY DEF BusKinds, Statuses
    <3> QED BY <1>2, <1>4, <3>1, <3>2
  <2>2. Deltas(r, call) \in [1..MaxWords -> WritesOf(r)]
    BY <2>1 DEF Deltas
  <2>3. \A n \in Nat : \A x \in [1..n -> WritesOf(r)] : x \in Seq(WritesOf(r))
    OBVIOUS
  <2> QED BY <1>1, <2>2, <2>3
<1> DEFINE S == Seq(WritesOf(r))
<1>6. \A x \in S, y \in S : x \o y \in S
  OBVIOUS
<1>7. ASSUME NEW feature, NEW x \in S PROVE Part(feature, shape, x) \in S
  BY DEF Part
<1>8. \A row \in {"", "lifecycle"}, event \in {"", "lifecycle"}, status \in Statuses :
        Write(row, event, NoText, NoKey, status) \in S
  BY <1>2, <1>4 DEF RowKinds, BusKinds
<1>9. Write("assistant_message", "", Words(r, 2), NoKey, "") \in S
  BY <1>2, <1>3, <1>4 DEF RowKinds, BusKinds, Statuses
<1>10. Approve(r) \in S
  <2>1. Write("approval_request", "approval.request", NoText, Key(r), "") \in S
        /\ Write("approval_resolution", "approval.resolution", NoText, Key(r), "approve") \in S
    BY <1>2, <1>4 DEF RowKinds, BusKinds, Statuses
  <2> QED BY <1>6, <2>1 DEF Approve
<1>11. Delegate(r) \in S
  <2>1. Write("lifecycle", "subagent.start", NoText, Key(r), "") \in S
        /\ Write("lifecycle", "subagent.complete", NoText, Key(r), "complete") \in S
    BY <1>2, <1>4 DEF RowKinds, BusKinds, Statuses
  <2> QED BY <1>6, <2>1 DEF Delegate
<1>12. ToolCall(r, shape) \in S
  <2>1. Write("tool_call", "tool.call", Words(r, 1), Key(r), "") \in S
        /\ Write("tool_result", "tool.result", NoText, Key(r), "") \in S
    BY <1>2, <1>3, <1>4 DEF RowKinds, BusKinds, Statuses
  <2>2. Deltas(r, 1) \in S /\ Part("approval", shape, Approve(r)) \in S
        /\ Part("delegate", shape, Delegate(r)) \in S
    BY <1>5, <1>7, <1>10, <1>11
  <2> QED BY <1>6, <2>1, <2>2 DEF ToolCall
<1>13. Part("tool", shape, ToolCall(r, shape)) \in S /\ Deltas(r, 2) \in S
  BY <1>5, <1>7, <1>12
<1>14. \A y \in S : y \in Seq(Writes)
  BY DEF WritesOf
<1> DEFINE first == Written("user_message", "", m, NoKey, "")
           L == {s \in Seq(Writes) : /\ s # <<>> /\ s[1] = first
                                     /\ \A i \in 2..Len(s) : s[i] \in WritesOf(r)}
<1>15. Write("user_message", "", m, NoKey, "") \in L
  <2>1. first \in Writes
    BY <1>2 DEF Written, Writes, RowKinds, Statuses
  <2> HIDE DEF first
  <2>2. <<first>> \in Seq(Writes) /\ Len(<<first>>) = 1 /\ <<first>>[1] = first /\ <<first>> # <<>>
    BY <2>1, SingletonTyped
  <2>3. <<first>> \in L
    BY <2>2
  <2> QED BY <2>3 DEF Write, first
<1>16. ASSUME NEW x \in L, NEW y \in S PROVE x \o y \in L
  <2>1. /\ x \in Seq(Writes) /\ x # <<>> /\ x[1] = first
        /\ \A i \in 2..Len(x) : x[i] \in WritesOf(r)
    OBVIOUS
  <2>2. y \in Seq(WritesOf(r)) /\ y \in Seq(Writes)
    BY <1>14
  <2> HIDE DEF first
  <2>3. /\ x \o y \in Seq(Writes) /\ Len(x \o y) = Len(x) + Len(y) /\ Len(x) \in Nat /\ Len(y) \in Nat
        /\ Len(x) >= 1
    BY <2>1, <2>2
  <2>4. \A i \in 1..(Len(x) + Len(y)) : (x \o y)[i] = IF i <= Len(x) THEN x[i] ELSE y[i - Len(x)]
    BY <2>1, <2>2
  <2>5. \A i \in 1..Len(y) : y[i] \in WritesOf(r)
    BY <2>2
  <2>6. ASSUME NEW i \in 2..Len(x \o y) PROVE (x \o y)[i] \in WritesOf(r)
    <3>1. i \in 1..(Len(x) + Len(y)) /\ (i <= Len(x) => i \in 2..Len(x))
          /\ (i > Len(x) => i - Len(x) \in 1..Len(y))
      BY <2>3
    <3>2. CASE i <= Len(x)
      BY <2>1, <2>4, <3>1, <3>2
    <3>3. CASE i > Len(x)
      BY <2>3, <2>4, <2>5, <3>1, <3>3
    <3> QED BY <2>3, <3>2, <3>3
  <2>7. x \o y # <<>> /\ (x \o y)[1] = first
    <3>1. 1 \in 1..(Len(x) + Len(y))
      BY <2>3
    <3> QED BY <2>1, <2>3, <2>4, <3>1
  <2> QED BY <2>3, <2>6, <2>7
<1> HIDE DEF L, S
<1>17. Script(r, m, shape) \in L
  <2>1. /\ Write("lifecycle", "lifecycle", NoText, NoKey, "started") \in S
        /\ Write("lifecycle", "lifecycle", NoText, NoKey, "complete") \in S
        /\ Write("", "", NoText, NoKey, "finished") \in S
        /\ Write("", "", NoText, NoKey, "trim") \in S
    BY <1>8 DEF Statuses
  <2> QED BY <1>9, <1>13, <1>15, <1>16, <2>1 DEF Script
<1> DEFINE s == Script(r, m, shape)
<1>18. s \in Seq(Writes) /\ s # <<>> /\ s[1] = first /\ \A i \in 2..Len(s) : s[i] \in WritesOf(r)
  BY <1>17 DEF L
<1> HIDE DEF s, first
<1>19. Head(s) = first /\ Tail(s) \in Seq(WritesOf(r))
  <2>1. Tail(s) \in Seq(Writes) /\ Len(Tail(s)) = Len(s) - 1 /\ Len(s) \in Nat /\ Len(s) >= 1
        /\ \A i \in 1..Len(Tail(s)) : Tail(s)[i] = s[i + 1]
    BY <1>18
  <2>2. \A i \in 1..Len(Tail(s)) : Tail(s)[i] \in WritesOf(r)
    BY <1>18, <2>1
  <2>3. \A x \in Seq(Writes) : (\A i \in 1..Len(x) : x[i] \in WritesOf(r)) => x \in Seq(WritesOf(r))
    OBVIOUS
  <2>4. PICK t \in Seq(Writes) : t = Tail(s)
    BY <2>1
  <2>5. t \in Seq(WritesOf(r))
    BY <2>2, <2>3, <2>4
  <2>6. Head(s) = first
    BY <1>18
  <2> QED BY <2>4, <2>5, <2>6
<1> QED BY <1>18, <1>19 DEF s, first

(* Nothing was rendered, nor anything loaded. *)
LEMMA QuietKeeps ==
  ASSUME ViewInv, UNCHANGED <<rows, live, canonical, mode, builder>>
  PROVE  LiveFits' /\ FoldKept'
<1>1. LiveFits'
  BY DEF ViewInv, LiveFits, FitsRow, RowEvent
<1>2. Events' = Events
  BY DEF Events, Shown, Mapped
<1>3. FoldKept'
  BY <1>2 DEF ViewInv, FoldKept
<1> QED BY <1>1, <1>3

(* The session begins a run. *)
LEMMA BeginRunKeeps == ViewInv /\ BeginRun => ViewInv'
<1> SUFFICES ASSUME ViewInv, BeginRun PROVE ViewInv'
  OBVIOUS
<1>1. LiveFits' /\ FoldKept'
  BY QuietKeeps DEF BeginRun, pageState
<1>2. PICK shape \in Shapes : todo' = Script(turn + 1, Head(queue), shape)
  BY DEF BeginRun
<1>3. queue \in Seq(Texts) /\ queue # <<>> /\ turn + 1 \in Nat
  BY DEF ViewInv, Typed, BeginRun
<1>4. Head(queue) \in Texts /\ Tail(queue) \in Seq(Texts)
  BY <1>3
<1>5. todo' \in Seq(Writes)
  BY <1>2, <1>3, <1>4, ScriptOfRun
<1>6. Typed'
  BY <1>3, <1>4, <1>5 DEF ViewInv, Typed, BeginRun, pageState, bounds
<1>7. RunsFollowed'
  BY DEF ViewInv, RunsFollowed, BeginRun, pageState, bounds
<1> QED BY <1>1, <1>6, <1>7 DEF ViewInv

(* A row has a number of its run. *)
LEMMA RowCounted ==
  ASSUME rows \in Seq(RowRecords)
  PROVE  Cardinality(RunRows) + 1 \in Nat \ {0}
<1>1. IsFiniteSet(1..Len(rows)) /\ DOMAIN rows = 1..Len(rows)
  BY FS_Interval
<1>2. RunRows \subseteq 1..Len(rows)
  BY <1>1 DEF RunRows
<1>3. IsFiniteSet(RunRows)
  BY <1>1, <1>2, FS_Subset
<1> QED BY <1>3, FS_CardinalityType

(* A run that stops leaves what it wrote. *)
LEMMA RunStopsKeeps == ViewInv /\ RunStops => ViewInv'
<1> SUFFICES ASSUME ViewInv, RunStops PROVE ViewInv'
  OBVIOUS
<1>1. LiveFits' /\ FoldKept'
  BY QuietKeeps DEF RunStops, pageState
<1>2. todo' = <<>> /\ todo' \in Seq(Writes)
  BY DEF RunStops
<1>3. Typed'
  BY <1>2 DEF ViewInv, Typed, RunStops, pageState, bounds
<1>4. RunsFollowed'
  BY DEF ViewInv, RunsFollowed, RunStops, pageState, bounds
<1> QED BY <1>1, <1>3, <1>4 DEF ViewInv

(* A row is added below those there are: what the view has of them stays. *)
LEMMA RunWritesKeeps == ViewInv /\ RunWrites => ViewInv'
<1> SUFFICES ASSUME ViewInv, RunWrites PROVE ViewInv'
  OBVIOUS
<1> DEFINE w == Head(todo)
<1>1. /\ todo \in Seq(Writes) /\ todo # <<>> /\ rows \in Seq(RowRecords) /\ turn \in Nat /\ nextId \in Nat
      /\ bus \in [Runs -> Seq(BusEvents)]
  BY DEF ViewInv, Typed, RunWrites
<1>2. w \in Writes /\ Tail(todo) \in Seq(Writes)
  BY <1>1
<1>3. /\ w.row \in RowKinds \cup {""} /\ w.event \in BusKinds \cup {""} /\ w.text \in Texts
      /\ w.key \in Keys /\ w.status \in Statuses
  BY <1>2 DEF Writes
<1>4. Perform(w) /\ todo' = Tail(todo) /\ UNCHANGED <<queue, turn, asked, pageState, bounds>>
  BY DEF RunWrites
<1> HIDE DEF w
<1>5. Cardinality(RunRows) + 1 \in Nat \ {0}
  BY <1>1, RowCounted
<1>6. rows' \in Seq(RowRecords) /\ Len(rows') >= Len(rows)
      /\ \A i \in DOMAIN rows : i \in DOMAIN rows' /\ rows'[i] = rows[i]
  <2>1. CASE w.row = ""
    <3>1. rows' = rows
      BY <1>4, <2>1 DEF Perform
    <3> QED BY <1>1, <3>1
  <2>2. CASE w.row # ""
    <3> DEFINE row == [kind |-> w.row, text |-> w.text, key |-> w.key, status |-> w.status,
                       seq |-> Cardinality(RunRows) + 1, run |-> turn]
    <3>1. row \in RowRecords
      BY <1>1, <1>3, <1>5, <2>2 DEF RowRecords
    <3>2. rows' = Append(rows, row)
      BY <1>4, <2>2 DEF Perform
    <3> HIDE DEF row
    <3> QED BY <1>1, <3>1, <3>2
  <2> QED BY <2>1, <2>2
<1>7. bus' \in [Runs -> Seq(BusEvents)] /\ nextId' \in Nat
  <2>1. CASE w.event = ""
    BY <1>1, <1>4, <2>1 DEF Perform
  <2>2. CASE w.event # ""
    <3> DEFINE event == [id |-> nextId + 1, kind |-> w.event, key |-> w.key, status |-> w.status,
                         seq |-> 0, text |-> IF w.event = "tool.call" THEN NoText ELSE w.text]
    <3>1. event \in BusEvents
      <4>1. (IF w.event = "tool.call" THEN NoText ELSE w.text) \in Texts
        <5>1. NoText \in Texts
          BY DEF NoText, Texts
        <5> QED BY <1>3, <5>1
      <4>2. w.event \in BusKinds /\ w.event \in EventKinds /\ nextId + 1 \in Nat /\ 0 \in Nat
        <5>1. w.event \in BusKinds
          BY <1>3, <2>2
        <5> QED BY <1>1, <5>1 DEF EventKinds
      <4>3. event \in EventRecords
        BY <1>3, <4>1, <4>2 DEF EventRecords
      <4>4. event.kind = w.event /\ event.seq = 0
        OBVIOUS
      <4> HIDE DEF event
      <4> QED BY <4>2, <4>3, <4>4 DEF BusEvents
    <3>2. bus' = [bus EXCEPT ![turn] = Append(@, event)] /\ nextId' = nextId + 1
      BY <1>4, <2>2 DEF Perform
    <3> HIDE DEF event
    <3>3. \A x \in Seq(BusEvents) : Append(x, event) \in Seq(BusEvents)
      BY <3>1
    <3>4. bus' \in [Runs -> Seq(BusEvents)]
      BY <1>1, <3>2, <3>3
    <3> QED BY <1>1, <3>2, <3>4
  <2> QED BY <2>1, <2>2
<1>8. Typed'
  BY <1>2, <1>4, <1>6, <1>7 DEF ViewInv, Typed, pageState, bounds
<1>9. RunsFollowed'
  BY <1>4 DEF ViewInv, RunsFollowed, pageState, bounds
<1>10. \A i \in DOMAIN rows : RowEvent(i)' = RowEvent(i)
  BY <1>6 DEF RowEvent
<1>11. LiveFits'
  <2>1. ASSUME NEW i \in DOMAIN live PROVE FitsRow(live[i], i)'
    <3>1. FitsRow(live[i], i) /\ live' = live
      BY <1>4 DEF ViewInv, LiveFits, pageState
    <3> QED BY <1>6, <1>10, <3>1 DEF FitsRow
  <2> QED BY <1>4, <2>1 DEF LiveFits, pageState
<1>12. FoldKept'
  <2>1. canonical \in Nat /\ canonical <= Len(rows) /\ UNCHANGED <<live, canonical, mode, builder>>
    BY <1>4 DEF ViewInv, Typed, pageState
  <2>2. Mapped(canonical)' = Mapped(canonical)
    <3>1. \A i \in 1..canonical : i \in DOMAIN rows
      BY <1>1, <2>1
    <3> QED BY <1>6, <2>1, <3>1 DEF Mapped
  <2>3. Events' = Events
    BY <2>1, <2>2 DEF Events, Shown
  <2> QED BY <2>1, <2>3 DEF ViewInv, FoldKept
<1> QED BY <1>8, <1>9, <1>11, <1>12 DEF ViewInv

(* The live events stay where they are, or one of the stream is added. *)
LEMMA LiveFitsStill ==
  ASSUME ViewInv, rows' = rows,
         live' = live \/ \E e \in EventRecords : e.seq = 0 /\ FitsRow(e, 1) /\ live' = Append(live, e)
  PROVE  live' \in Seq(EventRecords) /\ LiveFits'
<1>1. live \in Seq(EventRecords) /\ \A i \in DOMAIN live : FitsRow(live[i], i)
  BY DEF ViewInv, Typed, LiveFits
<1>2. CASE live' = live
  BY <1>1, <1>2 DEF LiveFits, FitsRow, RowEvent
<1>3. CASE live' # live
  <2>1. PICK e \in EventRecords : e.seq = 0 /\ FitsRow(e, 1) /\ live' = Append(live, e)
    BY <1>3
  <2>2. \A i : FitsRow(e, i)
    BY <2>1 DEF FitsRow
  <2>3. ASSUME NEW i \in DOMAIN live' PROVE FitsRow(live'[i], i)
    <3>1. live'[i] = IF i = Len(live) + 1 THEN e ELSE live[i]
      BY <1>1, <2>1
    <3>2. i # Len(live) + 1 => i \in DOMAIN live
      BY <1>1, <2>1
    <3> QED BY <1>1, <2>2, <3>1, <3>2
  <2>4. LiveFits'
    BY <2>3 DEF LiveFits, FitsRow, RowEvent
  <2> QED BY <1>1, <2>1, <2>4
<1> QED BY <1>2, <1>3

(* The live view is the transcript again, with the message of the user: no
   event of a stream is in it, so the fold of what was shown before is kept
   only where it is like the rows. *)
LEMMA SubmitKeeps == ViewInv /\ Submit => ViewInv'
<1> SUFFICES ASSUME ViewInv, Submit PROVE ViewInv'
  OBVIOUS
<1>1. /\ rows \in Seq(RowRecords) /\ canonical \in Nat /\ canonical <= Len(rows) /\ submitted \in Nat
      /\ submitted < MaxTurns /\ MaxTurns \in Nat
      /\ Len(asked) <= submitted
  BY ConversationAssumption DEF ViewInv, Typed, RunsFollowed, Submit, Running
<1>2. /\ UNCHANGED <<session, asked, follows, cursor, canonical, fetch, toggled>>
      /\ mode' = "live" /\ stage' = "posting" /\ submitted' = submitted + 1 /\ Render
      /\ live' = Append(Mapped(canonical), UserEvent(Question))
  BY DEF Submit
<1> DEFINE e == UserEvent(Question)
<1>3. e \in EventRecords /\ e.seq = 0 /\ e.kind = "user.message" /\ \A i : FitsRow(e, i)
  <2>1. Question \in Texts
    BY <1>1 DEF Question, Texts
  <2>2. e.seq = 0 /\ e.kind = "user.message" /\ e.key = NoKey /\ e.status = ""
    BY DEF UserEvent
  <2>3. e \in EventRecords
    BY <1>1, <2>1 DEF UserEvent, EventRecords, EventKinds, NoKey, Keys, Statuses
  <2> HIDE DEF e
  <2> QED BY <2>2, <2>3 DEF FitsRow
<1>4. live' = Append(Mapped(canonical), e)
  BY <1>2
<1> HIDE DEF e
<1>5. /\ Mapped(canonical) \in Seq(EventRecords) /\ Len(Mapped(canonical)) = canonical
      /\ \A i \in 1..canonical : FitsRow(Mapped(canonical)[i], i) /\ Plain(Mapped(canonical)[i])
  BY <1>1, MappedFacts
<1>6. live' \in Seq(EventRecords) /\ Len(live') = canonical + 1
  BY <1>3, <1>4, <1>5
<1>7. ASSUME NEW i \in DOMAIN live' PROVE FitsRow(live'[i], i) /\ Plain(live'[i])
  <2>1. live'[i] = IF i = canonical + 1 THEN e ELSE Mapped(canonical)[i]
    BY <1>1, <1>3, <1>4, <1>5, <1>6
  <2>2. i # canonical + 1 => i \in 1..canonical
    BY <1>1, <1>6
  <2>3. Plain(e)
    BY <1>3 DEF Plain
  <2> QED BY <1>3, <1>5, <2>1, <2>2, <2>3
<1>8. rows' = rows
  BY <1>2 DEF session
<1>9. LiveFits'
  BY <1>7, <1>8 DEF LiveFits, FitsRow, RowEvent
<1>10. canonical' = canonical
  BY <1>2
<1>11. builder' \in Builders /\ FoldKept'
  BY <1>1, <1>2, <1>6, <1>7, <1>8, <1>9, <1>10, RenderKeeps DEF ViewInv
<1>12. Typed'
  BY <1>1, <1>2, <1>6, <1>11 DEF ViewInv, Typed, session
<1>13. RunsFollowed'
  <2>1. live' # <<>>
    BY <1>1, <1>6
  <2> QED BY <1>1, <1>2, <2>1 DEF RunsFollowed
<1> QED BY <1>9, <1>11, <1>12, <1>13 DEF ViewInv

(* The turn is one more that was asked. *)
LEMMA AcceptedKeeps == ViewInv /\ Accepted => ViewInv'
<1> SUFFICES ASSUME ViewInv, Accepted PROVE ViewInv'
  OBVIOUS
<1>1. LiveFits' /\ FoldKept'
  BY QuietKeeps DEF Accepted
<1>2. /\ live \in Seq(EventRecords) /\ live # <<>> /\ queue \in Seq(Texts) /\ asked \in Seq(Texts)
      /\ Len(asked) + 1 <= submitted /\ submitted <= MaxTurns /\ submitted \in Nat /\ MaxTurns \in Nat
      /\ cursor \in Nat
  BY ConversationAssumption DEF ViewInv, Typed, RunsFollowed, Accepted
<1>3. Asking \in Texts
  <2>1. live[Len(live)] \in EventRecords
    BY <1>2
  <2> QED BY <2>1 DEF Asking, Last, EventRecords
<1>4. /\ queue' = Append(queue, Asking) /\ asked' = Append(asked, Asking)
      /\ \/ stage' = "connecting" /\ follows' = Len(asked) + 1 /\ cursor' = 0
         \/ stage' = "idle" /\ UNCHANGED <<follows, cursor>>
      /\ UNCHANGED <<turn, todo, rows, bus, trimmed, finished, nextId, live, canonical, mode, fetch,
                     builder, bounds>>
  BY DEF Accepted
<1>5. queue' \in Seq(Texts) /\ asked' \in Seq(Texts) /\ Len(asked') = Len(asked) + 1 /\ Len(asked) \in Nat
      /\ cursor' \in Nat
  BY <1>2, <1>3, <1>4
<1>6. Typed'
  BY <1>4, <1>5 DEF ViewInv, Typed, bounds
<1>7. RunsFollowed'
  BY <1>2, <1>4, <1>5 DEF RunsFollowed, Runs, bounds
<1> QED BY <1>1, <1>6, <1>7 DEF ViewInv

(* It was not asked. *)
LEMMA RefusedKeeps == ViewInv /\ Refused => ViewInv'
<1> SUFFICES ASSUME ViewInv, Refused PROVE ViewInv'
  OBVIOUS
<1>1. LiveFits' /\ FoldKept'
  BY QuietKeeps DEF Refused, session
<1>2. Typed'
  BY DEF ViewInv, Typed, Refused, session, bounds
<1>3. RunsFollowed'
  <2>1. Len(asked) \in Nat /\ submitted \in Nat
    BY DEF ViewInv, Typed
  <2> QED BY <2>1 DEF ViewInv, RunsFollowed, Refused, session, bounds
<1> QED BY <1>1, <1>2, <1>3 DEF ViewInv

(* Calls of the transcript. *)
Fetches == [{"submit", "gap"} -> [at : {"none", "sent", "read"}, rows : Nat]]

(* A call knows no row that is not there. *)
LEMMA FetchTyped ==
  ASSUME fetch \in Fetches, NEW of \in {"submit", "gap"}, NEW at \in {"none", "sent", "read"},
         NEW n \in Nat, NEW k \in Nat, \A o \in {"submit", "gap"} : fetch[o].rows <= k, n <= k,
         fetch' = [fetch EXCEPT ![of] = [at |-> at, rows |-> n]]
  PROVE  fetch' \in Fetches /\ \A o \in {"submit", "gap"} : fetch'[o].rows <= k
BY DEF Fetches

(* At its start it knows none. *)
LEMMA StartFetchTyped ==
  ASSUME Typed, NEW of \in {"submit", "gap"}, StartFetch(of)
  PROVE  fetch' \in Fetches /\ \A o \in {"submit", "gap"} : fetch'[o].rows <= Len(rows)
<1>1. Len(rows) \in Nat /\ 0 \in Nat /\ 0 <= Len(rows)
  BY DEF Typed
<1> QED BY <1>1, FetchTyped DEF Typed, Fetches, StartFetch

(* The stream is opened, or given up. *)
LEMMA ConnectKeeps == ViewInv /\ Connect => ViewInv'
<1> SUFFICES ASSUME ViewInv, Connect PROVE ViewInv'
  OBVIOUS
<1>1. LiveFits' /\ FoldKept'
  BY QuietKeeps DEF Connect, session
<1>2. fetch' \in Fetches /\ \A o \in {"submit", "gap"} : fetch'[o].rows <= Len(rows)
  BY StartFetchTyped DEF ViewInv, Typed, Fetches, Connect
<1>3. Typed'
  BY <1>2 DEF ViewInv, Typed, Fetches, Connect, session, bounds
<1>4. RunsFollowed'
  BY DEF ViewInv, RunsFollowed, Connect, session, bounds, Runs
<1> QED BY <1>1, <1>3, <1>4 DEF ViewInv

(* The stream is over early. *)
LEMMA StreamBreaksKeeps == ViewInv /\ StreamBreaks => ViewInv'
<1> SUFFICES ASSUME ViewInv, StreamBreaks PROVE ViewInv'
  OBVIOUS
<1>1. LiveFits' /\ FoldKept'
  BY QuietKeeps DEF StreamBreaks, session
<1>2. fetch' \in Fetches /\ \A o \in {"submit", "gap"} : fetch'[o].rows <= Len(rows)
  BY StartFetchTyped DEF ViewInv, Typed, Fetches, StreamBreaks
<1>3. Typed'
  BY <1>2 DEF ViewInv, Typed, Fetches, StreamBreaks, session, bounds
<1>4. RunsFollowed'
  BY DEF ViewInv, RunsFollowed, StreamBreaks, session, bounds, Runs
<1> QED BY <1>1, <1>3, <1>4 DEF ViewInv

(* The rows there are are read. *)
LEMMA ReadTranscriptKeeps ==
  ASSUME ViewInv, NEW of \in {"submit", "gap"}, ReadTranscript(of)
  PROVE  ViewInv'
<1>1. LiveFits' /\ FoldKept'
  BY QuietKeeps DEF ReadTranscript, session
<1>2. fetch' \in Fetches /\ \A o \in {"submit", "gap"} : fetch'[o].rows <= Len(rows)
  <2>1. Len(rows) \in Nat /\ Len(rows) <= Len(rows)
    BY DEF ViewInv, Typed
  <2> QED BY <2>1, FetchTyped DEF ViewInv, Typed, Fetches, ReadTranscript
<1>3. Typed'
  BY <1>2 DEF ViewInv, Typed, Fetches, ReadTranscript, session, bounds
<1>4. RunsFollowed'
  BY DEF ViewInv, RunsFollowed, ReadTranscript, session, bounds, Runs
<1> QED BY <1>1, <1>3, <1>4 DEF ViewInv

(* After its end it knows none. *)
LEMMA ReturnedTyped ==
  ASSUME Typed, NEW of \in {"submit", "gap"}, Returned(of)
  PROVE  fetch' \in Fetches /\ \A o \in {"submit", "gap"} : fetch'[o].rows <= Len(rows)
<1>1. Len(rows) \in Nat /\ 0 \in Nat /\ 0 <= Len(rows)
  BY DEF Typed
<1> QED BY <1>1, FetchTyped DEF Typed, Fetches, Returned

(* A call that was not the composer's leaves a submission where it is. *)
LEMMA ReturnedFollowed ==
  ASSUME ViewInv, NEW of \in {"submit", "gap"}, Returned(of), UNCHANGED <<asked, submitted, follows, live>>
  PROVE  RunsFollowed'
<1>1. Len(asked) \in Nat /\ submitted \in Nat
  BY DEF ViewInv, Typed
<1> QED BY <1>1 DEF ViewInv, RunsFollowed, Returned, Runs

(* The call ends with an error. *)
LEMMA LoadFailsKeeps ==
  ASSUME ViewInv, NEW of \in {"submit", "gap"}, LoadFails(of)
  PROVE  ViewInv'
<1>1. LiveFits' /\ FoldKept'
  BY QuietKeeps DEF LoadFails, session
<1>2. fetch' \in Fetches /\ \A o \in {"submit", "gap"} : fetch'[o].rows <= Len(rows)
  BY ReturnedTyped DEF ViewInv, LoadFails
<1>3. Typed'
  BY <1>2 DEF ViewInv, Typed, Fetches, LoadFails, session, bounds
<1>4. RunsFollowed'
  BY ReturnedFollowed DEF LoadFails, bounds
<1> QED BY <1>1, <1>3, <1>4 DEF ViewInv

(* Its rows become the transcript of the page. *)
LEMMA LoadedKeeps ==
  ASSUME ViewInv, NEW of \in {"submit", "gap"}, Loaded(of)
  PROVE  ViewInv'
<1>1. /\ canonical' = fetch[of].rows /\ Returned(of) /\ Render
      /\ mode' = IF ~Running /\ live = <<>> THEN "canonical" ELSE mode
      /\ UNCHANGED <<session, asked, follows, cursor, live, bounds>>
  BY DEF Loaded
<1>2. canonical' \in Nat /\ canonical' <= Len(rows)
  BY <1>1 DEF ViewInv, Typed
<1>3. rows' = rows /\ live' = live
  BY <1>1 DEF session
<1>4. live' \in Seq(EventRecords) /\ LiveFits'
  BY <1>3, LiveFitsStill
<1>5. builder' \in Builders /\ FoldKept'
  BY <1>1, <1>2, <1>3, <1>4, RenderKeeps DEF ViewInv
<1>6. fetch' \in Fetches /\ \A o \in {"submit", "gap"} : fetch'[o].rows <= Len(rows)
  BY <1>1, ReturnedTyped DEF ViewInv
<1>7. Typed'
  BY <1>1, <1>2, <1>4, <1>5, <1>6 DEF ViewInv, Typed, Fetches, session, bounds
<1>8. RunsFollowed'
  BY <1>1, ReturnedFollowed DEF bounds
<1> QED BY <1>4, <1>5, <1>7, <1>8 DEF ViewInv

(* One event of the stream is added. *)
LEMMA FrameKeeps == ViewInv /\ Frame => ViewInv'
<1> SUFFICES ASSUME ViewInv, Frame PROVE ViewInv'
  OBVIOUS
<1>1. /\ stage = "streaming" /\ cursor < Len(Stream) /\ Render
      /\ live' = Append(live, Stream[cursor + 1]) /\ cursor' = cursor + 1
      /\ UNCHANGED <<session, asked, stage, follows, canonical, mode, fetch, bounds>>
  BY DEF Frame, More
<1>2. Stream \in Seq(BusEvents) /\ cursor \in Nat
  BY <1>1 DEF ViewInv, Typed, RunsFollowed, Stream
<1>3. Stream[cursor + 1] \in BusEvents
  BY <1>1, <1>2
<1>4. \E e \in EventRecords : e.seq = 0 /\ FitsRow(e, 1) /\ live' = Append(live, e)
  BY <1>1, <1>3 DEF BusEvents, BusKinds, FitsRow
<1>5. rows' = rows
  BY <1>1 DEF session
<1>6. live' \in Seq(EventRecords) /\ LiveFits'
  BY <1>4, <1>5, LiveFitsStill
<1>7. canonical' \in Nat /\ canonical' <= Len(rows)
  BY <1>1 DEF ViewInv, Typed
<1>8. builder' \in Builders /\ FoldKept'
  BY <1>1, <1>4, <1>5, <1>6, <1>7, RenderKeeps DEF ViewInv
<1>9. cursor' \in Nat
  BY <1>1, <1>2
<1>10. Typed'
  BY <1>1, <1>6, <1>8, <1>9 DEF ViewInv, Typed, session, bounds
<1>11. RunsFollowed'
  BY <1>1 DEF ViewInv, RunsFollowed, bounds
<1> QED BY <1>6, <1>8, <1>10, <1>11 DEF ViewInv

(* The view changes to the transcript. *)
LEMMA GapKeeps == ViewInv /\ Gap => ViewInv'
<1> SUFFICES ASSUME ViewInv, Gap PROVE ViewInv'
  OBVIOUS
<1>1. /\ stage = "streaming" /\ Render /\ mode' = "canonical" /\ StartFetch("gap")
      /\ UNCHANGED <<session, asked, stage, follows, cursor, live, canonical, bounds>>
  BY DEF Gap
<1>2. rows' = rows /\ live' = live /\ canonical' \in Nat /\ canonical' <= Len(rows)
  BY <1>1 DEF ViewInv, Typed, session
<1>3. live' \in Seq(EventRecords) /\ LiveFits'
  BY <1>2, LiveFitsStill
<1>4. builder' \in Builders /\ FoldKept'
  BY <1>1, <1>2, <1>3, RenderKeeps DEF ViewInv
<1>5. fetch' \in Fetches /\ \A o \in {"submit", "gap"} : fetch'[o].rows <= Len(rows)
  BY <1>1, StartFetchTyped DEF ViewInv
<1>6. Typed'
  BY <1>1, <1>3, <1>4, <1>5 DEF ViewInv, Typed, Fetches, session, bounds
<1>7. RunsFollowed'
  BY <1>1 DEF ViewInv, RunsFollowed, bounds
<1> QED BY <1>3, <1>4, <1>6, <1>7 DEF ViewInv

(* The end of the stream is added when the run's is gone. *)
LEMMA StreamEndsKeeps == ViewInv /\ StreamEnds => ViewInv'
<1> SUFFICES ASSUME ViewInv, StreamEnds PROVE ViewInv'
  OBVIOUS
<1>1. /\ stage = "streaming" /\ Render /\ stage' = "loading" /\ StartFetch("submit")
      /\ live' = IF SawTheEnd THEN live ELSE Append(live, Recovery)
      /\ UNCHANGED <<session, asked, follows, cursor, canonical, mode, bounds>>
  BY DEF StreamEnds
<1>2. Recovery \in EventRecords /\ Recovery.seq = 0 /\ FitsRow(Recovery, 1)
  <2>1. Len(live) \in Nat
    BY DEF ViewInv, Typed
  <2>2. Recovery \in EventRecords
    BY <2>1 DEF Recovery, EventRecords, EventKinds, BusKinds, NoText, Texts, NoKey, Keys, Statuses
  <2>3. Recovery.seq = 0 /\ Recovery.kind = "lifecycle"
    BY DEF Recovery
  <2> QED BY <2>2, <2>3 DEF FitsRow
<1>3. live' = live \/ \E e \in EventRecords : e.seq = 0 /\ FitsRow(e, 1) /\ live' = Append(live, e)
  BY <1>1, <1>2
<1>4. rows' = rows /\ canonical' \in Nat /\ canonical' <= Len(rows)
  BY <1>1 DEF ViewInv, Typed, session
<1>5. live' \in Seq(EventRecords) /\ LiveFits'
  BY <1>3, <1>4, LiveFitsStill
<1>6. builder' \in Builders /\ FoldKept'
  BY <1>1, <1>3, <1>4, <1>5, RenderKeeps DEF ViewInv
<1>7. fetch' \in Fetches /\ \A o \in {"submit", "gap"} : fetch'[o].rows <= Len(rows)
  BY <1>1, StartFetchTyped DEF ViewInv
<1>8. Typed'
  BY <1>1, <1>5, <1>6, <1>7 DEF ViewInv, Typed, Fetches, session, bounds
<1>9. RunsFollowed'
  BY <1>1 DEF ViewInv, RunsFollowed, bounds
<1> QED BY <1>5, <1>6, <1>8, <1>9 DEF ViewInv

(* The user changes the view. *)
LEMMA ToggleKeeps == ViewInv /\ Toggle => ViewInv'
<1> SUFFICES ASSUME ViewInv, Toggle PROVE ViewInv'
  OBVIOUS
<1>1. /\ Render /\ mode' \in {"live", "canonical"}
      /\ UNCHANGED <<session, asked, stage, follows, cursor, live, canonical, fetch, submitted>>
  BY DEF Toggle
<1>2. rows' = rows /\ live' = live /\ canonical' \in Nat /\ canonical' <= Len(rows)
  BY <1>1 DEF ViewInv, Typed, session
<1>3. live' \in Seq(EventRecords) /\ LiveFits'
  BY <1>2, LiveFitsStill
<1>4. builder' \in Builders /\ FoldKept'
  BY <1>1, <1>2, <1>3, RenderKeeps DEF ViewInv
<1>5. Typed'
  BY <1>1, <1>3, <1>4 DEF ViewInv, Typed, session
<1>6. RunsFollowed'
  BY <1>1 DEF ViewInv, RunsFollowed
<1> QED BY <1>3, <1>4, <1>5, <1>6 DEF ViewInv

(* ViewInv is inductive. *)
LEMMA NextKeepsView == ViewInv /\ [ViewNext]_viewVars => ViewInv'
<1> SUFFICES ASSUME ViewInv, [ViewNext]_viewVars PROVE ViewInv'
  OBVIOUS
<1>1. CASE BeginRun \/ RunWrites \/ RunStops
  BY <1>1, BeginRunKeeps, RunWritesKeeps, RunStopsKeeps
<1>2. CASE Submit \/ Accepted \/ Refused \/ Connect
  BY <1>2, SubmitKeeps, AcceptedKeeps, RefusedKeeps, ConnectKeeps
<1>3. CASE Frame \/ Gap \/ StreamEnds \/ StreamBreaks \/ Toggle
  BY <1>3, FrameKeeps, GapKeeps, StreamEndsKeeps, StreamBreaksKeeps, ToggleKeeps
<1>4. CASE \E of \in {"submit", "gap"} : Loads(of)
  BY <1>4, ReadTranscriptKeeps, LoadedKeeps, LoadFailsKeeps DEF Loads
<1>5. CASE UNCHANGED viewVars
  <2>1. LiveFits' /\ FoldKept'
    BY <1>5, QuietKeeps DEF viewVars, session, pageState
  <2>2. Typed' /\ RunsFollowed'
    BY <1>5 DEF ViewInv, Typed, RunsFollowed, viewVars, session, pageState, bounds
  <2> QED BY <2>1, <2>2 DEF ViewInv
<1> QED BY <1>1, <1>2, <1>3, <1>4, <1>5 DEF ViewNext

(* ViewIsFold: whatever was loaded, toggled, refused, streamed or recovered,
   the fold the view keeps shows what a fold from nothing would. *)
THEOREM ViewStaysAFold == ViewSpec => []ViewIsFold
<1>1. ViewInit => ViewInv
  BY InitViewInv
<1>2. ViewInv /\ [ViewNext]_viewVars => ViewInv'
  BY NextKeepsView
<1>3. ViewInv => ViewIsFold
  BY DEF ViewInv, FoldKept, Like, ViewIsFold, Conversation
<1> QED BY <1>1, <1>2, <1>3, PTL DEF ViewSpec

-----------------------------------------------------------------------------
(* Answers and questions: of events, and of the messages they become. *)

Saying == {"assistant.delta", "assistant.message"}

(* The j-th event is the last of the user above the i-th place. *)
LastAbove(events, i, j) ==
  /\ j \in 1..(i - 1) /\ events[j].kind = "user.message"
  /\ \A k \in (j + 1)..(i - 1) : events[k].kind # "user.message"

LastUser(messages, i, j) ==
  /\ j \in 1..(i - 1) /\ messages[j].role = "user"
  /\ \A k \in (j + 1)..(i - 1) : messages[k].role # "user"

(* All of a text is of runs that were asked the question. *)
Answers(a, text, question) ==
  \A n \in DOMAIN text : text[n][1] \in DOMAIN a /\ a[text[n][1]] = question

(* Whatever is said is below its question. *)
Ordered(a, events) ==
  \A i \in 1..Len(events) : events[i].kind \in Saying =>
    \E j \in Nat : LastAbove(events, i, j) /\ Answers(a, events[i].text, events[j].text)

MessagesOrdered(a, messages) ==
  \A i \in 1..Len(messages) : messages[i].role = "assistant" =>
    \E j \in Nat : LastUser(messages, i, j) /\ Answers(a, messages[i].text, messages[j].text)

(* The question that what comes next will answer. *)
Asks(events, question) ==
  \E j \in Nat : LastAbove(events, Len(events) + 1, j) /\ events[j].text = question

AsksLast(messages, question) ==
  \E j \in Nat : LastUser(messages, Len(messages) + 1, j) /\ messages[j].text = question

(* The fold is in order, also the reply that goes on. *)
InOrder(a, b) ==
  /\ MessagesOrdered(a, b.messages)
  /\ b.speaker = 0 => b.said = NoText
  /\ b.speaker # 0 =>
       /\ b.messages[b.speaker].role = "assistant"
       /\ \A k \in (b.speaker + 1)..Len(b.messages) : b.messages[k].role # "user"
       /\ \E question : AsksLast(b.messages, question) /\ Answers(a, b.said, question)

(* There is one last message. *)
LEMMA OneQuestion ==
  ASSUME NEW messages \in Seq(Messages), NEW i \in Nat, NEW j \in Nat, NEW k \in Nat,
         LastUser(messages, i, j), LastUser(messages, i, k)
  PROVE  j = k
BY DEF LastUser

(* QuestionAbove is its text. *)
LEMMA QuestionIsLast ==
  ASSUME NEW messages \in Seq(Messages), NEW i \in Nat, NEW j \in Nat, LastUser(messages, i, j)
  PROVE  QuestionAbove(messages, i) = messages[j].text
<1> DEFINE above == {k \in 1..(i - 1) : messages[k].role = "user"}
           last == CHOOSE k \in above : \A l \in above : l <= k
<1>1. j \in above /\ \A l \in above : l <= j
  BY DEF LastUser
<1>2. last \in above /\ \A l \in above : l <= last
  <2> HIDE DEF above
  <2> QED BY <1>1
<1>3. last = j
  BY <1>1, <1>2
<1>4. QuestionAbove(messages, i) = IF above = {} THEN NoText ELSE messages[last].text
  BY DEF QuestionAbove
<1> QED BY <1>1, <1>3, <1>4

(* Sequences that agree up to a place have the same question above it. *)
LEMMA SameAbove ==
  ASSUME NEW s, NEW t, NEW i \in Nat, NEW j \in Nat, \A k \in 1..(i - 1) : s[k].role = t[k].role,
         LastUser(s, i, j)
  PROVE  LastUser(t, i, j)
<1>1. j \in 1..(i - 1) /\ \A k \in (j + 1)..(i - 1) : k \in 1..(i - 1)
  BY DEF LastUser
<1> QED BY <1>1 DEF LastUser

LEMMA SameEventsAbove ==
  ASSUME NEW s, NEW t, NEW i \in Nat, NEW j \in Nat, \A k \in 1..(i - 1) : s[k].kind = t[k].kind,
         LastAbove(s, i, j)
  PROVE  LastAbove(t, i, j)
<1>1. j \in 1..(i - 1) /\ \A k \in (j + 1)..(i - 1) : k \in 1..(i - 1)
  BY DEF LastAbove
<1> QED BY <1>1 DEF LastAbove

(* What is above a sequence that ends is above what follows. *)
LEMMA AppendedEvent ==
  ASSUME NEW s \in Seq(EventRecords), NEW e \in EventRecords
  PROVE  /\ Append(s, e) \in Seq(EventRecords) /\ Len(Append(s, e)) = Len(s) + 1
         /\ Append(s, e)[Len(s) + 1] = e
         /\ \A k \in 1..Len(s) : Append(s, e)[k] = s[k]
OBVIOUS

LEMMA AppendedMessage ==
  ASSUME NEW s \in Seq(Messages), NEW m \in Messages
  PROVE  /\ Append(s, m) \in Seq(Messages) /\ Len(Append(s, m)) = Len(s) + 1
         /\ Append(s, m)[Len(s) + 1] = m
         /\ \A k \in 1..Len(s) : Append(s, m)[k] = s[k]
OBVIOUS

(* An event of the user asks the question of what follows; another leaves it. *)
LEMMA AsksNext ==
  ASSUME NEW s \in Seq(EventRecords), NEW e \in EventRecords
  PROVE  /\ e.kind = "user.message" => Asks(Append(s, e), e.text)
         /\ e.kind # "user.message" => \A question : Asks(s, question) => Asks(Append(s, e), question)
<1> DEFINE t == Append(s, e)
<1>1. /\ Len(t) = Len(s) + 1 /\ Len(s) \in Nat /\ t[Len(s) + 1] = e
      /\ \A k \in 1..Len(s) : t[k] = s[k]
  BY AppendedEvent
<1> HIDE DEF t
<1>2. ASSUME e.kind = "user.message" PROVE Asks(t, e.text)
  <2>1. LastAbove(t, Len(t) + 1, Len(s) + 1)
    BY <1>1, <1>2 DEF LastAbove
  <2> QED BY <1>1, <2>1 DEF Asks
<1>3. ASSUME e.kind # "user.message", NEW question, Asks(s, question) PROVE Asks(t, question)
  <2>1. PICK j \in Nat : LastAbove(s, Len(s) + 1, j) /\ s[j].text = question
    BY <1>3 DEF Asks
  <2>2. j \in 1..Len(s) /\ \A k \in (j + 1)..Len(s) : s[k].kind # "user.message" /\ k \in 1..Len(s)
    BY <1>1, <2>1 DEF LastAbove
  <2>3. LastAbove(t, Len(t) + 1, j)
    BY <1>1, <1>3, <2>1, <2>2 DEF LastAbove
  <2> QED BY <1>1, <2>1, <2>2, <2>3 DEF Asks
<1> QED BY <1>2, <1>3 DEF t

LEMMA AsksNextMessage ==
  ASSUME NEW s \in Seq(Messages), NEW m \in Messages
  PROVE  /\ m.role = "user" => AsksLast(Append(s, m), m.text)
         /\ m.role # "user" =>
              \A question : AsksLast(s, question) => AsksLast(Append(s, m), question)
<1> DEFINE t == Append(s, m)
<1>1. /\ Len(t) = Len(s) + 1 /\ Len(s) \in Nat /\ t[Len(s) + 1] = m
      /\ \A k \in 1..Len(s) : t[k] = s[k]
  BY AppendedMessage
<1> HIDE DEF t
<1>2. ASSUME m.role = "user" PROVE AsksLast(t, m.text)
  <2>1. LastUser(t, Len(t) + 1, Len(s) + 1)
    BY <1>1, <1>2 DEF LastUser
  <2> QED BY <1>1, <2>1 DEF AsksLast
<1>3. ASSUME m.role # "user", NEW question, AsksLast(s, question) PROVE AsksLast(t, question)
  <2>1. PICK j \in Nat : LastUser(s, Len(s) + 1, j) /\ s[j].text = question
    BY <1>3 DEF AsksLast
  <2>2. j \in 1..Len(s) /\ \A k \in (j + 1)..Len(s) : s[k].role # "user" /\ k \in 1..Len(s)
    BY <1>1, <2>1 DEF LastUser
  <2>3. LastUser(t, Len(t) + 1, j)
    BY <1>1, <1>3, <2>1, <2>2 DEF LastUser
  <2> QED BY <1>1, <2>1, <2>2, <2>3 DEF AsksLast
<1> QED BY <1>2, <1>3 DEF t

(* Events in order stay so when one is added that is below its question. *)
LEMMA OrderedNext ==
  ASSUME NEW a, NEW s \in Seq(EventRecords), NEW e \in EventRecords, Ordered(a, s),
         e.kind \in Saying => \E question : Asks(s, question) /\ Answers(a, e.text, question)
  PROVE  Ordered(a, Append(s, e))
<1> DEFINE t == Append(s, e)
<1>1. /\ Len(t) = Len(s) + 1 /\ Len(s) \in Nat /\ t[Len(s) + 1] = e
      /\ \A k \in 1..Len(s) : t[k] = s[k]
  BY AppendedEvent
<1> HIDE DEF t
<1>2. ASSUME NEW i \in 1..Len(t), t[i].kind \in Saying
      PROVE  \E j \in Nat : LastAbove(t, i, j) /\ Answers(a, t[i].text, t[j].text)
  <2>1. PICK j \in Nat : LastAbove(s, i, j) /\ Answers(a, t[i].text, s[j].text)
    <3>1. CASE i = Len(s) + 1
      BY <1>1, <1>2, <3>1 DEF Asks
    <3>2. CASE i # Len(s) + 1
      <4>1. i \in 1..Len(s) /\ t[i] = s[i]
        BY <1>1, <3>2
      <4> QED BY <1>2, <4>1 DEF Ordered
    <3> QED BY <3>1, <3>2
  <2>2. i \in Nat /\ \A k \in 1..(i - 1) : k \in 1..Len(s)
    BY <1>1
  <2>3. LastAbove(t, i, j)
    BY <1>1, <2>1, <2>2, SameEventsAbove
  <2>4. t[j] = s[j]
    BY <1>1, <2>1, <2>2 DEF LastAbove
  <2> QED BY <2>1, <2>3, <2>4
<1>3. Ordered(a, t)
  BY <1>2 DEF Ordered
<1> QED BY <1>3 DEF t

(* The beginning of events in order is in order. *)
LEMMA OrderedPrefix ==
  ASSUME NEW a, NEW s, NEW t, Len(s) \in Nat, Len(t) \in Nat, Len(t) <= Len(s), Ordered(a, s),
         \A i \in 1..Len(t) : t[i] = s[i]
  PROVE  Ordered(a, t)
<1>1. ASSUME NEW i \in 1..Len(t), t[i].kind \in Saying
      PROVE  \E j \in Nat : LastAbove(t, i, j) /\ Answers(a, t[i].text, t[j].text)
  <2>1. i \in 1..Len(s) /\ i \in Nat /\ t[i] = s[i] /\ \A k \in 1..(i - 1) : t[k] = s[k]
    OBVIOUS
  <2>2. PICK j \in Nat : LastAbove(s, i, j) /\ Answers(a, s[i].text, s[j].text)
    BY <1>1, <2>1 DEF Ordered
  <2>3. LastAbove(t, i, j) /\ t[j] = s[j]
    <3>1. LastAbove(t, i, j)
      BY <2>1, <2>2, SameEventsAbove
    <3> QED BY <2>1, <2>2, <3>1 DEF LastAbove
  <2> QED BY <2>1, <2>2, <2>3
<1> QED BY <1>1 DEF Ordered

(* They stay so when more is asked. *)
LEMMA OrderedAsked ==
  ASSUME NEW a \in Seq(Texts), NEW question \in Texts
  PROVE  /\ \A text, q : Answers(a, text, q) => Answers(Append(a, question), text, q)
         /\ \A events : Ordered(a, events) => Ordered(Append(a, question), events)
<1>1. \A i \in DOMAIN a : i \in DOMAIN Append(a, question) /\ Append(a, question)[i] = a[i]
  OBVIOUS
<1>2. \A text, q : Answers(a, text, q) => Answers(Append(a, question), text, q)
  BY <1>1 DEF Answers
<1> QED BY <1>2 DEF Ordered

(* A message is added in its place. *)
LEMMA MessageOrdered ==
  ASSUME NEW a, NEW s \in Seq(Messages), NEW m \in Messages, MessagesOrdered(a, s),
         m.role = "assistant" => \E question : AsksLast(s, question) /\ Answers(a, m.text, question)
  PROVE  MessagesOrdered(a, Append(s, m))
<1> DEFINE t == Append(s, m)
<1>1. /\ Len(t) = Len(s) + 1 /\ Len(s) \in Nat /\ t[Len(s) + 1] = m
      /\ \A k \in 1..Len(s) : t[k] = s[k]
  BY AppendedMessage
<1> HIDE DEF t
<1>2. ASSUME NEW i \in 1..Len(t), t[i].role = "assistant"
      PROVE  \E j \in Nat : LastUser(t, i, j) /\ Answers(a, t[i].text, t[j].text)
  <2>1. PICK j \in Nat : LastUser(s, i, j) /\ Answers(a, t[i].text, s[j].text)
    <3>1. CASE i = Len(s) + 1
      BY <1>1, <1>2, <3>1 DEF AsksLast
    <3>2. CASE i # Len(s) + 1
      <4>1. i \in 1..Len(s) /\ t[i] = s[i]
        BY <1>1, <3>2
      <4> QED BY <1>2, <4>1 DEF MessagesOrdered
    <3> QED BY <3>1, <3>2
  <2>2. i \in Nat /\ \A k \in 1..(i - 1) : k \in 1..Len(s)
    BY <1>1
  <2>3. LastUser(t, i, j)
    BY <1>1, <2>1, <2>2, SameAbove
  <2>4. t[j] = s[j]
    BY <1>1, <2>1, <2>2 DEF LastUser
  <2> QED BY <2>1, <2>3, <2>4
<1>3. MessagesOrdered(a, t)
  BY <1>2 DEF MessagesOrdered
<1> QED BY <1>3 DEF t

(* Messages of the same roles and the same questions ask the same. *)
LEMMA RolesAsk ==
  ASSUME NEW s \in Seq(Messages), NEW t \in Seq(Messages), Len(s) = Len(t),
         \A k \in 1..Len(s) : s[k].role = t[k].role /\ (s[k].role = "user" => s[k].text = t[k].text)
  PROVE  /\ \A i \in 1..(Len(s) + 1), j \in Nat :
              LastUser(s, i, j) => LastUser(t, i, j) /\ s[j].text = t[j].text
         /\ \A question : AsksLast(s, question) => AsksLast(t, question)
<1>1. ASSUME NEW i \in 1..(Len(s) + 1), NEW j \in Nat, LastUser(s, i, j)
      PROVE  LastUser(t, i, j) /\ s[j].text = t[j].text
  <2>1. i \in Nat /\ \A k \in 1..(i - 1) : k \in 1..Len(s)
    OBVIOUS
  <2>2. LastUser(t, i, j)
    BY <1>1, <2>1, SameAbove
  <2> QED BY <1>1, <2>1, <2>2 DEF LastUser
<1>2. Len(s) + 1 \in 1..(Len(s) + 1)
  OBVIOUS
<1>3. ASSUME NEW question, AsksLast(s, question) PROVE AsksLast(t, question)
  <2>1. PICK j \in Nat : LastUser(s, Len(s) + 1, j) /\ s[j].text = question
    BY <1>3 DEF AsksLast
  <2>2. LastUser(t, Len(s) + 1, j) /\ t[j].text = question
    BY <1>1, <1>2, <2>1
  <2> QED BY <2>2 DEF AsksLast
<1> QED BY <1>1, <1>3

(* The reply that goes on says what is below its question: it may say more. *)
LEMMA ReplyOrdered ==
  ASSUME NEW a, NEW s \in Seq(Messages), NEW k \in 1..Len(s), NEW text \in Texts, NEW question,
         MessagesOrdered(a, s), s[k].role = "assistant",
         \A i \in (k + 1)..Len(s) : s[i].role # "user",
         AsksLast(s, question), Answers(a, text, question)
  PROVE  /\ MessagesOrdered(a, [s EXCEPT ![k] = [@ EXCEPT !.text = text]])
         /\ \A q : AsksLast(s, q) => AsksLast([s EXCEPT ![k] = [@ EXCEPT !.text = text]], q)
<1> DEFINE t == [s EXCEPT ![k] = [@ EXCEPT !.text = text]]
<1>1. \A i \in 1..Len(s) : s[i] \in Messages
  OBVIOUS
<1>2. [s[k] EXCEPT !.text = text] \in Messages /\ [s[k] EXCEPT !.text = text].role = "assistant"
      /\ [s[k] EXCEPT !.text = text].text = text
  BY <1>1 DEF Messages
<1>3. t \in Seq(Messages) /\ Len(t) = Len(s)
  BY <1>2
<1>4. /\ t[k].role = "assistant" /\ t[k].text = text
      /\ \A i \in 1..Len(s) : i # k => t[i] = s[i]
  BY <1>2
<1> HIDE DEF t
<1>5. /\ \A i \in 1..(Len(s) + 1), j \in Nat :
           LastUser(s, i, j) => LastUser(t, i, j) /\ s[j].text = t[j].text
      /\ \A q : AsksLast(s, q) => AsksLast(t, q)
  BY <1>3, <1>4, RolesAsk
<1>6. ASSUME NEW i \in 1..Len(s), t[i].role = "assistant"
      PROVE  \E j \in Nat : LastUser(t, i, j) /\ Answers(a, t[i].text, t[j].text)
  <2>1. \E j \in Nat : LastUser(s, i, j) /\ Answers(a, t[i].text, s[j].text)
    <3>1. CASE i = k
      <4>1. PICK j \in Nat : LastUser(s, Len(s) + 1, j) /\ s[j].text = question
        BY DEF AsksLast
      <4>2. j \in 1..Len(s) /\ s[j].role = "user" /\ \A l \in (j + 1)..Len(s) : s[l].role # "user"
        BY <4>1 DEF LastUser
      <4>3. j < k
        BY <4>2
      <4>4. LastUser(s, k, j)
        BY <4>2, <4>3 DEF LastUser
      <4> QED BY <1>4, <3>1, <4>1, <4>4
    <3>2. CASE i # k
      BY <1>4, <1>6, <3>2 DEF MessagesOrdered
    <3> QED BY <3>1, <3>2
  <2>2. i \in 1..(Len(s) + 1)
    OBVIOUS
  <2> QED BY <1>5, <2>1, <2>2
<1>7. MessagesOrdered(a, t)
  BY <1>3, <1>6 DEF MessagesOrdered
<1> QED BY <1>5, <1>7 DEF t

(* What an event does to the order, by its kind.  A message of another kind
   is added. *)
LEMMA AddsInOrder ==
  ASSUME NEW a, NEW b \in Builders, NEW m \in Messages, InOrder(a, b),
         m.role = "assistant" => \E question : AsksLast(b.messages, question) /\ Answers(a, m.text, question),
         m.role = "user" => b.speaker = 0
  PROVE  /\ InOrder(a, Append1(b, m))
         /\ m.role = "user" => AsksLast(Append1(b, m).messages, m.text)
         /\ m.role # "user" => \A question : AsksLast(b.messages, question) =>
                                              AsksLast(Append1(b, m).messages, question)
<1> DEFINE t == Append(b.messages, m)
<1>1. /\ b.messages \in Seq(Messages) /\ b.speaker \in Nat /\ b.speaker <= Len(b.messages)
      /\ Append1(b, m) = [messages |-> t, said |-> b.said, speaker |-> b.speaker]
  BY BuilderFields, Append1Typed
<1>2. MessagesOrdered(a, t)
  BY <1>1, MessageOrdered DEF InOrder
<1>3. /\ m.role = "user" => AsksLast(t, m.text)
      /\ m.role # "user" => \A question : AsksLast(b.messages, question) => AsksLast(t, question)
  BY <1>1, AsksNextMessage
<1>4. /\ Len(t) = Len(b.messages) + 1 /\ Len(b.messages) \in Nat /\ t[Len(b.messages) + 1] = m
      /\ \A k \in 1..Len(b.messages) : t[k] = b.messages[k]
  BY <1>1, AppendedMessage
<1> DEFINE c == Append1(b, m)
<1>5. c.messages = t /\ c.said = b.said /\ c.speaker = b.speaker
  BY <1>1
<1> HIDE DEF t, c
<1>6. ASSUME b.speaker # 0
      PROVE  /\ t[b.speaker].role = "assistant"
             /\ \A k \in (b.speaker + 1)..Len(t) : t[k].role # "user"
             /\ \E question : AsksLast(t, question) /\ Answers(a, b.said, question)
  <2>1. /\ b.messages[b.speaker].role = "assistant"
        /\ \A k \in (b.speaker + 1)..Len(b.messages) : b.messages[k].role # "user"
        /\ m.role # "user"
    BY <1>6 DEF InOrder
  <2>2. t[b.speaker].role = "assistant"
    BY <1>1, <1>4, <1>6, <2>1
  <2>3. ASSUME NEW k \in (b.speaker + 1)..Len(t) PROVE t[k].role # "user"
    <3>1. k = Len(b.messages) + 1 \/ (k \in (b.speaker + 1)..Len(b.messages) /\ k \in 1..Len(b.messages))
      BY <1>1, <1>4
    <3> QED BY <1>4, <2>1, <3>1
  <2>4. \E question : AsksLast(t, question) /\ Answers(a, b.said, question)
    BY <1>3, <1>6, <2>1 DEF InOrder
  <2> QED BY <2>2, <2>3, <2>4
<1>7. InOrder(a, c)
  BY <1>2, <1>5, <1>6 DEF InOrder
<1> QED BY <1>3, <1>5, <1>7 DEF c

(* After the end of a reply nothing was said. *)
LEMMA SilentInOrder ==
  ASSUME NEW a, NEW b \in Builders, InOrder(a, b)
  PROVE  /\ InOrder(a, Silent(b)) /\ Silent(b) \in Builders /\ Silent(b).speaker = 0
         /\ Silent(b).messages = b.messages
<1>1. Silent(b) = [messages |-> b.messages, said |-> NoText, speaker |-> 0] /\ Silent(b) \in Builders
  BY SilentTyped
<1> QED BY <1>1 DEF InOrder

(* A text is said below its question. *)
LEMMA SaysInOrder ==
  ASSUME NEW a, NEW b \in Builders, NEW e \in EventRecords, NEW text \in Texts, InOrder(a, b),
         \E question : AsksLast(b.messages, question) /\ Answers(a, text, question)
  PROVE  /\ InOrder(a, Says(b, e, text))
         /\ \A question : AsksLast(b.messages, question) => AsksLast(Says(b, e, text).messages, question)
<1> DEFINE c == Says(b, e, text)
<1>1. PICK question : AsksLast(b.messages, question) /\ Answers(a, text, question)
  OBVIOUS
<1>2. b.messages \in Seq(Messages) /\ b.speaker \in Nat /\ b.speaker <= Len(b.messages) /\ Len(b.messages) \in Nat
  BY BuilderFields
<1>3. CASE b.speaker # 0
  <2> DEFINE t == [b.messages EXCEPT ![b.speaker] = [@ EXCEPT !.text = text]]
  <2>1. c.messages = t /\ c.said = text /\ c.speaker = b.speaker
    <3>1. c = [messages |-> t, said |-> text, speaker |-> b.speaker]
      BY <1>3, SaysTyped
    <3> HIDE DEF t, c
    <3> QED BY <3>1
  <2>2. b.speaker \in 1..Len(b.messages)
    BY <1>2, <1>3
  <2>3. /\ MessagesOrdered(a, b.messages) /\ b.messages[b.speaker].role = "assistant"
        /\ \A k \in (b.speaker + 1)..Len(b.messages) : b.messages[k].role # "user"
    BY <1>3 DEF InOrder
  <2>4. MessagesOrdered(a, t) /\ \A q : AsksLast(b.messages, q) => AsksLast(t, q)
    BY <1>1, <1>2, <2>2, <2>3, ReplyOrdered
  <2>5. /\ Len(t) = Len(b.messages) /\ t[b.speaker].role = "assistant"
        /\ \A k \in (b.speaker + 1)..Len(t) : t[k] = b.messages[k]
    <3>1. b.messages[b.speaker] \in Messages
      BY <1>2, <2>2
    <3>2. [b.messages[b.speaker] EXCEPT !.text = text].role = "assistant"
      BY <2>3, <3>1 DEF Messages
    <3> QED BY <1>2, <2>2, <3>2
  <2> HIDE DEF t, c
  <2>6. InOrder(a, c)
    BY <1>1, <1>3, <2>1, <2>3, <2>4, <2>5 DEF InOrder
  <2> QED BY <2>1, <2>4, <2>6 DEF c
<1>4. CASE b.speaker = 0
  <2> DEFINE said == [Message("assistant", e) EXCEPT !.text = text]
             t == Append(b.messages, said)
  <2>1. c.messages = t /\ c.said = text /\ c.speaker = Len(b.messages) + 1
    <3>1. c = [messages |-> t, said |-> text, speaker |-> Len(b.messages) + 1]
      BY <1>4, SaysTyped
    <3> HIDE DEF t, c
    <3> QED BY <3>1
  <2>2. said \in Messages /\ said.role = "assistant" /\ said.text = text
    <3>1. Message("assistant", e) \in Messages /\ Message("assistant", e).role = "assistant"
      BY MessageTyped DEF Roles
    <3> QED BY <3>1 DEF Messages
  <2>3. MessagesOrdered(a, t)
    <3>1. MessagesOrdered(a, b.messages)
      BY DEF InOrder
    <3> HIDE DEF said
    <3> QED BY <1>1, <1>2, <2>2, <3>1, MessageOrdered
  <2>4. \A q : AsksLast(b.messages, q) => AsksLast(t, q)
    <3> HIDE DEF said
    <3> QED BY <1>2, <2>2, AsksNextMessage
  <2>5. Len(t) = Len(b.messages) + 1 /\ t[Len(b.messages) + 1] = said
    <3> HIDE DEF said
    <3> QED BY <1>2, <2>2, AppendedMessage
  <2>6. t[c.speaker].role = "assistant" /\ c.speaker # 0
        /\ \A k \in (c.speaker + 1)..Len(t) : t[k].role # "user"
    <3> HIDE DEF said, t, c
    <3> QED BY <1>2, <2>1, <2>2, <2>5
  <2> HIDE DEF said, t, c
  <2>7. InOrder(a, c)
    BY <1>1, <2>1, <2>3, <2>4, <2>6 DEF InOrder
  <2> QED BY <2>1, <2>4, <2>7 DEF c
<1> QED BY <1>2, <1>3, <1>4

(* An approval is resolved in its place. *)
LEMMA ResolvesInOrder ==
  ASSUME NEW a, NEW b \in Builders, NEW e \in EventRecords, InOrder(a, b)
  PROVE  /\ InOrder(a, Resolves(b, e))
         /\ \A question : AsksLast(b.messages, question) => AsksLast(Resolves(b, e).messages, question)
<1> DEFINE c == Resolves(b, e)
           s == b.messages
           t == [i \in DOMAIN b.messages |-> Resolved(b.messages[i], e)]
<1>1. c.messages = t /\ c.said = b.said /\ c.speaker = b.speaker /\ c \in Builders
  BY ResolvesTyped
<1>2. s \in Seq(Messages) /\ b.speaker \in Nat /\ b.speaker <= Len(s) /\ DOMAIN s = 1..Len(s)
      /\ Len(s) \in Nat
  BY BuilderFields
<1>3. \A m \in Messages : Resolved(m, e).role = m.role /\ Resolved(m, e).text = m.text
  BY DEF Resolved, Messages
<1>4. t \in Seq(Messages) /\ Len(t) = Len(s)
  BY <1>1, <1>2, BuilderFields
<1>5. \A k \in 1..Len(s) : t[k].role = s[k].role /\ t[k].text = s[k].text
  BY <1>2, <1>3
<1> HIDE DEF c, s, t
<1>6. /\ \A i \in 1..(Len(s) + 1), j \in Nat :
           LastUser(s, i, j) => LastUser(t, i, j) /\ s[j].text = t[j].text
      /\ \A question : AsksLast(s, question) => AsksLast(t, question)
  BY <1>2, <1>4, <1>5, RolesAsk
<1>7. MessagesOrdered(a, t)
  <2>1. ASSUME NEW i \in 1..Len(s), t[i].role = "assistant"
        PROVE  \E j \in Nat : LastUser(t, i, j) /\ Answers(a, t[i].text, t[j].text)
    <3>1. \E j \in Nat : LastUser(s, i, j) /\ Answers(a, s[i].text, s[j].text)
      BY <1>5, <2>1 DEF InOrder, MessagesOrdered, s
    <3>2. i \in 1..(Len(s) + 1)
      BY <1>2
    <3> QED BY <1>5, <1>6, <3>1, <3>2
  <2> QED BY <1>4, <2>1 DEF MessagesOrdered
<1>8. ASSUME b.speaker # 0
      PROVE  /\ t[b.speaker].role = "assistant"
             /\ \A k \in (b.speaker + 1)..Len(t) : t[k].role # "user"
             /\ \E question : AsksLast(t, question) /\ Answers(a, b.said, question)
  <2>1. /\ s[b.speaker].role = "assistant" /\ b.speaker \in 1..Len(s)
        /\ \A k \in (b.speaker + 1)..Len(s) : s[k].role # "user" /\ k \in 1..Len(s)
        /\ \E question : AsksLast(s, question) /\ Answers(a, b.said, question)
    BY <1>2, <1>8 DEF InOrder, s
  <2> QED BY <1>4, <1>5, <1>6, <2>1
<1>9. InOrder(a, c)
  BY <1>1, <1>7, <1>8 DEF InOrder
<1> QED BY <1>1, <1>6, <1>9 DEF c, s

(* Whatever the event: one that says something has to be below its question. *)
LEMMA ApplyInOrder ==
  ASSUME NEW a, NEW b \in Builders, NEW e \in EventRecords, InOrder(a, b),
         e.kind \in Saying =>
           \E question : AsksLast(b.messages, question) /\ Answers(a, e.text, question)
  PROVE  /\ InOrder(a, Apply(b, e))
         /\ e.kind = "user.message" => AsksLast(Apply(b, e).messages, e.text)
         /\ e.kind # "user.message" => \A question : AsksLast(b.messages, question) =>
                                                      AsksLast(Apply(b, e).messages, question)
<1>1. e.kind \in EventKinds /\ e.text \in Texts /\ b.said \in Texts /\ b.messages \in Seq(Messages)
  BY BuilderFields DEF EventRecords
<1>2. /\ InOrder(a, Silent(b)) /\ Silent(b) \in Builders /\ Silent(b).speaker = 0
      /\ Silent(b).messages = b.messages
  BY SilentInOrder
<1>3. \A role \in Roles : /\ Message(role, e) \in Messages /\ Message(role, e).role = role
                          /\ Message(role, e).text = e.text
  BY MessageTyped
<1>4. ASSUME e.kind = "user.message"
      PROVE  InOrder(a, Apply(b, e)) /\ AsksLast(Apply(b, e).messages, e.text)
  <2>1. Apply(b, e) = Append1(Silent(b), Message("user", e))
    BY <1>4 DEF Apply
  <2>2. Message("user", e) \in Messages /\ Message("user", e).role = "user" /\ Message("user", e).text = e.text
    BY <1>3 DEF Roles
  <2>3. /\ InOrder(a, Append1(Silent(b), Message("user", e)))
        /\ AsksLast(Append1(Silent(b), Message("user", e)).messages, Message("user", e).text)
    BY <1>2, <2>2, AddsInOrder
  <2> QED BY <2>1, <2>2, <2>3
<1>5. ASSUME NEW c \in Builders, InOrder(a, c), c.messages = b.messages,
             NEW role \in Roles \ {"user", "assistant"}
      PROVE  /\ InOrder(a, Append1(c, Message(role, e)))
             /\ \A question : AsksLast(b.messages, question) =>
                               AsksLast(Append1(c, Message(role, e)).messages, question)
  <2>1. Message(role, e) \in Messages /\ Message(role, e).role # "user" /\ Message(role, e).role # "assistant"
    BY <1>3
  <2> QED BY <1>5, <2>1, AddsInOrder
<1>6. CASE e.kind = "tool.call"
  <2>1. Apply(b, e) = Append1(Silent(b), Message("tool-call", e))
    BY <1>6 DEF Apply
  <2> QED BY <1>2, <1>5, <1>6, <2>1 DEF Roles
<1>7. CASE e.kind \in {"tool.result", "approval.request", "subagent.start", "subagent.complete", "lifecycle"}
  <2>1. \E role \in Roles \ {"user", "assistant"} : Apply(b, e) = Append1(b, Message(role, e))
    BY <1>7 DEF Apply, Roles
  <2> QED BY <1>5, <1>7, <2>1
<1>8. CASE e.kind = "assistant.message"
  <2>1. Apply(b, e) = Says(b, e, e.text)
    BY <1>8 DEF Apply
  <2> QED BY <1>1, <1>8, <2>1, SaysInOrder DEF Saying
<1>9. CASE e.kind = "assistant.delta"
  <2>1. Apply(b, e) = Says(b, e, b.said \o e.text)
    BY <1>9 DEF Apply
  <2>2. PICK question : AsksLast(b.messages, question) /\ Answers(a, e.text, question)
    BY <1>9 DEF Saying
  <2>3. Answers(a, b.said, question)
    <3>1. CASE b.speaker = 0
      <4>1. DOMAIN b.said = {}
        BY <3>1 DEF InOrder, NoText
      <4> QED BY <4>1 DEF Answers
    <3>2. CASE b.speaker # 0
      <4>1. PICK q : AsksLast(b.messages, q) /\ Answers(a, b.said, q)
        BY <3>2 DEF InOrder
      <4>2. PICK j \in Nat : LastUser(b.messages, Len(b.messages) + 1, j) /\ b.messages[j].text = q
        BY <4>1 DEF AsksLast
      <4>3. PICK k \in Nat : LastUser(b.messages, Len(b.messages) + 1, k) /\ b.messages[k].text = question
        BY <2>2 DEF AsksLast
      <4>4. Len(b.messages) + 1 \in Nat
        BY <1>1
      <4>5. j = k
        BY <1>1, <4>2, <4>3, <4>4, OneQuestion
      <4> QED BY <4>1, <4>2, <4>3, <4>5
    <3> QED BY <3>1, <3>2
  <2>4. b.said \o e.text \in Texts
    BY <1>1 DEF Texts
  <2>5. Answers(a, b.said \o e.text, question)
    <3>1. ASSUME NEW n \in DOMAIN (b.said \o e.text)
          PROVE  \/ n \in DOMAIN b.said /\ (b.said \o e.text)[n] = b.said[n]
                 \/ n - Len(b.said) \in DOMAIN e.text /\ (b.said \o e.text)[n] = e.text[n - Len(b.said)]
      <4>1. PICK x \in Texts, y \in Texts : x = b.said /\ y = e.text
        BY <1>1
      <4>2. DOMAIN (x \o y) = 1..(Len(x) + Len(y)) /\ Len(x) \in Nat /\ Len(y) \in Nat
            /\ DOMAIN x = 1..Len(x) /\ DOMAIN y = 1..Len(y)
        BY DEF Texts
      <4>3. n \in 1..(Len(x) + Len(y))
        BY <4>1, <4>2
      <4>4. CASE n <= Len(x)
        <5>1. n \in DOMAIN x /\ (x \o y)[n] = x[n]
          BY <4>2, <4>3, <4>4 DEF Texts
        <5> QED BY <4>1, <5>1
      <4>5. CASE n > Len(x)
        <5>1. n - Len(x) \in DOMAIN y /\ (x \o y)[n] = y[n - Len(x)]
          BY <4>2, <4>3, <4>5 DEF Texts
        <5> QED BY <4>1, <5>1
      <4> QED BY <4>2, <4>3, <4>4, <4>5
    <3> QED BY <2>2, <2>3, <3>1 DEF Answers
  <2> QED BY <1>9, <2>1, <2>2, <2>4, <2>5, SaysInOrder
<1>10. CASE e.kind = "approval.resolution"
  <2>1. Apply(b, e) = Resolves(b, e)
    BY <1>10 DEF Apply
  <2> QED BY <1>10, <2>1, ResolvesInOrder
<1> QED BY <1>1, <1>4, <1>6, <1>7, <1>8, <1>9, <1>10 DEF EventKinds, BusKinds

(* Events in order are folded into messages in order. *)
LEMMA FoldInOrder ==
  ASSUME NEW a, NEW events \in Seq(EventRecords), Ordered(a, events)
  PROVE  MessagesOrdered(a, Conversation(events)) /\ Conversation(events) \in Seq(Messages)
<1>1. PICK n \in Nat : n = Len(events)
  OBVIOUS
<1>2. \A i \in 1..n : events[i] \in EventRecords
  BY <1>1
<1>3. PICK f : Folds(f, Empty, 0, events) /\ Folded(Empty, 0, events) = f[n]
  BY <1>1, FoldedFacts
<1>4. f[0] = Empty /\ \A i \in 1..n : f[i] = Apply(f[i - 1], events[i])
  BY <1>1, <1>3 DEF Folds
<1> DEFINE T == {i \in Nat : i <= n =>
                   /\ f[i] \in Builders /\ InOrder(a, f[i])
                   /\ \A j \in Nat : LastAbove(events, i + 1, j) => AsksLast(f[i].messages, events[j].text)}
<1>5. 0 \in T
  <2>1. Empty.messages = <<>> /\ Empty.said = NoText /\ Empty.speaker = 0 /\ Len(<<>>) = 0
    BY DEF Empty
  <2>2. MessagesOrdered(a, <<>>)
    BY <2>1 DEF MessagesOrdered
  <2>3. InOrder(a, Empty)
    BY <2>1, <2>2 DEF InOrder
  <2>4. \A j \in Nat : ~LastAbove(events, 0 + 1, j)
    BY DEF LastAbove
  <2> QED BY <1>4, <2>3, <2>4, EmptyTyped
<1>6. ASSUME NEW i \in T PROVE i + 1 \in T
  <2>1. i \in Nat /\ i + 1 \in Nat /\ (i + 1) - 1 = i
    OBVIOUS
  <2>2. SUFFICES ASSUME i + 1 <= n
                 PROVE  /\ f[i + 1] \in Builders /\ InOrder(a, f[i + 1])
                        /\ \A j \in Nat : LastAbove(events, (i + 1) + 1, j) =>
                                           AsksLast(f[i + 1].messages, events[j].text)
    BY <2>1
  <2>3. i <= n /\ i + 1 \in 1..n
    BY <1>1, <2>1, <2>2
  <2>4. /\ f[i] \in Builders /\ InOrder(a, f[i])
        /\ \A j \in Nat : LastAbove(events, i + 1, j) => AsksLast(f[i].messages, events[j].text)
    BY <2>3
  <2> HIDE DEF T
  <2>5. f[i + 1] = Apply(f[i], events[i + 1]) /\ events[i + 1] \in EventRecords
    BY <1>2, <1>4, <2>1, <2>3
  <2>6. events[i + 1].kind \in Saying =>
          \E question : AsksLast(f[i].messages, question) /\ Answers(a, events[i + 1].text, question)
    BY <1>1, <2>3, <2>4 DEF Ordered
  <2>7. /\ InOrder(a, f[i + 1])
        /\ events[i + 1].kind = "user.message" => AsksLast(f[i + 1].messages, events[i + 1].text)
        /\ events[i + 1].kind # "user.message" =>
             \A question : AsksLast(f[i].messages, question) => AsksLast(f[i + 1].messages, question)
    BY <2>4, <2>5, <2>6, ApplyInOrder
  <2>8. f[i + 1] \in Builders
    BY <2>4, <2>5, ApplyTyped
  <2>9. ASSUME NEW j \in Nat, LastAbove(events, (i + 1) + 1, j)
        PROVE  AsksLast(f[i + 1].messages, events[j].text)
    <3>1. CASE j = i + 1
      BY <2>7, <2>9, <3>1 DEF LastAbove
    <3>2. CASE j # i + 1
      <4>1. events[i + 1].kind # "user.message" /\ LastAbove(events, i + 1, j)
        BY <2>1, <2>9, <3>2 DEF LastAbove
      <4> QED BY <2>4, <2>7, <4>1
    <3> QED BY <3>1, <3>2
  <2> QED BY <2>7, <2>8, <2>9
<1>7. T \in SUBSET Nat
  OBVIOUS
<1> HIDE DEF T
<1>8. \A i \in Nat : i >= 0 => i \in T
  BY <1>5, <1>6, <1>7, SetInduction
<1>9. f[n] \in Builders /\ InOrder(a, f[n])
  BY <1>1, <1>8 DEF T
<1>10. Conversation(events) = f[n].messages
  BY <1>3 DEF Conversation
<1> QED BY <1>9, <1>10, BuilderFields DEF InOrder

(* AnswersBelowTheirQuestions is of the messages that are shown. *)
LEMMA OrderIsShown ==
  ASSUME Ordered(asked, Events), Events \in Seq(EventRecords)
  PROVE  AnswersBelowTheirQuestions
<1> DEFINE messages == Conversation(Events)
<1>1. MessagesOrdered(asked, messages) /\ messages \in Seq(Messages)
  BY FoldInOrder
<1>2. AnswersBelowTheirQuestions <=>
        \A i \in DOMAIN messages :
          messages[i].role = "assistant" =>
            \A n \in DOMAIN messages[i].text :
              QuestionAbove(messages, i) = asked[messages[i].text[n][1]]
  BY DEF AnswersBelowTheirQuestions
<1> HIDE DEF messages
<1>3. ASSUME NEW i \in DOMAIN messages, messages[i].role = "assistant",
             NEW n \in DOMAIN messages[i].text
      PROVE  QuestionAbove(messages, i) = asked[messages[i].text[n][1]]
  <2>1. i \in 1..Len(messages) /\ i \in Nat
    BY <1>1
  <2>2. PICK j \in Nat : LastUser(messages, i, j) /\ Answers(asked, messages[i].text, messages[j].text)
    BY <1>1, <1>3, <2>1 DEF MessagesOrdered
  <2>3. QuestionAbove(messages, i) = messages[j].text
    BY <1>1, <2>1, <2>2, QuestionIsLast
  <2> QED BY <2>2, <2>3 DEF Answers
<1> QED BY <1>2, <1>3

-----------------------------------------------------------------------------
(* Every answer below its question. *)

TranscriptShown == Mapped(Len(rows))

(* The messages that wait are the last that were asked. *)
TurnsAsked ==
  Len(asked) = turn + Len(queue) /\ \A i \in 1..Len(queue) : asked[turn + i] = queue[i]

(* The current run's question is the last in the transcript, or comes next. *)
TodoBelow ==
  /\ todo # <<>> => turn \in 1..Len(asked)
  /\ \/ todo \in Seq(WritesOf(turn)) /\ (todo # <<>> => Asks(TranscriptShown, asked[turn]))
     \/ /\ todo # <<>> /\ Head(todo) = Written("user_message", "", asked[turn], NoKey, "")
        /\ Tail(todo) \in Seq(WritesOf(turn))

(* A stream is of its run. *)
StreamsSayTheirOwn ==
  \A r \in Runs : \A i \in 1..Len(bus[r]) :
    bus[r][i].kind = "assistant.delta" => \A n \in DOMAIN bus[r][i].text : bus[r][i].text[n][1] = r

(* The stream the page follows is of the last message it shows of the user. *)
StreamBelow ==
  /\ stage = "posting" => Asks(live, Asking)
  /\ stage \in {"connecting", "streaming"} => follows \in 1..Len(asked) /\ Asks(live, asked[follows])

OrderInv ==
  /\ TurnsAsked /\ TodoBelow /\ StreamsSayTheirOwn /\ StreamBelow
  /\ Ordered(asked, TranscriptShown) /\ Ordered(asked, live)

(* What is asked below a page's events, and what the rows below, is of these alone. *)
LEMMA QuietOrder ==
  ASSUME OrderInv, UNCHANGED <<queue, turn, todo, rows, bus, asked, live, follows>>,
         stage' = stage \/ stage' \in {"idle", "loading"}
                        \/ (stage = "connecting" /\ stage' = "streaming")
  PROVE  OrderInv'
<1>1. TranscriptShown' = TranscriptShown
  BY DEF TranscriptShown, Mapped
<1>2. Ordered(asked, TranscriptShown)' /\ Ordered(asked, live)'
  BY <1>1 DEF OrderInv, Ordered, LastAbove, Answers
<1>3. TurnsAsked' /\ StreamsSayTheirOwn'
  BY DEF OrderInv, TurnsAsked, StreamsSayTheirOwn
<1>4. TodoBelow'
  BY <1>1 DEF OrderInv, TodoBelow, Asks, LastAbove
<1>5. StreamBelow'
  BY DEF OrderInv, StreamBelow, Asks, LastAbove, Asking
<1> QED BY <1>2, <1>3, <1>4, <1>5 DEF OrderInv

(* It holds at first. *)
LEMMA InitOrder == ViewInit => OrderInv
<1> SUFFICES ASSUME ViewInit PROVE OrderInv
  OBVIOUS
<1>1. /\ queue = <<>> /\ asked = <<>> /\ todo = <<>> /\ rows = <<>> /\ live = <<>> /\ turn = 0
      /\ stage = "idle" /\ Len(<<>>) = 0 /\ bus = [r \in Runs |-> <<>>] /\ <<>> \in Seq(WritesOf(0))
  BY DEF ViewInit
<1>2. Len(TranscriptShown) = 0
  BY <1>1 DEF TranscriptShown, Mapped
<1>3. Ordered(asked, TranscriptShown) /\ Ordered(asked, live)
  BY <1>1, <1>2 DEF Ordered
<1>4. TurnsAsked /\ TodoBelow /\ StreamsSayTheirOwn /\ StreamBelow
  BY <1>1 DEF TurnsAsked, TodoBelow, StreamsSayTheirOwn, StreamBelow
<1> QED BY <1>3, <1>4 DEF OrderInv

(* A run that stops has nothing more to write. *)
LEMMA RunStopsOrder == ViewInv /\ OrderInv /\ RunStops => OrderInv'
<1> SUFFICES ASSUME ViewInv, OrderInv, RunStops PROVE OrderInv'
  OBVIOUS
<1>1. todo' = <<>> /\ UNCHANGED <<queue, turn, rows, bus, asked, live, follows, stage>>
  BY DEF RunStops, pageState
<1>2. TranscriptShown' = TranscriptShown
  BY <1>1 DEF TranscriptShown, Mapped
<1>3. Ordered(asked, TranscriptShown)' /\ Ordered(asked, live)'
  BY <1>1, <1>2 DEF OrderInv, Ordered, LastAbove, Answers
<1>4. TurnsAsked' /\ StreamsSayTheirOwn'
  BY <1>1 DEF OrderInv, TurnsAsked, StreamsSayTheirOwn
<1>5. TodoBelow'
  BY <1>1 DEF TodoBelow
<1>6. StreamBelow'
  BY <1>1 DEF OrderInv, StreamBelow, Asks, LastAbove, Asking
<1> QED BY <1>3, <1>4, <1>5, <1>6 DEF OrderInv

(* The run that begins has its question to write. *)
LEMMA BeginRunOrder == ViewInv /\ OrderInv /\ BeginRun => OrderInv'
<1> SUFFICES ASSUME ViewInv, OrderInv, BeginRun PROVE OrderInv'
  OBVIOUS
<1>1. /\ queue \in Seq(Texts) /\ queue # <<>> /\ turn \in Nat /\ asked \in Seq(Texts)
      /\ turn' = turn + 1 /\ queue' = Tail(queue)
      /\ UNCHANGED <<rows, bus, asked, live, follows, stage>>
  BY DEF ViewInv, Typed, BeginRun, pageState
<1>2. PICK shape \in Shapes : todo' = Script(turn + 1, Head(queue), shape)
  BY DEF BeginRun
<1>3. Len(asked) = turn + Len(queue) /\ \A i \in 1..Len(queue) : asked[turn + i] = queue[i]
  BY DEF OrderInv, TurnsAsked
<1>4. Len(queue) \in Nat /\ Len(queue) >= 1 /\ Head(queue) = queue[1] /\ Head(queue) \in Texts
      /\ Len(Tail(queue)) = Len(queue) - 1 /\ \A i \in 1..Len(Tail(queue)) : Tail(queue)[i] = queue[i + 1]
  BY <1>1
<1>5. asked[turn + 1] = Head(queue) /\ turn + 1 \in 1..Len(asked)
  BY <1>1, <1>3, <1>4
<1>6. /\ todo' # <<>> /\ Head(todo') = Written("user_message", "", asked'[turn'], NoKey, "")
      /\ Tail(todo') \in Seq(WritesOf(turn'))
  <2> DEFINE s == Script(turn + 1, Head(queue), shape)
  <2>1. turn + 1 \in Nat
    BY <1>1
  <2>2. /\ s # <<>> /\ Head(s) = Written("user_message", "", Head(queue), NoKey, "")
        /\ Tail(s) \in Seq(WritesOf(turn + 1))
    BY <1>4, <2>1, ScriptOfRun
  <2>3. todo' = s /\ asked'[turn'] = Head(queue) /\ turn' = turn + 1
    BY <1>1, <1>2, <1>5
  <2> HIDE DEF s
  <2> QED BY <2>2, <2>3
<1>7. TodoBelow'
  <2>1. turn' \in 1..Len(asked')
    BY <1>1, <1>5
  <2> QED BY <1>6, <2>1 DEF TodoBelow, WritesOf, Written
<1>8. TurnsAsked'
  <2>1. Len(asked) = (turn + 1) + Len(Tail(queue))
    BY <1>1, <1>3, <1>4
  <2>2. ASSUME NEW i \in 1..Len(Tail(queue)) PROVE asked[(turn + 1) + i] = Tail(queue)[i]
    <3>1. i + 1 \in 1..Len(queue) /\ (turn + 1) + i = turn + (i + 1)
      BY <1>1, <1>4
    <3> QED BY <1>3, <1>4, <3>1
  <2> QED BY <1>1, <2>1, <2>2 DEF TurnsAsked
<1>9. TranscriptShown' = TranscriptShown
  BY <1>1 DEF TranscriptShown, Mapped
<1>10. Ordered(asked, TranscriptShown)' /\ Ordered(asked, live)'
  BY <1>1, <1>9 DEF OrderInv, Ordered, LastAbove, Answers
<1>11. StreamsSayTheirOwn' /\ StreamBelow'
  BY <1>1 DEF OrderInv, StreamsSayTheirOwn, StreamBelow, Asks, LastAbove, Asking
<1> QED BY <1>7, <1>8, <1>10, <1>11 DEF OrderInv

(* What a row that is added becomes. *)
LEMMA RowAdded ==
  ASSUME rows \in Seq(RowRecords), NEW row \in RowRecords, rows' = Append(rows, row)
  PROVE  \E e \in EventRecords :
           /\ TranscriptShown' = Append(TranscriptShown, e) /\ TranscriptShown \in Seq(EventRecords)
           /\ e.kind = TranscriptKind(row.kind)
           /\ e.text = IF row.kind = "tool_call" THEN NoText ELSE row.text
<1>0. PICK n \in Nat : n = Len(rows)
  OBVIOUS
<1> DEFINE e == [id |-> n, kind |-> TranscriptKind(row.kind),
                 text |-> IF row.kind = "tool_call" THEN NoText ELSE row.text,
                 key |-> row.key, status |-> row.status, seq |-> row.seq]
<1>1. /\ n \in Nat /\ rows' \in Seq(RowRecords) /\ Len(rows') = n + 1 /\ rows'[n + 1] = row
      /\ \A i \in 1..n : rows'[i] = rows[i]
  BY <1>0
<1>2. e \in EventRecords
  <2>1. /\ row.kind \in RowKinds /\ row.text \in Texts /\ row.key \in Keys
        /\ row.status \in Statuses /\ row.seq \in Nat
    BY DEF RowRecords
  <2>2. TranscriptKind(row.kind) \in EventKinds
    BY <2>1 DEF TranscriptKind, RowKinds, EventKinds, BusKinds
  <2>3. NoText \in Texts
    BY DEF NoText, Texts
  <2> QED BY <1>1, <2>1, <2>2, <2>3 DEF EventRecords
<1>3. /\ TranscriptShown \in Seq(EventRecords) /\ Len(TranscriptShown) = n /\ \A i \in 1..n : TranscriptShown[i] = RowEvent(i)
  BY <1>0, <1>1, MappedFacts DEF TranscriptShown
<1>4. TranscriptShown' = [i \in 1..(n + 1) |-> RowEvent(i)']
  BY <1>1 DEF TranscriptShown, Mapped, RowEvent
<1>5. \A i \in 1..n : RowEvent(i)' = RowEvent(i)
  BY <1>1 DEF RowEvent
<1>6. RowEvent(n + 1)' = e
  <2>1. (n + 1) - 1 = n /\ rows'[n + 1] = row
    BY <1>1
  <2> QED BY <2>1 DEF RowEvent
<1>7. e.kind = TranscriptKind(row.kind) /\ e.text = IF row.kind = "tool_call" THEN NoText ELSE row.text
  OBVIOUS
<1> HIDE DEF e
<1>8. ASSUME NEW i \in 1..(n + 1) PROVE RowEvent(i)' = Append(TranscriptShown, e)[i]
  <2>1. Append(TranscriptShown, e)[i] = IF i = n + 1 THEN e ELSE TranscriptShown[i]
    BY <1>2, <1>3
  <2>2. i # n + 1 => i \in 1..n
    OBVIOUS
  <2> QED BY <1>3, <1>5, <1>6, <2>1, <2>2
<1>9. TranscriptShown' = Append(TranscriptShown, e)
  <2>1. \A t \in Seq(EventRecords) : t = [i \in 1..Len(t) |-> t[i]]
    OBVIOUS
  <2>2. TranscriptShown \in Seq(EventRecords) /\ Len(TranscriptShown) = n
    BY <1>3
  <2>3. Append(TranscriptShown, e) \in Seq(EventRecords) /\ Len(Append(TranscriptShown, e)) = n + 1
    BY <1>2, <2>2, AppendedEvent
  <2>4. PICK t \in Seq(EventRecords) : t = Append(TranscriptShown, e) /\ Len(t) = n + 1
    BY <2>3
  <2>5. t = [i \in 1..(n + 1) |-> t[i]]
    BY <2>1, <2>4
  <2>6. \A i \in 1..(n + 1) : RowEvent(i)' = t[i]
    BY <1>8, <2>4
  <2> QED BY <1>4, <2>4, <2>5, <2>6
<1> QED BY <1>2, <1>3, <1>7, <1>9

(* The rows and the streams below their question, whatever is written next. *)
LEMMA RunWritesOrder == ViewInv /\ OrderInv /\ RunWrites => OrderInv'
<1> SUFFICES ASSUME ViewInv, OrderInv, RunWrites PROVE OrderInv'
  OBVIOUS
<1> DEFINE w == Head(todo)
<1>1. /\ todo \in Seq(Writes) /\ todo # <<>> /\ rows \in Seq(RowRecords) /\ turn \in Nat /\ nextId \in Nat
      /\ bus \in [Runs -> Seq(BusEvents)] /\ asked \in Seq(Texts)
  BY DEF ViewInv, Typed, RunWrites
<1>2. w \in Writes
  BY <1>1
<1>3. Perform(w) /\ todo' = Tail(todo)
      /\ UNCHANGED <<queue, turn, asked, live, stage, follows>>
  BY DEF RunWrites, pageState
<1>4. turn \in 1..Len(asked) /\ Ordered(asked, TranscriptShown)
  BY <1>1 DEF OrderInv, TodoBelow
<1>5. /\ Tail(todo) \in Seq(WritesOf(turn))
      /\ \/ w \in WritesOf(turn) /\ Asks(TranscriptShown, asked[turn])
         \/ w = Written("user_message", "", asked[turn], NoKey, "")
  <2>1. CASE todo \in Seq(WritesOf(turn)) /\ Asks(TranscriptShown, asked[turn])
    <3>1. \A S : \A x \in Seq(S) : x # <<>> => Head(x) \in S /\ Tail(x) \in Seq(S)
      OBVIOUS
    <3>2. Head(todo) \in WritesOf(turn) /\ Tail(todo) \in Seq(WritesOf(turn))
      BY <1>1, <2>1, <3>1
    <3> QED BY <2>1, <3>2
  <2>2. CASE /\ Head(todo) = Written("user_message", "", asked[turn], NoKey, "")
             /\ Tail(todo) \in Seq(WritesOf(turn))
    BY <2>2
  <2> QED BY <1>1, <2>1, <2>2 DEF OrderInv, TodoBelow
<1> HIDE DEF w
<1>6. w = Written("user_message", "", asked[turn], NoKey, "") =>
         w.row = "user_message" /\ w.text = asked[turn] /\ w.event = ""
  <2>1. \A q : LET u == Written("user_message", "", q, NoKey, "")
               IN  u.row = "user_message" /\ u.text = q /\ u.event = ""
    BY DEF Written
  <2> QED BY <2>1
<1>7. Ordered(asked, TranscriptShown') /\ Asks(TranscriptShown', asked[turn])
  <2>1. CASE w.row = ""
    <3>1. rows' = rows
      BY <1>3, <2>1 DEF Perform
    <3>2. TranscriptShown' = TranscriptShown
      BY <3>1 DEF TranscriptShown, Mapped
    <3>3. w # Written("user_message", "", asked[turn], NoKey, "")
      BY <1>6, <2>1
    <3> QED BY <1>4, <1>5, <3>2, <3>3
  <2>2. CASE w.row # ""
    <3> DEFINE row == [kind |-> w.row, text |-> w.text, key |-> w.key, status |-> w.status,
                       seq |-> Cardinality(RunRows) + 1, run |-> turn]
    <3>1. row \in RowRecords
      <4>1. Cardinality(RunRows) + 1 \in Nat \ {0}
        BY <1>1, RowCounted
      <4>2. /\ w.row \in RowKinds /\ w.text \in Texts /\ w.key \in Keys /\ w.status \in Statuses
            /\ Cardinality(RunRows) + 1 \in Nat \ {0}
        BY <1>2, <2>2, <4>1 DEF Writes
      <4> QED BY <1>1, <4>2 DEF RowRecords
    <3>2. rows' = Append(rows, row) /\ row.kind = w.row /\ row.text = w.text
      BY <1>3, <2>2 DEF Perform
    <3> HIDE DEF row
    <3>3. PICK e \in EventRecords :
            /\ TranscriptShown' = Append(TranscriptShown, e) /\ TranscriptShown \in Seq(EventRecords)
            /\ e.kind = TranscriptKind(row.kind)
            /\ e.text = IF row.kind = "tool_call" THEN NoText ELSE row.text
      BY <1>1, <3>1, <3>2, RowAdded
    <3>4. CASE w \in WritesOf(turn) /\ Asks(TranscriptShown, asked[turn])
      <4>1. w.row \in RowKinds \ {"user_message"}
            /\ (w.row = "assistant_message" => \A n \in DOMAIN w.text : w.text[n][1] = turn)
        BY <2>2, <3>4 DEF WritesOf, Writes
      <4>2. e.kind # "user.message" /\ (e.kind \in Saying => w.row = "assistant_message")
        BY <3>2, <3>3, <4>1 DEF TranscriptKind, RowKinds, Saying
      <4>3. e.kind \in Saying => Answers(asked, e.text, asked[turn])
        BY <1>1, <1>4, <3>2, <3>3, <4>1, <4>2 DEF Answers
      <4>4. Ordered(asked, Append(TranscriptShown, e))
        BY <1>4, <3>3, <3>4, <4>3, OrderedNext
      <4>5. Asks(Append(TranscriptShown, e), asked[turn])
        BY <3>3, <3>4, <4>2, AsksNext
      <4> QED BY <3>3, <4>4, <4>5
    <3>5. CASE w = Written("user_message", "", asked[turn], NoKey, "")
      <4>1. w.row = "user_message" /\ w.text = asked[turn]
        BY <1>6, <3>5
      <4>2. e.kind = "user.message" /\ e.text = asked[turn]
        BY <3>2, <3>3, <4>1 DEF TranscriptKind
      <4>3. Ordered(asked, Append(TranscriptShown, e))
        BY <1>4, <3>3, <4>2, OrderedNext DEF Saying
      <4>4. Asks(Append(TranscriptShown, e), asked[turn])
        BY <3>3, <4>2, AsksNext
      <4> QED BY <3>3, <4>3, <4>4
    <3> QED BY <1>5, <3>4, <3>5
  <2> QED BY <2>1, <2>2
<1>8. TodoBelow'
  <2>1. TodoBelow' <=>
          /\ todo' # <<>> => turn' \in 1..Len(asked')
          /\ \/ todo' \in Seq(WritesOf(turn')) /\ (todo' # <<>> => Asks(TranscriptShown', asked'[turn']))
             \/ /\ todo' # <<>> /\ Head(todo') = Written("user_message", "", asked'[turn'], NoKey, "")
                /\ Tail(todo') \in Seq(WritesOf(turn'))
    BY DEF TodoBelow, Asks, LastAbove, WritesOf, Written
  <2> QED BY <1>3, <1>4, <1>5, <1>7, <2>1
<1>9. StreamsSayTheirOwn'
  <2>1. CASE w.event = ""
    <3>1. bus' = bus
      BY <1>3, <2>1 DEF Perform
    <3> QED BY <3>1 DEF OrderInv, StreamsSayTheirOwn
  <2>2. CASE w.event # ""
    <3> DEFINE event == [id |-> nextId + 1, kind |-> w.event, key |-> w.key, status |-> w.status,
                         seq |-> 0, text |-> IF w.event = "tool.call" THEN NoText ELSE w.text]
    <3>1. bus' = [bus EXCEPT ![turn] = Append(@, event)]
      BY <1>3, <2>2 DEF Perform
    <3>2. event.kind = "assistant.delta" => \A n \in DOMAIN event.text : event.text[n][1] = turn
      <4>1. w \in WritesOf(turn)
        BY <1>5, <1>6, <2>2
      <4> QED BY <4>1 DEF WritesOf
    <3> HIDE DEF event
    <3>3. ASSUME NEW r \in Runs, NEW i \in 1..Len(bus'[r]), bus'[r][i].kind = "assistant.delta"
          PROVE  \A n \in DOMAIN bus'[r][i].text : bus'[r][i].text[n][1] = r
      <4>1. bus[r] \in Seq(BusEvents) /\ Len(bus[r]) \in Nat
        BY <1>1
      <4>2. CASE r = turn
        <5>1. bus'[r] = Append(bus[r], event)
          BY <1>1, <3>1, <4>2
        <5>2. bus'[r][i] = IF i = Len(bus[r]) + 1 THEN event ELSE bus[r][i]
          BY <3>3, <4>1, <5>1
        <5>3. i # Len(bus[r]) + 1 => i \in 1..Len(bus[r])
          BY <3>3, <4>1, <5>1
        <5> QED BY <3>2, <3>3, <4>2, <5>2, <5>3 DEF OrderInv, StreamsSayTheirOwn
      <4>3. CASE r # turn
        <5>1. bus'[r] = bus[r]
          BY <1>1, <3>1, <4>3
        <5> QED BY <3>3, <5>1 DEF OrderInv, StreamsSayTheirOwn
      <4> QED BY <4>2, <4>3
    <3> QED BY <3>3 DEF StreamsSayTheirOwn, Runs
  <2> QED BY <2>1, <2>2
<1>10. TurnsAsked' /\ StreamBelow'
  BY <1>3 DEF OrderInv, TurnsAsked, StreamBelow, Asks, LastAbove, Asking
<1>11. Ordered(asked, TranscriptShown)' /\ Ordered(asked, live)'
  BY <1>3, <1>7 DEF OrderInv, Ordered, LastAbove, Answers
<1> QED BY <1>8, <1>9, <1>10, <1>11 DEF OrderInv

(* The live view begins with rows in order, and asks what was typed. *)
LEMMA SubmitOrder == ViewInv /\ OrderInv /\ Submit => OrderInv'
<1> SUFFICES ASSUME ViewInv, OrderInv, Submit PROVE OrderInv'
  OBVIOUS
<1>1. /\ rows \in Seq(RowRecords) /\ canonical \in Nat /\ canonical <= Len(rows) /\ submitted \in Nat
      /\ stage' = "posting" /\ UNCHANGED <<queue, turn, todo, rows, bus, asked>>
      /\ live' = Append(Mapped(canonical), UserEvent(Question))
  BY DEF ViewInv, Typed, Submit, session
<1> DEFINE e == UserEvent(Question)
           s == Mapped(canonical)
<1>2. e \in EventRecords /\ e.kind = "user.message" /\ e.text = Question
  <2>1. Question \in Texts
    BY <1>1 DEF Question, Texts
  <2>2. e.kind = "user.message" /\ e.text = Question
    BY DEF UserEvent
  <2>3. e \in EventRecords
    <3>1. /\ canonical \in Nat /\ "user.message" \in EventKinds /\ NoKey \in Keys /\ "" \in Statuses
          /\ 0 \in Nat
      BY <1>1 DEF EventKinds, NoKey, Keys, Statuses
    <3> QED BY <2>1, <3>1 DEF UserEvent, EventRecords
  <2> QED BY <2>2, <2>3
<1>3. s \in Seq(EventRecords) /\ Len(s) = canonical /\ \A i \in 1..canonical : s[i] = RowEvent(i)
  BY <1>1, MappedFacts
<1>4. TranscriptShown \in Seq(EventRecords) /\ Len(TranscriptShown) = Len(rows)
      /\ \A i \in 1..Len(rows) : TranscriptShown[i] = RowEvent(i)
  BY <1>1, MappedFacts DEF TranscriptShown
<1>5. live' = Append(s, e)
  BY <1>1
<1> HIDE DEF s, e
<1>6. Ordered(asked, s)
  <2>1. \A i \in 1..Len(s) : s[i] = TranscriptShown[i]
    BY <1>1, <1>3, <1>4
  <2> QED BY <1>1, <1>3, <1>4, <2>1, OrderedPrefix DEF OrderInv
<1>7. Ordered(asked, live') /\ Asks(live', e.text)
  <2>1. Ordered(asked, Append(s, e))
    BY <1>2, <1>3, <1>6, OrderedNext DEF Saying
  <2> QED BY <1>2, <1>3, <1>5, <2>1, AsksNext
<1>8. Asking' = e.text
  <2>1. live'[Len(live')] = e
    BY <1>2, <1>3, <1>5, AppendedEvent
  <2> QED BY <2>1 DEF Asking, Last
<1>9. StreamBelow'
  BY <1>1, <1>7, <1>8 DEF StreamBelow, Asks, LastAbove
<1>10. TranscriptShown' = TranscriptShown
  BY <1>1 DEF TranscriptShown, Mapped
<1>11. Ordered(asked, TranscriptShown)' /\ Ordered(asked, live)'
  BY <1>1, <1>7, <1>10 DEF OrderInv, Ordered, LastAbove, Answers
<1>12. TurnsAsked' /\ StreamsSayTheirOwn' /\ TodoBelow'
  BY <1>1, <1>10 DEF OrderInv, TurnsAsked, StreamsSayTheirOwn, TodoBelow, Asks, LastAbove
<1> QED BY <1>9, <1>11, <1>12 DEF OrderInv

(* The message that is accepted is the last that was asked, and the last that
   is shown. *)
LEMMA AcceptedOrder == ViewInv /\ OrderInv /\ Accepted => OrderInv'
<1> SUFFICES ASSUME ViewInv, OrderInv, Accepted PROVE OrderInv'
  OBVIOUS
<1>1. /\ stage = "posting" /\ queue' = Append(queue, Asking) /\ asked' = Append(asked, Asking)
      /\ (stage' = "connecting" /\ follows' = Len(asked) + 1) \/ stage' = "idle"
      /\ UNCHANGED <<turn, todo, rows, bus, live>>
  BY DEF Accepted
<1>2. /\ live \in Seq(EventRecords) /\ live # <<>> /\ queue \in Seq(Texts) /\ asked \in Seq(Texts)
      /\ turn \in Nat
  BY <1>1 DEF ViewInv, Typed, RunsFollowed
<1>3. Asking \in Texts
  <2>1. live[Len(live)] \in EventRecords
    BY <1>2
  <2> QED BY <2>1 DEF Asking, Last, EventRecords
<1>4. /\ Len(asked') = Len(asked) + 1 /\ Len(asked) \in Nat /\ Len(queue) \in Nat
      /\ Len(queue') = Len(queue) + 1 /\ asked'[Len(asked) + 1] = Asking
      /\ queue'[Len(queue) + 1] = Asking
      /\ \A i \in 1..Len(asked) : asked'[i] = asked[i]
      /\ \A i \in 1..Len(queue) : queue'[i] = queue[i]
  BY <1>1, <1>2, <1>3
<1>5. Len(asked) = turn + Len(queue) /\ \A i \in 1..Len(queue) : asked[turn + i] = queue[i]
  BY DEF OrderInv, TurnsAsked
<1>6. TurnsAsked'
  <2>1. ASSUME NEW i \in 1..(Len(queue) + 1) PROVE asked'[turn + i] = queue'[i]
    <3>1. CASE i = Len(queue) + 1
      <4>1. turn + i = Len(asked) + 1
        BY <1>2, <1>4, <1>5, <3>1
      <4> QED BY <1>4, <3>1, <4>1
    <3>2. CASE i # Len(queue) + 1
      <4>1. i \in 1..Len(queue) /\ turn + i \in 1..Len(asked)
        BY <1>2, <1>4, <1>5, <3>2
      <4> QED BY <1>4, <1>5, <4>1
    <3> QED BY <3>1, <3>2
  <2>2. Len(asked') = turn' + Len(queue')
    BY <1>1, <1>2, <1>4, <1>5
  <2> QED BY <1>1, <1>4, <2>1, <2>2 DEF TurnsAsked
<1>7. TodoBelow'
  <2>1. TranscriptShown' = TranscriptShown
    BY <1>1 DEF TranscriptShown, Mapped
  <2>2. TodoBelow
    BY DEF OrderInv
  <2>3. CASE todo = <<>>
    BY <1>1, <2>3 DEF TodoBelow
  <2>4. CASE todo # <<>>
    <3>1. turn \in 1..Len(asked)
      BY <2>2, <2>4 DEF TodoBelow
    <3>2. asked'[turn] = asked[turn] /\ turn \in 1..Len(asked')
      BY <1>4, <3>1
    <3> QED BY <1>1, <2>1, <2>2, <3>2 DEF TodoBelow, Asks, LastAbove, WritesOf, Written
  <2> QED BY <2>3, <2>4
<1>8. StreamsSayTheirOwn'
  BY <1>1 DEF OrderInv, StreamsSayTheirOwn
<1>9. StreamBelow'
  <2>1. Asks(live, Asking)
    BY <1>1 DEF OrderInv, StreamBelow
  <2>2. stage' = "connecting" => follows' \in 1..Len(asked') /\ asked'[follows'] = Asking
    BY <1>1, <1>4
  <2> QED BY <1>1, <2>1, <2>2 DEF StreamBelow, Asks, LastAbove
<1>10. Ordered(asked, TranscriptShown)' /\ Ordered(asked, live)'
  <2>1. Ordered(asked', TranscriptShown) /\ Ordered(asked', live)
    BY <1>1, <1>2, <1>3, OrderedAsked DEF OrderInv
  <2>2. TranscriptShown' = TranscriptShown
    BY <1>1 DEF TranscriptShown, Mapped
  <2> QED BY <1>1, <2>1, <2>2 DEF Ordered, LastAbove, Answers
<1> QED BY <1>6, <1>7, <1>8, <1>9, <1>10 DEF OrderInv

(* An event that says nothing, or what the message above it asked for, is added. *)
LEMMA LiveOrder ==
  ASSUME ViewInv, OrderInv, UNCHANGED <<queue, turn, todo, rows, bus, asked, follows>>,
         NEW e \in EventRecords, live' = Append(live, e), stage = "streaming",
         stage' \in {"streaming", "loading"}, e.kind # "user.message",
         e.kind \in Saying => \A n \in DOMAIN e.text : e.text[n][1] = follows
  PROVE  OrderInv'
<1>1. /\ live \in Seq(EventRecords) /\ asked \in Seq(Texts)
      /\ follows \in 1..Len(asked) /\ Asks(live, asked[follows])
  BY DEF ViewInv, Typed, OrderInv, StreamBelow
<1>2. e.kind \in Saying => Answers(asked, e.text, asked[follows])
  BY <1>1 DEF Answers
<1>3. Ordered(asked, live')
  BY <1>1, <1>2, OrderedNext DEF OrderInv
<1>4. Asks(live', asked[follows])
  BY <1>1, AsksNext
<1>5. StreamBelow'
  BY <1>1, <1>4 DEF StreamBelow, Asks, LastAbove
<1>6. TranscriptShown' = TranscriptShown
  BY DEF TranscriptShown, Mapped
<1>7. Ordered(asked, TranscriptShown)' /\ Ordered(asked, live)'
  BY <1>3, <1>6 DEF OrderInv, Ordered, LastAbove, Answers
<1>8. TurnsAsked' /\ StreamsSayTheirOwn' /\ TodoBelow'
  BY <1>6 DEF OrderInv, TurnsAsked, StreamsSayTheirOwn, TodoBelow, Asks, LastAbove
<1> QED BY <1>5, <1>7, <1>8 DEF OrderInv

LEMMA FrameOrder == ViewInv /\ OrderInv /\ Frame => OrderInv'
<1> SUFFICES ASSUME ViewInv, OrderInv, Frame PROVE OrderInv'
  OBVIOUS
<1>1. /\ stage = "streaming" /\ cursor < Len(Stream)
      /\ live' = Append(live, Stream[cursor + 1])
      /\ UNCHANGED <<queue, turn, todo, rows, bus, asked, stage, follows>>
  BY DEF Frame, More, session
<1>2. /\ follows \in Runs /\ Stream = bus[follows] /\ Stream \in Seq(BusEvents) /\ cursor \in Nat
  BY <1>1 DEF ViewInv, Typed, RunsFollowed, Stream
<1>3. PICK e \in BusEvents : e = Stream[cursor + 1]
  BY <1>1, <1>2
<1>4. cursor + 1 \in 1..Len(bus[follows])
  BY <1>1, <1>2
<1>5. e \in EventRecords /\ e.kind # "user.message" /\ (e.kind \in Saying => e.kind = "assistant.delta")
  BY DEF BusEvents, BusKinds, Saying
<1>6. e.kind = "assistant.delta" => \A n \in DOMAIN e.text : e.text[n][1] = follows
  BY <1>2, <1>3, <1>4 DEF OrderInv, StreamsSayTheirOwn
<1> QED BY <1>1, <1>3, <1>5, <1>6, LiveOrder

LEMMA StreamEndsOrder == ViewInv /\ OrderInv /\ StreamEnds => OrderInv'
<1> SUFFICES ASSUME ViewInv, OrderInv, StreamEnds PROVE OrderInv'
  OBVIOUS
<1>1. /\ stage = "streaming" /\ stage' = "loading"
      /\ live' = live \/ live' = Append(live, Recovery)
      /\ UNCHANGED <<queue, turn, todo, rows, bus, asked, follows>>
  BY DEF StreamEnds, session
<1>2. Recovery.kind = "lifecycle"
  BY DEF Recovery
<1>3. Recovery \in EventRecords
  <2>1. Len(live) \in Nat
    BY DEF ViewInv, Typed
  <2> QED BY <2>1 DEF Recovery, EventRecords, EventKinds, BusKinds, NoText, Texts, NoKey, Keys, Statuses
<1>4. CASE live' = live
  BY <1>1, <1>4, QuietOrder
<1>5. CASE live' = Append(live, Recovery)
  BY <1>1, <1>2, <1>3, <1>5, LiveOrder DEF Saying
<1> QED BY <1>1, <1>4, <1>5

(* OrderInv is kept where ViewInv holds. *)
LEMMA NextKeepsOrder == ViewInv /\ OrderInv /\ [ViewNext]_viewVars => OrderInv'
<1> SUFFICES ASSUME ViewInv, OrderInv, [ViewNext]_viewVars PROVE OrderInv'
  OBVIOUS
<1>1. CASE BeginRun \/ RunWrites \/ RunStops
  BY <1>1, BeginRunOrder, RunWritesOrder, RunStopsOrder
<1>2. CASE Submit \/ Accepted
  BY <1>2, SubmitOrder, AcceptedOrder
<1>3. CASE Frame \/ StreamEnds
  BY <1>3, FrameOrder, StreamEndsOrder
<1>4. CASE Refused \/ Connect \/ StreamBreaks
  BY <1>4, QuietOrder DEF Refused, Connect, StreamBreaks, session
<1>5. CASE Gap \/ Toggle
  BY <1>5, QuietOrder DEF Gap, Toggle, session
<1>6. CASE \E of \in {"submit", "gap"} : Loads(of)
  <2>1. PICK of \in {"submit", "gap"} : ReadTranscript(of) \/ Loaded(of) \/ LoadFails(of)
    BY <1>6 DEF Loads
  <2>2. stage' = stage \/ stage' = "idle"
    BY <2>1 DEF ReadTranscript, Loaded, LoadFails, Returned
  <2> QED BY <2>1, <2>2, QuietOrder DEF ReadTranscript, Loaded, LoadFails, session
<1>7. CASE UNCHANGED viewVars
  BY <1>7, QuietOrder DEF viewVars, session, pageState
<1> QED BY <1>1, <1>2, <1>3, <1>4, <1>5, <1>6, <1>7 DEF ViewNext

(* AnswersBelowTheirQuestions: in the live view and in the transcript alike,
   and however many submissions were refused, lost or cut off, every word a run
   says is below the message that started it and above the next one. *)
THEOREM AnswersStayBelow == ViewSpec => []AnswersBelowTheirQuestions
<1>1. ViewInit => ViewInv /\ OrderInv
  BY InitViewInv, InitOrder
<1>2. ViewInv /\ OrderInv /\ [ViewNext]_viewVars => (ViewInv /\ OrderInv)'
  BY NextKeepsView, NextKeepsOrder
<1>3. ViewInv /\ OrderInv => AnswersBelowTheirQuestions
  <2> SUFFICES ASSUME ViewInv, OrderInv PROVE AnswersBelowTheirQuestions
    OBVIOUS
  <2>1. /\ rows \in Seq(RowRecords) /\ canonical \in Nat /\ canonical <= Len(rows)
        /\ live \in Seq(EventRecords)
    BY DEF ViewInv, Typed
  <2>2. CASE mode = "live"
    <3>1. Events = live
      BY <2>2 DEF Events, Shown
    <3> QED BY <2>1, <3>1, OrderIsShown DEF OrderInv
  <2>3. CASE mode # "live"
    <3>1. Events = Mapped(canonical)
      BY <2>3 DEF Events, Shown
    <3>2. Mapped(canonical) \in Seq(EventRecords) /\ Len(Mapped(canonical)) = canonical
          /\ \A i \in 1..canonical : Mapped(canonical)[i] = RowEvent(i)
      BY <2>1, MappedFacts
    <3>3. Len(TranscriptShown) = Len(rows) /\ \A i \in 1..Len(rows) : TranscriptShown[i] = RowEvent(i)
      BY <2>1, MappedFacts DEF TranscriptShown
    <3>4. \A i \in 1..canonical : Mapped(canonical)[i] = TranscriptShown[i]
      BY <2>1, <3>2, <3>3
    <3>5. Ordered(asked, Mapped(canonical))
      BY <2>1, <3>2, <3>3, <3>4, OrderedPrefix DEF OrderInv
    <3> QED BY <3>1, <3>2, <3>5, OrderIsShown
  <2> QED BY <2>2, <2>3
<1> QED BY <1>1, <1>2, <1>3, PTL DEF ViewSpec
=============================================================================
