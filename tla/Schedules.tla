----------------------------- MODULE Schedules -----------------------------
(***************************************************************************)
(* Schedules: requests and tools that create, trigger, pause, resume and   *)
(* delete them in Temporal and project them into the schedules table; the  *)
(* reconciliation the Schedules page polls; and the turns that fires       *)
(* submit into the session of their schedule.                              *)
(*                                                                         *)
(* Every call to Temporal is an await: other requests, and other attempts, *)
(* run meanwhile.  What follows it up to the next such call is one step.   *)
(*                                                                         *)
(* External: Temporal itself.  It keeps one fire of a schedule that        *)
(* overlaps (BUFFER_ONE) and runs an activity at most MaxAttempts times.   *)
(* Abstracted: names, prompts, times and cron expressions.                 *)
(***************************************************************************)
EXTENDS Naturals, FiniteSets

CONSTANTS
  Schedules,     \* schedule ids
  Foreign,       \* schedules of other programs in the same namespace
  BadIds,        \* those of them whose id assertScheduleId rejects
  Requests,      \* requests that are made, one after the other each
  Page,          \* the polling of the Schedules page
  Fires,         \* executions of ScheduledAgentWorkflow
  MaxAttempts,   \* attempts of submitScheduledTurn (3 in the code)
  MaxWork        \* bound: requests, fires and outside changes together

ASSUME SchedulesAssumption ==
  /\ Page \notin Requests /\ MaxAttempts \in Nat \ {0} /\ MaxWork \in Nat
  /\ Schedules \cap Foreign = {} /\ BadIds \subseteq Foreign

VARIABLES
  temporal,      \* the schedule in Temporal
  foreign,       \* the schedules of other programs that are there
  row,           \* schedules.status
  doing,         \* what a client is doing
  calm,          \* history: reconciliations beside which nothing changed
  pending,       \* schedules with a fire to be started
  fire,          \* executions: their schedule, state and current attempt
  at,            \* the next step of every attempt
  accepted,      \* history: attempts whose turn the session accepted
  event,         \* schedule_fire_events: status, and attempt of acceptedRunId
  execution,     \* workflow_executions.status
  given,         \* history: fires that gave up an attempt that still ran
  work           \* counter of the bound MaxWork

projection == <<temporal, row, doing, calm>>
firing == <<fire, at, accepted, event, execution, given>>
vars == <<projection, foreign, pending, firing, work>>

Clients == Requests \cup {Page}
Attempts == 1..MaxAttempts
Live == {s \in Schedules : temporal[s] \in {"active", "paused"}}

Nothing == [kind |-> "none", at |-> "none", on |-> {}, saw |-> "none", ids |-> {}, todo |-> {}]

NotFired == [of |-> {}, state |-> "none", attempt |-> 0]

(* Some schedules are there already, and projected; those of others come later. *)
Init ==
  /\ temporal \in [Schedules -> {"none", "active"}]
  /\ row = temporal
  /\ foreign = {}
  /\ doing = [c \in Clients |-> Nothing]
  /\ calm = {} /\ pending = {} /\ given = {} /\ work = 0
  /\ fire = [f \in Fires |-> NotFired]
  /\ at = [f \in Fires |-> [a \in Attempts |-> "none"]]
  /\ accepted = [f \in Fires |-> {}]
  /\ event = [f \in Fires |-> [status |-> "none", run |-> 0]]
  /\ execution = [f \in Fires |-> "none"]

Works == work < MaxWork /\ work' = work + 1

-----------------------------------------------------------------------------
(* Requests. *)

Op(c) == doing[c]
Goto(c, next) == doing' = [doing EXCEPT ![c].at = next]
Done(c) == doing' = [doing EXCEPT ![c] = Nothing]

(* What changes a table or Temporal disturbs the reconciliations of the others. *)
Disturbs(c) == calm' = calm \cap {c}

(* All but create look for the row first and answer 404 without it. *)
Accepts(kind, s) ==
  CASE kind = "create" -> temporal[s] = "none" /\ \A c \in Clients : s \notin Op(c).on
    [] OTHER -> row[s] # "none"

Request(c) ==
  /\ Op(c) = Nothing /\ Works
  /\ \E kind \in {"create", "trigger", "pause", "resume", "delete"}, s \in Schedules :
       /\ Accepts(kind, s)
       /\ doing' = [doing EXCEPT ![c] = [Nothing EXCEPT !.kind = kind, !.at = "call", !.on = {s}]]
  /\ UNCHANGED <<temporal, foreign, row, calm, pending, firing>>

(* The call to Temporal of each; on a schedule that is gone it throws. *)
Called(kind, s) ==
  CASE kind = "create" -> "active"
    [] kind = "pause" -> "paused"
    [] kind = "resume" -> "active"
    [] kind = "delete" -> "deleted"
    [] kind = "trigger" -> temporal[s]

Call(c) ==
  /\ Op(c).at = "call"
  /\ \E s \in Op(c).on :
       IF s \in Live \/ Op(c).kind = "create"
       THEN /\ temporal' = [temporal EXCEPT ![s] = Called(Op(c).kind, s)]
            /\ pending' = IF Op(c).kind = "trigger" THEN pending \cup {s} ELSE pending
            /\ Goto(c, IF Op(c).kind = "delete" THEN "forget" ELSE "describe")
       ELSE Done(c) /\ UNCHANGED <<temporal, pending>>
  /\ Disturbs(c)
  /\ UNCHANGED <<foreign, row, firing, work>>

Describe(c) ==
  /\ Op(c).kind # "reconcile" /\ Op(c).at = "describe"
  /\ \E s \in Op(c).on :
       IF s \in Live
       THEN doing' = [doing EXCEPT ![c].at = "write", ![c].saw = temporal[s]]
       ELSE Done(c)
  /\ UNCHANGED <<temporal, foreign, row, calm, pending, firing, work>>

(* upsert by create; refreshFromTemporal, which insists on the row, by the rest. *)
Upserts(kind, s) == kind = "create" \/ row[s] # "none"

WriteRow(c) ==
  /\ Op(c).kind # "reconcile" /\ Op(c).at = "write"
  /\ \E s \in Op(c).on :
       row' = IF Upserts(Op(c).kind, s) THEN [row EXCEPT ![s] = Op(c).saw] ELSE row
  /\ Done(c) /\ Disturbs(c)
  /\ UNCHANGED <<temporal, foreign, pending, firing, work>>

ForgetRow(c) ==
  /\ Op(c).at = "forget"
  /\ row' = [s \in Schedules |-> IF s \in Op(c).on THEN "none" ELSE row[s]]
  /\ Done(c) /\ Disturbs(c)
  /\ UNCHANGED <<temporal, foreign, pending, firing, work>>

(* A request may stop at any of its awaits: an error, or the server is lost. *)
Stop(c) ==
  /\ c \in Requests /\ Op(c) # Nothing
  /\ Done(c)
  /\ UNCHANGED <<temporal, foreign, row, calm, pending, firing, work>>

-----------------------------------------------------------------------------
(* reconcileTemporalSchedules: GET /api/schedules, and the schedule.list tool. *)

StartReconcile(c) ==
  /\ Op(c) = Nothing
  /\ IF c = Page THEN UNCHANGED work ELSE Works
  /\ doing' = [doing EXCEPT ![c] =
                 [Nothing EXCEPT !.kind = "reconcile", !.at = "describe",
                                 !.todo = Live \cup foreign]]
  /\ calm' = calm \cup {c}
  /\ UNCHANGED <<temporal, foreign, row, pending, firing>>

(* assertScheduleId is applied to schedules of other programs too, and describe throws
   for one that is gone by now: either fails the whole reconciliation. *)
Throws(s) == s \in BadIds \/ s \notin Live \cup foreign

DescribeNext(c) ==
  /\ Op(c).kind = "reconcile" /\ Op(c).at = "describe"
  /\ \E s \in Op(c).todo :
       \/ Throws(s) /\ Done(c)
       \/ /\ ~Throws(s) /\ s \in Foreign
          /\ doing' = [doing EXCEPT ![c].todo = @ \ {s}]
       \/ /\ ~Throws(s) /\ s \notin Foreign
          /\ doing' = [doing EXCEPT ![c].at = "write", ![c].on = {s}, ![c].saw = temporal[s]]
  /\ UNCHANGED <<temporal, foreign, row, calm, pending, firing, work>>

ForgetsTheNew(c) == {s \in Op(c).ids \cup Op(c).on : row[s] # "none"}

Keeps(c) == Op(c).ids \cup Op(c).on

WriteNext(c) ==
  /\ Op(c).kind = "reconcile" /\ Op(c).at = "write"
  /\ row' = [s \in Schedules |-> IF s \in Op(c).on THEN Op(c).saw ELSE row[s]]
  /\ doing' = [doing EXCEPT ![c] = [Op(c) EXCEPT !.at = "describe", !.ids = Keeps(c),
                                     !.todo = @ \ Op(c).on, !.on = {}, !.saw = "none"]]
  /\ Disturbs(c)
  /\ UNCHANGED <<temporal, foreign, pending, firing, work>>

PrunesNothing(c) == {}

(* The rows of schedules Temporal did not list. *)
Pruned(c) == Schedules \ Op(c).ids

Prune(c) ==
  /\ Op(c).kind = "reconcile" /\ Op(c).at = "describe" /\ Op(c).todo = {}
  /\ row' = [s \in Schedules |-> IF s \in Pruned(c) THEN "none" ELSE row[s]]
  /\ Done(c) /\ Disturbs(c)
  /\ UNCHANGED <<temporal, foreign, pending, firing, work>>

(* Somebody uses the Temporal command line. *)
Drift(s) ==
  /\ s \in Live /\ Works
  /\ \E next \in {"active", "paused", "deleted"} \ {temporal[s]} :
       temporal' = [temporal EXCEPT ![s] = next]
  /\ calm' = {}
  /\ UNCHANGED <<foreign, row, doing, pending, firing>>

(* Another program creates or deletes a schedule of its own. *)
OthersChange(x) ==
  /\ Works
  /\ foreign' = IF x \in foreign THEN foreign \ {x} ELSE foreign \cup {x}
  /\ UNCHANGED <<projection, pending, firing>>

-----------------------------------------------------------------------------
(* Fires. *)

CronFires(s) ==
  /\ temporal[s] = "active" /\ Works
  /\ pending' = pending \cup {s}
  /\ UNCHANGED <<projection, foreign, firing>>

RunningFires(s) == {f \in Fires : fire[f].of = {s} /\ fire[f].state = "running"}

Attempt(f, a) ==
  /\ fire' = [fire EXCEPT ![f].state = "running", ![f].attempt = a]
  /\ at' = [at EXCEPT ![f][a] = "execution"]

StartFire(f) ==
  /\ fire[f] = NotFired
  /\ \E s \in pending :
       /\ RunningFires(s) = {}
       /\ pending' = pending \ {s}
       /\ fire' = [fire EXCEPT ![f] = [of |-> {s}, state |-> "running", attempt |-> 1]]
  /\ at' = [at EXCEPT ![f][1] = "execution"]
  /\ UNCHANGED <<projection, foreign, accepted, event, execution, given, work>>

Then(f, a, next) == at' = [at EXCEPT ![f][a] = next]
Threw(f, a) == Then(f, a, "threw")

(* The two rows, before the try block. *)
RecordExecution(f, a) ==
  /\ at[f][a] = "execution"
  /\ \/ execution' = [execution EXCEPT ![f] = "running"] /\ Then(f, a, "event")
     \/ Threw(f, a) /\ UNCHANGED execution
  /\ UNCHANGED <<accepted, event>>

RecordEvent(f, a) ==
  /\ at[f][a] = "event"
  /\ \/ /\ event' = IF event[f].status = "none" THEN [event EXCEPT ![f].status = "started"]
                    ELSE event
        /\ Then(f, a, "submit")
     \/ Threw(f, a) /\ UNCHANGED event
  /\ UNCHANGED <<accepted, execution>>

(* start with USE_EXISTING, and submitTurn under an update id of its own: the
   session may accept the turn even if its answer does not arrive. *)
Submit(f, a) ==
  /\ at[f][a] = "submit"
  /\ \/ accepted' = [accepted EXCEPT ![f] = @ \cup {a}] /\ Then(f, a, "link")
     \/ accepted' = [accepted EXCEPT ![f] = @ \cup {a}] /\ Then(f, a, "mark")
     \/ Then(f, a, "mark") /\ UNCHANGED accepted
  /\ UNCHANGED <<event, execution>>

LinkStarted(f, a) ==
  /\ at[f][a] = "link"
  /\ event' = IF event[f].status = "started"
              THEN [event EXCEPT ![f] = [status |-> "accepted", run |-> a]] ELSE event
  /\ Then(f, a, "close")
  /\ UNCHANGED <<accepted, execution>>

Link(f, a) ==
  /\ at[f][a] = "link"
  /\ \/ event' = [event EXCEPT ![f] = [status |-> "accepted", run |-> a]] /\ Then(f, a, "close")
     \/ Then(f, a, "mark") /\ UNCHANGED event
  /\ UNCHANGED <<accepted, execution>>

CloseExecution(f, a) ==
  /\ at[f][a] = "close"
  /\ \/ execution' = [execution EXCEPT ![f] = "completed"] /\ Then(f, a, "returned")
     \/ Then(f, a, "mark") /\ UNCHANGED execution
  /\ UNCHANGED <<accepted, event>>

(* The catch block: acceptedRunId stays. *)
MarkFailed(f, a) ==
  /\ at[f][a] = "mark"
  /\ \/ event' = [event EXCEPT ![f].status = "failed"] /\ Then(f, a, "fail")
     \/ Threw(f, a) /\ UNCHANGED event
  /\ UNCHANGED <<accepted, execution>>

FailExecution(f, a) ==
  /\ at[f][a] = "fail"
  /\ \/ execution' = [execution EXCEPT ![f] = "failed"]
     \/ UNCHANGED execution
  /\ Threw(f, a)
  /\ UNCHANGED <<accepted, event>>

Step(f, a) ==
  /\ \/ RecordExecution(f, a) \/ RecordEvent(f, a) \/ Submit(f, a) \/ Link(f, a)
     \/ CloseExecution(f, a) \/ MarkFailed(f, a) \/ FailExecution(f, a)
  /\ UNCHANGED <<projection, foreign, pending, fire, given, work>>

Current(f) == fire[f].attempt

Returns(f) ==
  /\ fire[f].state = "running" /\ at[f][Current(f)] = "returned"
  /\ fire' = [fire EXCEPT ![f].state = "completed"]
  /\ UNCHANGED <<projection, foreign, pending, at, accepted, event, execution, given, work>>

AttemptLeft(f) == Current(f) < MaxAttempts

(* The current attempt threw, or its 30 seconds are over and it may go on. *)
NextAttempt(f) ==
  /\ fire[f].state = "running" /\ at[f][Current(f)] # "returned"
  /\ given' = IF at[f][Current(f)] = "threw" THEN given ELSE given \cup {f}
  /\ IF AttemptLeft(f) THEN Attempt(f, Current(f) + 1)
     ELSE fire' = [fire EXCEPT ![f].state = "failed"] /\ UNCHANGED at
  /\ UNCHANGED <<projection, foreign, pending, accepted, event, execution, work>>

Reconcile(c) == StartReconcile(c) \/ DescribeNext(c) \/ WriteNext(c) \/ Prune(c)

Proceed(c) == Call(c) \/ Describe(c) \/ WriteRow(c) \/ ForgetRow(c)

Next ==
  \/ \E c \in Requests : Request(c) \/ Stop(c)
  \/ \E c \in Clients : Proceed(c) \/ Reconcile(c)
  \/ \E s \in Schedules : Drift(s) \/ CronFires(s)
  \/ \E x \in Foreign : OthersChange(x)
  \/ \E f \in Fires : StartFire(f) \/ Returns(f) \/ NextAttempt(f) \/ \E a \in Attempts : Step(f, a)

Spec == Init /\ [][Next]_vars

(* A Schedules page stays open: it polls every 15 seconds, and its requests,
   like those of other clients, go on to their answers. *)
FairSpec ==
  /\ Spec
  /\ WF_vars(Reconcile(Page))
  /\ \A c \in Requests : WF_vars(Proceed(c)) /\ WF_vars(Reconcile(c) /\ Op(c) # Nothing)

-----------------------------------------------------------------------------
(* Properties. *)

States == {"none", "active", "paused", "deleted"}

(* Type invariant. *)
TypeOK ==
  /\ temporal \in [Schedules -> States]
  /\ row \in [Schedules -> States \ {"deleted"}]
  /\ foreign \subseteq Foreign
  /\ calm \subseteq Clients /\ pending \subseteq Schedules /\ work \in 0..MaxWork
  /\ \A c \in Clients :
       /\ Op(c).at \in {"none", "call", "describe", "write", "forget"}
       /\ Op(c).on \cup Op(c).ids \subseteq Schedules /\ Op(c).todo \subseteq Schedules \cup Foreign
       /\ Op(c).at \in {"call", "forget"} => Cardinality(Op(c).on) = 1
       /\ Op(c).at = "write" => Cardinality(Op(c).on) = 1 /\ Op(c).saw \in {"active", "paused"}
  /\ \A f \in Fires :
       /\ fire[f].state = "none" <=> fire[f].of = {}
       /\ fire[f].state # "none" => fire[f].attempt \in Attempts
       /\ event[f].run \in 0..MaxAttempts
       /\ \A a \in Attempts : at[f][a] # "none" => a <= Current(f)

Actual(s) == IF s \in Live THEN temporal[s] ELSE "none"

(* A reconciliation that comes to its pruning, and beside which neither a schedule of
   the program nor the table changed, leaves the table as Temporal is: every live
   schedule projected with its status, and no row of another
   (reconcileTemporalSchedules). *)
Reconciled ==
  [][\A c \in Clients : Prune(c) /\ c \in calm => \A s \in Schedules : row'[s] = Actual(s)]_vars

(* The run a fire links to is one the session accepted from an attempt of that
   fire, and a fire that says accepted links to one, however attempts that were
   given up and their retries interleave (submitScheduledTurn). *)
LinkIsReal ==
  \A f \in Fires :
    /\ event[f].run # 0 => event[f].run \in accepted[f]
    /\ event[f].status = "accepted" => event[f].run # 0

(* When an execution returns its result and no attempt was given up while it
   ran, its rows say accepted, with the run of the attempt that returned, and
   completed, whatever earlier attempts failed (submitScheduledTurn). *)
ReturnedFiresAreRecorded ==
  \A f \in Fires : fire[f].state = "completed" /\ f \notin given =>
    /\ event[f] = [status |-> "accepted", run |-> Current(f)]
    /\ execution[f] = "completed"

(* While a Schedules page stays open the table agrees with Temporal in the end,
   whatever requests stopped half way, whatever was changed outside and
   whichever rows stale descriptions left (reconcileTemporalSchedules): unless
   another program keeps a schedule whose id is rejected, with which every
   reconciliation throws. *)
ProjectionCatchesUp ==
  <>[](foreign \cap BadIds = {}) => <>[](\A s \in Schedules : row[s] = Actual(s))

(* The rows of a schedule tell what Temporal did: fires that returned are recorded,
   and with the run they started. *)
FiresAreRecorded == TypeOK /\ LinkIsReal /\ ReturnedFiresAreRecorded
=============================================================================
