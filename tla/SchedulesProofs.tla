-------------------------- MODULE SchedulesProofs --------------------------
(***************************************************************************)
(* Theorems of Schedules, for any schedules, requests, fires and attempts: *)
(* what the rows of a fire say is what its attempts did; and a             *)
(* reconciliation beside which nothing changed leaves the table as         *)
(* Temporal is.                                                            *)
(*                                                                         *)
(* Requests and reconciliations do not touch the rows of fires, nor fires  *)
(* the table.  FireInv is about one fire: attempts that were not given up  *)
(* have thrown before the next one begins, so that the rows of a fire are  *)
(* written by the current attempt alone.  CalmInv is about one             *)
(* reconciliation: what it has listed so far is still so.                  *)
(***************************************************************************)
EXTENDS Schedules, FiniteSetTheorems, TLAPS

(* What a client can be doing. *)
Doing ==
  [kind : {"none", "create", "trigger", "pause", "resume", "delete", "reconcile"},
   at : {"none", "call", "describe", "write", "forget"},
   on : SUBSET Schedules, saw : States, ids : SUBSET Schedules,
   todo : SUBSET (Schedules \cup Foreign)]

(* A request is about one schedule; what is written was described. *)
ClientInv(c) ==
  /\ doing[c].at \in {"call", "forget", "write"} => \E s \in Schedules : doing[c].on = {s}
  /\ doing[c].at = "describe" /\ doing[c].kind # "reconcile" =>
       \E s \in Schedules : doing[c].on = {s}
  /\ doing[c].at = "write" => doing[c].saw \in {"active", "paused"}
  /\ doing[c].at = "call" => doing[c].kind \notin {"none", "reconcile"}

ProjectionInv ==
  /\ temporal \in [Schedules -> States]
  /\ row \in [Schedules -> States \ {"deleted"}]
  /\ foreign \subseteq Foreign /\ calm \subseteq Clients
  /\ doing \in [Clients -> Doing]
  /\ \A c \in Clients : ClientInv(c)

Stages == {"none", "execution", "event", "submit", "link", "close", "mark", "fail",
           "returned", "threw"}

(* What an execution of ScheduledAgentWorkflow can be. *)
Executions == [of : SUBSET Schedules, state : {"none", "running", "completed", "failed"},
               attempt : Nat]

FireTypes ==
  /\ fire \in [Fires -> Executions]
  /\ at \in [Fires -> [Attempts -> Stages]]
  /\ accepted \in [Fires -> SUBSET Attempts]
  /\ event \in [Fires -> [status : {"none", "started", "accepted", "failed"}, run : Nat]]
  /\ execution \in [Fires -> {"none", "running", "completed", "failed"}]
  /\ given \subseteq Fires

(* The rows of a fire when the next statement of its current attempt is this one. *)
Recorded(f) ==
  /\ at[f][Current(f)] \in {"close", "returned"} =>
       event[f] = [status |-> "accepted", run |-> Current(f)]
  /\ at[f][Current(f)] = "returned" => execution[f] = "completed"

FireInv(f) ==
  /\ fire[f].state = "none" <=> fire[f].of = {}
  /\ fire[f].state = "none" => fire[f].attempt = 0
  /\ fire[f].state # "none" => fire[f].attempt \in Attempts
  /\ \A a \in Attempts : at[f][a] # "none" => a <= Current(f)
  /\ event[f].run # 0 => event[f].run \in accepted[f]
  /\ event[f].status = "accepted" => event[f].run # 0
  /\ \A a \in Attempts : at[f][a] = "link" => a \in accepted[f]
  /\ fire[f].state \in {"running", "completed"} /\ f \notin given =>
       /\ Recorded(f)
       /\ \A a \in Attempts : a < Current(f) => at[f][a] = "threw"
  /\ fire[f].state = "completed" /\ f \notin given => at[f][Current(f)] = "returned"

FiringInv == FireTypes /\ \A f \in Fires : FireInv(f)

(* A reconciliation beside which nothing changed: what Temporal listed is still to
   be described or has the row it was described with. *)
CalmInv(c) ==
  c \in calm /\ doing[c].kind = "reconcile" =>
    /\ doing[c].ids \cup (doing[c].todo \cap Schedules) = Live
    /\ doing[c].on \subseteq doing[c].todo
    /\ \A s \in doing[c].on : doing[c].saw = temporal[s]
    /\ \A s \in doing[c].ids : row[s] = temporal[s]

(* The inductive invariant. *)
SchedulesInv ==
  ProjectionInv /\ FiringInv /\ pending \subseteq Schedules /\ work \in 0..MaxWork

(* An execution that moves on is one still. *)
LEMMA ExecutionMoves ==
  ASSUME NEW e \in Executions, NEW s \in {"none", "running", "completed", "failed"}, NEW n \in Nat
  PROVE  /\ [e EXCEPT !.state = s] \in Executions
         /\ [e EXCEPT !.state = s, !.attempt = n] \in Executions
BY DEF Executions

-----------------------------------------------------------------------------
(* Requests, reconciliations and changes from outside. *)

(* A client that is done, or begins. *)
LEMMA NothingIsDoing == Nothing \in Doing /\ Nothing.at = "none"
BY DEF Nothing, Doing, States

(* What is left of ProjectionInv when one client moves. *)
LEMMA OneClientMoves ==
  ASSUME ProjectionInv, NEW c \in Clients, NEW next \in Doing,
         doing' = [doing EXCEPT ![c] = next],
         next.at \in {"call", "forget", "write"} => \E s \in Schedules : next.on = {s},
         next.at = "describe" /\ next.kind # "reconcile" => \E s \in Schedules : next.on = {s},
         next.at = "write" => next.saw \in {"active", "paused"},
         next.at = "call" => next.kind \notin {"none", "reconcile"},
         temporal' \in [Schedules -> States], row' \in [Schedules -> States \ {"deleted"}],
         foreign' \subseteq Foreign, calm' \subseteq Clients
  PROVE  ProjectionInv'
<1>1. doing' \in [Clients -> Doing]
  BY DEF ProjectionInv
<1>2. ASSUME NEW d \in Clients  PROVE ClientInv(d)'
  <2>1. CASE d = c
    BY <2>1 DEF ProjectionInv, ClientInv
  <2>2. CASE d # c
    <3>1. doing'[d] = doing[d]
      BY <2>2 DEF ProjectionInv
    <3> QED BY <3>1 DEF ProjectionInv, ClientInv
  <2> QED BY <2>1, <2>2
<1> QED BY <1>1, <1>2 DEF ProjectionInv

(* Work is counted up to its bound. *)
LEMMA WorkCounts ==
  ASSUME work \in 0..MaxWork, Works
  PROVE  work' \in 0..MaxWork
BY SchedulesAssumption DEF Works

(* A request, which leaves the rows of fires alone. *)
LEMMA RequestKeeps ==
  ASSUME SchedulesInv, NEW c \in Clients, Request(c) \/ Proceed(c) \/ Stop(c)
  PROVE  SchedulesInv'
<1>0. ProjectionInv /\ doing[c] \in Doing /\ ClientInv(c) /\ work \in 0..MaxWork
  BY DEF SchedulesInv, ProjectionInv
<1>1. UNCHANGED firing /\ foreign' \subseteq Foreign
  BY <1>0 DEF Request, Proceed, Stop, Call, Describe, WriteRow, ForgetRow, ProjectionInv
<1>2. FiringInv'
  BY <1>1 DEF SchedulesInv, FiringInv, FireTypes, FireInv, Recorded, Current, firing
<1>3. work' \in 0..MaxWork
  BY <1>0, WorkCounts
     DEF Request, Proceed, Stop, Call, Describe, WriteRow, ForgetRow
<1>4. pending' \subseteq Schedules
  BY <1>0 DEF SchedulesInv, Request, Proceed, Stop, Call, Describe, WriteRow, ForgetRow,
     ProjectionInv, Op, Doing
<1>5. ProjectionInv'
  <2>1. CASE Request(c)
    <3>1. PICK kind \in {"create", "trigger", "pause", "resume", "delete"}, s \in Schedules :
            doing' = [doing EXCEPT ![c] = [Nothing EXCEPT !.kind = kind, !.at = "call", !.on = {s}]]
      BY <2>1 DEF Request
    <3> DEFINE next == [Nothing EXCEPT !.kind = kind, !.at = "call", !.on = {s}]
    <3>2. next \in Doing /\ next.at = "call" /\ next.kind = kind /\ next.on = {s}
      BY DEF Nothing, Doing, States
    <3>3. UNCHANGED <<temporal, row, calm>>
      BY <2>1 DEF Request
    <3> HIDE DEF next
    <3> QED BY <1>0, <1>1, <3>1, <3>2, <3>3, OneClientMoves DEF ProjectionInv, next
  <2>2. CASE Call(c)
    <3>1. PICK s \in doing[c].on :
            IF s \in Live \/ doing[c].kind = "create"
            THEN /\ temporal' = [temporal EXCEPT ![s] = Called(doing[c].kind, s)]
                 /\ Goto(c, IF doing[c].kind = "delete" THEN "forget" ELSE "describe")
            ELSE Done(c) /\ UNCHANGED temporal
      BY <2>2 DEF Call, Op
    <3>2. /\ s \in Schedules /\ doing[c].on = {s} /\ doing[c].at = "call"
          /\ doing[c].kind \in {"create", "trigger", "pause", "resume", "delete"}
          /\ UNCHANGED row /\ calm' \subseteq Clients
      BY <1>0, <2>2, <3>1 DEF Call, Op, ClientInv, Doing, Disturbs, ProjectionInv
    <3>3. CASE s \in Live \/ doing[c].kind = "create"
      <4> DEFINE step == IF doing[c].kind = "delete" THEN "forget" ELSE "describe"
                 next == [doing[c] EXCEPT !.at = step]
      <4>1. doing' = [doing EXCEPT ![c] = next]
        BY <3>1, <3>3, <1>0 DEF Goto, ProjectionInv
      <4>2. next \in Doing /\ next.at \in {"forget", "describe"} /\ next.on = {s}
        BY <1>0, <3>2 DEF Doing
      <4>3. Called(doing[c].kind, s) \in States
        BY <1>0, <3>2 DEF Called, States, ProjectionInv
      <4>4. temporal' \in [Schedules -> States]
        BY <1>0, <3>1, <3>3, <4>3 DEF ProjectionInv
      <4> HIDE DEF next
      <4> QED BY <1>0, <1>1, <3>2, <4>1, <4>2, <4>4, OneClientMoves DEF ProjectionInv
    <3>4. CASE ~(s \in Live \/ doing[c].kind = "create")
      BY <1>0, <1>1, <3>1, <3>2, <3>4, NothingIsDoing, OneClientMoves DEF Done, ProjectionInv
    <3> QED BY <3>3, <3>4
  <2>3. CASE Describe(c)
    <3>1. PICK s \in doing[c].on :
            IF s \in Live
            THEN doing' = [doing EXCEPT ![c].at = "write", ![c].saw = temporal[s]]
            ELSE Done(c)
      BY <2>3 DEF Describe, Op
    <3>2. s \in Schedules /\ doing[c].on = {s} /\ UNCHANGED <<temporal, row, calm>>
      BY <1>0, <2>3, <3>1 DEF Describe, Op, ClientInv, Doing
    <3>3. CASE s \in Live
      <4> DEFINE next == [doing[c] EXCEPT !.at = "write", !.saw = temporal[s]]
      <4>1. doing' = [doing EXCEPT ![c] = next]
        BY <3>1, <3>3, <1>0 DEF ProjectionInv
      <4>2. temporal[s] \in {"active", "paused"}
        BY <3>3 DEF Live
      <4>3. next \in Doing /\ next.at = "write" /\ next.on = {s} /\ next.saw \in {"active", "paused"}
        BY <1>0, <3>2, <4>2 DEF Doing, States
      <4> HIDE DEF next
      <4> QED BY <1>0, <1>1, <3>2, <4>1, <4>3, OneClientMoves DEF ProjectionInv
    <3>4. CASE s \notin Live
      BY <1>0, <1>1, <3>1, <3>2, <3>4, NothingIsDoing, OneClientMoves DEF Done, ProjectionInv
    <3> QED BY <3>3, <3>4
  <2>4. CASE WriteRow(c) \/ ForgetRow(c) \/ Stop(c)
    <3>1. doing' = [doing EXCEPT ![c] = Nothing] /\ UNCHANGED temporal
      BY <2>4 DEF WriteRow, ForgetRow, Stop, Done
    <3>2. calm' \subseteq Clients
      BY <1>0, <2>4 DEF WriteRow, ForgetRow, Stop, Disturbs, ProjectionInv
    <3>3. row' \in [Schedules -> States \ {"deleted"}]
      <4>1. CASE WriteRow(c)
        <5>1. doing[c].saw \in States \ {"deleted"}
          BY <1>0, <4>1 DEF WriteRow, Op, ClientInv, States
        <5> QED BY <1>0, <4>1, <5>1 DEF WriteRow, Op, ProjectionInv
      <4>2. CASE ForgetRow(c) \/ Stop(c)
        BY <1>0, <4>2 DEF ForgetRow, Stop, ProjectionInv, States
      <4> QED BY <2>4, <4>1, <4>2
    <3> QED BY <1>0, <1>1, <3>1, <3>2, <3>3, NothingIsDoing, OneClientMoves DEF ProjectionInv
  <2> QED BY <2>1, <2>2, <2>3, <2>4 DEF Proceed
<1> QED BY <1>2, <1>3, <1>4, <1>5 DEF SchedulesInv

(* A reconciliation writes statuses that Temporal described. *)
LEMMA ReconcileKeeps ==
  ASSUME SchedulesInv, NEW c \in Clients, Reconcile(c)
  PROVE  SchedulesInv'
<1>0. ProjectionInv /\ doing[c] \in Doing /\ ClientInv(c) /\ work \in 0..MaxWork
  BY DEF SchedulesInv, ProjectionInv
<1>1. UNCHANGED <<temporal, foreign, pending, firing>>
  BY DEF Reconcile, StartReconcile, DescribeNext, WriteNext, Prune
<1>2. FiringInv' /\ pending' \subseteq Schedules
  BY <1>1 DEF SchedulesInv, FiringInv, FireTypes, FireInv, Recorded, Current, firing
<1>3. work' \in 0..MaxWork
  BY <1>0, WorkCounts DEF Reconcile, StartReconcile, DescribeNext, WriteNext, Prune
<1>4. calm' \subseteq Clients
  BY <1>0 DEF Reconcile, StartReconcile, DescribeNext, WriteNext, Prune, Disturbs, ProjectionInv
<1>5. ProjectionInv'
  <2>1. CASE StartReconcile(c)
    <3> DEFINE next == [Nothing EXCEPT !.kind = "reconcile", !.at = "describe",
                                       !.todo = Live \cup foreign]
    <3>1. next \in Doing /\ next.at = "describe" /\ next.kind = "reconcile"
      BY <1>0 DEF Nothing, Doing, States, Live, ProjectionInv
    <3>2. doing' = [doing EXCEPT ![c] = next] /\ UNCHANGED row
      BY <2>1 DEF StartReconcile
    <3> HIDE DEF next
    <3> QED BY <1>0, <1>1, <1>4, <3>1, <3>2, OneClientMoves DEF ProjectionInv
  <2>2. CASE DescribeNext(c)
    <3>1. PICK s \in doing[c].todo :
            \/ Done(c)
            \/ s \in Foreign /\ doing' = [doing EXCEPT ![c].todo = @ \ {s}]
            \/ /\ s \in Live
               /\ doing' = [doing EXCEPT ![c].at = "write", ![c].on = {s}, ![c].saw = temporal[s]]
      <4>1. ASSUME NEW s \in doing[c].todo, ~Throws(s), s \notin Foreign  PROVE s \in Live
        BY <1>0, <4>1 DEF Throws, ProjectionInv
      <4> QED BY <2>2, <4>1 DEF DescribeNext, Op
    <3>2. UNCHANGED row /\ doing[c].kind = "reconcile" /\ doing[c].at = "describe"
      BY <2>2 DEF DescribeNext, Op
    <3>3. CASE s \in Live /\ doing' = [doing EXCEPT ![c].at = "write", ![c].on = {s},
                                                    ![c].saw = temporal[s]]
      <4> DEFINE next == [doing[c] EXCEPT !.at = "write", !.on = {s}, !.saw = temporal[s]]
      <4>1. doing' = [doing EXCEPT ![c] = next]
        BY <3>3, <1>0 DEF ProjectionInv
      <4>2. temporal[s] \in {"active", "paused"} /\ s \in Schedules
        BY <3>3 DEF Live
      <4>3. next \in Doing /\ next.at = "write" /\ next.on = {s} /\ next.saw \in {"active", "paused"}
        BY <1>0, <3>2, <4>2 DEF Doing, States
      <4> HIDE DEF next
      <4> QED BY <1>0, <1>1, <1>4, <3>2, <4>1, <4>2, <4>3, OneClientMoves DEF ProjectionInv
    <3>4. CASE Done(c)
      BY <1>0, <1>1, <1>4, <3>2, <3>4, NothingIsDoing, OneClientMoves DEF Done, ProjectionInv
    <3>5. CASE doing' = [doing EXCEPT ![c].todo = @ \ {s}]
      <4> DEFINE next == [doing[c] EXCEPT !.todo = doing[c].todo \ {s}]
      <4>1. doing' = [doing EXCEPT ![c] = next]
        BY <3>5, <1>0 DEF ProjectionInv
      <4>2. next \in Doing /\ next.at = "describe" /\ next.kind = "reconcile"
        BY <1>0, <3>2 DEF Doing
      <4> HIDE DEF next
      <4> QED BY <1>0, <1>1, <1>4, <3>2, <4>1, <4>2, OneClientMoves DEF ProjectionInv
    <3> QED BY <3>1, <3>3, <3>4, <3>5
  <2>3. CASE WriteNext(c)
    <3> DEFINE next == [doing[c] EXCEPT !.at = "describe", !.ids = Keeps(c),
                                        !.todo = @ \ doing[c].on, !.on = {}, !.saw = "none"]
    <3>1. doing' = [doing EXCEPT ![c] = next] /\ doing[c].kind = "reconcile"
      BY <2>3 DEF WriteNext, Op
    <3>2. next \in Doing /\ next.at = "describe" /\ next.kind = "reconcile"
      BY <1>0, <3>1 DEF Doing, States, Keeps, Op
    <3>3. row' \in [Schedules -> States \ {"deleted"}]
      BY <1>0, <2>3 DEF WriteNext, Op, ClientInv, States, ProjectionInv
    <3> HIDE DEF next
    <3> QED BY <1>0, <1>1, <1>4, <3>1, <3>2, <3>3, OneClientMoves DEF ProjectionInv
  <2>4. CASE Prune(c)
    <3>1. row' \in [Schedules -> States \ {"deleted"}]
      BY <1>0, <2>4 DEF Prune, ProjectionInv, States
    <3> QED BY <1>0, <1>1, <1>4, <2>4, <3>1, NothingIsDoing, OneClientMoves
            DEF Prune, Done, ProjectionInv
  <2> QED BY <2>1, <2>2, <2>3, <2>4 DEF Reconcile
<1> QED BY <1>2, <1>3, <1>5 DEF SchedulesInv

(* The command line, and the clock. *)
LEMMA OutsideKeeps ==
  ASSUME SchedulesInv, NEW s \in Schedules, Drift(s) \/ CronFires(s)
  PROVE  SchedulesInv'
<1>1. /\ UNCHANGED <<row, doing, firing>>
      /\ calm' \subseteq Clients /\ foreign' \subseteq Foreign
  BY DEF Drift, CronFires, SchedulesInv, ProjectionInv, projection
<1>2. FiringInv'
  BY <1>1 DEF SchedulesInv, FiringInv, FireTypes, FireInv, Recorded, Current, firing
<1>3. temporal' \in [Schedules -> States] /\ pending' \subseteq Schedules
  BY DEF Drift, CronFires, SchedulesInv, ProjectionInv, projection, States
<1>4. work' \in 0..MaxWork
  BY WorkCounts DEF Drift, CronFires, SchedulesInv
<1>5. ProjectionInv'
  BY <1>1, <1>3 DEF SchedulesInv, ProjectionInv, ClientInv
<1> QED BY <1>2, <1>3, <1>4, <1>5 DEF SchedulesInv

(* Other programs, whose schedules are not of the table. *)
LEMMA OthersKeep ==
  ASSUME SchedulesInv, NEW x \in Foreign, OthersChange(x)
  PROVE  SchedulesInv'
<1>1. /\ UNCHANGED <<temporal, row, doing, calm, pending, firing>>
      /\ foreign' \subseteq Foreign
  BY DEF OthersChange, SchedulesInv, ProjectionInv, projection
<1>2. FiringInv'
  BY <1>1 DEF SchedulesInv, FiringInv, FireTypes, FireInv, Recorded, Current, firing
<1>3. work' \in 0..MaxWork
  BY WorkCounts DEF OthersChange, SchedulesInv
<1>4. ProjectionInv'
  BY <1>1 DEF SchedulesInv, ProjectionInv, ClientInv
<1> QED BY <1>1, <1>2, <1>3, <1>4 DEF SchedulesInv

-----------------------------------------------------------------------------
(* Fires. *)

(* A step of one fire, of which only that fire has to be looked at. *)
LEMMA OneFireMoves ==
  ASSUME SchedulesInv, NEW f \in Fires, UNCHANGED <<projection, foreign, work>>,
         pending' \subseteq pending, FireTypes', FireInv(f)',
         \A g \in Fires \ {f} :
           /\ fire'[g] = fire[g] /\ at'[g] = at[g] /\ accepted'[g] = accepted[g]
           /\ event'[g] = event[g] /\ execution'[g] = execution[g]
           /\ g \in given' <=> g \in given
  PROVE  SchedulesInv'
<1>1. ASSUME NEW g \in Fires \ {f}  PROVE FireInv(g)'
  BY DEF SchedulesInv, FiringInv, FireInv, Recorded, Current
<1>2. ProjectionInv'
  BY DEF SchedulesInv, ProjectionInv, ClientInv, projection
<1> QED BY <1>1, <1>2 DEF SchedulesInv, FiringInv

(* A statement of an attempt, the current one or one that was given up. *)
LEMMA StepKeeps ==
  ASSUME SchedulesInv, NEW f \in Fires, NEW a \in Attempts, Step(f, a)
  PROVE  SchedulesInv'
<1>0. FireTypes /\ FireInv(f) /\ a \in Nat /\ a # 0
  BY SchedulesAssumption DEF SchedulesInv, FiringInv, Attempts
<1>1. UNCHANGED <<projection, foreign, pending, fire, given, work>>
  BY DEF Step
<1>2. PICK next \in Stages : at' = [at EXCEPT ![f][a] = next]
  BY DEF Step, RecordExecution, RecordEvent, Submit, Link, CloseExecution, MarkFailed,
     FailExecution, Then, Threw, Stages
<1>3. /\ event' = event \/ event' = [event EXCEPT ![f].status = "started"]
         \/ event' = [event EXCEPT ![f].status = "failed"]
         \/ event' = [event EXCEPT ![f] = [status |-> "accepted", run |-> a]]
      /\ accepted' = accepted \/ accepted' = [accepted EXCEPT ![f] = @ \cup {a}]
      /\ \E status \in {"running", "completed", "failed"} :
           execution' \in {execution, [execution EXCEPT ![f] = status]}
  BY DEF Step, RecordExecution, RecordEvent, Submit, Link, CloseExecution, MarkFailed,
     FailExecution
<1>4. FireTypes'
  <2>1. at' \in [Fires -> [Attempts -> Stages]]
    BY <1>0, <1>2 DEF FireTypes, Executions
  <2>2. event' \in [Fires -> [status : {"none", "started", "accepted", "failed"}, run : Nat]]
    <3> DEFINE Events == [status : {"none", "started", "accepted", "failed"}, run : Nat]
    <3>1. event \in [Fires -> Events] /\ [status |-> "accepted", run |-> a] \in Events
      BY <1>0 DEF FireTypes, Executions
    <3>2. /\ [event[f] EXCEPT !.status = "started"] \in Events
          /\ [event[f] EXCEPT !.status = "failed"] \in Events
      BY <3>1
    <3>3. PICK e \in Events : event' = event \/ event' = [event EXCEPT ![f] = e]
      BY <1>3, <3>1, <3>2
    <3> HIDE DEF Events
    <3>4. event' \in [Fires -> Events]
      BY <3>1, <3>3
    <3> QED BY <3>4 DEF Events
  <2>3. accepted' \in [Fires -> SUBSET Attempts]
    <3>1. accepted \in [Fires -> SUBSET Attempts]
      BY <1>0 DEF FireTypes, Executions
    <3>2. accepted[f] \cup {a} \in SUBSET Attempts
      BY <3>1
    <3> QED BY <1>3, <3>1, <3>2
  <2>4. execution' \in [Fires -> {"none", "running", "completed", "failed"}]
    <3>1. PICK status \in {"running", "completed", "failed"} :
            execution' \in {execution, [execution EXCEPT ![f] = status]}
      BY <1>3
    <3> QED BY <1>0, <3>1 DEF FireTypes, Executions
  <2> QED BY <1>0, <1>1, <2>1, <2>2, <2>3, <2>4 DEF FireTypes, Executions
<1>5. FireInv(f)'
  <2>1. at[f][a] \notin {"none", "threw", "returned"}
    BY DEF Step, RecordExecution, RecordEvent, Submit, Link, CloseExecution, MarkFailed,
       FailExecution
  <2>2. a <= Current(f) /\ Current(f) \in Attempts
    BY <1>0, <2>1 DEF FireInv, FireTypes, Executions, Current, Attempts
  <2>3. fire[f].state \in {"running", "completed"} /\ f \notin given =>
          a = Current(f) /\ fire[f].state = "running"
    BY <1>0, <2>1, <2>2 DEF FireInv, Attempts
  <2>4. /\ at'[f][a] = next /\ \A b \in Attempts : b # a => at'[f][b] = at[f][b]
    BY <1>0, <1>2 DEF FireTypes, Executions
  <2>5. /\ accepted[f] \subseteq accepted'[f]
        /\ next = "link" => a \in accepted'[f]
        /\ event'[f] = event[f] \/ event'[f] = [event[f] EXCEPT !.status = "started"]
           \/ event'[f] = [event[f] EXCEPT !.status = "failed"]
           \/ (event'[f] = [status |-> "accepted", run |-> a] /\ at[f][a] = "link")
        /\ next = "close" => event'[f] = [status |-> "accepted", run |-> a]
        /\ next = "returned" => execution'[f] = "completed" /\ at[f][a] = "close"
                                /\ event'[f] = event[f]
    <3>1. CASE RecordExecution(f, a) \/ RecordEvent(f, a)
      BY <1>0, <3>1, <2>4 DEF RecordExecution, RecordEvent, Then, Threw, FireTypes, Executions
    <3>2. CASE Submit(f, a)
      BY <1>0, <3>2, <2>4 DEF Submit, Then, FireTypes, Executions
    <3>3. CASE Link(f, a)
      BY <1>0, <3>3, <2>4 DEF Link, Then, FireTypes, Executions
    <3>4. CASE CloseExecution(f, a)
      BY <1>0, <3>4, <2>4 DEF CloseExecution, Then, FireTypes, Executions
    <3>5. CASE MarkFailed(f, a) \/ FailExecution(f, a)
      BY <1>0, <3>5, <2>4 DEF MarkFailed, FailExecution, Then, Threw, FireTypes, Executions
    <3> QED BY <3>1, <3>2, <3>3, <3>4, <3>5 DEF Step
  <2>6. /\ event'[f].run # 0 => event'[f].run \in accepted'[f]
        /\ event'[f].status = "accepted" => event'[f].run # 0
    BY <1>0, <2>5 DEF FireInv, FireTypes, Executions
  <2>7. fire[f].state \in {"running", "completed"} /\ f \notin given =>
          Recorded(f)' /\ \A b \in Attempts : b < Current(f) => at'[f][b] = "threw"
    BY <1>0, <1>1, <2>2, <2>3, <2>4, <2>5 DEF FireInv, Recorded, Current, Attempts
  <2> QED BY <1>0, <1>1, <2>2, <2>3, <2>4, <2>5, <2>6, <2>7 DEF FireInv, Current
<1>6. ASSUME NEW g \in Fires \ {f}
      PROVE  at'[g] = at[g] /\ accepted'[g] = accepted[g] /\ event'[g] = event[g]
             /\ execution'[g] = execution[g]
  BY <1>0, <1>2, <1>3 DEF FireTypes, Executions
<1> QED BY <1>1, <1>4, <1>5, <1>6, OneFireMoves

(* The execution of a fire: it starts, takes the answer of its attempt, or the next
   attempt, with the one before it given up unless it threw. *)
LEMMA FireKeeps ==
  ASSUME SchedulesInv, NEW f \in Fires, StartFire(f) \/ Returns(f) \/ NextAttempt(f)
  PROVE  SchedulesInv'
<1>0. FireTypes /\ FireInv(f) /\ 1 \in Attempts /\ MaxAttempts \in Nat
  BY SchedulesAssumption DEF SchedulesInv, FiringInv, Attempts
<1>1. CASE StartFire(f)
  <2>1. PICK s \in pending :
          /\ pending' = pending \ {s}
          /\ fire' = [fire EXCEPT ![f] = [of |-> {s}, state |-> "running", attempt |-> 1]]
    BY <1>1 DEF StartFire
  <2>2. /\ fire[f] = NotFired /\ at' = [at EXCEPT ![f][1] = "execution"]
        /\ UNCHANGED <<projection, foreign, accepted, event, execution, given, work>>
        /\ s \in Schedules
    BY <1>1, <2>1 DEF StartFire, SchedulesInv
  <2>3. FireTypes'
    BY <1>0, <2>1, <2>2 DEF FireTypes, Executions, Stages
  <2>4. \A b \in Attempts : at[f][b] = "none"
    BY <1>0, <2>2 DEF FireInv, NotFired, Current, Attempts
  <2>5. /\ fire'[f] = [of |-> {s}, state |-> "running", attempt |-> 1]
        /\ \A b \in Attempts : at'[f][b] = IF b = 1 THEN "execution" ELSE "none"
    BY <1>0, <2>1, <2>2, <2>4 DEF FireTypes, Executions
  <2>6. FireInv(f)'
    BY <1>0, <2>2, <2>5 DEF FireInv, Recorded, Current, Attempts
  <2>7. \A g \in Fires \ {f} : fire'[g] = fire[g] /\ at'[g] = at[g]
    BY <1>0, <2>1, <2>2 DEF FireTypes, Executions
  <2> QED BY <2>1, <2>2, <2>3, <2>6, <2>7, OneFireMoves
<1>2. CASE Returns(f)
  <2>1. /\ fire[f].state = "running" /\ at[f][Current(f)] = "returned"
        /\ fire' = [fire EXCEPT ![f].state = "completed"]
        /\ UNCHANGED <<projection, foreign, pending, at, accepted, event, execution, given, work>>
    BY <1>2 DEF Returns
  <2>2. FireTypes'
    <3> DEFINE next == [fire[f] EXCEPT !.state = "completed"]
    <3>1. next \in Executions
      <4>1. fire[f] \in Executions
        BY <1>0 DEF FireTypes
      <4> QED BY <4>1, ExecutionMoves
    <3>2. fire' = [fire EXCEPT ![f] = next]
      BY <1>0, <2>1 DEF FireTypes
    <3> HIDE DEF next
    <3> QED BY <1>0, <2>1, <3>1, <3>2 DEF FireTypes
  <2>3. /\ fire'[f].state = "completed" /\ fire'[f].of = fire[f].of
        /\ fire'[f].attempt = fire[f].attempt
        /\ \A g \in Fires \ {f} : fire'[g] = fire[g]
    BY <1>0, <2>1 DEF FireTypes, Executions
  <2>4. FireInv(f)'
    BY <1>0, <2>1, <2>3 DEF FireInv, Recorded, Current
  <2> QED BY <2>1, <2>2, <2>3, <2>4, OneFireMoves
<1>3. CASE NextAttempt(f)
  <2>1. /\ fire[f].state = "running" /\ Current(f) \in Attempts
        /\ UNCHANGED <<projection, foreign, pending, accepted, event, execution, work>>
        /\ given' = IF at[f][Current(f)] = "threw" THEN given ELSE given \cup {f}
    BY <1>0, <1>3 DEF NextAttempt, FireInv, Current
  <2>2. CASE AttemptLeft(f)
    <3>1. /\ fire' = [fire EXCEPT ![f].state = "running", ![f].attempt = Current(f) + 1]
          /\ at' = [at EXCEPT ![f][Current(f) + 1] = "execution"]
          /\ Current(f) + 1 \in Attempts
      BY <1>0, <1>3, <2>1, <2>2 DEF NextAttempt, Attempt, AttemptLeft, Attempts
    <3>2. FireTypes'
      <4>1. Current(f) + 1 \in Nat
        BY <3>1 DEF Attempts
      <4> DEFINE next == [fire[f] EXCEPT !.state = "running", !.attempt = Current(f) + 1]
      <4>0. next \in Executions
        <5>1. fire[f] \in Executions
          BY <1>0 DEF FireTypes
        <5> QED BY <4>1, <5>1, ExecutionMoves
      <4>2. fire' \in [Fires -> Executions]
        <5>1. fire' = [fire EXCEPT ![f] = next]
          BY <1>0, <3>1 DEF FireTypes
        <5> HIDE DEF next
        <5> QED BY <1>0, <4>0, <5>1 DEF FireTypes
      <4>3. [at[f] EXCEPT ![Current(f) + 1] = "execution"] \in [Attempts -> Stages]
        BY <1>0 DEF FireTypes, Stages
      <4>4. at' \in [Fires -> [Attempts -> Stages]]
        BY <1>0, <3>1, <4>3 DEF FireTypes
      <4>5. given' \subseteq Fires
        BY <1>0, <2>1 DEF FireTypes
      <4> QED BY <1>0, <2>1, <4>2, <4>4, <4>5 DEF FireTypes
    <3>3. /\ fire'[f].state = "running" /\ fire'[f].of = fire[f].of
          /\ fire'[f].attempt = Current(f) + 1
          /\ \A b \in Attempts :
               at'[f][b] = IF b = Current(f) + 1 THEN "execution" ELSE at[f][b]
          /\ \A g \in Fires \ {f} : fire'[g] = fire[g] /\ at'[g] = at[g]
      BY <1>0, <3>1 DEF FireTypes, Executions
    <3>4. FireInv(f)'
      <4>1. /\ fire'[f].of # {} /\ Current(f)' = Current(f) + 1 /\ Current(f) \in Nat
            /\ \A b \in Attempts : b \in Nat
        BY <1>0, <2>1, <3>3 DEF FireInv, Current, Attempts
      <4>2. \A b \in Attempts : at'[f][b] # "none" => b <= Current(f)'
        BY <1>0, <3>3, <4>1 DEF FireInv
      <4>3. \A b \in Attempts : at'[f][b] = "link" => b \in accepted'[f]
        BY <1>0, <2>1, <3>3 DEF FireInv
      <4>4. f \notin given' => \A b \in Attempts : b < Current(f)' => at'[f][b] = "threw"
        <5> SUFFICES ASSUME f \notin given', NEW b \in Attempts, b < Current(f) + 1
                     PROVE  at[f][b] = "threw"
          BY <3>3, <4>1
        <5>1. at[f][Current(f)] = "threw" /\ f \notin given
          BY <2>1
        <5>2. b = Current(f) \/ b < Current(f)
          BY <4>1
        <5> QED BY <1>0, <2>1, <5>1, <5>2 DEF FireInv
      <4>5. Recorded(f)'
        BY <3>1, <3>3, <4>1 DEF Recorded
      <4> QED BY <1>0, <2>1, <3>1, <3>3, <4>1, <4>2, <4>3, <4>4, <4>5 DEF FireInv, Current
    <3> QED BY <2>1, <3>2, <3>3, <3>4, OneFireMoves
  <2>3. CASE ~AttemptLeft(f)
    <3>1. fire' = [fire EXCEPT ![f].state = "failed"] /\ UNCHANGED at
      BY <1>3, <2>3 DEF NextAttempt
    <3>2. FireTypes'
      <4> DEFINE next == [fire[f] EXCEPT !.state = "failed"]
      <4>0. next \in Executions
        <5>1. fire[f] \in Executions
          BY <1>0 DEF FireTypes
        <5> QED BY <5>1, ExecutionMoves
      <4>1. fire' \in [Fires -> Executions]
        <5>1. fire' = [fire EXCEPT ![f] = next]
          BY <1>0, <3>1 DEF FireTypes
        <5> HIDE DEF next
        <5> QED BY <1>0, <4>0, <5>1 DEF FireTypes
      <4>2. given' \subseteq Fires
        BY <1>0, <2>1 DEF FireTypes
      <4> QED BY <1>0, <2>1, <3>1, <4>1, <4>2 DEF FireTypes
    <3>3. /\ fire'[f].state = "failed" /\ fire'[f].of = fire[f].of
          /\ fire'[f].attempt = fire[f].attempt
          /\ \A g \in Fires \ {f} : fire'[g] = fire[g]
      BY <1>0, <3>1 DEF FireTypes, Executions
    <3>4. FireInv(f)'
      BY <1>0, <2>1, <3>1, <3>3 DEF FireInv, Recorded, Current
    <3> QED BY <2>1, <3>1, <3>2, <3>3, <3>4, OneFireMoves
  <2> QED BY <2>2, <2>3
<1> QED BY <1>1, <1>2, <1>3

-----------------------------------------------------------------------------
(* Reconciliations beside which nothing changed. *)

(* A client that does not move stays as it was, or is calm no longer. *)
LEMMA OthersStayCalm ==
  ASSUME NEW d \in Clients, CalmInv(d), doing'[d] = doing[d],
         d \in calm' => d \in calm /\ UNCHANGED <<temporal, row>>
  PROVE  CalmInv(d)'
BY DEF CalmInv, Live

(* A request disturbs every reconciliation if it changes a table or Temporal, and is
   none itself. *)
LEMMA RequestCalms ==
  ASSUME SchedulesInv, NEW c \in Clients, Request(c) \/ Proceed(c) \/ Stop(c),
         NEW d \in Clients, CalmInv(d)
  PROVE  CalmInv(d)'
<1>0. doing \in [Clients -> Doing] /\ doing[c] \in Doing /\ ClientInv(c)
  BY DEF SchedulesInv, ProjectionInv
<1>1. d # c => doing'[d] = doing[d]
  BY <1>0 DEF Request, Proceed, Stop, Call, Describe, WriteRow, ForgetRow, Done, Goto
<1>2. d # c /\ d \in calm' => d \in calm /\ UNCHANGED <<temporal, row>>
  BY DEF Request, Proceed, Stop, Call, Describe, WriteRow, ForgetRow, Disturbs
<1>3. CASE d = c
  <2>1. CASE Stop(c) \/ WriteRow(c) \/ ForgetRow(c)
    BY <1>0, <1>3, <2>1 DEF Stop, WriteRow, ForgetRow, Done, Nothing, CalmInv
  <2>2. CASE Request(c)
    <3>1. PICK kind \in {"create", "trigger", "pause", "resume", "delete"}, s \in Schedules :
            doing' = [doing EXCEPT ![c] = [Nothing EXCEPT !.kind = kind, !.at = "call", !.on = {s}]]
      BY <2>2 DEF Request
    <3>2. doing'[c].kind # "reconcile"
      BY <1>0, <3>1 DEF Nothing
    <3> QED BY <1>3, <3>2 DEF CalmInv
  <2>3. CASE Call(c)
    <3>1. doing[c].kind # "reconcile"
      BY <1>0, <2>3 DEF Call, Op, ClientInv
    <3>2. doing'[c].kind # "reconcile"
      BY <1>0, <2>3, <3>1 DEF Call, Op, Goto, Done, Nothing, Doing
    <3> QED BY <1>3, <3>2 DEF CalmInv
  <2>4. CASE Describe(c)
    <3>1. doing'[c].kind # "reconcile"
      BY <1>0, <2>4 DEF Describe, Op, Done, Nothing, Doing
    <3> QED BY <1>3, <3>1 DEF CalmInv
  <2> QED BY <2>1, <2>2, <2>3, <2>4 DEF Proceed
<1> QED BY <1>1, <1>2, <1>3, OthersStayCalm

(* A reconciliation gives a listed schedule the row it was described with. *)
LEMMA ReconcileCalms ==
  ASSUME SchedulesInv, NEW c \in Clients, Reconcile(c), NEW d \in Clients, CalmInv(d)
  PROVE  CalmInv(d)'
<1>0. /\ doing \in [Clients -> Doing] /\ doing[c] \in Doing /\ row \in [Schedules -> States]
      /\ foreign \subseteq Foreign
  BY DEF SchedulesInv, ProjectionInv
<1>1. d # c => doing'[d] = doing[d]
  BY <1>0 DEF Reconcile, StartReconcile, DescribeNext, WriteNext, Prune, Done
<1>2. d # c /\ d \in calm' => d \in calm /\ UNCHANGED <<temporal, row>>
  <2>1. CASE StartReconcile(c)
    BY <2>1 DEF StartReconcile
  <2>2. CASE DescribeNext(c) \/ WriteNext(c) \/ Prune(c)
    BY <2>2 DEF DescribeNext, WriteNext, Prune, Disturbs
  <2> QED BY <2>1, <2>2 DEF Reconcile
<1>3. CASE d = c
  <2>1. CASE StartReconcile(c)
    <3>1. doing'[c] = [Nothing EXCEPT !.kind = "reconcile", !.at = "describe",
                                  !.todo = Live \cup foreign]
      BY <1>0, <2>1 DEF StartReconcile
    <3>2. /\ doing'[c].ids = {} /\ doing'[c].todo = Live \cup foreign /\ doing'[c].on = {}
          /\ UNCHANGED temporal
      BY <2>1, <3>1 DEF StartReconcile, Nothing
    <3> QED BY <1>0, <1>3, <3>2, SchedulesAssumption DEF CalmInv, Live
  <2>2. CASE DescribeNext(c)
    <3>1. PICK s \in doing[c].todo :
            \/ Done(c)
            \/ s \in Foreign /\ doing' = [doing EXCEPT ![c].todo = @ \ {s}]
            \/ doing' = [doing EXCEPT ![c].at = "write", ![c].on = {s}, ![c].saw = temporal[s]]
      BY <2>2 DEF DescribeNext, Op
    <3>2. UNCHANGED <<temporal, row, calm>> /\ doing[c].kind = "reconcile"
      BY <2>2 DEF DescribeNext, Op
    <3>3. CASE doing' = [doing EXCEPT ![c].at = "write", ![c].on = {s}, ![c].saw = temporal[s]]
      <4>1. /\ doing'[c].ids = doing[c].ids /\ doing'[c].todo = doing[c].todo
            /\ doing'[c].on = {s} /\ doing'[c].saw = temporal[s]
        BY <1>0, <3>3 DEF Doing
      <4> QED BY <1>3, <3>1, <3>2, <4>1 DEF CalmInv, Live
    <3>4. CASE Done(c)
      BY <1>0, <1>3, <3>4 DEF Done, Nothing, CalmInv
    <3>5. CASE s \in Foreign /\ doing' = [doing EXCEPT ![c].todo = @ \ {s}]
      <4>1. /\ doing'[c].ids = doing[c].ids /\ doing'[c].todo = doing[c].todo \ {s}
            /\ doing'[c].on = doing[c].on /\ doing'[c].saw = doing[c].saw
        BY <1>0, <3>5 DEF Doing
      <4>2. s \notin Schedules
        BY <3>5, SchedulesAssumption
      <4>3. doing[c].on \subseteq Schedules
        BY <1>0 DEF Doing
      <4> QED BY <1>3, <3>2, <4>1, <4>2, <4>3 DEF CalmInv, Live
    <3> QED BY <3>1, <3>3, <3>4, <3>5
  <2>3. CASE WriteNext(c)
    <3>1. /\ doing'[c].ids = doing[c].ids \cup doing[c].on
          /\ doing'[c].todo = doing[c].todo \ doing[c].on /\ doing'[c].on = {}
      BY <1>0, <2>3 DEF WriteNext, Op, Keeps, Doing
    <3>2. UNCHANGED temporal /\ doing[c].kind = "reconcile" /\ (c \in calm' => c \in calm)
      BY <2>3 DEF WriteNext, Op, Disturbs
    <3>3. row' = [s \in Schedules |-> IF s \in doing[c].on THEN doing[c].saw ELSE row[s]]
      BY <2>3 DEF WriteNext, Op
    <3>4. doing[c].ids \cup doing[c].on \subseteq Schedules
      BY <1>0 DEF Doing
    <3> QED BY <1>3, <3>1, <3>2, <3>3, <3>4 DEF CalmInv, Live
  <2>4. CASE Prune(c)
    BY <1>0, <1>3, <2>4 DEF Prune, Done, Nothing, CalmInv
  <2> QED BY <2>1, <2>2, <2>3, <2>4 DEF Reconcile
<1> QED BY <1>1, <1>2, <1>3, OthersStayCalm

-----------------------------------------------------------------------------
(* Theorems. *)

(* SchedulesInv holds whatever is requested, reconciled, changed and fired. *)
THEOREM SchedulesAreKept == Spec => []SchedulesInv
<1>1. Init => SchedulesInv
  <2> SUFFICES ASSUME Init  PROVE SchedulesInv
    OBVIOUS
  <2>1. ProjectionInv
    BY NothingIsDoing DEF Init, ProjectionInv, ClientInv, States
  <2>2. FireTypes
    BY DEF Init, FireTypes, Executions, NotFired, Stages
  <2>3. ASSUME NEW f \in Fires  PROVE FireInv(f)
    BY <2>3 DEF Init, FireInv, NotFired, Recorded, Current
  <2> QED BY <2>1, <2>2, <2>3, SchedulesAssumption DEF Init, SchedulesInv, FiringInv
<1>2. SchedulesInv /\ [Next]_vars => SchedulesInv'
  <2> SUFFICES ASSUME SchedulesInv, [Next]_vars  PROVE SchedulesInv'
    OBVIOUS
  <2>1. ASSUME NEW c \in Requests, Request(c) \/ Stop(c)  PROVE SchedulesInv'
    BY <2>1, RequestKeeps DEF Clients
  <2>2. ASSUME NEW c \in Clients, Proceed(c) \/ Reconcile(c)  PROVE SchedulesInv'
    BY <2>2, RequestKeeps, ReconcileKeeps
  <2>3. ASSUME NEW s \in Schedules, Drift(s) \/ CronFires(s)  PROVE SchedulesInv'
    BY <2>3, OutsideKeeps
  <2>6. ASSUME NEW x \in Foreign, OthersChange(x)  PROVE SchedulesInv'
    BY <2>6, OthersKeep
  <2>4. ASSUME NEW f \in Fires,
               StartFire(f) \/ Returns(f) \/ NextAttempt(f) \/ \E a \in Attempts : Step(f, a)
        PROVE  SchedulesInv'
    BY <2>4, FireKeeps, StepKeeps
  <2>5. CASE UNCHANGED vars
    <3>1. ProjectionInv'
      BY <2>5 DEF SchedulesInv, ProjectionInv, ClientInv, vars, projection
    <3>2. FireTypes'
      BY <2>5 DEF SchedulesInv, FiringInv, FireTypes, vars, firing
    <3>3. ASSUME NEW f \in Fires  PROVE FireInv(f)'
      BY <2>5 DEF SchedulesInv, FiringInv, FireInv, Recorded, Current, vars, firing
    <3> QED BY <2>5, <3>1, <3>2, <3>3 DEF SchedulesInv, FiringInv, vars
  <2> QED BY <2>1, <2>2, <2>3, <2>4, <2>5, <2>6 DEF Next
<1> QED BY <1>1, <1>2, PTL DEF Spec

(* Every part of FiresAreRecorded: the run a fire links to is one of its own that the
   session accepted, and an execution that returned, with no attempt given up, is
   recorded with the run of the attempt that returned. *)
THEOREM RecordsFires == Spec => []FiresAreRecorded
<1>1. SchedulesInv => FiresAreRecorded
  <2> SUFFICES ASSUME SchedulesInv  PROVE FiresAreRecorded
    OBVIOUS
  <2>1. ASSUME NEW c \in Clients
        PROVE  /\ Op(c).at \in {"none", "call", "describe", "write", "forget"}
               /\ Op(c).on \cup Op(c).ids \subseteq Schedules
               /\ Op(c).todo \subseteq Schedules \cup Foreign
               /\ Op(c).at \in {"call", "forget"} => Cardinality(Op(c).on) = 1
               /\ Op(c).at = "write" => Cardinality(Op(c).on) = 1 /\ Op(c).saw \in {"active", "paused"}
    <3>1. doing[c] \in Doing /\ ClientInv(c)
      BY DEF SchedulesInv, ProjectionInv
    <3>2. \A s \in Schedules : Cardinality({s}) = 1
      BY FS_Singleton
    <3> QED BY <3>1, <3>2 DEF ClientInv, Op, Doing
  <2>2. ASSUME NEW f \in Fires
        PROVE  event[f].run \in 0..MaxAttempts
    BY SchedulesAssumption DEF SchedulesInv, FiringInv, FireTypes, Executions, FireInv, Attempts
  <2>3. TypeOK
    BY <2>1, <2>2 DEF SchedulesInv, ProjectionInv, FiringInv, FireInv, TypeOK
  <2>4. LinkIsReal
    BY DEF SchedulesInv, FiringInv, FireInv, LinkIsReal
  <2>5. ReturnedFiresAreRecorded
    BY DEF SchedulesInv, FiringInv, FireInv, Recorded, ReturnedFiresAreRecorded
  <2> QED BY <2>3, <2>4, <2>5 DEF FiresAreRecorded
<1> QED BY SchedulesAreKept, <1>1, PTL

(* Whatever is requested and drifts, a reconciliation beside which nothing changed
   holds the truth about what it has listed so far. *)
THEOREM CalmIsTrue == Spec => [](SchedulesInv /\ \A c \in Clients : CalmInv(c))
<1> DEFINE Inv == SchedulesInv /\ \A c \in Clients : CalmInv(c)
<1>1. Init => \A c \in Clients : CalmInv(c)
  BY DEF Init, CalmInv
<1>2. Inv /\ SchedulesInv' /\ [Next]_vars => Inv'
  <2> SUFFICES ASSUME Inv, SchedulesInv', [Next]_vars, NEW d \in Clients
               PROVE  CalmInv(d)'
    OBVIOUS
  <2>1. ASSUME NEW c \in Requests, Request(c) \/ Stop(c)  PROVE CalmInv(d)'
    BY <2>1, RequestCalms DEF Clients
  <2>2. ASSUME NEW c \in Clients, Proceed(c) \/ Reconcile(c)  PROVE CalmInv(d)'
    BY <2>2, RequestCalms, ReconcileCalms
  <2>3. ASSUME NEW s \in Schedules, Drift(s) \/ CronFires(s)  PROVE CalmInv(d)'
    <3>1. doing' = doing /\ (d \in calm' => d \in calm /\ UNCHANGED <<temporal, row>>)
      BY <2>3 DEF Drift, CronFires, projection
    <3> QED BY <3>1, OthersStayCalm
  <2>4. ASSUME UNCHANGED projection  PROVE CalmInv(d)'
    BY <2>4, OthersStayCalm DEF projection
  <2>5. ASSUME NEW f \in Fires,
               StartFire(f) \/ Returns(f) \/ NextAttempt(f) \/ \E a \in Attempts : Step(f, a)
        PROVE  UNCHANGED projection
    BY <2>5 DEF StartFire, Returns, NextAttempt, Step
  <2>7. ASSUME NEW x \in Foreign, OthersChange(x)  PROVE UNCHANGED projection
    BY <2>7 DEF OthersChange
  <2>6. UNCHANGED vars => UNCHANGED projection
    BY DEF vars
  <2> QED BY <2>1, <2>2, <2>3, <2>4, <2>5, <2>6, <2>7 DEF Next
<1> QED BY SchedulesAreKept, <1>1, <1>2, PTL DEF Spec

(* Reconciled: a reconciliation that prunes, and beside which neither Temporal nor the
   table changed, leaves every live schedule projected with its status and no row of
   another. *)
THEOREM ReconcilesTheTable == Spec => Reconciled
<1> DEFINE Inv == SchedulesInv /\ \A c \in Clients : CalmInv(c)
           True == \A c \in Clients : Prune(c) /\ c \in calm =>
                     \A s \in Schedules : row'[s] = Actual(s)
<1>1. Inv => True
  <2> SUFFICES ASSUME Inv, NEW c \in Clients, Prune(c), c \in calm, NEW s \in Schedules
               PROVE  row'[s] = Actual(s)
    OBVIOUS
  <2>1. doing[c].kind = "reconcile" /\ doing[c].todo = {}
    BY DEF Prune, Op
  <2>2. doing[c].ids = Live /\ \A t \in doing[c].ids : row[t] = temporal[t]
    BY <2>1 DEF CalmInv
  <2>3. row'[s] = IF s \in Schedules \ doing[c].ids THEN "none" ELSE row[s]
    BY DEF Prune, Pruned, Op
  <2> QED BY <2>2, <2>3 DEF Actual
<1>2. Inv /\ [Next]_vars => [True]_vars
  BY <1>1
<1> QED BY CalmIsTrue, <1>2, PTL DEF Spec, Reconciled
=============================================================================
