-------------------------- MODULE ApprovalsProofs --------------------------
(***************************************************************************)
(* Theorems of Approvals and of RunInspector, for any number of calls,     *)
(* attempts and subagents: the tables tell one story of an approval        *)
(* whatever attempts that were given up still do (ApprovalsAgree), and the *)
(* inspector shows the run as it is (InspectorShowsTheRun).                *)
(*                                                                         *)
(* IInv is inductive.  Two of its parts carry the argument.  A primary key *)
(* lets one attempt past InsertAudit, so that of the attempts of a call at *)
(* most one is between its audit event and its card (AloneInv), and there  *)
(* is no card yet (AttemptOK).  And as long as no attempt was given up     *)
(* there is only the one the workflow waits for (OneAttempt), so that its  *)
(* next statement tells what the tables hold (RequestInv to AnsweredInv).  *)
(*                                                                         *)
(* ViewInv is inductive beside IInv.  A complete run is frozen (WholeInv), *)
(* so what is read after its row is what there is; a child starts before   *)
(* it completes in either table (OrderInv), whatever was written again;    *)
(* and a status of waiting is written after its request (WaitsInv).        *)
(***************************************************************************)
EXTENDS RunInspector, FiniteSetTheorems, TLAPS

(* The statements of the two activities, and what is none. *)
RequestSteps ==
  {"known", "find", "insert", "audit", "transcript", "publish", "status", "notify"}
ResolutionSteps == {"read", "update", "restore", "audit", "transcript", "publish", "answer"}
Still == {"off", "gone"}
(* What the audit log, the transcript and the stream are told by. *)
Key(p) == <<p[1], p[2]>>
(* What the workflow may record, the expiry among them. *)
AnyDecision == Decisions \cup {[action |-> "expire", edits |-> "absent"]}
Asked == [status |-> "pending"]
Stages == {"running", "request", "waiting", "resolution", "refused", "ended"}

(* The type of the variables, narrower than TypeOK. *)
Types ==
  /\ stage \in Stages /\ call \in 0..MaxCalls /\ attempt \in 1..MaxAttempts
  /\ (stage \in {"request", "waiting", "resolution", "refused"} => call \in Calls)
  /\ decision \in [Calls -> AnyDecision \cup {None}]
  /\ at \in [Attempts -> RequestSteps \cup ResolutionSteps \cup Still]
  /\ knew \subseteq Attempts
  /\ audit \subseteq Calls \X Kinds /\ transcript \subseteq Calls \X Kinds
  /\ cards \in [Calls \X Kinds -> Nat]
  /\ runStatus \in {"running", "waiting_approval", "complete", "cancelled", "failed"}
  /\ notified \in [Calls -> Nat]
  /\ abandoned \subseteq Calls
  /\ DOMAIN row = Calls /\ DOMAIN answer = Calls

(* A call has no decision before its approval was decided, and then always one. *)
Undecided(n) == n > call \/ (n = call /\ stage \in {"request", "waiting"})

DecisionInv ==
  /\ \A n \in Calls : Undecided(n) => decision[n] = None
  /\ stage = "resolution" => decision[call] # None

(* A row is missing, pending, or holds the one decision of its call. *)
Resolved(n) == decision[n] # None /\ row[n] = ResolvedRow(decision[n])

RowInv == \A n \in Calls : row[n] = NoRow \/ row[n] = Asked \/ Resolved(n)

(* The workflow was answered from a resolved row. *)
AnswerInv ==
  \A n \in Calls : answer[n] # None =>
    Resolved(n) /\ answer[n] \in {Resolution(decision[n]), CardResolution(row[n])}

(* What has been written before the next statement of an attempt. *)
AttemptOK(p) ==
  /\ p[2] = "request" => at[p] \in RequestSteps \cup Still
  /\ p[2] = "resolution" => at[p] \in ResolutionSteps \cup Still
  /\ p[2] = "resolution" /\ at[p] \notin Still => decision[p[1]] # None
  /\ at[p] \in {"audit", "transcript", "publish"} => Recorded(p[1])
  /\ p[2] = "resolution" /\ at[p] \in ResolutionSteps \ {"read", "update"} => Resolved(p[1])
  /\ at[p] \in {"transcript", "publish"} => Key(p) \in audit /\ cards[Key(p)] = 0
  /\ at[p] = "publish" => Key(p) \in transcript

AttemptInv == \A p \in Attempts : AttemptOK(p)

(* The audit event has one author. *)
AloneInv ==
  \A p, q \in Attempts :
    {at[p], at[q]} \subseteq {"transcript", "publish"} /\ Key(p) = Key(q) => p = q

(* A card was published once, after what it tells of. *)
CardInv ==
  \A n \in Calls, kind \in Kinds :
    /\ cards[<<n, kind>>] <= 1
    /\ cards[<<n, kind>>] > 0 =>
         <<n, kind>> \in audit \cap transcript /\ Recorded(n) /\ (kind = "resolution" => Resolved(n))

(* How far the request and the resolution of a call have come. *)
Untouched(n, kind) == <<n, kind>> \notin audit /\ cards[<<n, kind>>] = 0
Settled(n, kind) == <<n, kind>> \in audit \cap transcript /\ cards[<<n, kind>>] = 1

(* Nothing was written about a call that is still to come. *)
FutureInv ==
  \A n \in Calls : n > call => row[n] = NoRow /\ notified[n] = 0 /\ \A kind \in Kinds : Untouched(n, kind)

(* What holds during the only attempt to record a request, ... *)
RequestInv ==
  LET s == at[<<call, "request", 1>>] IN
  stage = "request" =>
    /\ s \notin Still /\ notified[call] = 0 /\ Untouched(call, "resolution")
    /\ s \in {"known", "find", "insert"} => row[call] = NoRow
    /\ s \in {"known", "find", "insert", "audit"} => Untouched(call, "request")
    /\ s \in {"status", "notify"} => Settled(call, "request")
    /\ s = "notify" => runStatus = "waiting_approval"

(* ... between the request and the resolution, ... *)
WaitingInv ==
  stage = "waiting" =>
    /\ Settled(call, "request") /\ notified[call] = 1 /\ runStatus = "waiting_approval"
    /\ Untouched(call, "resolution")

(* ... during the only attempt to record the resolution, ... *)
ResolutionInv ==
  LET s == at[<<call, "resolution", 1>>] IN
  stage = "resolution" =>
    /\ s \notin Still
    /\ s \in {"read", "update"} => row[call] \in {NoRow, Asked}
    /\ s \in {"read", "update", "restore", "audit"} => Untouched(call, "resolution")
    /\ s = "answer" => Settled(call, "resolution")
    /\ s \in {"audit", "transcript", "publish", "answer"}
         /\ TerminalState(decision[call].action) = "approved" => runStatus = "running"

(* ... and after it. *)
AnsweredInv ==
  stage \in {"running", "refused"} /\ call > 0 =>
    Settled(call, "resolution") /\ (stage = "running" => runStatus = "running")

(* Without an attempt given up there is one, the one that is waited for. *)
OneAttempt ==
  /\ attempt = 1 /\ knew = {}
  /\ \A p \in Attempts : at[p] \notin Still => p = <<call, stage, 1>>

SmoothInv ==
  abandoned = {} =>
    OneAttempt /\ FutureInv /\ RequestInv /\ WaitingInv /\ ResolutionInv /\ AnsweredInv

(* The inductive invariant. *)
IInv ==
  /\ Types /\ DecisionInv /\ RowInv /\ AnswerInv /\ AttemptInv /\ AloneInv /\ CardInv /\ SmoothInv

(* An attempt is a call, a kind and a number. *)
LEMMA AttemptParts ==
  /\ \A p \in Attempts : /\ p = <<p[1], p[2], p[3]>> /\ p[1] \in Calls /\ p[2] \in Kinds
                         /\ p[3] \in 1..MaxAttempts /\ Key(p) \in Calls \X Kinds
  /\ \A n \in Calls, kind \in Kinds, k \in 1..MaxAttempts : <<n, kind, k>> \in Attempts
BY DEF Attempts, Key

(* A decision resolves the row, to the terminal state of its action. *)
LEMMA DecisionFacts ==
  \A d \in AnyDecision :
    /\ d # None
    /\ ResolvedRow(d) # NoRow /\ ResolvedRow(d) # Asked
    /\ ResolvedRow(d).status = TerminalState(d.action)
    /\ TerminalState(d.action) \in States
    /\ d.action \in Actions \cup {"expire"}
BY DEF AnyDecision, Decisions, Actions, None, NoRow, Asked, ResolvedRow, TerminalState, States

(* What a decision answers, and what its row answers when it is read back. *)
LEMMA ResolutionFacts ==
  \A d \in AnyDecision :
    /\ Resolution(d) # None /\ CardResolution(ResolvedRow(d)) # None
    /\ Resolution(d).state = TerminalState(d.action)
    /\ CardResolution(ResolvedRow(d)).state = TerminalState(d.action)
    /\ Resolution(d).arguments \in {"proposed"} \cup Edits
    /\ CardResolution(ResolvedRow(d)).arguments \in {"proposed"} \cup Edits
    /\ Edited(d) = "edits" \/ d.action # "approve_with_edits"
         => CardResolution(ResolvedRow(d)) = Resolution(d)
BY
DEF AnyDecision, Decisions, Actions, None, Edits, ResolvedRow, TerminalState, States,
    Resolution,
       CardResolution, Column, Canonical, Edited, ActionOf

(* Each action of the workflow and each statement of an attempt keeps IInv. *)
LEMMA AskKeeps ==
  ASSUME IInv, AskForApproval
  PROVE  IInv'
<1>0. /\ stage = "running" /\ call \in 0..MaxCalls /\ call < MaxCalls /\ MaxCalls \in Nat \ {0}
      /\ MaxAttempts \in Nat \ {0} /\ call + 1 \in Calls /\ <<call + 1, "request", 1>> \in Attempts
      /\ 1 \in 1..MaxAttempts
  BY ApprovalsAssumption DEF AskForApproval, IInv, Types, Calls, Attempts, Kinds
<1>1. /\ call' = call + 1 /\ stage' = "request" /\ attempt' = 1
      /\ at' = [at EXCEPT ![<<call + 1, "request", 1>>] = "known"]
      /\ UNCHANGED <<decision, answer, tables, knew, notified, abandoned>>
  BY DEF AskForApproval, Start
<1>2. Types'
  <2>1. /\ stage' \in Stages /\ call' \in 0..MaxCalls /\ attempt' \in 1..MaxAttempts /\ call' \in Calls
    BY <1>0, <1>1 DEF Stages
  <2>2. at' \in [Attempts -> RequestSteps \cup ResolutionSteps \cup Still]
    BY <1>0, <1>1 DEF IInv, Types, RequestSteps
  <2> QED BY <1>1, <2>1, <2>2 DEF IInv, Types, tables
<1>3. DecisionInv'
  BY <1>0, <1>1, DecisionFacts DEF IInv, Types, workflow, tables, DecisionInv, Undecided, Calls
<1>4. RowInv'
  BY <1>0, <1>1 DEF IInv, Types, workflow, tables, RowInv, DecisionInv, Resolved, Undecided, Calls
<1>5. AnswerInv'
  BY <1>0, <1>1
  DEF IInv, Types, workflow, tables, AnswerInv, DecisionInv, Resolved, Undecided, Calls
<1>6. AttemptInv'
  <2> SUFFICES ASSUME NEW q \in Attempts  PROVE AttemptOK(q)'
    BY DEF AttemptInv
  <2>0. AttemptOK(q)
    BY DEF IInv, AttemptInv
  <2>1. CASE q = <<call + 1, "request", 1>>
    BY <2>1, <1>0, <1>1
    DEF IInv, Types, workflow, tables, AttemptOK, Still, ResolutionSteps, RequestSteps, Kinds,
        Attempts, Calls
  <2>2. CASE q # <<call + 1, "request", 1>>
    <3>1. at'[q] = at[q]
      BY <2>2, <1>1, <1>0 DEF IInv, Types
    <3>2. QED
      BY <2>0, <3>1, <1>0, <1>1, AttemptParts
      DEF IInv, Types, workflow, tables, AttemptOK, Resolved, Recorded, Key, Still,
          RequestSteps, ResolutionSteps, RowInv, DecisionInv, Undecided
  <2> QED BY <2>1, <2>2
<1>7. AloneInv'
  BY <1>0, <1>1, AttemptParts
  DEF IInv, Types, workflow, tables, AloneInv, AttemptInv, AttemptOK, Key, Calls
<1>8. CardInv'
  BY <1>0, <1>1, AttemptParts, DecisionFacts
  DEF IInv, Types, workflow, tables, CardInv, DecisionInv, Undecided, Resolved, Recorded,
      Kinds, AttemptInv, AttemptOK, Key, Calls
<1>9. SmoothInv'
  <2> SUFFICES ASSUME abandoned = {}, abandoned' = {}
               PROVE  OneAttempt' /\ FutureInv' /\ RequestInv' /\ WaitingInv' /\ ResolutionInv' /\ AnsweredInv'
    BY <1>0, <1>1 DEF SmoothInv, workflow
  <2>0. OneAttempt /\ FutureInv /\ RequestInv /\ WaitingInv /\ ResolutionInv /\ AnsweredInv
    BY DEF IInv, SmoothInv
  <2>2. OneAttempt'
    <3>1. \A q \in Attempts : at[q] \in Still
      BY <1>0, <2>0, AttemptParts DEF OneAttempt, Kinds
    <3> QED BY <1>0, <1>1, <2>0, <3>1 DEF IInv, Types, OneAttempt, Still
  <2>3. FutureInv'
    BY <1>0, <1>1, <2>0, AttemptParts
    DEF IInv, Types, workflow, tables, Kinds, Key, Calls, FutureInv, Untouched, Calls
  <2>4. RequestInv'
    BY <1>0, <1>1, <2>0, AttemptParts
    DEF IInv, Types, workflow, tables, Kinds, Key, Calls, RequestInv, WaitingInv,
        ResolutionInv, AnsweredInv, FutureInv, Untouched, Settled, Still, OneAttempt,
        ResolutionSteps, RequestSteps, CardInv, AttemptInv, AttemptOK, Calls
  <2>5. WaitingInv'
    BY <1>0, <1>1, <2>0, AttemptParts
    DEF IInv, Types, workflow, tables, Kinds, Key, Calls, RequestInv, WaitingInv,
        ResolutionInv, AnsweredInv, Untouched, Settled, Still, OneAttempt, ResolutionSteps,
        RequestSteps, CardInv, AttemptInv, AttemptOK, Calls
  <2>6. ResolutionInv'
    BY <1>0, <1>1, <2>0, AttemptParts
    DEF IInv, Types, workflow, tables, Kinds, Key, Calls, RequestInv, WaitingInv,
        ResolutionInv, AnsweredInv, Untouched, Settled, Still, OneAttempt, ResolutionSteps,
        RequestSteps, CardInv, AttemptInv, AttemptOK, Calls
  <2>7. AnsweredInv'
    BY <1>0, <1>1, <2>0, AttemptParts
    DEF IInv, Types, workflow, tables, Kinds, Key, Calls, RequestInv, WaitingInv,
        ResolutionInv, AnsweredInv, Untouched, Settled, Still, OneAttempt, ResolutionSteps,
        RequestSteps, CardInv, AttemptInv, AttemptOK, Calls
  <2> QED BY <2>2, <2>3, <2>4, <2>5, <2>6, <2>7
<1> QED BY <1>2, <1>3, <1>4, <1>5, <1>6, <1>7, <1>8, <1>9 DEF IInv

LEMMA DecideKeeps ==
  ASSUME IInv, NEW d \in AnyDecision, Decide(d)
  PROVE  IInv'
<1>0. /\ stage = "waiting" /\ call \in Calls /\ MaxAttempts \in Nat \ {0}
      /\ <<call, "resolution", 1>> \in Attempts /\ d # None
  BY ApprovalsAssumption, DecisionFacts DEF Decide, IInv, Types, Calls, Attempts, Kinds
<1>1. /\ stage' = "resolution" /\ attempt' = 1
      /\ decision' = [decision EXCEPT ![call] = d]
      /\ at' = [at EXCEPT ![<<call, "resolution", 1>>] = "read"]
      /\ UNCHANGED <<call, answer, tables, knew, notified, abandoned>>
  BY DEF Decide, Start
<1>2. Types'
  BY <1>0, <1>1, AttemptParts, DecisionFacts
  DEF IInv, Types, workflow, tables, RequestSteps, ResolutionSteps, Stages, Still, Kinds, Key
<1>3. DecisionInv'
  BY <1>0, <1>1, DecisionFacts DEF IInv, Types, workflow, tables, DecisionInv, Undecided
<1>4. RowInv'
  BY <1>0, <1>1 DEF IInv, Types, workflow, tables, RowInv, DecisionInv, Resolved, Undecided
<1>5. AnswerInv'
  BY <1>0, <1>1 DEF IInv, Types, workflow, tables, AnswerInv, DecisionInv, Resolved, Undecided
<1>6. AttemptInv'
  <2> SUFFICES ASSUME NEW q \in Attempts  PROVE AttemptOK(q)'
    BY DEF AttemptInv
  <2>0. AttemptOK(q)
    BY DEF IInv, AttemptInv
  <2>1. CASE q = <<call, "resolution", 1>>
    BY <2>1, <1>0, <1>1
    DEF IInv, Types, workflow, tables, AttemptOK, Still, ResolutionSteps, RequestSteps, Kinds,
        Attempts, Calls
  <2>2. CASE q # <<call, "resolution", 1>>
    <3>1. at'[q] = at[q]
      BY <2>2, <1>1, <1>0 DEF IInv, Types
    <3>2. QED
      BY <2>0, <3>1, <1>0, <1>1, AttemptParts
      DEF IInv, Types, workflow, tables, AttemptOK, Resolved, Recorded, Key, Still,
          RequestSteps, ResolutionSteps, RowInv, DecisionInv, Undecided
  <2> QED BY <2>1, <2>2
<1>7. AloneInv'
  BY <1>0, <1>1, AttemptParts
  DEF IInv, Types, workflow, tables, AloneInv, AttemptInv, AttemptOK, Key
<1>8. CardInv'
  BY <1>0, <1>1, AttemptParts, DecisionFacts
  DEF IInv, Types, workflow, tables, CardInv, DecisionInv, Undecided, Resolved, Recorded,
      Kinds, AttemptInv, AttemptOK, Key
<1>9. SmoothInv'
  <2> SUFFICES ASSUME abandoned = {}, abandoned' = {}
               PROVE  OneAttempt' /\ FutureInv' /\ RequestInv' /\ WaitingInv' /\ ResolutionInv' /\ AnsweredInv'
    BY <1>0, <1>1 DEF SmoothInv, workflow
  <2>0. OneAttempt /\ FutureInv /\ RequestInv /\ WaitingInv /\ ResolutionInv /\ AnsweredInv
    BY DEF IInv, SmoothInv
  <2>2. OneAttempt'
    <3>1. \A q \in Attempts : at[q] \in Still
      BY <1>0, <2>0, AttemptParts DEF OneAttempt, Kinds
    <3> QED BY <1>0, <1>1, <2>0, <3>1 DEF IInv, Types, OneAttempt, Still
  <2>3. FutureInv'
    BY <1>0, <1>1, <2>0, AttemptParts
    DEF IInv, Types, workflow, tables, Kinds, Key, Calls, FutureInv, Untouched
  <2>4. RequestInv'
    BY <1>0, <1>1, <2>0, AttemptParts
    DEF IInv, Types, workflow, tables, Kinds, Key, Calls, RequestInv, WaitingInv,
        ResolutionInv, AnsweredInv, FutureInv, Untouched, Settled, Still, OneAttempt,
        ResolutionSteps, RequestSteps, CardInv, AttemptInv, AttemptOK
  <2>5. WaitingInv'
    BY <1>0, <1>1, <2>0, AttemptParts
    DEF IInv, Types, workflow, tables, Kinds, Key, Calls, RequestInv, WaitingInv,
        ResolutionInv, AnsweredInv, Untouched, Settled, Still, OneAttempt, ResolutionSteps,
        RequestSteps, CardInv, AttemptInv, AttemptOK
  <2>6. ResolutionInv'
    <3>1. at'[<<call, "resolution", 1>>] = "read"
      BY <1>0, <1>1 DEF IInv, Types
    <3>2. row[call] \in {NoRow, Asked} /\ Untouched(call, "resolution")
      BY <1>0, <2>0 DEF IInv, RowInv, Resolved, DecisionInv, Undecided, WaitingInv
    <3> QED BY <1>0, <1>1, <3>1, <3>2 DEF ResolutionInv, Still, tables, Untouched
  <2>7. AnsweredInv'
    BY <1>0, <1>1, <2>0, AttemptParts
    DEF IInv, Types, workflow, tables, Kinds, Key, Calls, RequestInv, WaitingInv,
        ResolutionInv, AnsweredInv, Untouched, Settled, Still, OneAttempt, ResolutionSteps,
        RequestSteps, CardInv, AttemptInv, AttemptOK
  <2> QED BY <2>2, <2>3, <2>4, <2>5, <2>6, <2>7
<1> QED BY <1>2, <1>3, <1>4, <1>5, <1>6, <1>7, <1>8, <1>9 DEF IInv

LEMMA CompleteKeeps ==
  ASSUME IInv, Complete
  PROVE  IInv'
<1>0. stage \in {"running", "refused"}
  BY DEF Complete
<1>1. /\ stage' = "ended" /\ runStatus' \in {"cancelled", "complete"}
      /\ UNCHANGED <<call, attempt, decision, answer, row, audit, transcript, cards, at, knew,
                     notified, abandoned>>
  BY DEF Complete
<1>2. Types'
  BY <1>0, <1>1, AttemptParts, DecisionFacts
  DEF IInv, Types, workflow, tables, RequestSteps, ResolutionSteps, Stages, Still, Kinds, Key
<1>3. DecisionInv'
  BY <1>0, <1>1, DecisionFacts DEF IInv, Types, workflow, tables, DecisionInv, Undecided
<1>4. RowInv'
  BY <1>0, <1>1 DEF IInv, Types, workflow, tables, RowInv, DecisionInv, Resolved, Undecided
<1>5. AnswerInv'
  BY <1>0, <1>1 DEF IInv, Types, workflow, tables, AnswerInv, DecisionInv, Resolved, Undecided
<1>6. AttemptInv'
  BY <1>0, <1>1, AttemptParts, DecisionFacts
  DEF IInv, Types, workflow, tables, AttemptInv, AttemptOK, Resolved, Recorded, Still,
      ResolutionSteps, RequestSteps, Key, Kinds, DecisionInv, Undecided
<1>7. AloneInv'
  BY <1>0, <1>1, AttemptParts
  DEF IInv, Types, workflow, tables, AloneInv, AttemptInv, AttemptOK, Key
<1>8. CardInv'
  BY <1>0, <1>1, AttemptParts, DecisionFacts
  DEF IInv, Types, workflow, tables, CardInv, DecisionInv, Undecided, Resolved, Recorded,
      Kinds, AttemptInv, AttemptOK, Key
<1>9. SmoothInv'
  <2> SUFFICES ASSUME abandoned = {}, abandoned' = {}
               PROVE  OneAttempt' /\ FutureInv' /\ RequestInv' /\ WaitingInv' /\ ResolutionInv' /\ AnsweredInv'
    BY <1>0, <1>1 DEF SmoothInv, workflow
  <2>0. OneAttempt /\ FutureInv /\ RequestInv /\ WaitingInv /\ ResolutionInv /\ AnsweredInv
    BY DEF IInv, SmoothInv
  <2>2. OneAttempt'
    BY <1>0, <1>1, <2>0, AttemptParts
    DEF IInv, Types, workflow, tables, Kinds, Key, Calls, OneAttempt, Still
  <2>3. FutureInv'
    BY <1>0, <1>1, <2>0, AttemptParts
    DEF IInv, Types, workflow, tables, Kinds, Key, Calls, FutureInv, Untouched
  <2>4. RequestInv'
    BY <1>0, <1>1, <2>0, AttemptParts
    DEF IInv, Types, workflow, tables, Kinds, Key, Calls, RequestInv, WaitingInv,
        ResolutionInv, AnsweredInv, FutureInv, Untouched, Settled, Still, OneAttempt,
        ResolutionSteps, RequestSteps, CardInv, AttemptInv, AttemptOK
  <2>5. WaitingInv'
    BY <1>0, <1>1, <2>0, AttemptParts
    DEF IInv, Types, workflow, tables, Kinds, Key, Calls, RequestInv, WaitingInv,
        ResolutionInv, AnsweredInv, Untouched, Settled, Still, OneAttempt, ResolutionSteps,
        RequestSteps, CardInv, AttemptInv, AttemptOK
  <2>6. ResolutionInv'
    BY <1>0, <1>1, <2>0, AttemptParts
    DEF IInv, Types, workflow, tables, Kinds, Key, Calls, RequestInv, WaitingInv,
        ResolutionInv, AnsweredInv, Untouched, Settled, Still, OneAttempt, ResolutionSteps,
        RequestSteps, CardInv, AttemptInv, AttemptOK
  <2>7. AnsweredInv'
    BY <1>0, <1>1, <2>0, AttemptParts
    DEF IInv, Types, workflow, tables, Kinds, Key, Calls, RequestInv, WaitingInv,
        ResolutionInv, AnsweredInv, Untouched, Settled, Still, OneAttempt, ResolutionSteps,
        RequestSteps, CardInv, AttemptInv, AttemptOK
  <2> QED BY <2>2, <2>3, <2>4, <2>5, <2>6, <2>7
<1> QED BY <1>2, <1>3, <1>4, <1>5, <1>6, <1>7, <1>8, <1>9 DEF IInv

LEMMA CheckKnownKeeps ==
  ASSUME IInv, NEW p \in Attempts, CheckKnown(p)
  PROVE  IInv'
<1>0. /\ p[1] \in Calls /\ p[2] \in Kinds /\ at[p] = "known" /\ p[2] = "request"
  BY AttemptParts, DecisionFacts
  DEF IInv, Types, AttemptInv, AttemptOK, CheckKnown, RequestSteps, ResolutionSteps, Still,
      Kinds
<1>1. /\ knew' = IF Recorded(p[1]) THEN knew \cup {p} ELSE knew
      /\ at' = [at EXCEPT ![p] = "find"]
      /\ UNCHANGED <<workflow, tables, abandoned, notified>>
  BY <1>0 DEF CheckKnown, Goto, AfterWrite, Kinds
<1>2. Types'
  BY <1>0, <1>1, AttemptParts, DecisionFacts
  DEF IInv, Types, workflow, tables, RequestSteps, ResolutionSteps, Stages, Still, Kinds, Key,
      Recorded
<1>3. DecisionInv'
  BY <1>0, <1>1, DecisionFacts DEF IInv, Types, workflow, tables, DecisionInv, Undecided, Recorded
<1>4. RowInv'
  BY <1>0, <1>1
  DEF IInv, Types, workflow, tables, RowInv, DecisionInv, Resolved, Undecided, Recorded
<1>5. AnswerInv'
  BY <1>0, <1>1
  DEF IInv, Types, workflow, tables, AnswerInv, DecisionInv, Resolved, Undecided, Recorded
<1>6. AttemptInv'
  <2> SUFFICES ASSUME NEW q \in Attempts  PROVE AttemptOK(q)'
    BY DEF AttemptInv
  <2>0. AttemptOK(p) /\ AttemptOK(q)
    BY DEF IInv, AttemptInv
  <2>1. CASE q = p
    BY <2>0, <2>1, <1>0, <1>1, AttemptParts, DecisionFacts
    DEF IInv, Types, workflow, tables, AttemptOK, Resolved, Recorded, Still, ResolutionSteps,
        RequestSteps, Key, Kinds, CardInv, Recorded
  <2>2. CASE q # p
    <3>1. at'[q] = at[q]
      BY <2>2, <1>1, <1>0 DEF IInv, Types, workflow, tables
    <3>2. QED
      BY <2>0, <2>2, <3>1, <1>0, <1>1, AttemptParts, DecisionFacts
      DEF IInv, Types, workflow, tables, AttemptOK, Resolved, Recorded, Still,
          ResolutionSteps, RequestSteps, Key, Kinds, AloneInv, RowInv, DecisionInv, Undecided,
          Recorded
  <2> QED BY <2>1, <2>2
<1>7. AloneInv'
  BY <1>0, <1>1, AttemptParts
  DEF IInv, Types, workflow, tables, AloneInv, AttemptInv, AttemptOK, Key, Recorded
<1>8. CardInv'
  BY <1>0, <1>1, AttemptParts, DecisionFacts
  DEF IInv, Types, workflow, tables, CardInv, DecisionInv, Undecided, Resolved, Recorded,
      Kinds, AttemptInv, AttemptOK, Key, Recorded
<1>9. SmoothInv'
  <2> SUFFICES ASSUME abandoned = {}, abandoned' = {}
               PROVE  OneAttempt' /\ FutureInv' /\ RequestInv' /\ WaitingInv' /\ ResolutionInv' /\ AnsweredInv'
    BY <1>0, <1>1 DEF SmoothInv, workflow
  <2>0. OneAttempt /\ FutureInv /\ RequestInv /\ WaitingInv /\ ResolutionInv /\ AnsweredInv
    BY DEF IInv, SmoothInv
  <2>1. /\ p = <<call, stage, 1>> /\ attempt = 1 /\ p \notin knew /\ Awaited(p)
        /\ call \in Calls /\ stage = p[2] /\ p[1] = call
    BY <1>0, <2>0 DEF OneAttempt, Still, Awaited
  <2>2. OneAttempt'
    <3>1. ~Recorded(p[1])
      BY <1>0, <2>0, <2>1 DEF RequestInv, Recorded
    <3> QED BY <1>0, <1>1, <2>0, <2>1, <3>1 DEF IInv, Types, workflow, OneAttempt, Still
  <2>3. FutureInv'
    BY <1>0, <1>1, <2>0, <2>1, AttemptParts
    DEF IInv, Types, workflow, tables, Kinds, Key, Calls, FutureInv, Untouched, Recorded
  <2>4. RequestInv'
    BY <1>0, <1>1, <2>0, <2>1, AttemptParts
    DEF IInv, Types, workflow, tables, Kinds, Key, Calls, RequestInv, WaitingInv,
        ResolutionInv, AnsweredInv, FutureInv, Untouched, Settled, Still, CardInv, AttemptInv,
        AttemptOK, Recorded
  <2>5. WaitingInv'
    BY <1>0, <1>1, <2>0, <2>1, AttemptParts
    DEF IInv, Types, workflow, tables, Kinds, Key, Calls, RequestInv, WaitingInv,
        ResolutionInv, AnsweredInv, Untouched, Settled, Still, CardInv, AttemptInv, AttemptOK,
        Recorded
  <2>6. ResolutionInv'
    BY <1>0, <1>1, <2>0, <2>1, AttemptParts
    DEF IInv, Types, workflow, tables, Kinds, Key, Calls, RequestInv, WaitingInv,
        ResolutionInv, AnsweredInv, Untouched, Settled, Still, CardInv, AttemptInv, AttemptOK,
        Recorded
  <2>7. AnsweredInv'
    BY <1>0, <1>1, <2>0, <2>1, AttemptParts
    DEF IInv, Types, workflow, tables, Kinds, Key, Calls, RequestInv, WaitingInv,
        ResolutionInv, AnsweredInv, Untouched, Settled, Still, CardInv, AttemptInv, AttemptOK,
        Recorded
  <2> QED BY <2>2, <2>3, <2>4, <2>5, <2>6, <2>7
<1> QED BY <1>2, <1>3, <1>4, <1>5, <1>6, <1>7, <1>8, <1>9 DEF IInv

LEMMA FindRequestKeeps ==
  ASSUME IInv, NEW p \in Attempts, FindRequest(p)
  PROVE  IInv'
<1>0. /\ p[1] \in Calls /\ p[2] \in Kinds /\ at[p] = "find" /\ p[2] = "request"
  BY AttemptParts, DecisionFacts
  DEF IInv, Types, AttemptInv, AttemptOK, FindRequest, RequestSteps, ResolutionSteps, Still,
      Kinds
<1>1. /\ at' = [at EXCEPT ![p] = IF Recorded(p[1]) THEN "notify" ELSE "insert"]
      /\ UNCHANGED <<workflow, tables, knew, abandoned, notified>>
  BY <1>0 DEF FindRequest, Goto, AfterWrite, Kinds
<1>2. Types'
  BY <1>0, <1>1, AttemptParts, DecisionFacts
  DEF IInv, Types, workflow, tables, RequestSteps, ResolutionSteps, Stages, Still, Kinds, Key,
      Recorded
<1>3. DecisionInv'
  BY <1>0, <1>1, DecisionFacts DEF IInv, Types, workflow, tables, DecisionInv, Undecided, Recorded
<1>4. RowInv'
  BY <1>0, <1>1
  DEF IInv, Types, workflow, tables, RowInv, DecisionInv, Resolved, Undecided, Recorded
<1>5. AnswerInv'
  BY <1>0, <1>1
  DEF IInv, Types, workflow, tables, AnswerInv, DecisionInv, Resolved, Undecided, Recorded
<1>6. AttemptInv'
  <2> SUFFICES ASSUME NEW q \in Attempts  PROVE AttemptOK(q)'
    BY DEF AttemptInv
  <2>0. AttemptOK(p) /\ AttemptOK(q)
    BY DEF IInv, AttemptInv
  <2>1. CASE q = p
    BY <2>0, <2>1, <1>0, <1>1, AttemptParts, DecisionFacts
    DEF IInv, Types, workflow, tables, AttemptOK, Resolved, Recorded, Still, ResolutionSteps,
        RequestSteps, Key, Kinds, CardInv, Recorded
  <2>2. CASE q # p
    <3>1. at'[q] = at[q]
      BY <2>2, <1>1, <1>0 DEF IInv, Types, workflow, tables
    <3>2. QED
      BY <2>0, <2>2, <3>1, <1>0, <1>1, AttemptParts, DecisionFacts
      DEF IInv, Types, workflow, tables, AttemptOK, Resolved, Recorded, Still,
          ResolutionSteps, RequestSteps, Key, Kinds, AloneInv, RowInv, DecisionInv, Undecided,
          Recorded
  <2> QED BY <2>1, <2>2
<1>7. AloneInv'
  BY <1>0, <1>1, AttemptParts
  DEF IInv, Types, workflow, tables, AloneInv, AttemptInv, AttemptOK, Key, Recorded
<1>8. CardInv'
  BY <1>0, <1>1, AttemptParts, DecisionFacts
  DEF IInv, Types, workflow, tables, CardInv, DecisionInv, Undecided, Resolved, Recorded,
      Kinds, AttemptInv, AttemptOK, Key, Recorded
<1>9. SmoothInv'
  <2> SUFFICES ASSUME abandoned = {}, abandoned' = {}
               PROVE  OneAttempt' /\ FutureInv' /\ RequestInv' /\ WaitingInv' /\ ResolutionInv' /\ AnsweredInv'
    BY <1>0, <1>1 DEF SmoothInv, workflow
  <2>0. OneAttempt /\ FutureInv /\ RequestInv /\ WaitingInv /\ ResolutionInv /\ AnsweredInv
    BY DEF IInv, SmoothInv
  <2>1. /\ p = <<call, stage, 1>> /\ attempt = 1 /\ p \notin knew /\ Awaited(p)
        /\ call \in Calls /\ stage = p[2] /\ p[1] = call
    BY <1>0, <2>0 DEF OneAttempt, Still, Awaited
  <2>2. OneAttempt'
    BY <1>0, <1>1, <2>0, <2>1, AttemptParts
    DEF IInv, Types, workflow, tables, Kinds, Key, Calls, OneAttempt, Still, Recorded
  <2>3. FutureInv'
    BY <1>0, <1>1, <2>0, <2>1, AttemptParts
    DEF IInv, Types, workflow, tables, Kinds, Key, Calls, FutureInv, Untouched, Recorded
  <2>4. RequestInv'
    BY <1>0, <1>1, <2>0, <2>1, AttemptParts
    DEF IInv, Types, workflow, tables, Kinds, Key, Calls, RequestInv, WaitingInv,
        ResolutionInv, AnsweredInv, FutureInv, Untouched, Settled, Still, CardInv, AttemptInv,
        AttemptOK, Recorded
  <2>5. WaitingInv'
    BY <1>0, <1>1, <2>0, <2>1, AttemptParts
    DEF IInv, Types, workflow, tables, Kinds, Key, Calls, RequestInv, WaitingInv,
        ResolutionInv, AnsweredInv, Untouched, Settled, Still, CardInv, AttemptInv, AttemptOK,
        Recorded
  <2>6. ResolutionInv'
    BY <1>0, <1>1, <2>0, <2>1, AttemptParts
    DEF IInv, Types, workflow, tables, Kinds, Key, Calls, RequestInv, WaitingInv,
        ResolutionInv, AnsweredInv, Untouched, Settled, Still, CardInv, AttemptInv, AttemptOK,
        Recorded
  <2>7. AnsweredInv'
    BY <1>0, <1>1, <2>0, <2>1, AttemptParts
    DEF IInv, Types, workflow, tables, Kinds, Key, Calls, RequestInv, WaitingInv,
        ResolutionInv, AnsweredInv, Untouched, Settled, Still, CardInv, AttemptInv, AttemptOK,
        Recorded
  <2> QED BY <2>2, <2>3, <2>4, <2>5, <2>6, <2>7
<1> QED BY <1>2, <1>3, <1>4, <1>5, <1>6, <1>7, <1>8, <1>9 DEF IInv

LEMMA UpdateRowKeeps ==
  ASSUME IInv, NEW p \in Attempts, UpdateRow(p)
  PROVE  IInv'
<1>0. /\ p[1] \in Calls /\ p[2] \in Kinds /\ at[p] = "update" /\ p[2] = "resolution"
      /\ decision[p[1]] # None /\ decision[p[1]] \in AnyDecision
  BY AttemptParts, DecisionFacts
  DEF IInv, Types, AttemptInv, AttemptOK, UpdateRow, RequestSteps, ResolutionSteps, Still,
      Kinds
<1>1. /\ row' = [row EXCEPT ![p[1]] = ResolvedRow(decision[p[1]])]
      /\ at' = [at EXCEPT ![p] = "restore"]
      /\ UNCHANGED <<workflow, abandoned, audit, transcript, cards, runStatus, knew, notified>>
  BY <1>0 DEF UpdateRow, Goto, AfterWrite, Kinds
<1>2. Types'
  BY <1>0, <1>1, AttemptParts, DecisionFacts
  DEF IInv, Types, workflow, tables, RequestSteps, ResolutionSteps, Stages, Still, Kinds, Key
<1>3. DecisionInv'
  BY <1>0, <1>1, DecisionFacts DEF IInv, Types, workflow, tables, DecisionInv, Undecided
<1>4. RowInv'
  BY <1>0, <1>1 DEF IInv, Types, workflow, tables, RowInv, DecisionInv, Resolved, Undecided
<1>5. AnswerInv'
  BY <1>0, <1>1 DEF IInv, Types, workflow, tables, AnswerInv, DecisionInv, Resolved, Undecided
<1>6. AttemptInv'
  <2> SUFFICES ASSUME NEW q \in Attempts  PROVE AttemptOK(q)'
    BY DEF AttemptInv
  <2>0. AttemptOK(p) /\ AttemptOK(q)
    BY DEF IInv, AttemptInv
  <2>1. CASE q = p
    BY <2>0, <2>1, <1>0, <1>1, AttemptParts, DecisionFacts
    DEF IInv, Types, workflow, tables, AttemptOK, Resolved, Recorded, Still, ResolutionSteps,
        RequestSteps, Key, Kinds, CardInv
  <2>2. CASE q # p
    <3>1. at'[q] = at[q]
      BY <2>2, <1>1, <1>0 DEF IInv, Types, workflow, tables
    <3>2. QED
      BY <2>0, <2>2, <3>1, <1>0, <1>1, AttemptParts, DecisionFacts
      DEF IInv, Types, workflow, tables, AttemptOK, Resolved, Recorded, Still,
          ResolutionSteps, RequestSteps, Key, Kinds, AloneInv, RowInv, DecisionInv, Undecided
  <2> QED BY <2>1, <2>2
<1>7. AloneInv'
  BY <1>0, <1>1, AttemptParts
  DEF IInv, Types, workflow, tables, AloneInv, AttemptInv, AttemptOK, Key
<1>8. CardInv'
  BY <1>0, <1>1, AttemptParts, DecisionFacts
  DEF IInv, Types, workflow, tables, CardInv, DecisionInv, Undecided, Resolved, Recorded,
      Kinds, AttemptInv, AttemptOK, Key
<1>9. SmoothInv'
  <2> SUFFICES ASSUME abandoned = {}, abandoned' = {}
               PROVE  OneAttempt' /\ FutureInv' /\ RequestInv' /\ WaitingInv' /\ ResolutionInv' /\ AnsweredInv'
    BY <1>0, <1>1 DEF SmoothInv, workflow
  <2>0. OneAttempt /\ FutureInv /\ RequestInv /\ WaitingInv /\ ResolutionInv /\ AnsweredInv
    BY DEF IInv, SmoothInv
  <2>1. /\ p = <<call, stage, 1>> /\ attempt = 1 /\ p \notin knew /\ Awaited(p)
        /\ call \in Calls /\ stage = p[2] /\ p[1] = call
    BY <1>0, <2>0 DEF OneAttempt, Still, Awaited
  <2>2. OneAttempt'
    BY <1>0, <1>1, <2>0, <2>1, AttemptParts
    DEF IInv, Types, workflow, tables, Kinds, Key, Calls, OneAttempt, Still
  <2>3. FutureInv'
    BY <1>0, <1>1, <2>0, <2>1 DEF IInv, Types, workflow, FutureInv, Untouched, Calls
  <2>4. RequestInv'
    BY <1>0, <1>1, <2>0, <2>1, AttemptParts
    DEF IInv, Types, workflow, tables, Kinds, Key, Calls, RequestInv, WaitingInv,
        ResolutionInv, AnsweredInv, FutureInv, Untouched, Settled, Still, CardInv, AttemptInv,
        AttemptOK
  <2>5. WaitingInv'
    BY <1>0, <1>1, <2>0, <2>1, AttemptParts
    DEF IInv, Types, workflow, tables, Kinds, Key, Calls, RequestInv, WaitingInv,
        ResolutionInv, AnsweredInv, Untouched, Settled, Still, CardInv, AttemptInv, AttemptOK
  <2>6. ResolutionInv'
    BY <1>0, <1>1, <2>0, <2>1, AttemptParts
    DEF IInv, Types, workflow, tables, Kinds, Key, Calls, RequestInv, WaitingInv,
        ResolutionInv, AnsweredInv, Untouched, Settled, Still, CardInv, AttemptInv, AttemptOK
  <2>7. AnsweredInv'
    BY <1>0, <1>1, <2>0, <2>1, AttemptParts
    DEF IInv, Types, workflow, tables, Kinds, Key, Calls, RequestInv, WaitingInv,
        ResolutionInv, AnsweredInv, Untouched, Settled, Still, CardInv, AttemptInv, AttemptOK
  <2> QED BY <2>2, <2>3, <2>4, <2>5, <2>6, <2>7
<1> QED BY <1>2, <1>3, <1>4, <1>5, <1>6, <1>7, <1>8, <1>9 DEF IInv

LEMMA RestoreRunningKeeps ==
  ASSUME IInv, NEW p \in Attempts, RestoreRunning(p)
  PROVE  IInv'
<1>0. /\ p[1] \in Calls /\ p[2] \in Kinds /\ at[p] = "restore" /\ p[2] = "resolution"
      /\ decision[p[1]] # None /\ decision[p[1]] \in AnyDecision
  BY AttemptParts, DecisionFacts
  DEF IInv, Types, AttemptInv, AttemptOK, RestoreRunning, RequestSteps, ResolutionSteps,
      Still, Kinds
<1>1. /\ runStatus' = RestoredStatus(decision[p[1]])
      /\ at' = [at EXCEPT ![p] = "audit"]
      /\ UNCHANGED <<workflow, abandoned, row, audit, transcript, cards, knew, notified>>
  BY <1>0 DEF RestoreRunning, Goto, AfterWrite, Kinds
<1>2. Types'
  BY <1>0, <1>1, AttemptParts, DecisionFacts
  DEF IInv, Types, workflow, tables, RequestSteps, ResolutionSteps, Stages, Still, Kinds, Key,
      RestoredStatus
<1>3. DecisionInv'
  BY <1>0, <1>1, DecisionFacts
  DEF IInv, Types, workflow, tables, DecisionInv, Undecided, RestoredStatus
<1>4. RowInv'
  BY <1>0, <1>1
  DEF IInv, Types, workflow, tables, RowInv, DecisionInv, Resolved, Undecided, RestoredStatus
<1>5. AnswerInv'
  BY <1>0, <1>1
  DEF IInv, Types, workflow, tables, AnswerInv, DecisionInv, Resolved, Undecided,
      RestoredStatus
<1>6. AttemptInv'
  <2> SUFFICES ASSUME NEW q \in Attempts  PROVE AttemptOK(q)'
    BY DEF AttemptInv
  <2>0. AttemptOK(p) /\ AttemptOK(q)
    BY DEF IInv, AttemptInv
  <2>1. CASE q = p
    BY <2>0, <2>1, <1>0, <1>1, AttemptParts, DecisionFacts
    DEF IInv, Types, workflow, tables, AttemptOK, Resolved, Recorded, Still, ResolutionSteps,
        RequestSteps, Key, Kinds, CardInv, RestoredStatus
  <2>2. CASE q # p
    <3>1. at'[q] = at[q]
      BY <2>2, <1>1, <1>0 DEF IInv, Types, workflow, tables
    <3>2. QED
      BY <2>0, <2>2, <3>1, <1>0, <1>1, AttemptParts, DecisionFacts
      DEF IInv, Types, workflow, tables, AttemptOK, Resolved, Recorded, Still,
          ResolutionSteps, RequestSteps, Key, Kinds, AloneInv, RowInv, DecisionInv, Undecided,
          RestoredStatus
  <2> QED BY <2>1, <2>2
<1>7. AloneInv'
  BY <1>0, <1>1, AttemptParts
  DEF IInv, Types, workflow, tables, AloneInv, AttemptInv, AttemptOK, Key, RestoredStatus
<1>8. CardInv'
  BY <1>0, <1>1, AttemptParts, DecisionFacts
  DEF IInv, Types, workflow, tables, CardInv, DecisionInv, Undecided, Resolved, Recorded,
      Kinds, AttemptInv, AttemptOK, Key, RestoredStatus
<1>9. SmoothInv'
  <2> SUFFICES ASSUME abandoned = {}, abandoned' = {}
               PROVE  OneAttempt' /\ FutureInv' /\ RequestInv' /\ WaitingInv' /\ ResolutionInv' /\ AnsweredInv'
    BY <1>0, <1>1 DEF SmoothInv, workflow
  <2>0. OneAttempt /\ FutureInv /\ RequestInv /\ WaitingInv /\ ResolutionInv /\ AnsweredInv
    BY DEF IInv, SmoothInv
  <2>1. /\ p = <<call, stage, 1>> /\ attempt = 1 /\ p \notin knew /\ Awaited(p)
        /\ call \in Calls /\ stage = p[2] /\ p[1] = call
    BY <1>0, <2>0 DEF OneAttempt, Still, Awaited
  <2>2. OneAttempt'
    BY <1>0, <1>1, <2>0, <2>1, AttemptParts
    DEF IInv, Types, workflow, tables, Kinds, Key, Calls, OneAttempt, Still, RestoredStatus
  <2>3. FutureInv'
    BY <1>0, <1>1, <2>0, <2>1, AttemptParts
    DEF IInv, Types, workflow, tables, Kinds, Key, Calls, FutureInv, Untouched, RestoredStatus
  <2>4. RequestInv'
    BY <1>0, <1>1, <2>0, <2>1, AttemptParts
    DEF IInv, Types, workflow, tables, Kinds, Key, Calls, RequestInv, WaitingInv,
        ResolutionInv, AnsweredInv, FutureInv, Untouched, Settled, Still, CardInv, AttemptInv,
        AttemptOK, RestoredStatus
  <2>5. WaitingInv'
    BY <1>0, <1>1, <2>0, <2>1, AttemptParts
    DEF IInv, Types, workflow, tables, Kinds, Key, Calls, RequestInv, WaitingInv,
        ResolutionInv, AnsweredInv, Untouched, Settled, Still, CardInv, AttemptInv, AttemptOK,
        RestoredStatus
  <2>6. ResolutionInv'
    BY <1>0, <1>1, <2>0, <2>1, AttemptParts
    DEF IInv, Types, workflow, tables, Kinds, Key, Calls, RequestInv, WaitingInv,
        ResolutionInv, AnsweredInv, Untouched, Settled, Still, CardInv, AttemptInv, AttemptOK,
        RestoredStatus
  <2>7. AnsweredInv'
    BY <1>0, <1>1, <2>0, <2>1, AttemptParts
    DEF IInv, Types, workflow, tables, Kinds, Key, Calls, RequestInv, WaitingInv,
        ResolutionInv, AnsweredInv, Untouched, Settled, Still, CardInv, AttemptInv, AttemptOK,
        RestoredStatus
  <2> QED BY <2>2, <2>3, <2>4, <2>5, <2>6, <2>7
<1> QED BY <1>2, <1>3, <1>4, <1>5, <1>6, <1>7, <1>8, <1>9 DEF IInv

LEMMA AppendTranscriptKeeps ==
  ASSUME IInv, NEW p \in Attempts, AppendTranscript(p)
  PROVE  IInv'
<1>0. /\ p[1] \in Calls /\ p[2] \in Kinds /\ at[p] = "transcript"
  BY AttemptParts, DecisionFacts
  DEF IInv, Types, AttemptInv, AttemptOK, AppendTranscript, RequestSteps, ResolutionSteps,
      Still, Kinds
<1>1. /\ transcript' = transcript \cup {Key(p)}
      /\ at' = [at EXCEPT ![p] = "publish"]
      /\ UNCHANGED <<workflow, abandoned, row, audit, cards, runStatus, knew, notified>>
  BY <1>0 DEF AppendTranscript, Goto, AfterWrite, Kinds, Key
<1>2. Types'
  BY <1>0, <1>1, AttemptParts, DecisionFacts
  DEF IInv, Types, workflow, tables, RequestSteps, ResolutionSteps, Stages, Still, Kinds, Key
<1>3. DecisionInv'
  BY <1>0, <1>1, DecisionFacts DEF IInv, Types, workflow, tables, DecisionInv, Undecided
<1>4. RowInv'
  BY <1>0, <1>1 DEF IInv, Types, workflow, tables, RowInv, DecisionInv, Resolved, Undecided
<1>5. AnswerInv'
  BY <1>0, <1>1 DEF IInv, Types, workflow, tables, AnswerInv, DecisionInv, Resolved, Undecided
<1>6. AttemptInv'
  <2> SUFFICES ASSUME NEW q \in Attempts  PROVE AttemptOK(q)'
    BY DEF AttemptInv
  <2>0. AttemptOK(p) /\ AttemptOK(q)
    BY DEF IInv, AttemptInv
  <2>1. CASE q = p
    BY <2>0, <2>1, <1>0, <1>1, AttemptParts, DecisionFacts
    DEF IInv, Types, workflow, tables, AttemptOK, Resolved, Recorded, Still, ResolutionSteps,
        RequestSteps, Key, Kinds, CardInv
  <2>2. CASE q # p
    <3>1. at'[q] = at[q]
      BY <2>2, <1>1, <1>0 DEF IInv, Types, workflow, tables
    <3>2. QED
      BY <2>0, <2>2, <3>1, <1>0, <1>1, AttemptParts, DecisionFacts
      DEF IInv, Types, workflow, tables, AttemptOK, Resolved, Recorded, Still,
          ResolutionSteps, RequestSteps, Key, Kinds, AloneInv, RowInv, DecisionInv, Undecided
  <2> QED BY <2>1, <2>2
<1>7. AloneInv'
  BY <1>0, <1>1, AttemptParts
  DEF IInv, Types, workflow, tables, AloneInv, AttemptInv, AttemptOK, Key
<1>8. CardInv'
  BY <1>0, <1>1, AttemptParts, DecisionFacts
  DEF IInv, Types, workflow, tables, CardInv, DecisionInv, Undecided, Resolved, Recorded,
      Kinds, AttemptInv, AttemptOK, Key
<1>9. SmoothInv'
  <2> SUFFICES ASSUME abandoned = {}, abandoned' = {}
               PROVE  OneAttempt' /\ FutureInv' /\ RequestInv' /\ WaitingInv' /\ ResolutionInv' /\ AnsweredInv'
    BY <1>0, <1>1 DEF SmoothInv, workflow
  <2>0. OneAttempt /\ FutureInv /\ RequestInv /\ WaitingInv /\ ResolutionInv /\ AnsweredInv
    BY DEF IInv, SmoothInv
  <2>1. /\ p = <<call, stage, 1>> /\ attempt = 1 /\ p \notin knew /\ Awaited(p)
        /\ call \in Calls /\ stage = p[2] /\ p[1] = call
    BY <1>0, <2>0 DEF OneAttempt, Still, Awaited
  <2>2. OneAttempt'
    BY <1>0, <1>1, <2>0, <2>1, AttemptParts
    DEF IInv, Types, workflow, tables, Kinds, Key, Calls, OneAttempt, Still
  <2>3. FutureInv'
    BY <1>0, <1>1, <2>0, <2>1, AttemptParts
    DEF IInv, Types, workflow, tables, Kinds, Key, Calls, FutureInv, Untouched
  <2>4. RequestInv'
    BY <1>0, <1>1, <2>0, <2>1, AttemptParts
    DEF IInv, Types, workflow, tables, Kinds, Key, Calls, RequestInv, WaitingInv,
        ResolutionInv, AnsweredInv, FutureInv, Untouched, Settled, Still, CardInv, AttemptInv,
        AttemptOK
  <2>5. WaitingInv'
    BY <1>0, <1>1, <2>0, <2>1, AttemptParts
    DEF IInv, Types, workflow, tables, Kinds, Key, Calls, RequestInv, WaitingInv,
        ResolutionInv, AnsweredInv, Untouched, Settled, Still, CardInv, AttemptInv, AttemptOK
  <2>6. ResolutionInv'
    BY <1>0, <1>1, <2>0, <2>1, AttemptParts
    DEF IInv, Types, workflow, tables, Kinds, Key, Calls, RequestInv, WaitingInv,
        ResolutionInv, AnsweredInv, Untouched, Settled, Still, CardInv, AttemptInv, AttemptOK
  <2>7. AnsweredInv'
    BY <1>0, <1>1, <2>0, <2>1, AttemptParts
    DEF IInv, Types, workflow, tables, Kinds, Key, Calls, RequestInv, WaitingInv,
        ResolutionInv, AnsweredInv, Untouched, Settled, Still, CardInv, AttemptInv, AttemptOK
  <2> QED BY <2>2, <2>3, <2>4, <2>5, <2>6, <2>7
<1> QED BY <1>2, <1>3, <1>4, <1>5, <1>6, <1>7, <1>8, <1>9 DEF IInv

LEMMA PublishCardKeeps ==
  ASSUME IInv, NEW p \in Attempts, PublishCard(p)
  PROVE  IInv'
<1>0. /\ p[1] \in Calls /\ p[2] \in Kinds /\ at[p] = "publish"
  BY AttemptParts, DecisionFacts
  DEF IInv, Types, AttemptInv, AttemptOK, PublishCard, RequestSteps, ResolutionSteps, Still,
      Kinds
<1>1. /\ cards' = [cards EXCEPT ![Key(p)] = @ + 1]
      /\ at' = [at EXCEPT ![p] = IF p[2] = "request" THEN "status" ELSE "answer"]
      /\ UNCHANGED <<workflow, abandoned, row, audit, transcript, runStatus, knew, notified>>
  BY <1>0 DEF PublishCard, Goto, AfterWrite, Kinds, Key
<1>2. Types'
  BY <1>0, <1>1, AttemptParts, DecisionFacts
  DEF IInv, Types, workflow, tables, RequestSteps, ResolutionSteps, Stages, Still, Kinds, Key
<1>3. DecisionInv'
  BY <1>0, <1>1, DecisionFacts DEF IInv, Types, workflow, tables, DecisionInv, Undecided
<1>4. RowInv'
  BY <1>0, <1>1 DEF IInv, Types, workflow, tables, RowInv, DecisionInv, Resolved, Undecided
<1>5. AnswerInv'
  BY <1>0, <1>1 DEF IInv, Types, workflow, tables, AnswerInv, DecisionInv, Resolved, Undecided
<1>6. AttemptInv'
  <2> SUFFICES ASSUME NEW q \in Attempts  PROVE AttemptOK(q)'
    BY DEF AttemptInv
  <2>0. AttemptOK(p) /\ AttemptOK(q)
    BY DEF IInv, AttemptInv
  <2>1. CASE q = p
    BY <2>0, <2>1, <1>0, <1>1, AttemptParts, DecisionFacts
    DEF IInv, Types, workflow, tables, AttemptOK, Resolved, Recorded, Still, ResolutionSteps,
        RequestSteps, Key, Kinds, CardInv
  <2>2. CASE q # p
    <3>1. at'[q] = at[q]
      BY <2>2, <1>1, <1>0 DEF IInv, Types, workflow, tables
    <3>2. QED
      BY <2>0, <2>2, <3>1, <1>0, <1>1, AttemptParts, DecisionFacts
      DEF IInv, Types, workflow, tables, AttemptOK, Resolved, Recorded, Still,
          ResolutionSteps, RequestSteps, Key, Kinds, AloneInv, RowInv, DecisionInv, Undecided
  <2> QED BY <2>1, <2>2
<1>7. AloneInv'
  BY <1>0, <1>1, AttemptParts
  DEF IInv, Types, workflow, tables, AloneInv, AttemptInv, AttemptOK, Key
<1>8. CardInv'
  <2> SUFFICES ASSUME NEW n \in Calls, NEW kind \in Kinds
               PROVE  /\ cards'[<<n, kind>>] <= 1
                      /\ cards'[<<n, kind>>] > 0 =>
                           /\ <<n, kind>> \in audit \cap transcript
                           /\ Recorded(n) /\ (kind = "resolution" => Resolved(n))
    BY <1>1 DEF CardInv, workflow, Recorded, Resolved
  <2>1. AttemptOK(p) /\ Key(p) \in Calls \X Kinds /\ cards[Key(p)] = 0
    BY <1>0, AttemptParts DEF IInv, AttemptInv, AttemptOK
  <2>2. CASE <<n, kind>> = Key(p)
    BY <1>0, <1>1, <2>1, <2>2 DEF IInv, Types, AttemptOK, Key, ResolutionSteps
  <2>3. CASE <<n, kind>> # Key(p)
    BY <1>1, <2>1, <2>3 DEF IInv, Types, CardInv
  <2> QED BY <2>2, <2>3
<1>9. SmoothInv'
  <2> SUFFICES ASSUME abandoned = {}, abandoned' = {}
               PROVE  OneAttempt' /\ FutureInv' /\ RequestInv' /\ WaitingInv' /\ ResolutionInv' /\ AnsweredInv'
    BY <1>0, <1>1 DEF SmoothInv, workflow
  <2>0. OneAttempt /\ FutureInv /\ RequestInv /\ WaitingInv /\ ResolutionInv /\ AnsweredInv
    BY DEF IInv, SmoothInv
  <2>1. /\ p = <<call, stage, 1>> /\ attempt = 1 /\ p \notin knew /\ Awaited(p)
        /\ call \in Calls /\ stage = p[2] /\ p[1] = call
    BY <1>0, <2>0 DEF OneAttempt, Still, Awaited
  <2>2. OneAttempt'
    BY <1>0, <1>1, <2>0, <2>1, AttemptParts
    DEF IInv, Types, workflow, tables, Kinds, Key, Calls, OneAttempt, Still
  <2>3. FutureInv'
    BY <1>0, <1>1, <2>0, <2>1 DEF IInv, Types, workflow, FutureInv, Untouched, Calls, Key, Kinds
  <2>4. RequestInv'
    BY <1>0, <1>1, <2>0, <2>1, AttemptParts
    DEF IInv, Types, workflow, tables, Kinds, Key, Calls, RequestInv, WaitingInv,
        ResolutionInv, AnsweredInv, FutureInv, Untouched, Settled, Still, CardInv, AttemptInv,
        AttemptOK
  <2>5. WaitingInv'
    BY <1>0, <1>1, <2>0, <2>1, AttemptParts
    DEF IInv, Types, workflow, tables, Kinds, Key, Calls, RequestInv, WaitingInv,
        ResolutionInv, AnsweredInv, Untouched, Settled, Still, CardInv, AttemptInv, AttemptOK
  <2>6. ResolutionInv'
    BY <1>0, <1>1, <2>0, <2>1, AttemptParts
    DEF IInv, Types, workflow, tables, Kinds, Key, Calls, RequestInv, WaitingInv,
        ResolutionInv, AnsweredInv, Untouched, Settled, Still, CardInv, AttemptInv, AttemptOK
  <2>7. AnsweredInv'
    BY <1>0, <1>1, <2>0, <2>1, AttemptParts
    DEF IInv, Types, workflow, tables, Kinds, Key, Calls, RequestInv, WaitingInv,
        ResolutionInv, AnsweredInv, Untouched, Settled, Still, CardInv, AttemptInv, AttemptOK
  <2> QED BY <2>2, <2>3, <2>4, <2>5, <2>6, <2>7
<1> QED BY <1>2, <1>3, <1>4, <1>5, <1>6, <1>7, <1>8, <1>9 DEF IInv

LEMMA MoveToWaitingKeeps ==
  ASSUME IInv, NEW p \in Attempts, MoveToWaiting(p)
  PROVE  IInv'
<1>0. /\ p[1] \in Calls /\ p[2] \in Kinds /\ at[p] = "status" /\ p[2] = "request"
  BY AttemptParts, DecisionFacts
  DEF IInv, Types, AttemptInv, AttemptOK, MoveToWaiting, RequestSteps, ResolutionSteps, Still,
      Kinds
<1>1. /\ runStatus' = "waiting_approval"
      /\ at' = [at EXCEPT ![p] = "notify"]
      /\ UNCHANGED <<workflow, abandoned, row, audit, transcript, cards, knew, notified>>
  BY <1>0 DEF MoveToWaiting, Goto, AfterWrite, Kinds
<1>2. Types'
  BY <1>0, <1>1, AttemptParts, DecisionFacts
  DEF IInv, Types, workflow, tables, RequestSteps, ResolutionSteps, Stages, Still, Kinds, Key
<1>3. DecisionInv'
  BY <1>0, <1>1, DecisionFacts DEF IInv, Types, workflow, tables, DecisionInv, Undecided
<1>4. RowInv'
  BY <1>0, <1>1 DEF IInv, Types, workflow, tables, RowInv, DecisionInv, Resolved, Undecided
<1>5. AnswerInv'
  BY <1>0, <1>1 DEF IInv, Types, workflow, tables, AnswerInv, DecisionInv, Resolved, Undecided
<1>6. AttemptInv'
  <2> SUFFICES ASSUME NEW q \in Attempts  PROVE AttemptOK(q)'
    BY DEF AttemptInv
  <2>0. AttemptOK(p) /\ AttemptOK(q)
    BY DEF IInv, AttemptInv
  <2>1. CASE q = p
    BY <2>0, <2>1, <1>0, <1>1, AttemptParts, DecisionFacts
    DEF IInv, Types, workflow, tables, AttemptOK, Resolved, Recorded, Still, ResolutionSteps,
        RequestSteps, Key, Kinds, CardInv
  <2>2. CASE q # p
    <3>1. at'[q] = at[q]
      BY <2>2, <1>1, <1>0 DEF IInv, Types, workflow, tables
    <3>2. QED
      BY <2>0, <2>2, <3>1, <1>0, <1>1, AttemptParts, DecisionFacts
      DEF IInv, Types, workflow, tables, AttemptOK, Resolved, Recorded, Still,
          ResolutionSteps, RequestSteps, Key, Kinds, AloneInv, RowInv, DecisionInv, Undecided
  <2> QED BY <2>1, <2>2
<1>7. AloneInv'
  BY <1>0, <1>1, AttemptParts
  DEF IInv, Types, workflow, tables, AloneInv, AttemptInv, AttemptOK, Key
<1>8. CardInv'
  BY <1>0, <1>1, AttemptParts, DecisionFacts
  DEF IInv, Types, workflow, tables, CardInv, DecisionInv, Undecided, Resolved, Recorded,
      Kinds, AttemptInv, AttemptOK, Key
<1>9. SmoothInv'
  <2> SUFFICES ASSUME abandoned = {}, abandoned' = {}
               PROVE  OneAttempt' /\ FutureInv' /\ RequestInv' /\ WaitingInv' /\ ResolutionInv' /\ AnsweredInv'
    BY <1>0, <1>1 DEF SmoothInv, workflow
  <2>0. OneAttempt /\ FutureInv /\ RequestInv /\ WaitingInv /\ ResolutionInv /\ AnsweredInv
    BY DEF IInv, SmoothInv
  <2>1. /\ p = <<call, stage, 1>> /\ attempt = 1 /\ p \notin knew /\ Awaited(p)
        /\ call \in Calls /\ stage = p[2] /\ p[1] = call
    BY <1>0, <2>0 DEF OneAttempt, Still, Awaited
  <2>2. OneAttempt'
    BY <1>0, <1>1, <2>0, <2>1, AttemptParts
    DEF IInv, Types, workflow, tables, Kinds, Key, Calls, OneAttempt, Still
  <2>3. FutureInv'
    BY <1>0, <1>1, <2>0, <2>1, AttemptParts
    DEF IInv, Types, workflow, tables, Kinds, Key, Calls, FutureInv, Untouched
  <2>4. RequestInv'
    BY <1>0, <1>1, <2>0, <2>1, AttemptParts
    DEF IInv, Types, workflow, tables, Kinds, Key, Calls, RequestInv, WaitingInv,
        ResolutionInv, AnsweredInv, FutureInv, Untouched, Settled, Still, CardInv, AttemptInv,
        AttemptOK
  <2>5. WaitingInv'
    BY <1>0, <1>1, <2>0, <2>1, AttemptParts
    DEF IInv, Types, workflow, tables, Kinds, Key, Calls, RequestInv, WaitingInv,
        ResolutionInv, AnsweredInv, Untouched, Settled, Still, CardInv, AttemptInv, AttemptOK
  <2>6. ResolutionInv'
    BY <1>0, <1>1, <2>0, <2>1, AttemptParts
    DEF IInv, Types, workflow, tables, Kinds, Key, Calls, RequestInv, WaitingInv,
        ResolutionInv, AnsweredInv, Untouched, Settled, Still, CardInv, AttemptInv, AttemptOK
  <2>7. AnsweredInv'
    BY <1>0, <1>1, <2>0, <2>1, AttemptParts
    DEF IInv, Types, workflow, tables, Kinds, Key, Calls, RequestInv, WaitingInv,
        ResolutionInv, AnsweredInv, Untouched, Settled, Still, CardInv, AttemptInv, AttemptOK
  <2> QED BY <2>2, <2>3, <2>4, <2>5, <2>6, <2>7
<1> QED BY <1>2, <1>3, <1>4, <1>5, <1>6, <1>7, <1>8, <1>9 DEF IInv

LEMMA NotifyKeeps ==
  ASSUME IInv, NEW p \in Attempts, Notify(p)
  PROVE  IInv'
<1>0. /\ p[1] \in Calls /\ p[2] \in Kinds /\ at[p] = "notify" /\ p[2] = "request"
  BY AttemptParts, DecisionFacts
  DEF IInv, Types, AttemptInv, AttemptOK, Notify, RequestSteps, ResolutionSteps, Still, Kinds
<1>1. /\ notified' = IF p \in knew THEN notified ELSE [notified EXCEPT ![p[1]] = @ + 1]
      /\ at' = [at EXCEPT ![p] = "gone"]
      /\ stage' = IF Awaited(p) THEN "waiting" ELSE stage
      /\ UNCHANGED <<call, attempt, decision, answer, tables, knew, abandoned>>
  BY <1>0 DEF Notify, Goto, AfterWrite, Kinds
<1>2. Types'
  BY <1>0, <1>1, AttemptParts, DecisionFacts
  DEF IInv, Types, workflow, tables, RequestSteps, ResolutionSteps, Stages, Still, Kinds, Key,
      Awaited
<1>3. DecisionInv'
  BY <1>0, <1>1, DecisionFacts DEF IInv, Types, workflow, tables, DecisionInv, Undecided, Awaited
<1>4. RowInv'
  BY <1>0, <1>1
  DEF IInv, Types, workflow, tables, RowInv, DecisionInv, Resolved, Undecided, Awaited
<1>5. AnswerInv'
  BY <1>0, <1>1
  DEF IInv, Types, workflow, tables, AnswerInv, DecisionInv, Resolved, Undecided, Awaited
<1>6. AttemptInv'
  <2> SUFFICES ASSUME NEW q \in Attempts  PROVE AttemptOK(q)'
    BY DEF AttemptInv
  <2>0. AttemptOK(p) /\ AttemptOK(q)
    BY DEF IInv, AttemptInv
  <2>1. CASE q = p
    BY <2>0, <2>1, <1>0, <1>1, AttemptParts, DecisionFacts
    DEF IInv, Types, workflow, tables, AttemptOK, Resolved, Recorded, Still, ResolutionSteps,
        RequestSteps, Key, Kinds, CardInv, Awaited
  <2>2. CASE q # p
    <3>1. at'[q] = at[q]
      BY <2>2, <1>1, <1>0 DEF IInv, Types, workflow, tables
    <3>2. QED
      BY <2>0, <2>2, <3>1, <1>0, <1>1, AttemptParts, DecisionFacts
      DEF IInv, Types, workflow, tables, AttemptOK, Resolved, Recorded, Still,
          ResolutionSteps, RequestSteps, Key, Kinds, AloneInv, RowInv, DecisionInv, Undecided,
          Awaited
  <2> QED BY <2>1, <2>2
<1>7. AloneInv'
  BY <1>0, <1>1, AttemptParts
  DEF IInv, Types, workflow, tables, AloneInv, AttemptInv, AttemptOK, Key, Awaited
<1>8. CardInv'
  BY <1>0, <1>1, AttemptParts, DecisionFacts
  DEF IInv, Types, workflow, tables, CardInv, DecisionInv, Undecided, Resolved, Recorded,
      Kinds, AttemptInv, AttemptOK, Key, Awaited
<1>9. SmoothInv'
  <2> SUFFICES ASSUME abandoned = {}, abandoned' = {}
               PROVE  OneAttempt' /\ FutureInv' /\ RequestInv' /\ WaitingInv' /\ ResolutionInv' /\ AnsweredInv'
    BY <1>0, <1>1 DEF SmoothInv, workflow
  <2>0. OneAttempt /\ FutureInv /\ RequestInv /\ WaitingInv /\ ResolutionInv /\ AnsweredInv
    BY DEF IInv, SmoothInv
  <2>1. /\ p = <<call, stage, 1>> /\ attempt = 1 /\ p \notin knew /\ Awaited(p)
        /\ call \in Calls /\ stage = p[2] /\ p[1] = call
    BY <1>0, <2>0 DEF OneAttempt, Still, Awaited
  <2>2. OneAttempt'
    BY <1>0, <1>1, <2>0, <2>1, AttemptParts
    DEF IInv, Types, workflow, tables, Kinds, Key, Calls, OneAttempt, Still, Awaited
  <2>3. FutureInv'
    BY <1>0, <1>1, <2>0, <2>1 DEF IInv, Types, tables, FutureInv, Untouched, Calls
  <2>4. RequestInv'
    BY <1>0, <1>1, <2>0, <2>1, AttemptParts
    DEF IInv, Types, workflow, tables, Kinds, Key, Calls, RequestInv, WaitingInv,
        ResolutionInv, AnsweredInv, FutureInv, Untouched, Settled, Still, CardInv, AttemptInv,
        AttemptOK, Awaited
  <2>5. WaitingInv'
    BY <1>0, <1>1, <2>0, <2>1 DEF IInv, Types, tables, WaitingInv, RequestInv, Settled, Untouched
  <2>6. ResolutionInv'
    BY <1>0, <1>1, <2>0, <2>1, AttemptParts
    DEF IInv, Types, workflow, tables, Kinds, Key, Calls, RequestInv, WaitingInv,
        ResolutionInv, AnsweredInv, Untouched, Settled, Still, CardInv, AttemptInv, AttemptOK,
        Awaited
  <2>7. AnsweredInv'
    BY <1>0, <1>1, <2>0, <2>1, AttemptParts
    DEF IInv, Types, workflow, tables, Kinds, Key, Calls, RequestInv, WaitingInv,
        ResolutionInv, AnsweredInv, Untouched, Settled, Still, CardInv, AttemptInv, AttemptOK,
        Awaited
  <2> QED BY <2>2, <2>3, <2>4, <2>5, <2>6, <2>7
<1> QED BY <1>2, <1>3, <1>4, <1>5, <1>6, <1>7, <1>8, <1>9 DEF IInv

(* An attempt that is given up, or that throws, leaves behind what it wrote. *)
LEMMA GiveUpKeeps ==
  ASSUME IInv, NEW p \in Attempts, NEW last \in {at[p], "gone"}, Awaited(p),
         GiveUp(p, last), UNCHANGED <<row, audit, transcript, cards, knew, notified>>
  PROVE  IInv'
<1>0. /\ p[1] = call /\ p[2] = stage /\ p[3] = attempt /\ p[1] \in Calls /\ p[2] \in Kinds
      /\ attempt \in 1..MaxAttempts /\ MaxAttempts \in Nat /\ p = <<call, stage, attempt>>
  BY AttemptParts, ApprovalsAssumption DEF Awaited, IInv, Types
<1>1. /\ abandoned' = abandoned \cup {call}
      /\ \/ /\ attempt < MaxAttempts /\ attempt' = attempt + 1
            /\ at' = [[at EXCEPT ![<<call, stage, attempt + 1>>] =
                                   IF stage = "request" THEN "known" ELSE "read"] EXCEPT ![p] = last]
            /\ <<call, stage, attempt + 1>> \in Attempts
            /\ UNCHANGED <<stage, runStatus>>
         \/ /\ stage' = "ended" /\ runStatus' = "failed"
            /\ at' = [at EXCEPT ![p] = last]
            /\ UNCHANGED attempt
      /\ UNCHANGED <<call, decision, answer, row, audit, transcript, cards, knew, notified>>
  <2>1. CASE AttemptLeft
    <3>1. <<call, stage, attempt + 1>> \in Attempts /\ attempt < MaxAttempts
      BY <1>0, <2>1, AttemptParts DEF AttemptLeft
    <3>2. /\ attempt' = attempt + 1 /\ UNCHANGED <<stage, runStatus>>
          /\ at' = [Start(p[1], p[2], attempt + 1) EXCEPT ![p] = last]
      BY <2>1 DEF GiveUp
    <3> QED BY <1>0, <3>1, <3>2 DEF GiveUp, Start
  <2>2. CASE ~AttemptLeft
    BY <1>0, <2>2 DEF GiveUp
  <2> QED BY <2>1, <2>2
<1>2. Types'
  <2>1. at' \in [Attempts -> RequestSteps \cup ResolutionSteps \cup Still]
    BY <1>0, <1>1 DEF IInv, Types, RequestSteps, ResolutionSteps, Still
  <2>2. stage' \in Stages /\ attempt' \in 1..MaxAttempts /\ abandoned' \subseteq Calls
    BY <1>0, <1>1 DEF IInv, Types, Stages
  <2> QED BY <1>0, <1>1, <2>1, <2>2 DEF IInv, Types
<1>3. DecisionInv'
  BY <1>0, <1>1, DecisionFacts DEF IInv, Types, workflow, tables, DecisionInv, Undecided
<1>4. RowInv'
  BY <1>0, <1>1 DEF IInv, Types, workflow, tables, RowInv, DecisionInv, Resolved, Undecided
<1>5. AnswerInv'
  BY <1>0, <1>1 DEF IInv, Types, workflow, tables, AnswerInv, DecisionInv, Resolved, Undecided
<1>6. AttemptInv'
  <2> SUFFICES ASSUME NEW q \in Attempts  PROVE AttemptOK(q)'
    BY DEF AttemptInv
  <2>0. AttemptOK(q) /\ AttemptOK(p)
    BY DEF IInv, AttemptInv
  <2>1. at'[q] \in {at[q], "gone"} \/ (at'[q] = "known" /\ q[2] = "request")
          \/ (at'[q] = "read" /\ q[2] = "resolution" /\ decision[q[1]] # None)
    BY <1>0, <1>1 DEF IInv, Types, DecisionInv, Kinds
  <2> QED
    BY <2>0, <2>1, <1>1, AttemptParts
    DEF AttemptOK, Resolved, Recorded, Key, Still, RequestSteps, ResolutionSteps
<1>7. AloneInv'
  <2>1. \A q \in Attempts : at'[q] \in {at[q], "gone", "known", "read"}
    BY <1>0, <1>1 DEF IInv, Types
  <2> QED BY <2>1 DEF IInv, AloneInv
<1>8. CardInv'
  BY <1>0, <1>1, AttemptParts, DecisionFacts
  DEF IInv, Types, workflow, tables, CardInv, DecisionInv, Undecided, Resolved, Recorded,
      Kinds, AttemptInv, AttemptOK, Key
<1>9. SmoothInv'
  BY <1>1 DEF SmoothInv
<1> QED BY <1>2, <1>3, <1>4, <1>5, <1>6, <1>7, <1>8, <1>9 DEF IInv

LEMMA DropKeeps ==
  ASSUME IInv, NEW p \in Attempts, ~Awaited(p), at[p] \notin Still, at' = [at EXCEPT ![p] = "gone"],
         UNCHANGED <<workflow, tables, abandoned, knew, notified>>
  PROVE  IInv'
<1>0. at[p] \notin Still /\ ~Awaited(p)
  OBVIOUS
<1>1. at' = [at EXCEPT ![p] = "gone"] /\ UNCHANGED <<workflow, tables, abandoned, knew, notified>>
  OBVIOUS
<1>2. Types'
  BY <1>0, <1>1, AttemptParts, DecisionFacts
  DEF IInv, Types, workflow, tables, RequestSteps, ResolutionSteps, Stages, Still, Kinds, Key
<1>3. DecisionInv'
  BY <1>0, <1>1, DecisionFacts DEF IInv, Types, workflow, tables, DecisionInv, Undecided
<1>4. RowInv'
  BY <1>0, <1>1 DEF IInv, Types, workflow, tables, RowInv, DecisionInv, Resolved, Undecided
<1>5. AnswerInv'
  BY <1>0, <1>1 DEF IInv, Types, workflow, tables, AnswerInv, DecisionInv, Resolved, Undecided
<1>6. AttemptInv'
  <2> SUFFICES ASSUME NEW q \in Attempts  PROVE AttemptOK(q)'
    BY DEF AttemptInv
  <2>0. AttemptOK(p) /\ AttemptOK(q)
    BY DEF IInv, AttemptInv
  <2>1. CASE q = p
    BY <2>0, <2>1, <1>0, <1>1, AttemptParts, DecisionFacts
    DEF IInv, Types, workflow, tables, AttemptOK, Resolved, Recorded, Still, ResolutionSteps,
        RequestSteps, Key, Kinds, CardInv
  <2>2. CASE q # p
    <3>1. at'[q] = at[q]
      BY <2>2, <1>1, <1>0 DEF IInv, Types, workflow, tables
    <3>2. QED
      BY <2>0, <2>2, <3>1, <1>0, <1>1, AttemptParts, DecisionFacts
      DEF IInv, Types, workflow, tables, AttemptOK, Resolved, Recorded, Still,
          ResolutionSteps, RequestSteps, Key, Kinds, AloneInv, RowInv, DecisionInv, Undecided
  <2> QED BY <2>1, <2>2
<1>7. AloneInv'
  BY <1>0, <1>1, AttemptParts
  DEF IInv, Types, workflow, tables, AloneInv, AttemptInv, AttemptOK, Key
<1>8. CardInv'
  BY <1>0, <1>1, AttemptParts, DecisionFacts
  DEF IInv, Types, workflow, tables, CardInv, DecisionInv, Undecided, Resolved, Recorded,
      Kinds, AttemptInv, AttemptOK, Key
<1>9. SmoothInv'
  <2>1. abandoned # {}
    BY <1>0, AttemptParts DEF IInv, Types, SmoothInv, OneAttempt, Awaited, Still
  <2> QED BY <1>1, <2>1 DEF SmoothInv, workflow
<1> QED BY <1>2, <1>3, <1>4, <1>5, <1>6, <1>7, <1>8, <1>9 DEF IInv

LEMMA ThrowKeeps ==
  ASSUME IInv, NEW p \in Attempts, at[p] \notin Still, Throw(p)
  PROVE  IInv'
<1>1. CASE Awaited(p)
  BY <1>1, GiveUpKeeps DEF Throw
<1>2. CASE ~Awaited(p)
  BY <1>2, DropKeeps DEF Throw, tables
<1> QED BY <1>1, <1>2

LEMMA AbandonKeeps ==
  ASSUME IInv, NEW p \in Attempts, Abandon(p)
  PROVE  IInv'
BY GiveUpKeeps DEF Abandon

(* The row is inserted once, any other insert throws. *)
LEMMA InsertRowKeeps ==
  ASSUME IInv, NEW p \in Attempts, ~Taken(p[1]), InsertRequest(p)
  PROVE  IInv'
<1>0. /\ p[1] \in Calls /\ p[2] \in Kinds /\ at[p] = "insert" /\ p[2] = "request" /\ row[p[1]] = NoRow
  BY AttemptParts, DecisionFacts
  DEF IInv, Types, AttemptInv, AttemptOK, InsertRequest, Taken, Recorded, RequestSteps,
      ResolutionSteps, Still, Kinds
<1>1. /\ row' = [row EXCEPT ![p[1]] = Asked]
      /\ at' = [at EXCEPT ![p] = "audit"]
      /\ UNCHANGED <<workflow, abandoned, audit, transcript, cards, runStatus, knew, notified>>
  BY <1>0 DEF InsertRequest, Taken, Recorded, Goto, AfterWrite, Kinds, Asked
<1>2. Types'
  BY <1>0, <1>1, AttemptParts, DecisionFacts
  DEF IInv, Types, workflow, tables, RequestSteps, ResolutionSteps, Stages, Still, Kinds, Key
<1>3. DecisionInv'
  BY <1>0, <1>1, DecisionFacts DEF IInv, Types, workflow, tables, DecisionInv, Undecided
<1>4. RowInv'
  BY <1>0, <1>1 DEF IInv, Types, workflow, tables, RowInv, DecisionInv, Resolved, Undecided
<1>5. AnswerInv'
  BY <1>0, <1>1, DecisionFacts
  DEF IInv, Types, workflow, tables, AnswerInv, DecisionInv, Resolved, Undecided
<1>6. AttemptInv'
  <2> SUFFICES ASSUME NEW q \in Attempts  PROVE AttemptOK(q)'
    BY DEF AttemptInv
  <2>0. AttemptOK(p) /\ AttemptOK(q)
    BY DEF IInv, AttemptInv
  <2>1. CASE q = p
    BY <2>0, <2>1, <1>0, <1>1, AttemptParts, DecisionFacts
    DEF IInv, Types, workflow, tables, AttemptOK, Resolved, Recorded, Still, ResolutionSteps,
        RequestSteps, Key, Kinds, Asked, NoRow
  <2>2. CASE q # p
    <3>1. at'[q] = at[q]
      BY <2>2, <1>1, <1>0 DEF IInv, Types, workflow, tables
    <3>2. QED
      BY <2>0, <2>2, <3>1, <1>0, <1>1, AttemptParts, DecisionFacts
      DEF IInv, Types, workflow, tables, AttemptOK, Resolved, Recorded, Still,
          ResolutionSteps, RequestSteps, Key, Kinds, AloneInv, RowInv, DecisionInv, Undecided
  <2> QED BY <2>1, <2>2
<1>7. AloneInv'
  BY <1>0, <1>1, AttemptParts
  DEF IInv, Types, workflow, tables, AloneInv, AttemptInv, AttemptOK, Key
<1>8. CardInv'
  BY <1>0, <1>1, AttemptParts, DecisionFacts
  DEF IInv, Types, workflow, tables, CardInv, DecisionInv, Undecided, Resolved, Recorded,
      Kinds, AttemptInv, AttemptOK, Key
<1>9. SmoothInv'
  <2> SUFFICES ASSUME abandoned = {}, abandoned' = {}
               PROVE  OneAttempt' /\ FutureInv' /\ RequestInv' /\ WaitingInv' /\ ResolutionInv' /\ AnsweredInv'
    BY <1>0, <1>1 DEF SmoothInv, workflow
  <2>0. OneAttempt /\ FutureInv /\ RequestInv /\ WaitingInv /\ ResolutionInv /\ AnsweredInv
    BY DEF IInv, SmoothInv
  <2>1. /\ p = <<call, stage, 1>> /\ attempt = 1 /\ p \notin knew /\ Awaited(p)
        /\ call \in Calls /\ stage = p[2] /\ p[1] = call
    BY <1>0, <2>0 DEF OneAttempt, Still, Awaited
  <2>2. OneAttempt'
    BY <1>0, <1>1, <2>0, <2>1, AttemptParts
    DEF IInv, Types, workflow, tables, Kinds, Key, Calls, OneAttempt, Still
  <2>3. FutureInv'
    BY <1>0, <1>1, <2>0, <2>1 DEF IInv, Types, workflow, FutureInv, Untouched, Calls
  <2>4. RequestInv'
    BY <1>0, <1>1, <2>0, <2>1, AttemptParts
    DEF IInv, Types, workflow, tables, Kinds, Key, Calls, RequestInv, WaitingInv,
        ResolutionInv, AnsweredInv, FutureInv, Untouched, Settled, Still, CardInv, AttemptInv,
        AttemptOK
  <2>5. WaitingInv'
    BY <1>0, <1>1, <2>0, <2>1, AttemptParts
    DEF IInv, Types, workflow, tables, Kinds, Key, Calls, RequestInv, WaitingInv,
        ResolutionInv, AnsweredInv, Untouched, Settled, Still, CardInv, AttemptInv, AttemptOK
  <2>6. ResolutionInv'
    BY <1>0, <1>1, <2>0, <2>1, AttemptParts
    DEF IInv, Types, workflow, tables, Kinds, Key, Calls, RequestInv, WaitingInv,
        ResolutionInv, AnsweredInv, Untouched, Settled, Still, CardInv, AttemptInv, AttemptOK
  <2>7. AnsweredInv'
    BY <1>0, <1>1, <2>0, <2>1, AttemptParts
    DEF IInv, Types, workflow, tables, Kinds, Key, Calls, RequestInv, WaitingInv,
        ResolutionInv, AnsweredInv, Untouched, Settled, Still, CardInv, AttemptInv, AttemptOK
  <2> QED BY <2>2, <2>3, <2>4, <2>5, <2>6, <2>7
<1> QED BY <1>2, <1>3, <1>4, <1>5, <1>6, <1>7, <1>8, <1>9 DEF IInv

LEMMA InsertRequestKeeps ==
  ASSUME IInv, NEW p \in Attempts, InsertRequest(p)
  PROVE  IInv'
<1>1. CASE Taken(p[1])
  BY <1>1, ThrowKeeps DEF InsertRequest, Still
<1>2. CASE ~Taken(p[1])
  BY <1>2, InsertRowKeeps
<1> QED BY <1>1, <1>2

(* So is the audit event. *)
LEMMA NewAuditKeeps ==
  ASSUME IInv, NEW p \in Attempts, ~Audited(p), InsertAudit(p)
  PROVE  IInv'
<1>0. /\ p[1] \in Calls /\ p[2] \in Kinds /\ at[p] = "audit" /\ Key(p) \notin audit
  BY AttemptParts, DecisionFacts
  DEF IInv, Types, AttemptInv, AttemptOK, InsertAudit, Audited, Key, RequestSteps,
      ResolutionSteps, Still, Kinds
<1>1. /\ audit' = audit \cup {Key(p)}
      /\ at' = [at EXCEPT ![p] = "transcript"]
      /\ UNCHANGED <<workflow, abandoned, row, transcript, cards, runStatus, knew, notified>>
  BY <1>0 DEF InsertAudit, Goto, AfterWrite, Kinds, Key, Audited
<1>2. Types'
  BY <1>0, <1>1, AttemptParts, DecisionFacts
  DEF IInv, Types, workflow, tables, RequestSteps, ResolutionSteps, Stages, Still, Kinds, Key
<1>3. DecisionInv'
  BY <1>0, <1>1, DecisionFacts DEF IInv, Types, workflow, tables, DecisionInv, Undecided
<1>4. RowInv'
  BY <1>0, <1>1 DEF IInv, Types, workflow, tables, RowInv, DecisionInv, Resolved, Undecided
<1>5. AnswerInv'
  BY <1>0, <1>1 DEF IInv, Types, workflow, tables, AnswerInv, DecisionInv, Resolved, Undecided
<1>6. AttemptInv'
  <2> SUFFICES ASSUME NEW q \in Attempts  PROVE AttemptOK(q)'
    BY DEF AttemptInv
  <2>0. AttemptOK(p) /\ AttemptOK(q)
    BY DEF IInv, AttemptInv
  <2>1. CASE q = p
    <3>1. cards[Key(p)] = 0 /\ Key(p) \in Calls \X Kinds
      BY <1>0, AttemptParts DEF IInv, Types, CardInv, Key
    <3> QED BY <2>0, <2>1, <3>1, <1>0, <1>1
            DEF IInv, Types, workflow, AttemptOK, Resolved, Recorded, Still, ResolutionSteps,
                RequestSteps, Key
  <2>2. CASE q # p
    <3>1. at'[q] = at[q]
      BY <2>2, <1>1, <1>0 DEF IInv, Types, workflow, tables
    <3>2. QED
      BY <2>0, <2>2, <3>1, <1>0, <1>1, AttemptParts, DecisionFacts
      DEF IInv, Types, workflow, tables, AttemptOK, Resolved, Recorded, Still,
          ResolutionSteps, RequestSteps, Key, Kinds, AloneInv, RowInv, DecisionInv, Undecided
  <2> QED BY <2>1, <2>2
<1>7. AloneInv'
  BY <1>0, <1>1, AttemptParts
  DEF IInv, Types, workflow, tables, AloneInv, AttemptInv, AttemptOK, Key
<1>8. CardInv'
  BY <1>0, <1>1, AttemptParts, DecisionFacts
  DEF IInv, Types, workflow, tables, CardInv, DecisionInv, Undecided, Resolved, Recorded,
      Kinds, AttemptInv, AttemptOK, Key
<1>9. SmoothInv'
  <2> SUFFICES ASSUME abandoned = {}, abandoned' = {}
               PROVE  OneAttempt' /\ FutureInv' /\ RequestInv' /\ WaitingInv' /\ ResolutionInv' /\ AnsweredInv'
    BY <1>0, <1>1 DEF SmoothInv, workflow
  <2>0. OneAttempt /\ FutureInv /\ RequestInv /\ WaitingInv /\ ResolutionInv /\ AnsweredInv
    BY DEF IInv, SmoothInv
  <2>1. /\ p = <<call, stage, 1>> /\ attempt = 1 /\ p \notin knew /\ Awaited(p)
        /\ call \in Calls /\ stage = p[2] /\ p[1] = call
    BY <1>0, <2>0 DEF OneAttempt, Still, Awaited
  <2>2. OneAttempt'
    BY <1>0, <1>1, <2>0, <2>1, AttemptParts
    DEF IInv, Types, workflow, tables, Kinds, Key, Calls, OneAttempt, Still
  <2>3. FutureInv'
    BY <1>0, <1>1, <2>0, <2>1 DEF IInv, Types, workflow, FutureInv, Untouched, Calls, Key, Kinds
  <2>4. RequestInv'
    BY <1>0, <1>1, <2>0, <2>1, AttemptParts
    DEF IInv, Types, workflow, tables, Kinds, Key, Calls, RequestInv, WaitingInv,
        ResolutionInv, AnsweredInv, FutureInv, Untouched, Settled, Still, CardInv, AttemptInv,
        AttemptOK
  <2>5. WaitingInv'
    BY <1>0, <1>1, <2>0, <2>1, AttemptParts
    DEF IInv, Types, workflow, tables, Kinds, Key, Calls, RequestInv, WaitingInv,
        ResolutionInv, AnsweredInv, Untouched, Settled, Still, CardInv, AttemptInv, AttemptOK
  <2>6. ResolutionInv'
    BY <1>0, <1>1, <2>0, <2>1, AttemptParts
    DEF IInv, Types, workflow, tables, Kinds, Key, Calls, RequestInv, WaitingInv,
        ResolutionInv, AnsweredInv, Untouched, Settled, Still, CardInv, AttemptInv, AttemptOK
  <2>7. AnsweredInv'
    BY <1>0, <1>1, <2>0, <2>1, AttemptParts
    DEF IInv, Types, workflow, tables, Kinds, Key, Calls, RequestInv, WaitingInv,
        ResolutionInv, AnsweredInv, Untouched, Settled, Still, CardInv, AttemptInv, AttemptOK
  <2> QED BY <2>2, <2>3, <2>4, <2>5, <2>6, <2>7
<1> QED BY <1>2, <1>3, <1>4, <1>5, <1>6, <1>7, <1>8, <1>9 DEF IInv

LEMMA InsertAuditKeeps ==
  ASSUME IInv, NEW p \in Attempts, InsertAudit(p)
  PROVE  IInv'
<1>1. CASE Audited(p)
  BY <1>1, ThrowKeeps DEF InsertAudit, Still
<1>2. CASE ~Audited(p)
  BY <1>2, NewAuditKeeps
<1> QED BY <1>1, <1>2

(* The workflow is answered by the row it wrote, or by one that was resolved. *)
LEMMA ReturnKeeps ==
  ASSUME IInv, NEW p \in Attempts, NEW r, at[p] \in {"read", "answer"}, p[2] = "resolution",
         at[p] = "read" => row[p[1]] \notin {NoRow, Asked},
         r \in {Resolution(decision[p[1]]), CardResolution(row[p[1]])}, Return(p, r)
  PROVE  IInv'
<1>0. /\ p[1] \in Calls /\ p[2] = "resolution" /\ at[p] \in {"read", "answer"}
      /\ Resolved(p[1]) /\ decision[p[1]] \in AnyDecision /\ r # None
      /\ r.state = TerminalState(decision[p[1]].action)
      /\ r \in {Resolution(decision[p[1]]), CardResolution(row[p[1]])}
      /\ at[p] = "read" => row[p[1]] \notin {NoRow, Asked}
  <2>1. p[1] \in Calls /\ Resolved(p[1])
    BY AttemptParts DEF IInv, AttemptInv, AttemptOK, ResolutionSteps, RowInv
  <2>2. decision[p[1]] \in AnyDecision /\ row[p[1]] = ResolvedRow(decision[p[1]])
    BY <2>1 DEF IInv, Types, Resolved
  <2> QED BY <2>1, <2>2, ResolutionFacts
<1>1. /\ at' = [at EXCEPT ![p] = "gone"]
      /\ IF Awaited(p)
           THEN /\ answer' = [answer EXCEPT ![call] = r]
                /\ stage' = IF r.state = "approved" THEN "running" ELSE "refused"
           ELSE UNCHANGED <<answer, stage>>
      /\ UNCHANGED <<call, attempt, decision, tables, knew, notified, abandoned>>
  BY DEF Return
<1>2. Types'
  BY <1>0, <1>1, AttemptParts, DecisionFacts
  DEF IInv, Types, workflow, tables, RequestSteps, ResolutionSteps, Stages, Still, Kinds, Key,
      Awaited
<1>3. DecisionInv'
  BY <1>0, <1>1, DecisionFacts DEF IInv, Types, workflow, tables, DecisionInv, Undecided, Awaited
<1>4. RowInv'
  BY <1>0, <1>1
  DEF IInv, Types, workflow, tables, RowInv, DecisionInv, Resolved, Undecided, Awaited
<1>5. AnswerInv'
  BY <1>0, <1>1
  DEF IInv, Types, workflow, tables, AnswerInv, DecisionInv, Resolved, Undecided, Awaited
<1>6. AttemptInv'
  <2> SUFFICES ASSUME NEW q \in Attempts  PROVE AttemptOK(q)'
    BY DEF AttemptInv
  <2>0. AttemptOK(p) /\ AttemptOK(q)
    BY DEF IInv, AttemptInv
  <2>1. CASE q = p
    BY <2>0, <2>1, <1>0, <1>1, AttemptParts, DecisionFacts
    DEF IInv, Types, workflow, tables, AttemptOK, Resolved, Recorded, Still, ResolutionSteps,
        RequestSteps, Key, Kinds, CardInv, Awaited
  <2>2. CASE q # p
    <3>1. at'[q] = at[q]
      BY <2>2, <1>1, <1>0 DEF IInv, Types, workflow, tables
    <3>2. QED
      BY <2>0, <2>2, <3>1, <1>0, <1>1, AttemptParts, DecisionFacts
      DEF IInv, Types, workflow, tables, AttemptOK, Resolved, Recorded, Still,
          ResolutionSteps, RequestSteps, Key, Kinds, AloneInv, RowInv, DecisionInv, Undecided,
          Awaited
  <2> QED BY <2>1, <2>2
<1>7. AloneInv'
  BY <1>0, <1>1, AttemptParts
  DEF IInv, Types, workflow, tables, AloneInv, AttemptInv, AttemptOK, Key, Awaited
<1>8. CardInv'
  BY <1>0, <1>1, AttemptParts, DecisionFacts
  DEF IInv, Types, workflow, tables, CardInv, DecisionInv, Undecided, Resolved, Recorded,
      Kinds, AttemptInv, AttemptOK, Key, Awaited
<1>9. SmoothInv'
  <2> SUFFICES ASSUME abandoned = {}, abandoned' = {}
               PROVE  OneAttempt' /\ FutureInv' /\ RequestInv' /\ WaitingInv' /\ ResolutionInv' /\ AnsweredInv'
    BY <1>0, <1>1 DEF SmoothInv, workflow
  <2>0. OneAttempt /\ FutureInv /\ RequestInv /\ WaitingInv /\ ResolutionInv /\ AnsweredInv
    BY DEF IInv, SmoothInv
  <2>1. /\ p = <<call, stage, 1>> /\ attempt = 1 /\ p \notin knew /\ Awaited(p)
        /\ call \in Calls /\ stage = p[2] /\ p[1] = call
    BY <1>0, <2>0 DEF OneAttempt, Still, Awaited
  <2>2. OneAttempt'
    BY <1>0, <1>1, <2>0, <2>1, AttemptParts
    DEF IInv, Types, workflow, tables, Kinds, Key, Calls, OneAttempt, Still, Awaited
  <2>3. FutureInv'
    BY <1>0, <1>1, <2>0, <2>1 DEF IInv, Types, tables, FutureInv, Untouched, Calls
  <2>4. RequestInv'
    BY <1>0, <1>1, <2>1 DEF RequestInv
  <2>5. WaitingInv'
    BY <1>0, <1>1, <2>1 DEF WaitingInv
  <2>6. ResolutionInv'
    BY <1>0, <1>1, <2>1 DEF ResolutionInv
  <2>7. AnsweredInv'
    <3>1. at[p] = "answer"
      BY <1>0, <2>0, <2>1 DEF ResolutionInv
    <3> QED BY <1>0, <1>1, <2>0, <2>1, <3>1 DEF AnsweredInv, ResolutionInv, Settled, tables
  <2> QED BY <2>2, <2>3, <2>4, <2>5, <2>6, <2>7
<1> QED BY <1>2, <1>3, <1>4, <1>5, <1>6, <1>7, <1>8, <1>9 DEF IInv

LEMMA ReadPendingKeeps ==
  ASSUME IInv, NEW p \in Attempts, ReadRow(p), Goto(p, "update"),
         UNCHANGED <<tables, knew, notified>>
  PROVE  IInv'
<1>0. /\ p[1] \in Calls /\ p[2] \in Kinds /\ at[p] = "read" /\ p[2] = "resolution"
  BY AttemptParts, DecisionFacts
  DEF IInv, Types, AttemptInv, AttemptOK, ReadRow, RequestSteps, ResolutionSteps, Still, Kinds
<1>1. /\ at' = [at EXCEPT ![p] = "update"]
      /\ UNCHANGED <<workflow, tables, abandoned, knew, notified>>
  BY <1>0 DEF ReadRow, Goto, AfterWrite, Kinds
<1>2. Types'
  BY <1>0, <1>1, AttemptParts, DecisionFacts
  DEF IInv, Types, workflow, tables, RequestSteps, ResolutionSteps, Stages, Still, Kinds, Key
<1>3. DecisionInv'
  BY <1>0, <1>1, DecisionFacts DEF IInv, Types, workflow, tables, DecisionInv, Undecided
<1>4. RowInv'
  BY <1>0, <1>1 DEF IInv, Types, workflow, tables, RowInv, DecisionInv, Resolved, Undecided
<1>5. AnswerInv'
  BY <1>0, <1>1 DEF IInv, Types, workflow, tables, AnswerInv, DecisionInv, Resolved, Undecided
<1>6. AttemptInv'
  <2> SUFFICES ASSUME NEW q \in Attempts  PROVE AttemptOK(q)'
    BY DEF AttemptInv
  <2>0. AttemptOK(p) /\ AttemptOK(q)
    BY DEF IInv, AttemptInv
  <2>1. CASE q = p
    BY <2>0, <2>1, <1>0, <1>1, AttemptParts, DecisionFacts
    DEF IInv, Types, workflow, tables, AttemptOK, Resolved, Recorded, Still, ResolutionSteps,
        RequestSteps, Key, Kinds, CardInv
  <2>2. CASE q # p
    <3>1. at'[q] = at[q]
      BY <2>2, <1>1, <1>0 DEF IInv, Types, workflow, tables
    <3>2. QED
      BY <2>0, <2>2, <3>1, <1>0, <1>1, AttemptParts, DecisionFacts
      DEF IInv, Types, workflow, tables, AttemptOK, Resolved, Recorded, Still,
          ResolutionSteps, RequestSteps, Key, Kinds, AloneInv, RowInv, DecisionInv, Undecided
  <2> QED BY <2>1, <2>2
<1>7. AloneInv'
  BY <1>0, <1>1, AttemptParts
  DEF IInv, Types, workflow, tables, AloneInv, AttemptInv, AttemptOK, Key
<1>8. CardInv'
  BY <1>0, <1>1, AttemptParts, DecisionFacts
  DEF IInv, Types, workflow, tables, CardInv, DecisionInv, Undecided, Resolved, Recorded,
      Kinds, AttemptInv, AttemptOK, Key
<1>9. SmoothInv'
  <2> SUFFICES ASSUME abandoned = {}, abandoned' = {}
               PROVE  OneAttempt' /\ FutureInv' /\ RequestInv' /\ WaitingInv' /\ ResolutionInv' /\ AnsweredInv'
    BY <1>0, <1>1 DEF SmoothInv, workflow
  <2>0. OneAttempt /\ FutureInv /\ RequestInv /\ WaitingInv /\ ResolutionInv /\ AnsweredInv
    BY DEF IInv, SmoothInv
  <2>1. /\ p = <<call, stage, 1>> /\ attempt = 1 /\ p \notin knew /\ Awaited(p)
        /\ call \in Calls /\ stage = p[2] /\ p[1] = call
    BY <1>0, <2>0 DEF OneAttempt, Still, Awaited
  <2>2. OneAttempt'
    BY <1>0, <1>1, <2>0, <2>1, AttemptParts
    DEF IInv, Types, workflow, tables, Kinds, Key, Calls, OneAttempt, Still
  <2>3. FutureInv'
    BY <1>0, <1>1, <2>0, <2>1, AttemptParts
    DEF IInv, Types, workflow, tables, Kinds, Key, Calls, FutureInv, Untouched
  <2>4. RequestInv'
    BY <1>0, <1>1, <2>0, <2>1, AttemptParts
    DEF IInv, Types, workflow, tables, Kinds, Key, Calls, RequestInv, WaitingInv,
        ResolutionInv, AnsweredInv, FutureInv, Untouched, Settled, Still, CardInv, AttemptInv,
        AttemptOK
  <2>5. WaitingInv'
    BY <1>0, <1>1, <2>0, <2>1, AttemptParts
    DEF IInv, Types, workflow, tables, Kinds, Key, Calls, RequestInv, WaitingInv,
        ResolutionInv, AnsweredInv, Untouched, Settled, Still, CardInv, AttemptInv, AttemptOK
  <2>6. ResolutionInv'
    BY <1>0, <1>1, <2>0, <2>1, AttemptParts
    DEF IInv, Types, workflow, tables, Kinds, Key, Calls, RequestInv, WaitingInv,
        ResolutionInv, AnsweredInv, Untouched, Settled, Still, CardInv, AttemptInv, AttemptOK
  <2>7. AnsweredInv'
    BY <1>0, <1>1, <2>0, <2>1, AttemptParts
    DEF IInv, Types, workflow, tables, Kinds, Key, Calls, RequestInv, WaitingInv,
        ResolutionInv, AnsweredInv, Untouched, Settled, Still, CardInv, AttemptInv, AttemptOK
  <2> QED BY <2>2, <2>3, <2>4, <2>5, <2>6, <2>7
<1> QED BY <1>2, <1>3, <1>4, <1>5, <1>6, <1>7, <1>8, <1>9 DEF IInv

LEMMA ReadRowKeeps ==
  ASSUME IInv, NEW p \in Attempts, ReadRow(p)
  PROVE  IInv'
<1>1. at[p] = "read" /\ p[2] = "resolution" /\ p[1] \in Calls
  BY AttemptParts DEF ReadRow, IInv, AttemptInv, AttemptOK, RequestSteps, Still, Kinds
<1>2. CASE Throw(p)
  BY <1>1, <1>2, ThrowKeeps DEF Still
<1>3. CASE Recorded(p[1]) /\ row[p[1]].status # "pending" /\ Return(p, CardResolution(row[p[1]]))
  <2>1. row[p[1]] \notin {NoRow, Asked}
    BY <1>3 DEF Recorded, Asked
  <2> QED BY <1>1, <1>3, <2>1, ReturnKeeps
<1>4. CASE /\ Recorded(p[1]) /\ row[p[1]].status = "pending" /\ Goto(p, "update")
           /\ UNCHANGED <<tables, knew, notified>>
  BY <1>4, ReadPendingKeeps DEF ReadRow
<1> QED BY <1>2, <1>3, <1>4 DEF ReadRow

LEMMA AnswerKeeps ==
  ASSUME IInv, NEW p \in Attempts, Answer(p)
  PROVE  IInv'
<1>1. at[p] = "answer" /\ p[2] = "resolution" /\ Return(p, Resolution(decision[p[1]]))
  BY AttemptParts DEF Answer, IInv, AttemptInv, AttemptOK, RequestSteps, Still, Kinds
<1> QED BY <1>1, ReturnKeeps

(* IInv holds at first and is kept by every step of Approvals, ... *)
LEMMA InitInv ==
  ASSUME Init
  PROVE  IInv
<1>1. Types
  BY ApprovalsAssumption DEF Init, Types, Stages, Still
<1>2. DecisionInv /\ RowInv /\ AnswerInv
  BY DEF Init, DecisionInv, RowInv, AnswerInv
<1>3. AttemptInv /\ AloneInv /\ CardInv
  <2>1. \A p \in Attempts : at[p] = "off"
    BY DEF Init
  <2>2. AttemptInv /\ AloneInv
    BY <2>1 DEF AttemptInv, AttemptOK, AloneInv, Still, RequestSteps, ResolutionSteps
  <2>3. CardInv
    BY DEF Init, CardInv
  <2> QED BY <2>2, <2>3
<1>4. SmoothInv
  BY AttemptParts, ApprovalsAssumption
  DEF Init, SmoothInv, OneAttempt, FutureInv, RequestInv, WaitingInv, ResolutionInv,
     AnsweredInv, Untouched, Still
<1> QED BY <1>1, <1>2, <1>3, <1>4 DEF IInv

LEMMA StepKeeps ==
  ASSUME IInv, NEW p \in Attempts, Step(p) \/ Abandon(p)
  PROVE  IInv'
BY CheckKnownKeeps, FindRequestKeeps, InsertRequestKeeps, MoveToWaitingKeeps, NotifyKeeps,
   ReadRowKeeps, UpdateRowKeeps, RestoreRunningKeeps, AnswerKeeps,
   InsertAuditKeeps, AppendTranscriptKeeps, PublishCardKeeps, AbandonKeeps
DEF Step, Request, Resolving, Write

LEMMA DecideAny ==
  ASSUME IInv, Resolve \/ Expire
  PROVE  IInv'
<1>1. PICK d \in AnyDecision : Decide(d)
  BY DEF Resolve, Expire, AnyDecision
<1> QED BY <1>1, DecideKeeps

LEMMA UnchangedKeeps ==
  ASSUME IInv, UNCHANGED vars
  PROVE  IInv'
BY
DEF vars, workflow, tables, IInv, Types, DecisionInv, RowInv, AnswerInv, AttemptInv,
    AttemptOK, AloneInv,
       CardInv, SmoothInv, OneAttempt, FutureInv, RequestInv, WaitingInv, ResolutionInv, AnsweredInv,
       Undecided, Resolved, Untouched, Settled, Recorded

LEMMA NextKeeps ==
  ASSUME IInv, [Next]_vars
  PROVE  IInv'
<1>1. ASSUME NEW p \in Attempts, Step(p) \/ Abandon(p)  PROVE IInv'
  BY <1>1, StepKeeps
<1> QED BY <1>1, AskKeeps, DecideAny, CompleteKeeps, UnchangedKeeps DEF Next

(* ... and of RunInspector, which forgets attempts and fails runs. *)
LEMMA ForgetKeeps ==
  ASSUME IInv, Approved, Forget
  PROVE  IInv'
<1>0. stage = "running"
  BY DEF Approved
<1>1. /\ at' = [p \in Attempts |-> "gone"] /\ knew' = {}
      /\ UNCHANGED <<workflow, tables, notified, abandoned>>
  BY DEF Forget
<1>2. Types'
  BY <1>0, <1>1, AttemptParts, DecisionFacts
  DEF IInv, Types, workflow, tables, RequestSteps, ResolutionSteps, Stages, Still, Kinds, Key
<1>3. DecisionInv'
  BY <1>0, <1>1, DecisionFacts DEF IInv, Types, workflow, tables, DecisionInv, Undecided
<1>4. RowInv'
  BY <1>0, <1>1 DEF IInv, Types, workflow, tables, RowInv, DecisionInv, Resolved, Undecided
<1>5. AnswerInv'
  BY <1>0, <1>1 DEF IInv, Types, workflow, tables, AnswerInv, DecisionInv, Resolved, Undecided
<1>6. AttemptInv'
  BY <1>0, <1>1, AttemptParts, DecisionFacts
  DEF IInv, Types, workflow, tables, AttemptInv, AttemptOK, Resolved, Recorded, Still,
      ResolutionSteps, RequestSteps, Key, Kinds, DecisionInv, Undecided
<1>7. AloneInv'
  BY <1>0, <1>1, AttemptParts
  DEF IInv, Types, workflow, tables, AloneInv, AttemptInv, AttemptOK, Key
<1>8. CardInv'
  BY <1>0, <1>1, AttemptParts, DecisionFacts
  DEF IInv, Types, workflow, tables, CardInv, DecisionInv, Undecided, Resolved, Recorded,
      Kinds, AttemptInv, AttemptOK, Key
<1>9. SmoothInv'
  <2> SUFFICES ASSUME abandoned = {}, abandoned' = {}
               PROVE  OneAttempt' /\ FutureInv' /\ RequestInv' /\ WaitingInv' /\ ResolutionInv' /\ AnsweredInv'
    BY <1>0, <1>1 DEF SmoothInv, workflow
  <2>0. OneAttempt /\ FutureInv /\ RequestInv /\ WaitingInv /\ ResolutionInv /\ AnsweredInv
    BY DEF IInv, SmoothInv
  <2>2. OneAttempt'
    BY <1>0, <1>1, <2>0, AttemptParts
    DEF IInv, Types, workflow, tables, Kinds, Key, Calls, OneAttempt, Still
  <2>3. FutureInv'
    BY <1>0, <1>1, <2>0, AttemptParts
    DEF IInv, Types, workflow, tables, Kinds, Key, Calls, FutureInv, Untouched
  <2>4. RequestInv'
    BY <1>0, <1>1, <2>0, AttemptParts
    DEF IInv, Types, workflow, tables, Kinds, Key, Calls, RequestInv, WaitingInv,
        ResolutionInv, AnsweredInv, FutureInv, Untouched, Settled, Still, OneAttempt,
        ResolutionSteps, RequestSteps, CardInv, AttemptInv, AttemptOK
  <2>5. WaitingInv'
    BY <1>0, <1>1, <2>0, AttemptParts
    DEF IInv, Types, workflow, tables, Kinds, Key, Calls, RequestInv, WaitingInv,
        ResolutionInv, AnsweredInv, Untouched, Settled, Still, OneAttempt, ResolutionSteps,
        RequestSteps, CardInv, AttemptInv, AttemptOK
  <2>6. ResolutionInv'
    BY <1>0, <1>1, <2>0, AttemptParts
    DEF IInv, Types, workflow, tables, Kinds, Key, Calls, RequestInv, WaitingInv,
        ResolutionInv, AnsweredInv, Untouched, Settled, Still, OneAttempt, ResolutionSteps,
        RequestSteps, CardInv, AttemptInv, AttemptOK
  <2>7. AnsweredInv'
    BY <1>0, <1>1, <2>0, AttemptParts
    DEF IInv, Types, workflow, tables, Kinds, Key, Calls, RequestInv, WaitingInv,
        ResolutionInv, AnsweredInv, Untouched, Settled, Still, OneAttempt, ResolutionSteps,
        RequestSteps, CardInv, AttemptInv, AttemptOK
  <2> QED BY <2>2, <2>3, <2>4, <2>5, <2>6, <2>7
<1> QED BY <1>2, <1>3, <1>4, <1>5, <1>6, <1>7, <1>8, <1>9 DEF IInv

LEMMA FailRunKeeps ==
  ASSUME IInv, FailRun
  PROVE  IInv'
<1>0. stage = "running"
  BY DEF FailRun, Approved
<1>1. /\ stage' = "ended" /\ runStatus' = "failed"
      /\ UNCHANGED <<call, attempt, decision, answer, row, audit, transcript, cards, at, knew,
                     notified, abandoned>>
  BY DEF FailRun
<1>2. Types'
  BY <1>0, <1>1, AttemptParts, DecisionFacts
  DEF IInv, Types, workflow, tables, RequestSteps, ResolutionSteps, Stages, Still, Kinds, Key
<1>3. DecisionInv'
  BY <1>0, <1>1, DecisionFacts DEF IInv, Types, workflow, tables, DecisionInv, Undecided
<1>4. RowInv'
  BY <1>0, <1>1 DEF IInv, Types, workflow, tables, RowInv, DecisionInv, Resolved, Undecided
<1>5. AnswerInv'
  BY <1>0, <1>1 DEF IInv, Types, workflow, tables, AnswerInv, DecisionInv, Resolved, Undecided
<1>6. AttemptInv'
  BY <1>0, <1>1, AttemptParts, DecisionFacts
  DEF IInv, Types, workflow, tables, AttemptInv, AttemptOK, Resolved, Recorded, Still,
      ResolutionSteps, RequestSteps, Key, Kinds, DecisionInv, Undecided
<1>7. AloneInv'
  BY <1>0, <1>1, AttemptParts
  DEF IInv, Types, workflow, tables, AloneInv, AttemptInv, AttemptOK, Key
<1>8. CardInv'
  BY <1>0, <1>1, AttemptParts, DecisionFacts
  DEF IInv, Types, workflow, tables, CardInv, DecisionInv, Undecided, Resolved, Recorded,
      Kinds, AttemptInv, AttemptOK, Key
<1>9. SmoothInv'
  <2> SUFFICES ASSUME abandoned = {}, abandoned' = {}
               PROVE  OneAttempt' /\ FutureInv' /\ RequestInv' /\ WaitingInv' /\ ResolutionInv' /\ AnsweredInv'
    BY <1>0, <1>1 DEF SmoothInv, workflow
  <2>0. OneAttempt /\ FutureInv /\ RequestInv /\ WaitingInv /\ ResolutionInv /\ AnsweredInv
    BY DEF IInv, SmoothInv
  <2>2. OneAttempt'
    BY <1>0, <1>1, <2>0, AttemptParts
    DEF IInv, Types, workflow, tables, Kinds, Key, Calls, OneAttempt, Still
  <2>3. FutureInv'
    BY <1>0, <1>1, <2>0, AttemptParts
    DEF IInv, Types, workflow, tables, Kinds, Key, Calls, FutureInv, Untouched
  <2>4. RequestInv'
    BY <1>0, <1>1, <2>0, AttemptParts
    DEF IInv, Types, workflow, tables, Kinds, Key, Calls, RequestInv, WaitingInv,
        ResolutionInv, AnsweredInv, FutureInv, Untouched, Settled, Still, OneAttempt,
        ResolutionSteps, RequestSteps, CardInv, AttemptInv, AttemptOK
  <2>5. WaitingInv'
    BY <1>0, <1>1, <2>0, AttemptParts
    DEF IInv, Types, workflow, tables, Kinds, Key, Calls, RequestInv, WaitingInv,
        ResolutionInv, AnsweredInv, Untouched, Settled, Still, OneAttempt, ResolutionSteps,
        RequestSteps, CardInv, AttemptInv, AttemptOK
  <2>6. ResolutionInv'
    BY <1>0, <1>1, <2>0, AttemptParts
    DEF IInv, Types, workflow, tables, Kinds, Key, Calls, RequestInv, WaitingInv,
        ResolutionInv, AnsweredInv, Untouched, Settled, Still, OneAttempt, ResolutionSteps,
        RequestSteps, CardInv, AttemptInv, AttemptOK
  <2>7. AnsweredInv'
    BY <1>0, <1>1, <2>0, AttemptParts
    DEF IInv, Types, workflow, tables, Kinds, Key, Calls, RequestInv, WaitingInv,
        ResolutionInv, AnsweredInv, Untouched, Settled, Still, OneAttempt, ResolutionSteps,
        RequestSteps, CardInv, AttemptInv, AttemptOK
  <2> QED BY <2>2, <2>3, <2>4, <2>5, <2>6, <2>7
<1> QED BY <1>2, <1>3, <1>4, <1>5, <1>6, <1>7, <1>8, <1>9 DEF IInv

LEMMA InspectorKeeps ==
  ASSUME IInv, [InspectorNext]_inspected
  PROVE  IInv'
<1>1. CASE Approving
  <2>1. ASSUME NEW p \in Attempts, Step(p) \/ Abandon(p)  PROVE IInv'
    BY <2>1, StepKeeps
  <2> QED BY <1>1, <2>1, AskKeeps, DecideAny, CompleteKeeps DEF Approving
<1>2. CASE Execute \/ Fork
  BY <1>2, ForgetKeeps DEF Execute, Fork
<1>3. CASE FailRun
  BY <1>3, FailRunKeeps
<1>4. CASE UNCHANGED vars
  BY <1>4, UnchangedKeeps
<1>5. CASE UNCHANGED inspected
  BY <1>5, UnchangedKeeps DEF inspected
<1>6. ASSUME Working, ~Execute, ~Fork  PROVE UNCHANGED vars
  BY <1>6
  DEF Working, ReserveKey, SettleKey, SettleInvocation, PersistToolResult, ChildrenReturn,
      Join,
     RecordExecution, RecordEvent
<1>7. ASSUME Trim \/ ReadRun \/ ReadTranscript \/ \E child \in Children : Retry(child)
      PROVE  UNCHANGED vars
  BY <1>7 DEF Trim, ReadRun, ReadTranscript, Retry
<1> QED BY <1>1, <1>2, <1>3, <1>4, <1>5, <1>6, <1>7 DEF InspectorNext

(* IInv implies the property. *)
LEMMA InvAgrees ==
  ASSUME IInv
  PROVE  ApprovalsAgree
<1>1. TypeOK
  <2>1. ASSUME NEW n \in Calls  PROVE decision[n] = None \/ decision[n].action \in Actions \cup {"expire"}
    BY DecisionFacts DEF IInv, Types
  <2>2. ASSUME NEW n \in Calls  PROVE row[n].status \in States \cup {"none", "pending"}
    BY DecisionFacts DEF IInv, Types, RowInv, Resolved, NoRow, Asked
  <2>3. ASSUME NEW n \in Calls  PROVE answer[n] = None \/ answer[n].arguments \in {"proposed"} \cup Edits
    BY ResolutionFacts DEF IInv, Types, AnswerInv, Resolved
  <2> QED BY <2>1, <2>2, <2>3
          DEF TypeOK, IInv, Types, RequestSteps, ResolutionSteps, Still, Stages
<1>2. OneCard
  <2> SUFFICES ASSUME NEW c \in Calls \X Kinds  PROVE cards[c] <= 1
    BY DEF OneCard
  <2>1. PICK n \in Calls, kind \in Kinds : c = <<n, kind>>
    OBVIOUS
  <2> QED BY <2>1 DEF IInv, CardInv
<1>3. CardsAreBacked
  BY DecisionFacts DEF IInv, Types, CardInv, CardsAreBacked, Resolved
<1>4. AnswerIsDecision
  <2> SUFFICES ASSUME NEW n \in Calls, answer[n] # None
               PROVE  /\ row[n].status = answer[n].state
                      /\ Edited(decision[n]) = "edits" \/ decision[n].action # "approve_with_edits"
                           => answer[n] = Resolution(decision[n])
    BY DEF AnswerIsDecision
  <2>1. /\ decision[n] \in AnyDecision /\ row[n] = ResolvedRow(decision[n])
        /\ answer[n] \in {Resolution(decision[n]), CardResolution(row[n])}
    BY DEF IInv, Types, AnswerInv, Resolved
  <2> QED BY <2>1, DecisionFacts, ResolutionFacts
<1>5. WholeUnlessAbandoned
  BY DEF IInv, SmoothInv, WholeUnlessAbandoned, WaitingInv, AnsweredInv, Settled
<1> QED BY <1>1, <1>2, <1>3, <1>4, <1>5 DEF ApprovalsAgree

(* Whatever becomes of the attempts of recordRequest and recordResolution, the row, the
   audit log, the transcript, the stream and the workflow agree on every approval. *)
THEOREM ApprovalsStayInAgreement == Spec => []ApprovalsAgree
<1>1. Init => IInv
  BY InitInv
<1>2. IInv /\ [Next]_vars => IInv'
  BY NextKeeps
<1>3. IInv => ApprovalsAgree
  BY InvAgrees
<1> QED BY <1>1, <1>2, <1>3, PTL DEF Spec

(* They still do when approved calls are executed, delegated, or fail with the run. *)
THEOREM InspectedRunsStayInAgreement == InspectorSpec => []ApprovalsAgree
<1>1. InspectorInit => IInv
  BY InitInv DEF InspectorInit
<1>2. IInv /\ [InspectorNext]_inspected => IInv'
  BY InspectorKeeps
<1>3. IInv => ApprovalsAgree
  BY InvAgrees
<1> QED BY <1>1, <1>2, <1>3, PTL DEF InspectorSpec

-----------------------------------------------------------------------------
(* What a reader of the tables is shown. *)


RunStatuses == {"running", "waiting_approval", "complete", "cancelled", "failed"}
Results == {"none", "ok", "error"}

(* What a view may hold. *)
Views ==
  [at : {"none", "run", "transcript"}, run : RunStatuses \cup {"none"},
   approvals : SUBSET (Calls \X Kinds), result : [Calls -> Results],
   told : [Events -> [Children -> Nat]]]

InspectorTypes ==
  /\ phase \in {"none", "tool", "start", "complete", "result", "done"}
  /\ invocation \in [Calls -> {"none", "running", "complete", "failed"}]
  /\ entry \in [Calls -> {"none", "pending", "complete", "failed"}]
  /\ result \in [Calls -> Results]
  /\ executions \in [Children -> {"none", "running", "completed", "failed"}]
  /\ clock \in Nat /\ now \in [Children -> Nat] /\ retries \in 0..MaxRetries
  /\ told \in [Tables -> [Events -> [Children -> Nat]]]
  /\ seen \in Views

(* The approvals of a run. *)
ComingInv ==
  /\ \A n \in Calls : n > call => row[n] = NoRow
  /\ \A p \in Attempts : p[1] > call => at[p] \in Still

ReturnedInv ==
  /\ \A n \in Calls : n < call \/ (n = call /\ stage \in {"running", "refused"}) => answer[n] # None
  /\ stage = "refused" => answer[call].state # "approved"

Shown(n, approvals) == <<n, "request">> \in approvals /\ Recorded(n)

RequestShown(approvals) == \E n \in Calls : Shown(n, approvals)

WaitsInv ==
  /\ \A p \in Attempts : at[p] = "status" => Shown(p[1], transcript)
  /\ runStatus = "waiting_approval" => RequestShown(transcript)
  /\ seen.run = "waiting_approval" =>
       IF seen.at = "transcript" THEN RequestShown(seen.approvals) ELSE RequestShown(transcript)

(* What is done with approved calls. *)
PhaseInv ==
  /\ stage \in {"request", "waiting", "resolution", "refused"} \/ call = 0 => phase = "none"
  /\ \A n \in Calls : invocation[n] = "running" => n = call /\ phase = "tool"

Persisted(n) == n < call \/ (n = call /\ phase = "done")

ResultInv ==
  \A n \in Calls :
    /\ result[n] # "none" <=> Persisted(n)
    /\ Persisted(n) => (result[n] = "error" <=> invocation[n] = "failed")
    /\ seen.result[n] # "none" => seen.result[n] = result[n]

Whole ==
  /\ stage = "ended" /\ phase \in {"none", "done"}
  /\ \A n \in Calls :
       /\ n <= call => answer[n] # None
       /\ answer[n] # None /\ answer[n].state = "approved" => result[n] # "none"

WholeInv ==
  /\ runStatus = "complete" \/ seen.run = "complete" => Whole
  /\ seen.run = "complete" /\ seen.at = "transcript" =>
       seen.result = result /\ seen.told = told["transcript"]
  /\ seen.at = "none" => seen.run = "none"

(* The rows of the children. *)
TimesInv ==
  /\ \A child \in Children : now[child] <= clock
  /\ \A table \in Tables, event \in Events, child \in Children : told[table][event][child] <= clock
  /\ phase \in Events => \A child \in Children : now[child] > 0
  /\ phase \in Events => clock > 0

OrderInv ==
  \A child \in Children, one, other \in Tables :
    /\ told[other]["complete"][child] # 0 => told[one]["start"][child] < told[other]["complete"][child]
    /\ phase = "complete" => told[one]["start"][child] < now[child]

ToldInv ==
  \A event \in Events, child \in Children :
    /\ told["stream"][event][child] # 0 => told["transcript"][event][child] # 0
    /\ seen.told[event][child] \in {0, told["transcript"][event][child]}

LaneInv ==
  \A child \in Children :
    /\ phase = "start" => told["transcript"]["complete"][child] = 0
    /\ told["transcript"]["complete"][child] # 0 => executions[child] \in {"completed", "failed"}
    /\ clock = 0 => executions[child] = "none"
    /\ phase \notin Events =>
         /\ executions[child] # "running"
         /\ told["transcript"]["start"][child] # 0 => told["transcript"]["complete"][child] # 0

ViewInv ==
  /\ InspectorTypes /\ ComingInv /\ ReturnedInv /\ WaitsInv /\ PhaseInv /\ ResultInv /\ WholeInv
  /\ TimesInv /\ OrderInv /\ ToldInv /\ LaneInv

(* The last row of a child decides its lane. *)
LEMMA LaneFollows ==
  ASSUME IInv, ViewInv, NEW child \in Children
  PROVE  LET Told(event) == seen.told[event][child] # 0 \/ told["stream"][event][child] # 0
         IN  Lane(child) = CASE Told("complete") -> Outcome(child)
                             [] ~Told("complete") /\ Told("start") -> "running"
                             [] ~Told("complete") /\ ~Told("start") -> "none"
<1> DEFINE Time(table, event) ==
             IF table = "transcript" THEN seen.told[event][child] ELSE told["stream"][event][child]
           Row(table, event) == [table |-> table, event |-> event, time |-> Time(table, event)]
           Told(event) == seen.told[event][child] # 0 \/ told["stream"][event][child] # 0
           Rows == SubagentRows(child)
           Last(a) == a \in Rows /\ \A b \in Rows \ {a} : Before(b, a)
<1>1. /\ seen.told \in [Events -> [Children -> Nat]] /\ told \in [Tables -> [Events -> [Children -> Nat]]]
      /\ clock \in Nat
  BY DEF ViewInv, InspectorTypes, Views
<1>2. \A table \in Tables, event \in Events : Time(table, event) \in 0..clock
  BY <1>1 DEF ViewInv, TimesInv, ToldInv, Tables, Events
<1>3. \A table, other \in Tables :
        Time(other, "complete") # 0 => Time(table, "start") < Time(other, "complete")
  BY <1>1 DEF ViewInv, OrderInv, ToldInv, Tables, Events
<1> HIDE DEF Time
<1>4. /\ \A table \in Tables, event \in Events : Time(table, event) # 0 => Row(table, event) \in Rows
      /\ \A r \in Rows : /\ r.table \in Tables /\ r.event \in Events /\ r.time \in 1..clock
                         /\ r.time = Time(r.table, r.event) /\ r = Row(r.table, r.event)
  <2>1. \A r : r \in Rows <=> /\ r \in [table : Tables, event : Events, time : 1..clock]
                              /\ r.time = Time(r.table, r.event)
    BY DEF SubagentRows, Time
  <2> QED BY <1>2, <2>1
<1>5. \A event \in Events : Told(event) <=> Time("transcript", event) # 0 \/ Time("stream", event) # 0
  BY DEF Time
<1> HIDE DEF Rows
<1>6. Rows = {} <=> ~Told("complete") /\ ~Told("start")
  <2>1. ASSUME NEW event \in Events, Told(event)  PROVE Rows # {}
    BY <1>4, <1>5, <2>1 DEF Tables
  <2>2. ASSUME NEW r \in Rows  PROVE Told("complete") \/ Told("start")
    <3>1. r.time = Time(r.table, r.event) /\ r.time \in 1..clock /\ r.table \in Tables /\ r.event \in Events
      BY <1>4
    <3>2. Told(r.event)
      BY <3>1, <1>1, <1>5 DEF Tables
    <3> QED BY <3>1, <3>2 DEF Events
  <2> QED BY <2>1, <2>2 DEF Events
<1>7. ASSUME NEW event \in Events, Told(event), event = "start" => ~Told("complete")
      PROVE  \E a : Last(a)
  <2> DEFINE later == IF Time("stream", event) = 0 \/ Time("stream", event) < Time("transcript", event)
                        THEN "transcript" ELSE "stream"
  <2>1. later \in Tables /\ Time(later, event) # 0
    BY <1>2, <1>5, <1>7 DEF Tables
  <2>2. Row(later, event) \in Rows
    BY <1>4, <2>1
  <2>3. ASSUME NEW b \in Rows, b # Row(later, event)  PROVE Before(b, Row(later, event))
    <3>1. b.table \in Tables /\ b.event \in Events /\ b.time \in 1..clock /\ b.time = Time(b.table, b.event)
          /\ b = Row(b.table, b.event)
      BY <1>4
    <3>2. CASE b.event = event
      BY <1>2, <2>1, <2>3, <3>1, <3>2 DEF Before, Rank, Tables
    <3>3. CASE b.event # event
      <4>1. Told(b.event)
        BY <3>1, <1>1, <1>5 DEF Tables
      <4>2. event = "complete" /\ b.event = "start"
        BY <1>7, <3>1, <3>3, <4>1 DEF Events
      <4>3. b.time < Time(later, event)
        BY <1>3, <2>1, <3>1, <4>2
      <4> QED BY <4>3 DEF Before
    <3> QED BY <3>2, <3>3
  <2> QED BY <2>2, <2>3
<1>8. ASSUME NEW a, Last(a), Told("complete")  PROVE a.event = "complete"
  <2>1. PICK table \in Tables : Time(table, "complete") # 0
    BY <1>5, <1>8 DEF Events, Tables
  <2>2. Row(table, "complete") \in Rows
    BY <1>4, <2>1 DEF Events
  <2>3. CASE a = Row(table, "complete")
    BY <2>3
  <2>4. CASE a # Row(table, "complete")
    <3>1. Time(table, "complete") <= a.time
      BY <1>2, <1>4, <1>8, <2>2, <2>4 DEF Before, Events
    <3>2. a.table \in Tables /\ a.event \in Events /\ a.time = Time(a.table, a.event)
      BY <1>4, <1>8
    <3>3. a.event # "start"
      BY <1>2, <1>3, <2>1, <3>1, <3>2 DEF Events
    <3> QED BY <3>2, <3>3 DEF Events
  <2> QED BY <2>3, <2>4
<1>9. ASSUME NEW a, Last(a), ~Told("complete")  PROVE a.event = "start"
  <2>1. a.table \in Tables /\ a.event \in Events /\ a.time \in 1..clock /\ a.time = Time(a.table, a.event)
    BY <1>4, <1>9
  <2>2. Told(a.event)
    BY <1>1, <1>5, <2>1 DEF Tables
  <2> QED BY <1>9, <2>1, <2>2 DEF Events
<1> DEFINE last == CHOOSE a \in Rows : \A b \in Rows \ {a} : Before(b, a)
<1>10. Lane(child) = IF Rows = {} THEN "none" ELSE IF last.event = "start" THEN "running" ELSE Outcome(child)
  BY DEF Lane, Rows
<1>11. ASSUME Told("complete") \/ Told("start")  PROVE Last(last)
  <2>1. \E a \in Rows : \A b \in Rows \ {a} : Before(b, a)
    BY <1>7, <1>11 DEF Events
  <2> QED BY <2>1
<1> HIDE DEF last
<1>12. CASE Told("complete")
  BY <1>6, <1>8, <1>10, <1>11, <1>12
<1>13. CASE ~Told("complete") /\ Told("start")
  BY <1>6, <1>9, <1>10, <1>11, <1>13
<1>14. CASE ~Told("complete") /\ ~Told("start")
  BY <1>6, <1>10, <1>14
<1> QED BY <1>12, <1>13, <1>14

(* Of a run that is complete nothing goes on. *)
LEMMA WholeShows ==
  ASSUME IInv, ViewInv
  PROVE  CompleteViewIsWhole
<1> SUFFICES ASSUME Viewed, seen.run = "complete"
             PROVE  /\ \A child \in Children : Lane(child) # "running"
                    /\ \A shown \in Concepts \cup History : shown[2] \notin {"running", "pending"}
                    /\ approvalWaitCount = 0
                    /\ Evidence.count = Evidence.complete + Evidence.failed
                    /\ \A n \in Calls :
                         answer[n] # None /\ answer[n].state = "approved"
                           => StepOfCall(n) \in {"succeeded", "failed"}
  BY DEF CompleteViewIsWhole
<1>1. /\ stage = "ended" /\ phase \in {"none", "done"}
      /\ \A n \in Calls : n <= call => answer[n] # None
      /\ \A n \in Calls : answer[n] # None /\ answer[n].state = "approved" => result[n] # "none"
      /\ seen.result = result /\ seen.told = told["transcript"]
  BY DEF ViewInv, WholeInv, Whole, Viewed
<1>2. ASSUME NEW n \in Calls  PROVE row[n].status # "pending"
  <2>1. CASE n <= call
    <3>1. decision[n] \in AnyDecision /\ row[n] = ResolvedRow(decision[n])
      BY <1>1, <2>1 DEF IInv, AnswerInv, Resolved, Types
    <3> QED BY <3>1, DecisionFacts DEF States
  <2>2. CASE n > call
    BY <2>2 DEF ViewInv, ComingInv, NoRow
  <2> QED BY <2>1, <2>2, ApprovalsAssumption DEF Calls, IInv, Types
<1>3. \A n \in Calls : invocation[n] \in {"none", "complete", "failed"}
  BY <1>1 DEF ViewInv, PhaseInv, InspectorTypes
<1>4. \A child \in Children : executions[child] # "running"
  BY <1>1 DEF ViewInv, LaneInv, Events
<1>5. ASSUME NEW child \in Children  PROVE Lane(child) # "running"
  <2> DEFINE Told(event) == seen.told[event][child] # 0 \/ told["stream"][event][child] # 0
  <2>1. Told("start") => Told("complete")
    BY <1>1 DEF ViewInv, LaneInv, ToldInv, Events
  <2>2. Lane(child) = CASE Told("complete") -> Outcome(child)
                        [] ~Told("complete") /\ Told("start") -> "running"
                        [] ~Told("complete") /\ ~Told("start") -> "none"
    BY LaneFollows
  <2> HIDE DEF Told
  <2> QED BY <2>1, <2>2 DEF Outcome
<1>6. ASSUME NEW shown \in Concepts \cup History  PROVE shown[2] \notin {"running", "pending"}
  <2>1. \A s \in Tools : s \in {"complete", "failed"}
    BY <1>3 DEF Tools, Invoked
  <2>2. "pending" \notin Statuses /\ "running" \notin Statuses
    <3>1. ASSUME NEW n \in Calls  PROVE row[n].status # "running"
      <4>1. CASE row[n] = NoRow \/ row[n] = Asked
        BY <4>1 DEF NoRow, Asked
      <4>2. CASE Resolved(n)
        BY <4>2, DecisionFacts DEF IInv, Resolved, Types, States
      <4> QED BY <4>1, <4>2 DEF IInv, RowInv
    <3> QED BY <1>2, <3>1 DEF Statuses
  <2>3. CASE \E s \in Tools : shown = <<"activity", s>>
    BY <2>1, <2>3
  <2>4. CASE \E s \in Statuses : shown = <<"update", s>>
    BY <2>2, <2>4
  <2>5. CASE \E s \in Statuses \cap {"pending"} : shown = <<"timer", s>>
    BY <2>2, <2>5
  <2>6. CASE \E child \in Children : executions[child] # "none" /\ shown[2] = executions[child]
    BY <1>4, <2>6 DEF ViewInv, InspectorTypes
  <2>7. CASE shown = <<"retry", "used">>
    BY <2>7
  <2>8. CASE \E child \in Children : \E r \in SubagentRows(child) : shown = <<"child-workflow", r.event>>
    BY <2>8 DEF SubagentRows, Events
  <2>9. shown \in Concepts =>
          \/ \E s \in Tools : shown = <<"activity", s>>
          \/ \E s \in Statuses : shown = <<"update", s>>
          \/ \E s \in Statuses \cap {"pending"} : shown = <<"timer", s>>
          \/ \E child \in Children : executions[child] # "none" /\ shown[2] = executions[child]
          \/ shown = <<"retry", "used">>
    BY DEF Concepts
  <2>10. shown \in History =>
          \/ \E s \in Tools : shown = <<"activity", s>>
          \/ \E s \in Statuses : shown = <<"update", s>>
          \/ \E s \in Statuses \cap {"pending"} : shown = <<"timer", s>>
          \/ \E child \in Children : executions[child] # "none" /\ shown[2] = executions[child]
          \/ \E child \in Children : \E r \in SubagentRows(child) : shown = <<"child-workflow", r.event>>
    BY DEF History
  <2> QED BY <2>3, <2>4, <2>5, <2>6, <2>7, <2>8, <2>9, <2>10
<1>7. approvalWaitCount = 0
  <2>1. {n \in Calls : row[n].status = "pending"} = {}
    BY <1>2
  <2> QED BY <2>1, FS_EmptySet DEF approvalWaitCount
<1>8. Evidence.count = Evidence.complete + Evidence.failed
  <2> DEFINE complete == {n \in Calls : invocation[n] = "complete"}
             failed == {n \in Calls : invocation[n] = "failed"}
  <2>1. IsFiniteSet(Calls)
    BY FS_Interval, ApprovalsAssumption DEF Calls
  <2>2. IsFiniteSet(complete) /\ IsFiniteSet(failed)
    BY <2>1, FS_Subset
  <2>3. Invoked = complete \cup failed /\ complete \cap failed = {}
    BY <1>3 DEF Invoked
  <2>4. Cardinality(complete \cup failed) = Cardinality(complete) + Cardinality(failed) - Cardinality({})
    BY <2>2, <2>3, FS_Union
  <2>5. Cardinality({}) = 0 /\ Cardinality(complete) \in Nat /\ Cardinality(failed) \in Nat
    BY <2>2, FS_EmptySet, FS_CardinalityType
  <2> HIDE DEF complete, failed
  <2>6. Cardinality(Invoked) = Cardinality(complete) + Cardinality(failed)
    BY <2>3, <2>4, <2>5
  <2> QED BY <2>6 DEF Evidence, complete, failed
<1>9. ASSUME NEW n \in Calls, answer[n] # None, answer[n].state = "approved"
      PROVE  StepOfCall(n) \in {"succeeded", "failed"}
  BY <1>1, <1>9 DEF StepOfCall, ViewInv, InspectorTypes, Results
<1> QED BY <1>5, <1>6, <1>7, <1>8, <1>9

LEMMA ViewShows ==
  ASSUME IInv, ViewInv
  PROVE  InspectorShowsTheRun
<1>1. InspectorTypeOK
  <2>1. \A table \in Tables, event \in Events, child \in Children : told[table][event][child] \in 0..clock
    BY DEF ViewInv, InspectorTypes, TimesInv
  <2>2. told \in [Tables -> [Events -> [Children -> 0..clock]]]
    <3>1. \A table \in Tables : told[table] \in [Events -> [Children -> 0..clock]]
      <4> TAKE table \in Tables
      <4>1. \A event \in Events : told[table][event] \in [Children -> 0..clock]
        BY <2>1 DEF ViewInv, InspectorTypes
      <4> QED BY <4>1 DEF ViewInv, InspectorTypes
    <3> QED BY <3>1 DEF ViewInv, InspectorTypes
  <2>3. now \in [Children -> 0..clock]
    BY DEF ViewInv, InspectorTypes, TimesInv
  <2> QED BY <2>2, <2>3 DEF InspectorTypeOK, ViewInv, InspectorTypes, Views, Results
<1>2. LanesFollowChildren
  BY LaneFollows DEF LanesFollowChildren
<1>3. EvidenceAgreesWithSteps
  <2> SUFFICES ASSUME NEW n \in Invoked, seen.result[n] # "none"
               PROVE  /\ invocation[n] \in {"complete", "failed"}
                      /\ StepOfCall(n) = "failed" <=> invocation[n] = "failed"
    BY DEF EvidenceAgreesWithSteps
  <2>1. n \in Calls /\ invocation[n] # "none"
    BY DEF Invoked
  <2>2. seen.result[n] = result[n] /\ Persisted(n) /\ (result[n] = "error" <=> invocation[n] = "failed")
    BY <2>1 DEF ViewInv, ResultInv
  <2>3. invocation[n] # "running"
    BY <2>1, <2>2, ApprovalsAssumption DEF ViewInv, PhaseInv, Persisted, Calls, IInv, Types
  <2>4. StepOfCall(n) = "failed" <=> result[n] = "error"
    BY <2>1, <2>2 DEF StepOfCall, ViewInv, InspectorTypes, Results
  <2> QED BY <2>1, <2>2, <2>3, <2>4 DEF ViewInv, InspectorTypes
<1>4. WaitingViewShowsRequest
  BY DEF WaitingViewShowsRequest, Viewed, ViewInv, WaitsInv, RequestShown, Shown
<1> QED BY <1>1, <1>2, <1>3, <1>4, WholeShows DEF InspectorShowsTheRun

(* What a statement of an attempt may change: the row of its own call, the transcript, by
   an addition, and, if it is waited for, where the workflow is. *)
StageMoves ==
  \/ UNCHANGED <<stage, answer>>
  \/ stage \in Kinds /\ stage' \in {"waiting", "ended"} /\ UNCHANGED answer
  \/ /\ stage = "resolution"
     /\ \E r : /\ r # None /\ answer' = [answer EXCEPT ![call] = r]
               /\ stage' = IF r.state = "approved" THEN "running" ELSE "refused"

AttemptsMove(p) ==
  \A q \in Attempts :
    /\ q[1] # p[1] => at'[q] = at[q]
    /\ at'[q] = "status" => at[q] = "status" \/ Shown(q[1], transcript)

Moves(p) ==
  /\ call' = call /\ p[1] <= call
  /\ \A n \in Calls : (Recorded(n) => Recorded(n)') /\ (n # p[1] => row'[n] = row[n])
  /\ transcript \subseteq transcript'
  /\ AttemptsMove(p) /\ StageMoves
  /\ runStatus' = "complete" => runStatus = "complete"
  /\ runStatus' = "waiting_approval" => runStatus = "waiting_approval" \/ at[p] = "status"

LEMMA StepMoves ==
  ASSUME IInv, ComingInv, NEW p \in Attempts, Step(p) \/ Abandon(p)
  PROVE  Moves(p)
<1>0. /\ p[1] \in Calls /\ p[2] \in Kinds /\ call \in Nat /\ stage \in Stages /\ p[1] \in Nat
      /\ at \in [Attempts -> RequestSteps \cup ResolutionSteps \cup Still]
      /\ DOMAIN row = Calls
  BY AttemptParts, ApprovalsAssumption DEF IInv, Types, Calls
<1>1. p[1] <= call
  <2>1. CASE at[p] \notin Still
    BY <1>0, <2>1 DEF ComingInv
  <2>2. CASE at[p] \in Still
    <3>1. ~Step(p)
      BY <2>2
      DEF Still, Step, Request, Resolving, Write, CheckKnown, FindRequest, InsertRequest, MoveToWaiting,
          Notify, ReadRow, UpdateRow, RestoreRunning, Answer, InsertAudit, AppendTranscript, PublishCard
    <3> QED BY <1>0, <3>1 DEF Abandon, Awaited
  <2> QED BY <2>1, <2>2
<1>2. ASSUME NEW last \in {at[p], "gone"}, Awaited(p), GiveUp(p, last),
             UNCHANGED <<row, audit, transcript, cards, knew, notified>>
      PROVE  Moves(p)
  <2>1. p[1] = call /\ p[2] = stage
    BY <1>2 DEF Awaited
  <2>2. /\ UNCHANGED <<call, answer, row, transcript>>
        /\ stage' = stage \/ stage' = "ended"
        /\ runStatus' = runStatus \/ runStatus' = "failed"
    BY <1>2 DEF GiveUp
  <2>3. \/ at' = [at EXCEPT ![p] = last]
        \/ at' = [[at EXCEPT ![<<call, p[2], attempt + 1>>] =
                        IF p[2] = "request" THEN "known" ELSE "read"] EXCEPT ![p] = last]
    BY <1>2, <2>1 DEF GiveUp, Start
  <2>4. AttemptsMove(p)
    <3> DEFINE successor == <<call, p[2], attempt + 1>>
    <3>1. ASSUME NEW q \in Attempts
          PROVE  at'[q] \in IF q = p THEN {last} ELSE IF q = successor THEN {at[q], "known", "read"} ELSE {at[q]}
      BY <1>0, <2>3
    <3>2. successor[1] = call
      OBVIOUS
    <3> HIDE DEF successor
    <3> QED BY <2>1, <3>1, <3>2 DEF AttemptsMove
  <2> QED BY <1>0, <1>1, <2>1, <2>2, <2>4 DEF Moves, StageMoves, Recorded, Kinds
<1>3. ASSUME Throw(p)  PROVE Moves(p)
  <2>1. CASE Awaited(p)
    BY <1>2, <1>3, <2>1 DEF Throw
  <2>2. CASE ~Awaited(p)
    <3>1. /\ at' = [at EXCEPT ![p] = "gone"]
          /\ UNCHANGED <<stage, call, answer, row, transcript, runStatus>>
      BY <1>3, <2>2 DEF Throw, workflow
    <3> QED BY <1>0, <1>1, <3>1 DEF Moves, StageMoves, AttemptsMove, Recorded
  <2> QED BY <2>1, <2>2
<1>4. ASSUME NEW next, Goto(p, next), next = "status" => Shown(p[1], transcript),
             \A n \in Calls : (Recorded(n) => Recorded(n)') /\ (n # p[1] => row'[n] = row[n]),
             transcript \subseteq transcript',
             runStatus' = "complete" => runStatus = "complete",
             runStatus' = "waiting_approval" => runStatus = "waiting_approval" \/ at[p] = "status"
      PROVE  Moves(p)
  <2>1. at' = [at EXCEPT ![p] = next] /\ UNCHANGED <<stage, call, answer>>
    BY <1>4 DEF Goto, workflow
  <2>2. AttemptsMove(p)
    BY <1>0, <1>4, <2>1 DEF AttemptsMove
  <2> QED BY <1>1, <1>4, <2>1, <2>2 DEF Moves, StageMoves
<1>5. ASSUME NEW r, Return(p, r), p[2] = "resolution", r # None  PROVE Moves(p)
  <2>1. /\ at' = [at EXCEPT ![p] = "gone"]
        /\ UNCHANGED <<call, row, transcript, runStatus>>
        /\ IF Awaited(p)
             THEN /\ answer' = [answer EXCEPT ![call] = r]
                  /\ stage' = IF r.state = "approved" THEN "running" ELSE "refused"
             ELSE UNCHANGED <<answer, stage>>
    BY <1>5 DEF Return, tables
  <2>2. AttemptsMove(p)
    BY <1>0, <2>1 DEF AttemptsMove
  <2>3. StageMoves
    BY <1>5, <2>1 DEF StageMoves, Awaited
  <2> QED BY <1>1, <2>1, <2>2, <2>3 DEF Moves, Recorded
<1>6. CASE CheckKnown(p) \/ FindRequest(p)
  BY <1>4, <1>6 DEF CheckKnown, FindRequest, tables, Recorded
<1>7. CASE InsertRequest(p)
  <2>1. CASE Throw(p)
    BY <1>3, <2>1
  <2>2. CASE ~Throw(p)
    <3>1. row' = [row EXCEPT ![p[1]] = [status |-> "pending"]] /\ Goto(p, "audit")
          /\ UNCHANGED <<transcript, runStatus>>
      BY <1>7, <2>2 DEF InsertRequest, AfterWrite
    <3>2. \A n \in Calls : (Recorded(n) => Recorded(n)') /\ (n # p[1] => row'[n] = row[n])
      BY <1>0, <3>1 DEF Recorded, NoRow
    <3> QED BY <1>4, <3>1, <3>2
  <2> QED BY <2>1, <2>2
<1>8. CASE MoveToWaiting(p)
  BY <1>4, <1>8 DEF MoveToWaiting, AfterWrite, Recorded
<1>9. CASE Notify(p)
  <2>1. p[2] = "request"
    BY <1>0, <1>9 DEF Notify, IInv, AttemptInv, AttemptOK, ResolutionSteps, Still, Kinds
  <2>2. /\ at' = [at EXCEPT ![p] = "gone"]
        /\ UNCHANGED <<call, answer, row, transcript, runStatus>>
        /\ stage' = IF Awaited(p) THEN "waiting" ELSE stage
    BY <1>9 DEF Notify, tables
  <2>3. AttemptsMove(p) /\ StageMoves
    BY <1>0, <2>1, <2>2 DEF AttemptsMove, StageMoves, Awaited, Kinds
  <2> QED BY <1>1, <2>2, <2>3 DEF Moves, Recorded
<1>10. CASE ReadRow(p)
  <2>1. p[2] = "resolution" /\ decision[p[1]] # None
    BY <1>0, <1>10 DEF ReadRow, IInv, AttemptInv, AttemptOK, RequestSteps, Still, Kinds
  <2>2. CASE Throw(p)
    BY <1>3, <2>2
  <2>3. CASE Recorded(p[1]) /\ row[p[1]].status # "pending" /\ Return(p, CardResolution(row[p[1]]))
    <3>1. Resolved(p[1]) /\ decision[p[1]] \in AnyDecision
      BY <1>0, <2>1, <2>3 DEF IInv, RowInv, Types, Recorded, Asked
    <3>2. CardResolution(row[p[1]]) # None
      BY <3>1, ResolutionFacts DEF Resolved
    <3> QED BY <1>5, <2>1, <2>3, <3>2
  <2>4. CASE Goto(p, "update") /\ UNCHANGED <<tables, knew, notified>>
    BY <1>4, <2>4 DEF tables, Recorded
  <2> QED BY <1>10, <2>2, <2>3, <2>4 DEF ReadRow
<1>11. CASE UpdateRow(p)
  <2>1. decision[p[1]] \in AnyDecision
    BY <1>0, <1>11 DEF UpdateRow, IInv, AttemptInv, AttemptOK, RequestSteps, Still, Kinds, Types
  <2>2. row' = [row EXCEPT ![p[1]] = ResolvedRow(decision[p[1]])] /\ Goto(p, "restore")
        /\ UNCHANGED <<transcript, runStatus>>
    BY <1>11 DEF UpdateRow, AfterWrite
  <2>3. \A n \in Calls : (Recorded(n) => Recorded(n)') /\ (n # p[1] => row'[n] = row[n])
    BY <1>0, <2>1, <2>2, DecisionFacts DEF Recorded
  <2> QED BY <1>4, <2>2, <2>3
<1>12. CASE RestoreRunning(p)
  BY <1>4, <1>12 DEF RestoreRunning, RestoredStatus, AfterWrite, Recorded
<1>13. CASE Answer(p)
  <2>1. p[2] = "resolution" /\ decision[p[1]] \in AnyDecision
    BY <1>0, <1>13 DEF Answer, IInv, AttemptInv, AttemptOK, RequestSteps, Still, Kinds, Types
  <2> QED BY <1>5, <1>13, <2>1, ResolutionFacts DEF Answer
<1>14. CASE InsertAudit(p)
  <2>1. CASE Throw(p)
    BY <1>3, <2>1
  <2>2. CASE ~Throw(p)
    <3>1. Goto(p, "transcript") /\ UNCHANGED <<row, transcript, runStatus>>
      BY <1>0, <1>14, <2>2 DEF InsertAudit, AfterWrite, Kinds
    <3> QED BY <1>4, <3>1 DEF Recorded
  <2> QED BY <2>1, <2>2
<1>15. CASE AppendTranscript(p)
  <2>1. Goto(p, "publish") /\ transcript \subseteq transcript' /\ UNCHANGED <<row, runStatus>>
    BY <1>0, <1>15 DEF AppendTranscript, AfterWrite, Kinds
  <2> QED BY <1>4, <2>1 DEF Recorded
<1>16. CASE PublishCard(p)
  <2>1. /\ Goto(p, IF p[2] = "request" THEN "status" ELSE "answer")
        /\ UNCHANGED <<row, transcript, runStatus>>
    BY <1>0, <1>16 DEF PublishCard, AfterWrite, Kinds
  <2>2. p[2] = "request" => Shown(p[1], transcript)
    BY <1>0, <1>16 DEF PublishCard, IInv, AttemptInv, AttemptOK, Key, Shown
  <2> QED BY <1>4, <2>1, <2>2 DEF Recorded
<1>17. CASE Abandon(p)
  BY <1>2, <1>17 DEF Abandon
<1> QED BY <1>6, <1>7, <1>8, <1>9, <1>10, <1>11, <1>12, <1>13, <1>14, <1>15, <1>16, <1>17
        DEF Step, Request, Resolving, Write

(* What the rows of the children say stays so while the phase stays, or no child is told of. *)
LEMMA LanesStay ==
  ASSUME ViewInv, UNCHANGED <<lanes, seen>>, phase' = phase \/ {phase, phase'} \cap Events = {}
  PROVE  TimesInv' /\ OrderInv' /\ ToldInv' /\ LaneInv'
<1>1. /\ UNCHANGED <<executions, told, clock, now, seen>>
      /\ phase' \in Events => phase = phase'
      /\ phase \in Events => phase = phase'
  BY DEF lanes
<1>2. TimesInv'
  BY <1>1 DEF ViewInv, TimesInv
<1>3. OrderInv' /\ LaneInv'
  BY <1>1 DEF ViewInv, OrderInv, LaneInv, Events
<1>4. ToldInv'
  BY <1>1 DEF ViewInv, ToldInv
<1> QED BY <1>2, <1>3, <1>4

(* What the approvals say stays so while they are not written. *)
LEMMA AskedStay ==
  ASSUME ViewInv, UNCHANGED <<workflow, tables, seen>>,
         UNCHANGED at \/ at' = [p \in Attempts |-> "gone"]
  PROVE  ComingInv' /\ ReturnedInv' /\ WaitsInv'
<1>1. UNCHANGED <<stage, call, answer, row, transcript, runStatus, seen>>
  BY DEF workflow, tables
<1>2. ComingInv'
  BY <1>1 DEF ViewInv, ComingInv, Still
<1>3. ReturnedInv'
  BY <1>1 DEF ViewInv, ReturnedInv
<1>4. WaitsInv'
  BY <1>1 DEF ViewInv, WaitsInv, RequestShown, Shown, Recorded
<1> QED BY <1>2, <1>3, <1>4

LEMMA MovesKeep ==
  ASSUME IInv, ViewInv, NEW p \in Attempts, Moves(p),
         UNCHANGED <<execution, lanes, seen>>
  PROVE  ViewInv'
<1>0. /\ UNCHANGED <<call, phase, invocation, entry, result, executions, told, clock, now, retries, seen>>
      /\ call \in Nat /\ stage \in Stages /\ (stage = "resolution" => call \in Calls) /\ DOMAIN answer = Calls
      /\ p[1] <= call /\ p[1] \in Calls
      /\ StageMoves /\ AttemptsMove(p)
  BY AttemptParts, ApprovalsAssumption DEF IInv, Types, Calls, Moves, execution, lanes
<1>1. InspectorTypes'
  BY <1>0 DEF ViewInv, InspectorTypes
<1>2. ComingInv'
  <2>1. ASSUME NEW n \in Calls, n > call  PROVE row'[n] = NoRow
    BY <1>0, <2>1, ApprovalsAssumption DEF ViewInv, ComingInv, Moves, Calls
  <2>2. ASSUME NEW q \in Attempts, q[1] > call  PROVE at'[q] \in Still
    <3>1. q[1] # p[1]
      BY <1>0, <2>2, AttemptParts, ApprovalsAssumption DEF Calls
    <3> QED BY <1>0, <2>2, <3>1 DEF ViewInv, ComingInv, AttemptsMove
  <2> QED BY <1>0, <2>1, <2>2 DEF ComingInv
<1>3. ReturnedInv'
  <2>1. CASE UNCHANGED <<stage, answer>>
    BY <1>0, <2>1 DEF ViewInv, ReturnedInv
  <2>2. CASE stage \in Kinds /\ stage' \in {"waiting", "ended"} /\ UNCHANGED answer
    BY <1>0, <2>2 DEF ViewInv, ReturnedInv
  <2>3. CASE stage = "resolution" /\ ~UNCHANGED <<stage, answer>> /\ stage' \notin {"waiting", "ended"}
    <3>1. PICK r : /\ r # None /\ answer' = [answer EXCEPT ![call] = r]
                   /\ stage' = IF r.state = "approved" THEN "running" ELSE "refused"
      BY <1>0, <2>3 DEF StageMoves
    <3>2. \A n \in Calls : answer'[n] = IF n = call THEN r ELSE answer[n]
      BY <1>0, <3>1
    <3>3. stage' = "refused" => answer'[call].state # "approved"
      BY <1>0, <2>3, <3>1, <3>2
    <3> QED BY <1>0, <3>1, <3>2, <3>3 DEF ViewInv, ReturnedInv
  <2> QED BY <1>0, <2>1, <2>2, <2>3 DEF StageMoves
<1>4. WaitsInv'
  <2>1. \A n \in Calls : Shown(n, transcript) => Shown(n, transcript)'
    BY DEF Moves, Shown, Recorded
  <2>2. RequestShown(transcript) => RequestShown(transcript)'
    BY <2>1 DEF RequestShown
  <2>3. RequestShown(seen.approvals) => RequestShown(seen.approvals)'
    BY <1>0 DEF Moves, RequestShown, Shown, Recorded
  <2>4. ASSUME NEW q \in Attempts, at'[q] = "status"  PROVE Shown(q[1], transcript)'
    BY <1>0, <2>1, <2>4, AttemptParts DEF AttemptsMove, ViewInv, WaitsInv
  <2>5. at[p] = "status" => RequestShown(transcript)
    BY <1>0 DEF ViewInv, WaitsInv, RequestShown
  <2> QED BY <1>0, <2>2, <2>3, <2>4, <2>5 DEF ViewInv, WaitsInv, Moves, Shown
<1>5. PhaseInv'
  BY <1>0 DEF ViewInv, PhaseInv, StageMoves, Kinds
<1>6. ResultInv'
  BY <1>0 DEF ViewInv, ResultInv, Persisted
<1>7. WholeInv'
  <2>1. ASSUME Whole  PROVE Whole'
    <3>1. UNCHANGED <<stage, answer>>
      BY <1>0, <2>1 DEF Whole, StageMoves, Kinds
    <3> QED BY <1>0, <2>1, <3>1 DEF Whole
  <2> QED BY <1>0, <2>1 DEF ViewInv, WholeInv, Moves
<1>8. TimesInv' /\ OrderInv' /\ ToldInv' /\ LaneInv'
  BY <1>0, LanesStay
<1> QED BY <1>1, <1>2, <1>3, <1>4, <1>5, <1>6, <1>7, <1>8 DEF ViewInv

LEMMA AskViewed ==
  ASSUME IInv, ViewInv, Free, AskForApproval, phase' = "none",
         UNCHANGED <<invocation, entry, result, lanes, seen>>
  PROVE  ViewInv'
<1>0. /\ stage = "running" /\ call < MaxCalls /\ call' = call + 1 /\ stage' = "request"
      /\ call = 0 \/ phase = "done"
      /\ at' = [at EXCEPT ![<<call + 1, "request", 1>>] = "known"]
      /\ UNCHANGED <<answer, row, transcript, runStatus>>
      /\ UNCHANGED <<invocation, entry, result, executions, told, clock, now, retries, seen>>
      /\ call \in Nat /\ MaxCalls \in Nat /\ DOMAIN at = Attempts
  BY ApprovalsAssumption DEF Free, AskForApproval, Start, tables, lanes, IInv, Types
<1>1. InspectorTypes'
  BY <1>0 DEF ViewInv, InspectorTypes
<1>2. ComingInv'
  <2>1. ASSUME NEW n \in Calls, n > call + 1  PROVE row'[n] = NoRow
    BY <1>0, <2>1 DEF ViewInv, ComingInv, Calls
  <2>2. ASSUME NEW q \in Attempts, q[1] > call + 1  PROVE at'[q] \in Still
    <3>1. q # <<call + 1, "request", 1>> /\ q[1] > call
      BY <1>0, <2>2, AttemptParts DEF Calls
    <3> QED BY <1>0, <3>1 DEF ViewInv, ComingInv
  <2> QED BY <1>0, <2>1, <2>2 DEF ComingInv
<1>3. ReturnedInv'
  BY <1>0 DEF ViewInv, ReturnedInv, Calls
<1>4. WaitsInv'
  <2>1. \A q \in Attempts : at'[q] = "status" => at[q] = "status"
    BY <1>0
  <2> QED BY <1>0, <2>1 DEF ViewInv, WaitsInv, RequestShown, Shown, Recorded
<1>5. PhaseInv'
  BY <1>0 DEF ViewInv, PhaseInv, Calls
<1>6. ResultInv'
  <2>1. \A n \in Calls : Persisted(n)' <=> Persisted(n)
    BY <1>0 DEF Persisted, Calls
  <2> QED BY <1>0, <2>1 DEF ViewInv, ResultInv
<1>7. WholeInv'
  BY <1>0 DEF ViewInv, WholeInv, Whole
<1>8. TimesInv' /\ OrderInv' /\ ToldInv' /\ LaneInv'
  <2>1. phase \notin Events
    BY <1>0 DEF ViewInv, PhaseInv, Events
  <2> QED BY <2>1, LanesStay DEF Events
<1> QED BY <1>1, <1>2, <1>3, <1>4, <1>5, <1>6, <1>7, <1>8 DEF ViewInv

LEMMA DecideViewed ==
  ASSUME IInv, ViewInv, NEW d \in AnyDecision, Decide(d), UNCHANGED <<execution, lanes, seen>>
  PROVE  ViewInv'
<1>0. /\ stage = "waiting" /\ stage' = "resolution"
      /\ at' = [at EXCEPT ![<<call, "resolution", 1>>] = "read"]
      /\ UNCHANGED <<call, answer, row, transcript, runStatus>>
      /\ UNCHANGED <<phase, invocation, entry, result, executions, told, clock, now, retries, seen>>
      /\ call \in Nat /\ DOMAIN at = Attempts
  BY ApprovalsAssumption DEF Decide, Start, tables, execution, lanes, IInv, Types
<1>1. InspectorTypes'
  BY <1>0 DEF ViewInv, InspectorTypes
<1>2. ComingInv'
  <2>1. ASSUME NEW q \in Attempts, q[1] > call  PROVE at'[q] \in Still
    <3>1. q # <<call, "resolution", 1>>
      BY <1>0, <2>1, AttemptParts DEF Calls
    <3> QED BY <1>0, <2>1, <3>1 DEF ViewInv, ComingInv
  <2> QED BY <1>0, <2>1 DEF ViewInv, ComingInv
<1>3. ReturnedInv'
  BY <1>0 DEF ViewInv, ReturnedInv
<1>4. WaitsInv'
  <2>1. \A q \in Attempts : at'[q] = "status" => at[q] = "status"
    BY <1>0
  <2> QED BY <1>0, <2>1 DEF ViewInv, WaitsInv, RequestShown, Shown, Recorded
<1>5. PhaseInv'
  BY <1>0 DEF ViewInv, PhaseInv
<1>6. ResultInv'
  BY <1>0 DEF ViewInv, ResultInv, Persisted
<1>7. WholeInv'
  BY <1>0 DEF ViewInv, WholeInv, Whole
<1>8. TimesInv' /\ OrderInv' /\ ToldInv' /\ LaneInv'
  BY <1>0, LanesStay
<1> QED BY <1>1, <1>2, <1>3, <1>4, <1>5, <1>6, <1>7, <1>8 DEF ViewInv

(* A run that is recorded complete has answered its calls and has their results. *)
LEMMA CompleteViewed ==
  ASSUME IInv, ViewInv, stage = "refused" \/ Free, Complete, UNCHANGED <<execution, lanes, seen>>
  PROVE  ViewInv'
<1>0. /\ stage \in {"running", "refused"} /\ stage' = "ended"
      /\ stage = "running" => call = 0 \/ phase = "done"
      /\ runStatus' \in {"cancelled", "complete"}
      /\ UNCHANGED <<call, answer, row, transcript, at>>
      /\ UNCHANGED <<phase, invocation, entry, result, executions, told, clock, now, retries, seen>>
      /\ call \in Nat /\ (stage = "refused" => call \in Calls)
  BY ApprovalsAssumption DEF Complete, Free, execution, lanes, IInv, Types
<1>1. InspectorTypes'
  BY <1>0 DEF ViewInv, InspectorTypes
<1>2. ComingInv'
  BY <1>0 DEF ViewInv, ComingInv
<1>3. ReturnedInv'
  BY <1>0 DEF ViewInv, ReturnedInv
<1>4. WaitsInv'
  BY <1>0 DEF ViewInv, WaitsInv, RequestShown, Shown, Recorded
<1>5. PhaseInv'
  BY <1>0 DEF ViewInv, PhaseInv
<1>6. ResultInv'
  BY <1>0 DEF ViewInv, ResultInv, Persisted
<1>7. WholeInv'
  <2>1. phase \in {"none", "done"}
    BY <1>0 DEF ViewInv, PhaseInv
  <2>2. ASSUME NEW n \in Calls, n <= call  PROVE answer[n] # None
    BY <1>0, <2>2, ApprovalsAssumption DEF ViewInv, ReturnedInv, Calls
  <2>3. ASSUME NEW n \in Calls, answer[n] # None, answer[n].state = "approved"  PROVE result[n] # "none"
    <3>1. n <= call
      BY <2>3, ApprovalsAssumption
      DEF IInv, Types, AnswerInv, Resolved, DecisionInv, Undecided, Calls
    <3>2. Persisted(n)
      BY <1>0, <2>3, <3>1, ApprovalsAssumption DEF ViewInv, ReturnedInv, Persisted, Calls
    <3> QED BY <3>2 DEF ViewInv, ResultInv
  <2>4. Whole'
    BY <1>0, <2>1, <2>2, <2>3 DEF Whole
  <2> QED BY <1>0, <2>4 DEF ViewInv, WholeInv
<1>8. TimesInv' /\ OrderInv' /\ ToldInv' /\ LaneInv'
  BY <1>0, LanesStay
<1> QED BY <1>1, <1>2, <1>3, <1>4, <1>5, <1>6, <1>7, <1>8 DEF ViewInv

LEMMA ApprovingViewed ==
  ASSUME IInv, ViewInv, Approving
  PROVE  ViewInv'
<1>0. /\ phase' = IF call' # call THEN "none" ELSE phase
      /\ UNCHANGED <<invocation, entry, result, lanes, seen>>
      /\ call \in Nat
  BY ApprovalsAssumption DEF Approving, IInv, Types
<1>1. CASE Free /\ AskForApproval
  BY <1>0, <1>1, AskViewed DEF AskForApproval
<1>2. CASE (stage = "refused" \/ Free) /\ Complete
  BY <1>0, <1>2, CompleteViewed DEF Complete, execution
<1>3. CASE Resolve \/ Expire
  <2>1. PICK d \in AnyDecision : Decide(d)
    BY <1>3 DEF Resolve, Expire, AnyDecision
  <2> QED BY <1>0, <2>1, DecideViewed DEF Decide, execution
<1>4. ASSUME NEW p \in Attempts, Step(p) \/ Abandon(p)  PROVE ViewInv'
  <2>1. Moves(p)
    BY <1>4, StepMoves DEF ViewInv
  <2> QED BY <1>0, <2>1, MovesKeep DEF Moves, execution
<1> QED BY <1>1, <1>2, <1>3, <1>4 DEF Approving

(* The call that is worked on. *)
LEMMA CallWorked ==
  ASSUME IInv, ViewInv, phase # "none" \/ Approved
  PROVE  call \in Calls /\ (phase = "none" => ~Persisted(call))
BY ApprovalsAssumption DEF IInv, Types, ViewInv, PhaseInv, Approved, Calls, Persisted

(* A tool is called, its key is reserved and settled, and its result persisted. *)
LEMMA ExecuteViewed ==
  ASSUME IInv, ViewInv, Execute
  PROVE  ViewInv'
<1>0. /\ stage = "running" /\ phase = "none" /\ phase' = "tool" /\ call \in Calls /\ call \in Nat
      /\ invocation' = [invocation EXCEPT ![call] = "running"]
      /\ at' = [p \in Attempts |-> "gone"]
      /\ UNCHANGED <<workflow, tables, stage, call, answer, runStatus>>
      /\ UNCHANGED <<entry, result, lanes, executions, told, clock, now, retries, seen>>
  BY CallWorked, ApprovalsAssumption DEF Execute, Approved, Forget, workflow, tables, lanes, Calls
<1>1. InspectorTypes'
  BY <1>0 DEF ViewInv, InspectorTypes
<1>2. ComingInv' /\ ReturnedInv' /\ WaitsInv'
  BY <1>0, AskedStay
<1>3. PhaseInv'
  BY <1>0, ApprovalsAssumption DEF ViewInv, PhaseInv, InspectorTypes, Calls
<1>4. ResultInv'
  <2>1. \A n \in Calls : (Persisted(n)' <=> Persisted(n)) /\ (Persisted(n) => n # call)
    BY <1>0, ApprovalsAssumption DEF Persisted, Calls
  <2> QED BY <1>0, <2>1 DEF ViewInv, ResultInv, InspectorTypes
<1>5. WholeInv'
  BY <1>0 DEF ViewInv, WholeInv, Whole
<1>6. TimesInv' /\ OrderInv' /\ ToldInv' /\ LaneInv'
  BY <1>0, LanesStay DEF Events
<1> QED BY <1>1, <1>2, <1>3, <1>4, <1>5, <1>6 DEF ViewInv

LEMMA KeyViewed ==
  ASSUME IInv, ViewInv, ReserveKey \/ SettleKey
  PROVE  ViewInv'
<1>0. /\ UNCHANGED <<vars, workflow, tables, at, stage, call, answer, runStatus, phase, invocation, result>>
      /\ UNCHANGED <<lanes, executions, told, clock, now, retries, seen>>
      /\ \E status \in {"pending", "complete", "failed"} : entry' = [entry EXCEPT ![call] = status]
  BY DEF ReserveKey, SettleKey, vars, workflow, tables, lanes
<1>1. InspectorTypes'
  BY <1>0 DEF ViewInv, InspectorTypes
<1>2. ComingInv' /\ ReturnedInv' /\ WaitsInv'
  BY <1>0, AskedStay
<1>3. PhaseInv'
  BY <1>0 DEF ViewInv, PhaseInv
<1>4. ResultInv'
  BY <1>0 DEF ViewInv, ResultInv, Persisted
<1>5. WholeInv'
  BY <1>0 DEF ViewInv, WholeInv, Whole
<1>6. TimesInv' /\ OrderInv' /\ ToldInv' /\ LaneInv'
  BY <1>0, LanesStay
<1> QED BY <1>1, <1>2, <1>3, <1>4, <1>5, <1>6 DEF ViewInv

LEMMA SettleViewed ==
  ASSUME IInv, ViewInv, SettleInvocation
  PROVE  ViewInv'
<1>0. /\ phase = "tool" /\ phase' = "result" /\ call \in Calls /\ call \in Nat
      /\ UNCHANGED <<vars, workflow, tables, at, stage, call, answer, runStatus, entry, result>>
      /\ UNCHANGED <<lanes, executions, told, clock, now, retries, seen>>
  BY CallWorked, ApprovalsAssumption DEF SettleInvocation, vars, workflow, tables, lanes, Calls
<1>1. PICK status \in {"complete", "failed"} : invocation' = [invocation EXCEPT ![call] = status]
  <2>1. Settlements \subseteq {"complete", "failed"}
    BY <1>0 DEF Settlements, ViewInv, InspectorTypes
  <2> QED BY <2>1 DEF SettleInvocation
<1>2. InspectorTypes'
  BY <1>0, <1>1 DEF ViewInv, InspectorTypes
<1>3. ComingInv' /\ ReturnedInv' /\ WaitsInv'
  BY <1>0, AskedStay
<1>4. PhaseInv'
  BY <1>0, <1>1 DEF ViewInv, PhaseInv, InspectorTypes
<1>5. ResultInv'
  <2>1. \A n \in Calls : (Persisted(n)' <=> Persisted(n)) /\ (Persisted(n) => n # call)
    BY <1>0, ApprovalsAssumption DEF Persisted, Calls
  <2> QED BY <1>0, <1>1, <2>1 DEF ViewInv, ResultInv, InspectorTypes
<1>6. WholeInv'
  BY <1>0 DEF ViewInv, WholeInv, Whole
<1>7. TimesInv' /\ OrderInv' /\ ToldInv' /\ LaneInv'
  BY <1>0, LanesStay DEF Events
<1> QED BY <1>2, <1>3, <1>4, <1>5, <1>6, <1>7 DEF ViewInv

LEMMA PersistViewed ==
  ASSUME IInv, ViewInv, PersistToolResult
  PROVE  ViewInv'
<1>0. /\ phase = "result" /\ phase' = "done" /\ call \in Calls /\ call \in Nat
      /\ result' = [result EXCEPT ![call] = IF invocation[call] = "failed" THEN "error" ELSE "ok"]
      /\ UNCHANGED <<vars, workflow, tables, at, stage, call, answer, runStatus, entry, invocation>>
      /\ UNCHANGED <<lanes, executions, told, clock, now, retries, seen>>
  BY CallWorked, ApprovalsAssumption DEF PersistToolResult, vars, workflow, tables, lanes, Calls
<1>2. InspectorTypes'
  BY <1>0 DEF ViewInv, InspectorTypes, Results
<1>3. ComingInv' /\ ReturnedInv' /\ WaitsInv'
  BY <1>0, AskedStay
<1>4. PhaseInv'
  BY <1>0 DEF ViewInv, PhaseInv
<1>5. ResultInv'
  <2>1. ASSUME NEW n \in Calls
        PROVE  /\ Persisted(n)' <=> Persisted(n) \/ n = call
               /\ Persisted(n) => n # call
               /\ result'[n] = IF n = call THEN IF invocation[n] = "failed" THEN "error" ELSE "ok" ELSE result[n]
               /\ seen.result[n] # "none" => n # call
    BY <1>0, ApprovalsAssumption DEF Persisted, Calls, ViewInv, InspectorTypes, ResultInv
  <2> QED BY <1>0, <2>1 DEF ViewInv, ResultInv
<1>6. WholeInv'
  BY <1>0 DEF ViewInv, WholeInv, Whole
<1>7. TimesInv' /\ OrderInv' /\ ToldInv' /\ LaneInv'
  BY <1>0, LanesStay DEF Events
<1> QED BY <1>2, <1>3, <1>4, <1>5, <1>6, <1>7 DEF ViewInv

LEMMA FailViewed ==
  ASSUME IInv, ViewInv, FailRun
  PROVE  ViewInv'
<1>0. /\ stage = "running" /\ call \in Calls /\ stage' = "ended" /\ runStatus' = "failed"
      /\ UNCHANGED <<call, answer, row, transcript, at, phase, invocation, entry, result>>
      /\ UNCHANGED <<lanes, executions, told, clock, now, retries, seen>>
  BY CallWorked DEF FailRun, Approved, execution, lanes
<1>1. InspectorTypes'
  BY <1>0 DEF ViewInv, InspectorTypes
<1>2. ComingInv' /\ ReturnedInv'
  BY <1>0 DEF ViewInv, ComingInv, ReturnedInv
<1>3. WaitsInv'
  BY <1>0 DEF ViewInv, WaitsInv, RequestShown, Shown, Recorded
<1>4. PhaseInv'
  BY <1>0 DEF ViewInv, PhaseInv
<1>5. ResultInv'
  BY <1>0 DEF ViewInv, ResultInv, Persisted
<1>6. WholeInv'
  BY <1>0 DEF ViewInv, WholeInv, Whole
<1>7. TimesInv' /\ OrderInv' /\ ToldInv' /\ LaneInv'
  BY <1>0, LanesStay
<1> QED BY <1>1, <1>2, <1>3, <1>4, <1>5, <1>6, <1>7 DEF ViewInv

(* Children are begun, recorded, told of and joined while nothing else is written. *)
LEMMA WorkStays ==
  ASSUME IInv, ViewInv, UNCHANGED <<workflow, tables, invocation, entry, result, seen>>,
         UNCHANGED at \/ at' = [p \in Attempts |-> "gone"],
         phase \in Events \/ (Approved /\ phase = "none"),
         phase' \in Events \cup {"result"}
  PROVE  ComingInv' /\ ReturnedInv' /\ WaitsInv' /\ PhaseInv' /\ ResultInv' /\ WholeInv'
<1>0. /\ UNCHANGED <<stage, call, answer, runStatus>>
      /\ phase \notin {"tool", "done", "result"} /\ phase' \notin {"none", "tool", "done"}
      /\ call \in Calls /\ stage \notin {"request", "waiting", "resolution", "refused"} /\ call # 0
  BY CallWorked, ApprovalsAssumption DEF workflow, tables, Events, Approved, ViewInv, PhaseInv, Calls
<1>1. ComingInv' /\ ReturnedInv' /\ WaitsInv'
  BY AskedStay
<1>2. PhaseInv'
  BY <1>0 DEF ViewInv, PhaseInv
<1>3. ResultInv'
  BY <1>0 DEF ViewInv, ResultInv, Persisted
<1>4. WholeInv'
  <2>1. ~Whole
    BY <1>0 DEF Whole, Approved, Events
  <2> QED BY <1>0, <2>1 DEF ViewInv, WholeInv
<1> QED BY <1>1, <1>2, <1>3, <1>4

LEMMA ForkViewed ==
  ASSUME IInv, ViewInv, Fork
  PROVE  ViewInv'
<1>0. /\ Approved /\ phase = "none" /\ phase' = "start" /\ clock = 0 /\ clock' = 1
      /\ now' = [child \in Children |-> 1]
      /\ at' = [p \in Attempts |-> "gone"] /\ UNCHANGED <<workflow, tables>>
      /\ UNCHANGED <<invocation, entry, result, executions, told, retries, seen>>
  BY DEF Fork, Begun, Forget
<1>1. InspectorTypes'
  BY <1>0 DEF ViewInv, InspectorTypes
<1>2. ComingInv' /\ ReturnedInv' /\ WaitsInv' /\ PhaseInv' /\ ResultInv' /\ WholeInv'
  BY <1>0, WorkStays DEF Events
<1>3. \A table \in Tables, event \in Events, child \in Children : told[table][event][child] = 0
  BY <1>0 DEF ViewInv, TimesInv, InspectorTypes
<1>4. TimesInv'
  BY <1>0, <1>3 DEF TimesInv
<1>5. OrderInv' /\ ToldInv'
  BY <1>0, <1>3 DEF ViewInv, OrderInv, ToldInv, Events, Tables
<1>6. LaneInv'
  BY <1>0, <1>3 DEF ViewInv, LaneInv, Events, Tables
<1> QED BY <1>1, <1>2, <1>4, <1>5, <1>6 DEF ViewInv

LEMMA RecordExecutionViewed ==
  ASSUME IInv, ViewInv, NEW one \in Children, RecordExecution(one)
  PROVE  ViewInv'
<1>0. /\ phase \in Events /\ phase' = phase
      /\ UNCHANGED <<workflow, tables, at, invocation, entry, result, seen, told, clock, now, retries>>
  BY DEF RecordExecution, vars, execution, Events
<1>1. InspectorTypes'
  BY <1>0 DEF ViewInv, InspectorTypes, RecordExecution
<1>2. ComingInv' /\ ReturnedInv' /\ WaitsInv' /\ PhaseInv' /\ ResultInv' /\ WholeInv'
  BY <1>0, WorkStays
<1>3. TimesInv' /\ OrderInv'
  BY <1>0 DEF ViewInv, TimesInv, OrderInv
<1>4. ToldInv'
  BY <1>0 DEF ViewInv, ToldInv
<1>5. LaneInv'
  <2>1. clock # 0
    BY <1>0 DEF ViewInv, TimesInv
  <2>2. ASSUME NEW child \in Children, told["transcript"]["complete"][child] # 0
        PROVE  executions'[child] \in {"completed", "failed"}
    BY <1>0, <2>2 DEF RecordExecution, ViewInv, LaneInv, InspectorTypes
  <2> QED BY <1>0, <2>1, <2>2 DEF ViewInv, LaneInv
<1> QED BY <1>1, <1>2, <1>3, <1>4, <1>5 DEF ViewInv

LEMMA RecordEventViewed ==
  ASSUME IInv, ViewInv, NEW one \in Children, NEW to \in Tables, RecordEvent(one, to)
  PROVE  ViewInv'
<1>0. /\ phase \in Events /\ phase' = phase /\ told[to][phase][one] = 0 /\ ExecutionRecorded(one)
      /\ to = "stream" => told["transcript"][phase][one] # 0
      /\ UNCHANGED <<workflow, tables, at, invocation, entry, result, seen, executions, clock, now, retries>>
  BY DEF RecordEvent, vars, execution
<1>1. /\ told' \in [Tables -> [Events -> [Children -> Nat]]]
      /\ \A table \in Tables, event \in Events, child \in Children :
           told'[table][event][child] = IF table = to /\ event = phase /\ child = one
                                          THEN now[one] ELSE told[table][event][child]
  <2>1. told \in [Tables -> [Events -> [Children -> Nat]]] /\ now[one] \in Nat
    BY DEF ViewInv, InspectorTypes
  <2>2. told' = [told EXCEPT ![to] = [told[to] EXCEPT ![phase] = [told[to][phase] EXCEPT ![one] = now[one]]]]
    BY <2>1 DEF RecordEvent
  <2>3. [told[to][phase] EXCEPT ![one] = now[one]] \in [Children -> Nat]
    BY <1>0, <2>1
  <2>4. [told[to] EXCEPT ![phase] = [told[to][phase] EXCEPT ![one] = now[one]]] \in [Events -> [Children -> Nat]]
    BY <1>0, <2>1, <2>3
  <2>5. told' \in [Tables -> [Events -> [Children -> Nat]]]
    BY <2>1, <2>2, <2>4
  <2>6. ASSUME NEW table \in Tables, NEW event \in Events, NEW child \in Children
        PROVE  told'[table][event][child] = IF table = to /\ event = phase /\ child = one
                                              THEN now[one] ELSE told[table][event][child]
    BY <1>0, <2>1, <2>2
  <2> QED BY <2>5, <2>6
<1>2. now[one] \in 1..clock /\ clock \in Nat
  BY <1>0 DEF ViewInv, TimesInv, InspectorTypes
<1>3. InspectorTypes'
  BY <1>0, <1>1 DEF ViewInv, InspectorTypes
<1>4. ComingInv' /\ ReturnedInv' /\ WaitsInv' /\ PhaseInv' /\ ResultInv' /\ WholeInv'
  BY <1>0, WorkStays
<1>5. TimesInv'
  <2>1. ASSUME NEW table \in Tables, NEW event \in Events, NEW child \in Children
        PROVE  told'[table][event][child] <= clock
    <3>1. told[table][event][child] <= clock
      BY DEF ViewInv, TimesInv
    <3> QED BY <1>1, <1>2, <3>1
  <2> QED BY <1>0, <2>1 DEF ViewInv, TimesInv
<1>6. OrderInv'
  <2> SUFFICES ASSUME NEW child \in Children, NEW first \in Tables, NEW other \in Tables
               PROVE  /\ told'[other]["complete"][child] # 0
                           => told'[first]["start"][child] < told'[other]["complete"][child]
                      /\ phase' = "complete" => told'[first]["start"][child] < now'[child]
    BY DEF OrderInv
  <2>1. /\ told[other]["complete"][child] # 0 => told[first]["start"][child] < told[other]["complete"][child]
        /\ phase = "complete" => told[first]["start"][child] < now[child]
    BY DEF ViewInv, OrderInv
  <2>2. CASE phase = "start"
    <3>1. told[other]["complete"][child] = 0
      BY <2>2 DEF ViewInv, LaneInv, ToldInv, Events, Tables
    <3> QED BY <1>0, <1>1, <2>2, <3>1 DEF Events
  <2>3. CASE phase = "complete"
    BY <1>0, <1>1, <2>1, <2>3 DEF Events
  <2> QED BY <1>0, <2>2, <2>3 DEF Events
<1>7. ToldInv'
  BY <1>0, <1>1, <1>2 DEF ViewInv, ToldInv, Tables, Events
<1>8. LaneInv'
  BY <1>0, <1>1, <1>2 DEF ViewInv, LaneInv, ExecutionRecorded, Tables, Events, InspectorTypes
<1> QED BY <1>3, <1>4, <1>5, <1>6, <1>7, <1>8 DEF ViewInv

LEMMA RetryViewed ==
  ASSUME IInv, ViewInv, NEW one \in Children, Retry(one)
  PROVE  ViewInv'
<1>0. /\ phase \in Events /\ phase' = phase /\ clock' = clock + 1
      /\ retries < MaxRetries /\ retries' = retries + 1
      /\ now' = [child \in Children |-> IF child = one THEN clock + 1 ELSE now[child]]
      /\ UNCHANGED <<workflow, tables, at, invocation, entry, result, seen, executions, told>>
  BY DEF Retry, Begun, vars, execution
<1>1. InspectorTypes'
  BY <1>0, InspectorAssumption DEF ViewInv, InspectorTypes
<1>2. ComingInv' /\ ReturnedInv' /\ WaitsInv' /\ PhaseInv' /\ ResultInv' /\ WholeInv'
  BY <1>0, WorkStays
<1>3. \A table \in Tables, event \in Events, child \in Children :
        told[table][event][child] \in 0..clock /\ clock \in Nat /\ now[child] \in 0..clock
  BY DEF ViewInv, InspectorTypes, TimesInv
<1>4. TimesInv'
  BY <1>0, <1>3 DEF ViewInv, TimesInv, InspectorTypes
<1>5. OrderInv'
  BY <1>0, <1>3 DEF ViewInv, OrderInv, Events
<1>6. ToldInv'
  BY <1>0 DEF ViewInv, ToldInv
<1>7. LaneInv'
  BY <1>0 DEF ViewInv, LaneInv, InspectorTypes
<1> QED BY <1>1, <1>2, <1>4, <1>5, <1>6, <1>7 DEF ViewInv

LEMMA ChildrenReturnViewed ==
  ASSUME IInv, ViewInv, ChildrenReturn
  PROVE  ViewInv'
<1>0. /\ phase = "start" /\ phase' = "complete" /\ clock' = clock + 1
      /\ now' = [child \in Children |-> clock + 1]
      /\ UNCHANGED <<workflow, tables, at, invocation, entry, result, seen, executions, told, retries>>
  BY DEF ChildrenReturn, Begun, vars
<1>1. InspectorTypes'
  BY <1>0 DEF ViewInv, InspectorTypes
<1>2. ComingInv' /\ ReturnedInv' /\ WaitsInv' /\ PhaseInv' /\ ResultInv' /\ WholeInv'
  BY <1>0, WorkStays DEF Events
<1>3. /\ clock \in Nat
      /\ \A table \in Tables, event \in Events, child \in Children : told[table][event][child] \in 0..clock
  BY DEF ViewInv, InspectorTypes, TimesInv
<1>4. TimesInv'
  BY <1>0, <1>3 DEF TimesInv
<1>5. OrderInv'
  BY <1>0, <1>3 DEF ViewInv, OrderInv, Events
<1>6. ToldInv'
  BY <1>0 DEF ViewInv, ToldInv
<1>7. LaneInv'
  BY <1>0, <1>3 DEF ViewInv, LaneInv, Events
<1> QED BY <1>1, <1>2, <1>4, <1>5, <1>6, <1>7 DEF ViewInv

(* The children that were joined have all been told of. *)
LEMMA JoinViewed ==
  ASSUME IInv, ViewInv, Join
  PROVE  ViewInv'
<1>0. /\ phase = "complete" /\ phase' = "result" /\ AllTold
      /\ UNCHANGED <<workflow, tables, at, invocation, entry, result, seen, executions, told, clock, now, retries>>
  BY DEF Join, vars, lanes
<1>1. InspectorTypes'
  BY <1>0 DEF ViewInv, InspectorTypes
<1>2. ComingInv' /\ ReturnedInv' /\ WaitsInv' /\ PhaseInv' /\ ResultInv' /\ WholeInv'
  BY <1>0, WorkStays DEF Events
<1>3. TimesInv' /\ OrderInv'
  BY <1>0 DEF ViewInv, TimesInv, OrderInv, Events
<1>4. ToldInv'
  BY <1>0 DEF ViewInv, ToldInv
<1>5. LaneInv'
  BY <1>0 DEF ViewInv, LaneInv, ToldInv, AllTold, Events
<1> QED BY <1>1, <1>2, <1>3, <1>4, <1>5 DEF ViewInv

LEMMA TrimViewed ==
  ASSUME IInv, ViewInv, Trim
  PROVE  ViewInv'
<1>0. /\ runStatus = "complete"
      /\ UNCHANGED <<workflow, tables, at, stage, call, answer, runStatus, phase, invocation, entry, result>>
      /\ UNCHANGED <<seen, executions, clock, now, retries>>
  BY DEF Trim, vars, execution, workflow, tables
<1>1. /\ told' \in [Tables -> [Events -> [Children -> Nat]]]
      /\ told'["transcript"] = told["transcript"]
      /\ \A event \in Events, child \in Children : told'["stream"][event][child] = 0
  BY DEF Trim, ViewInv, InspectorTypes, Tables, NotTold
<1>2. phase \notin Events
  BY <1>0 DEF ViewInv, WholeInv, Whole, Events
<1>3. InspectorTypes'
  BY <1>0, <1>1 DEF ViewInv, InspectorTypes
<1>4. ComingInv' /\ ReturnedInv' /\ WaitsInv'
  BY <1>0, AskedStay
<1>5. PhaseInv' /\ ResultInv'
  BY <1>0 DEF ViewInv, PhaseInv, ResultInv, Persisted
<1>6. WholeInv'
  BY <1>0, <1>1 DEF ViewInv, WholeInv, Whole
<1>7. TimesInv'
  BY <1>0, <1>1, <1>2 DEF ViewInv, InspectorTypes, TimesInv, Tables
<1>8. OrderInv'
  BY <1>0, <1>1, <1>2 DEF ViewInv, OrderInv, Tables, Events, InspectorTypes
<1>9. ToldInv' /\ LaneInv'
  BY <1>0, <1>1 DEF ViewInv, ToldInv, LaneInv, Tables, Events
<1> QED BY <1>3, <1>4, <1>5, <1>6, <1>7, <1>8, <1>9 DEF ViewInv

(* The inspector reads the run, and later the transcript. *)
LEMMA ReadRunViewed ==
  ASSUME IInv, ViewInv, ReadRun
  PROVE  ViewInv'
<1>0. /\ seen.at = "none" /\ seen' = [seen EXCEPT !.at = "run", !.run = runStatus]
      /\ UNCHANGED <<at, stage, call, answer, row, transcript, runStatus, phase, invocation, entry, result>>
      /\ UNCHANGED <<executions, told, clock, now, retries>>
  BY DEF ReadRun, vars, execution, lanes, workflow, tables
<1>1. /\ seen \in Views /\ runStatus \in RunStatuses
      /\ seen'.at = "run" /\ seen'.run = runStatus /\ seen'.approvals = seen.approvals
      /\ seen'.result = seen.result /\ seen'.told = seen.told /\ seen' \in Views
  BY <1>0 DEF ViewInv, InspectorTypes, IInv, Types, RunStatuses, Views
<1>2. InspectorTypes'
  BY <1>0, <1>1 DEF ViewInv, InspectorTypes
<1>3. ComingInv' /\ ReturnedInv'
  BY <1>0 DEF ViewInv, ComingInv, ReturnedInv
<1>4. WaitsInv'
  BY <1>0, <1>1 DEF ViewInv, WaitsInv, RequestShown, Shown, Recorded
<1>5. PhaseInv' /\ ResultInv'
  BY <1>0, <1>1 DEF ViewInv, PhaseInv, ResultInv, Persisted
<1>6. WholeInv'
  BY <1>0, <1>1 DEF ViewInv, WholeInv, Whole
<1>7. TimesInv' /\ OrderInv' /\ LaneInv'
  BY <1>0 DEF ViewInv, TimesInv, OrderInv, LaneInv
<1>8. ToldInv'
  BY <1>0, <1>1 DEF ViewInv, ToldInv
<1> QED BY <1>2, <1>3, <1>4, <1>5, <1>6, <1>7, <1>8 DEF ViewInv

LEMMA ReadTranscriptViewed ==
  ASSUME IInv, ViewInv, ReadTranscript
  PROVE  ViewInv'
<1>0. /\ seen.at = "run"
      /\ seen' = [seen EXCEPT !.at = "transcript", !.approvals = transcript, !.result = result,
                              !.told = told["transcript"]]
      /\ UNCHANGED <<at, stage, call, answer, row, transcript, runStatus, phase, invocation, entry, result>>
      /\ UNCHANGED <<executions, told, clock, now, retries>>
  BY DEF ReadTranscript, vars, execution, lanes, workflow, tables
<1>1. /\ seen'.at = "transcript" /\ seen'.run = seen.run /\ seen'.approvals = transcript
      /\ seen'.result = result /\ seen'.told = told["transcript"] /\ seen' \in Views
  BY <1>0 DEF ViewInv, InspectorTypes, IInv, Types, Views, Tables
<1>2. InspectorTypes'
  BY <1>0, <1>1 DEF ViewInv, InspectorTypes
<1>3. ComingInv' /\ ReturnedInv'
  BY <1>0 DEF ViewInv, ComingInv, ReturnedInv
<1>4. WaitsInv'
  BY <1>0, <1>1 DEF ViewInv, WaitsInv, RequestShown, Shown, Recorded
<1>5. PhaseInv' /\ ResultInv'
  BY <1>0, <1>1 DEF ViewInv, PhaseInv, ResultInv, Persisted
<1>6. WholeInv'
  BY <1>0, <1>1 DEF ViewInv, WholeInv, Whole
<1>7. TimesInv' /\ OrderInv' /\ LaneInv'
  BY <1>0 DEF ViewInv, TimesInv, OrderInv, LaneInv
<1>8. ToldInv'
  BY <1>0, <1>1 DEF ViewInv, ToldInv
<1> QED BY <1>2, <1>3, <1>4, <1>5, <1>6, <1>7, <1>8 DEF ViewInv

LEMMA InitViewed ==
  ASSUME InspectorInit
  PROVE  ViewInv
<1>1. Init /\ phase = "none" /\ invocation = NotCalled /\ entry = NotCalled /\ result = NotCalled
  BY DEF InspectorInit
<1>2. /\ executions = [child \in Children |-> "none"] /\ clock = 0 /\ now = NotTold /\ retries = 0
      /\ told = [table \in Tables |-> [event \in Events |-> NotTold]]
      /\ seen = Nothing
  BY DEF InspectorInit
<1>3. /\ seen.at = "none" /\ seen.run = "none" /\ seen.result = NotCalled /\ seen \in Views
      /\ \A event \in Events, child \in Children : seen.told[event][child] = 0
  BY <1>2 DEF Nothing, Views, NotCalled, NotTold, Results
<1>4. \A table \in Tables, event \in Events, child \in Children : told[table][event][child] = 0
  BY <1>2 DEF NotTold
<1>5. InspectorTypes
  BY <1>1, <1>2, <1>3, InspectorAssumption DEF InspectorTypes, NotCalled, NotTold, Results
<1>6. ComingInv /\ ReturnedInv
  BY <1>1, ApprovalsAssumption DEF Init, ComingInv, ReturnedInv, Still, Calls
<1>7. WaitsInv
  BY <1>1, <1>3 DEF Init, WaitsInv
<1>8. PhaseInv /\ ResultInv
  BY <1>1, <1>3, ApprovalsAssumption DEF Init, PhaseInv, ResultInv, Persisted, NotCalled, Calls
<1>9. WholeInv
  BY <1>1, <1>3 DEF Init, WholeInv
<1>10. TimesInv /\ OrderInv /\ ToldInv /\ LaneInv
  BY <1>1, <1>2, <1>3, <1>4
  DEF TimesInv, OrderInv, ToldInv, LaneInv, Events, Tables, NotTold
<1> QED BY <1>5, <1>6, <1>7, <1>8, <1>9, <1>10 DEF ViewInv

LEMMA InspectedViewed ==
  ASSUME IInv, ViewInv, [InspectorNext]_inspected
  PROVE  ViewInv'
<1>1. CASE Working
  BY <1>1, ExecuteViewed, KeyViewed, SettleViewed, PersistViewed, ForkViewed, ChildrenReturnViewed,
     JoinViewed, RecordExecutionViewed, RecordEventViewed
  DEF Working
<1>2. CASE UNCHANGED inspected
  <2>1. /\ UNCHANGED <<workflow, tables, at, stage, call, answer, runStatus, phase, invocation, entry, result>>
        /\ UNCHANGED <<lanes, executions, told, clock, now, retries, seen>>
    BY <1>2 DEF inspected, vars, execution, lanes, workflow, tables
  <2>2. ComingInv' /\ ReturnedInv' /\ WaitsInv' /\ TimesInv' /\ OrderInv' /\ ToldInv' /\ LaneInv'
    BY <2>1, AskedStay, LanesStay
  <2>3. InspectorTypes' /\ PhaseInv' /\ ResultInv' /\ WholeInv'
    BY <2>1 DEF ViewInv, InspectorTypes, PhaseInv, ResultInv, Persisted, WholeInv, Whole
  <2> QED BY <2>2, <2>3 DEF ViewInv
<1>3. ASSUME NEW child \in Children, Retry(child)  PROVE ViewInv'
  BY <1>3, RetryViewed
<1> QED BY <1>1, <1>2, <1>3, ApprovingViewed, FailViewed, TrimViewed, ReadRunViewed, ReadTranscriptViewed
        DEF InspectorNext

(* Whenever its tables are read and whatever is written in between, the inspector shows no
   complete run as going on, its lanes follow the children, its evidence agrees with its
   steps, and a run that waits has its request. *)
THEOREM InspectorShows == InspectorSpec => []InspectorShowsTheRun
<1>1. InspectorInit => IInv /\ ViewInv
  BY InitInv, InitViewed DEF InspectorInit
<1>2. IInv /\ ViewInv /\ [InspectorNext]_inspected => (IInv /\ ViewInv)'
  BY InspectorKeeps, InspectedViewed
<1>3. IInv /\ ViewInv => InspectorShowsTheRun
  BY ViewShows
<1> QED BY <1>1, <1>2, <1>3, PTL DEF InspectorSpec
=============================================================================
