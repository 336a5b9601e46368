----------------------------- MODULE Approvals -----------------------------
(***************************************************************************)
(* The approval record of a run: ApprovalsRepository and the policy        *)
(* activities around it, called by the agent-run workflow for one tool     *)
(* call after the other.                                                   *)
(*                                                                         *)
(* recordRequest and recordResolution write five tables one statement at a *)
(* time.  Temporal tries each at most MaxAttempts times; an attempt that   *)
(* failed, crashed or ran out of time is simply not waited for any more,   *)
(* and nothing stops it from taking further steps beside its successor.    *)
(*                                                                         *)
(* Abstracted: arguments are the proposed ones, edits, or nothing at all;  *)
(* timestamps, reasons and hashes are left out.                            *)
(***************************************************************************)
EXTENDS Naturals

CONSTANTS
  MaxCalls,      \* tool calls of the run that need an approval
  MaxAttempts    \* attempts of a policy activity (3 in the code)

ASSUME ApprovalsAssumption == {MaxCalls, MaxAttempts} \subseteq Nat \ {0}

VARIABLES
  stage,         \* where the workflow is with its current call
  call,          \* the current call
  attempt,       \* the attempt it waits for
  decision,      \* the resolution the workflow records for a call
  answer,        \* what recordApprovalResolution returned to it
  at,            \* the next statement of every attempt
  knew,          \* attempts that found the approval already recorded
  row,           \* approval_requests
  audit,         \* audit_events
  transcript,    \* transcript_events
  cards,         \* approval events on the stream, by call and kind
  runStatus,     \* runs.status
  notified,      \* desktop notifications about a call
  abandoned      \* history: calls some attempt of which was given up

workflow == <<stage, call, attempt, decision, answer>>
tables == <<row, audit, transcript, cards, runStatus>>
vars == <<workflow, tables, at, knew, notified, abandoned>>

Calls == 1..MaxCalls
Kinds == {"request", "resolution"}
Attempts == Calls \X Kinds \X (1..MaxAttempts)

(* "absent" is undefined in TypeScript, "null" an empty column. *)
None == [action |-> "none"]
NoRow == [status |-> "none"]

Actions == {"approve", "approve_with_edits", "deny", "remember", "cancel"}
Edits == {"edits", "absent"}

(* What the resolve route lets through: editedArguments may be left out. *)
Decisions ==
  [action : Actions, edits : {"absent"}] \cup [action : {"approve_with_edits"}, edits : {"edits"}]

TerminalState(action) ==
  CASE action \in {"approve", "approve_with_edits"} -> "approved"
    [] action = "deny" -> "denied"
    [] action = "remember" -> "remembered"
    [] action = "cancel" -> "cancelled"
    [] action = "expire" -> "expired"

Edited(d) == IF d.action = "approve_with_edits" THEN d.edits ELSE "absent"

Canonical(d) == IF d.action = "approve_with_edits" THEN Edited(d) ELSE "proposed"

(* What the call that records a decision answers. *)
Resolution(d) ==
  [action |-> d.action, state |-> TerminalState(d.action), arguments |-> Canonical(d),
   actor |-> IF d.action = "expire" THEN "system" ELSE "user"]

Column(v) == IF v = "absent" THEN "null" ELSE v

ResolvedRow(d) ==
  [status |-> TerminalState(d.action), canonical |-> Column(Canonical(d)),
   edited |-> Column(Edited(d))]

ActionOf(r) ==
  CASE r.status = "approved" /\ r.edited # "null" -> "approve_with_edits"
    [] r.status = "approved" /\ r.edited = "null" -> "approve"
    [] r.status = "denied" -> "deny"
    [] r.status = "remembered" -> "remember"
    [] r.status = "cancelled" -> "cancel"
    [] r.status = "expired" -> "expire"

(* The same answer, read back from a row. *)
CardResolution(r) ==
  [action |-> ActionOf(r), state |-> r.status,
   arguments |-> IF r.canonical = "null" THEN "proposed" ELSE r.canonical,
   actor |-> IF r.status = "expired" THEN "system" ELSE "user"]

Init ==
  /\ stage = "running" /\ call = 0 /\ attempt = 1
  /\ decision = [n \in Calls |-> None]
  /\ answer = [n \in Calls |-> None]
  /\ at = [p \in Attempts |-> "off"]
  /\ knew = {}
  /\ row = [n \in Calls |-> NoRow]
  /\ audit = {} /\ transcript = {}
  /\ cards = [c \in Calls \X Kinds |-> 0]
  /\ runStatus = "running"
  /\ notified = [n \in Calls |-> 0]
  /\ abandoned = {}

-----------------------------------------------------------------------------
(* The workflow. *)

Start(n, kind, k) == [at EXCEPT ![<<n, kind, k>>] = IF kind = "request" THEN "known" ELSE "read"]

AskForApproval ==
  /\ stage = "running" /\ call < MaxCalls
  /\ call' = call + 1 /\ stage' = "request" /\ attempt' = 1
  /\ at' = Start(call + 1, "request", 1)
  /\ UNCHANGED <<decision, answer, tables, knew, notified, abandoned>>

(* The resolution the workflow goes on with, of a user or of the expiry timer.
   Resolvers that race for it are the subject of AgentRun. *)
Decide(d) ==
  /\ stage = "waiting"
  /\ stage' = "resolution" /\ attempt' = 1
  /\ decision' = [decision EXCEPT ![call] = d]
  /\ at' = Start(call, "resolution", 1)
  /\ UNCHANGED <<call, answer, tables, knew, notified, abandoned>>

Resolve == \E d \in Decisions : Decide(d)

NeverExpires == FALSE

Expire == Decide([action |-> "expire", edits |-> "absent"])

(* recordRunCompleted, which module StreamBus has in detail. *)
Complete ==
  /\ stage \in {"running", "refused"}
  /\ stage' = "ended"
  /\ runStatus' = IF stage = "refused" /\ answer[call].state = "cancelled"
                    THEN "cancelled" ELSE "complete"
  /\ UNCHANGED <<call, attempt, decision, answer, row, audit, transcript, cards, at, knew,
                 notified, abandoned>>

-----------------------------------------------------------------------------
(* Attempts. *)

Awaited(p) == p[1] = call /\ p[2] = stage /\ p[3] = attempt

AttemptLeft == attempt < MaxAttempts

(* The workflow no longer waits for p: the activity is tried again, or the run
   fails.  What p did is done; whether it goes on is left open. *)
GiveUp(p, last) ==
  /\ abandoned' = abandoned \cup {p[1]}
  /\ IF AttemptLeft
       THEN /\ attempt' = attempt + 1
            /\ at' = [Start(p[1], p[2], attempt + 1) EXCEPT ![p] = last]
            /\ UNCHANGED <<stage, runStatus>>
       ELSE /\ stage' = "ended" /\ runStatus' = "failed"
            /\ at' = [at EXCEPT ![p] = last]
            /\ UNCHANGED attempt
  /\ UNCHANGED <<call, decision, answer>>

(* Out of time, lost with its worker, or failed by an error of the database. *)
Abandon(p) ==
  /\ Awaited(p)
  /\ GiveUp(p, at[p])
  /\ UNCHANGED <<row, audit, transcript, cards, knew, notified>>

(* A statement of p throws. *)
Throw(p) ==
  /\ IF Awaited(p)
       THEN GiveUp(p, "gone")
       ELSE /\ at' = [at EXCEPT ![p] = "gone"]
            /\ UNCHANGED <<workflow, runStatus, abandoned>>
  /\ UNCHANGED <<row, audit, transcript, cards, knew, notified>>

Goto(p, next) ==
  /\ at' = [at EXCEPT ![p] = next]
  /\ UNCHANGED <<workflow, abandoned>>

PublishesFirst(kind) ==
  IF kind = "request"
    THEN [insert |-> "publish", publish |-> "audit", audit |-> "transcript",
          transcript |-> "status", status |-> "notify"]
    ELSE [update |-> "restore", restore |-> "publish", publish |-> "audit",
          audit |-> "transcript", transcript |-> "answer"]

(* The order of the writes of recordRequest and of recordResolution. *)
AfterWrite(kind) ==
  IF kind = "request"
    THEN [insert |-> "audit", audit |-> "transcript", transcript |-> "publish",
          publish |-> "status", status |-> "notify"]
    ELSE [update |-> "restore", restore |-> "audit", audit |-> "transcript",
          transcript |-> "publish", publish |-> "answer"]

Recorded(n) == row[n] # NoRow

(* recordApprovalRequest looks for the row, then recordRequest does. *)
CheckKnown(p) ==
  /\ at[p] = "known"
  /\ knew' = IF Recorded(p[1]) THEN knew \cup {p} ELSE knew
  /\ Goto(p, "find")
  /\ UNCHANGED <<tables, notified>>

FindRequest(p) ==
  /\ at[p] = "find"
  /\ Goto(p, IF Recorded(p[1]) THEN "notify" ELSE "insert")
  /\ UNCHANGED <<tables, knew, notified>>

(* The primary key of approval_requests. *)
Taken(n) == Recorded(n)

InsertRequest(p) ==
  /\ at[p] = "insert"
  /\ IF Taken(p[1])
       THEN Throw(p)
       ELSE /\ row' = [row EXCEPT ![p[1]] = [status |-> "pending"]]
            /\ Goto(p, AfterWrite("request")["insert"])
            /\ UNCHANGED <<audit, transcript, cards, runStatus, knew, notified>>

(* The primary key of audit_events: one event per approval and kind, as every
   resolution of an approval has the same terminal state. *)
Audited(p) == <<p[1], p[2]>> \in audit

InsertAudit(p) ==
  /\ at[p] = "audit"
  /\ IF Audited(p)
       THEN Throw(p)
       ELSE /\ audit' = audit \cup {<<p[1], p[2]>>}
            /\ Goto(p, AfterWrite(p[2])["audit"])
            /\ UNCHANGED <<row, transcript, cards, runStatus, knew, notified>>

AppendTranscript(p) ==
  /\ at[p] = "transcript"
  /\ transcript' = transcript \cup {<<p[1], p[2]>>}
  /\ Goto(p, AfterWrite(p[2])["transcript"])
  /\ UNCHANGED <<row, audit, cards, runStatus, knew, notified>>

(* Without a deduplication key. *)
PublishCard(p) ==
  /\ at[p] = "publish"
  /\ cards' = [cards EXCEPT ![<<p[1], p[2]>>] = @ + 1]
  /\ Goto(p, AfterWrite(p[2])["publish"])
  /\ UNCHANGED <<row, audit, transcript, runStatus, knew, notified>>

MoveToWaiting(p) ==
  /\ at[p] = "status"
  /\ runStatus' = "waiting_approval"
  /\ Goto(p, AfterWrite("request")["status"])
  /\ UNCHANGED <<row, audit, transcript, cards, knew, notified>>

(* The last step of recordApprovalRequest. *)
Notify(p) ==
  /\ at[p] = "notify"
  /\ notified' = IF p \in knew THEN notified ELSE [notified EXCEPT ![p[1]] = @ + 1]
  /\ at' = [at EXCEPT ![p] = "gone"]
  /\ stage' = IF Awaited(p) THEN "waiting" ELSE stage
  /\ UNCHANGED <<call, attempt, decision, answer, tables, knew, abandoned>>

(* The attempt returns its resolution; the workflow executes the call, or ends. *)
Return(p, resolution) ==
  /\ at' = [at EXCEPT ![p] = "gone"]
  /\ IF Awaited(p)
       THEN /\ answer' = [answer EXCEPT ![call] = resolution]
            /\ stage' = IF resolution.state = "approved" THEN "running" ELSE "refused"
       ELSE UNCHANGED <<answer, stage>>
  /\ UNCHANGED <<call, attempt, decision, tables, knew, notified, abandoned>>

ReadRow(p) ==
  /\ at[p] = "read"
  /\ \/ ~Recorded(p[1]) /\ Throw(p)
     \/ /\ Recorded(p[1]) /\ row[p[1]].status # "pending"
        /\ Return(p, CardResolution(row[p[1]]))
     \/ /\ Recorded(p[1]) /\ row[p[1]].status = "pending"
        /\ Goto(p, "update")
        /\ UNCHANGED <<tables, knew, notified>>

UpdateRow(p) ==
  /\ at[p] = "update"
  /\ row' = [row EXCEPT ![p[1]] = ResolvedRow(decision[p[1]])]
  /\ Goto(p, AfterWrite("resolution")["update"])
  /\ UNCHANGED <<audit, transcript, cards, runStatus, knew, notified>>

RestoredStatus(d) ==
  IF TerminalState(d.action) = "approved" THEN "running" ELSE runStatus

RestoreRunning(p) ==
  /\ at[p] = "restore"
  /\ runStatus' = RestoredStatus(decision[p[1]])
  /\ Goto(p, AfterWrite("resolution")["restore"])
  /\ UNCHANGED <<row, audit, transcript, cards, knew, notified>>

Answer(p) == at[p] = "answer" /\ Return(p, Resolution(decision[p[1]]))

Request(p) == CheckKnown(p) \/ FindRequest(p) \/ InsertRequest(p) \/ MoveToWaiting(p) \/ Notify(p)

Resolving(p) == ReadRow(p) \/ UpdateRow(p) \/ RestoreRunning(p) \/ Answer(p)

Write(p) == InsertAudit(p) \/ AppendTranscript(p) \/ PublishCard(p)

Step(p) == Request(p) \/ Resolving(p) \/ Write(p)

Next ==
  \/ AskForApproval \/ Resolve \/ Expire \/ Complete
  \/ \E p \in Attempts : Step(p) \/ Abandon(p)

Spec == Init /\ [][Next]_vars

-----------------------------------------------------------------------------
States == {"approved", "denied", "remembered", "cancelled", "expired"}

TypeOK ==
  /\ stage \in {"running", "request", "waiting", "resolution", "refused", "ended"}
  /\ call \in 0..MaxCalls
  /\ attempt \in 1..MaxAttempts
  /\ \A n \in Calls :
       /\ decision[n] = None \/ decision[n].action \in Actions \cup {"expire"}
       /\ answer[n] = None \/ answer[n].arguments \in {"proposed"} \cup Edits
       /\ row[n].status \in States \cup {"none", "pending"}
  /\ at \in [Attempts ->
       {"off", "gone", "known", "find", "insert", "audit", "transcript", "publish", "status",
        "notify", "read", "update", "restore", "answer"}]
  /\ knew \subseteq Attempts
  /\ audit \subseteq Calls \X Kinds /\ transcript \subseteq Calls \X Kinds
  /\ cards \in [Calls \X Kinds -> Nat]
  /\ runStatus \in {"running", "waiting_approval", "complete", "cancelled", "failed"}
  /\ notified \in [Calls -> Nat]
  /\ abandoned \subseteq Calls

(* However attempts overlap, the stream shows a request and a resolution at most
   once: the primary keys of the row and of the audit event decide who goes on. *)
OneCard == \A c \in Calls \X Kinds : cards[c] <= 1

(* Whatever the stream shows of an approval is already in the row, the audit log
   and the transcript, wherever the attempts stopped. *)
CardsAreBacked ==
  \A n \in Calls, kind \in Kinds :
    cards[<<n, kind>>] > 0 =>
      /\ <<n, kind>> \in audit \cap transcript
      /\ Recorded(n)
      /\ kind = "resolution" => row[n].status = TerminalState(decision[n].action)

(* A first attempt and a retry that finds the row resolved answer the same: the
   decision, its actor, and the arguments it lets run.  Edits that were left out
   are the exception, a retry reads them as a plain approval. *)
AnswerIsDecision ==
  \A n \in Calls :
    answer[n] # None =>
      /\ row[n].status = answer[n].state
      /\ Edited(decision[n]) = "edits" \/ decision[n].action # "approve_with_edits"
           => answer[n] = Resolution(decision[n])

(* As long as no attempt of a call was given up, the workflow waits on an approval
   that all five tables and the user know of, and goes on from one they know
   the end of. *)
WholeUnlessAbandoned ==
  call > 0 /\ abandoned = {} =>
    /\ stage = "waiting" =>
         /\ <<call, "request">> \in audit \cap transcript
         /\ cards[<<call, "request">>] = 1 /\ notified[call] = 1
         /\ runStatus = "waiting_approval"
    /\ stage \in {"running", "refused"} =>
         /\ <<call, "resolution">> \in audit \cap transcript
         /\ cards[<<call, "resolution">>] = 1
         /\ stage = "running" => runStatus = "running"

(* A call that asked for an approval is settled, whatever its attempts do and
   though nobody answers. *)
CallsSettle == \A n \in Calls : call = n ~> answer[n] # None \/ stage = "ended"

(* The five tables and the workflow tell one story of an approval, as far as an
   attempt that was given up lets them. *)
ApprovalsAgree ==
  TypeOK /\ OneCard /\ CardsAreBacked /\ AnswerIsDecision /\ WholeUnlessAbandoned
=============================================================================
