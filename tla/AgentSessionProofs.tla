------------------------- MODULE AgentSessionProofs -------------------------
(***************************************************************************)
(* The session's safety properties for every number of clients, turns,     *)
(* executions and sessions.  All follow from one inductive invariant: the  *)
(* lane's arithmetic, and what the position of the main loop says about    *)
(* the active run, its scope and the open child workflows.                 *)
(*                                                                         *)
(* The last section is about the memory the session's compactions keep:    *)
(* what is found was confirmed, nothing is summarised twice, and a handoff *)
(* hands on every reference, for any number of runs, events, attempts and  *)
(* faults.  A compaction covers what is above the position of its          *)
(* execution, and hands on a position none of that is above                *)
(* (MaxOfNaturals); an attempt of it that is repeated works on what was    *)
(* loaded for the first.                                                   *)
(***************************************************************************)
EXTENDS AgentSession, Memory, FiniteSetTheorems, SequenceTheorems,
  WellFoundedInduction, TLAPS

(* While the manifest is fetched the turn is taken but no run is active; a
   cancelled execution has cancelled the fetch as well. *)
FetchState ==
  loop = "fetching" =>
    /\ activeRunId = NoRun
    /\ activeRunScope = taken
    /\ taken # 0
    /\ taken \notin launched
    /\ openRuns = {}
    /\ cancelled => scopeCancelled

(* While a run is awaited it is the turn taken last. *)
RunState ==
  loop = "running" =>
    /\ activeRunId = taken
    /\ activeRunScope = taken
    /\ taken # 0
    /\ openRuns \subseteq {taken}
    /\ outcome # "none" => openRuns = {}

(* Everywhere else nothing is active, open or cancelled. *)
RestState ==
  loop \notin {"fetching", "running"} =>
    /\ activeRunId = NoRun
    /\ activeRunScope = NoRun
    /\ ~scopeCancelled
    /\ openRuns = {}

LaunchedWereTaken == \A r \in launched : r <= taken

(* A session closes with no call suspended: drained, or cut off by the close. *)
ClosedIsQuiet == loop = "closed" => \A c \in Clients : handler[c] = NoCall

SessionInv ==
  /\ TypeOK
  /\ LaneInOrder
  /\ FetchState
  /\ RunState
  /\ RestState
  /\ LaunchedWereTaken
  /\ ClosedIsQuiet

-----------------------------------------------------------------------------
(* Type correctness. *)

LEMMA CallsType ==
  /\ NoCall \in Calls
  /\ \A k \in {"forward", "interrupt", "cancel"}, r \in Nat, b \in BOOLEAN :
       [kind |-> k, run |-> r, replacement |-> b] \in Calls
BY DEF NoCall, Calls, NoRun

LEMMA EmptyQueueType == <<>> \in Seq(Nat)
OBVIOUS

LEMMA TypeInit == Init => TypeOK
<1> SUFFICES ASSUME Init PROVE TypeOK
  OBVIOUS
<1>1. scopeCancelled \in BOOLEAN /\ cancelled \in BOOLEAN
  BY DEF Init
<1>2. queue \in Seq(Nat) /\ handler \in [Clients -> Calls]
  BY CallsType, EmptyQueueType DEF Init
<1>3. activeRunId \in Nat /\ activeRunScope \in Nat /\ loop \in Positions
  BY DEF Init, NoRun, Positions
<1> QED BY <1>1, <1>2, <1>3 DEF Init, TypeOK, Ends

(* PushTurn appends the next number. *)
LEMMA PushTurnType ==
  ASSUME TypeOK, PushTurn
  PROVE  /\ queue' \in Seq(Nat)
         /\ submittedTurnCount' \in Nat
         /\ taken' \in Nat
BY DEF TypeOK, PushTurn

LEMMA TakeTurnType ==
  ASSUME TypeOK, TakeTurn
  PROVE  /\ loop' \in Positions
         /\ queue' \in Seq(Nat)
         /\ activeRunScope' \in Nat
         /\ taken' \in Nat
<1>1. queue \in Seq(Nat) /\ queue # <<>> /\ taken \in Nat
  BY DEF TypeOK, TakeTurn
<1>2. Head(queue) \in Nat /\ Tail(queue) \in Seq(Nat)
  BY <1>1
<1> QED BY <1>1, <1>2 DEF TakeTurn, Positions

LEMMA LeaveLoopType ==
  ASSUME TypeOK, LeaveLoop
  PROVE  /\ loop' \in Positions
         /\ queue' \in Seq(Nat)
         /\ activeRunScope' \in Nat
         /\ taken' \in Nat
BY DEF TypeOK, LeaveLoop, Positions, NoRun

LEMMA NextTurnType ==
  ASSUME TypeOK, NextTurn
  PROVE  /\ loop' \in Positions
         /\ queue' \in Seq(Nat)
         /\ activeRunId' \in Nat
         /\ activeRunScope' \in Nat
         /\ scopeCancelled' \in BOOLEAN
         /\ submittedTurnCount' \in Nat
         /\ taken' \in Nat
<1>1. activeRunId' \in Nat /\ submittedTurnCount' \in Nat
  BY DEF TypeOK, NextTurn, NoRun
<1>2. scopeCancelled' \in BOOLEAN
  BY DEF NextTurn
<1>3. \/ TakeTurn
      \/ LeaveLoop
      \/ /\ loop' \in {"compacting", "waiting"} /\ activeRunScope' = NoRun
         /\ UNCHANGED <<queue, taken>>
  BY DEF NextTurn
<1>4. CASE /\ loop' \in {"compacting", "waiting"} /\ activeRunScope' = NoRun
           /\ UNCHANGED <<queue, taken>>
  BY <1>1, <1>2, <1>4 DEF TypeOK, Positions, NoRun
<1> QED BY <1>1, <1>2, <1>3, <1>4, TakeTurnType, LeaveLoopType

(* Every variable keeps its type: the run and scope fields hold run ids or
   NoRun, the counters stay natural numbers, every suspended call is one of
   the handlers (agentSessionWorkflow's mutable state). *)
THEOREM TypeCorrect == Spec => []TypeOK
<1>1. Init => TypeOK
  BY TypeInit
<1>2. TypeOK /\ [Next]_vars => TypeOK'
  <2> SUFFICES ASSUME TypeOK, [Next]_vars PROVE TypeOK'
    OBVIOUS
  <2>1. CASE SubmitTurn
    BY <2>1 DEF TypeOK, SubmitTurn, PushTurn, scope, child, epoch
  <2>2. ASSUME NEW c \in Clients, Call(c) PROVE TypeOK'
    <3>1. CASE BeginForward(c)
      BY <3>1, CallsType DEF TypeOK, BeginForward, lane, scope, child, epoch
    <3>2. ASSUME NEW replacement \in BOOLEAN, BeginInterrupt(c, replacement) PROVE TypeOK'
      BY <3>2, CallsType DEF TypeOK, BeginInterrupt, lane, scope, child, epoch
    <3>3. CASE CancelRun(c)
      BY <3>3, CallsType DEF TypeOK, CancelRun, HardCancel, lane, child, epoch
    <3> QED BY <2>2, <3>1, <3>2, <3>3 DEF Call
  <2>3. ASSUME NEW c \in Clients, Resume(c) PROVE TypeOK'
    <3>1. CASE EndForward(c)
      BY <3>1, CallsType DEF TypeOK, EndForward, lane, scope, child, epoch
    <3>2. CASE EndInterrupt(c)
      <4>1. /\ queue' \in Seq(Nat)
            /\ submittedTurnCount' \in Nat
               /\ taken' \in Nat
        BY <3>2, PushTurnType DEF EndInterrupt, TypeOK, lane
      <4>2. scopeCancelled' \in BOOLEAN
        BY <3>2 DEF EndInterrupt, HardCancel
      <4>3. handler' \in [Clients -> Calls]
        BY <3>2, CallsType DEF EndInterrupt, TypeOK
      <4> QED BY <3>2, <4>1, <4>2, <4>3 DEF TypeOK, EndInterrupt, child, epoch
    <3>3. CASE EndCancelRun(c)
      BY <3>3, CallsType DEF TypeOK, EndCancelRun, HardCancel, lane, child, epoch
    <3> QED BY <2>3, <3>1, <3>2, <3>3 DEF Resume
  <2>4. CASE Loop
    <3>1. CASE Wake
      BY <3>1, TakeTurnType, LeaveLoopType DEF TypeOK, Wake, child, epoch
    <3>2. CASE ManifestFetched
      BY <3>2 DEF TypeOK, ManifestFetched, Positions, lane, epoch
    <3>3. CASE ManifestFailed
      BY <3>3, NextTurnType DEF TypeOK, ManifestFailed, CountedOnFailure,
                                child, epoch
    <3>4. CASE FetchCancelled
      BY <3>4, NextTurnType DEF TypeOK, FetchCancelled, child, epoch
    <3>5. CASE RunEnded
      <4>1. completedRunCount' \in Nat
        BY <3>5 DEF TypeOK, RunEnded, CountedOnFailure
      <4> QED BY <3>5, <4>1, NextTurnType DEF TypeOK, RunEnded, epoch
    <3>6. ASSUME ContinueAsNew PROVE TypeOK'
      <4>1. cancelled' \in BOOLEAN
        BY <3>6 DEF ContinueAsNew
      <4>2. handler' \in [Clients -> Calls]
        BY <3>6, CallsType DEF ContinueAsNew
      <4> QED BY <3>6, <4>1, <4>2 DEF TypeOK, ContinueAsNew, CarriedQueue, Positions, scope, child
    <3>7. CASE CompactionDone
      BY <3>6, <3>7 DEF TypeOK, CompactionDone, Positions, lane, scope, child, epoch
    <3>8. CASE CompactionFailed
      BY <3>8, CallsType DEF TypeOK, CompactionFailed, Positions, lane, scope,
                             child, epoch
    <3>9. CASE HandoffDrained
      BY <3>6, <3>9 DEF HandoffDrained
    <3>10. CASE FinalDrained
      BY <3>10, CallsType DEF TypeOK, FinalDrained, Positions, lane, scope,
                              child, epoch
    <3> QED BY <2>4, <3>1, <3>2, <3>3, <3>4, <3>5, <3>7, <3>8, <3>9, <3>10 DEF Loop
  <2>5. CASE IdleTimeout
    BY <2>5 DEF TypeOK, IdleTimeout, LeaveLoop, Positions, NoRun, child, epoch
  <2>6. ASSUME NEW r \in openRuns, NEW how \in Ends, RunCloses(r, how) PROVE TypeOK'
    BY <2>6 DEF TypeOK, RunCloses, lane, scope, epoch
  <2>7. CASE StartSession
    <3>1. cancelled' \in BOOLEAN
      BY <2>7 DEF StartSession
    <3> QED BY <2>7, <3>1, EmptyQueueType DEF TypeOK, StartSession, Positions, scope
  <2>8. CASE UNCHANGED vars
    BY <2>8 DEF TypeOK, vars, lane, scope, child, epoch
  <2> QED BY <2>1, <2>2, <2>3, <2>4, <2>5, <2>6, <2>7, <2>8 DEF Next
<1> QED BY <1>1, <1>2, PTL DEF Spec
-----------------------------------------------------------------------------
(* The inductive invariant. *)

(* A push extends the lane's arithmetic by one turn and touches nothing else. *)
LEMMA PushTurnLane ==
  ASSUME TypeOK, LaneInOrder, PushTurn
  PROVE  LaneInOrder'
<1>1. /\ Len(queue') = Len(queue) + 1
      /\ \A i \in 1..Len(queue) : queue'[i] = queue[i]
      /\ queue'[Len(queue) + 1] = submittedTurnCount + 1
      /\ queue' \in Seq(Nat)
  BY DEF TypeOK, PushTurn
<1>2. /\ DOMAIN queue = 1..Len(queue)
      /\ DOMAIN queue' = 1..(Len(queue) + 1)
      /\ Len(queue) \in Nat /\ taken \in Nat
  BY <1>1 DEF TypeOK
<1>3. /\ taken + Len(queue) = submittedTurnCount
      /\ \A i \in 1..Len(queue) : queue[i] = taken + i
  BY <1>2 DEF LaneInOrder
<1>4. ASSUME NEW i \in 1..(Len(queue) + 1) PROVE queue'[i] = taken + i
  <2>1. i \in 1..Len(queue) \/ i = Len(queue) + 1
    BY <1>2
  <2>2. CASE i \in 1..Len(queue)
    BY <2>2, <1>1, <1>3
  <2>3. CASE i = Len(queue) + 1
    <3>1. queue'[i] = submittedTurnCount + 1
      BY <2>3, <1>1
    <3> QED BY <3>1, <2>3, <1>2, <1>3
  <2> QED BY <2>1, <2>2, <2>3
<1>5. taken' + Len(queue') = submittedTurnCount'
  BY <1>1, <1>2, <1>3 DEF PushTurn
<1>6. taken' = taken
  BY DEF PushTurn
<1> QED BY <1>2, <1>4, <1>5, <1>6 DEF LaneInOrder

(* A shift hands out the number after the last one taken. *)
LEMMA TakeTurnLane ==
  ASSUME TypeOK, LaneInOrder, TakeTurn, UNCHANGED submittedTurnCount
  PROVE  /\ LaneInOrder'
         /\ activeRunScope' = taken'
         /\ taken' = taken + 1
<1>1. queue \in Seq(Nat) /\ queue # <<>>
  BY DEF TypeOK, TakeTurn
<1>2. /\ Len(queue) > 0
      /\ Head(queue) = queue[1]
      /\ Tail(queue) \in Seq(Nat)
      /\ Len(Tail(queue)) = Len(queue) - 1
      /\ \A i \in 1..(Len(queue) - 1) : Tail(queue)[i] = queue[i + 1]
  BY <1>1
<1>3. Head(queue) = taken + 1
  BY <1>1, <1>2 DEF LaneInOrder, TypeOK
<1>4. /\ taken \in Nat /\ Len(queue) \in Nat
      /\ DOMAIN queue = 1..Len(queue)
      /\ DOMAIN Tail(queue) = 1..(Len(queue) - 1)
  BY <1>1, <1>2 DEF TypeOK
<1>5. ASSUME NEW i \in 1..(Len(queue) - 1) PROVE Tail(queue)[i] = (taken + 1) + i
  <2>1. i + 1 \in 1..Len(queue) /\ i \in Nat
    BY <1>4
  <2>2. queue[i + 1] = taken + (i + 1)
    BY <2>1, <1>4 DEF LaneInOrder
  <2> QED BY <2>1, <2>2, <1>2, <1>4
<1>6. (taken + 1) + Len(Tail(queue)) = submittedTurnCount
  BY <1>2, <1>4 DEF LaneInOrder
<1>7. queue' = Tail(queue) /\ taken' = taken + 1 /\ activeRunScope' = Head(queue)
  BY DEF TakeTurn
<1> QED BY <1>3, <1>4, <1>5, <1>6, <1>7 DEF LaneInOrder

(* The parts of the invariant, apart from the types, that a step of the loop
   out of `fetching` or `running` establishes. *)
LEMMA NextTurnInv ==
  ASSUME SessionInv, NextTurn, openRuns' = {}, UNCHANGED <<cancelled, launched>>
  PROVE  LaneInOrder' /\ FetchState' /\ RunState' /\ RestState' /\ LaunchedWereTaken'
<1> USE DEF SessionInv
<1>1. activeRunId' = NoRun /\ ~scopeCancelled' /\ UNCHANGED submittedTurnCount
  BY DEF NextTurn
<1>2. \/ ~cancelled /\ TakeTurn
      \/ LeaveLoop
      \/ /\ loop' \in {"compacting", "waiting"} /\ activeRunScope' = NoRun
         /\ UNCHANGED <<queue, taken>>
  BY DEF NextTurn
<1>3. CASE ~cancelled /\ TakeTurn
  <2>1. loop' = "fetching"
    BY <1>3 DEF TakeTurn
  <2>2. LaneInOrder' /\ activeRunScope' = taken' /\ taken' = taken + 1
    BY <1>1, <1>3, TakeTurnLane
  <2> QED BY <1>1, <1>3, <2>1, <2>2 DEF FetchState, RunState, RestState, LaunchedWereTaken, TypeOK
<1>4. CASE LeaveLoop
  BY <1>1, <1>4 DEF LeaveLoop, LaneInOrder, FetchState, RunState, RestState, LaunchedWereTaken
<1>5. CASE /\ loop' \in {"compacting", "waiting"} /\ activeRunScope' = NoRun
           /\ UNCHANGED <<queue, taken>>
  BY <1>1, <1>5 DEF LaneInOrder, FetchState, RunState, RestState, LaunchedWereTaken
<1> QED BY <1>2, <1>3, <1>4, <1>5

(* A hard cancel only reaches a scope that is current. *)
LEMMA HardCancelInv ==
  ASSUME SessionInv, HardCancel,
         UNCHANGED <<loop, activeRunId, activeRunScope, taken, openRuns, outcome, launched>>,
         cancelled' \in BOOLEAN
  PROVE  FetchState' /\ RunState' /\ RestState' /\ LaunchedWereTaken'
BY DEF SessionInv, HardCancel, FetchState, RunState, RestState, LaunchedWereTaken, NoRun

LEMMA ClosedIsQuietStep == ClosedIsQuiet /\ TypeOK /\ [Next]_vars => ClosedIsQuiet'
<1> SUFFICES ASSUME ClosedIsQuiet, TypeOK, [Next]_vars PROVE ClosedIsQuiet'
  OBVIOUS
<1>a. ASSUME LeaveLoop, UNCHANGED handler PROVE ClosedIsQuiet'
  BY <1>a DEF LeaveLoop, InFlight, ClosedIsQuiet
<1>b. ASSUME NextTurn, UNCHANGED handler PROVE ClosedIsQuiet'
  BY <1>a, <1>b DEF NextTurn, TakeTurn, ClosedIsQuiet
<1>c. ASSUME UNCHANGED <<loop, handler>> PROVE ClosedIsQuiet'
  BY <1>c DEF ClosedIsQuiet
<1>1. CASE SubmitTurn
  BY <1>1, <1>c DEF SubmitTurn
<1>2. ASSUME NEW c \in Clients, Call(c) PROVE ClosedIsQuiet'
  BY <1>2, <1>c DEF Call, BeginForward, BeginInterrupt, CancelRun, ClosedIsQuiet
<1>3. ASSUME NEW c \in Clients, Resume(c) PROVE ClosedIsQuiet'
  <2>1. loop # "closed" /\ UNCHANGED loop
    BY <1>3 DEF Resume, EndForward, EndInterrupt, EndCancelRun, ClosedIsQuiet, NoCall, scope
  <2> QED BY <2>1 DEF ClosedIsQuiet
<1>4. CASE Loop
  <2>1. CASE Wake
    BY <1>a, <2>1 DEF Wake, TakeTurn, ClosedIsQuiet
  <2>2. CASE ManifestFetched
    BY <2>2 DEF ManifestFetched, ClosedIsQuiet
  <2>3. CASE ManifestFailed \/ FetchCancelled \/ RunEnded
    BY <1>b, <2>3 DEF ManifestFailed, FetchCancelled, RunEnded
  <2>4. CASE CompactionDone \/ HandoffDrained
    BY <2>4 DEF CompactionDone, HandoffDrained, ContinueAsNew, ClosedIsQuiet
  <2>5. CASE CompactionFailed \/ FinalDrained
    BY <2>5 DEF CompactionFailed, FinalDrained, ClosedIsQuiet
  <2> QED BY <1>4, <2>1, <2>2, <2>3, <2>4, <2>5 DEF Loop
<1>5. CASE IdleTimeout
  BY <1>5, <1>a DEF IdleTimeout
<1>6. ASSUME NEW r \in openRuns, NEW how \in Ends, RunCloses(r, how) PROVE ClosedIsQuiet'
  BY <1>6, <1>c DEF RunCloses
<1>7. CASE StartSession
  BY <1>7 DEF StartSession, ClosedIsQuiet
<1>8. CASE UNCHANGED vars
  BY <1>8, <1>c DEF vars
<1> QED BY <1>1, <1>2, <1>3, <1>4, <1>5, <1>6, <1>7, <1>8 DEF Next

LEMMA SessionInvStep == SessionInv /\ TypeOK' /\ [Next]_vars => SessionInv'
<1> SUFFICES ASSUME SessionInv, TypeOK', [Next]_vars PROVE SessionInv'
  OBVIOUS
<1>q. ClosedIsQuiet'
  BY ClosedIsQuietStep DEF SessionInv
<1> DEFINE Same == UNCHANGED <<loop, scope, cancelled, openRuns, outcome, launched, taken>>
<1>a. ASSUME Same PROVE FetchState' /\ RunState' /\ RestState' /\ LaunchedWereTaken'
  BY <1>a, <1>q DEF SessionInv, scope, FetchState, RunState, RestState, LaunchedWereTaken
<1>b. ASSUME UNCHANGED lane PROVE LaneInOrder'
  BY <1>b, <1>q DEF SessionInv, lane, LaneInOrder
<1>1. CASE SubmitTurn
  BY <1>1, <1>a, PushTurnLane, <1>q DEF SessionInv, SubmitTurn, PushTurn, child
<1>2. ASSUME NEW c \in Clients, Call(c) PROVE SessionInv'
  <2>1. CASE BeginForward(c)
    BY <2>1, <1>a, <1>b, <1>q DEF SessionInv, BeginForward, lane, child
  <2>2. ASSUME NEW replacement \in BOOLEAN, BeginInterrupt(c, replacement) PROVE SessionInv'
    BY <2>2, <1>a, <1>b, <1>q DEF SessionInv, BeginInterrupt, lane, child
  <2>3. CASE CancelRun(c) /\ activeRunId # NoRun
    BY <2>3, <1>b, <1>q DEF SessionInv, CancelRun, lane, child, FetchState, RunState, RestState,
                      LaunchedWereTaken
  <2>4. CASE CancelRun(c) /\ activeRunId = NoRun
    BY <2>4, <1>b, HardCancelInv, <1>q DEF SessionInv, CancelRun, lane, child, TypeOK
  <2> QED BY <1>2, <2>1, <2>2, <2>3, <2>4 DEF Call
<1>3. ASSUME NEW c \in Clients, Resume(c) PROVE SessionInv'
  <2>1. CASE EndForward(c)
    BY <2>1, <1>a, <1>b, <1>q DEF SessionInv, EndForward, lane, child
  <2>2. CASE EndInterrupt(c)
    <3>1. LaneInOrder' /\ UNCHANGED taken
      BY <2>2, <1>b, PushTurnLane, <1>q DEF SessionInv, EndInterrupt, PushTurn, lane
    <3> QED BY <2>2, <3>1, HardCancelInv, <1>q DEF SessionInv, EndInterrupt, child, TypeOK
  <2>3. CASE EndCancelRun(c)
    BY <2>3, <1>b, HardCancelInv, <1>q DEF SessionInv, EndCancelRun, lane, child, TypeOK
  <2> QED BY <1>3, <2>1, <2>2, <2>3 DEF Resume
<1>4. CASE Loop
  <2>1. CASE Wake
    <3>1. CASE cancelled
      BY <2>1, <3>1, <1>q DEF SessionInv, Wake, LeaveLoop, LaneInOrder, FetchState, RunState,
                        RestState, LaunchedWereTaken, child
    <3>2. CASE ~cancelled
      <4>1. LaneInOrder' /\ activeRunScope' = taken' /\ taken' = taken + 1
        BY <2>1, <3>2, TakeTurnLane, <1>q DEF SessionInv, Wake
      <4>2. loop = "waiting" /\ loop' = "fetching"
        BY <2>1, <3>2 DEF Wake, TakeTurn
      <4> QED BY <2>1, <3>2, <4>1, <4>2, <1>q DEF SessionInv, Wake, FetchState, RunState,
                        RestState, LaunchedWereTaken, child, TypeOK
    <3> QED BY <3>1, <3>2
  <2>2. CASE ManifestFetched
    <3>1. LaneInOrder' /\ UNCHANGED taken
      BY <2>2, <1>b DEF ManifestFetched, lane
    <3>2. /\ loop' = "running"
          /\ activeRunId' = taken /\ activeRunScope' = taken /\ taken # 0
          /\ openRuns' = {taken} /\ outcome' = "none"
          /\ launched' = launched \cup {taken}
      BY <2>2, <1>q DEF SessionInv, ManifestFetched, FetchState
    <3>3. FetchState' /\ RestState' /\ RunState'
      BY <3>1, <3>2 DEF FetchState, RestState, RunState
    <3>4. LaunchedWereTaken'
      BY <3>1, <3>2, <1>q DEF SessionInv, LaunchedWereTaken, TypeOK
    <3> QED BY <3>1, <3>3, <3>4, <1>q DEF SessionInv
  <2>3. CASE ManifestFailed
    BY <2>3, NextTurnInv, <1>q DEF SessionInv, ManifestFailed, FetchState, child
  <2>4. CASE FetchCancelled
    BY <2>4, NextTurnInv, <1>q DEF SessionInv, FetchCancelled, FetchState, child
  <2>5. CASE RunEnded
    BY <2>5, NextTurnInv, <1>q DEF SessionInv, RunEnded, ChildSettled, RunState
  <2>6. ASSUME ContinueAsNew, loop \in {"compacting", "handoff"} PROVE SessionInv'
    BY <2>6, <1>b, <1>q DEF SessionInv, ContinueAsNew, CarriedQueue, FetchState, RunState,
                      RestState, LaunchedWereTaken, lane, scope, child
  <2>7. CASE CompactionDone
    <3>1. CASE InFlight = {}
      BY <2>6, <2>7, <3>1 DEF CompactionDone
    <3>2. CASE InFlight # {}
      BY <2>7, <3>2, <1>b, <1>q DEF SessionInv, CompactionDone, FetchState, RunState,
                      RestState, LaunchedWereTaken, lane, scope, child
    <3> QED BY <3>1, <3>2
  <2>8. CASE CompactionFailed
    BY <2>8, <1>b, <1>q DEF SessionInv, CompactionFailed, FetchState, RunState,
                      RestState, LaunchedWereTaken, lane, scope, child
  <2>9. CASE HandoffDrained
    BY <2>6, <2>9 DEF HandoffDrained
  <2>10. CASE FinalDrained
    BY <2>10, <1>b, <1>q DEF SessionInv, FinalDrained, FetchState, RunState,
                      RestState, LaunchedWereTaken, lane, scope, child
  <2> QED BY <1>4, <2>1, <2>2, <2>3, <2>4, <2>5, <2>7, <2>8, <2>9, <2>10 DEF Loop
<1>5. CASE IdleTimeout
  BY <1>5, <1>q DEF SessionInv, IdleTimeout, LeaveLoop, LaneInOrder, FetchState, RunState,
              RestState, LaunchedWereTaken, child
<1>6. ASSUME NEW r \in openRuns, NEW how \in Ends, RunCloses(r, how) PROVE SessionInv'
  BY <1>6, <1>b, <1>q DEF SessionInv, RunCloses, FetchState, RunState, RestState,
              LaunchedWereTaken, lane, scope
<1>7. CASE StartSession
  BY <1>7, <1>q DEF SessionInv, StartSession, LaneInOrder, FetchState, RunState, RestState,
              LaunchedWereTaken, scope
<1>8. CASE UNCHANGED vars
  BY <1>8, <1>a, <1>b, <1>q DEF SessionInv, vars, scope, child, lane
<1> QED BY <1>1, <1>2, <1>3, <1>4, <1>5, <1>6, <1>7, <1>8 DEF Next

LEMMA SessionInvariant == Spec => []SessionInv
<1>1. Init => SessionInv
  <2> SUFFICES ASSUME Init PROVE SessionInv
    OBVIOUS
  <2>1. TypeOK
    BY TypeInit
  <2>2. LaneInOrder /\ LaunchedWereTaken
    BY DEF Init, LaneInOrder, LaunchedWereTaken
  <2>3. FetchState /\ RunState /\ RestState /\ ClosedIsQuiet
    BY DEF Init, FetchState, RunState, RestState, ClosedIsQuiet
  <2> QED BY <2>1, <2>2, <2>3 DEF SessionInv
<1> QED BY <1>1, SessionInvStep, TypeCorrect, PTL DEF Spec

(* agentSessionWorkflow loses, repeats and reorders no turn: at every moment the
   queue is exactly the turns accepted and not yet taken, in order. *)
THEOREM LaneStaysInOrder == Spec => []LaneInOrder
<1>1. SessionInv => LaneInOrder
  BY DEF SessionInv
<1> QED BY <1>1, SessionInvariant, PTL

(* agentSessionWorkflow keeps one active run at a time: an open child workflow is
   the one the loop awaits, under the id the handlers route to. *)
THEOREM RunsAreSerial == Spec => []OneRunAtATime
<1>1. SessionInv => OneRunAtATime
  BY DEF SessionInv, OneRunAtATime, FetchState, RunState, RestState
<1> QED BY <1>1, SessionInvariant, PTL

(* A cancelled execution starts no run: a fetch in progress was cancelled with it
   (the cancelRun handler and the scope around listToolManifest). *)
THEOREM CancelStopsLaunches == Spec => NoLaunchAfterCancel
<1>1. SessionInv /\ [Next]_vars => [cancelled /\ cancelled' => launched' = launched]_vars
  <2> SUFFICES ASSUME SessionInv, Next, cancelled, cancelled' PROVE launched' = launched
    BY DEF vars
  <2>1. ~ManifestFetched
    BY DEF SessionInv, ManifestFetched, FetchState
  <2>2. ~StartSession
    BY DEF StartSession
  <2>3. ASSUME Loop PROVE launched' = launched
    BY <2>1, <2>3 DEF Loop, Wake, ManifestFailed, FetchCancelled, RunEnded, CompactionDone,
              CompactionFailed, HandoffDrained, FinalDrained, ContinueAsNew, child
  <2>4. ASSUME NEW c \in Clients, Call(c) \/ Resume(c) PROVE launched' = launched
    BY <2>4 DEF Call, Resume, BeginForward, BeginInterrupt, CancelRun, EndForward,
              EndInterrupt, EndCancelRun, child
  <2> QED BY <2>2, <2>3, <2>4 DEF Next, SubmitTurn, IdleTimeout, RunCloses, child
<1> QED BY <1>1, SessionInvariant, PTL DEF Spec, NoLaunchAfterCancel

-----------------------------------------------------------------------------
(* Handlers address runs that exist. *)

ActiveIsLaunched == activeRunId # NoRun => activeRunId \in launched

LEMMA CallsReachRunsStep ==
  SessionInv /\ CallsReachRuns /\ ActiveIsLaunched /\ [Next]_vars
    => CallsReachRuns' /\ ActiveIsLaunched'
<1> SUFFICES ASSUME SessionInv, CallsReachRuns, ActiveIsLaunched, [Next]_vars
             PROVE  CallsReachRuns' /\ ActiveIsLaunched'
  OBVIOUS
<1> USE DEF CallsReachRuns, ActiveIsLaunched, InFlight
<1>h. handler \in [Clients -> Calls]
  BY DEF SessionInv, TypeOK
<1>a. ASSUME UNCHANGED <<handler, activeRunId, launched>>
      PROVE  CallsReachRuns' /\ ActiveIsLaunched'
  BY <1>a
<1>b. ASSUME \A c \in Clients : handler'[c] = NoCall, UNCHANGED <<activeRunId, launched>>
      PROVE  CallsReachRuns' /\ ActiveIsLaunched'
  BY <1>b
<1>c. ASSUME NextTurn, UNCHANGED <<handler, launched>>
      PROVE  CallsReachRuns' /\ ActiveIsLaunched'
  BY <1>c DEF NextTurn
<1>1. CASE SubmitTurn
  BY <1>1, <1>a DEF SubmitTurn, scope, child
<1>2. ASSUME NEW c \in Clients, Call(c) PROVE CallsReachRuns' /\ ActiveIsLaunched'
  BY <1>2, <1>h DEF Call, BeginForward, BeginInterrupt, CancelRun, scope, child
<1>3. ASSUME NEW c \in Clients, Resume(c) PROVE CallsReachRuns' /\ ActiveIsLaunched'
  BY <1>3, <1>h DEF Resume, EndForward, EndInterrupt, EndCancelRun, scope, child
<1>4. CASE Loop
  <2>1. CASE Wake
    BY <2>1, <1>a DEF Wake, child
  <2>2. CASE ManifestFetched
    BY <2>2 DEF ManifestFetched
  <2>3. CASE ManifestFailed \/ FetchCancelled \/ RunEnded
    BY <2>3, <1>c DEF ManifestFailed, FetchCancelled, RunEnded, child
  <2>4. ASSUME ContinueAsNew PROVE CallsReachRuns' /\ ActiveIsLaunched'
    BY <2>4, <1>b DEF ContinueAsNew, scope, child
  <2>5. CASE CompactionDone \/ HandoffDrained
    BY <2>5, <2>4, <1>a DEF CompactionDone, HandoffDrained, scope, child
  <2>6. CASE CompactionFailed \/ FinalDrained
    BY <2>6, <1>b DEF CompactionFailed, FinalDrained, scope, child
  <2> QED BY <1>4, <2>1, <2>2, <2>3, <2>5, <2>6 DEF Loop
<1>5. CASE IdleTimeout
  BY <1>5, <1>a DEF IdleTimeout, child
<1>6. ASSUME NEW r \in openRuns, NEW how \in Ends, RunCloses(r, how)
      PROVE  CallsReachRuns' /\ ActiveIsLaunched'
  BY <1>6, <1>a DEF RunCloses, scope
<1>7. CASE StartSession
  BY <1>7 DEF StartSession, SessionInv, ClosedIsQuiet, RestState, scope
<1>8. CASE UNCHANGED vars
  BY <1>8, <1>a DEF vars, scope, child
<1> QED BY <1>1, <1>2, <1>3, <1>4, <1>5, <1>6, <1>7, <1>8 DEF Next

(* A suspended handler of agentSessionWorkflow addresses a run the session has
   started: activeRunId is set where executeChild starts the workflow. *)
THEOREM HandlersReachRuns == Spec => []CallsReachRuns
<1>1. Init => CallsReachRuns /\ ActiveIsLaunched
  BY DEF Init, CallsReachRuns, ActiveIsLaunched, InFlight
<1> QED BY <1>1, SessionInvariant, CallsReachRunsStep, PTL DEF Spec

(* What the session's run checks of its turns, in one statement: the queue is the
   turns accepted and not yet taken, the child awaited is the only open run, and
   the handlers of agentSessionWorkflow address runs that were started. *)
THEOREM TurnsAreSerial == Spec => []SerialTurns
<1>1. TypeOK /\ LaneInOrder /\ OneRunAtATime /\ CallsReachRuns => SerialTurns
  BY DEF SerialTurns
<1> QED BY <1>1, TypeCorrect, LaneStaysInOrder, RunsAreSerial, HandlersReachRuns, PTL

-----------------------------------------------------------------------------
(* The session implements the lane. *)

LaneStep == Lane!Next \/ UNCHANGED Lane!laneVars

(* Leaving the loop, taking the next turn, waiting or compacting: the lane closes,
   moves on, or does nothing it can see. *)
LEMMA NextTurnLane ==
  ASSUME SessionInv, NextTurn, UNCHANGED launched, loop \in {"fetching", "running"}
  PROVE  LaneStep
<1> USE DEF Lane!laneVars, Lane!Next, LaneStep
<1>1. activeRunId' = 0 /\ UNCHANGED submittedTurnCount
  BY DEF NextTurn, NoRun
<1>2. \/ TakeTurn
      \/ LeaveLoop
      \/ loop' \in {"compacting", "waiting"} /\ UNCHANGED <<queue, taken>>
  BY DEF NextTurn
<1>3. CASE TakeTurn
  <2>1. taken' = taken + 1 /\ loop' = "fetching"
    BY <1>3 DEF TakeTurn
  <2>2. taken < submittedTurnCount
    <3>1. queue \in Seq(Nat) /\ queue # <<>>
      BY <1>3 DEF TakeTurn, SessionInv, TypeOK
    <3>2. Len(queue) \in Nat /\ Len(queue) > 0
      BY <3>1
    <3> QED BY <3>2 DEF SessionInv, TypeOK, LaneInOrder
  <2> QED BY <1>1, <2>1, <2>2 DEF Lane!MoveOn
<1>4. CASE LeaveLoop
  BY <1>1, <1>4 DEF LeaveLoop, Lane!MoveOn, Lane!Close
<1>5. CASE loop' \in {"compacting", "waiting"} /\ UNCHANGED <<queue, taken>>
  BY <1>1, <1>5 DEF Lane!MoveOn
<1> QED BY <1>2, <1>3, <1>4, <1>5

LEMMA LaneRefinementStep == SessionInv /\ [Next]_vars => LaneStep
<1> SUFFICES ASSUME SessionInv, [Next]_vars PROVE LaneStep
  OBVIOUS
<1> USE DEF Lane!laneVars, Lane!Next, LaneStep
<1> DEFINE SameLane ==
      /\ UNCHANGED <<submittedTurnCount, taken, launched, activeRunId>>
      /\ (loop # "closed") = (loop' # "closed")
<1>a. ASSUME SameLane PROVE LaneStep
  BY <1>a
<1>b. ASSUME loop # "closed", UNCHANGED <<loop, launched, activeRunId>>, PushTurn PROVE LaneStep
  BY <1>b DEF PushTurn, Lane!Accept
<1>c. ASSUME LeaveLoop, loop # "closed", activeRunId = 0,
             UNCHANGED <<submittedTurnCount, launched, activeRunId>>
      PROVE LaneStep
  BY <1>c DEF LeaveLoop, Lane!Close
<1>1. CASE SubmitTurn
  BY <1>1, <1>b DEF SubmitTurn, scope, child
<1>2. ASSUME NEW c \in Clients, Call(c) PROVE LaneStep
  BY <1>2, <1>a DEF Call, BeginForward, BeginInterrupt, CancelRun, lane, scope, child
<1>3. ASSUME NEW c \in Clients, Resume(c) PROVE LaneStep
  <2>1. CASE EndForward(c) \/ EndCancelRun(c)
    BY <2>1, <1>a DEF EndForward, EndCancelRun, lane, scope, child
  <2>2. CASE EndInterrupt(c)
    <3>1. CASE loop # "closed" /\ PushTurn
      BY <2>2, <3>1, <1>b DEF EndInterrupt, child
    <3>2. CASE UNCHANGED lane
      BY <2>2, <3>2, <1>a DEF EndInterrupt, child, lane
    <3>3. loop # "closed"
      BY <2>2 DEF SessionInv, ClosedIsQuiet, EndInterrupt, NoCall
    <3> QED BY <2>2, <3>1, <3>2, <3>3 DEF EndInterrupt
  <2> QED BY <1>3, <2>1, <2>2 DEF Resume
<1>4. CASE Loop
  <2>1. CASE Wake
    <3>1. /\ loop # "closed" /\ activeRunId = 0
          /\ UNCHANGED <<submittedTurnCount, launched, activeRunId>>
      BY <2>1 DEF Wake, SessionInv, RestState, NoRun, child
    <3>2. CASE cancelled
      BY <2>1, <3>1, <3>2, <1>c DEF Wake
    <3>3. CASE ~cancelled
      <4>1. TakeTurn
        BY <2>1, <3>3 DEF Wake
      <4>2. taken < submittedTurnCount
        <5>1. queue \in Seq(Nat) /\ queue # <<>>
          BY <4>1 DEF TakeTurn, SessionInv, TypeOK
        <5>2. Len(queue) \in Nat /\ Len(queue) > 0
          BY <5>1
        <5> QED BY <5>2 DEF SessionInv, TypeOK, LaneInOrder
      <4> QED BY <3>1, <4>1, <4>2 DEF TakeTurn, Lane!MoveOn
    <3> QED BY <3>2, <3>3
  <2>2. CASE ManifestFetched
    BY <2>2 DEF ManifestFetched, SessionInv, FetchState, NoRun, lane, Lane!Begin
  <2>3. CASE ManifestFailed \/ FetchCancelled \/ RunEnded
    BY <2>3, NextTurnLane DEF ManifestFailed, FetchCancelled, RunEnded, child
  <2>4. CASE CompactionDone \/ HandoffDrained
    BY <2>4, <1>a DEF CompactionDone, HandoffDrained, ContinueAsNew, lane, scope, child
  <2>5. CASE CompactionFailed \/ FinalDrained
    BY <2>5 DEF CompactionFailed, FinalDrained, Lane!Close, lane, scope, child,
                SessionInv, RestState, NoRun
  <2> QED BY <1>4, <2>1, <2>2, <2>3, <2>4, <2>5 DEF Loop
<1>5. CASE IdleTimeout
  BY <1>5, <1>c DEF IdleTimeout, SessionInv, RestState, NoRun, child
<1>6. ASSUME NEW r \in openRuns, NEW how \in Ends, RunCloses(r, how) PROVE LaneStep
  BY <1>6, <1>a DEF RunCloses, lane, scope
<1>7. CASE StartSession
  BY <1>7 DEF StartSession, Lane!Reopen, scope, SessionInv, RestState, NoRun
<1>8. CASE UNCHANGED vars
  BY <1>8, <1>a DEF vars, lane, scope, child
<1> QED BY <1>1, <1>2, <1>3, <1>4, <1>5, <1>6, <1>7, <1>8 DEF Next

(* agentSessionWorkflow keeps TurnLane's promise: turns are taken in the order
   they were accepted, each at most once, one executing at a time. *)
THEOREM SessionImplementsLane == Spec => LanePromise
<1>1. Init => Lane!Init
  BY DEF Init, Lane!Init, NoRun
<1>2. SessionInv /\ [Next]_vars => [Lane!Next]_(Lane!laneVars)
  BY LaneRefinementStep DEF LaneStep
<1> QED BY <1>1, <1>2, SessionInvariant, PTL DEF Spec, LanePromise, Lane!Spec

-----------------------------------------------------------------------------
(* The memory: the inductive invariant. *)

EventRows == [run : 1..MaxRuns, seq : 1..MaxEvents]

NoteRows ==
  [kind : {"run", "summary", "proposed"}, of : 1..MaxRuns,
   state : {"pending", "confirmed", "kept", "deleted"}]

(* The statements of an attempt to write a candidate, and of one to compact. *)
WriteStatements == {"insert", "publish", "written"}
CompactStatements == {"summary", "proposal", "update", "updated"}

(* A position and references. *)
HeldPositions == [cursor : 0..MaxEvents, refs : SUBSET Nat]

(* Where an attempt may be and what it may carry. *)
Carried ==
  [at : {"none"} \cup WriteStatements \cup CompactStatements, run : 0..MaxRuns,
   covers : SUBSET Nat, to : 0..MaxEvents, refs : SUBSET Nat, proposes : BOOLEAN,
   ids : SUBSET Nat]

(* What a compaction did. *)
Compactions ==
  [life : 0..MaxLives, run : 0..MaxRuns, covers : SUBSET Nat, refs : SUBSET Nat]

(* Every variable has its type. *)
MemoryTypes ==
  /\ transcript \in Seq(EventRows) /\ notes \in Seq(NoteRows) /\ compacted \in Seq(Compactions)
  /\ row \in HeldPositions /\ held \in HeldPositions
  /\ phase \in {"idle", "write", "returned", "persist", "failed"}
  /\ at \in Carried
  /\ run \in 0..MaxRuns /\ attempt \in 0..MaxAttempts
  /\ life \in 0..MaxLives /\ faults \in 0..MaxFaults

(* What refers to a note or an event refers to one that is there. *)
Resolved ==
  /\ cards \cup row.refs \cup held.refs \cup at.refs \cup at.ids \subseteq DOMAIN notes
  /\ at.covers \subseteq DOMAIN transcript
  /\ \A i \in DOMAIN compacted : compacted[i].covers \subseteq DOMAIN transcript
  /\ discarding \in {0} \cup DOMAIN notes

(* The session waits for an attempt of the activity it asked for, or for none. *)
Waiting ==
  /\ phase = "write" => at.at \in WriteStatements
  /\ phase = "persist" => at.at \in CompactStatements
  /\ phase \notin {"write", "persist"} => at = Idle
  /\ phase \in {"write", "returned", "persist"} => run > 0

(* Only summaries need no confirmation. *)
Proposed == \A i \in DOMAIN notes : notes[i].state = "confirmed" => notes[i].kind = "summary"

(* What compactions of this life covered is below the position of the session, and what
   the one at work covers is above it and not above the one it will hand on. *)
Positioned ==
  /\ \A i \in DOMAIN compacted : compacted[i].life <= life
  /\ \A i \in DOMAIN compacted, e \in DOMAIN transcript :
       e \in compacted[i].covers /\ compacted[i].life = life => transcript[e].seq <= held.cursor
  /\ phase = "persist" =>
       /\ at.covers = After(held.cursor)
       /\ held.cursor <= at.to
       /\ \A e \in at.covers : transcript[e].seq <= at.to
  /\ SummarisedOnce

(* References of earlier compactions are in the row and in what the one at work loaded,
   and the row is what it hands on when that is written. *)
Referred ==
  /\ ReferencesAccumulate
  /\ phase = "persist" => \A i \in DOMAIN compacted : compacted[i].refs \subseteq at.refs
  /\ at.at = "updated" => row = [cursor |-> at.to, refs |-> at.refs \cup at.ids]

(* What a run's attempt wrote is a candidate of that run, and runs since the last
   compaction come after its run. *)
Since ==
  /\ phase = "write" => \A i \in at.ids : notes[i].kind = "run" /\ notes[i].of = run
  /\ Compacted =>
       Last(compacted).run <= run /\ (phase = "write" => Last(compacted).run < run)
  /\ HandoffIsRecorded

(* The inductive invariant. *)
MemoryInv ==
  MemoryTypes /\ Resolved /\ Waiting /\ Proposed /\ Positioned /\ Referred /\ Since

-----------------------------------------------------------------------------
(* Lemmas about numbers and sequences. *)

(* The bounds one by one. *)
LEMMA Bounds ==
  /\ MaxRuns \in Nat \ {0} /\ MaxEvents \in Nat \ {0} /\ MaxAttempts \in Nat \ {0}
  /\ MaxLives \in Nat /\ MaxFaults \in Nat
BY MemoryAssumption

(* A set of numbers up to a bound has a greatest. *)
LEMMA MaxOfNaturals ==
  ASSUME NEW b \in Nat, NEW S \in SUBSET (0..b), S # {}
  PROVE  Max(S) \in S /\ \A x \in S : x <= Max(S)
<1> DEFINE T == {y \in 0..b : b - y \in S}
<1>1. T # {}
  <2>1. PICK x \in S : TRUE
    OBVIOUS
  <2>2. b - x \in T
    BY <2>1
  <2> QED BY <2>2
<1>2. T \subseteq Nat
  OBVIOUS
<1>3. \E y \in T : \A z \in T : <<z, y>> \notin OpToRel(<, Nat)
  <2> HIDE DEF T
  <2> QED BY <1>1, <1>2, NatLessThanWellFounded, WFMin, Zenon
<1>4. PICK y \in T : \A z \in T : ~(z < y)
  BY <1>2, <1>3 DEF OpToRel
<1>5. b - y \in S /\ \A x \in S : b - y >= x
  <2> SUFFICES ASSUME NEW x \in S PROVE b - y >= x
    OBVIOUS
  <2>1. b - x \in T
    OBVIOUS
  <2> QED BY <1>4, <2>1
<1>6. \E m \in S : \A x \in S : m >= x
  BY <1>5
<1> QED BY <1>6 DEF Max

(* A note that is added. *)
LEMMA NoteAdded ==
  ASSUME notes \in Seq(NoteRows), NEW note \in NoteRows, notes' = Append(notes, note)
  PROVE  /\ notes' \in Seq(NoteRows)
         /\ NewId \notin DOMAIN notes /\ DOMAIN notes' = DOMAIN notes \cup {NewId}
         /\ \A i \in DOMAIN notes : notes'[i] = notes[i]
         /\ notes'[NewId] = note
BY DEF NewId

(* The events of a run are as many as are in the transcript. *)
LEMMA EventsAreCounted ==
  ASSUME transcript \in Seq(EventRows), NEW r
  PROVE  EventsOf(r) \in Nat
<1>1. IsFiniteSet(DOMAIN transcript)
  BY FS_Interval
<1>2. IsFiniteSet({i \in DOMAIN transcript : transcript[i].run = r})
  BY <1>1, FS_Subset
<1> QED BY <1>2, FS_CardinalityType DEF EventsOf

(* Events are added behind those that are there. *)
LEMMA EventsAdded ==
  ASSUME transcript \in Seq(EventRows), NEW r \in 1..MaxRuns, NEW n \in 0..MaxEvents,
         transcript' = Appended(r, n)
  PROVE  /\ transcript' \in Seq(EventRows)
         /\ DOMAIN transcript \subseteq DOMAIN transcript'
         /\ \A i \in DOMAIN transcript : transcript'[i] = transcript[i]
<1> USE Bounds
<1>1. EventsOf(r) \in Nat
  BY EventsAreCounted
<1> DEFINE k == EventsOf(r)
           m == IF n >= k THEN n - k ELSE 0
           added == [i \in 1..m |-> [run |-> r, seq |-> k + i]]
<1>2. 1..(n - k) = 1..m /\ m \in Nat
  BY <1>1
<1>3. added \in Seq(EventRows)
  <2>1. \A i \in 1..m : [run |-> r, seq |-> k + i] \in EventRows
    BY <1>1 DEF EventRows
  <2>2. added \in [1..m -> EventRows]
    BY <2>1
  <2> HIDE DEF added, m
  <2> QED BY <1>2, <2>2
<1>4. transcript' = transcript \o added
  BY <1>2 DEF Appended
<1> HIDE DEF added
<1> QED BY <1>3, <1>4, ConcatProperties

(* No attempt, and the first statement of one that writes a candidate. *)
LEMMA WriteBegins ==
  ASSUME NEW r \in 0..MaxRuns
  PROVE  /\ Idle \in Carried /\ Idle.at = "none"
         /\ Idle.ids = {} /\ Idle.refs = {} /\ Idle.covers = {}
         /\ WriteAttempt(r) \in Carried /\ WriteAttempt(r).at = "insert"
         /\ WriteAttempt(r).ids = {} /\ WriteAttempt(r).refs = {} /\ WriteAttempt(r).covers = {}
<1>1. /\ Idle \in Carried /\ Idle.at = "none"
      /\ Idle.ids = {} /\ Idle.refs = {} /\ Idle.covers = {}
  BY Bounds DEF Carried, Idle
<1>2. "insert" \in WriteStatements
  BY DEF WriteStatements
<1> HIDE DEF Idle
<1>3. WriteAttempt(r) = [Idle EXCEPT !.at = "insert", !.run = r]
  BY DEF WriteAttempt
<1> QED BY <1>1, <1>2, <1>3 DEF Carried

(* The types of what is in the sequences. *)
LEMMA ElementsTyped ==
  ASSUME MemoryTypes
  PROVE  /\ \A e \in DOMAIN transcript :
              transcript[e] \in EventRows /\ transcript[e].seq \in 1..MaxEvents
         /\ \A i \in DOMAIN notes : notes[i] \in NoteRows
         /\ held.cursor \in 0..MaxEvents /\ at.to \in 0..MaxEvents
<1>1. \A e \in DOMAIN transcript : transcript[e] \in EventRows
  BY DEF MemoryTypes
<1>2. \A e \in DOMAIN transcript : transcript[e].seq \in 1..MaxEvents
  BY <1>1 DEF EventRows
<1>3. \A i \in DOMAIN notes : notes[i] \in NoteRows
  BY DEF MemoryTypes
<1>4. held.cursor \in 0..MaxEvents /\ at.to \in 0..MaxEvents
  BY DEF MemoryTypes, HeldPositions, Carried
<1> QED BY <1>1, <1>2, <1>3, <1>4

(* The last compaction is one of those there were. *)
LEMMA LastIsOne ==
  ASSUME MemoryTypes, compacted # <<>>
  PROVE  /\ Len(compacted) \in DOMAIN compacted /\ Last(compacted) = compacted[Len(compacted)]
         /\ Last(compacted).run \in Nat /\ Last(compacted).life \in Nat
<1>1. compacted \in Seq(Compactions) /\ Len(compacted) \in DOMAIN compacted
  BY DEF MemoryTypes
<1>2. Last(compacted) = compacted[Len(compacted)]
  BY DEF Last
<1>3. Last(compacted) \in Compactions
  BY <1>1, <1>2
<1> QED BY <1>1, <1>2, <1>3, Bounds DEF Compactions

(* While there is no new compaction the last one stays the last, and the candidates
   gathered since stay gathered. *)
LEMMA GatheredStays ==
  ASSUME MemoryTypes, UNCHANGED <<life, compacted>>,
         \A i \in DOMAIN notes :
           i \in DOMAIN notes' /\ notes'[i].kind = notes[i].kind /\ notes'[i].of = notes[i].of
  PROVE  /\ Compacted' = Compacted /\ Last(compacted)' = Last(compacted)
         /\ Gathered \subseteq Gathered'
<1>1. Compacted' = Compacted /\ Last(compacted)' = Last(compacted)
  BY DEF Compacted, Last
<1>2. ASSUME NEW i \in Gathered PROVE i \in Gathered'
  BY <1>1, <1>2 DEF Gathered
<1> QED BY <1>1, <1>2

(* A step that leaves what the session holds, and its row unless a compaction is at work,
   and that adds to an attempt's notes candidates of its run only. *)
LEMMA SinceStays ==
  ASSUME MemoryTypes, Resolved, Since, UNCHANGED <<held, run, life, compacted>>,
         phase' \in {"idle", "write", "returned"} =>
           phase \in {"idle", "write", "returned"} /\ row' = row,
         \A i \in DOMAIN notes :
           i \in DOMAIN notes' /\ notes'[i].kind = notes[i].kind /\ notes'[i].of = notes[i].of,
         phase' = "write" =>
           /\ phase = "write"
           /\ \A i \in at'.ids :
                i \in at.ids \/ (notes'[i].kind = "run" /\ notes'[i].of = run)
  PROVE  Since'
<1>1. /\ Compacted' = Compacted /\ Last(compacted)' = Last(compacted)
      /\ Gathered \subseteq Gathered'
  BY GatheredStays
<1>2. phase' = "write" => \A i \in at'.ids : notes'[i].kind = "run" /\ notes'[i].of = run'
  BY DEF Since, Resolved
<1>3. HandoffIsRecorded'
  BY <1>1 DEF Since, HandoffIsRecorded
<1> QED BY <1>1, <1>2, <1>3 DEF Since

-----------------------------------------------------------------------------
(* The initial state. *)

LEMMA InitialMemory == MemoryInit => MemoryInv
<1> USE Bounds DEF MemoryInit
<1> SUFFICES ASSUME MemoryInit PROVE MemoryInv
  OBVIOUS
<1>1. MemoryTypes
  BY WriteBegins DEF MemoryTypes, HeldPositions
<1>2. Resolved
  BY WriteBegins DEF Resolved
<1>3. Waiting
  BY DEF Waiting
<1>4. Proposed
  BY DEF Proposed
<1>5. Positioned
  BY DEF Positioned, SummarisedOnce
<1>6. Referred
  BY DEF Referred, ReferencesAccumulate, Idle
<1>7. Since
  BY DEF Since, HandoffIsRecorded, Compacted
<1> QED BY <1>1, <1>2, <1>3, <1>4, <1>5, <1>6, <1>7 DEF MemoryInv

-----------------------------------------------------------------------------
(* Runs and what is between them. *)

LEMMA RunKeeps ==
  ASSUME MemoryInv, Run
  PROVE  MemoryInv'
<1> USE Bounds
<1>1. MemoryTypes /\ Resolved /\ Waiting /\ Proposed /\ Positioned /\ Referred /\ Since
  BY DEF MemoryInv
<1>2. run + 1 \in 1..MaxRuns
  BY <1>1 DEF MemoryTypes, Run
<1>3. PICK n \in 0..MaxEvents : transcript' = Appended(run + 1, n)
  BY DEF Run
<1>4. /\ transcript' \in Seq(EventRows)
      /\ DOMAIN transcript \subseteq DOMAIN transcript'
      /\ \A i \in DOMAIN transcript : transcript'[i] = transcript[i]
  BY <1>1, <1>2, <1>3, EventsAdded DEF MemoryTypes
<1>5. /\ at' = WriteAttempt(run + 1) /\ phase = "idle" /\ phase' = "write"
      /\ run' = run + 1 /\ attempt' = 1
      /\ UNCHANGED <<notes, cards, row, held, discarding, life, faults, compacted>>
  BY DEF Run
<1>6. at' \in Carried /\ at'.at = "insert" /\ at'.ids = {} /\ at'.refs = {} /\ at'.covers = {}
  BY <1>2, <1>5, WriteBegins
<1>7. MemoryTypes'
  BY <1>1, <1>2, <1>4, <1>5, <1>6 DEF MemoryTypes
<1>8. Resolved'
  BY <1>1, <1>4, <1>5, <1>6 DEF Resolved
<1>9. Waiting'
  BY <1>1, <1>2, <1>5, <1>6 DEF Waiting, WriteStatements
<1>10. Proposed'
  BY <1>1, <1>5 DEF Proposed
<1>11. Positioned'
  <2>1. \A i \in DOMAIN compacted, e \in DOMAIN transcript' :
          e \in compacted[i].covers /\ compacted[i].life = life
          => transcript'[e].seq <= held.cursor
    BY <1>1, <1>4 DEF Positioned, Resolved
  <2> QED BY <1>1, <1>5, <2>1 DEF Positioned, SummarisedOnce
<1>12. Referred'
  BY <1>1, <1>5, <1>6 DEF Referred, ReferencesAccumulate
<1>13. Since'
  <2>1. /\ Compacted' = Compacted /\ Last(compacted)' = Last(compacted)
        /\ Gathered \subseteq Gathered'
    BY <1>1, <1>5, GatheredStays
  <2>2. Compacted => Last(compacted).run \in Nat /\ Last(compacted).run <= run
    BY <1>1, LastIsOne DEF Compacted, Since
  <2>3. HandoffIsRecorded'
    BY <1>1, <1>5, <2>1 DEF Since, HandoffIsRecorded
  <2>4. run \in Nat
    BY <1>1 DEF MemoryTypes
  <2> QED BY <1>5, <1>6, <2>1, <2>2, <2>3, <2>4 DEF Since
<1> QED BY <1>7, <1>8, <1>9, <1>10, <1>11, <1>12, <1>13 DEF MemoryInv

LEMMA RunReturnsKeeps ==
  ASSUME MemoryInv, RunReturns
  PROVE  MemoryInv'
<1>1. MemoryTypes /\ Resolved /\ Waiting /\ Proposed /\ Positioned /\ Referred /\ Since
  BY DEF MemoryInv
<1>2. /\ held' = [held EXCEPT !.refs = @ \cup at.ids]
      /\ phase = "write" /\ phase' = "returned" /\ at' = Idle /\ attempt' = 0
      /\ cards' \subseteq cards
      /\ UNCHANGED <<transcript, notes, row, run, discarding, life, faults, compacted>>
  BY DEF RunReturns, Trimmed
<1>3. held' \in HeldPositions /\ held'.cursor = held.cursor /\ held'.refs = held.refs \cup at.ids
  BY <1>1, <1>2 DEF MemoryTypes, HeldPositions, Carried
<1>4. Idle \in Carried /\ Idle.at = "none" /\ Idle.ids = {} /\ Idle.refs = {} /\ Idle.covers = {}
  BY <1>1, WriteBegins DEF MemoryTypes
<1> HIDE DEF Idle
<1>5. MemoryTypes'
  BY <1>1, <1>2, <1>3, <1>4, Bounds DEF MemoryTypes
<1>6. Resolved'
  BY <1>1, <1>2, <1>3, <1>4 DEF Resolved
<1>7. Waiting'
  BY <1>1, <1>2 DEF Waiting
<1>8. Proposed'
  BY <1>1, <1>2 DEF Proposed
<1>9. Positioned'
  BY <1>1, <1>2, <1>3 DEF Positioned, SummarisedOnce
<1>10. Referred'
  BY <1>1, <1>2, <1>3, <1>4 DEF Referred, ReferencesAccumulate
<1>11. Since'
  <2>1. /\ Compacted' = Compacted /\ Last(compacted)' = Last(compacted)
        /\ Gathered \subseteq Gathered'
    BY <1>1, <1>2, GatheredStays
  <2>2. Compacted => at.ids \subseteq Gathered
    <3>1. \A i \in at.ids : i \in DOMAIN notes /\ notes[i].kind = "run" /\ notes[i].of = run
      BY <1>1, <1>2 DEF Since, Resolved
    <3>2. Compacted => Last(compacted).run < run /\ Last(compacted).run \in Nat /\ run \in Nat
      BY <1>1, <1>2, LastIsOne DEF MemoryTypes, Compacted, Since
    <3> QED BY <3>1, <3>2 DEF Gathered
  <2>3. HandoffIsRecorded'
    BY <1>1, <1>2, <1>3, <2>1, <2>2 DEF Since, HandoffIsRecorded
  <2> QED BY <1>1, <1>2, <2>1, <2>3 DEF Since
<1> QED BY <1>5, <1>6, <1>7, <1>8, <1>9, <1>10, <1>11 DEF MemoryInv

LEMMA NextRunKeeps ==
  ASSUME MemoryInv, NextRun
  PROVE  MemoryInv'
<1>1. MemoryTypes /\ Resolved /\ Waiting /\ Proposed /\ Positioned /\ Referred /\ Since
  BY DEF MemoryInv
<1> USE DEF NextRun, tables
<1>2. MemoryTypes'
  BY <1>1 DEF MemoryTypes
<1>3. Resolved'
  BY <1>1 DEF Resolved
<1>4. Waiting'
  BY <1>1 DEF Waiting
<1>5. Proposed'
  BY <1>1 DEF Proposed
<1>6. Positioned'
  BY <1>1 DEF Positioned, SummarisedOnce
<1>7. Referred'
  BY <1>1 DEF Referred, ReferencesAccumulate
<1>8. Since'
  BY <1>1, SinceStays
<1> QED BY <1>2, <1>3, <1>4, <1>5, <1>6, <1>7, <1>8 DEF MemoryInv

-----------------------------------------------------------------------------
(* A compaction. *)

(* What a compaction hands on is not below what it covers. *)
LEMMA LoadedPosition ==
  ASSUME MemoryTypes
  PROVE  LET covers == After(held.cursor)
             to == Max({held.cursor} \cup {transcript[i].seq : i \in covers})
         IN /\ covers \subseteq DOMAIN transcript
            /\ to \in 0..MaxEvents /\ held.cursor <= to
            /\ \A e \in covers : transcript[e].seq <= to
<1> DEFINE covers == After(held.cursor)
           S == {held.cursor} \cup {transcript[i].seq : i \in covers}
<1>1. covers \subseteq DOMAIN transcript
  BY DEF After
<1>2. S \subseteq 0..MaxEvents /\ S # {} /\ MaxEvents \in Nat
  BY <1>1, Bounds, ElementsTyped
<1>3. Max(S) \in S /\ \A x \in S : x <= Max(S)
  <2> HIDE DEF S
  <2> QED BY <1>2, MaxOfNaturals
<1> HIDE DEF covers
<1>4. \A e \in covers : transcript[e].seq <= Max(S)
  BY <1>3
<1>5. held.cursor <= Max(S)
  BY <1>3
<1> QED BY <1>1, <1>2, <1>3, <1>4, <1>5 DEF covers

LEMMA LoadKeeps ==
  ASSUME MemoryInv, Load
  PROVE  MemoryInv'
<1>1. MemoryTypes /\ Resolved /\ Waiting /\ Proposed /\ Positioned /\ Referred /\ Since
  BY DEF MemoryInv
<1> DEFINE covers == After(held.cursor)
           to == Max({held.cursor} \cup {transcript[i].seq : i \in covers})
<1>2. /\ covers \subseteq DOMAIN transcript
      /\ to \in 0..MaxEvents /\ held.cursor <= to
      /\ \A e \in covers : transcript[e].seq <= to
  BY <1>1, LoadedPosition
<1>3. PICK proposes \in BOOLEAN :
        at' = [at |-> "summary", run |-> run, covers |-> covers, refs |-> row.refs,
               to |-> to, proposes |-> proposes, ids |-> {}]
  BY DEF Load, ExistingRefs
<1> HIDE DEF covers, to
<1>4. /\ phase = "returned" /\ phase' = "persist" /\ attempt' = 1
      /\ UNCHANGED <<transcript, notes, cards, row, run, held, discarding, life, faults, compacted>>
  BY DEF Load, tables
<1>5. /\ at' \in Carried /\ at'.at = "summary" /\ at'.ids = {} /\ at'.refs = row.refs
      /\ at'.covers = covers /\ at'.to = to
  <2>1. DOMAIN transcript \subseteq Nat /\ row.refs \subseteq Nat /\ run \in 0..MaxRuns
    BY <1>1 DEF MemoryTypes, HeldPositions
  <2> QED BY <1>2, <1>3, <2>1 DEF Carried, CompactStatements
<1>6. MemoryTypes'
  BY <1>1, <1>4, <1>5, Bounds DEF MemoryTypes
<1>7. Resolved'
  BY <1>1, <1>2, <1>4, <1>5 DEF Resolved
<1>8. Waiting'
  BY <1>1, <1>4, <1>5 DEF Waiting, CompactStatements
<1>9. Proposed'
  BY <1>1, <1>4 DEF Proposed
<1>10. Positioned'
  BY <1>1, <1>2, <1>4, <1>5 DEF Positioned, SummarisedOnce, After, covers
<1>11. Referred'
  BY <1>1, <1>4, <1>5 DEF Referred, ReferencesAccumulate
<1>12. Since'
  BY <1>1, <1>4, SinceStays
<1> QED BY <1>6, <1>7, <1>8, <1>9, <1>10, <1>11, <1>12 DEF MemoryInv

LEMMA CompactionReturnsKeeps ==
  ASSUME MemoryInv, CompactionReturns
  PROVE  MemoryInv'
<1>1. MemoryTypes /\ Resolved /\ Waiting /\ Proposed /\ Positioned /\ Referred /\ Since
  BY DEF MemoryInv
<1> DEFINE refs == at.refs \cup at.ids
           done == [life |-> life, run |-> run, covers |-> at.covers, refs |-> refs]
<1>2. /\ phase = "persist" /\ at.at = "updated"
      /\ held' = [cursor |-> at.to, refs |-> refs]
      /\ compacted' = Append(compacted, done)
      /\ at' = Idle /\ phase' = "idle" /\ attempt' = 0
      /\ UNCHANGED <<transcript, notes, cards, row, run, discarding, life, faults>>
  BY DEF CompactionReturns, tables
<1>3. /\ done \in Compactions /\ done.covers = at.covers /\ done.refs = refs
      /\ done.life = life /\ done.run = run
      /\ refs \subseteq Nat /\ at.to \in 0..MaxEvents
  BY <1>1 DEF MemoryTypes, Carried, Compactions
<1> HIDE DEF done
<1>4. /\ compacted' \in Seq(Compactions)
      /\ DOMAIN compacted' = DOMAIN compacted \cup {Len(compacted) + 1}
      /\ \A i \in DOMAIN compacted : compacted'[i] = compacted[i]
      /\ compacted'[Len(compacted) + 1] = done
      /\ Len(compacted) + 1 \notin DOMAIN compacted
  BY <1>1, <1>2, <1>3 DEF MemoryTypes
<1>5. Idle \in Carried /\ Idle.at = "none" /\ Idle.ids = {} /\ Idle.refs = {} /\ Idle.covers = {}
  BY <1>1, WriteBegins DEF MemoryTypes
<1> HIDE DEF Idle
<1>6. MemoryTypes'
  BY <1>1, <1>2, <1>3, <1>4, <1>5, Bounds DEF MemoryTypes, HeldPositions
<1>7. Resolved'
  BY <1>1, <1>2, <1>3, <1>4, <1>5 DEF Resolved
<1>8. Waiting'
  BY <1>2 DEF Waiting
<1>9. Proposed'
  BY <1>1, <1>2 DEF Proposed
<1>10. Positioned'
  <2>1. /\ at.covers \subseteq DOMAIN transcript /\ at.to \in Nat /\ held.cursor \in Nat
        /\ \A i \in DOMAIN compacted : compacted[i].covers \subseteq DOMAIN transcript
        /\ \A e \in DOMAIN transcript : transcript[e].seq \in Nat
    BY <1>1, Bounds, ElementsTyped DEF Resolved
  <2>2. \A i \in DOMAIN compacted, e \in DOMAIN transcript :
          e \in compacted[i].covers /\ compacted[i].life = life
          => transcript[e].seq <= held.cursor
    BY <1>1 DEF Positioned
  <2>3. /\ held.cursor <= at.to
        /\ \A e \in at.covers : held.cursor < transcript[e].seq /\ transcript[e].seq <= at.to
    BY <1>1, <1>2, <2>1 DEF Positioned, After
  <2>4. \A i \in DOMAIN compacted', e \in DOMAIN transcript :
          e \in compacted'[i].covers /\ compacted'[i].life = life => transcript[e].seq <= at.to
    BY <1>3, <1>4, <2>1, <2>2, <2>3
  <2>5. \A i \in DOMAIN compacted :
          compacted[i].life = life => compacted[i].covers \cap at.covers = {}
    BY <2>1, <2>2, <2>3
  <2>6. SummarisedOnce'
    BY <1>1, <1>3, <1>4, <2>5 DEF Positioned, SummarisedOnce
  <2>7. \A i \in DOMAIN compacted' : compacted'[i].life <= life
    BY <1>1, <1>3, <1>4 DEF Positioned, MemoryTypes
  <2> QED BY <1>2, <2>4, <2>6, <2>7 DEF Positioned
<1>11. Referred'
  BY <1>1, <1>2, <1>3, <1>4, <1>5 DEF Referred, ReferencesAccumulate
<1>12. Since'
  <2>1. Last(compacted)' = done /\ compacted' # <<>>
    BY <1>1, <1>2, <1>4 DEF Last, MemoryTypes
  <2>2. run \in Nat /\ row = [cursor |-> at.to, refs |-> refs]
    BY <1>1, <1>2 DEF MemoryTypes, Referred
  <2> QED BY <1>2, <1>3, <2>1, <2>2 DEF Since, HandoffIsRecorded
<1> QED BY <1>6, <1>7, <1>8, <1>9, <1>10, <1>11, <1>12 DEF MemoryInv

-----------------------------------------------------------------------------
(* The statements of attempts. *)

(* An attempt at a statement is one the session waits for. *)
LEMMA AttemptIsAwaited ==
  ASSUME Waiting
  PROVE  /\ at.at \in WriteStatements => phase = "write"
         /\ at.at \in CompactStatements => phase = "persist"
BY DEF Waiting, Idle, WriteStatements, CompactStatements

(* A note that is written by an attempt that goes on. *)
LEMMA NoteIsMade ==
  ASSUME MemoryInv, NEW kind \in {"run", "summary", "proposed"}, NEW confirmed \in BOOLEAN,
         confirmed => kind = "summary", phase = "write" => kind = "run",
         NEW next, MadeNote(Note(kind, confirmed), next),
         \/ phase = "write" /\ next \in WriteStatements
         \/ phase = "persist" /\ next \in CompactStatements \ {"updated"},
         UNCHANGED <<transcript, cards, row>>,
         UNCHANGED <<session, discarding, life, faults, compacted>>
  PROVE  MemoryInv'
<1>1. MemoryTypes /\ Resolved /\ Waiting /\ Proposed /\ Positioned /\ Referred /\ Since
  BY DEF MemoryInv
<1> DEFINE note == Note(kind, confirmed)
<1>2. /\ note \in NoteRows /\ (note.state = "confirmed" => note.kind = "summary")
      /\ note.kind = kind /\ note.of = run
  BY <1>1 DEF Note, Confirmation, NoteRows, MemoryTypes, Waiting
<1> HIDE DEF note
<1>3. /\ notes' \in Seq(NoteRows) /\ NewId \in Nat
      /\ NewId \notin DOMAIN notes /\ DOMAIN notes' = DOMAIN notes \cup {NewId}
      /\ \A i \in DOMAIN notes : notes'[i] = notes[i]
      /\ notes'[NewId] = note
  <2>1. notes \in Seq(NoteRows) /\ notes' = Append(notes, note)
    BY <1>1 DEF MadeNote, MemoryTypes, note
  <2> QED BY <1>2, <2>1, NoteAdded DEF NewId
<1>4. /\ at' \in Carried /\ at'.at = next /\ at'.ids = at.ids \cup {NewId}
      /\ at'.refs = at.refs /\ at'.covers = at.covers /\ at'.to = at.to
  <2>1. next \in WriteStatements \cup CompactStatements
    OBVIOUS
  <2>2. at \in Carried /\ at.ids \cup {NewId} \in SUBSET Nat
    BY <1>1, <1>3 DEF MemoryTypes, Carried
  <2>3. at' = [at EXCEPT !.at = next, !.ids = at.ids \cup {NewId}]
    BY DEF MadeNote
  <2> QED BY <2>1, <2>2, <2>3 DEF Carried
<1> USE DEF session
<1>5. MemoryTypes'
  BY <1>1, <1>3, <1>4 DEF MemoryTypes
<1>6. Resolved'
  BY <1>1, <1>3, <1>4 DEF Resolved
<1>7. Waiting'
  BY <1>1, <1>4 DEF Waiting
<1>8. Proposed'
  BY <1>1, <1>2, <1>3 DEF Proposed
<1>9. Positioned'
  BY <1>1, <1>4 DEF Positioned, SummarisedOnce, After
<1>10. Referred'
  BY <1>1, <1>4 DEF Referred, ReferencesAccumulate, WriteStatements
<1>11. Since'
  <2>1. UNCHANGED <<held, run, life, compacted, phase, row>>
    OBVIOUS
  <2>2. \A j \in DOMAIN notes :
          j \in DOMAIN notes' /\ notes'[j].kind = notes[j].kind /\ notes'[j].of = notes[j].of
    BY <1>3
  <2>3. phase = "write" => notes'[NewId].kind = "run" /\ notes'[NewId].of = run
    BY <1>2, <1>3
  <2> QED BY <1>1, <1>4, <2>1, <2>2, <2>3, SinceStays
<1> QED BY <1>5, <1>6, <1>7, <1>8, <1>9, <1>10, <1>11 DEF MemoryInv

LEMMA PublishKeeps ==
  ASSUME MemoryInv, PublishCard, UNCHANGED <<session, discarding, life, faults, compacted>>
  PROVE  MemoryInv'
<1>1. MemoryTypes /\ Resolved /\ Waiting /\ Proposed /\ Positioned /\ Referred /\ Since
  BY DEF MemoryInv
<1>2. phase = "write"
  BY <1>1, AttemptIsAwaited DEF PublishCard, WriteStatements
<1>3. /\ at' = [at EXCEPT !.at = "written"] /\ cards' = cards \cup at.ids
      /\ UNCHANGED <<transcript, notes, row, phase, run, held, attempt>>
  BY DEF PublishCard, Then, session
<1>4. /\ at' \in Carried /\ at'.at = "written" /\ at'.ids = at.ids
      /\ at'.refs = at.refs /\ at'.covers = at.covers
  BY <1>1, <1>3 DEF MemoryTypes, Carried, WriteStatements
<1>5. MemoryTypes'
  BY <1>1, <1>3, <1>4 DEF MemoryTypes
<1>6. Resolved'
  BY <1>1, <1>3, <1>4 DEF Resolved
<1>7. Waiting'
  BY <1>1, <1>2, <1>3, <1>4 DEF Waiting, WriteStatements
<1>8. Proposed'
  BY <1>1, <1>3 DEF Proposed
<1>9. Positioned'
  BY <1>1, <1>2, <1>3 DEF Positioned, SummarisedOnce
<1>10. Referred'
  BY <1>1, <1>2, <1>3, <1>4 DEF Referred, ReferencesAccumulate
<1>11. Since'
  <2>1. UNCHANGED <<held, run, life, compacted, phase, row, notes>>
    BY <1>3
  <2> QED BY <1>1, <1>2, <1>4, <2>1, SinceStays
<1> QED BY <1>5, <1>6, <1>7, <1>8, <1>9, <1>10, <1>11 DEF MemoryInv

LEMMA UpdateKeeps ==
  ASSUME MemoryInv, UpdateSession, UNCHANGED <<session, discarding, life, faults, compacted>>
  PROVE  MemoryInv'
<1>1. MemoryTypes /\ Resolved /\ Waiting /\ Proposed /\ Positioned /\ Referred /\ Since
  BY DEF MemoryInv
<1>2. phase = "persist"
  BY <1>1, AttemptIsAwaited DEF UpdateSession, CompactStatements
<1>3. /\ at' = [at EXCEPT !.at = "updated"]
      /\ row' = [cursor |-> at.to, refs |-> at.refs \cup at.ids]
      /\ UNCHANGED <<transcript, notes, cards, phase, run, held, attempt>>
  BY DEF UpdateSession, Then, session
<1>4. /\ at' \in Carried /\ at'.at = "updated" /\ at'.ids = at.ids
      /\ at'.refs = at.refs /\ at'.covers = at.covers /\ at'.to = at.to
  BY <1>1, <1>3 DEF MemoryTypes, Carried, CompactStatements
<1>5. row' \in HeldPositions /\ row'.refs = at.refs \cup at.ids
  BY <1>1, <1>3 DEF MemoryTypes, HeldPositions, Carried
<1>6. MemoryTypes'
  BY <1>1, <1>3, <1>4, <1>5 DEF MemoryTypes
<1>7. Resolved'
  BY <1>1, <1>3, <1>4, <1>5 DEF Resolved
<1>8. Waiting'
  BY <1>1, <1>2, <1>3, <1>4 DEF Waiting, CompactStatements
<1>9. Proposed'
  BY <1>1, <1>3 DEF Proposed
<1>10. Positioned'
  BY <1>1, <1>2, <1>3, <1>4 DEF Positioned, SummarisedOnce, After
<1>11. Referred'
  BY <1>1, <1>2, <1>3, <1>4, <1>5 DEF Referred, ReferencesAccumulate
<1>12. Since'
  BY <1>1, <1>2, <1>3, SinceStays
<1> QED BY <1>6, <1>7, <1>8, <1>9, <1>10, <1>11, <1>12 DEF MemoryInv

LEMMA StatementKeeps ==
  ASSUME MemoryInv, Statement
  PROVE  MemoryInv'
<1>1. Waiting /\ UNCHANGED <<session, discarding, life, faults, compacted>>
  BY DEF MemoryInv, Statement
<1>2. CASE InsertCandidate
  <2>1. phase = "write" /\ "publish" \in WriteStatements
    BY <1>1, <1>2, AttemptIsAwaited DEF InsertCandidate, WriteStatements
  <2> QED BY <1>1, <1>2, <2>1, NoteIsMade DEF InsertCandidate
<1>3. CASE PublishCard
  BY <1>1, <1>3, PublishKeeps
<1>4. CASE InsertSummary
  <2>1. phase = "persist" /\ AfterSummary \in CompactStatements \ {"updated"}
    BY <1>1, <1>4, AttemptIsAwaited DEF InsertSummary, CompactStatements, AfterSummary
  <2> QED BY <1>1, <1>4, <2>1, NoteIsMade DEF InsertSummary
<1>5. CASE InsertProposal
  <2>1. phase = "persist" /\ "update" \in CompactStatements \ {"updated"}
    BY <1>1, <1>5, AttemptIsAwaited DEF InsertProposal, CompactStatements
  <2> QED BY <1>1, <1>5, <2>1, NoteIsMade DEF InsertProposal
<1>6. CASE UpdateSession
  BY <1>1, <1>6, UpdateKeeps
<1> QED BY <1>2, <1>3, <1>4, <1>5, <1>6 DEF Statement, Writes

-----------------------------------------------------------------------------
(* Attempts that are repeated or given up. *)

LEMMA RetryKeeps ==
  ASSUME MemoryInv, Retry
  PROVE  MemoryInv'
<1>1. MemoryTypes /\ Resolved /\ Waiting /\ Proposed /\ Positioned /\ Referred /\ Since
  BY DEF MemoryInv
<1>2. /\ at' = Retried /\ attempt' \in 0..MaxAttempts /\ faults' \in 0..MaxFaults
      /\ phase \in {"write", "persist"}
      /\ UNCHANGED <<transcript, notes, cards, row, phase, run, held, discarding, life, compacted>>
  BY <1>1, Bounds DEF Retry, Fault, AttemptLeft, MemoryTypes, tables
<1>3. CASE phase = "write"
  <2>1. /\ at' \in Carried /\ at'.at = "insert"
        /\ at'.ids = {} /\ at'.refs = {} /\ at'.covers = {}
    BY <1>1, <1>2, <1>3, WriteBegins, Zenon DEF Retried, MemoryTypes
  <2>2. MemoryTypes'
    BY <1>1, <1>2, <2>1 DEF MemoryTypes
  <2>3. Resolved'
    BY <1>1, <1>2, <2>1 DEF Resolved
  <2>4. Waiting'
    BY <1>1, <1>2, <1>3, <2>1 DEF Waiting, WriteStatements
  <2>5. Proposed'
    BY <1>1, <1>2 DEF Proposed
  <2>6. Positioned'
    BY <1>1, <1>2, <1>3 DEF Positioned, SummarisedOnce
  <2>7. Referred'
    BY <1>1, <1>2, <1>3, <2>1 DEF Referred, ReferencesAccumulate
  <2>8. Since'
    BY <1>1, <1>2, <2>1, SinceStays
  <2> QED BY <2>2, <2>3, <2>4, <2>5, <2>6, <2>7, <2>8 DEF MemoryInv
<1>4. CASE phase = "persist"
  <2>1. /\ at' \in Carried /\ at'.at = "summary" /\ at'.ids = {}
        /\ at'.refs = at.refs /\ at'.covers = at.covers /\ at'.to = at.to
    <3>1. at \in Carried /\ "summary" \in CompactStatements /\ {} \in SUBSET Nat
      BY <1>1 DEF MemoryTypes, CompactStatements
    <3>2. at' = [at EXCEPT !.at = "summary", !.ids = {}]
      BY <1>2, <1>4 DEF Retried
    <3> QED BY <3>1, <3>2 DEF Carried
  <2>2. MemoryTypes'
    BY <1>1, <1>2, <2>1 DEF MemoryTypes
  <2>3. Resolved'
    BY <1>1, <1>2, <2>1 DEF Resolved
  <2>4. Waiting'
    BY <1>1, <1>2, <1>4, <2>1 DEF Waiting, CompactStatements
  <2>5. Proposed'
    BY <1>1, <1>2 DEF Proposed
  <2>6. Positioned'
    BY <1>1, <1>2, <1>4, <2>1 DEF Positioned, SummarisedOnce, After
  <2>7. Referred'
    BY <1>1, <1>2, <1>4, <2>1 DEF Referred, ReferencesAccumulate
  <2>8. Since'
    BY <1>1, <1>2, <2>1, SinceStays
  <2> QED BY <2>2, <2>3, <2>4, <2>5, <2>6, <2>7, <2>8 DEF MemoryInv
<1> QED BY <1>2, <1>3, <1>4

LEMMA GiveUpKeeps ==
  ASSUME MemoryInv, GiveUp
  PROVE  MemoryInv'
<1>1. MemoryTypes /\ Resolved /\ Waiting /\ Proposed /\ Positioned /\ Referred /\ Since
  BY DEF MemoryInv
<1>2. /\ at' = Idle /\ attempt' = 0 /\ faults' \in 0..MaxFaults
      /\ \/ phase = "write" /\ phase' = "returned"
         \/ phase = "persist" /\ phase' = "failed"
      /\ UNCHANGED <<transcript, notes, cards, row, run, held, discarding, life, compacted>>
  BY <1>1, Bounds DEF GiveUp, Fault, MemoryTypes, tables
<1>3. Idle \in Carried /\ Idle.at = "none" /\ Idle.ids = {} /\ Idle.refs = {} /\ Idle.covers = {}
  BY <1>1, WriteBegins DEF MemoryTypes
<1> HIDE DEF Idle
<1>4. MemoryTypes'
  BY <1>1, <1>2, <1>3, Bounds DEF MemoryTypes
<1>5. Resolved'
  BY <1>1, <1>2, <1>3 DEF Resolved
<1>6. Waiting'
  BY <1>1, <1>2 DEF Waiting
<1>7. Proposed'
  BY <1>1, <1>2 DEF Proposed
<1>8. Positioned'
  BY <1>1, <1>2 DEF Positioned, SummarisedOnce
<1>9. Referred'
  BY <1>1, <1>2, <1>3 DEF Referred, ReferencesAccumulate
<1>10. Since'
  BY <1>1, <1>2, SinceStays
<1> QED BY <1>4, <1>5, <1>6, <1>7, <1>8, <1>9, <1>10 DEF MemoryInv

LEMMA StartAgainKeeps ==
  ASSUME MemoryInv, StartAgain
  PROVE  MemoryInv'
<1>1. MemoryTypes /\ Resolved /\ Waiting /\ Proposed /\ Positioned /\ Referred /\ Since
  BY DEF MemoryInv
<1>2. /\ phase = "failed" /\ phase' = "idle" /\ run' = 0
      /\ life' = life + 1 /\ life' \in 0..MaxLives /\ held' = [cursor |-> 0, refs |-> {}]
      /\ UNCHANGED <<transcript, notes, cards, row, attempt, at, discarding, faults, compacted>>
  BY <1>1, Bounds DEF StartAgain, MemoryTypes, tables
<1>3. held' \in HeldPositions /\ held'.refs = {}
  BY <1>2, Bounds DEF HeldPositions
<1>4. MemoryTypes'
  BY <1>1, <1>2, <1>3, Bounds DEF MemoryTypes
<1>5. Resolved'
  BY <1>1, <1>2, <1>3 DEF Resolved
<1>6. Waiting'
  BY <1>1, <1>2 DEF Waiting
<1>7. Proposed'
  BY <1>1, <1>2 DEF Proposed
<1>8. Positioned'
  <2>1. \A i \in DOMAIN compacted : compacted[i].life \in Nat /\ compacted[i].life < life'
    <3>1. \A i \in DOMAIN compacted : compacted[i] \in Compactions
      BY <1>1 DEF MemoryTypes
    <3> QED BY <1>1, <1>2, <3>1, Bounds DEF Positioned, Compactions, MemoryTypes
  <2> QED BY <1>1, <1>2, <2>1 DEF Positioned, SummarisedOnce
<1>9. Referred'
  BY <1>1, <1>2 DEF Referred, ReferencesAccumulate
<1>10. Since'
  <2>1. ~Compacted'
    <3>1. compacted # <<>> => Last(compacted).life <= life /\ Last(compacted).life \in Nat
      BY <1>1, LastIsOne DEF Positioned
    <3> QED BY <1>1, <1>2, <3>1 DEF Compacted, MemoryTypes, Last
  <2> QED BY <1>2, <2>1 DEF Since, HandoffIsRecorded
<1> QED BY <1>4, <1>5, <1>6, <1>7, <1>8, <1>9, <1>10 DEF MemoryInv

-----------------------------------------------------------------------------
(* The user. *)

(* An answer to a candidate changes its state and nothing else of it. *)
LEMMA AnswerKeeps ==
  ASSUME MemoryInv, NEW i \in DOMAIN notes, NEW answer \in {"kept", "deleted"},
         notes' = [notes EXCEPT ![i].state = answer],
         discarding' \in {0} \cup DOMAIN notes,
         UNCHANGED <<transcript, cards, row, session, at, life, faults, compacted>>
  PROVE  MemoryInv'
<1>1. MemoryTypes /\ Resolved /\ Waiting /\ Proposed /\ Positioned /\ Referred /\ Since
  BY DEF MemoryInv
<1> USE DEF session
<1>2. /\ notes' \in Seq(NoteRows) /\ DOMAIN notes' = DOMAIN notes
      /\ \A j \in DOMAIN notes : notes'[j].kind = notes[j].kind /\ notes'[j].of = notes[j].of
      /\ \A j \in DOMAIN notes : notes'[j].state = "confirmed" => notes'[j] = notes[j]
  <2> DEFINE new == [notes[i] EXCEPT !.state = answer]
  <2>1. notes \in Seq(NoteRows) /\ notes[i] \in NoteRows /\ i \in 1..Len(notes)
    BY <1>1, ElementsTyped DEF MemoryTypes
  <2>2. new \in NoteRows /\ new.state = answer /\ new.kind = notes[i].kind /\ new.of = notes[i].of
    BY <2>1 DEF NoteRows
  <2>3. notes' = [notes EXCEPT ![i] = new]
    OBVIOUS
  <2> HIDE DEF new
  <2>4. /\ notes' \in Seq(NoteRows) /\ Len(notes') = Len(notes)
        /\ \A j \in 1..Len(notes) : notes'[j] = IF j = i THEN new ELSE notes[j]
    BY <2>1, <2>2, <2>3, ExceptSeq
  <2> QED BY <2>1, <2>2, <2>4
<1>3. MemoryTypes'
  BY <1>1, <1>2 DEF MemoryTypes
<1>4. Resolved'
  BY <1>1, <1>2 DEF Resolved
<1>5. Waiting'
  BY <1>1 DEF Waiting
<1>6. Proposed'
  BY <1>1, <1>2 DEF Proposed
<1>7. Positioned'
  BY <1>1 DEF Positioned, SummarisedOnce, After
<1>8. Referred'
  BY <1>1 DEF Referred, ReferencesAccumulate
<1>9. Since'
  <2>1. UNCHANGED <<held, run, life, compacted, phase, row, at>>
    OBVIOUS
  <2>2. \A j \in DOMAIN notes :
          j \in DOMAIN notes' /\ notes'[j].kind = notes[j].kind /\ notes'[j].of = notes[j].of
    BY <1>2
  <2> QED BY <1>1, <2>1, <2>2, SinceStays
<1> QED BY <1>3, <1>4, <1>5, <1>6, <1>7, <1>8, <1>9 DEF MemoryInv

LEMMA DiscardCardKeeps ==
  ASSUME MemoryInv, DiscardCard
  PROVE  MemoryInv'
<1>1. MemoryTypes /\ Resolved /\ Waiting /\ Proposed /\ Positioned /\ Referred /\ Since
  BY DEF MemoryInv
<1>2. /\ cards' \subseteq cards /\ discarding' = 0
      /\ UNCHANGED <<transcript, notes, row, session, at, life, faults, compacted>>
  BY DEF DiscardCard
<1> USE DEF session
<1>3. MemoryTypes'
  BY <1>1, <1>2 DEF MemoryTypes
<1>4. Resolved'
  BY <1>1, <1>2 DEF Resolved
<1>5. Waiting'
  BY <1>1, <1>2 DEF Waiting
<1>6. Proposed'
  BY <1>1, <1>2 DEF Proposed
<1>7. Positioned'
  BY <1>1, <1>2 DEF Positioned, SummarisedOnce, After
<1>8. Referred'
  BY <1>1, <1>2 DEF Referred, ReferencesAccumulate
<1>9. Since'
  <2>1. UNCHANGED <<held, run, life, compacted, phase, row, at, notes>>
    BY <1>2
  <2> QED BY <1>1, <2>1, SinceStays
<1> QED BY <1>3, <1>4, <1>5, <1>6, <1>7, <1>8, <1>9 DEF MemoryInv

(* A step in which nothing happens. *)
LEMMA StutterKeeps ==
  ASSUME MemoryInv, UNCHANGED memoryVars
  PROVE  MemoryInv'
<1>1. MemoryTypes /\ Resolved /\ Waiting /\ Proposed /\ Positioned /\ Referred /\ Since
  BY DEF MemoryInv
<1> USE DEF memoryVars, tables, session
<1>2. MemoryTypes'
  BY <1>1 DEF MemoryTypes
<1>3. Resolved'
  BY <1>1 DEF Resolved
<1>4. Waiting'
  BY <1>1 DEF Waiting
<1>5. Proposed'
  BY <1>1 DEF Proposed
<1>6. Positioned'
  BY <1>1 DEF Positioned, SummarisedOnce, After
<1>7. Referred'
  BY <1>1 DEF Referred, ReferencesAccumulate
<1>8. Since'
  <2>1. UNCHANGED <<held, run, life, compacted, phase, row, at, notes>>
    OBVIOUS
  <2> QED BY <1>1, <2>1, SinceStays
<1> QED BY <1>2, <1>3, <1>4, <1>5, <1>6, <1>7, <1>8 DEF MemoryInv

-----------------------------------------------------------------------------
(* The theorems. *)

LEMMA StepKeepsMemory == MemoryInv /\ [MemoryNext]_memoryVars => MemoryInv'
<1> SUFFICES ASSUME MemoryInv, [MemoryNext]_memoryVars
             PROVE  MemoryInv'
  OBVIOUS
<1>1. CASE Proceed
  BY <1>1, RunKeeps, RunReturnsKeeps, NextRunKeeps, LoadKeeps, CompactionReturnsKeeps,
     StatementKeeps, RetryKeeps, GiveUpKeeps DEF Proceed
<1>2. CASE StartAgain
  BY <1>2, StartAgainKeeps
<1>3. CASE DiscardCard
  BY <1>3, DiscardCardKeeps
<1>4. ASSUME NEW i \in DOMAIN notes, Confirm(i)
      PROVE  MemoryInv'
  <2>1. discarding \in {0} \cup DOMAIN notes
    BY DEF MemoryInv, Resolved
  <2> QED BY <1>4, <2>1, AnswerKeeps DEF Confirm
<1>5. ASSUME NEW i \in DOMAIN notes, Discard(i)
      PROVE  MemoryInv'
  BY <1>5, AnswerKeeps DEF Discard
<1>6. CASE UNCHANGED memoryVars
  BY <1>6, StutterKeeps
<1> QED BY <1>1, <1>2, <1>3, <1>4, <1>5, <1>6 DEF MemoryNext

(* The invariant holds of every state: candidates, positions and references are what
   the statements of runs and compactions make them. *)
THEOREM MemoryIsKept == MemorySpec => []MemoryInv
BY InitialMemory, StepKeepsMemory, PTL DEF MemorySpec

(* The types the runs check follow from those of the proof. *)
LEMMA MemoryTypeCorrect ==
  ASSUME MemoryInv
  PROVE  MemoryTypeOK
<1>1. MemoryTypes /\ Resolved
  BY DEF MemoryInv
<1>2. \A i \in DOMAIN transcript : transcript[i] \in [run : 1..MaxRuns, seq : Nat \ {0}]
  BY <1>1, ElementsTyped, Bounds DEF EventRows
<1>3. \A i \in DOMAIN notes : notes[i] \in NoteRows
  BY <1>1, ElementsTyped
<1>4. {row, held} \subseteq [cursor : Nat, refs : SUBSET DOMAIN notes]
  BY <1>1, Bounds DEF MemoryTypes, Resolved, HeldPositions
<1> QED BY <1>1, <1>2, <1>3, <1>4 DEF MemoryTypeOK, MemoryTypes, Resolved, NoteRows

(* Nothing that a run or a compaction proposed is found unless the user confirmed it, and
   no event is summarised by two compactions unless the session was started again between
   them. *)
THEOREM VetsMemory == MemorySpec => []MemoryIsVetted
<1>1. MemoryInv => MemoryIsVetted
  <2> SUFFICES ASSUME MemoryInv PROVE MemoryIsVetted
    OBVIOUS
  <2>1. NothingLeaks
    BY DEF MemoryInv, Proposed, NothingLeaks, Retrievable
  <2>2. SummarisedOnce
    BY DEF MemoryInv, Positioned
  <2> QED BY <2>1, <2>2, MemoryTypeCorrect DEF MemoryIsVetted
<1> QED BY <1>1, MemoryIsKept, PTL

(* A compaction keeps the references of those before it, although attempts of it are
   repeated, and from a handoff on the session has the position of its row, the row's
   references and those of its runs since. *)
THEOREM HandsOnMemory == MemorySpec => []HandoffKeepsMemory
<1>1. MemoryInv => HandoffKeepsMemory
  BY DEF MemoryInv, Referred, Since, HandoffKeepsMemory
<1> QED BY <1>1, MemoryIsKept, PTL
=============================================================================
