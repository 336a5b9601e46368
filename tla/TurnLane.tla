------------------------------ MODULE TurnLane ------------------------------
(***************************************************************************)
(* What a session promises its clients, without any of its machinery:      *)
(* turns are numbered in the order they are accepted, taken off the lane   *)
(* in that order and at most once, and at most one of them is executing.   *)
(* A taken turn may be abandoned before it begins (the user interrupted    *)
(* it, or its preparation failed); it is then never begun later.           *)
(***************************************************************************)
EXTENDS Naturals

VARIABLES
  open,      \* the lane takes turns
  accepted,  \* number of turns accepted so far
  taken,     \* number of turns taken off the lane so far
  begun,     \* turns that began executing
  active     \* the turn that is executing, 0 when there is none

laneVars == <<open, accepted, taken, begun, active>>

Init ==
  /\ open = TRUE
  /\ accepted = 0
  /\ taken = 0
  /\ begun = {}
  /\ active = 0

Accept ==
  /\ open
  /\ accepted' = accepted + 1
  /\ UNCHANGED <<open, taken, begun, active>>

(* The executing turn, if any, is over; the next one in line may be taken. *)
MoveOn ==
  /\ open
  /\ active' = 0
  /\ \/ taken' = taken
     \/ taken < accepted /\ taken' = taken + 1
  /\ UNCHANGED <<open, accepted, begun>>

(* Only the turn taken last can begin, and only once. *)
Begin ==
  /\ open
  /\ active = 0
  /\ taken # 0
  /\ taken \notin begun
  /\ begun' = begun \cup {taken}
  /\ active' = taken
  /\ UNCHANGED <<open, accepted, taken>>

Close ==
  /\ open
  /\ open' = FALSE
  /\ active' = 0
  /\ UNCHANGED <<accepted, taken, begun>>

(* A client starts the session again: a new lane under the same key. *)
Reopen ==
  /\ ~open
  /\ open' = TRUE
  /\ accepted' = 0
  /\ taken' = 0
  /\ begun' = {}
  /\ active' = 0

Next == Accept \/ MoveOn \/ Begin \/ Close \/ Reopen

Spec == Init /\ [][Next]_laneVars
=============================================================================
