---------------------------- MODULE MCModelTurn ----------------------------
(* A small instance of ModelTurn. *)
EXTENDS ModelTurn

(* Every cap is within reach of two model calls. *)
SmallBudget == [modelCalls |-> 2, toolCalls |-> 2, actions |-> 4, children |-> 3, cost |-> 3]

(* Together they are more than the ledger holds. *)
SmallRequests == [research |-> 2, code |-> 2, critic |-> 1]

SmallBatches == {<<"tool", "delegate">>, <<"parallel">>}
=============================================================================
