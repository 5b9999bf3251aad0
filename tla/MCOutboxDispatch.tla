-------------------------- MODULE MCOutboxDispatch --------------------------
(* Small instances of OutboxDispatch for TLC. *)
EXTENDS OutboxDispatch, TLC

PairTokens == Events \X {1, 2}
OwnPools == [e \in Events |-> {e} \X {1, 2}]
OneAggregate == [e \in Events |-> "agg"]
OwnAggregates == [e \in Events |-> e]
OwnKeys == [e \in Events |-> e]

OneType == [e \in Events |-> "order"]
TwoTypes == [e \in Events |-> IF e = "e1" THEN "order" ELSE "parcel"]
\* e1 belongs to a retired producer whose type is declared dormant.
RetiredTypes == [e \in Events |-> IF e = "e1" THEN "gift" ELSE "order"]

\* All runners have the same registry.
SameScope == [w \in Runners |-> [types |-> {"order", "parcel"}, known |-> {}]]
OneTick == [type \in EventTypes |-> 1]
SlowOrders == [type \in EventTypes |-> IF type = "order" THEN 2 ELSE 1]
AnyOutcome == [type \in EventTypes |-> {"processed", "discard", "snooze"}]
DoneOrSnooze == [type \in EventTypes |-> {"processed", "snooze"}]
RunnerSymmetry == Permutations(Runners)
=============================================================================
