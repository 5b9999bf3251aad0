---------------------------- MODULE MCOutboxRail ----------------------------
(* Small instances of OutboxRail for TLC; each .cfg picks one of them. *)
EXTENDS OutboxRail, TLC

\* Two rows of one aggregate and one type.
PairTypes == [e \in Events |-> "order"]
PairAggregates == [e \in Events |-> "agg"]
\* e3 repeats the key of e1 for another aggregate, so its two producers may overlap.
SplitAggregates == [e \in Events |-> IF e = "e3" THEN "other" ELSE "agg"]
OwnKeys == [e \in Events |-> e]
RepeatedKey == [e \in Events |-> IF e = "e3" THEN "e1" ELSE e]
OneScope == {[types |-> {"order"}, known |-> {"order"}]}

\* Rows of two types: two registries claim one type each, the first knows the
\* other's type, the second does not know "order".
MixTypes == ("e1" :> "order" @@ "e2" :> "parcel" @@ "e3" :> "order")
MixScopes == {[types |-> {"order"}, known |-> {"parcel"}],
              [types |-> {"parcel"}, known |-> {}]}
TokenSymmetry == Permutations(Tokens)
=============================================================================
