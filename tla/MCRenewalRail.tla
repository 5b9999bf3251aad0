--------------------------- MODULE MCRenewalRail ---------------------------
(* Small instances of RenewalRail for TLC. *)
EXTENDS RenewalRail, TLC

OneTick == [k \in 0..2 |-> 1]
WorkerSymmetry == Permutations(Workers)
=============================================================================
