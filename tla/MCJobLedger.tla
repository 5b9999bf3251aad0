---------------------------- MODULE MCJobLedger ----------------------------
(* Small instances of JobLedger for TLC. *)
EXTENDS JobLedger, TLC

\* Two scheduled processes and one worker process.
MixedDrivers == [r \in Runners |-> IF r = "r3" THEN "worker" ELSE "scheduler"]
RunSymmetry == Permutations(RunIds)
=============================================================================
