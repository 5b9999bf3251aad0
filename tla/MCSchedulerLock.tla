-------------------------- MODULE MCSchedulerLock --------------------------
(* Small instances of SchedulerLock for TLC. *)
EXTENDS SchedulerLock, TLC

CONSTANTS c1, c2, c3, c4

\* Host "h1" has three callbacks, two of which share a key (two firings of one
\* job, or two jobs that collide); host "h2" has one for the shared key.
Homes == [c \in Callbacks |-> IF c = c4 THEN "h2" ELSE "h1"]
SharedKeys == [c \in Callbacks |-> IF c = c3 THEN "other" ELSE "shared"]
Dedicated == [h \in Hosts |-> {<<h, 1>>}]
\* h1 sits behind a pooler that may route a statement to a second backend.
Rerouted == [h \in Hosts |-> IF h = "h1" THEN {<<h, 1>>, <<h, 2>>} ELSE {<<h, 1>>}]
AllBackends == Hosts \X {1, 2}
\* The two callbacks of one host and key are alike.
TwinSymmetry == Permutations({c1, c2})
=============================================================================
