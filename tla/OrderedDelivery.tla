-------------------------- MODULE OrderedDelivery --------------------------
(***************************************************************************)
(* What producers are promised of the dispatch worker: an event takes      *)
(* effect only after it was handed out, and is handed out in the order of  *)
(* its lane and within its attempts; it is processed only once its effect  *)
(* happened, discarded only after a hand-out, and settled once.  Batches,  *)
(* leases, timeouts, orphans, circuit breaks and interrupted runs are not  *)
(* seen here.                                                              *)
(***************************************************************************)
EXTENDS Integers, TLAPS

CONSTANTS
  Events,
  Lane,        \* events of one lane have an order
  HeldBackBy,  \* the events of its lane that hold an event back while they wait
  MaxAttempts,
  TakeTurns    \* do the producers of a lane run one after another?

VARIABLES
  phase,     \* where an event is in its life
  rank,      \* when its producer began
  attempts,  \* hand-outs that were not taken back
  handed,    \* events handed out at least once
  done       \* events whose effect happened at least once

vars == <<phase, rank, attempts, handed, done>>

Init == /\ phase = [e \in Events |-> "unborn"]
        /\ rank = [e \in Events |-> 0]
        /\ attempts = [e \in Events |-> 0]
        /\ handed = {} /\ done = {}

Waiting == {"queued", "held"}
Settled == {"processed", "discarded", "withdrawn"}
Phases == {"unborn", "begun"} \cup Waiting \cup Settled

Moves(e, from, to) == phase[e] \in from /\ phase'[e] = to
KeepsRank(e) == rank'[e] = rank[e]
KeepsAttempts(e) == attempts'[e] = attempts[e]

Rest(e) == phase'[e] = phase[e] /\ KeepsRank(e) /\ KeepsAttempts(e)

\* The youngest of all events; its producer's transaction is still open.
Begin(e) ==
  /\ Moves(e, {"unborn"}, "begun") /\ KeepsAttempts(e)
  /\ rank'[e] \in Nat /\ \A d \in Events : phase[d] # "unborn" => rank[d] < rank'[e]
  /\ TakeTurns => \A d \in Events \ {e} :
       Lane[d] = Lane[e] => phase[d] # "begun" /\ phase'[d] # "begun"

Publish(e) == Moves(e, {"begun"}, "queued") /\ KeepsRank(e) /\ KeepsAttempts(e)
Withdraw(e) == Moves(e, {"begun"}, "withdrawn") /\ KeepsRank(e) /\ KeepsAttempts(e)

\* In turn, and again and again until the attempts are used up.
HandOut(e) ==
  /\ Moves(e, Waiting, "held") /\ KeepsRank(e)
  /\ attempts[e] < MaxAttempts /\ attempts'[e] = attempts[e] + 1
  /\ \A d \in HeldBackBy[e] : rank[d] < rank[e] => phase'[d] \notin Waiting

\* To be retried, or without having been tried, which costs no attempt.
GiveBack(e) ==
  /\ Moves(e, {"held"}, "queued") /\ KeepsRank(e)
  /\ attempts'[e] \in {attempts[e], attempts[e] - 1} /\ attempts'[e] < MaxAttempts

Process(e) == /\ Moves(e, {"held"}, "processed") /\ KeepsRank(e) /\ KeepsAttempts(e)
              /\ e \in done'

Discard(e) == Moves(e, {"held"}, "discarded") /\ KeepsRank(e) /\ KeepsAttempts(e)

\* One transaction may move several events, each by a step of its own life.
Next ==
  /\ \A e \in Events :
       \/ Rest(e) \/ Begin(e) \/ Publish(e) \/ Withdraw(e)
       \/ HandOut(e) \/ GiveBack(e) \/ Process(e) \/ Discard(e)
  /\ handed' = handed \cup {e \in Events : HandOut(e)}
  /\ done \subseteq done' /\ done' \subseteq done \cup handed

Spec == Init /\ [][Next]_vars
-----------------------------------------------------------------------------
(***************************************************************************)
(* What the promise amounts to when the producers of a lane take turns.    *)
(***************************************************************************)

\* Once an event was handed out, every older event that holds it back is over and
\* done with: none of them is retried, published late or handed out after it.
InOrder ==
  \A e \in handed : \A d \in HeldBackBy[e] :
    phase[d] # "unborn" /\ rank[d] < rank[e] => phase[d] \in Settled

\* A producer that has begun is the youngest of its lane.
BegunIsYoungest ==
  \A d, e \in Events : phase[d] = "begun" /\ phase[e] # "unborn" /\ Lane[d] = Lane[e]
                          => ~(rank[d] < rank[e])

LaneInv == /\ \A e \in Events : phase[e] \in Phases /\ rank[e] \in Nat
           /\ handed \subseteq {e \in Events : phase[e] \notin {"unborn", "begun"}}
           /\ BegunIsYoungest /\ InOrder

LEMMA LaneStep ==
  ASSUME TakeTurns, \A e \in Events : HeldBackBy[e] \subseteq {d \in Events : Lane[d] = Lane[e]},
         LaneInv, [Next]_vars
  PROVE  LaneInv'
<1>1. CASE UNCHANGED vars
  BY <1>1 DEF LaneInv, BegunIsYoungest, InOrder, vars
<1>2. CASE Next
  <2> USE DEF Rest, Begin, Publish, Withdraw, HandOut, GiveBack, Process, Discard,
              Moves, KeepsRank, Waiting, Settled, Phases
  <2>1. \A e \in Events : phase[e] \in Phases /\ rank[e] \in Nat
    BY DEF LaneInv
  <2>2. \A e \in Events : \/ Rest(e) \/ Begin(e) \/ Publish(e) \/ Withdraw(e)
                          \/ HandOut(e) \/ GiveBack(e) \/ Process(e) \/ Discard(e)
    BY <1>2 DEF Next
  <2>3. \A e \in Events : phase'[e] \in Phases /\ rank'[e] \in Nat
    BY <2>1, <2>2
  <2>4. \A e \in Events : ~Begin(e) => rank'[e] = rank[e] /\ (phase'[e] # "unborn" => phase[e] # "unborn")
                                       /\ (phase'[e] = "begun" => phase[e] = "begun")
    BY <2>2
  <2>5. handed' \subseteq {e \in Events : phase'[e] \notin {"unborn", "begun"}}
    <3>1. handed' = handed \cup {e \in Events : HandOut(e)}
      BY <1>2 DEF Next
    <3>2. \A e \in Events : phase[e] \notin {"unborn", "begun"} => phase'[e] \notin {"unborn", "begun"}
      BY <2>1, <2>2
    <3> QED BY <3>1, <3>2 DEF LaneInv
  <2>6. BegunIsYoungest'
    <3> SUFFICES ASSUME NEW d \in Events, NEW e \in Events, phase'[d] = "begun",
                        phase'[e] # "unborn", Lane[d] = Lane[e], rank'[d] < rank'[e]
                 PROVE  FALSE
      BY DEF BegunIsYoungest
    <3>1. d # e
      BY <2>3
    <3>2. CASE Begin(e)
      BY <3>1, <3>2
    <3>3. CASE ~Begin(e) /\ Begin(d)
      BY <2>1, <2>3, <2>4, <3>3
    <3>4. CASE ~Begin(e) /\ ~Begin(d)
      BY <2>4, <3>4 DEF LaneInv, BegunIsYoungest
    <3> QED BY <3>2, <3>3, <3>4
  <2>7. InOrder'
    <3> SUFFICES ASSUME NEW e \in handed', NEW d \in HeldBackBy[e], phase'[d] # "unborn",
                        rank'[d] < rank'[e]
                 PROVE  phase'[d] \in Settled
      BY DEF InOrder
    <3>1. e \in Events /\ d \in Events /\ Lane[d] = Lane[e]
      BY <2>5
    <3>2. phase[e] \notin {"unborn", "begun"} /\ rank'[e] = rank[e]
      BY <1>2, <2>2, <3>1 DEF LaneInv, Next
    <3>3. ~Begin(d) /\ rank'[d] = rank[d] /\ phase[d] # "unborn"
      BY <2>1, <2>3, <2>4, <3>1, <3>2
    <3>4. phase[d] # "begun"
      BY <3>1, <3>2, <3>3 DEF LaneInv, BegunIsYoungest
    <3>5. CASE e \in handed
      <4>1. phase[d] \in Settled
        BY <3>2, <3>3, <3>5 DEF LaneInv, InOrder
      <4> QED BY <2>2, <3>1, <4>1
    <3>6. CASE HandOut(e)
      <4>1. phase'[d] \notin Waiting
        BY <3>2, <3>3, <3>6
      <4> QED BY <2>3, <2>4, <3>1, <3>3, <3>4, <4>1
    <3> QED BY <1>2, <3>5, <3>6 DEF Next
  <2> QED BY <2>3, <2>5, <2>6, <2>7 DEF LaneInv
<1> QED BY <1>1, <1>2

\* Whoever keeps the promise keeps the order of every lane whose producers run one
\* after another.
THEOREM PromiseKeepsOrder ==
  ASSUME TakeTurns, \A e \in Events : HeldBackBy[e] \subseteq {d \in Events : Lane[d] = Lane[e]}
  PROVE  Spec => []InOrder
<1>1. Init => LaneInv
  BY DEF Init, LaneInv, BegunIsYoungest, InOrder, Phases
<1>2. LaneInv => InOrder
  BY DEF LaneInv
<1> QED BY <1>1, <1>2, LaneStep, PTL DEF Spec
=============================================================================
