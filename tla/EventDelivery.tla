--------------------------- MODULE EventDelivery ---------------------------
(***************************************************************************)
(* What the outbox rail promises about an event, without the table: it is  *)
(* handed to one holder at a time, each time under a token never used      *)
(* before; it is settled at most once, as processed only by its present    *)
(* holder; and a settled event is never handed out again.                  *)
(***************************************************************************)
CONSTANTS Events, Tokens, NoToken

VARIABLES
  phase,   \* where an event is in its life
  holder,  \* the token of its latest hand-out
  spent,   \* tokens handed out so far
  winner   \* tokens whose holder was told that it processed its event

vars == <<phase, holder, spent, winner>>

Phase == {"unborn", "queued", "held", "processed", "discarded"}

Init == /\ phase = [e \in Events |-> "unborn"]
        /\ holder = [e \in Events |-> NoToken]
        /\ spent = {} /\ winner = {}

Rest(e) == phase'[e] = phase[e] /\ holder'[e] = holder[e]

Publish(e) == phase[e] = "unborn" /\ phase'[e] = "queued" /\ holder'[e] = holder[e]

\* A held event is handed out anew when its lease is over.
HandOut(e) == /\ phase[e] \in {"queued", "held"} /\ phase'[e] = "held"
              /\ holder'[e] \in spent' \ spent

GiveBack(e) == phase[e] = "held" /\ phase'[e] = "queued" /\ holder'[e] = holder[e]

Process(e) == /\ phase[e] = "held" /\ phase'[e] = "processed" /\ holder'[e] = holder[e]
              /\ holder[e] \in winner'

Discard(e) == /\ phase[e] \in {"queued", "held"} /\ phase'[e] = "discarded"
              /\ holder'[e] = holder[e]

\* One transaction may move several events, each by a step of its own life.
Next ==
  /\ \A e \in Events :
       Rest(e) \/ Publish(e) \/ HandOut(e) \/ GiveBack(e) \/ Process(e) \/ Discard(e)
  /\ spent \subseteq spent' /\ winner \subseteq winner'
  /\ winner' \ winner \subseteq
       {holder[e] : e \in {d \in Events : phase[d] = "held" /\ phase'[d] = "processed"}}
  /\ \A d, e \in Events : holder'[d] = holder'[e] /\ holder'[e] # NoToken => d = e

Spec == Init /\ [][Next]_vars
=============================================================================
