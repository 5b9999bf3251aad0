--------------------------- MODULE RenewalPromise ---------------------------
(***************************************************************************)
(* What a customer is promised of the unattended renewal: a cycle's money  *)
(* is asked for one attempt at a time and each attempt once, the cycle is  *)
(* paid only with money the provider took and is never unpaid again, and   *)
(* the subscription's date leaves a billed cycle only by its payment.      *)
(* Operations, leases, holds, dunning, processes and their crashes are not *)
(* seen here.                                                              *)
(***************************************************************************)
EXTENDS Integers

CONSTANTS
  Subs,
  Dates,     \* instants a cycle may be scheduled at
  Attempts   \* a cycle's attempts, in their order

Cycles == Subs \X Dates

VARIABLES
  active,  \* subscriptions that renew by themselves
  next,    \* the date of a subscription
  money,   \* what is known of a cycle's payment
  ask      \* what the provider holds for each attempt

vars == <<active, next, money, ask>>

Unpaid == {"open", "failed"}
Over == {"declined", "action", "approved"}  \* refused, or left to the customer
Paying == {"captured", "approved"}

Init == /\ active = Subs
        /\ next = [s \in Subs |-> 0]
        /\ money = [c \in Cycles |-> "none"]
        /\ ask = [c \in Cycles |-> [k \in Attempts |-> "none"]]

(***************************************************************************)
(* The money of a cycle.                                                   *)
(***************************************************************************)
Rests(c) == money'[c] = money[c]

Bill(c) == /\ money[c] = "none" /\ money'[c] = "open"
           /\ c[2] <= next[c[1]]

\* On evidence of a refusal, or before anybody has asked.
Refuse(c) ==
  /\ money[c] \in Unpaid /\ money'[c] = "failed"
  /\ \/ \E k \in Attempts : ask[c][k] \in Over
     \/ \A k \in Attempts : ask[c][k] = "none"

Settle(c) ==
  /\ money[c] \in Unpaid /\ money'[c] = "settled"
  /\ \E k \in Attempts : ask[c][k] \in Paying
  /\ c[1] \in active => next'[c[1]] > c[2]

(***************************************************************************)
(* One attempt at a cycle's money.                                         *)
(***************************************************************************)
Stays(c, k) == ask'[c][k] = ask[c][k]

Ask(c, k) ==
  /\ ask[c][k] = "none" /\ ask'[c][k] \in {"sent", "declined", "action"}
  /\ money[c] # "none" /\ \A j \in Attempts : j < k => ask[c][j] \in Over

Decide(c, k) ==
  \/ ask[c][k] = "sent" /\ ask'[c][k] \in {"captured", "declined", "action"}
  \/ ask[c][k] = "action" /\ ask'[c][k] \in {"approved", "declined"}

(***************************************************************************)
(* The schedule of a subscription.                                         *)
(***************************************************************************)
Of(s) == {c \in Cycles : c[1] = s}
Unbilled(s) == \A c \in Of(s) : c[2] = next[s] => money[c] = "none"

Keeps(s) == next'[s] = next[s]

Advance(s) == next'[s] > next[s] /\ \E c \in Of(s) : Settle(c)

\* Past every cycle that was ever billed.
Ahead(s) == \A c \in Of(s) : money[c] # "none" => c[2] < next'[s]

\* A command of the customer moves the date off no billed cycle.
Move(s) == s \in active /\ Unbilled(s) /\ Ahead(s)

\* When a pause ends, or an ended subscription begins again, what is unpaid is left
\* behind.
Wake(s) == s \in active' \ active /\ Ahead(s)

Next ==
  /\ \A c \in Cycles : Rests(c) \/ Bill(c) \/ Refuse(c) \/ Settle(c)
  /\ \A c \in Cycles, k \in Attempts : Stays(c, k) \/ Ask(c, k) \/ Decide(c, k)
  /\ \A s \in Subs : Wake(s) \/ (s \notin active' \ active /\ (Keeps(s) \/ Advance(s) \/ Move(s)))
  /\ active' \subseteq Subs /\ next' \in [Subs -> Int]

Spec == Init /\ [][Next]_vars
-----------------------------------------------------------------------------
(***************************************************************************)
(* What the promise amounts to.                                            *)
(***************************************************************************)

\* A cycle counts as paid only if the provider took its money.
SettledWasPaid ==
  \A c \in Cycles : money[c] = "settled" => \E k \in Attempts : ask[c][k] \in Paying

\* The provider takes a cycle's money at most once of its own accord: a second
\* payment needs a customer who approved a request left to him.
CapturedOnce ==
  \A c \in Cycles, j, k \in Attempts :
    ask[c][j] = "captured" /\ ask[c][k] = "captured" => j = k

\* A subscription that renews by itself is never due for a paid cycle.
PaidIsPast ==
  \A c \in Cycles : money[c] = "settled" /\ c[1] \in active => c[2] < next[c[1]]
=============================================================================
