---------------------------- MODULE BillingHost -----------------------------
(***************************************************************************)
(* A host of the two core kernels, SubscriptionEngine and PaymentControl.  *)
(* The kernels are pure; the host keeps one subscription, its cycles and,  *)
(* per cycle, the payment intent with its active attempt, and stores what  *)
(* a kernel function returns in one transaction: a decision about the      *)
(* intent and its effect on the cycle the intent targets change together,  *)
(* as in payment_truth_apply_terminal.  The provider's events arrive late, *)
(* repeatedly, or in another order than they happened; an event the kernel *)
(* refuses is not remembered as seen and may come again.                   *)
(***************************************************************************)
EXTENDS SubscriptionEngine, PaymentControl

CONSTANTS
  MaxCycle,      \* bound: cycles of the subscription
  MaxDay,        \* bound: the last day
  MaxSent        \* bound: refusals of one cycle after which the customer stops

ASSUME HostAssumption == MaxCycle \in Nat \ {0} /\ MaxDay \in Nat /\ MaxSent \in Nat

VARIABLES
  today,
  sub,       \* EngineSubscription
  cycle,     \* EngineCycle by number, or NoCycle
  intent,    \* the intent's status, by cycle
  attempt,   \* the active attempt's status, by cycle
  seen,      \* types of the active attempt's events the host has applied
  slides     \* history: the customer chose a date
vars == <<today, sub, cycle, intent, attempt, seen, slides>>

Numbers == 1..MaxCycle
NoCycle == [status |-> "none", scheduled |-> 0, refusals |-> 0, retryAt |-> NoDate,
            final |-> FALSE]

Init ==
  /\ today = 0
  /\ sub = [status |-> "active", next |-> 0]
  /\ cycle = [n \in Numbers |-> NoCycle]
  /\ intent = [n \in Numbers |-> "none"] /\ attempt = [n \in Numbers |-> "none"]
  /\ seen = [n \in Numbers |-> {}]
  /\ slides = FALSE

Tick ==
  /\ today < MaxDay /\ today' = today + 1
  /\ UNCHANGED <<sub, cycle, intent, attempt, seen, slides>>

Known(n) == cycle[n].status # "none"
\* A due subscription gets its next cycle, once per date.
Plan(n) ==
  /\ ~Known(n) /\ \A m \in 1..(n - 1) : Known(m)
  /\ isRenewalDue(sub, today)
  /\ \A m \in Numbers : Known(m) => cycle[m].scheduled # sub.next
  /\ \E method \in BOOLEAN : cycle' = [cycle EXCEPT ![n] = planSubscriptionCycle(sub, method)]
  /\ UNCHANGED <<today, sub, intent, attempt, seen, slides>>

\* A new attempt is admitted when no call of the last one can be outstanding.
Admitted(n) == attempt[n] = "none" \/ attempt[n] \in Retryable
NewAttempt(n) ==
  /\ Admitted(n)
  /\ intent' = [intent EXCEPT ![n] = IF @ = "none" THEN "created" ELSE @]
  /\ attempt' = [attempt EXCEPT ![n] = "created"]
  /\ seen' = [seen EXCEPT ![n] = {}]
\* The first attempt and the retries of the ladder are automatic ...
AutomaticCharge(n) ==
  /\ \/ cycle[n].status = "payment_pending" /\ attempt[n] = "none"
     \/ cycle[n].status = "retry_scheduled" /\ cycle[n].retryAt <= today
  /\ sub.status = "active"
  /\ NewAttempt(n)
  /\ UNCHANGED <<today, sub, cycle, slides>>
\* ... the customer may ask for one of a refused cycle.
CustomerCharge(n) ==
  /\ cycle[n].status = "payment_failed" /\ cycle[n].refusals < MaxSent
  /\ NewAttempt(n)
  /\ UNCHANGED <<today, sub, cycle, slides>>
\* The request is out; the provider may have answered before this is stored.
MarkSent(n) ==
  /\ attempt[n] = "created" /\ IntentMay(intent[n], "processing")
  /\ attempt' = [attempt EXCEPT ![n] = "sent_to_provider"]
  /\ intent' = [intent EXCEPT ![n] = "processing"]
  /\ UNCHANGED <<today, sub, cycle, seen, slides>>
\* An attempt nobody heard of is given up.
Expire(n) ==
  /\ attempt[n] \in {"sent_to_provider", "requires_action"} /\ IntentMay(intent[n], "expired")
  /\ attempt' = [attempt EXCEPT ![n] = "expired"]
  /\ intent' = [intent EXCEPT ![n] = "expired"]
  /\ UNCHANGED <<today, sub, cycle, seen, slides>>

\* Only a refund is for a part, and may come without its amount.
AmountsOf(type) == IF type = "refunded" THEN Amounts ELSE {"exact", "other"}
\* An event of the active attempt arrives, in any order: a new one, or one the
\* host has applied before, by its provider event id, again.  The kernel decides,
\* and the cycle follows the decision; an attempt's refusal counts once, whatever
\* further events report it, as the dunning case is kept by cycle.
Deliver(n, type, amount, again) ==
  LET d == applyProviderPaymentEvent(intent[n], attempt[n], type, amount, again, TRUE)
      paid == d.intent = "succeeded" /\ d.kind # "noop" /\ ~isTerminalCycle(cycle[n])
      failed == /\ d.intent = "failed" /\ d.kind = "state_changed" /\ attempt[n] # "failed"
                /\ ~isTerminalCycle(cycle[n])
  IN /\ attempt[n] # "none" /\ d.kind # "refused" /\ (again => type \in seen[n])
     /\ intent' = [intent EXCEPT ![n] = d.intent]
     /\ attempt' = [attempt EXCEPT ![n] = d.attempt]
     /\ seen' = [seen EXCEPT ![n] = @ \cup {type}]
     /\ \/ /\ paid
           /\ cycle' = [cycle EXCEPT ![n] = paidCycle(@)]
           /\ \E paidAt \in 0..(MaxDay + 1) : sub' = paidSubscription(sub, cycle[n], paidAt, today)
        \/ /\ failed
           /\ \E final \in BOOLEAN : cycle' = [cycle EXCEPT ![n] = refusedCycle(@, today, final)]
           /\ UNCHANGED sub
        \/ ~paid /\ ~failed /\ UNCHANGED <<cycle, sub>>
     /\ UNCHANGED <<today, slides>>

\* The customer and the owner of the subscription.  The stored payment method
\* changes at will, so each call finds one or not; without one the last two refuse.
SubBecomes(next) ==
  /\ sub' = next
  /\ UNCHANGED <<today, cycle, intent, attempt, seen>>
Bounded(date) == date <= MaxDay + CadenceDays
skipNextCycle ==
  sub.status = "active" /\ Bounded(sub.next) /\ SubBecomes(skipped(sub)) /\ UNCHANGED slides
slideNextCycle ==
  /\ sub.status = "active" /\ slides' = TRUE
  /\ \E to \in (today + 1)..MaxDay : SubBecomes(slid(sub, to))
ChangeStatus(status) ==
  /\ StatusMay(sub.status, status) /\ (status = "active" => sub.status = "paused")
  /\ SubBecomes(moved(sub, status)) /\ UNCHANGED slides
reactivateSubscription ==
  sub.status = "cancelled" /\ SubBecomes(restarted(sub, today)) /\ UNCHANGED slides
\* The exhausted cycle is skipped, and the schedule starts again.
resumeSubscriptionFromExpiredDunning(n) ==
  /\ sub.status = "paused" /\ isDunningLadderExhausted(cycle[n])
  /\ sub' = restarted(sub, today)
  /\ cycle' = [cycle EXCEPT ![n].status = "skipped", ![n].retryAt = NoDate]
  /\ UNCHANGED <<today, intent, attempt, seen, slides>>

Next ==
  \/ Tick
  \/ \E n \in Numbers :
       \/ Plan(n) \/ AutomaticCharge(n) \/ CustomerCharge(n) \/ MarkSent(n) \/ Expire(n)
       \/ \E type \in EventTypes, again \in BOOLEAN :
            \E amount \in AmountsOf(type) : Deliver(n, type, amount, again)
       \/ resumeSubscriptionFromExpiredDunning(n)
  \/ skipNextCycle \/ slideNextCycle \/ reactivateSubscription
  \/ \E status \in SubscriptionStatuses : ChangeStatus(status)
Spec == Init /\ [][Next]_vars

-----------------------------------------------------------------------------
(* Properties. *)

SubRow == [status : SubscriptionStatuses, next : Nat]
CycleRow == [status : CycleStatuses \cup {"none"}, scheduled : Nat, refusals : Nat,
             retryAt : Nat \cup {NoDate}, final : BOOLEAN]

\* The rows have the shape the kernels assume: a cycle has a retry date exactly
\* while its retry is scheduled.
TypeOK ==
  /\ today \in 0..MaxDay
  /\ sub \in SubRow
  /\ cycle \in [Numbers -> CycleRow]
  /\ intent \in [Numbers -> IntentStatuses \cup {"none"}]
  /\ attempt \in [Numbers -> AttemptStatuses \cup {"none"}]
  /\ seen \in [Numbers -> SUBSET EventTypes]
  /\ slides \in BOOLEAN
  /\ \A n \in Numbers : cycle[n].retryAt # NoDate <=> cycle[n].status = "retry_scheduled"

\* A window that was paid for is never charged again: unless the customer chose
\* a date, the subscription's next date is at least a cadence past every paid
\* cycle, whatever order late settlements, skips, pauses, win-backs and resumes
\* come in (the clamps of recordPaymentSuccess and restartNextCycleAt).
PaidWindowKept ==
  \A n \in Numbers : cycle[n].status = "paid" /\ ~slides
                      => sub.next >= cycle[n].scheduled + CadenceDays

\* The intent and its cycle tell the same story in any order of the provider's
\* events: a payment that was accepted is never taken back by a failure that
\* arrives later, a refund or dispute is not lost under a late success, and the
\* cycle is paid exactly when its money is, unless it had been given up
\* (applySuccessEvent, applyFailureEvent, recordPaymentSuccess).
MoneyAndCycleAgree ==
  \A n \in Numbers :
    /\ "succeeded" \in seen[n] <=> intent[n] \in PaidStatuses
    /\ cycle[n].status = "paid" => intent[n] \in PaidStatuses
    /\ intent[n] \in PaidStatuses => cycle[n].status \in {"paid", "skipped"}
    /\ "refunded" \in seen[n] =>
         intent[n] \in {"refunded", "partially_refunded", "disputed"}
    /\ "disputed" \in seen[n] => intent[n] = "disputed"

\* The ladder's verdict is one: a refused cycle without a retry is exhausted by
\* isDunningLadderExhausted or was refused for good, a scheduled retry is a rung
\* of the ladder, and only an exhausted cycle is skipped for its owner.
RefusedIsJudged ==
  \A n \in Numbers :
    /\ cycle[n].status = "payment_failed" /\ cycle[n].refusals > 0
         => isDunningLadderExhausted(cycle[n]) \/ cycle[n].final
    /\ cycle[n].status = "retry_scheduled" => cycle[n].refusals \in DOMAIN Backoff
    /\ cycle[n].status = "skipped" => cycle[n].refusals > Len(Backoff)
=============================================================================
