------------------------- MODULE SubscriptionEngine -------------------------
(***************************************************************************)
(* The subscription kernel (src/packages/core/src/subscription): pure      *)
(* functions from a subscription, a cycle and instants the caller names to *)
(* the rows the caller stores.  Instants are days.  The events the         *)
(* functions return, templates and pricing are left out.                   *)
(***************************************************************************)
EXTENDS Integers, Sequences

CONSTANTS
  CadenceDays,   \* the template's cadence
  RestartLead,   \* RESTART_LEAD_DAYS
  Backoff        \* the ladder: days to wait after each refusal

ASSUME EngineAssumption ==
  /\ CadenceDays \in Nat \ {0} /\ RestartLead \in Nat
  /\ Backoff \in Seq(Nat \ {0})

NoDate == -1      \* an absent instant

SubscriptionStatuses == {"active", "paused", "cancelled", "completed"}
CycleStatuses == {"payment_pending", "payment_failed", "retry_scheduled", "paid", "skipped"}

SUBSCRIPTION_STATUS_TRANSITIONS ==
  [active |-> {"paused", "cancelled", "completed"}, paused |-> {"active", "cancelled"},
   cancelled |-> {"active"}, completed |-> {}]
StatusMay(from, to) == to \in SUBSCRIPTION_STATUS_TRANSITIONS[from]

LaterOf(a, b) == IF a >= b THEN a ELSE b
EarlierOf(a, b) == IF a <= b THEN a ELSE b

isRenewalDue(sub, now) == sub.status = "active" /\ sub.next <= now
isTerminalCycle(cycle) == cycle.status \in {"paid", "skipped"}

\* planSubscriptionCycle: without a payment method the cycle is refused at once.
\* ("final" is history: the class of the last refusal ended the ladder.)
planSubscriptionCycle(sub, method) ==
  [status |-> IF method THEN "payment_pending" ELSE "payment_failed",
   scheduled |-> sub.next, refusals |-> 0, retryAt |-> NoDate, final |-> FALSE]

\* Fault: the schedule follows the payment recorded last.
FaultyUnclamped(sub, cycle, paidAt, recordedAt) ==
  cycle.scheduled + CadenceDays + LaterOf(0, EarlierOf(paidAt, recordedAt) - cycle.scheduled)
\* One cadence past the paid cycle plus the whole days of delay, never earlier
\* than the date the subscription has.
nextAfterPayment(sub, cycle, paidAt, recordedAt) ==
  LaterOf(sub.next, cycle.scheduled + CadenceDays
                      + LaterOf(0, EarlierOf(paidAt, recordedAt) - cycle.scheduled))
\* recordPaymentSuccess, for a cycle that is not terminal; the subscription's
\* status does not matter.
paidSubscription(sub, cycle, paidAt, recordedAt) ==
  [sub EXCEPT !.next = nextAfterPayment(sub, cycle, paidAt, recordedAt)]
\* Fault: the retry that was scheduled stays.
FaultyKeepsRetry(cycle) == [cycle EXCEPT !.status = "paid"]
paidCycle(cycle) == [cycle EXCEPT !.status = "paid", !.retryAt = NoDate]

\* Fault: past its end the ladder answers its last slot again.
FaultyCapped(failedAt, refusal, final) ==
  IF final THEN NoDate
  ELSE failedAt + Backoff[EarlierOf(refusal, Len(Backoff))]
\* nextRetryAttemptAt
nextRetryAttemptAt(failedAt, refusal, final) ==
  IF final \/ refusal \notin DOMAIN Backoff THEN NoDate ELSE failedAt + Backoff[refusal]

\* recordPaymentFailure, for a cycle that is not terminal.
refusedCycle(cycle, failedAt, final) ==
  LET retryAt == nextRetryAttemptAt(failedAt, cycle.refusals + 1, final)
  IN [cycle EXCEPT !.refusals = @ + 1, !.retryAt = retryAt, !.final = final,
        !.status = IF retryAt = NoDate THEN "payment_failed" ELSE "retry_scheduled"]

isDunningLadderExhausted(cycle) ==
  cycle.status = "payment_failed" /\ cycle.retryAt = NoDate /\ cycle.refusals > Len(Backoff)

\* skipNextCycle, slideNextCycle, and the functions that only change the status.
skipped(sub) == [sub EXCEPT !.next = @ + CadenceDays]
slid(sub, to) == [sub EXCEPT !.next = to]
moved(sub, status) == [sub EXCEPT !.status = status]

\* restartNextCycleAt: never earlier than the stored date.
restarted(sub, now) ==
  [sub EXCEPT !.status = "active", !.next = LaterOf(@, now + RestartLead)]
=============================================================================
