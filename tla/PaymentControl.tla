--------------------------- MODULE PaymentControl ---------------------------
(***************************************************************************)
(* The payment control kernel (src/packages/core/src/payment/              *)
(* paymentStateMachine.ts and paymentControlTypes.ts): what a provider's   *)
(* event does to a payment intent and to its active attempt.  The kernel   *)
(* is pure, so is this module: it has operators and no variables.          *)
(*                                                                         *)
(* An event is its type and how its amount compares with the intent's:     *)
(* "exact", a positive "part" of it, "other", or "absent".                 *)
(***************************************************************************)

IntentStatuses == {"created", "requires_action", "processing", "succeeded", "failed",
                   "expired", "cancelled", "refunded", "partially_refunded", "disputed"}
AttemptStatuses == {"created", "blocked_preflight", "sent_to_provider", "requires_action",
                    "processing", "succeeded", "failed", "cancelled", "expired"}
EventTypes == {"requires_action", "succeeded", "failed", "refunded", "disputed"}
Amounts == {"exact", "part", "other", "absent"}

\* Attempts that prove no provider call is outstanding: RETRYABLE_ATTEMPT_STATUSES.
Retryable == {"blocked_preflight", "failed", "cancelled", "expired"}
\* Intents that a payment has reached.
PaidStatuses == {"succeeded", "refunded", "partially_refunded", "disputed"}

intentTransitions ==
  [created |-> {"requires_action", "processing", "failed", "expired", "cancelled"},
   requires_action |-> {"processing", "succeeded", "failed", "expired", "cancelled"},
   processing |-> {"requires_action", "succeeded", "failed", "expired", "cancelled"},
   failed |-> {"requires_action", "processing", "succeeded", "cancelled"},
   expired |-> {"requires_action", "processing", "succeeded", "cancelled"},
   cancelled |-> {},
   succeeded |-> {"refunded", "partially_refunded", "disputed"},
   partially_refunded |-> {"refunded", "disputed"},
   refunded |-> {"disputed"},
   disputed |-> {}]

attemptTransitions ==
  [created |-> AttemptStatuses \ {"created", "succeeded"},
   blocked_preflight |-> {"failed", "cancelled", "expired"},
   sent_to_provider |-> {"requires_action", "processing", "succeeded", "failed",
                         "cancelled", "expired"},
   requires_action |-> {"processing", "succeeded", "failed", "cancelled", "expired"},
   processing |-> {"requires_action", "succeeded", "failed", "cancelled", "expired"},
   failed |-> {"succeeded"}, cancelled |-> {"succeeded"}, expired |-> {"succeeded"},
   succeeded |-> {}]

IntentMay(from, to) == from = to \/ to \in intentTransitions[from]
AttemptMay(from, to) == from = to \/ to \in attemptTransitions[from]

\* A decision; "refused" stands for every result that is not ok.
Decision(kind, intent, attempt) == [kind |-> kind, intent |-> intent, attempt |-> attempt]
Refuse(intent, attempt) == Decision("refused", intent, attempt)
Noop(intent, attempt) == Decision("noop", intent, attempt)

\* Both transitions, or neither.
MoveBoth(kind, intent, attempt, toIntent, toAttempt) ==
  IF IntentMay(intent, toIntent) /\ AttemptMay(attempt, toAttempt)
    THEN Decision(kind, toIntent, toAttempt) ELSE Refuse(intent, attempt)

applySuccessEvent(intent, attempt) ==
  CASE intent \in {"cancelled", "refunded", "partially_refunded", "disputed"} ->
         Refuse(intent, attempt)
    [] intent = "succeeded" /\ attempt = "succeeded" -> Noop(intent, attempt)
    [] OTHER -> MoveBoth(IF intent \in {"failed", "expired"} THEN "late_success_recovered"
                         ELSE "state_changed", intent, attempt, "succeeded", "succeeded")

\* Fault: the failure is applied to whatever the intent became.
FaultyFailureEvent(intent, attempt) == Decision("state_changed", "failed", "failed")

applyFailureEvent(intent, attempt) ==
  IF intent \in PaidStatuses THEN Noop(intent, attempt)
  ELSE MoveBoth("state_changed", intent, attempt, "failed", "failed")

applyRefundEvent(intent, attempt, amount) ==
  IF intent \in {"succeeded", "partially_refunded", "refunded"} /\ amount # "other"
    THEN MoveBoth("state_changed", intent, attempt,
           IF amount = "exact" THEN "refunded" ELSE "partially_refunded", attempt)
    ELSE Refuse(intent, attempt)

applyDisputeEvent(intent, attempt) ==
  IF intent = "cancelled" THEN Refuse(intent, attempt)
  ELSE MoveBoth("state_changed", intent, attempt, "disputed", attempt)

\* applyProviderPaymentEvent for an event of the active attempt that was not
\* seen before; the host's set of seen events and the target check are the
\* caller's arguments.
applyProviderPaymentEvent(intent, attempt, type, amount, seen, active) ==
  CASE seen -> Noop(intent, attempt)
    [] ~seen /\ ~active -> Refuse(intent, attempt)
    [] ~seen /\ active /\ type = "refunded" -> applyRefundEvent(intent, attempt, amount)
    [] ~seen /\ active /\ type = "disputed" -> applyDisputeEvent(intent, attempt)
    [] ~seen /\ active /\ type \notin {"refunded", "disputed"} ->
         IF amount \in {"part", "other"} THEN Refuse(intent, attempt)
         ELSE CASE type = "succeeded" -> applySuccessEvent(intent, attempt)
                [] type = "failed" -> applyFailureEvent(intent, attempt)
                [] type = "requires_action" ->
                     MoveBoth("state_changed", intent, attempt, "requires_action",
                              "requires_action")
=============================================================================
