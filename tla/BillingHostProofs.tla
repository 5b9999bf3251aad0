------------------------- MODULE BillingHostProofs -------------------------
(***************************************************************************)
(* Proofs about BillingHost, for every ladder, cadence, lead and number of *)
(* cycles.  What a kernel decision can be is settled once (Decided); the   *)
(* invariant adds to the checked properties that a paid intent's attempt   *)
(* has succeeded, so that no new attempt forgets the payment.              *)
(***************************************************************************)
EXTENDS BillingHost, TLAPS

PaidIsSettled == \A n \in Numbers : intent[n] \in PaidStatuses => attempt[n] = "succeeded"
StartedTogether == \A n \in Numbers : attempt[n] = "none" <=> intent[n] = "none"
HostInv ==
  TypeOK /\ PaidIsSettled /\ StartedTogether /\ PaidWindowKept /\ MoneyAndCycleAgree
  /\ RefusedIsJudged

-----------------------------------------------------------------------------
(* The payment control kernel. *)

\* What an accepted event of the active attempt makes of an intent i and an
\* attempt a; known says that the host has applied this event already.
Decides(d, i, a, type, known) ==
  /\ d.intent \in IntentStatuses /\ d.attempt \in AttemptStatuses
  /\ known => d = Noop(i, a)
  /\ ~known /\ type = "succeeded" =>
       /\ d.intent = "succeeded" /\ d.attempt = "succeeded"
       /\ i \notin {"refunded", "partially_refunded", "disputed"}
       /\ d.kind = "noop" => i = "succeeded"
  /\ ~known /\ type = "failed" =>
       IF i \in PaidStatuses THEN d = Noop(i, a)
       ELSE d = Decision("state_changed", "failed", "failed")
  /\ ~known /\ type = "requires_action" =>
       /\ i \notin PaidStatuses /\ d.intent = "requires_action"
       /\ d.kind = "state_changed" /\ d.attempt = "requires_action"
  /\ ~known /\ type = "refunded" =>
       /\ i \in {"succeeded", "partially_refunded", "refunded"}
       /\ d.intent \in {"refunded", "partially_refunded"}
       /\ d.kind = "state_changed" /\ d.attempt = a
  /\ ~known /\ type = "disputed" =>
       /\ i \in PaidStatuses /\ d.intent = "disputed"
       /\ d.kind = "state_changed" /\ d.attempt = a

\* d is what the kernel answers.
AppliedAs(d, i, a, type, amount, known) ==
  d = applyProviderPaymentEvent(i, a, type, amount, known, TRUE)

\* The kernel's accepted decisions are these.
LEMMA Decided ==
  ASSUME NEW i \in IntentStatuses, NEW a \in AttemptStatuses,
         NEW type \in EventTypes, NEW amount \in Amounts, NEW known \in BOOLEAN,
         NEW d, AppliedAs(d, i, a, type, amount, known),
         d.kind # "refused"
  PROVE  Decides(d, i, a, type, known)
<1>1. \A kind, toI, toA : kind # "refused" /\ MoveBoth(kind, i, a, toI, toA).kind # "refused" =>
        /\ MoveBoth(kind, i, a, toI, toA) = Decision(kind, toI, toA)
        /\ IntentMay(i, toI)
  BY DEF MoveBoth, Refuse, Decision
<1>2. \A kind, toI, toA :
        LET e == Decision(kind, toI, toA)
        IN e.kind = kind /\ e.intent = toI /\ e.attempt = toA
  BY DEF Decision
<1>3. IntentMay(i, "disputed") => i \in PaidStatuses
  BY DEF IntentMay, intentTransitions, IntentStatuses, PaidStatuses
<1>4. IntentMay(i, "requires_action") => i \notin PaidStatuses
  BY DEF IntentMay, intentTransitions, IntentStatuses, PaidStatuses
<1>5. /\ {"succeeded", "failed", "requires_action", "refunded", "partially_refunded",
          "disputed"} \subseteq IntentStatuses
      /\ {"succeeded", "failed", "requires_action"} \subseteq AttemptStatuses
  BY DEF IntentStatuses, AttemptStatuses
<1>6. Refuse(i, a).kind = "refused" /\ Noop(i, a).kind = "noop"
      /\ Noop(i, a).intent = i /\ Noop(i, a).attempt = a
  BY DEF Refuse, Noop, Decision
<1>7. CASE known
  <2>1. d = Noop(i, a)
    BY <1>7 DEF applyProviderPaymentEvent, AppliedAs
  <2> QED BY <1>6, <1>7, <2>1 DEF Decides
<1>8. CASE ~known /\ type = "refunded"
  <2>1. d = applyRefundEvent(i, a, amount)
    BY <1>8 DEF applyProviderPaymentEvent, AppliedAs
  <2>2. /\ i \in {"succeeded", "partially_refunded", "refunded"}
        /\ d = MoveBoth("state_changed", i, a,
                 IF amount = "exact" THEN "refunded" ELSE "partially_refunded", a)
    BY <1>6, <2>1 DEF applyRefundEvent
  <2>3. d = Decision("state_changed",
                 IF amount = "exact" THEN "refunded" ELSE "partially_refunded", a)
    BY <1>1, <2>2
  <2> QED BY <1>2, <1>5, <1>8, <2>2, <2>3 DEF Decides
<1>9. CASE ~known /\ type = "disputed"
  <2>1. d = applyDisputeEvent(i, a)
    BY <1>9 DEF applyProviderPaymentEvent, AppliedAs
  <2>2. d = MoveBoth("state_changed", i, a, "disputed", a)
    BY <1>6, <2>1 DEF applyDisputeEvent
  <2>3. d = Decision("state_changed", "disputed", a) /\ IntentMay(i, "disputed")
    BY <1>1, <2>2
  <2> QED BY <1>2, <1>3, <1>5, <1>9, <2>3 DEF Decides
<1>10. CASE ~known /\ type = "succeeded"
  <2>1. d = applySuccessEvent(i, a)
    BY <1>6, <1>10 DEF applyProviderPaymentEvent, AppliedAs
  <2>2. i \notin {"cancelled", "refunded", "partially_refunded", "disputed"}
    BY <1>6, <2>1 DEF applySuccessEvent
  <2>3. CASE i = "succeeded" /\ a = "succeeded"
    <3>1. d = Noop(i, a)
      BY <2>1, <2>2, <2>3 DEF applySuccessEvent
    <3> QED BY <1>5, <1>6, <1>10, <2>3, <3>1 DEF Decides
  <2>4. CASE ~(i = "succeeded" /\ a = "succeeded")
    <3> DEFINE kind == IF i \in {"failed", "expired"} THEN "late_success_recovered"
                       ELSE "state_changed"
    <3>1. d = MoveBoth(kind, i, a, "succeeded", "succeeded")
      BY <2>1, <2>2, <2>4 DEF applySuccessEvent
    <3>2. kind # "refused" /\ kind # "noop"
      OBVIOUS
    <3> HIDE DEF kind
    <3>3. d = Decision(kind, "succeeded", "succeeded")
      BY <1>1, <3>1, <3>2
    <3> QED BY <1>2, <1>5, <1>10, <2>2, <3>2, <3>3 DEF Decides
  <2> QED BY <2>3, <2>4
<1>11. CASE ~known /\ type = "failed"
  <2>1. d = applyFailureEvent(i, a)
    BY <1>6, <1>11 DEF applyProviderPaymentEvent, AppliedAs
  <2>2. CASE i \in PaidStatuses
    BY <1>6, <1>11, <2>1, <2>2 DEF applyFailureEvent, Decides
  <2>3. CASE i \notin PaidStatuses
    <3>1. d = MoveBoth("state_changed", i, a, "failed", "failed")
      BY <2>1, <2>3 DEF applyFailureEvent
    <3>2. d = Decision("state_changed", "failed", "failed")
      BY <1>1, <3>1
    <3> QED BY <1>2, <1>5, <1>11, <2>3, <3>2 DEF Decides
  <2> QED BY <2>2, <2>3
<1>12. CASE ~known /\ type = "requires_action"
  <2>1. d = MoveBoth("state_changed", i, a, "requires_action", "requires_action")
    BY <1>6, <1>12 DEF applyProviderPaymentEvent, AppliedAs
  <2>2. d = Decision("state_changed", "requires_action", "requires_action")
        /\ IntentMay(i, "requires_action")
    BY <1>1, <2>1
  <2> QED BY <1>2, <1>4, <1>5, <1>12, <2>2 DEF Decides
<1> QED BY <1>7, <1>8, <1>9, <1>10, <1>11, <1>12 DEF EventTypes

-----------------------------------------------------------------------------
(* The subscription kernel. *)

\* A settlement never moves the date back, and moves it a cadence past its cycle.
LEMMA PaymentMoves ==
  ASSUME NEW s \in SubRow, NEW c \in CycleRow, NEW paidAt \in Nat, NEW recordedAt \in Nat
  PROVE  LET after == paidSubscription(s, c, paidAt, recordedAt)
         IN /\ after \in SubRow /\ after.status = s.status
            /\ after.next >= s.next /\ after.next >= c.scheduled + CadenceDays
<1> USE EngineAssumption
<1> DEFINE delay == LaterOf(0, EarlierOf(paidAt, recordedAt) - c.scheduled)
<1>1. c.scheduled \in Nat /\ s.next \in Nat
  BY DEF SubRow, CycleRow
<1>2. delay \in Nat
  BY <1>1 DEF LaterOf, EarlierOf
<1> HIDE DEF delay
<1>3. nextAfterPayment(s, c, paidAt, recordedAt)
        = LaterOf(s.next, c.scheduled + CadenceDays + delay)
  BY DEF nextAfterPayment, delay
<1> DEFINE date == nextAfterPayment(s, c, paidAt, recordedAt)
<1>4. date \in Nat /\ date >= s.next /\ date >= c.scheduled + CadenceDays
  BY <1>1, <1>2, <1>3 DEF LaterOf
<1> HIDE DEF date
<1>5. paidSubscription(s, c, paidAt, recordedAt) = [s EXCEPT !.next = date]
  BY DEF paidSubscription, date
<1> QED BY <1>4, <1>5 DEF SubRow

\* A refused cycle, scheduled on a rung or given up by the ladder.
JudgedRow(row) ==
  /\ row \in CycleRow /\ row.status \in {"payment_failed", "retry_scheduled"}
  /\ row.retryAt # NoDate <=> row.status = "retry_scheduled"
  /\ row.status = "payment_failed" => isDunningLadderExhausted(row) \/ row.final
  /\ row.status = "retry_scheduled" => row.refusals \in DOMAIN Backoff

\* A refusal schedules the next rung, or leaves a cycle the ladder is done with.
LEMMA RefusalJudged ==
  ASSUME NEW c \in CycleRow, NEW failedAt \in Nat, NEW final \in BOOLEAN
  PROVE  JudgedRow(refusedCycle(c, failedAt, final))
<1> USE EngineAssumption
<1> DEFINE retryAt == nextRetryAttemptAt(failedAt, c.refusals + 1, final)
           status == IF retryAt = NoDate THEN "payment_failed" ELSE "retry_scheduled"
<1>1. c.refusals + 1 \in Nat /\ c.refusals + 1 > 0
  BY DEF CycleRow
<1>2. DOMAIN Backoff = 1..Len(Backoff) /\ Len(Backoff) \in Nat
  OBVIOUS
<1>3. c.refusals + 1 \in DOMAIN Backoff => Backoff[c.refusals + 1] \in Nat
  OBVIOUS
<1>4. retryAt \in Nat \cup {NoDate}
  BY <1>3 DEF nextRetryAttemptAt
<1>5. retryAt # NoDate => c.refusals + 1 \in DOMAIN Backoff
  BY DEF nextRetryAttemptAt
<1>6. retryAt = NoDate => final \/ c.refusals + 1 > Len(Backoff)
  <2>1. ASSUME ~final, c.refusals + 1 \in DOMAIN Backoff PROVE retryAt # NoDate
    BY <2>1, <1>3 DEF nextRetryAttemptAt, NoDate
  <2> QED BY <1>1, <1>2, <2>1
<1> HIDE DEF retryAt
<1>7. refusedCycle(c, failedAt, final) =
        [c EXCEPT !.refusals = c.refusals + 1, !.retryAt = retryAt,
                  !.final = final, !.status = status]
  BY DEF refusedCycle, retryAt
<1> DEFINE after == [c EXCEPT !.refusals = c.refusals + 1, !.retryAt = retryAt, !.final = final,
                              !.status = status]
<1>8. /\ after.refusals = c.refusals + 1 /\ after.retryAt = retryAt
      /\ after.final = final /\ after.status = status
  BY DEF CycleRow
<1>9. after \in CycleRow
  <2>1. status \in CycleStatuses
    BY DEF CycleStatuses
  <2> HIDE DEF status
  <2>3. CASE final = TRUE
    BY <1>1, <1>4, <2>1, <2>3 DEF CycleRow
  <2>4. CASE final = FALSE
    BY <1>1, <1>4, <2>1, <2>4 DEF CycleRow
  <2> QED BY <2>3, <2>4
<1> HIDE DEF after
<1>10. after.status = "payment_failed" => isDunningLadderExhausted(after) \/ after.final
  BY <1>6, <1>8 DEF isDunningLadderExhausted
<1>11. JudgedRow(after)
  BY <1>5, <1>8, <1>9, <1>10 DEF JudgedRow
<1> QED BY <1>7, <1>11 DEF after

\* The customer's functions keep the row, and move the date only forward.
LEMMA CommandsMove ==
  ASSUME NEW s \in SubRow, NEW now \in Nat
  PROVE  /\ skipped(s) \in SubRow /\ skipped(s).next >= s.next
         /\ \A to \in Nat : slid(s, to) \in SubRow
         /\ \A status \in SubscriptionStatuses :
              moved(s, status) \in SubRow /\ moved(s, status).next = s.next
         /\ restarted(s, now) \in SubRow /\ restarted(s, now).next >= s.next
<1> USE EngineAssumption
<1>1. s.next \in Nat /\ s.next + CadenceDays \in Nat /\ s.next + CadenceDays >= s.next
  BY DEF SubRow
<1>2. LaterOf(s.next, now + RestartLead) \in Nat /\ LaterOf(s.next, now + RestartLead) >= s.next
  BY <1>1 DEF LaterOf
<1>3. \A date \in Nat : [s EXCEPT !.next = date] \in SubRow /\ [s EXCEPT !.next = date].next = date
  BY DEF SubRow
<1>4. \A status \in SubscriptionStatuses :
        [s EXCEPT !.status = status] \in SubRow /\ [s EXCEPT !.status = status].next = s.next
  BY DEF SubRow
<1>5. skipped(s) \in SubRow /\ skipped(s).next >= s.next
  BY <1>1, <1>3 DEF skipped
<1>6. \A date \in Nat : /\ [s EXCEPT !.status = "active", !.next = date] \in SubRow
                         /\ [s EXCEPT !.status = "active", !.next = date].next = date
  BY DEF SubRow, SubscriptionStatuses
<1>7. restarted(s, now) \in SubRow /\ restarted(s, now).next >= s.next
  BY <1>2, <1>6 DEF restarted
<1> QED BY <1>3, <1>4, <1>5, <1>7 DEF slid, moved

\* The rows a new, a paid and a given-up cycle are stored as.
LEMMA CyclesStored ==
  ASSUME NEW s \in SubRow, NEW c \in CycleRow
  PROVE  /\ \A method \in BOOLEAN :
              LET new == planSubscriptionCycle(s, method)
              IN /\ new \in CycleRow /\ new.retryAt = NoDate /\ new.refusals = 0
                 /\ new.status \in {"payment_pending", "payment_failed"}
         /\ LET paid == paidCycle(c)
            IN /\ paid \in CycleRow /\ paid.retryAt = NoDate /\ paid.status = "paid"
               /\ paid.scheduled = c.scheduled /\ paid.refusals = c.refusals
         /\ LET given == [c EXCEPT !.status = "skipped", !.retryAt = NoDate]
            IN /\ given \in CycleRow /\ given.retryAt = NoDate /\ given.status = "skipped"
               /\ given.refusals = c.refusals
<1>1. s.next \in Nat
  BY DEF SubRow
<1> QED BY <1>1 DEF planSubscriptionCycle, paidCycle, CycleRow, CycleStatuses

-----------------------------------------------------------------------------
(* The host's steps. *)

\* The decision a delivery stores.
DecisionOn(n, type, amount, again) ==
  applyProviderPaymentEvent(intent[n], attempt[n], type, amount, again, TRUE)
PaysCycle(n, d) == d.intent = "succeeded" /\ d.kind # "noop" /\ ~isTerminalCycle(cycle[n])
FailsCycle(n, d) ==
  /\ d.intent = "failed" /\ d.kind = "state_changed" /\ attempt[n] # "failed"
  /\ ~isTerminalCycle(cycle[n])

\* What a delivery does to the intent, and to the cycle it targets.
LEMMA Delivered ==
  ASSUME TypeOK, StartedTogether, NEW n \in Numbers, NEW type \in EventTypes,
         NEW amount \in AmountsOf(type), NEW again \in BOOLEAN,
         Deliver(n, type, amount, again)
  PROVE  LET d == DecisionOn(n, type, amount, again)
         IN /\ intent[n] \in IntentStatuses /\ attempt[n] \in AttemptStatuses
            /\ amount \in Amounts /\ d.kind # "refused" /\ (again => type \in seen[n])
            /\ Decides(d, intent[n], attempt[n], type, again)
            /\ d.intent \in IntentStatuses /\ d.attempt \in AttemptStatuses
            /\ intent' = [intent EXCEPT ![n] = d.intent]
            /\ attempt' = [attempt EXCEPT ![n] = d.attempt]
            /\ seen' = [seen EXCEPT ![n] = seen[n] \cup {type}]
            /\ UNCHANGED <<today, slides>>
            /\ \/ /\ PaysCycle(n, d)
                  /\ cycle' = [cycle EXCEPT ![n] = paidCycle(cycle[n])]
                  /\ \E paidAt \in Nat : sub' = paidSubscription(sub, cycle[n], paidAt, today)
               \/ /\ FailsCycle(n, d)
                  /\ \E final \in BOOLEAN :
                       cycle' = [cycle EXCEPT ![n] = refusedCycle(cycle[n], today, final)]
                  /\ UNCHANGED sub
               \/ ~PaysCycle(n, d) /\ ~FailsCycle(n, d) /\ UNCHANGED <<cycle, sub>>
<1> USE HostAssumption
<1> DEFINE d == DecisionOn(n, type, amount, again)
<1>1. intent[n] \in IntentStatuses /\ attempt[n] \in AttemptStatuses /\ amount \in Amounts
  BY DEF Deliver, TypeOK, StartedTogether, AmountsOf, Amounts
<1>2. d.kind # "refused" /\ (again => type \in seen[n])
  BY DEF Deliver, DecisionOn
<1>3. /\ Decides(d, intent[n], attempt[n], type, again)
      /\ d.intent \in IntentStatuses /\ d.attempt \in AttemptStatuses
  <2>1. Decides(d, intent[n], attempt[n], type, again)
    BY <1>1, <1>2, Decided, Zenon DEF DecisionOn, AppliedAs
  <2> QED BY <2>1 DEF Decides
<1>4. \A paidAt \in 0..(MaxDay + 1) : paidAt \in Nat
  OBVIOUS
<1>5. /\ intent' = [intent EXCEPT ![n] = d.intent]
      /\ attempt' = [attempt EXCEPT ![n] = d.attempt]
      /\ seen' = [seen EXCEPT ![n] = seen[n] \cup {type}]
      /\ UNCHANGED <<today, slides>>
  BY DEF Deliver, DecisionOn
<1>6. \/ /\ PaysCycle(n, d)
         /\ cycle' = [cycle EXCEPT ![n] = paidCycle(cycle[n])]
         /\ \E paidAt \in 0..(MaxDay + 1) : sub' = paidSubscription(sub, cycle[n], paidAt, today)
      \/ /\ FailsCycle(n, d)
         /\ \E final \in BOOLEAN :
              cycle' = [cycle EXCEPT ![n] = refusedCycle(cycle[n], today, final)]
         /\ UNCHANGED sub
      \/ ~PaysCycle(n, d) /\ ~FailsCycle(n, d) /\ UNCHANGED <<cycle, sub>>
  BY DEF Deliver, DecisionOn, PaysCycle, FailsCycle
<1> QED BY <1>1, <1>2, <1>3, <1>4, <1>5, <1>6

\* Every step keeps the rows' shape.
LEMMA TypeStep ==
  ASSUME TypeOK, StartedTogether, [Next]_vars
  PROVE  TypeOK'
<1> USE EngineAssumption, HostAssumption
<1>a. /\ sub \in SubRow /\ sub.next \in Nat /\ today \in 0..MaxDay /\ today \in Nat
      /\ \A m \in Numbers : cycle[m] \in CycleRow
  BY HostAssumption DEF TypeOK, SubRow
<1>0. CASE UNCHANGED vars
  BY <1>0 DEF TypeOK, vars
<1>1. CASE Tick
  BY <1>1, <1>a DEF TypeOK, Tick
<1>2. ASSUME NEW n \in Numbers, Plan(n)
      PROVE  TypeOK'
  <2>1. PICK method \in BOOLEAN : cycle' = [cycle EXCEPT ![n] = planSubscriptionCycle(sub, method)]
    BY <1>2 DEF Plan
  <2> DEFINE new == planSubscriptionCycle(sub, method)
  <2>2. new \in CycleRow /\ (new.retryAt # NoDate <=> new.status = "retry_scheduled")
    BY <1>a, CyclesStored
  <2> HIDE DEF new
  <2>3. cycle' = [cycle EXCEPT ![n] = new]
    BY <2>1 DEF new
  <2> QED BY <1>2, <2>2, <2>3 DEF TypeOK, Plan
<1>3. ASSUME NEW n \in Numbers, AutomaticCharge(n)
      PROVE  TypeOK'
  BY <1>3, <1>a DEF TypeOK, AutomaticCharge, NewAttempt, IntentStatuses, AttemptStatuses
<1>4. ASSUME NEW n \in Numbers, CustomerCharge(n)
      PROVE  TypeOK'
  BY <1>4, <1>a DEF TypeOK, CustomerCharge, NewAttempt, IntentStatuses, AttemptStatuses
<1>5. ASSUME NEW n \in Numbers, MarkSent(n)
      PROVE  TypeOK'
  BY <1>5, <1>a DEF TypeOK, MarkSent, IntentStatuses, AttemptStatuses
<1>6. ASSUME NEW n \in Numbers, Expire(n)
      PROVE  TypeOK'
  BY <1>6, <1>a DEF TypeOK, Expire, IntentStatuses, AttemptStatuses
<1>7. ASSUME NEW n \in Numbers, NEW type \in EventTypes,
             NEW amount \in AmountsOf(type), NEW again \in BOOLEAN,
             Deliver(n, type, amount, again)
      PROVE  TypeOK'
  <2> DEFINE d == DecisionOn(n, type, amount, again)
  <2>1. /\ d.intent \in IntentStatuses /\ d.attempt \in AttemptStatuses
        /\ intent' = [intent EXCEPT ![n] = d.intent]
        /\ attempt' = [attempt EXCEPT ![n] = d.attempt]
        /\ seen' = [seen EXCEPT ![n] = seen[n] \cup {type}]
        /\ UNCHANGED <<today, slides>>
    BY <1>7, Delivered
  <2>a. \/ /\ cycle' = [cycle EXCEPT ![n] = paidCycle(cycle[n])]
           /\ \E paidAt \in Nat : sub' = paidSubscription(sub, cycle[n], paidAt, today)
        \/ /\ \E final \in BOOLEAN :
                cycle' = [cycle EXCEPT ![n] = refusedCycle(cycle[n], today, final)]
           /\ UNCHANGED sub
        \/ UNCHANGED <<cycle, sub>>
    BY <1>7, Delivered
  <2>b. cycle[n] \in CycleRow
    BY <1>a
  <2>2. sub' \in SubRow
    BY <1>a, <2>a, <2>b, PaymentMoves
  <2>3. \/ UNCHANGED cycle
        \/ \E row \in CycleRow : /\ cycle' = [cycle EXCEPT ![n] = row]
                                 /\ row.retryAt # NoDate <=> row.status = "retry_scheduled"
    <3>1. paidCycle(cycle[n]) \in CycleRow /\ paidCycle(cycle[n]).retryAt = NoDate
          /\ paidCycle(cycle[n]).status # "retry_scheduled"
      BY <1>a, <2>b, CyclesStored
    <3>2. \A final \in BOOLEAN : JudgedRow(refusedCycle(cycle[n], today, final))
      BY <1>a, <2>b, RefusalJudged, Zenon
    <3> QED BY <2>a, <3>1, <3>2 DEF JudgedRow
  <2> HIDE DEF d
  <2> QED BY <2>1, <2>2, <2>3 DEF TypeOK
<1>8. ASSUME NEW n \in Numbers, resumeSubscriptionFromExpiredDunning(n)
      PROVE  TypeOK'
  <2> DEFINE given == [cycle[n] EXCEPT !.status = "skipped", !.retryAt = NoDate]
  <2>1. given \in CycleRow /\ (given.retryAt # NoDate <=> given.status = "retry_scheduled")
    BY <1>a, CyclesStored
  <2>2. sub' \in SubRow
    BY <1>8, <1>a, CommandsMove DEF resumeSubscriptionFromExpiredDunning
  <2>3. cycle' = [cycle EXCEPT ![n] = given]
    BY <1>8, <1>a DEF resumeSubscriptionFromExpiredDunning, TypeOK
  <2> HIDE DEF given
  <2> QED BY <1>8, <2>1, <2>2, <2>3 DEF TypeOK, resumeSubscriptionFromExpiredDunning
<1>9. CASE skipNextCycle
  BY <1>9, <1>a, CommandsMove DEF TypeOK, skipNextCycle, SubBecomes
<1>10. CASE slideNextCycle
  <2>1. PICK to \in (today + 1)..MaxDay : sub' = slid(sub, to)
    BY <1>10 DEF slideNextCycle, SubBecomes
  <2>2. to \in Nat
    BY <1>a, HostAssumption
  <2> QED BY <1>10, <1>a, <2>1, <2>2, CommandsMove DEF TypeOK, slideNextCycle, SubBecomes
<1>11. CASE reactivateSubscription
  BY <1>11, <1>a, CommandsMove DEF TypeOK, reactivateSubscription, SubBecomes
<1>12. ASSUME NEW status \in SubscriptionStatuses, ChangeStatus(status)
      PROVE  TypeOK'
  BY <1>12, <1>a, CommandsMove DEF TypeOK, ChangeStatus, SubBecomes
<1> QED BY <1>0, <1>1, <1>2, <1>3, <1>4, <1>5, <1>6, <1>7, <1>8, <1>9, <1>10, <1>11, <1>12
  DEF Next

\* A paid cycle and the date that leaves its window alone.
WindowOK(n) ==
  cycle[n].status = "paid" /\ ~slides => sub.next >= cycle[n].scheduled + CadenceDays

\* A step that pays no cycle and moves the date forward keeps the windows.
LEMMA WindowSame ==
  ASSUME TypeOK, TypeOK', NEW m \in Numbers, WindowOK(m), slides' = slides,
         sub'.next >= sub.next,
         cycle'[m].status = "paid" => cycle'[m] = cycle[m]
  PROVE  WindowOK(m)'
<1>1. sub.next \in Nat /\ sub'.next \in Nat /\ cycle[m].scheduled \in Nat
  BY DEF TypeOK, SubRow, CycleRow
<1> QED BY <1>1, EngineAssumption DEF WindowOK

\* No step takes a paid window's date away, unless the customer chose one.
LEMMA WindowStep ==
  ASSUME TypeOK, TypeOK', StartedTogether, PaidWindowKept, [Next]_vars
  PROVE  PaidWindowKept'
<1> USE EngineAssumption, HostAssumption
<1> SUFFICES ASSUME NEW m \in Numbers PROVE WindowOK(m)'
  BY DEF PaidWindowKept, WindowOK
<1>a. /\ WindowOK(m) /\ cycle[m] \in CycleRow /\ sub \in SubRow
      /\ sub.next \in Nat /\ today \in Nat /\ cycle[m].scheduled \in Nat
  BY DEF PaidWindowKept, WindowOK, TypeOK, SubRow, CycleRow
<1>0. CASE UNCHANGED vars
  BY <1>0, <1>a DEF vars, WindowOK
<1>1. CASE Tick
  BY <1>1, <1>a, WindowSame DEF Tick
<1>2. ASSUME NEW n \in Numbers, Plan(n)
      PROVE  WindowOK(m)'
  <2>1. PICK method \in BOOLEAN : cycle' = [cycle EXCEPT ![n] = planSubscriptionCycle(sub, method)]
    BY <1>2 DEF Plan
  <2>2. planSubscriptionCycle(sub, method).status # "paid"
    BY DEF planSubscriptionCycle
  <2>3. cycle'[m].status = "paid" => cycle'[m] = cycle[m]
    BY <2>1, <2>2 DEF TypeOK
  <2> QED BY <1>2, <1>a, <2>3, WindowSame DEF Plan
<1>3. ASSUME NEW n \in Numbers, AutomaticCharge(n)
      PROVE  WindowOK(m)'
  BY <1>3, <1>a, WindowSame DEF AutomaticCharge
<1>4. ASSUME NEW n \in Numbers, CustomerCharge(n)
      PROVE  WindowOK(m)'
  BY <1>4, <1>a, WindowSame DEF CustomerCharge
<1>5. ASSUME NEW n \in Numbers, MarkSent(n)
      PROVE  WindowOK(m)'
  BY <1>5, <1>a, WindowSame DEF MarkSent
<1>6. ASSUME NEW n \in Numbers, Expire(n)
      PROVE  WindowOK(m)'
  BY <1>6, <1>a, WindowSame DEF Expire
<1>7. ASSUME NEW n \in Numbers, NEW type \in EventTypes,
             NEW amount \in AmountsOf(type), NEW again \in BOOLEAN,
             Deliver(n, type, amount, again)
      PROVE  WindowOK(m)'
  <2>1. slides' = slides /\ cycle[n] \in CycleRow
    BY <1>7, Delivered DEF TypeOK
  <2>2. \/ /\ cycle' = [cycle EXCEPT ![n] = paidCycle(cycle[n])]
           /\ \E paidAt \in Nat : sub' = paidSubscription(sub, cycle[n], paidAt, today)
        \/ /\ \E final \in BOOLEAN :
                cycle' = [cycle EXCEPT ![n] = refusedCycle(cycle[n], today, final)]
           /\ UNCHANGED sub
        \/ UNCHANGED <<cycle, sub>>
    BY <1>7, Delivered
  <2>3. ASSUME NEW paidAt \in Nat, cycle' = [cycle EXCEPT ![n] = paidCycle(cycle[n])],
               sub' = paidSubscription(sub, cycle[n], paidAt, today)
        PROVE  WindowOK(m)'
    <3>1. sub'.next >= sub.next /\ sub'.next >= cycle[n].scheduled + CadenceDays
      BY <1>a, <2>1, <2>3, PaymentMoves
    <3>2. CASE m # n
      <4>1. cycle'[m] = cycle[m]
        BY <2>3, <3>2 DEF TypeOK
      <4> QED BY <1>a, <2>1, <3>1, <4>1, WindowSame
    <3>3. CASE m = n
      <4>1. cycle'[m].scheduled = cycle[m].scheduled
        BY <1>a, <2>3, <3>3, CyclesStored DEF TypeOK
      <4> QED BY <3>1, <3>3, <4>1 DEF WindowOK
    <3> QED BY <3>2, <3>3
  <2>4. ASSUME NEW final \in BOOLEAN, UNCHANGED sub,
               cycle' = [cycle EXCEPT ![n] = refusedCycle(cycle[n], today, final)]
        PROVE  WindowOK(m)'
    <3>1. JudgedRow(refusedCycle(cycle[n], today, final))
      BY <1>a, <2>1, RefusalJudged, Zenon
    <3>2. cycle'[m].status = "paid" => cycle'[m] = cycle[m]
      BY <2>4, <3>1 DEF TypeOK, JudgedRow
    <3> QED BY <1>a, <2>1, <2>4, <3>2, WindowSame
  <2>5. CASE UNCHANGED <<cycle, sub>>
    BY <1>a, <2>1, <2>5, WindowSame
  <2> QED BY <2>2, <2>3, <2>4, <2>5
<1>8. ASSUME NEW n \in Numbers, resumeSubscriptionFromExpiredDunning(n)
      PROVE  WindowOK(m)'
  <2>1. sub'.next >= sub.next
    BY <1>8, <1>a, CommandsMove DEF resumeSubscriptionFromExpiredDunning
  <2>2. cycle'[m].status = "paid" => cycle'[m] = cycle[m]
    BY <1>8, <1>a DEF resumeSubscriptionFromExpiredDunning, TypeOK, CycleRow
  <2> QED BY <1>8, <1>a, <2>1, <2>2, WindowSame DEF resumeSubscriptionFromExpiredDunning
<1>9. CASE skipNextCycle
  <2>1. sub'.next >= sub.next /\ UNCHANGED <<cycle, slides>>
    BY <1>9, <1>a, CommandsMove DEF skipNextCycle, SubBecomes
  <2> QED BY <1>a, <2>1, WindowSame
<1>10. CASE slideNextCycle
  BY <1>10 DEF slideNextCycle, WindowOK
<1>11. CASE reactivateSubscription
  <2>1. sub'.next >= sub.next /\ UNCHANGED <<cycle, slides>>
    BY <1>11, <1>a, CommandsMove DEF reactivateSubscription, SubBecomes
  <2> QED BY <1>a, <2>1, WindowSame
<1>12. ASSUME NEW status \in SubscriptionStatuses, ChangeStatus(status)
      PROVE  WindowOK(m)'
  <2>1. sub' = moved(sub, status) /\ UNCHANGED <<cycle, slides>>
    BY <1>12 DEF ChangeStatus, SubBecomes
  <2>2. moved(sub, status).next = sub.next
    BY <1>a DEF moved, SubRow
  <2>3. sub'.next >= sub.next
    BY <1>a, <2>1, <2>2
  <2> QED BY <1>a, <2>1, <2>3, WindowSame
<1> QED BY <1>0, <1>1, <1>2, <1>3, <1>4, <1>5, <1>6, <1>7, <1>8, <1>9, <1>10, <1>11, <1>12
  DEF Next

\* The ladder's verdict on one cycle.
JudgedOK(n) ==
  /\ cycle[n].status = "payment_failed" /\ cycle[n].refusals > 0
       => isDunningLadderExhausted(cycle[n]) \/ cycle[n].final
  /\ cycle[n].status = "retry_scheduled" => cycle[n].refusals \in DOMAIN Backoff
  /\ cycle[n].status = "skipped" => cycle[n].refusals > Len(Backoff)

\* Every step leaves a refused cycle on the ladder or past it.
LEMMA JudgedStep ==
  ASSUME TypeOK, StartedTogether, RefusedIsJudged, [Next]_vars
  PROVE  RefusedIsJudged'
<1> USE EngineAssumption, HostAssumption
<1> SUFFICES ASSUME NEW m \in Numbers PROVE JudgedOK(m)'
  BY DEF RefusedIsJudged, JudgedOK
<1>a. JudgedOK(m) /\ cycle[m] \in CycleRow /\ sub \in SubRow /\ today \in Nat
  BY DEF RefusedIsJudged, JudgedOK, TypeOK
<1>0. CASE UNCHANGED vars
  BY <1>0, <1>a DEF vars, JudgedOK
<1>1. CASE Tick
  BY <1>1, <1>a DEF Tick, JudgedOK
<1>2. ASSUME NEW n \in Numbers, Plan(n)
      PROVE  JudgedOK(m)'
  <2>1. PICK method \in BOOLEAN : cycle' = [cycle EXCEPT ![n] = planSubscriptionCycle(sub, method)]
    BY <1>2 DEF Plan
  <2>2. /\ planSubscriptionCycle(sub, method).refusals = 0
        /\ planSubscriptionCycle(sub, method).status \in {"payment_pending", "payment_failed"}
    BY DEF planSubscriptionCycle
  <2> QED BY <1>a, <2>1, <2>2 DEF TypeOK, JudgedOK
<1>3. ASSUME NEW n \in Numbers, AutomaticCharge(n)
      PROVE  JudgedOK(m)'
  BY <1>3, <1>a DEF AutomaticCharge, JudgedOK
<1>4. ASSUME NEW n \in Numbers, CustomerCharge(n)
      PROVE  JudgedOK(m)'
  BY <1>4, <1>a DEF CustomerCharge, JudgedOK
<1>5. ASSUME NEW n \in Numbers, MarkSent(n)
      PROVE  JudgedOK(m)'
  BY <1>5, <1>a DEF MarkSent, JudgedOK
<1>6. ASSUME NEW n \in Numbers, Expire(n)
      PROVE  JudgedOK(m)'
  BY <1>6, <1>a DEF Expire, JudgedOK
<1>7. ASSUME NEW n \in Numbers, NEW type \in EventTypes,
             NEW amount \in AmountsOf(type), NEW again \in BOOLEAN,
             Deliver(n, type, amount, again)
      PROVE  JudgedOK(m)'
  <2>1. cycle[n] \in CycleRow
    BY DEF TypeOK
  <2>2. \/ cycle' = [cycle EXCEPT ![n] = paidCycle(cycle[n])]
        \/ \E final \in BOOLEAN :
              cycle' = [cycle EXCEPT ![n] = refusedCycle(cycle[n], today, final)]
        \/ UNCHANGED cycle
    BY <1>7, Delivered
  <2>3. CASE cycle' = [cycle EXCEPT ![n] = paidCycle(cycle[n])]
    <3>1. paidCycle(cycle[n]).status = "paid"
      BY <1>a, <2>1, CyclesStored
    <3> QED BY <1>a, <2>3, <3>1 DEF TypeOK, JudgedOK
  <2>4. ASSUME NEW final \in BOOLEAN,
               cycle' = [cycle EXCEPT ![n] = refusedCycle(cycle[n], today, final)]
        PROVE  JudgedOK(m)'
    <3>1. JudgedRow(refusedCycle(cycle[n], today, final))
      BY <1>a, <2>1, RefusalJudged, Zenon
    <3> QED BY <1>a, <2>4, <3>1 DEF TypeOK, JudgedOK, JudgedRow
  <2>5. CASE UNCHANGED cycle
    BY <1>a, <2>5 DEF JudgedOK
  <2> QED BY <2>2, <2>3, <2>4, <2>5
<1>8. ASSUME NEW n \in Numbers, resumeSubscriptionFromExpiredDunning(n)
      PROVE  JudgedOK(m)'
  <2>1. /\ cycle[n].refusals > Len(Backoff)
        /\ cycle' = [cycle EXCEPT ![n].status = "skipped", ![n].retryAt = NoDate]
    BY <1>8 DEF resumeSubscriptionFromExpiredDunning, isDunningLadderExhausted
  <2>2. CASE m # n
    BY <1>a, <2>1, <2>2 DEF TypeOK, JudgedOK
  <2>3. CASE m = n
    <3>1. cycle'[m].status = "skipped" /\ cycle'[m].refusals = cycle[m].refusals
      BY <1>a, <2>1, <2>3 DEF TypeOK, CycleRow
    <3> QED BY <2>1, <2>3, <3>1 DEF JudgedOK
  <2> QED BY <2>2, <2>3
<1>9. CASE skipNextCycle
  BY <1>9, <1>a DEF skipNextCycle, SubBecomes, JudgedOK
<1>10. CASE slideNextCycle
  BY <1>10, <1>a DEF slideNextCycle, SubBecomes, JudgedOK
<1>11. CASE reactivateSubscription
  BY <1>11, <1>a DEF reactivateSubscription, SubBecomes, JudgedOK
<1>12. ASSUME NEW status \in SubscriptionStatuses, ChangeStatus(status)
      PROVE  JudgedOK(m)'
  BY <1>12, <1>a DEF ChangeStatus, SubBecomes, JudgedOK
<1> QED BY <1>0, <1>1, <1>2, <1>3, <1>4, <1>5, <1>6, <1>7, <1>8, <1>9, <1>10, <1>11, <1>12
  DEF Next

\* The story of one cycle's money.
StoryOK(n) ==
  /\ "succeeded" \in seen[n] <=> intent[n] \in PaidStatuses
  /\ cycle[n].status = "paid" => intent[n] \in PaidStatuses
  /\ intent[n] \in PaidStatuses => cycle[n].status \in {"paid", "skipped"}
  /\ "refunded" \in seen[n] => intent[n] \in {"refunded", "partially_refunded", "disputed"}
  /\ "disputed" \in seen[n] => intent[n] = "disputed"
  /\ intent[n] \in PaidStatuses => attempt[n] = "succeeded"
  /\ attempt[n] = "none" <=> intent[n] = "none"
StoriesOK == PaidIsSettled /\ StartedTogether /\ MoneyAndCycleAgree

\* The two invariants of the money, read cycle by cycle.
LEMMA Stories == StoriesOK <=> \A n \in Numbers : StoryOK(n)
BY DEF StoriesOK, StoryOK, PaidIsSettled, StartedTogether, MoneyAndCycleAgree

\* A step on another cycle.
LEMMA StorySame ==
  ASSUME NEW m \in Numbers, StoryOK(m), intent'[m] = intent[m], attempt'[m] = attempt[m],
         seen'[m] = seen[m], cycle'[m].status = cycle[m].status
  PROVE  StoryOK(m)'
BY DEF StoryOK

\* Every event, in any order, leaves intent and cycle telling the same story.
LEMMA StoryStep ==
  ASSUME TypeOK, StoriesOK, [Next]_vars
  PROVE  StoriesOK'
<1> USE EngineAssumption, HostAssumption
<1> SUFFICES ASSUME NEW m \in Numbers PROVE StoryOK(m)'
  BY DEF StoriesOK, StoryOK, PaidIsSettled, StartedTogether, MoneyAndCycleAgree
<1>a. StoryOK(m) /\ cycle[m] \in CycleRow /\ sub \in SubRow /\ today \in Nat
  BY Stories DEF TypeOK
<1>b. StartedTogether
  BY DEF StoriesOK
<1>0. CASE UNCHANGED vars
  BY <1>0, <1>a, StorySame DEF vars
<1>1. CASE Tick
  BY <1>1, <1>a, StorySame DEF Tick
<1>2. ASSUME NEW n \in Numbers, Plan(n)
      PROVE  StoryOK(m)'
  <2>1. PICK method \in BOOLEAN : cycle' = [cycle EXCEPT ![n] = planSubscriptionCycle(sub, method)]
    BY <1>2 DEF Plan
  <2>2. planSubscriptionCycle(sub, method).status \in {"payment_pending", "payment_failed"}
    BY DEF planSubscriptionCycle
  <2>3. cycle[n].status = "none" /\ UNCHANGED <<intent, attempt, seen>>
    BY <1>2 DEF Plan, Known
  <2>4. CASE m # n
    BY <1>a, <2>1, <2>3, <2>4, StorySame DEF TypeOK
  <2>5. CASE m = n
    BY <1>a, <2>1, <2>2, <2>3, <2>5 DEF TypeOK, StoryOK
  <2> QED BY <2>4, <2>5
<1>3. ASSUME NEW n \in Numbers, AutomaticCharge(n)
      PROVE  StoryOK(m)'
  <2>1. /\ Admitted(n) /\ cycle[n].status \notin {"paid", "none"} /\ UNCHANGED cycle
        /\ intent' = [intent EXCEPT ![n] = IF @ = "none" THEN "created" ELSE @]
        /\ attempt' = [attempt EXCEPT ![n] = "created"] /\ seen' = [seen EXCEPT ![n] = {}]
    BY <1>3 DEF AutomaticCharge, NewAttempt
  <2>2. CASE m # n
    BY <1>a, <2>1, <2>2, StorySame DEF TypeOK
  <2>3. CASE m = n
    <3>1. intent[m] \notin PaidStatuses
      BY <1>a, <2>1, <2>3 DEF StoryOK, Admitted, Retryable
    <3> QED BY <1>a, <2>1, <2>3, <3>1 DEF TypeOK, StoryOK, PaidStatuses
  <2> QED BY <2>2, <2>3
<1>4. ASSUME NEW n \in Numbers, CustomerCharge(n)
      PROVE  StoryOK(m)'
  <2>1. /\ Admitted(n) /\ cycle[n].status \notin {"paid", "none"} /\ UNCHANGED cycle
        /\ intent' = [intent EXCEPT ![n] = IF @ = "none" THEN "created" ELSE @]
        /\ attempt' = [attempt EXCEPT ![n] = "created"] /\ seen' = [seen EXCEPT ![n] = {}]
    BY <1>4 DEF CustomerCharge, NewAttempt
  <2>2. CASE m # n
    BY <1>a, <2>1, <2>2, StorySame DEF TypeOK
  <2>3. CASE m = n
    <3>1. intent[m] \notin PaidStatuses
      BY <1>a, <2>1, <2>3 DEF StoryOK, Admitted, Retryable
    <3> QED BY <1>a, <2>1, <2>3, <3>1 DEF TypeOK, StoryOK, PaidStatuses
  <2> QED BY <2>2, <2>3
<1>5. ASSUME NEW n \in Numbers, MarkSent(n)
      PROVE  StoryOK(m)'
  <2>1. CASE m # n
    BY <1>5, <1>a, <2>1, StorySame DEF MarkSent, TypeOK
  <2>2. CASE m = n
    <3>1. intent[m] \notin PaidStatuses
      BY <1>5, <1>a, <2>2 DEF MarkSent, StoryOK
    <3> QED BY <1>5, <1>a, <2>2, <3>1 DEF MarkSent, TypeOK, StoryOK, PaidStatuses
  <2> QED BY <2>1, <2>2
<1>6. ASSUME NEW n \in Numbers, Expire(n)
      PROVE  StoryOK(m)'
  <2>1. CASE m # n
    BY <1>6, <1>a, <2>1, StorySame DEF Expire, TypeOK
  <2>2. CASE m = n
    <3>1. intent[m] \notin PaidStatuses
      BY <1>6, <1>a, <2>2 DEF Expire, StoryOK
    <3> QED BY <1>6, <1>a, <2>2, <3>1 DEF Expire, TypeOK, StoryOK, PaidStatuses
  <2> QED BY <2>1, <2>2
<1>7. ASSUME NEW n \in Numbers, NEW type \in EventTypes,
             NEW amount \in AmountsOf(type), NEW again \in BOOLEAN,
             Deliver(n, type, amount, again)
      PROVE  StoryOK(m)'
  <2> DEFINE d == DecisionOn(n, type, amount, again)
  <2>1. /\ intent' = [intent EXCEPT ![n] = d.intent]
        /\ attempt' = [attempt EXCEPT ![n] = d.attempt]
        /\ seen' = [seen EXCEPT ![n] = seen[n] \cup {type}]
    BY <1>7, <1>b, Delivered
  <2>2. cycle[n] \in CycleRow /\ today \in Nat
    BY <1>a DEF TypeOK
  <2>3. CASE m # n
    <3>1. cycle'[m] = cycle[m]
      BY <1>7, <1>b, <2>3, Delivered DEF TypeOK
    <3> QED BY <1>a, <2>1, <2>3, <3>1, StorySame DEF TypeOK
  <2>4. CASE m = n
    <3>1. /\ intent'[m] = d.intent /\ attempt'[m] = d.attempt
          /\ seen'[m] = seen[m] \cup {type}
      BY <2>1, <2>4 DEF TypeOK
    <3>2. /\ intent[m] \in IntentStatuses /\ attempt[m] \in AttemptStatuses
          /\ Decides(d, intent[m], attempt[m], type, again)
      BY <1>7, <1>b, <2>4, Delivered
    <3>3. /\ PaysCycle(m, d) => cycle'[m].status = "paid"
          /\ FailsCycle(m, d) => cycle'[m].status \in {"payment_failed", "retry_scheduled"}
          /\ ~PaysCycle(m, d) /\ ~FailsCycle(m, d) => cycle'[m] = cycle[m]
      <4>1. paidCycle(cycle[n]).status = "paid"
        BY <1>a, <2>2, CyclesStored
      <4>2. \A final \in BOOLEAN : JudgedRow(refusedCycle(cycle[n], today, final))
        BY <2>2, RefusalJudged, Zenon
      <4>3. ~(PaysCycle(m, d) /\ FailsCycle(m, d))
        BY DEF PaysCycle, FailsCycle
      <4>4. \/ PaysCycle(n, d) /\ cycle' = [cycle EXCEPT ![n] = paidCycle(cycle[n])]
            \/ /\ FailsCycle(n, d)
               /\ \E final \in BOOLEAN :
                    cycle' = [cycle EXCEPT ![n] = refusedCycle(cycle[n], today, final)]
            \/ ~PaysCycle(n, d) /\ ~FailsCycle(n, d) /\ UNCHANGED cycle
        BY <1>7, <1>b, Delivered
      <4> HIDE DEF d
      <4> QED BY <2>4, <4>1, <4>2, <4>3, <4>4 DEF TypeOK, JudgedRow
    <3> HIDE DEF d
    <3>4. CASE again
      <4>1. /\ d.intent = intent[m] /\ d.attempt = attempt[m] /\ d.kind = "noop"
        BY <3>2, <3>4 DEF Decides, Noop, Decision
      <4>2. cycle'[m] = cycle[m]
        BY <3>3, <4>1 DEF PaysCycle, FailsCycle
      <4>3. type \in seen[m]
        BY <1>7, <1>b, <2>4, <3>4, Delivered
      <4>4. seen'[m] = seen[m]
        BY <3>1, <4>3
      <4> QED BY <1>a, <3>1, <4>1, <4>2, <4>4, StorySame
    <3>5. CASE ~again /\ type = "succeeded"
      <4>1. /\ d.intent = "succeeded" /\ d.attempt = "succeeded"
            /\ intent[m] \notin {"refunded", "partially_refunded", "disputed"}
            /\ d.kind = "noop" => intent[m] = "succeeded"
        BY <3>2, <3>5 DEF Decides
      <4>2. intent[m] \in {"succeeded"} => cycle[m].status \in {"paid", "skipped"}
        BY <1>a DEF StoryOK, PaidStatuses
      <4>3. cycle'[m].status \in {"paid", "skipped"}
        BY <3>3, <4>1, <4>2 DEF PaysCycle, FailsCycle, isTerminalCycle, PaidStatuses
      <4> QED BY <1>a, <3>1, <3>5, <4>1, <4>2, <4>3 DEF StoryOK, PaidStatuses
    <3>6. CASE ~again /\ type = "failed"
      <4>1. CASE intent[m] \in PaidStatuses
        <5>1. /\ d.intent = intent[m] /\ d.attempt = attempt[m] /\ d.kind = "noop"
          BY <3>2, <3>6, <4>1 DEF Decides, Noop, Decision
        <5>2. cycle'[m] = cycle[m]
          BY <3>3, <5>1 DEF PaysCycle, FailsCycle
        <5> QED BY <1>a, <3>1, <3>6, <5>1, <5>2 DEF StoryOK
      <4>2. CASE intent[m] \notin PaidStatuses
        <5>1. /\ d.intent = "failed" /\ d.attempt = "failed" /\ d.kind = "state_changed"
          BY <3>2, <3>6, <4>2 DEF Decides, Decision
        <5>2. cycle'[m].status # "paid"
          BY <1>a, <3>3, <4>2, <5>1 DEF StoryOK, PaysCycle, FailsCycle
        <5> QED BY <1>a, <3>1, <3>6, <4>2, <5>1, <5>2 DEF StoryOK, PaidStatuses
      <4> QED BY <4>1, <4>2
    <3>7. CASE ~again /\ type = "requires_action"
      <4>1. /\ intent[m] \notin PaidStatuses /\ d.intent = "requires_action"
            /\ d.attempt = "requires_action"
        BY <3>2, <3>7 DEF Decides
      <4>2. cycle'[m] = cycle[m]
        BY <3>3, <4>1 DEF PaysCycle, FailsCycle
      <4> QED BY <1>a, <3>1, <3>7, <4>1, <4>2 DEF StoryOK, PaidStatuses
    <3>8. CASE ~again /\ type \in {"refunded", "disputed"}
      <4>1. /\ intent[m] \in PaidStatuses /\ d.attempt = attempt[m]
            /\ type = "refunded" => intent[m] # "disputed"
            /\ d.intent \in (IF type = "disputed" THEN {"disputed"}
                            ELSE {"refunded", "partially_refunded"})
        BY <3>2, <3>8 DEF Decides, PaidStatuses
      <4>2. cycle'[m] = cycle[m]
        BY <3>3, <4>1 DEF PaysCycle, FailsCycle
      <4> QED BY <1>a, <3>1, <3>8, <4>1, <4>2 DEF StoryOK, PaidStatuses, AttemptStatuses
    <3> QED BY <3>4, <3>5, <3>6, <3>7, <3>8 DEF EventTypes
  <2> QED BY <2>3, <2>4
<1>8. ASSUME NEW n \in Numbers, resumeSubscriptionFromExpiredDunning(n)
      PROVE  StoryOK(m)'
  <2>1. /\ cycle[n].status = "payment_failed"
        /\ cycle' = [cycle EXCEPT ![n].status = "skipped", ![n].retryAt = NoDate]
        /\ UNCHANGED <<intent, attempt, seen>>
    BY <1>8 DEF resumeSubscriptionFromExpiredDunning, isDunningLadderExhausted
  <2>2. CASE m # n
    BY <1>a, <2>1, <2>2, StorySame DEF TypeOK
  <2>3. CASE m = n
    <3>1. cycle'[m].status = "skipped"
      BY <1>a, <2>1, <2>3 DEF TypeOK, CycleRow
    <3> QED BY <1>a, <2>1, <2>3, <3>1 DEF StoryOK
  <2> QED BY <2>2, <2>3
<1>9. CASE skipNextCycle
  BY <1>9, <1>a, StorySame DEF skipNextCycle, SubBecomes
<1>10. CASE slideNextCycle
  BY <1>10, <1>a, StorySame DEF slideNextCycle, SubBecomes
<1>11. CASE reactivateSubscription
  BY <1>11, <1>a, StorySame DEF reactivateSubscription, SubBecomes
<1>12. ASSUME NEW status \in SubscriptionStatuses, ChangeStatus(status)
      PROVE  StoryOK(m)'
  BY <1>12, <1>a, StorySame DEF ChangeStatus, SubBecomes
<1> QED BY <1>0, <1>1, <1>2, <1>3, <1>4, <1>5, <1>6, <1>7, <1>8, <1>9, <1>10, <1>11, <1>12
  DEF Next

-----------------------------------------------------------------------------
(* The theorems. *)

\* No cycle, no money, nothing to judge.
LEMMA HostInit == Init => HostInv
<1> SUFFICES ASSUME Init PROVE HostInv
  OBVIOUS
<1> USE EngineAssumption, HostAssumption DEF Init
<1>1. NoCycle \in CycleRow /\ NoCycle.retryAt = NoDate /\ NoCycle.status = "none"
  BY DEF NoCycle, CycleRow, NoDate
<1>2. TypeOK
  <2>a. "active" \in SubscriptionStatuses /\ 0 \in Nat /\ 0 \in 0..MaxDay
    BY HostAssumption DEF SubscriptionStatuses
  <2>b. [status |-> "active", next |-> 0] \in SubRow
    BY <2>a, Zenon DEF SubRow
  <2>1. today \in 0..MaxDay /\ sub \in SubRow /\ slides \in BOOLEAN
    BY <2>a, <2>b, Zenon
  <2>2. cycle \in [Numbers -> CycleRow]
    BY <1>1
  <2>3. /\ intent \in [Numbers -> IntentStatuses \cup {"none"}]
        /\ attempt \in [Numbers -> AttemptStatuses \cup {"none"}]
        /\ seen \in [Numbers -> SUBSET EventTypes]
    OBVIOUS
  <2>4. \A n \in Numbers : cycle[n] = NoCycle
    OBVIOUS
  <2> QED BY <2>1, <2>2, <2>3, <2>4, <1>1 DEF TypeOK
<1>3. PaidIsSettled /\ StartedTogether /\ PaidWindowKept /\ MoneyAndCycleAgree
  BY <1>1 DEF PaidIsSettled, StartedTogether, PaidWindowKept, MoneyAndCycleAgree,
     PaidStatuses
<1>4. RefusedIsJudged
  BY <1>1 DEF RefusedIsJudged
<1> QED BY <1>2, <1>3, <1>4 DEF HostInv

\* The invariant is inductive.
LEMMA HostStep == HostInv /\ [Next]_vars => HostInv'
BY TypeStep, WindowStep, JudgedStep, StoryStep DEF HostInv, StoriesOK

\* The invariant holds in every reachable state.
THEOREM HostInvariant == Spec => []HostInv
BY HostInit, HostStep, PTL DEF Spec

\* The rows keep the shape the kernels assume.
THEOREM TypeCorrect == Spec => []TypeOK
<1>1. HostInv => TypeOK
  BY DEF HostInv
<1> QED BY HostInvariant, <1>1, PTL

\* A paid window is never charged again, for every cadence and every order of
\* settlements, skips, pauses, win-backs and resumes.
THEOREM PaidWindowKeptCorrect == Spec => []PaidWindowKept
<1>1. HostInv => PaidWindowKept
  BY DEF HostInv
<1> QED BY HostInvariant, <1>1, PTL

\* Whatever order the provider's events come in, intent and cycle agree.
THEOREM MoneyAndCycleAgreeCorrect == Spec => []MoneyAndCycleAgree
<1>1. HostInv => MoneyAndCycleAgree
  BY DEF HostInv
<1> QED BY HostInvariant, <1>1, PTL

\* A refused cycle is on a rung, past the ladder, or refused for good.
THEOREM RefusedIsJudgedCorrect == Spec => []RefusedIsJudged
<1>1. HostInv => RefusedIsJudged
  BY DEF HostInv
<1> QED BY HostInvariant, <1>1, PTL
=============================================================================
