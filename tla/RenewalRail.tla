---------------------------- MODULE RenewalRail ----------------------------
(***************************************************************************)
(* The unattended renewal of subscriptions: the renewal batch              *)
(* (src/packages/platform/src/subscriptions/automaticRenewal.ts) and the   *)
(* retry driver (nativeRetryDriver.ts) over the SQL functions that own the *)
(* tables, the payment provider they ask, the payment truth the host feeds *)
(* in, and the customer's commands.                                        *)
(*                                                                         *)
(* A cycle <<s, i>> is the obligation of subscription s scheduled at       *)
(* instant i: its operation, stock reservation, settlement intent (with    *)
(* the order and the cycle row, which change in the same transactions),    *)
(* dunning case and retry obligation are the functions below.  Every SQL   *)
(* function is one atomic step.  A batch reads the clock once and passes   *)
(* that instant to every call it makes, however late the call runs: a        *)
(* worker takes a row with any instant up to now, the one its batch began  *)
(* at.  What other orders leave of the stock is free: a reservation finds  *)
(* enough of it or not.                                                    *)
(***************************************************************************)
EXTENDS Integers

CONSTANTS
  Subs,          \* the subscriptions
  Workers,       \* processes that run renewal batches and the retry driver
  Lease,         \* the claim's lease
  HoldTime,      \* the reservation's hold
  Cadence,       \* time between two cycles
  Day,           \* the unit in which a late payment moves the schedule
  Soon,          \* how far ahead an order placed now is scheduled
  SlideAhead,    \* how far ahead the customer may slide the next date
  PauseTime,     \* the length of a pause that ends by itself
  RetryDelay,    \* waiting time after the first, second and third refusal
  NoDue,         \* marks an obligation without a next retry
  MaxTime,       \* bound: the last instant of the clock
  MaxToken,      \* bound: claims of one operation
  MaxSeq         \* bound: retries of one obligation

ASSUME TimesAssumption ==
  /\ Lease \in Nat \ {0} /\ HoldTime \in Nat \ {0}
  /\ Cadence \in Nat \ {0} /\ Day \in Nat \ {0} /\ Soon \in Nat \ {0} /\ PauseTime \in Nat
  /\ RetryDelay \in [0..2 -> Nat \ {0}]
  /\ MaxTime \in Nat /\ MaxToken \in Nat \ {0} /\ MaxSeq \in Nat
  /\ NoDue \notin Int
ASSUME SlideAssumption == SlideAhead \subseteq Nat \ {0}

VARIABLES
  clock,
  sub,       \* subscriptions: status and next_cycle_at
  wakes,     \* the end of its pause windows that nobody resumed
  op,        \* subscription_renewal_operations
  hold,      \* fulfillment_inventory_reservations
  money,     \* the settlement intent, with its order and cycle
  dun,       \* the dunning case of the cycle and who opened it
  ob,        \* subscription_retry_obligations and its authorization
  ask,       \* what the provider holds for each attempt of a cycle
  worker,    \* where each process is
  adrift     \* history: cycles prepared after their lease or hold ran out, or
             \* passed over by an automatic resume
vars == <<clock, sub, op, hold, money, dun, ob, ask, worker, adrift, wakes>>

Cycles == Subs \X (0..MaxTime)
Attempts == 0..MaxSeq
OfSub(s) == {c \in Cycles : c[1] = s}

Phases == {"idle", "claimed", "resume", "reserved", "prepared", "ack",
           "ackRefusal", "read", "handoff", "refuse", "success", "retryAsk"}
Refused == {"declined", "action"}      \* provider answers reported as a refusal
Paying == {"captured", "approved"}     \* provider states in which money moved

NoOp == [state |-> "none", token |-> 0, lease |-> 0, why |-> "none", ack |-> FALSE]
NoHold == [is |-> "none", until |-> 0, secured |-> FALSE]
NoCase == [is |-> "none", by |-> "none"]
NoOb == [state |-> "none", tries |-> 0, seq |-> 0, due |-> NoDue, hard |-> FALSE,
         grant |-> "none"]
NoRow == <<>>
IdleWorker == [phase |-> "idle", at |-> 0, cycle |-> NoRow, token |-> 0]

Init ==
  /\ clock = 0
  /\ sub = [s \in Subs |-> [status |-> "active", next |-> 0]]
  /\ op = [c \in Cycles |-> NoOp]
  /\ hold = [c \in Cycles |-> NoHold]
  /\ money = [c \in Cycles |-> "none"]
  /\ dun = [c \in Cycles |-> NoCase]
  /\ ob = [c \in Cycles |-> NoOb]
  /\ ask = [c \in Cycles |-> [k \in Attempts |-> "none"]]
  /\ worker = [w \in Workers |-> IdleWorker]
  /\ adrift = {}
  /\ wakes = [s \in Subs |-> NoDue]

-----------------------------------------------------------------------------
(* Shared readings of the tables. *)

\* Fault: a worker that has not asked for money yet does not count.
FaultyLeaseIgnored(c) == op[c].state = "prepared"

\* A pre-payment lease that is still running, or a payment attempt in the air.
Busy(c) ==
  \/ op[c].state = "prepared"
  \/ op[c].state \in {"claimed", "reserved"} /\ op[c].lease > clock
Unfenced(s) == \A c \in OfSub(s) : ~Busy(c)
NoOpenCase(s) == \A c \in OfSub(s) : dun[c].is # "open"
\* subscription_lifecycle_assert_unlocked_cycle
Unlocked(s) == sub[s].next <= MaxTime => money[<<s, sub[s].next>>] = "none"

\* The worker's claim as the functions check it: its token, and a lease alive
\* at the instant its batch began.
ClaimHolds(w) ==
  LET c == worker[w].cycle
  IN op[c].token = worker[w].token /\ op[c].lease > worker[w].at

Larger(a, b) == IF a >= b THEN a ELSE b
\* Fault: the days of delay replace the cadence.
FaultyShiftOnly(c, t) == c[2] + ((t - c[2]) \div Day) * Day

\* One cadence past the cycle, plus the whole days the payment was late.
AfterPayment(c, t) == c[2] + ((t - c[2]) \div Day) * Day + Cadence
\* The subscription after a payment for c that occurred at t.
Advanced(c, t) ==
  [sub EXCEPT ![c[1]].next =
     IF sub[c[1]].status = "active" THEN Larger(@, AfterPayment(c, t)) ELSE @]
\* commerce_record_settlement, outcome 'succeeded'.
SettlePaid(c) ==
  /\ money[c] \in {"open", "failed"}
  /\ money' = [money EXCEPT ![c] = "settled"]
  /\ \E t \in c[2]..clock : sub' = Advanced(c, t)
CaseRecovered(c) == [dun EXCEPT ![c].is = IF @ = "open" THEN "recovered" ELSE @]

\* The process goes on with its row, or is done with it.
Become(w, phase) == worker' = [worker EXCEPT ![w].phase = phase]
RowDone(w) == worker' = [worker EXCEPT ![w] = IdleWorker]

-----------------------------------------------------------------------------
(* The renewal batch. *)

Tick ==
  /\ clock < MaxTime
  /\ clock' = clock + 1
  /\ UNCHANGED <<sub, op, hold, money, dun, ob, ask, worker, adrift, wakes>>

Lapsed(c, t) == op[c].state = "reserved" /\ hold[c].is = "held" /\ hold[c].until <= t
RefusedOps(set, why) ==
  [c \in Cycles |-> IF c \in set THEN [op[c] EXCEPT !.state = "refused", !.why = why]
                    ELSE op[c]]
HoldsBecome(set, is) ==
  [c \in Cycles |-> IF c \in set THEN [hold[c] EXCEPT !.is = is, !.until = 0] ELSE hold[c]]

\* A batch begins by expiring the holds that ran out; rows that another
\* transaction has locked are skipped.
ExpireHolds ==
  /\ \E gone \in SUBSET {c \in Cycles : Lapsed(c, clock)} :
       /\ gone # {}
       /\ op' = RefusedOps(gone, "stock")
       /\ hold' = HoldsBecome(gone, "expired")
  /\ UNCHANGED <<clock, sub, money, dun, ob, ask, worker, adrift, wakes>>

\* The row ends without a further effect: refused by a fence, deferred, busy,
\* still with the provider, an error that runRenewalBatchRows records, or the
\* death of the process.
RowEnds(w) ==
  /\ worker[w].phase # "idle"
  /\ RowDone(w)
  /\ UNCHANGED <<clock, sub, op, hold, money, dun, ob, ask, adrift, wakes>>

Due(s, t) == sub[s].status = "active" /\ sub[s].next <= t
Listed(c, t) == op[c].state \notin {"succeeded", "refused"} /\ op[c].lease <= t

\* subscription_claim_due_renewal: a new operation, or the takeover of one
\* whose lease ran out.  A prepared one is resumed, never asked again.
Claim(w, s, t) ==
  LET c == <<s, sub[s].next>>
  IN /\ worker[w].phase = "idle"
     /\ Due(s, t) /\ (op[c].state = "none" \/ Listed(c, t))
     /\ op[c].token < MaxToken
     /\ op' = [op EXCEPT ![c].state = IF @ = "none" THEN "claimed" ELSE @,
                         ![c].token = @ + 1, ![c].lease = t + Lease]
     /\ worker' = [worker EXCEPT ![w] =
          [phase |-> IF op[c].state = "prepared" THEN "resume" ELSE "claimed",
           at |-> t, cycle |-> c, token |-> op[c].token + 1]]
     /\ UNCHANGED <<clock, sub, hold, money, dun, ob, ask, adrift, wakes>>

\* subscription_refuse_renewal_preflight: no rail, no mandate, no delivery.
RefusePreflight(w) ==
  LET c == worker[w].cycle
  IN /\ worker[w].phase = "claimed" /\ ClaimHolds(w)
     /\ op[c].state \in {"claimed", "reserved"}
     /\ op' = RefusedOps({c}, "other")
     /\ hold' = IF hold[c].is = "held" THEN HoldsBecome({c}, "released") ELSE hold
     /\ RowDone(w)
     /\ UNCHANGED <<clock, sub, money, dun, ob, ask, adrift, wakes>>

\* fulfillment_reserve_subscription_renewal: a fresh hold, a shortage, a hold
\* found run out, or the answer of the first call again.
ReserveFresh(w) ==
  LET c == worker[w].cycle
      t == worker[w].at
  IN /\ hold[c].is = "none" /\ op[c].state = "claimed"
     /\ \/ /\ hold' = [hold EXCEPT ![c].is = "held", ![c].until = t + HoldTime]
           /\ op' = [op EXCEPT ![c].state = "reserved"]
           /\ Become(w, "reserved")
        \/ /\ op' = RefusedOps({c}, "stock")
           /\ RowDone(w) /\ UNCHANGED hold
ReserveLapsed(w) ==
  LET c == worker[w].cycle
  IN /\ Lapsed(c, worker[w].at)
     /\ op' = RefusedOps({c}, "stock")
     /\ hold' = HoldsBecome({c}, "expired")
     /\ RowDone(w)
ReserveReplay(w) ==
  LET c == worker[w].cycle
  IN /\ hold[c].is \in {"held", "committed", "consumed"} /\ ~Lapsed(c, worker[w].at)
     /\ Become(w, "reserved")
     /\ UNCHANGED <<op, hold>>
Reserve(w) ==
  /\ worker[w].phase = "claimed" /\ ClaimHolds(w)
  /\ ReserveFresh(w) \/ ReserveLapsed(w) \/ ReserveReplay(w)
  /\ UNCHANGED <<clock, sub, money, dun, ob, ask, adrift, wakes>>

\* commerce_prepare_subscription_renewal: cycle, order and intent appear, the
\* hold is committed, and from here the provider may be asked once.  (The same
\* answer to a repeated call is left out: no caller repeats it.)
Prepare(w) ==
  LET c == worker[w].cycle
  IN /\ worker[w].phase = "reserved" /\ ClaimHolds(w)
     /\ money[c] = "none" /\ op[c].state = "reserved"
     /\ hold[c].is = "held" /\ hold[c].until > worker[w].at
     /\ money' = [money EXCEPT ![c] = "open"]
     /\ hold' = HoldsBecome({c}, "committed")
     /\ op' = [op EXCEPT ![c].state = "prepared"]
     /\ adrift' = IF op[c].lease <= clock \/ hold[c].until <= clock
                  THEN adrift \cup {c} ELSE adrift
     /\ Become(w, "prepared")
     /\ UNCHANGED <<clock, sub, dun, ob, ask, wakes>>

\* An obligation that waits for its next retry, or for the customer.
Waiting(c, tries, hard, due) ==
  [state |-> "waiting", tries |-> tries, seq |-> ob[c].seq, due |-> due,
   hard |-> hard, grant |-> "none"]

\* The original attempt is refused: commerce_record_subscription_renewal_outcome.
OutcomeRefused(c) ==
  /\ op[c].state = "prepared" /\ money[c] \in {"open", "failed"}
  /\ op' = RefusedOps({c}, "other")
  /\ money' = [money EXCEPT ![c] = "failed"]
  /\ hold' = IF hold[c].is = "committed" THEN HoldsBecome({c}, "released") ELSE hold

\* The input does not validate: refused without having asked, and without a
\* dunning case or a retry.
RefuseInput(w) ==
  /\ worker[w].phase = "prepared"
  /\ OutcomeRefused(worker[w].cycle)
  /\ RowDone(w)
  /\ UNCHANGED <<clock, sub, dun, ob, ask, adrift, wakes>>

\* Fault: a process that finds an attempt prepared asks for it as well.
FaultyAskOnResume(w) ==
  LET c == worker[w].cycle
  IN /\ worker[w].phase \in {"prepared", "resume"}
     /\ ask' = [ask EXCEPT ![c][0] = "sent"]
     /\ Become(w, "ack")
     /\ UNCHANGED <<clock, sub, op, hold, money, dun, ob, adrift, wakes>>

\* rail.execute: the provider has the attempt and answers with its handle, or
\* refuses at once, with or without a handle.
Execute(w) ==
  LET c == worker[w].cycle
  IN /\ worker[w].phase = "prepared"
     /\ \E answer \in {"sent"} \cup Refused, phase \in {"ack", "ackRefusal", "handoff"} :
          /\ (answer = "sent") <=> (phase = "ack")
          /\ ask' = [ask EXCEPT ![c][0] = answer]
          /\ Become(w, phase)
     /\ UNCHANGED <<clock, sub, op, hold, money, dun, ob, adrift, wakes>>

\* commerce_acknowledge_subscription_renewal_attempt, after the answer or after
\* findExternalAttempt found the attempt of an earlier process.
Acknowledge(w) ==
  LET c == worker[w].cycle
  IN /\ \/ worker[w].phase \in {"ack", "ackRefusal"}
        \/ worker[w].phase = "resume" /\ ask[c][0] # "none"
     /\ op[c].state = "prepared"
     /\ op' = [op EXCEPT ![c].ack = TRUE]
     /\ Become(w, IF worker[w].phase = "ackRefusal" THEN "handoff" ELSE "read")
     /\ UNCHANGED <<clock, sub, hold, money, dun, ob, ask, adrift, wakes>>

\* Fault: an attempt the provider has not decided reads as a refusal.
FaultyUnknownRefuses(w) ==
  /\ worker[w].phase = "read"
  /\ Become(w, IF ask[worker[w].cycle][0] \in Paying THEN "success" ELSE "handoff")
  /\ UNCHANGED <<clock, sub, op, hold, money, dun, ob, ask, adrift, wakes>>

\* readOutcome: a decline or a capture is acted on, everything else waits.
ReadOutcome(w) ==
  LET answer == ask[worker[w].cycle][0]
  IN /\ worker[w].phase = "read"
     /\ answer \in {"declined"} \cup Paying
     /\ Become(w, IF answer = "declined" THEN "handoff" ELSE "success")
     /\ UNCHANGED <<clock, sub, op, hold, money, dun, ob, ask, adrift, wakes>>

\* handoffFailure opens the case of the cycle, or finds its own again.
Handoff(w) ==
  LET c == worker[w].cycle
  IN /\ worker[w].phase = "handoff"
     /\ \/ dun[c].is = "none" /\ dun' = [dun EXCEPT ![c] = [is |-> "open", by |-> "handoff"]]
        \/ dun[c].by = "handoff" /\ UNCHANGED dun
     /\ Become(w, "refuse")
     /\ UNCHANGED <<clock, sub, op, hold, money, ob, ask, adrift, wakes>>

\* The terminal refusal and the retry obligation commit together; a hard
\* refusal gets no due instant.  The delay counts from the instant of the
\* provider's evidence, or of the batch.
RecordRefused(w) ==
  LET c == worker[w].cycle
  IN /\ worker[w].phase = "refuse" /\ ob[c].state = "none"
     /\ OutcomeRefused(c)
     /\ \E hard \in BOOLEAN, t \in c[2]..clock :
          ob' = [ob EXCEPT ![c] = Waiting(c, 1, hard, IF hard THEN NoDue ELSE t + RetryDelay[0])]
     /\ RowDone(w)
     /\ UNCHANGED <<clock, sub, dun, ask, adrift, wakes>>

\* The terminal success: money, schedule and stock in one transaction.
RecordSucceeded(w) ==
  LET c == worker[w].cycle
  IN /\ worker[w].phase = "success"
     /\ op[c].state = "prepared" /\ op[c].ack
     /\ SettlePaid(c)
     /\ op' = [op EXCEPT ![c].state = "succeeded"]
     /\ hold' = IF hold[c].is = "committed" THEN HoldsBecome({c}, "consumed") ELSE hold
     /\ RowDone(w)
     /\ UNCHANGED <<clock, dun, ob, ask, adrift, wakes>>

-----------------------------------------------------------------------------
(* The retry driver and the obligation's own functions. *)

\* subscription_retry_prepare: one more attempt of the same obligation.
RetryPrepare(w, c, t) ==
  /\ worker[w].phase = "idle"
  /\ ob[c].state = "waiting" /\ ob[c].due # NoDue /\ ob[c].due <= t
  /\ sub[c[1]].status = "active" /\ money[c] = "failed"
  /\ ob[c].tries >= 4 \/ ob[c].hard => ob[c].grant = "open"
  /\ ob[c].seq < MaxSeq
  /\ hold' = HoldsBecome({c}, "committed")
  /\ ob' = [ob EXCEPT ![c].state = "prepared", ![c].seq = @ + 1, ![c].due = NoDue,
                      ![c].grant = IF @ = "open" THEN "used" ELSE @]
  /\ worker' = [worker EXCEPT ![w] =
       [phase |-> "retryAsk", at |-> t, cycle |-> c, token |-> ob[c].seq + 1]]
  /\ UNCHANGED <<clock, sub, op, money, dun, ask, adrift, wakes>>

\* payments.execute for the attempt this process has just prepared.
RetryExecute(w) ==
  LET c == worker[w].cycle
  IN /\ worker[w].phase = "retryAsk"
     /\ \E answer \in {"sent"} \cup Refused : ask' = [ask EXCEPT ![c][worker[w].token] = answer]
     /\ RowDone(w)
     /\ UNCHANGED <<clock, sub, op, hold, money, dun, ob, adrift, wakes>>

\* The ladder of subscription_retry_apply_failure, for a decline at t.
NextDue(c, hard, t) ==
  IF hard \/ ob[c].tries > 2 THEN NoDue ELSE t + RetryDelay[ob[c].tries]

Rung(c) ==
  \E hard \in BOOLEAN, t \in c[2]..clock :
    ob' = [ob EXCEPT ![c] = Waiting(c, ob[c].tries + 1, hard, NextDue(c, hard, t))]

\* Fault: a decline is written over a payment that arrived another way.
FaultyLateDecline(c) ==
  /\ ob[c].state = "prepared" /\ ask[c][ob[c].seq] = "declined"
  /\ money' = [money EXCEPT ![c] = "failed"]
  /\ hold' = IF hold[c].is = "committed" THEN HoldsBecome({c}, "released") ELSE hold
  /\ Rung(c)
  /\ UNCHANGED <<clock, sub, op, dun, ask, worker, adrift, wakes>>

\* Fault: an attempt without an answer yet is given up.
FaultyGivesUp(c) ==
  /\ ob[c].state = "prepared" /\ ask[c][ob[c].seq] \in {"sent", "declined"}
  /\ money[c] \in {"open", "failed"}
  /\ money' = [money EXCEPT ![c] = "failed"]
  /\ hold' = IF hold[c].is = "committed" THEN HoldsBecome({c}, "released") ELSE hold
  /\ Rung(c)
  /\ UNCHANGED <<clock, sub, op, dun, ask, worker, adrift, wakes>>

\* A driver run reads a decline of the prepared attempt: the stock is released
\* and the next rung of the ladder is set.
RetryFailed(c) ==
  /\ ob[c].state = "prepared" /\ ask[c][ob[c].seq] = "declined"
  /\ money[c] \in {"open", "failed"}
  /\ money' = [money EXCEPT ![c] = "failed"]
  /\ hold' = IF hold[c].is = "committed" THEN HoldsBecome({c}, "released") ELSE hold
  /\ Rung(c)
  /\ UNCHANGED <<clock, sub, op, dun, ask, worker, adrift, wakes>>

\* subscription_retry_record_recovery, for the prepared attempt's own evidence
\* or, while the obligation waits, for that of an earlier attempt, whose
\* released stock is taken back unchecked.
Recovery(c, taken) ==
  /\ SettlePaid(c)
  /\ hold' = HoldsBecome({d \in {c} : hold[d].is \in {"committed", "released"}}, taken)
  /\ dun' = CaseRecovered(c)
  /\ ob' = [ob EXCEPT ![c].state = "recovered", ![c].due = NoDue]
  /\ UNCHANGED <<clock, op, ask, worker, adrift, wakes>>
RetryRecovered(c) ==
  /\ ob[c].state = "prepared" /\ ask[c][ob[c].seq] \in Paying
  /\ Recovery(c, "consumed")
LatePositive(c) ==
  /\ ob[c].state = "waiting" /\ \E k \in Attempts : ask[c][k] \in Paying
  /\ Recovery(c, "committed")

\* The customer repairs the payment method: subscription_retry_authorize_recovery
\* and subscription_retry_schedule_recovery.
Authorize(c) ==
  /\ ob[c].state = "waiting" /\ ob[c].grant = "none" /\ dun[c].is = "open"
  /\ ob' = [ob EXCEPT ![c].grant = "open"]
  /\ UNCHANGED <<clock, sub, op, hold, money, dun, ask, worker, adrift, wakes>>
ScheduleRecovery(c) ==
  /\ ob[c].state = "waiting" /\ ob[c].grant = "open"
  /\ ob' = [ob EXCEPT ![c].due = clock]
  /\ UNCHANGED <<clock, sub, op, hold, money, dun, ask, worker, adrift, wakes>>

\* subscription_stock_wait_recover_refusal with the stock back: an operation
\* that only ever failed for stock is reserved again under a new claim, whose
\* token its caller gets and goes on with.  (A call repeated under the live
\* lease changes nothing and is left out.)
StockReturns(w, c, t) ==
  /\ worker[w].phase = "idle"
  /\ \/ op[c].state = "refused" /\ op[c].why = "stock"
     \/ op[c].state = "reserved" /\ hold[c].secured
  /\ op[c].lease <= t /\ money[c] = "none" /\ op[c].token < MaxToken
  /\ sub[c[1]].status = "active" /\ sub[c[1]].next = c[2]
  /\ hold[c].is \in {"none", "expired", "released"} \/ (hold[c].is = "held" /\ hold[c].secured)
  /\ op' = [op EXCEPT ![c].state = "reserved", ![c].why = "none",
                      ![c].token = @ + 1, ![c].lease = t + Lease]
  /\ hold' = [hold EXCEPT ![c] = [is |-> "held", until |-> t + HoldTime, secured |-> TRUE]]
  /\ worker' = [worker EXCEPT ![w] =
       [phase |-> "reserved", at |-> t, cycle |-> c, token |-> op[c].token + 1]]
  /\ UNCHANGED <<clock, sub, money, dun, ob, ask, adrift, wakes>>

-----------------------------------------------------------------------------
(* The provider, the payment truth the host ingests, and the customer. *)

\* The provider decides an attempt it holds; one left to the customer for a
\* further action may still be approved.
ProviderDecides(c, k) ==
  /\ \/ ask[c][k] = "sent" /\ \E d \in {"captured"} \cup Refused : ask' = [ask EXCEPT ![c][k] = d]
     \/ ask[c][k] = "action" /\ \E d \in {"approved", "declined"} : ask' = [ask EXCEPT ![c][k] = d]
  /\ UNCHANGED <<clock, sub, op, hold, money, dun, ob, worker, adrift, wakes>>

\* Fault: an event about a cycle settles it, whatever the event reports.
FaultyEvidence(c) ==
  /\ \E k \in Attempts : ask[c][k] \in Paying \cup Refused
  /\ SettlePaid(c)
  /\ dun' = CaseRecovered(c)
  /\ UNCHANGED <<clock, op, hold, ob, ask, worker, adrift, wakes>>

\* payment_truth_ingest_event of a capture: money and schedule move and the open
\* case is recovered; operation, reservation and obligation are not touched.
IngestCapture(c) ==
  /\ \E k \in Attempts : ask[c][k] \in Paying
  /\ SettlePaid(c)
  /\ dun' = CaseRecovered(c)
  /\ UNCHANGED <<clock, op, hold, ob, ask, worker, adrift, wakes>>

\* ... and of a refusal, which opens a case under a key of its own.
IngestRefusal(c) ==
  /\ \E k \in Attempts : ask[c][k] = "declined"
  /\ money[c] \in {"open", "failed"}
  /\ money' = [money EXCEPT ![c] = "failed"]
  /\ \/ dun[c].is = "none" /\ dun' = [dun EXCEPT ![c] = [is |-> "open", by |-> "truth"]]
     \/ dun[c].by = "truth" /\ UNCHANGED dun
  /\ UNCHANGED <<clock, sub, op, hold, ob, ask, worker, adrift, wakes>>

\* A command that only changes the subscription row.
Commanded(s, status, next) ==
  /\ next \in 0..(MaxTime + Cadence)
  /\ sub' = [sub EXCEPT ![s] = [status |-> status, next |-> next]]
  /\ UNCHANGED <<clock, op, hold, money, dun, ob, ask, worker, adrift>>
MayMove(s) == NoOpenCase(s) /\ Unfenced(s) /\ Unlocked(s)

\* customer_subscription_pause_as_actor: no fence but the status.  A window that
\* is open from before a cancellation stays open and ends first.  (An end past the
\* bound of the clock is none.)
Pause(s) ==
  /\ sub[s].status = "active" /\ Commanded(s, "paused", sub[s].next)
  /\ \E end \in {NoDue} \cup ({clock + PauseTime} \cap 0..MaxTime) :
       wakes' = [wakes EXCEPT ![s] = IF @ = NoDue THEN end ELSE @]

\* Whole cadences forward from a due date that passed.
Resumed(s) ==
  LET next == sub[s].next
  IN IF next > clock THEN next ELSE next + ((clock - next) \div Cadence + 1) * Cadence
Resume(s) ==
  /\ sub[s].status = "paused" /\ MayMove(s) /\ Commanded(s, "active", Resumed(s))
  /\ wakes' = [wakes EXCEPT ![s] = NoDue]

\* A command of a subscription that renews, or did before it was cancelled.
Moved(s, status, next) ==
  sub[s].status = status /\ MayMove(s) /\ Commanded(s, "active", next) /\ UNCHANGED wakes
Skip(s) == Moved(s, "active", sub[s].next + Cadence)
OrderNow(s) == Moved(s, "active", clock + Soon)
Slide(s) == \E span \in SlideAhead : Moved(s, "active", clock + span)
Reactivate(s) == Moved(s, "cancelled", clock + 2 * Day)

\* subscription_auto_resume_due: a pause ended.  The lifecycle is called without
\* the fence of the commands, so the date passes over a cycle that is being renewed
\* or unpaid.
AutoResume(s) ==
  /\ sub[s].status = "paused" /\ wakes[s] # NoDue /\ wakes[s] <= clock
  /\ sub' = [sub EXCEPT ![s] = [status |-> "active", next |-> Resumed(s)]]
  /\ wakes' = [wakes EXCEPT ![s] = NoDue]
  /\ adrift' = adrift \cup {c \in OfSub(s) : Busy(c) \/ money[c] \in {"open", "failed"}}
  /\ UNCHANGED <<clock, op, hold, money, dun, ob, ask, worker>>

\* Fault: an ended subscription loses its date.
FaultyDateCleared(s) == [sub EXCEPT ![s] = [status |-> "cancelled", next |-> NoDue]]

\* The row of a subscription that ends.
Ended(s) == [sub EXCEPT ![s].status = "cancelled"]
\* Cancel: open cases are cancelled, unpaid operations whose lease ran out are
\* refused and their holds released.
Cancel(s) ==
  LET ended == {c \in OfSub(s) : op[c].state \in {"claimed", "reserved"}}
  IN /\ sub[s].status \in {"active", "paused"}
     /\ Unfenced(s) /\ \A c \in OfSub(s) : ob[c].state # "prepared"
     /\ sub' = Ended(s)
     /\ dun' = [c \in Cycles |-> IF c[1] = s /\ dun[c].is = "open"
                                 THEN [dun[c] EXCEPT !.is = "cancelled"] ELSE dun[c]]
     /\ op' = RefusedOps(ended, "other")
     /\ hold' = HoldsBecome({c \in ended : hold[c].is = "held"}, "released")
     /\ UNCHANGED <<clock, money, ob, ask, worker, adrift, wakes>>

BatchStep(w) ==
  \/ \E s \in Subs, t \in 0..clock : Claim(w, s, t)
  \/ RefusePreflight(w) \/ Reserve(w) \/ Prepare(w) \/ RefuseInput(w)
  \/ Execute(w) \/ Acknowledge(w) \/ ReadOutcome(w)
  \/ Handoff(w) \/ RecordRefused(w) \/ RecordSucceeded(w)
  \/ RowEnds(w)
RetryStep(w) ==
  \/ RetryExecute(w)
  \/ \E c \in Cycles, t \in 0..clock : RetryPrepare(w, c, t) \/ StockReturns(w, c, t)
HostStep(c) ==
  \/ RetryFailed(c) \/ RetryRecovered(c)
  \/ LatePositive(c) \/ Authorize(c) \/ ScheduleRecovery(c)
  \/ IngestCapture(c) \/ IngestRefusal(c) \/ (\E k \in Attempts : ProviderDecides(c, k))
Command(s) ==
  \/ Pause(s) \/ Resume(s) \/ Skip(s) \/ OrderNow(s) \/ Slide(s) \/ Reactivate(s) \/ Cancel(s)

Next ==
  \/ Tick \/ ExpireHolds
  \/ \E w \in Workers : BatchStep(w) \/ RetryStep(w)
  \/ \E c \in Cycles : HostStep(c)
  \/ \E s \in Subs : Command(s) \/ AutoResume(s)
Spec == Init /\ [][Next]_vars

-----------------------------------------------------------------------------
(* Properties. *)

SubRow == [status : {"active", "paused", "cancelled"}, next : Nat]
OpRow == [state : {"none", "claimed", "reserved", "prepared", "succeeded", "refused"},
          token : 0..MaxToken, lease : Nat, why : {"none", "stock", "other"}, ack : BOOLEAN]
HoldRow == [is : {"none", "held", "committed", "consumed", "released", "expired"},
            until : Nat, secured : BOOLEAN]
CaseRow == [is : {"none", "open", "recovered", "cancelled"}, by : {"none", "handoff", "truth"}]
ObRow == [state : {"none", "waiting", "prepared", "recovered"}, tries : Nat, seq : Attempts,
          due : Nat \cup {NoDue}, hard : BOOLEAN, grant : {"none", "open", "used"}]
Answers == {"none", "sent"} \cup Refused \cup Paying
Process == [phase : Phases, at : 0..MaxTime, cycle : Cycles \cup {NoRow}, token : Nat]

TypeOK ==
  /\ clock \in 0..MaxTime
  /\ sub \in [Subs -> SubRow]
  /\ op \in [Cycles -> OpRow]
  /\ hold \in [Cycles -> HoldRow]
  /\ money \in [Cycles -> {"none", "open", "failed", "settled"}]
  /\ dun \in [Cycles -> CaseRow]
  /\ ob \in [Cycles -> ObRow]
  /\ ask \in [Cycles -> [Attempts -> Answers]]
  /\ worker \in [Workers -> Process]
  /\ \A w \in Workers : worker[w].phase # "idle" => worker[w].cycle \in Cycles
  /\ adrift \in SUBSET Cycles
  /\ wakes \in [Subs -> Nat \cup {NoDue}]

\* Money is asked for one attempt at a time: an attempt is with the provider
\* only for an obligation that was prepared, and the one before it had been
\* refused, or left to the customer, first.  Crash, takeover of the claim,
\* webhooks and the customer's repair come between (subscription_retry_prepare,
\* commerce_prepare_subscription_renewal, recoverPrepared).
AskedInTurn ==
  \A c \in Cycles, k \in Attempts : ask[c][k] # "none" =>
    /\ money[c] # "none"
    /\ k > 0 => ask[c][k - 1] \in Refused \cup {"approved"}

\* What the provider has of an attempt is never asked again by any process: only
\* the provider changes it, and then no process moves (recoverPrepared reads an
\* attempt that may exist and never executes it).
NeverAskedAgain ==
  [][\A c \in Cycles, k \in Attempts :
       ask'[c][k] # ask[c][k] /\ ask[c][k] # "none" => UNCHANGED worker]_vars

\* The schedule waits for the money: while a cycle is unpaid the subscription's
\* next date stays on it, whatever the customer does (the fence of
\* subscription_command_apply), as long as every prepare of this subscription ran
\* inside its lease and hold and no pause ended by itself over one of its cycles.
UnpaidHoldsSchedule ==
  \A c \in Cycles : money[c] \in {"open", "failed"} /\ adrift \cap OfSub(c[1]) = {}
                     => sub[c[1]].next = c[2]

\* A paid cycle is never due again: no command and no order of settlement, pause
\* and resume leaves an active subscription on a date already paid.
PaidCycleNeverDue ==
  \A s \in Subs : sub[s].status = "active" /\ sub[s].next <= MaxTime
                  => money[<<s, sub[s].next>>] # "settled"

\* "Do not move away from a current payment obligation on resume": a pause that
\* ends leaves the date on a cycle that is unpaid (the comment is about the
\* customer's command; subscription_auto_resume_due resumes as well).
ResumeKeepsObligation ==
  [][\A c \in Cycles :
       LET s == c[1]
       IN money[c] \in {"open", "failed"} /\ sub[s] = [status |-> "paused", next |-> c[2]]
            => sub'[s].next = c[2]]_vars

\* Stock is kept while an attempt is with the provider undecided: neither an
\* expiry, a cancellation, a refusal recorded for another attempt nor a recovery
\* gives it away.  An attempt left to the customer counts as refused here, as in
\* the code: its stock is released, and it may still be approved afterwards.
StockHeldWhileAsked ==
  \A c \in Cycles : (\E k \in Attempts : ask[c][k] = "sent")
                     => hold[c].is \in {"committed", "consumed"}

\* What ended stays ended: a payment, a success and a recovery are never undone
\* by a late answer, and a refused operation is taken up again only when no
\* money was ever asked for it (subscription_stock_wait_recover_refusal).
TerminalIsFinal ==
  [][\A c \in Cycles :
       /\ money[c] = "settled" => money'[c] = "settled"
       /\ op[c].state = "succeeded" => op'[c].state = "succeeded"
       /\ ob[c].state = "recovered" => ob'[c].state = "recovered"
       /\ op[c].state = "refused" /\ op'[c].state # "refused"
            => money[c] = "none" /\ \A k \in Attempts : ask[c][k] = "none"]_vars
(***************************************************************************)
(* The rail implements RenewalPromise.                                     *)
(***************************************************************************)
Promise == INSTANCE RenewalPromise WITH
  Dates <- 0..MaxTime,
  active <- {s \in Subs : sub[s].status = "active"},
  next <- [s \in Subs |-> sub[s].next]

\* Batches that die and take over each other's claims, retries, webhooks, expiries
\* and the customer's commands together keep the promise.
KeepsPromise == Promise!Spec
=============================================================================
