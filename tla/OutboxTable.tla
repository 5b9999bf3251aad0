---------------------------- MODULE OutboxTable ----------------------------
(***************************************************************************)
(* The table public.outbox_events and the SQL functions of                 *)
(* packages/outbox/sql/0001_outbox.sql that move its rows, each one        *)
(* transaction.  Who calls them, and with which token, is left to the      *)
(* modules that extend this one: OutboxRail (any caller at all) and        *)
(* OutboxDispatch (the dispatch worker).                                   *)
(*                                                                         *)
(* Time is relative: a row keeps the ticks that remain until available_at  *)
(* (wait) and until its retention ends (keep); Tick lets one unit pass.    *)
(* created_at is kept as the rank (born) of the producer's transaction     *)
(* start, because now() is the start of the transaction in PostgreSQL.     *)
(***************************************************************************)
EXTENDS Integers, FiniteSets

CONSTANTS
  Events,          \* identities of rows a producer may insert
  Tokens,          \* values of gen_random_uuid() used as claim tokens
  NoToken,         \* metadata without a claimToken
  EventTypes,
  TypeOf,          \* event_type of a row
  AggregateOf,     \* (aggregate_type, aggregate_id) of a row
  KeyOf,           \* (event_type, idempotency_key) of a row
  Dormant,         \* public.outbox_dormant_event_types
  MaxAttempts,     \* config.maxAttempts, the v_max of claim and mark
  BatchSize,       \* config.batchSize
  Visibility,      \* config.visibilitySeconds
  BackoffBase, BackoffCap, SnoozeDelay,
  ProcessedKeep, DiscardedKeep,   \* retention of the compactor
  SerialProducers  \* do producers of one aggregate run one after another?

ASSUME TokenAssumption == NoToken \notin Tokens
ASSUME TypeAssumption == TypeOf \in [Events -> EventTypes]
ASSUME CeilingAssumption == MaxAttempts \in Nat \ {0}
ASSUME DelayAssumption ==
  /\ Visibility \in Nat \ {0} /\ SnoozeDelay \in Nat \ {0}
  /\ BackoffBase \in Nat \ {0} /\ BackoffCap \in Nat /\ BackoffBase <= BackoffCap
  /\ ProcessedKeep \in Nat /\ DiscardedKeep \in Nat
ASSUME BatchAssumption == BatchSize \in Nat \ {0}
ASSUME SerialAssumption == SerialProducers \in BOOLEAN

VARIABLES
  row,    \* the table, one record per row identity
  clock   \* rank of the last producer transaction that started

tableVars == <<row, clock>>

OpenStatus == {"pending", "failed", "processing"}
TerminalStatus == {"processed", "discarded"}
\* "absent": not yet produced; "begun": written by a transaction still open;
\* "withdrawn": that transaction rolled back or met a duplicate key.
Status == OpenStatus \cup TerminalStatus \cup {"absent", "begun", "withdrawn"}

Row == [status : Status, attempts : Nat, wait : Nat, born : Nat, snoozes : Nat,
        token : Tokens \cup {NoToken}, keep : Nat, compacted : BOOLEAN]

TableTypeOK == row \in [Events -> Row] /\ clock \in Nat

\* A row in somebody's hands carries that claim's token and was charged for it, so
\* no refund is ever cut off at zero.
ClaimsCharged ==
  \A e \in Events : row[e].status = "processing" =>
    row[e].attempts > 0 /\ row[e].token # NoToken

TableInit ==
  /\ row = [e \in Events |->
             [status |-> "absent", attempts |-> 0, wait |-> 0, born |-> 0,
              snoozes |-> 0, token |-> NoToken, keep |-> 0, compacted |-> FALSE]]
  /\ clock = 0

Stored(r, e) == r[e].status \in OpenStatus \cup TerminalStatus
Open(r, e) == r[e].status \in OpenStatus
Terminal(r, e) == r[e].status \in TerminalStatus
Due(r, e) == r[e].wait = 0

\* (prior.created_at, prior.id) < (event.created_at, event.id)
Older(r, d, e) == r[d].born < r[e].born

(***************************************************************************)
(* Time: the clock of the database advances by one unit.                   *)
(***************************************************************************)
CountDown(n) == IF n = 0 THEN 0 ELSE n - 1

Aged(record) == [record EXCEPT !.wait = CountDown(@), !.keep = CountDown(@)]

TickRows == [e \in Events |-> Aged(row[e])]

(***************************************************************************)
(* Producers: buildOutboxEnqueue inside the producer's transaction.        *)
(***************************************************************************)
Begun(record, rank) == [record EXCEPT !.status = "begun", !.born = rank]
Committed(record, delay) == [record EXCEPT !.status = "pending", !.wait = delay]
Withdrawn(record) == [record EXCEPT !.status = "withdrawn"]

BeginEnqueue(e) ==
  /\ row[e].status = "absent"
  /\ SerialProducers => \A d \in Events :
       AggregateOf[d] = AggregateOf[e] => row[d].status # "begun"
  /\ clock' = clock + 1
  /\ row' = [row EXCEPT ![e] = Begun(@, clock + 1)]

\* Fault: the dedupe key only counts while its row is unfinished.
DuplicateOpenKey(e) == \E d \in Events \ {e} : KeyOf[d] = KeyOf[e] /\ Open(row, d)

DuplicateKey(e) == \E d \in Events \ {e} : KeyOf[d] = KeyOf[e] /\ Stored(row, d)

\* The commit makes the row visible, unless ON CONFLICT DO NOTHING skipped it;
\* delay is the time until the producer's availableAt.
CommitEnqueue(e, delay) ==
  /\ row[e].status = "begun"
  /\ row' = [row EXCEPT ![e] = IF DuplicateKey(e) THEN Withdrawn(@) ELSE Committed(@, delay)]
  /\ UNCHANGED clock

AbortEnqueue(e) ==
  /\ row[e].status = "begun"
  /\ row' = [row EXCEPT ![e] = Withdrawn(@)]
  /\ UNCHANGED clock

(***************************************************************************)
(* outbox_claim_batch.  scope is the caller's pair of p_event_types and    *)
(* p_known_event_types; locked holds the rows another transaction has      *)
(* locked, which FOR UPDATE SKIP LOCKED passes over.                       *)
(***************************************************************************)
\* Fault: the sweep does not look at available_at, which is also the lease.
ExhaustedInLease(scope, locked) ==
  {e \in Events \ locked : /\ TypeOf[e] \in scope.types /\ Open(row, e)
                           /\ row[e].attempts >= MaxAttempts}

Exhausted(scope, locked) ==
  {e \in Events \ locked : /\ TypeOf[e] \in scope.types
                           /\ Open(row, e) /\ Due(row, e)
                           /\ row[e].attempts >= MaxAttempts}

Discarded(record) ==
  [record EXCEPT !.status = "discarded", !.keep = DiscardedKeep]

\* The table after the claim's first statement.
Swept(scope, locked) ==
  [e \in Events |-> IF e \in Exhausted(scope, locked) THEN Discarded(row[e]) ELSE row[e]]

\* Fault: a dormant type holds back its aggregate like any unknown one.
BarrierAnyForeign(scope, d) ==
  TypeOf[d] \in scope.types \/ TypeOf[d] \notin scope.known

\* Does the unprocessed row d hold back its aggregate for this caller?
Barrier(scope, d) ==
  \/ TypeOf[d] \in scope.types
  \/ TypeOf[d] \notin scope.known \cup Dormant

\* Fault: a predecessor somebody is working on does not count.
BlockedByWaiting(r, scope, e) ==
  \E d \in Events : /\ AggregateOf[d] = AggregateOf[e]
                    /\ r[d].status \in {"pending", "failed"}
                    /\ Older(r, d, e) /\ Barrier(scope, d)

Blocked(r, scope, e) ==
  \E d \in Events : /\ AggregateOf[d] = AggregateOf[e]
                    /\ Open(r, d) /\ Older(r, d, e) /\ Barrier(scope, d)

\* Fault: a row whose lease expired is not claimed again.
CandidatesWaiting(r, scope, locked) ==
  {e \in Events \ locked : /\ TypeOf[e] \in scope.types
                           /\ r[e].status \in {"pending", "failed"} /\ Due(r, e)
                           /\ r[e].attempts < MaxAttempts
                           /\ ~Blocked(r, scope, e)}

Candidates(r, scope, locked) ==
  {e \in Events \ locked : /\ TypeOf[e] \in scope.types
                           /\ Open(r, e) /\ Due(r, e)
                           /\ r[e].attempts < MaxAttempts
                           /\ ~Blocked(r, scope, e)}

\* ORDER BY created_at, id LIMIT v_batch
IsOldest(r, batch, from) ==
  /\ batch \subseteq from
  /\ \A e \in batch, d \in from \ batch : ~Older(r, d, e)
  /\ IF Cardinality(from) <= BatchSize THEN batch = from
                                       ELSE Cardinality(batch) = BatchSize

\* Faults: a row keeps its first token for ever; a claim leaves available_at, or
\* the attempts.
ClaimedOldToken(record, t) ==
  [record EXCEPT !.status = "processing", !.attempts = @ + 1, !.wait = Visibility,
                 !.token = IF @ = NoToken THEN t ELSE @]
ClaimedNoLease(record, t) ==
  [record EXCEPT !.status = "processing", !.attempts = @ + 1, !.token = t]
ClaimedUncharged(record, t) ==
  [record EXCEPT !.status = "processing", !.wait = Visibility, !.token = t]

Claimed(record, t) ==
  [record EXCEPT !.status = "processing", !.attempts = @ + 1,
                 !.wait = Visibility, !.token = t]

\* The claim returns the rows of batch; row e gets the new token given[e].
ClaimBatch(scope, locked, batch, given) ==
  /\ scope.types # {}
  /\ LET swept == Swept(scope, locked) IN
       /\ IsOldest(swept, batch, Candidates(swept, scope, locked))
       /\ row' = [e \in Events |-> IF e \in batch THEN Claimed(swept[e], given[e])
                                                  ELSE swept[e]]
  /\ UNCHANGED clock

(***************************************************************************)
(* The acknowledgements.  Each one names a row and a token; a row that is  *)
(* not "processing" under that very token is left alone.                   *)
(***************************************************************************)
\* Faults: the fence forgets the token, or forgets the status.
HoldsAnyToken(e, t) == row[e].status = "processing"
HoldsAnyStatus(e, t) == row[e].token = t

Holds(e, t) == row[e].status = "processing" /\ row[e].token = t

Processed(record) ==
  [record EXCEPT !.status = "processed", !.keep = ProcessedKeep]

MarkProcessed(e, t) ==
  /\ row' = IF Holds(e, t) THEN [row EXCEPT ![e] = Processed(@)] ELSE row
  /\ UNCHANGED clock

\* Fault: off by one at the ceiling.
FailedAnswerLate(e, t, outcome) ==
  IF ~Holds(e, t) THEN "missed"
  ELSE IF outcome = "discard" \/ (outcome = "retry" /\ row[e].attempts > MaxAttempts)
         THEN "discarded"
  ELSE IF outcome = "snooze" THEN "snoozed" ELSE "failed"

\* The answer of outbox_mark_failed.
FailedAnswer(e, t, outcome) ==
  IF ~Holds(e, t) THEN "missed"
  ELSE IF outcome = "discard" \/ (outcome = "retry" /\ row[e].attempts >= MaxAttempts)
         THEN "discarded"
  ELSE IF outcome = "snooze" THEN "snoozed" ELSE "failed"

AtMost(cap, n) == IF n < cap THEN n ELSE cap

\* GREATEST(attempts - 1, 0)
Refund(n) == IF n = 0 THEN 0 ELSE n - 1

\* Exponential backoff, capped, with equal jitter in [d/2, d].
BackoffDelays(attempts) ==
  LET d == AtMost(BackoffCap, BackoffBase * 2^AtMost(16, Refund(attempts)))
  IN  {delay \in 0..BackoffCap : d <= 2 * delay /\ delay <= d}

\* Fault: a snooze costs an attempt.
SnoozedCharged(record) ==
  [record EXCEPT !.status = "failed", !.wait = SnoozeDelay, !.snoozes = @ + 1]

Snoozed(record) ==
  [record EXCEPT !.status = "failed", !.attempts = Refund(@),
                 !.wait = SnoozeDelay, !.snoozes = @ + 1]

Retried(record, delay) == [record EXCEPT !.status = "failed", !.wait = delay]

MarkFailed(e, t, outcome) ==
  /\ LET answer == FailedAnswer(e, t, outcome) IN
       \/ answer = "missed" /\ row' = row
       \/ answer = "discarded" /\ row' = [row EXCEPT ![e] = Discarded(@)]
       \/ answer = "snoozed" /\ row' = [row EXCEPT ![e] = Snoozed(@)]
       \/ /\ answer = "failed"
          /\ \E delay \in BackoffDelays(row[e].attempts) :
               row' = [row EXCEPT ![e] = Retried(@, delay)]
  /\ UNCHANGED clock

\* Fault: a release costs an attempt.
ReleasedCharged(record, delay) == [record EXCEPT !.status = "pending", !.wait = delay]

Released(record, delay) ==
  [record EXCEPT !.status = "pending", !.attempts = Refund(@), !.wait = delay]

\* outbox_release_unprocessed: held maps each row handed back to its token.
Release(held, delay) ==
  /\ row' = [e \in Events |-> IF e \in DOMAIN held /\ Holds(e, held[e])
                                THEN Released(row[e], delay) ELSE row[e]]
  /\ UNCHANGED clock

(***************************************************************************)
(* createPostgresOutboxCompactor: empties terminal rows past retention.    *)
(***************************************************************************)
\* Fault: rows that failed for good and rows that will be retried are not told apart.
CompactableFailed ==
  {e \in Events : /\ row[e].status \in TerminalStatus \cup {"failed"}
                  /\ row[e].keep = 0 /\ ~row[e].compacted}

Compactable ==
  {e \in Events : Terminal(row, e) /\ row[e].keep = 0 /\ ~row[e].compacted}

Emptied(record) == [record EXCEPT !.compacted = TRUE]

Compact(targets) ==
  /\ targets # {} /\ targets \subseteq Compactable
  /\ row' = [e \in Events |-> IF e \in targets THEN Emptied(row[e]) ELSE row[e]]
  /\ UNCHANGED clock
=============================================================================
