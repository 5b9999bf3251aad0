-------------------------- MODULE OutboxRailProofs --------------------------
(***************************************************************************)
(* Proofs about OutboxRail for any rows, tokens, callers, ceilings and     *)
(* delays.                                                                 *)
(***************************************************************************)
EXTENDS OutboxRail, OutboxTableProofs, FiniteSetTheorems, TLAPS

\* The initial table and the callers' empty knowledge are well typed.
LEMMA TypeInit == Init => FieldsOK
  BY DEF Init, TableInit, FieldsOK, TableTypeOK, Row, Status, Answers

LEMMA TypeStep == FieldsOK /\ [Next]_vars => FieldsOK'
<1> SUFFICES ASSUME FieldsOK, [Next]_vars PROVE FieldsOK'
  OBVIOUS
<1> USE DEF FieldsOK, TableTypeOK
<1>1. CASE Tick
  BY <1>1, WritesAreRows DEF Tick, TickRows
<1>2. CASE \E e \in Events : Produce(e)
  <2> PICK e \in Events : Produce(e)
    BY <1>2
  <2> USE WritesAreRows DEF Produce
  <2>1. CASE BeginEnqueue(e)
    <3>1. clock + 1 \in Nat
      OBVIOUS
    <3>2. Begun(row[e], clock + 1) \in Row
      BY <3>1
    <3> QED BY <2>1, <3>1, <3>2 DEF BeginEnqueue
  <2>2. CASE \E delay \in EnqueueDelays : CommitEnqueue(e, delay)
    BY <2>2, EnvironmentAssumption DEF EnvironmentAssumption, CommitEnqueue
  <2>3. CASE AbortEnqueue(e)
    BY <2>3 DEF AbortEnqueue
  <2> QED BY <2>1, <2>2, <2>3
<1>3. CASE \E scope \in Scopes : Claim(scope)
  <2> PICK scope \in Scopes : Claim(scope)
    BY <1>3
  <2> PICK locked \in SUBSET Events, batch \in SUBSET Events :
        \E given \in Injections(batch, Tokens \ Issued) :
          ClaimWith(scope, locked, batch, given)
    BY DEF Claim
  <2> PICK given \in Injections(batch, Tokens \ Issued) :
        ClaimWith(scope, locked, batch, given)
    OBVIOUS
  <2> USE DEF ClaimWith
  <2>1. \A e \in batch : given[e] \in Tokens
    BY DEF Injections
  <2>2. Swept(scope, locked) \in [Events -> Row]
    BY WritesAreRows DEF Swept
  <2>3. row' \in [Events -> Row]
    BY <2>1, <2>2, WritesAreRows DEF ClaimBatch
  <2>4. claimOf' \in [Tokens -> Events \cup {NoEvent}]
    OBVIOUS
  <2> QED BY <2>3, <2>4 DEF ClaimBatch
<1>4. CASE \E t \in Tokens : AckProcessed(t)
  <2> PICK t \in Tokens : AckProcessed(t)
    BY <1>4
  <2>1. claimOf[t] \in Events
    BY DEF AckProcessed, Issued
  <2>2. row' \in [Events -> Row] /\ clock' = clock
    BY <2>1, WritesAreRows DEF AckProcessed, MarkProcessed
  <2>3. answer' \in [Tokens -> Answers]
    BY DEF AckProcessed, Answers
  <2> QED BY <2>2, <2>3 DEF AckProcessed
<1>5. CASE \E t \in Tokens, outcome \in {"retry", "discard", "snooze"} : AckFailed(t, outcome)
  <2> PICK t \in Tokens, outcome \in {"retry", "discard", "snooze"} : AckFailed(t, outcome)
    BY <1>5
  <2>1. claimOf[t] \in Events
    BY DEF AckFailed, Issued
  <2>2. \A delay \in BackoffDelays(row[claimOf[t]].attempts) : delay \in Nat
    BY DelayAssumption DEF DelayAssumption, BackoffDelays
  <2>3. clock' = clock /\ \/ row' = row
                          \/ row' = [row EXCEPT ![claimOf[t]] = Discarded(@)]
                          \/ row' = [row EXCEPT ![claimOf[t]] = Snoozed(@)]
                          \/ \E delay \in Nat : row' = [row EXCEPT ![claimOf[t]] = Retried(@, delay)]
    BY <2>2 DEF AckFailed, MarkFailed
  <2>5. row' \in [Events -> Row]
    BY <2>1, <2>3, WritesAreRows
  <2>4. answer' \in [Tokens -> Answers]
    BY DEF AckFailed, FailedAnswer, Answers
  <2> QED BY <2>3, <2>4, <2>5 DEF AckFailed
<1>6. CASE \E held \in Handbacks, delay \in ReleaseDelays : AckReleased(held, delay)
  <2> PICK held \in Handbacks, delay \in ReleaseDelays : AckReleased(held, delay)
    BY <1>6
  <2>1. row' \in [Events -> Row] /\ clock' = clock
    BY WritesAreRows, EnvironmentAssumption DEF EnvironmentAssumption, AckReleased, Release
  <2>2. answer' \in [Tokens -> Answers]
    BY DEF AckReleased, Answers
  <2> QED BY <2>1, <2>2 DEF AckReleased
<1>7. CASE Prune
  BY <1>7, WritesAreRows DEF Prune, Compact
<1>8. CASE UNCHANGED vars
  BY <1>8 DEF vars
<1> QED BY <1>1, <1>2, <1>3, <1>4, <1>5, <1>6, <1>7, <1>8 DEF Next

LEMMA FieldsCorrect == Spec => []FieldsOK
  BY TypeInit, TypeStep, PTL DEF Spec
-----------------------------------------------------------------------------
(***************************************************************************)
(* What one step can do to one row.  Every action of OutboxRail moves each *)
(* row by one of these five, and a caller's answer only together with its  *)
(* row.                                                                    *)
(***************************************************************************)
Kept(e) ==
  /\ row'[e].status = row[e].status /\ row'[e].token = row[e].token
  /\ row'[e].attempts = row[e].attempts /\ row'[e].snoozes = row[e].snoozes
  /\ row'[e].born = row[e].born
  /\ row[e].compacted => row'[e].compacted
  /\ row'[e].compacted => row[e].compacted \/ Terminal(row, e)

Produced(e) ==
  /\ \/ /\ row[e].status = "absent" /\ row'[e].status = "begun"
        /\ BeginEnqueue(e)
     \/ /\ row[e].status = "begun" /\ row'[e].status \in {"pending", "withdrawn"}
        /\ row'[e].born = row[e].born
        /\ row'[e].status = "pending" => ~DuplicateKey(e)
        /\ \A d \in Events : d # e => row'[d] = row[d]
  /\ row'[e].token = row[e].token /\ row'[e].attempts = row[e].attempts
  /\ row'[e].snoozes = row[e].snoozes /\ row'[e].compacted = row[e].compacted

SweptAway(e) ==
  /\ Open(row, e) /\ Due(row, e)
  /\ row'[e].status = "discarded" /\ row'[e].token = row[e].token
  /\ row'[e].attempts = row[e].attempts /\ row'[e].born = row[e].born
  /\ row'[e].snoozes = row[e].snoozes /\ row'[e].compacted = row[e].compacted

HandedOut(e) ==
  /\ Open(row, e) /\ Due(row, e) /\ row[e].attempts < MaxAttempts
  /\ row'[e].status = "processing" /\ row'[e].attempts = row[e].attempts + 1
  /\ row'[e].snoozes = row[e].snoozes
  /\ row'[e].token \in Tokens \ Issued /\ claimOf'[row'[e].token] = e
  /\ row'[e].born = row[e].born /\ row'[e].compacted = row[e].compacted
  /\ \A d \in Events : Precedes(d, e) => Terminal(row', d)

Outcome(e, status, got) == row'[e].status = status /\ answer'[row[e].token] = got

Acked(e) ==
  /\ row[e].status = "processing"
  /\ row[e].token \in Issued /\ claimOf[row[e].token] = e
  /\ row'[e].token = row[e].token
  /\ row'[e].born = row[e].born /\ row'[e].compacted = row[e].compacted
  /\ \/ /\ \/ Outcome(e, "processed", "applied")
           \/ Outcome(e, "discarded", "discarded")
           \/ Outcome(e, "failed", "failed") /\ row[e].attempts < MaxAttempts
        /\ row'[e].attempts = row[e].attempts /\ row'[e].snoozes = row[e].snoozes
     \/ /\ Outcome(e, "failed", "snoozed")
        /\ row'[e].attempts = Refund(row[e].attempts)
        /\ row'[e].snoozes = row[e].snoozes + 1
     \/ /\ Outcome(e, "pending", "released")
        /\ row'[e].attempts = Refund(row[e].attempts)
        /\ row'[e].snoozes = row[e].snoozes

Moved(e) == Kept(e) \/ Produced(e) \/ SweptAway(e) \/ HandedOut(e) \/ Acked(e)

Learnt(t) ==
  /\ \/ claimOf'[t] = claimOf[t]
     \/ /\ t \notin Issued /\ claimOf'[t] \in Events
        /\ row'[claimOf'[t]].token = t /\ HandedOut(claimOf'[t])
  /\ \/ answer'[t] = answer[t]
     \/ t \in Issued /\ row[claimOf[t]].token = t /\ Acked(claimOf[t])

StepShape == /\ \A e \in Events : Moved(e)
             /\ \A t \in Tokens : Learnt(t)
             /\ clock' \in {clock, clock + 1}

LEMMA ClaimShape ==
  ASSUME FieldsOK, NEW scope \in Scopes, Claim(scope)
  PROVE  StepShape
<1> USE DEF FieldsOK, TableTypeOK
<1> PICK locked \in SUBSET Events, batch \in SUBSET Events :
      \E given \in Injections(batch, Tokens \ Issued) :
        ClaimWith(scope, locked, batch, given)
  BY DEF Claim
<1> PICK given \in Injections(batch, Tokens \ Issued) :
      ClaimWith(scope, locked, batch, given)
  OBVIOUS
<1> DEFINE swept == Swept(scope, locked)
<1>1. /\ given \in [batch -> Tokens \ Issued]
      /\ \A d, e \in batch : given[d] = given[e] => d = e
  BY DEF Injections
<1>2. \A e \in Events : \/ swept[e] = row[e]
                        \/ e \in Exhausted(scope, locked) /\ swept[e] = Discarded(row[e])
  BY DEF Swept
<1>3. \A e \in Events : e \in batch => Open(swept, e) /\ Due(swept, e)
                                       /\ swept[e].attempts < MaxAttempts
  BY DEF ClaimWith, ClaimBatch, IsOldest, Candidates
<1>4. \A e \in Events : row'[e] = IF e \in batch THEN Claimed(swept[e], given[e]) ELSE swept[e]
  BY DEF ClaimWith, ClaimBatch
<1>5. \A e \in batch : claimOf'[given[e]] = e
  <2> TAKE e \in batch
  <2>1. given[e] \in Tokens
    BY <1>1
  <2>2. claimOf'[given[e]] = CHOOSE d \in batch : given[d] = given[e]
    BY <2>1 DEF ClaimWith
  <2> QED BY <1>1, <2>2
<1>6. ASSUME NEW e \in batch, NEW d \in Events, Precedes(d, e) PROVE Terminal(row', d)
  <2>1. ~Blocked(swept, scope, e) /\ TypeOf[e] \in scope.types
    BY DEF ClaimWith, ClaimBatch, IsOldest, Candidates
  <2>2. Barrier(scope, d) /\ Stored(row, d) /\ AggregateOf[d] = AggregateOf[e]
    BY <1>6, <2>1 DEF Precedes
  <2>3. \A c \in Events : swept[c].born = row[c].born
    BY <1>2 DEF Discarded, Row
  <2>4. Older(swept, d, e)
    BY <1>6, <2>3 DEF Precedes, Older
  <2>5. ~Open(swept, d)
    BY <2>1, <2>2, <2>4 DEF Blocked
  <2>6. d \notin batch
    BY <1>3, <2>5
  <2>7. row'[d] = swept[d]
    BY <1>4, <2>6
  <2>8. Terminal(swept, d)
    BY <1>2, <2>2, <2>5
    DEF Stored, Terminal, Open, OpenStatus, TerminalStatus, Discarded, Row
  <2> QED BY <2>7, <2>8 DEF Terminal
<1>7. ASSUME NEW e \in batch PROVE HandedOut(e) /\ row'[e].token = given[e]
  <2>1. ~(swept[e] = Discarded(row[e]))
    BY <1>3 DEF Open, OpenStatus, Discarded, Row
  <2>2. swept[e] = row[e]
    BY <1>2, <2>1
  <2>3. row'[e] = Claimed(row[e], given[e]) /\ given[e] \in Tokens \ Issued
    BY <1>1, <1>4, <2>2
  <2> QED BY <1>3, <1>5, <1>6, <2>2, <2>3 DEF HandedOut, Open, Due, Claimed, Row
<1>8. ASSUME NEW e \in Events PROVE Moved(e)
  <2> USE DEF Moved
  <2>1. CASE e \notin batch /\ swept[e] = row[e]
    BY <1>4, <2>1 DEF Kept
  <2>2. CASE e \notin batch /\ e \in Exhausted(scope, locked) /\ swept[e] = Discarded(row[e])
    BY <1>4, <2>2 DEF SweptAway, Exhausted, Discarded, Row
  <2> QED BY <1>2, <1>7, <2>1, <2>2
<1>9. ASSUME NEW t \in Tokens PROVE Learnt(t)
  <2>1. CASE \E e \in batch : given[e] = t
    <3> PICK e \in batch : given[e] = t
      BY <2>1
    <3>1. claimOf'[t] = e /\ t \notin Issued
      BY <1>1, <1>5
    <3> QED BY <1>7, <3>1 DEF Learnt, ClaimWith
  <2>2. CASE ~ \E e \in batch : given[e] = t
    BY <2>2 DEF Learnt, ClaimWith
  <2> QED BY <2>1, <2>2
<1>10. clock' = clock
  BY DEF ClaimWith, ClaimBatch
<1> QED BY <1>8, <1>10, <1>9 DEF StepShape

\* A step that moves the one row that t was issued for.
LEMMA OneRowShape ==
  ASSUME FieldsOK, NEW t \in Issued,
         row[claimOf[t]].token = t, Acked(claimOf[t]),
         \A e \in Events : e # claimOf[t] => row'[e] = row[e],
         \A u \in Tokens : u # t => answer'[u] = answer[u],
         UNCHANGED <<clock, claimOf>>
  PROVE  StepShape
<1>1. \A e \in Events : Moved(e)
  BY DEF Moved, Kept
<1>2. \A u \in Tokens : Learnt(u)
  BY DEF Learnt
<1> QED BY <1>1, <1>2 DEF StepShape

LEMMA NoRowShape ==
  ASSUME row' = row, answer' = answer, UNCHANGED <<clock, claimOf>>
  PROVE  StepShape
  BY DEF StepShape, Moved, Kept, Learnt

LEMMA AckProcessedShape ==
  ASSUME FieldsOK, NEW t \in Tokens, AckProcessed(t)
  PROVE  StepShape
<1> USE DEF FieldsOK, TableTypeOK
<1> DEFINE e == claimOf[t]
<1>1. t \in Issued /\ e \in Events /\ UNCHANGED <<clock, claimOf>>
  BY DEF AckProcessed, MarkProcessed, Issued
<1>2. CASE Holds(e, t)
  <2>1. /\ row' = [row EXCEPT ![e] = Processed(row[e])]
        /\ answer' = [answer EXCEPT ![t] = "applied"]
    BY <1>1, <1>2 DEF AckProcessed, MarkProcessed
  <2>2. row[e].token = t /\ row[e].status = "processing"
    BY <1>2 DEF Holds
  <2>3. row'[e] = Processed(row[e]) /\ answer'[t] = "applied"
    BY <1>1, <2>1
  <2>4. Acked(e)
    BY <1>1, <2>2, <2>3 DEF Acked, Outcome, Processed, Row
  <2> QED BY <1>1, <2>1, <2>2, <2>4, OneRowShape
<1>3. CASE ~Holds(e, t)
  BY <1>1, <1>3, NoRowShape DEF AckProcessed, MarkProcessed
<1> QED BY <1>2, <1>3

LEMMA AckFailedShape ==
  ASSUME FieldsOK, NEW t \in Tokens, NEW outcome \in {"retry", "discard", "snooze"},
         AckFailed(t, outcome)
  PROVE  StepShape
<1> USE DEF FieldsOK, TableTypeOK
<1> DEFINE e == claimOf[t]
<1> DEFINE got == FailedAnswer(e, t, outcome)
<1>1. t \in Issued /\ e \in Events /\ UNCHANGED <<clock, claimOf>>
  BY DEF AckFailed, MarkFailed, Issued
<1>2. CASE Holds(e, t)
  <2>1. row[e].token = t /\ row[e].status = "processing" /\ row[e] \in Row
    BY <1>1, <1>2 DEF Holds
  <2>2. /\ got \in {"discarded", "snoozed", "failed"}
        /\ got = "failed" => row[e].attempts < MaxAttempts
    BY <1>2, <2>1, CeilingAssumption DEF CeilingAssumption, FailedAnswer, Row
  <2>3. answer' = [answer EXCEPT ![t] = got]
    BY <2>2 DEF AckFailed
  <2>4. \/ got = "discarded" /\ row' = [row EXCEPT ![e] = Discarded(@)]
        \/ got = "snoozed" /\ row' = [row EXCEPT ![e] = Snoozed(@)]
        \/ got = "failed" /\ \E delay \in BackoffDelays(row[e].attempts) :
                               row' = [row EXCEPT ![e] = Retried(@, delay)]
    BY <2>2 DEF AckFailed, MarkFailed
  <2>5. /\ \A d \in Events : d # e => row'[d] = row[d]
        /\ \/ got = "discarded" /\ row'[e] = Discarded(row[e])
           \/ got = "snoozed" /\ row'[e] = Snoozed(row[e])
           \/ got = "failed" /\ \E delay : row'[e] = Retried(row[e], delay)
    BY <1>1, <2>4
  <2>6. answer'[t] = got
    BY <2>3
  <2>7. Acked(e)
    <3> HIDE DEF e, got
    <3> USE DEF Acked, Outcome
    <3>1. CASE got = "discarded" /\ row'[e] = Discarded(row[e])
      BY <1>1, <2>1, <2>6, <3>1 DEF e, Discarded, Row
    <3>2. CASE got = "snoozed" /\ row'[e] = Snoozed(row[e])
      BY <1>1, <2>1, <2>6, <3>2 DEF e, Snoozed, Row
    <3>3. CASE got = "failed" /\ \E delay : row'[e] = Retried(row[e], delay)
      BY <1>1, <2>1, <2>2, <2>6, <3>3 DEF e, Retried, Row
    <3> QED BY <2>5, <3>1, <3>2, <3>3
  <2> QED BY <1>1, <2>1, <2>3, <2>5, <2>7, OneRowShape
<1>3. CASE ~Holds(e, t)
  BY <1>1, <1>3, NoRowShape DEF AckFailed, MarkFailed, FailedAnswer
<1> QED BY <1>2, <1>3

LEMMA AckReleasedShape ==
  ASSUME FieldsOK, NEW held \in Handbacks, NEW delay \in ReleaseDelays,
         AckReleased(held, delay)
  PROVE  StepShape
<1> USE DEF FieldsOK, TableTypeOK
<1>1. \A e \in DOMAIN held : held[e] \in Issued /\ claimOf[held[e]] = e
  BY DEF Handbacks
<1>2. ASSUME NEW e \in Events PROVE Moved(e)
  <2>1. CASE e \in DOMAIN held /\ Holds(e, held[e])
    <3>1. row[e].token = held[e] /\ row[e].status = "processing" /\ row[e] \in Row
      BY <2>1 DEF Holds
    <3>2. row'[e] = Released(row[e], delay)
      BY <2>1 DEF AckReleased, Release
    <3>3. held[e] \in Tokens /\ answer'[held[e]] = "released"
      BY <1>1, <2>1 DEF AckReleased, Issued
    <3>4. Acked(e)
      BY <1>1, <2>1, <3>1, <3>2, <3>3 DEF Acked, Outcome, Released, Row
    <3> QED BY <3>4 DEF Moved
  <2>2. CASE ~(e \in DOMAIN held /\ Holds(e, held[e]))
    BY <2>2 DEF AckReleased, Release, Moved, Kept
  <2> QED BY <2>1, <2>2
<1>3. ASSUME NEW t \in Tokens PROVE Learnt(t)
  <2>1. CASE \E e \in DOMAIN held : held[e] = t /\ Holds(e, t)
    <3> PICK e \in DOMAIN held : held[e] = t /\ Holds(e, t)
      BY <2>1
    <3>1. t \in Issued /\ claimOf[t] = e /\ e \in Events
      BY <1>1 DEF Issued
    <3>2. row[e].token = t /\ row[e].status = "processing"
      BY DEF Holds
    <3>3. row'[e] = Released(row[e], delay)
      BY <3>1 DEF AckReleased, Release
    <3>4. Moved(e)
      BY <1>2, <3>1
    <3>5. row'[e].status = "pending"
      BY <3>1, <3>3 DEF Released, Row
    <3>6. Acked(e)
      BY <3>2, <3>4, <3>5
      DEF Moved, Kept, Produced, SweptAway, HandedOut
    <3> QED BY <3>1, <3>2, <3>6 DEF Learnt, AckReleased
  <2>2. CASE ~ \E e \in DOMAIN held : held[e] = t /\ Holds(e, t)
    BY <2>2 DEF Learnt, AckReleased
  <2> QED BY <2>1, <2>2
<1> QED BY <1>2, <1>3 DEF StepShape, AckReleased, Release

\* Every step has the shape.
LEMMA EveryStepShape == FieldsOK /\ [Next]_vars => StepShape
<1> SUFFICES ASSUME FieldsOK, [Next]_vars PROVE StepShape
  OBVIOUS
<1> USE DEF FieldsOK, TableTypeOK
<1>1. CASE Tick
  <2>1. \A e \in Events : row'[e] = Aged(row[e])
    BY <1>1 DEF Tick, TickRows
  <2>2. ASSUME NEW e \in Events PROVE Kept(e)
    <3>1. /\ row'[e].status = row[e].status /\ row'[e].token = row[e].token
          /\ row'[e].attempts = row[e].attempts /\ row'[e].born = row[e].born
          /\ row'[e].compacted = row[e].compacted /\ row'[e].snoozes = row[e].snoozes
      BY <2>1, AgeTouchesTimers
    <3> QED BY <3>1 DEF Kept
  <2> QED BY <1>1, <2>2 DEF Tick, StepShape, Moved, Learnt
<1>2. CASE \E e \in Events : Produce(e)
  <2> PICK e \in Events : Produce(e)
    BY <1>2
  <2>1. \A d \in Events : d # e => row'[d] = row[d]
    BY DEF Produce, BeginEnqueue, CommitEnqueue, AbortEnqueue
  <2>2. Produced(e)
    <3>1. CASE BeginEnqueue(e)
      BY <3>1 DEF BeginEnqueue, Produced, Begun, Row
    <3>2. CASE \E delay \in EnqueueDelays : CommitEnqueue(e, delay)
      BY <2>1, <3>2 DEF CommitEnqueue, Produced, Committed, Withdrawn, Row
    <3>3. CASE AbortEnqueue(e)
      BY <2>1, <3>3 DEF AbortEnqueue, Produced, Withdrawn, Row
    <3> QED BY <3>1, <3>2, <3>3 DEF Produce
  <2>3. clock' \in {clock, clock + 1}
    BY DEF Produce, BeginEnqueue, CommitEnqueue, AbortEnqueue
  <2> QED BY <2>1, <2>2, <2>3 DEF Produce, StepShape, Moved, Kept, Learnt
<1>3. CASE Prune
  <2> PICK targets \in SUBSET Events : Compact(targets)
    BY <1>3 DEF Prune
  <2>1. \A e \in Events : row'[e] = row[e] \/ (Terminal(row, e) /\ row'[e] = Emptied(row[e]))
    BY DEF Compact, Compactable
  <2>2. \A e \in Events : Kept(e)
    BY <2>1 DEF Kept, Emptied, Row
  <2> QED BY <1>3, <2>2 DEF Prune, Compact, StepShape, Moved, Learnt
<1>4. CASE UNCHANGED vars
  BY <1>4, NoRowShape DEF vars
<1> QED BY <1>1, <1>2, <1>3, <1>4, ClaimShape, AckProcessedShape, AckFailedShape,
           AckReleasedShape DEF Next

\* Every reachable table, and the callers' knowledge of it, is well typed, and a row
\* in a caller's hands carries a token and was charged for its claim.
THEOREM TypeCorrect == Spec => []TypeOK
<1>1. Init => ClaimsCharged
  BY DEF Init, TableInit, ClaimsCharged
<1>2. FieldsOK /\ ClaimsCharged /\ [Next]_vars => ClaimsCharged'
  <2> SUFFICES ASSUME FieldsOK, ClaimsCharged, [Next]_vars,
                      NEW e \in Events, row'[e].status = "processing"
               PROVE  row'[e].attempts > 0 /\ row'[e].token # NoToken
    BY DEF ClaimsCharged
  <2>1. Moved(e) /\ row[e].attempts \in Nat
    BY EveryStepShape DEF StepShape, FieldsOK, TableTypeOK, Row
  <2>2. Kept(e) \/ HandedOut(e)
    BY <2>1 DEF Moved, Produced, SweptAway, Acked, Outcome
  <2>3. CASE Kept(e)
    BY <2>3 DEF Kept, ClaimsCharged
  <2>4. CASE HandedOut(e)
    BY <2>1, <2>4, TokenAssumption DEF HandedOut, TokenAssumption
  <2> QED BY <2>2, <2>3, <2>4
<1> QED BY <1>1, <1>2, FieldsCorrect, PTL DEF Spec, TypeOK
-----------------------------------------------------------------------------
(***************************************************************************)
(* Settlement.  SettledByNewest is not inductive alone: a caller's answer  *)
(* can be trusted only because a token found in a row was issued for that  *)
(* row, an unused token has no answer, and the holder of a lease has not   *)
(* been answered yet.                                                      *)
(***************************************************************************)
TokensKnown ==
  /\ \A e \in Events : row[e].token # NoToken => claimOf[row[e].token] = e
  /\ \A t \in Tokens : t \notin Issued => answer[t] = "none"

HolderUnanswered ==
  \A e \in Events : row[e].status = "processing" =>
    row[e].token # NoToken /\ answer[row[e].token] = "none"

SettleInv == FieldsOK /\ TokensKnown /\ HolderUnanswered /\ SettledByNewest

LEMMA SettleInit == Init => SettleInv
<1> SUFFICES ASSUME Init PROVE TokensKnown /\ HolderUnanswered /\ SettledByNewest
  BY TypeInit DEF SettleInv
<1>1. Issued = {}
  BY DEF Init, Issued
<1> QED BY <1>1 DEF Init, TableInit, TokensKnown, HolderUnanswered, SettledByNewest

\* Tokens stay what they are: an issued one keeps its row, a row only ever
\* shows a token that was issued for it.
LEMMA TokensStep ==
  ASSUME SettleInv, StepShape, FieldsOK'
  PROVE  TokensKnown'
<1> USE DEF SettleInv, FieldsOK, TableTypeOK
<1>1. ASSUME NEW e \in Events, row'[e].token # NoToken
      PROVE  claimOf'[row'[e].token] = e
  <2>1. Moved(e)
    BY DEF StepShape
  <2>2. CASE HandedOut(e)
    BY <2>2 DEF HandedOut
  <2>3. CASE row'[e].token = row[e].token
    <3>1. row[e].token \in Tokens /\ claimOf[row[e].token] = e
      BY <1>1, <2>3 DEF TokensKnown, Row
    <3>2. Learnt(row[e].token) /\ row[e].token \in Issued
      BY <3>1, EventAssumption DEF EventAssumption, StepShape, Issued
    <3> QED BY <2>3, <3>1, <3>2 DEF Learnt
  <2> QED BY <2>1, <2>2, <2>3 DEF Moved, Kept, Produced, SweptAway, Acked
<1>2. ASSUME NEW t \in Tokens, t \notin Issued' PROVE answer'[t] = "none"
  <2>1. claimOf'[t] = NoEvent /\ Learnt(t)
    BY <1>2 DEF Issued, StepShape
  <2>2. t \notin Issued
    BY <2>1, EventAssumption DEF EventAssumption, Learnt, Issued
  <2> QED BY <2>1, <2>2 DEF Learnt, TokensKnown
<1> QED BY <1>1, <1>2 DEF TokensKnown

LEMMA HolderStep ==
  ASSUME SettleInv, StepShape, FieldsOK'
  PROVE  HolderUnanswered'
<1> USE DEF SettleInv, FieldsOK, TableTypeOK
<1> SUFFICES ASSUME NEW e \in Events, row'[e].status = "processing"
             PROVE  row'[e].token # NoToken /\ answer'[row'[e].token] = "none"
  BY DEF HolderUnanswered
<1>1. Moved(e)
  BY DEF StepShape
<1>2. CASE HandedOut(e)
  <2>1. row'[e].token \in Tokens /\ row'[e].token \notin Issued
    BY <1>2 DEF HandedOut
  <2>2. Learnt(row'[e].token) /\ answer[row'[e].token] = "none"
    BY <2>1 DEF StepShape, TokensKnown
  <2> QED BY <2>1, <2>2, TokenAssumption DEF TokenAssumption, Learnt
<1>3. CASE Kept(e)
  <2>1. row[e].status = "processing" /\ row'[e].token = row[e].token
    BY <1>3 DEF Kept
  <2>2. /\ row[e].token # NoToken /\ answer[row[e].token] = "none"
        /\ row[e].token \in Tokens /\ claimOf[row[e].token] = e
    BY <2>1 DEF HolderUnanswered, TokensKnown, Row
  <2>3. ~Acked(e)
    BY <1>3, <2>1 DEF Acked, Outcome, Kept
  <2>4. Learnt(row[e].token)
    BY <2>2 DEF StepShape
  <2> QED BY <2>1, <2>2, <2>3, <2>4 DEF Learnt
<1>4. ~Produced(e) /\ ~SweptAway(e) /\ ~Acked(e)
  BY DEF Produced, SweptAway, Acked, Outcome
<1> QED BY <1>1, <1>2, <1>3, <1>4 DEF Moved

LEMMA SettledStep ==
  ASSUME SettleInv, StepShape, FieldsOK'
  PROVE  SettledByNewest'
<1> USE DEF SettleInv, FieldsOK, TableTypeOK
\* A row that was settled is only ever Kept.
<1>1. ASSUME NEW e \in Events, Terminal(row, e) PROVE Kept(e)
  <2>1. Moved(e)
    BY DEF StepShape
  <2> QED BY <1>1, <2>1 DEF Moved, Produced, SweptAway, HandedOut, Acked, Terminal,
                            Open, TerminalStatus, OpenStatus
<1>2. ASSUME NEW t \in Tokens, t \in Issued',
             answer'[t] = "applied" \/ answer'[t] = "discarded"
      PROVE  /\ row'[claimOf'[t]].token = t
             /\ answer'[t] = "applied" => row'[claimOf'[t]].status = "processed"
             /\ answer'[t] = "discarded" => row'[claimOf'[t]].status = "discarded"
  <2>1. Learnt(t)
    BY DEF StepShape
  <2>2. CASE answer'[t] = answer[t]
    <3>1. t \in Issued
      BY <1>2, <2>2 DEF TokensKnown
    <3>2. claimOf[t] \in Events /\ claimOf'[t] = claimOf[t]
      BY <2>1, <3>1 DEF Learnt, Issued
    <3>3. /\ row[claimOf[t]].token = t
          /\ answer[t] = "applied" => row[claimOf[t]].status = "processed"
          /\ answer[t] = "discarded" => row[claimOf[t]].status = "discarded"
      BY <1>2, <2>2, <3>1 DEF SettledByNewest
    <3>4. Terminal(row, claimOf[t])
      BY <1>2, <2>2, <3>3 DEF Terminal, TerminalStatus
    <3>5. Kept(claimOf[t])
      BY <1>1, <3>2, <3>4
    <3> QED BY <2>2, <3>2, <3>3, <3>5 DEF Kept
  <2>3. CASE t \in Issued /\ row[claimOf[t]].token = t /\ Acked(claimOf[t])
    <3>1. claimOf'[t] = claimOf[t]
      BY <2>1, <2>3 DEF Learnt
    <3> QED BY <1>2, <2>3, <3>1 DEF Acked, Outcome
  <2> QED BY <2>1, <2>2, <2>3 DEF Learnt
<1>3. ASSUME NEW e \in Events, row'[e].status = "processed"
      PROVE  row'[e].token \in TokensOf(e)' /\ answer'[row'[e].token] = "applied"
  <2>1. Moved(e) /\ TokensKnown'
    BY TokensStep DEF StepShape
  <2>2. CASE Kept(e)
    <3>1. row[e].status = "processed" /\ row'[e].token = row[e].token
      BY <1>3, <2>2 DEF Kept
    <3>2. /\ row[e].token \in Tokens /\ claimOf[row[e].token] = e
          /\ answer[row[e].token] = "applied"
      BY <3>1 DEF SettledByNewest, TokensOf
    <3>3. Learnt(row[e].token) /\ row[e].token \in Issued
      BY <3>2, EventAssumption DEF EventAssumption, StepShape, Issued
    <3>4. ~Acked(e)
      BY <3>1 DEF Acked
    <3> QED BY <3>1, <3>2, <3>3, <3>4 DEF Learnt, TokensOf
  <2>3. CASE Acked(e)
    <3>1. /\ row[e].token \in Issued /\ row'[e].token = row[e].token
          /\ answer'[row[e].token] = "applied" /\ claimOf[row[e].token] = e
      BY <1>3, <2>3 DEF Acked, Outcome
    <3>2. row[e].token \in Tokens /\ Learnt(row[e].token)
      BY <3>1 DEF Issued, StepShape
    <3> QED BY <3>1, <3>2 DEF Learnt, TokensOf
  <2>4. ~Produced(e) /\ ~SweptAway(e) /\ ~HandedOut(e)
    BY <1>3 DEF Produced, SweptAway, HandedOut
  <2> QED BY <2>1, <2>2, <2>3, <2>4 DEF Moved
<1>4. \A t \in Issued' : t \in Tokens
  BY DEF Issued
<1> QED BY <1>2, <1>3, <1>4 DEF SettledByNewest

LEMMA SettleStep == SettleInv /\ [Next]_vars => SettleInv'
<1> SUFFICES ASSUME SettleInv, [Next]_vars PROVE SettleInv'
  OBVIOUS
<1>1. FieldsOK' /\ StepShape
  BY TypeStep, EveryStepShape DEF SettleInv
<1> QED BY <1>1, TokensStep, HolderStep, SettledStep DEF SettleInv

\* A caller that was told it settled an event did so, for good, and no other
\* caller is ever told the same: for any rows, callers, leases and schedules of
\* outbox_claim_batch, outbox_mark_* and outbox_release_unprocessed.
THEOREM SettledCorrect == Spec => []SettledByNewest
<1>1. SettleInv => SettledByNewest
  BY DEF SettleInv
<1> QED BY <1>1, SettleInit, SettleStep, PTL DEF Spec
-----------------------------------------------------------------------------
(***************************************************************************)
(* Settled rows, leases and the compactor.                                 *)
(***************************************************************************)
LEMMA TerminalKept ==
  ASSUME StepShape, NEW e \in Events, Terminal(row, e)
  PROVE  Kept(e)
<1>1. Moved(e)
  BY DEF StepShape
<1> QED BY <1>1 DEF Moved, Produced, SweptAway, HandedOut, Acked, Terminal,
                    Open, TerminalStatus, OpenStatus

\* A settled row is never claimed, requeued or settled another way, whichever
\* calls of outbox_claim_batch, the acknowledgements and the compactor follow.
THEOREM SettledForGood == Spec => SettledIsFinal
<1>1. FieldsOK /\ [Next]_vars =>
        [\A e \in Events : Terminal(row, e) =>
           /\ row'[e].status = row[e].status
           /\ row'[e].token = row[e].token
           /\ row[e].compacted => row'[e].compacted]_vars
  BY EveryStepShape, TerminalKept DEF Kept
<1> QED BY <1>1, FieldsCorrect, PTL DEF Spec, SettledIsFinal

\* While a claim's lease runs, only an acknowledgement with the claim's own
\* token changes the row: available_at fences the claim and its sweep, the
\* token and the status fence every acknowledgement.
THEOREM LeaseAlwaysRespected == Spec => LeaseRespected
<1>1. SettleInv /\ [Next]_vars =>
        [\A e \in Events :
           /\ row[e].status = "processing" /\ row[e].wait > 0
           /\ row'[e].status # "processing" \/ row'[e].token # row[e].token
           => answer[row[e].token] = "none" /\ answer'[row[e].token] # "none"]_vars
  <2> SUFFICES ASSUME SettleInv, [Next]_vars, NEW e \in Events,
                      row[e].status = "processing", row[e].wait > 0,
                      row'[e].status # "processing" \/ row'[e].token # row[e].token
               PROVE  answer[row[e].token] = "none" /\ answer'[row[e].token] # "none"
    OBVIOUS
  <2>1. Moved(e)
    BY EveryStepShape DEF SettleInv, StepShape
  <2>2. ~Kept(e) /\ ~Produced(e) /\ ~SweptAway(e) /\ ~HandedOut(e)
    BY DEF Kept, Produced, SweptAway, HandedOut, Due
  <2>3. Acked(e)
    BY <2>1, <2>2 DEF Moved
  <2>4. answer[row[e].token] = "none"
    BY DEF SettleInv, HolderUnanswered
  <2> QED BY <2>3, <2>4 DEF Acked, Outcome
<1> QED BY <1>1, SettleInit, SettleStep, PTL DEF Spec, LeaseRespected

LEMMA CompactedStep ==
  ASSUME StepShape, NoCompactedDelivery
  PROVE  NoCompactedDelivery'
<1> SUFFICES ASSUME NEW e \in Events, row'[e].compacted PROVE Terminal(row, e)' 
  BY DEF NoCompactedDelivery
<1>1. Moved(e)
  BY DEF StepShape
<1>2. CASE Terminal(row, e)
  BY <1>2, TerminalKept DEF Kept, Terminal
<1>3. CASE ~Terminal(row, e)
  <2>1. ~row[e].compacted
    BY <1>3 DEF NoCompactedDelivery
  <2> QED BY <1>1, <1>3, <2>1 DEF Moved, Kept, Produced, SweptAway, HandedOut, Acked
<1> QED BY <1>2, <1>3

\* No caller can be handed a row whose payload the compactor emptied.
THEOREM CompactedNeverDelivered == Spec => []NoCompactedDelivery
<1>1. Init => NoCompactedDelivery
  BY DEF Init, TableInit, NoCompactedDelivery
<1>2. FieldsOK /\ NoCompactedDelivery /\ [Next]_vars => NoCompactedDelivery'
  BY EveryStepShape, CompactedStep
<1> QED BY <1>1, <1>2, FieldsCorrect, PTL DEF Spec
-----------------------------------------------------------------------------
(***************************************************************************)
(* The ceiling.  A row enters the queue with no attempt behind it, so the  *)
(* invariant also speaks of the rows that are not in the queue yet.        *)
(***************************************************************************)
NewRowUntried ==
  \A e \in Events : row[e].status \in {"absent", "begun"} => row[e].attempts = 0

CeilingInv == FieldsOK /\ NewRowUntried /\ CeilingHolds

LEMMA CeilingStep == CeilingInv /\ [Next]_vars => CeilingInv'
<1> SUFFICES ASSUME CeilingInv, [Next]_vars PROVE CeilingInv'
  OBVIOUS
<1> USE DEF CeilingInv, FieldsOK, TableTypeOK
<1>1. FieldsOK' /\ StepShape
  BY TypeStep, EveryStepShape
<1>2. ASSUME NEW e \in Events
      PROVE  /\ row'[e].attempts <= MaxAttempts
             /\ row'[e].status \in {"pending", "failed"} => row'[e].attempts < MaxAttempts
             /\ row'[e].status \in {"absent", "begun"} => row'[e].attempts = 0
  <2>1. /\ row[e].attempts \in Nat /\ row[e].attempts <= MaxAttempts
        /\ row[e].status \in {"pending", "failed"} => row[e].attempts < MaxAttempts
        /\ row[e].status \in {"absent", "begun"} => row[e].attempts = 0
    BY DEF CeilingHolds, NewRowUntried, Row
  <2>2. Moved(e)
    BY <1>1 DEF StepShape
  <2>3. MaxAttempts \in Nat /\ MaxAttempts > 0
    BY CeilingAssumption DEF CeilingAssumption
  <2>4. CASE Kept(e)
    BY <2>1, <2>4 DEF Kept
  <2>5. CASE Produced(e)
    BY <2>1, <2>3, <2>5 DEF Produced
  <2>6. CASE SweptAway(e)
    BY <2>1, <2>6 DEF SweptAway
  <2>7. CASE HandedOut(e)
    BY <2>1, <2>3, <2>7 DEF HandedOut
  <2>8. CASE Acked(e)
    BY <2>1, <2>3, <2>8 DEF Acked, Outcome, Refund
  <2> QED BY <2>2, <2>4, <2>5, <2>6, <2>7, <2>8 DEF Moved
<1> QED BY <1>1, <1>2 DEF CeilingHolds, NewRowUntried

\* Whatever callers hand back, snooze, retry or forget, no row is claimed more
\* often than config.maxAttempts and no exhausted row waits in the queue.
THEOREM CeilingCorrect == Spec => []CeilingHolds
<1>1. Init => CeilingInv
  <2> SUFFICES ASSUME Init PROVE NewRowUntried /\ CeilingHolds
    BY TypeInit DEF CeilingInv
  <2>1. MaxAttempts \in Nat
    BY CeilingAssumption DEF CeilingAssumption
  <2> QED BY <2>1 DEF Init, TableInit, NewRowUntried, CeilingHolds
<1>2. CeilingInv => CeilingHolds
  BY DEF CeilingInv
<1> QED BY <1>1, <1>2, CeilingStep, PTL DEF Spec
-----------------------------------------------------------------------------
(***************************************************************************)
(* Refinement: the rail implements EventDelivery.                          *)
(***************************************************************************)
LEMMA DeliveryInit == Init => Delivery!Init
<1> SUFFICES ASSUME Init PROVE Delivery!Init
  OBVIOUS
<1>1. Issued = {} /\ {t \in Tokens : answer[t] = "applied"} = {}
  BY DEF Init, Issued
<1>2. \A e \in Events : PhaseOf(e) = "unborn" /\ row[e].token = NoToken
  BY DEF Init, TableInit, PhaseOf, TerminalStatus
<1> QED BY <1>1, <1>2 DEF Delivery!Init

\* Each move of a row is a step of the event's life, or none.
LEMMA DeliveryMove ==
  ASSUME SettleInv, StepShape, FieldsOK', NEW e \in Events
  PROVE  \/ PhaseOf(e)' = PhaseOf(e) /\ row'[e].token = row[e].token
         \/ /\ PhaseOf(e) = "unborn" /\ PhaseOf(e)' = "queued"
            /\ row'[e].token = row[e].token
         \/ /\ PhaseOf(e) \in {"queued", "held"} /\ PhaseOf(e)' = "held"
            /\ row'[e].token \in Issued' \ Issued
         \/ /\ PhaseOf(e) = "held" /\ PhaseOf(e)' = "queued"
            /\ row'[e].token = row[e].token
         \/ /\ PhaseOf(e) = "held" /\ PhaseOf(e)' = "processed"
            /\ row'[e].token = row[e].token
            /\ row[e].token \in {t \in Tokens : answer'[t] = "applied"}
         \/ /\ PhaseOf(e) \in {"queued", "held"} /\ PhaseOf(e)' = "discarded"
            /\ row'[e].token = row[e].token
<1> USE DEF PhaseOf, TerminalStatus, OpenStatus, Open
<1>1. Moved(e)
  BY DEF StepShape
<1>2. CASE Kept(e)
  BY <1>2 DEF Kept
<1>3. CASE Produced(e)
  BY <1>3 DEF Produced
<1>4. CASE SweptAway(e)
  BY <1>4 DEF SweptAway
<1>5. CASE HandedOut(e)
  <2>1. row'[e].token \in Issued' \ Issued
    BY <1>5, EventAssumption DEF EventAssumption, HandedOut, Issued
  <2> QED BY <1>5, <2>1 DEF HandedOut
<1>6. CASE Acked(e)
  <2>1. row[e].token \in Tokens
    BY <1>6 DEF Acked, Issued
  <2> QED BY <1>6, <2>1 DEF Acked, Outcome
<1> QED BY <1>1, <1>2, <1>3, <1>4, <1>5, <1>6 DEF Moved

LEMMA DeliveryStep == SettleInv /\ [Next]_vars => [Delivery!Next]_Delivery!vars
<1> SUFFICES ASSUME SettleInv, [Next]_vars PROVE Delivery!Next
  BY DEF Delivery!vars
<1> DEFINE winner == {t \in Tokens : answer[t] = "applied"}
<1>1. SettleInv' /\ StepShape
  BY SettleStep, EveryStepShape DEF SettleInv
<1>2. \A e \in Events :
        \/ Delivery!Rest(e) \/ Delivery!Publish(e) \/ Delivery!HandOut(e)
        \/ Delivery!GiveBack(e) \/ Delivery!Process(e) \/ Delivery!Discard(e)
  BY <1>1, DeliveryMove
  DEF SettleInv, Delivery!Rest, Delivery!Publish, Delivery!HandOut,
      Delivery!GiveBack, Delivery!Process, Delivery!Discard
<1>3. Issued \subseteq Issued'
  BY <1>1 DEF StepShape, Learnt, Issued
<1>4. winner \subseteq winner'
  <2> SUFFICES ASSUME NEW t \in Tokens, answer[t] = "applied"
               PROVE  answer'[t] = "applied"
    OBVIOUS
  <2>1. t \in Issued
    BY DEF SettleInv, TokensKnown
  <2>2. row[claimOf[t]].status = "processed"
    BY <2>1 DEF SettleInv, SettledByNewest
  <2>3. ~Acked(claimOf[t])
    BY <2>2 DEF Acked
  <2> QED BY <1>1, <2>3 DEF StepShape, Learnt
<1>5. ASSUME NEW t \in winner', t \notin winner
      PROVE  \E e \in Events : /\ PhaseOf(e) = "held" /\ PhaseOf(e)' = "processed"
                               /\ row[e].token = t
  <2>1. t \in Issued /\ row[claimOf[t]].token = t /\ Acked(claimOf[t]) /\ claimOf[t] \in Events
    BY <1>1, <1>5 DEF StepShape, Learnt, Issued, SettleInv, FieldsOK
  <2>2. row'[claimOf[t]].status = "processed" /\ row[claimOf[t]].status = "processing"
    BY <1>5, <2>1 DEF Acked, Outcome
  <2> QED BY <2>1, <2>2 DEF PhaseOf, TerminalStatus
<1>6. \A d, e \in Events : row'[d].token = row'[e].token /\ row'[e].token # NoToken => d = e
  BY <1>1 DEF SettleInv, TokensKnown
<1> QED BY <1>2, <1>3, <1>4, <1>5, <1>6 DEF Delivery!Next

\* Claims with leases, late and repeated acknowledgements, sweeps of exhausted
\* rows and the compactor together behave as the delivery of each event to one
\* holder at a time that is settled at most once.
THEOREM RailImplementsDelivery == Spec => ImplementsDelivery
  BY SettleInit, SettleStep, DeliveryInit, DeliveryStep, PTL
  DEF Spec, ImplementsDelivery, Delivery!Spec
-----------------------------------------------------------------------------
(***************************************************************************)
(* The order within an aggregate, for producers that run one after         *)
(* another.  A row enters the table as the youngest of its aggregate       *)
(* (BegunIsYoungest): that is what the barrier of the claim relies on, and *)
(* what overlapping producers break.                                       *)
(***************************************************************************)
BornInPast == \A e \in Events : row[e].born <= clock

NewRowUnclaimed ==
  \A e \in Events : row[e].status \in {"absent", "begun", "withdrawn"} =>
    row[e].token = NoToken

BegunIsYoungest ==
  \A d, e \in Events : row[d].status = "begun" /\ AggregateOf[d] = AggregateOf[e] =>
    ~Older(row, d, e)

OrderInv == FieldsOK /\ BornInPast /\ NewRowUnclaimed /\ BegunIsYoungest /\ AggregateOrder

LEMMA BornStep ==
  ASSUME OrderInv, StepShape, SerialProducers
  PROVE  BornInPast' /\ NewRowUnclaimed' /\ BegunIsYoungest'
<1> USE DEF OrderInv, FieldsOK, TableTypeOK
<1>1. \A e \in Events : Moved(e)
  BY DEF StepShape
<1>2. \A e \in Events : row[e] \in Row /\ row[e].born \in Nat
  BY DEF Row
<1>3. CASE \E x \in Events : BeginEnqueue(x)
  <2> PICK x \in Events : BeginEnqueue(x)
    BY <1>3
  <2>1. /\ row[x].status = "absent" /\ clock' = clock + 1
        /\ \A d \in Events : AggregateOf[d] = AggregateOf[x] => row[d].status # "begun"
        /\ \A d \in Events : d # x => row'[d] = row[d]
        /\ row'[x] = Begun(row[x], clock + 1)
    BY DEF BeginEnqueue
  <2>2. /\ row'[x].born = clock + 1 /\ row'[x].status = "begun"
        /\ row'[x].token = row[x].token
    BY <1>2, <2>1 DEF Begun, Row
  <2>3. BornInPast'
    BY <1>2, <2>1, <2>2 DEF BornInPast
  <2>4. NewRowUnclaimed'
    BY <2>1, <2>2 DEF NewRowUnclaimed
  <2>5. BegunIsYoungest'
    BY <1>2, <2>1, <2>2 DEF BegunIsYoungest, BornInPast, Older
  <2> QED BY <2>3, <2>4, <2>5
<1>4. CASE ~ \E x \in Events : BeginEnqueue(x)
  <2>1. \A e \in Events : /\ row'[e].born = row[e].born
                          /\ row'[e].status = "begun" => row[e].status = "begun"
    BY <1>1, <1>4 DEF Moved, Kept, Produced, SweptAway, HandedOut, Acked, Outcome
  <2>2. BornInPast'
    BY <1>2, <2>1 DEF StepShape, BornInPast
  <2>3. NewRowUnclaimed'
    BY <1>1, <1>4 DEF NewRowUnclaimed, Moved, Kept, Produced, SweptAway, HandedOut, Acked,
                      Outcome
  <2>4. BegunIsYoungest'
    BY <2>1 DEF BegunIsYoungest, Older
  <2> QED BY <2>2, <2>3, <2>4
<1> QED BY <1>3, <1>4

LEMMA OrderStep ==
  ASSUME OrderInv, StepShape, SerialProducers
  PROVE  AggregateOrder'
<1> USE DEF OrderInv, FieldsOK, TableTypeOK
<1> SUFFICES ASSUME NEW d \in Events, NEW e \in Events,
                    Precedes(d, e)', row'[e].token # NoToken
             PROVE  Terminal(row', d)
  BY DEF AggregateOrder, Terminal
<1>1. Moved(d) /\ Moved(e)
  BY DEF StepShape
<1>2. /\ AggregateOf[d] = AggregateOf[e] /\ Stored(row', d)
      /\ row'[d].born < row'[e].born
      /\ \A scope \in Scopes : TypeOf[e] \in scope.types => Barrier(scope, d)
  BY DEF Precedes, Older, Stored, Barrier
<1>3. NewRowUnclaimed'
  BY BornStep
<1>4. row'[e].status \notin {"absent", "begun", "withdrawn"}
  BY <1>3 DEF NewRowUnclaimed
<1>5. ~BeginEnqueue(d) /\ ~BeginEnqueue(e)
  <2>1. \A x \in Events : BeginEnqueue(x) => row'[x].status = "begun"
    <3> TAKE x \in Events
    <3> HAVE BeginEnqueue(x)
    <3>1. row'[x] = Begun(row[x], clock + 1)
      BY DEF BeginEnqueue
    <3> QED BY <3>1 DEF Begun, Row
  <2> QED BY <1>2, <1>4, <2>1 DEF Stored, OpenStatus, TerminalStatus
<1>6. row'[d].born = row[d].born /\ row'[e].born = row[e].born
  BY <1>1, <1>5 DEF Moved, Kept, Produced, SweptAway, HandedOut, Acked
<1>7. Older(row, d, e) /\ row[d].status # "begun"
  BY <1>2, <1>6 DEF Older, BegunIsYoungest
<1>8. Stored(row, d)
  BY <1>1, <1>2, <1>5, <1>7
  DEF Moved, Kept, Produced, SweptAway, HandedOut, Acked, Stored, Open, OpenStatus, TerminalStatus
<1>9. Precedes(d, e)
  BY <1>2, <1>7, <1>8 DEF Precedes
<1>10. CASE HandedOut(e)
  BY <1>9, <1>10 DEF HandedOut
<1>11. CASE ~HandedOut(e)
  <2>1. row[e].token # NoToken
    BY <1>1, <1>11 DEF Moved, Kept, Produced, SweptAway, Acked
  <2>2. Terminal(row, d)
    BY <1>9, <2>1 DEF AggregateOrder
  <2>3. Kept(d)
    BY <2>2, TerminalKept
  <2> QED BY <2>2, <2>3 DEF Kept, Terminal
<1> QED BY <1>10, <1>11

\* If the producers of an aggregate run one after another, no row is ever handed
\* to a caller before every older row that holds it back is settled, whichever
\* rows concurrent claims skip, sweep or retry.
THEOREM OrderCorrect ==
  ASSUME SerialProducers
  PROVE  Spec => []AggregateOrder
<1>1. Init => OrderInv
  <2> SUFFICES ASSUME Init
               PROVE  BornInPast /\ NewRowUnclaimed /\ BegunIsYoungest /\ AggregateOrder
    BY TypeInit DEF OrderInv
  <2>1. clock = 0 /\ \A e \in Events : /\ row[e].status = "absent" /\ row[e].born = 0
                                       /\ row[e].token = NoToken
    BY DEF Init, TableInit
  <2>2. BornInPast
    BY <2>1 DEF BornInPast
  <2>3. NewRowUnclaimed /\ BegunIsYoungest
    BY <2>1 DEF NewRowUnclaimed, BegunIsYoungest
  <2>4. AggregateOrder
    BY <2>1 DEF AggregateOrder
  <2> QED BY <2>2, <2>3, <2>4
<1>2. OrderInv /\ [Next]_vars => OrderInv'
  <2> SUFFICES ASSUME OrderInv, [Next]_vars PROVE OrderInv'
    OBVIOUS
  <2>1. FieldsOK' /\ StepShape
    BY TypeStep, EveryStepShape DEF OrderInv
  <2>2. BornInPast' /\ NewRowUnclaimed' /\ BegunIsYoungest'
    BY <2>1, BornStep
  <2>3. AggregateOrder'
    BY <2>1, OrderStep
  <2> QED BY <2>1, <2>2, <2>3 DEF OrderInv
<1>3. OrderInv => AggregateOrder
  BY DEF OrderInv
<1> QED BY <1>1, <1>2, <1>3, PTL DEF Spec
-----------------------------------------------------------------------------
(***************************************************************************)
(* Dedupe keys.                                                            *)
(***************************************************************************)
LEMMA KeyStep ==
  ASSUME StepShape, UniqueKey
  PROVE  UniqueKey'
<1> SUFFICES ASSUME NEW d \in Events, NEW e \in Events, d # e, KeyOf[d] = KeyOf[e],
                    Stored(row', d), Stored(row', e)
             PROVE  FALSE
  BY DEF UniqueKey, Stored
\* A row that is stored was stored before, or is the one row this step stores.
<1>1. ASSUME NEW x \in Events, Stored(row', x)
      PROVE  \/ Stored(row, x)
             \/ /\ ~DuplicateKey(x)
                /\ \A y \in Events : y # x => row'[y] = row[y]
  <2>1. Moved(x)
    BY DEF StepShape
  <2> QED BY <1>1, <2>1 DEF Moved, Kept, Produced, SweptAway, HandedOut, Acked, Stored,
                            Open, OpenStatus, TerminalStatus
<1>2. CASE Stored(row, d) /\ Stored(row, e)
  BY <1>2 DEF UniqueKey
<1>3. CASE ~Stored(row, d)
  BY <1>1, <1>3 DEF DuplicateKey, Stored
<1>4. CASE ~Stored(row, e)
  BY <1>1, <1>4 DEF DuplicateKey, Stored
<1> QED BY <1>2, <1>3, <1>4

\* A dedupe key names one stored row for ever, for overlapping producers too and
\* after the row was settled and compacted.
THEOREM KeysUnique == Spec => []UniqueKey
<1>1. Init => UniqueKey
  BY DEF Init, TableInit, UniqueKey, Stored, OpenStatus, TerminalStatus
<1>2. FieldsOK /\ UniqueKey /\ [Next]_vars => UniqueKey'
  BY EveryStepShape, KeyStep
<1> QED BY <1>1, <1>2, FieldsCorrect, PTL DEF Spec

\* Compaction never empties a row that may still be handed out and never frees a
\* key, whenever it runs.
THEOREM CompactionCorrect == Spec => []CompactionIsSafe
BY CompactedNeverDelivered, KeysUnique, PTL DEF CompactionIsSafe
-----------------------------------------------------------------------------
(***************************************************************************)
(* Refunds.                                                                *)
(***************************************************************************)
Charged(e) == {t \in TokensOf(e) : answer[t] \notin {"released", "snoozed"}}
SnoozedBy(e) == {t \in TokensOf(e) : answer[t] = "snoozed"}

ClaimsFinite == \A e \in Events : IsFiniteSet(TokensOf(e))

RefundInv == SettleInv /\ ClaimsFinite /\ RefundsBalance

\* A claim adds its token to the row's; no other move does.
LEMMA TokensOfStep ==
  ASSUME SettleInv, StepShape, NEW e \in Events
  PROVE  /\ HandedOut(e) => TokensOf(e)' = TokensOf(e) \cup {row'[e].token}
         /\ ~HandedOut(e) => TokensOf(e)' = TokensOf(e)
<1> USE DEF SettleInv, FieldsOK
<1>1. ASSUME NEW t \in TokensOf(e) PROVE t \in TokensOf(e)'
  BY EventAssumption DEF EventAssumption, TokensOf, StepShape, Learnt, Issued
<1>2. ASSUME NEW t \in TokensOf(e)', t \notin TokensOf(e)
      PROVE  HandedOut(e) /\ t = row'[e].token
  BY <1>2 DEF TokensOf, StepShape, Learnt
<1>3. HandedOut(e) => row'[e].token \in TokensOf(e)'
  BY DEF HandedOut, TokensOf
<1> QED BY <1>1, <1>2, <1>3

\* Only an acknowledgement changes what the tokens of a row were answered, and
\* only the answer of the token that holds the row.
LEMMA AnswersOfStep ==
  ASSUME SettleInv, StepShape, NEW e \in Events, NEW t \in TokensOf(e),
         ~Acked(e) \/ t # row[e].token
  PROVE  answer'[t] = answer[t]
<1>1. t \in Tokens /\ claimOf[t] = e
  BY DEF TokensOf
<1> QED BY <1>1 DEF StepShape, Learnt

LEMMA RefundStep ==
  ASSUME RefundInv, StepShape, NEW e \in Events
  PROVE  /\ IsFiniteSet(TokensOf(e)')
         /\ row'[e].attempts = Cardinality(Charged(e)')
         /\ row'[e].snoozes = Cardinality(SnoozedBy(e)')
<1> USE DEF RefundInv
<1>1. /\ IsFiniteSet(TokensOf(e))
      /\ row[e].attempts = Cardinality(Charged(e))
      /\ row[e].snoozes = Cardinality(SnoozedBy(e))
  BY DEF ClaimsFinite, RefundsBalance, Charged, SnoozedBy
<1>2. IsFiniteSet(Charged(e)) /\ IsFiniteSet(SnoozedBy(e))
  BY <1>1, FS_Subset DEF Charged, SnoozedBy
<1>3. row[e].attempts \in Nat /\ row[e].snoozes \in Nat
  BY DEF SettleInv, FieldsOK, TableTypeOK, Row
<1>4. CASE HandedOut(e)
  <2> DEFINE t == row'[e].token
  <2>1. /\ TokensOf(e)' = TokensOf(e) \cup {t}
        /\ row'[e].attempts = row[e].attempts + 1 /\ row'[e].snoozes = row[e].snoozes
        /\ t \in Tokens /\ t \notin Issued
    BY <1>4, TokensOfStep DEF HandedOut
  <2>2. t \notin TokensOf(e)
    BY <2>1, EventAssumption DEF EventAssumption, TokensOf, Issued
  <2>3. answer'[t] = "none"
    BY <2>1 DEF StepShape, Learnt, SettleInv, TokensKnown
  <2>4. ~Acked(e)
    BY <1>4 DEF HandedOut, Acked, Outcome
  <2>5. \A u \in TokensOf(e) : answer'[u] = answer[u]
    BY <2>4, AnswersOfStep
  <2>6. Charged(e)' = Charged(e) \cup {t} /\ SnoozedBy(e)' = SnoozedBy(e)
    BY <2>1, <2>3, <2>5 DEF Charged, SnoozedBy
  <2>7. t \notin Charged(e)
    BY <2>2 DEF Charged
  <2>8. Cardinality(Charged(e) \cup {t}) = Cardinality(Charged(e)) + 1
    BY <1>2, <2>7, FS_AddElement
  <2>9. IsFiniteSet(TokensOf(e) \cup {t})
    BY <1>1, FS_AddElement
  <2> QED BY <1>1, <2>1, <2>6, <2>8, <2>9
<1>5. CASE Acked(e)
  <2> DEFINE t == row[e].token
  <2>1. TokensOf(e)' = TokensOf(e)
    BY <1>5, TokensOfStep DEF HandedOut, Acked, Outcome
  <2>2. t \in TokensOf(e) /\ answer[t] = "none"
    BY <1>5 DEF Acked, TokensOf, Issued, SettleInv, HolderUnanswered
  <2>3. \A u \in TokensOf(e) : u # t => answer'[u] = answer[u]
    BY AnswersOfStep
  <2>4. t \in Charged(e) /\ t \notin SnoozedBy(e)
    BY <2>2 DEF Charged, SnoozedBy
  <2>5. Cardinality(Charged(e) \ {t}) = Cardinality(Charged(e)) - 1
    BY <1>2, <2>4, FS_RemoveElement
  <2>6. Cardinality(SnoozedBy(e) \cup {t}) = Cardinality(SnoozedBy(e)) + 1
    BY <1>2, <2>4, FS_AddElement
  <2>7. Cardinality(Charged(e) \ {t}) \in Nat
    BY <1>2, FS_RemoveElement, FS_CardinalityType
  <2>8. CASE /\ answer'[t] \in {"applied", "discarded", "failed"}
             /\ row'[e].attempts = row[e].attempts /\ row'[e].snoozes = row[e].snoozes
    <3>1. Charged(e)' = Charged(e) /\ SnoozedBy(e)' = SnoozedBy(e)
      BY <2>1, <2>2, <2>3, <2>8 DEF Charged, SnoozedBy
    <3> QED BY <1>1, <2>1, <2>8, <3>1
  <2>9. CASE /\ answer'[t] = "snoozed"
             /\ row'[e].attempts = Refund(row[e].attempts)
             /\ row'[e].snoozes = row[e].snoozes + 1
    <3>1. Charged(e)' = Charged(e) \ {t} /\ SnoozedBy(e)' = SnoozedBy(e) \cup {t}
      BY <2>1, <2>2, <2>3, <2>9 DEF Charged, SnoozedBy
    <3>2. row'[e].attempts = Cardinality(Charged(e) \ {t})
      BY <1>1, <1>3, <2>5, <2>7, <2>9 DEF Refund
    <3> QED BY <1>1, <2>1, <2>6, <2>9, <3>1, <3>2
  <2>10. CASE /\ answer'[t] = "released"
              /\ row'[e].attempts = Refund(row[e].attempts)
              /\ row'[e].snoozes = row[e].snoozes
    <3>1. Charged(e)' = Charged(e) \ {t} /\ SnoozedBy(e)' = SnoozedBy(e)
      BY <2>1, <2>2, <2>3, <2>10 DEF Charged, SnoozedBy
    <3>2. row'[e].attempts = Cardinality(Charged(e) \ {t})
      BY <1>1, <1>3, <2>5, <2>7, <2>10 DEF Refund
    <3> QED BY <1>1, <2>1, <2>10, <3>1, <3>2
  <2> QED BY <1>5, <2>8, <2>9, <2>10 DEF Acked, Outcome
<1>6. CASE ~HandedOut(e) /\ ~Acked(e)
  <2>1. row'[e].attempts = row[e].attempts /\ row'[e].snoozes = row[e].snoozes
    BY <1>6 DEF StepShape, Moved, Kept, Produced, SweptAway
  <2>2. TokensOf(e)' = TokensOf(e)
    BY <1>6, TokensOfStep
  <2>3. \A u \in TokensOf(e) : answer'[u] = answer[u]
    BY <1>6, AnswersOfStep
  <2>4. Charged(e)' = Charged(e) /\ SnoozedBy(e)' = SnoozedBy(e)
    BY <2>2, <2>3 DEF Charged, SnoozedBy
  <2> QED BY <1>1, <2>1, <2>2, <2>4
<1> QED BY <1>4, <1>5, <1>6

\* The attempt counter of a row is the number of its claims that were not handed
\* back, and its snooze counter the number of its snoozes: no late, repeated or
\* missing call of outbox_mark_failed or outbox_release_unprocessed refunds an
\* attempt twice or loses a refund.
THEOREM RefundsCorrect == Spec => []RefundsBalance
<1>1. Init => RefundInv
  <2> SUFFICES ASSUME Init PROVE ClaimsFinite /\ RefundsBalance
    BY SettleInit DEF RefundInv
  <2>1. \A e \in Events : /\ TokensOf(e) = {} /\ Charged(e) = {} /\ SnoozedBy(e) = {}
                          /\ row[e].attempts = 0 /\ row[e].snoozes = 0
    BY EventAssumption DEF EventAssumption, Init, TableInit, TokensOf, Charged, SnoozedBy
  <2> QED BY <2>1, FS_EmptySet DEF ClaimsFinite, RefundsBalance, Charged, SnoozedBy
<1>2. RefundInv /\ [Next]_vars => RefundInv'
  <2> SUFFICES ASSUME RefundInv, [Next]_vars PROVE RefundInv'
    OBVIOUS
  <2>1. SettleInv' /\ StepShape
    BY SettleStep, EveryStepShape DEF RefundInv, SettleInv
  <2>2. ClaimsFinite'
    BY <2>1, RefundStep DEF ClaimsFinite
  <2>3. RefundsBalance'
    BY <2>1, RefundStep DEF RefundsBalance, Charged, SnoozedBy
  <2> QED BY <2>1, <2>2, <2>3 DEF RefundInv
<1>3. RefundInv => RefundsBalance
  BY DEF RefundInv
<1> QED BY <1>1, <1>2, <1>3, PTL DEF Spec
=============================================================================
