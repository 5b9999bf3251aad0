------------------------- MODULE OutboxTableProofs -------------------------
(***************************************************************************)
(* Facts about the rows of OutboxTable that the proofs about its callers,  *)
(* OutboxRailProofs and OutboxDispatchProofs, share.                       *)
(***************************************************************************)
EXTENDS OutboxTable, TLAPS

\* What an operation writes into a row is a row again.
LEMMA WritesAreRows ==
  ASSUME NEW r \in Row
  PROVE  /\ Discarded(r) \in Row /\ Processed(r) \in Row /\ Snoozed(r) \in Row
         /\ \A t \in Tokens : Claimed(r, t) \in Row
         /\ \A delay \in Nat : Retried(r, delay) \in Row /\ Released(r, delay) \in Row
         /\ \A rank \in Nat : Begun(r, rank) \in Row
         /\ \A delay \in Nat : Committed(r, delay) \in Row
         /\ Withdrawn(r) \in Row /\ Emptied(r) \in Row /\ Aged(r) \in Row
<1> USE DelayAssumption DEF DelayAssumption
<1>1. \A n \in Nat : CountDown(n) \in Nat /\ Refund(n) \in Nat
  BY DEF CountDown, Refund
<1>2. \A s \in {"pending", "failed", "processing", "processed", "discarded",
                "begun", "withdrawn"} : s \in Status
  BY DEF Status, OpenStatus, TerminalStatus
<1>3. r.attempts + 1 \in Nat /\ r.snoozes + 1 \in Nat
  BY DEF Row
<1>4. Discarded(r) \in Row /\ Processed(r) \in Row
  BY <1>2 DEF Row, Discarded, Processed
<1>5. Snoozed(r) \in Row
  BY <1>1, <1>2, <1>3 DEF Row, Snoozed
<1>6. \A t \in Tokens : Claimed(r, t) \in Row
  BY <1>2, <1>3 DEF Row, Claimed
<1>7. \A delay \in Nat : Retried(r, delay) \in Row
  BY <1>2 DEF Row, Retried
<1>8. \A delay \in Nat : Released(r, delay) \in Row
  BY <1>1, <1>2 DEF Row, Released
<1>9. Emptied(r) \in Row /\ Aged(r) \in Row
  BY <1>1 DEF Row, Emptied, Aged
<1>10. (\A rank \in Nat : Begun(r, rank) \in Row) /\ Withdrawn(r) \in Row
  BY <1>2 DEF Row, Begun, Withdrawn
<1>11. \A delay \in Nat : Committed(r, delay) \in Row
  BY <1>2 DEF Row, Committed
<1> QED BY <1>4, <1>5, <1>6, <1>7, <1>8, <1>9, <1>10, <1>11

\* Time passing over a row touches its two timers only.
LEMMA AgeTouchesTimers ==
  ASSUME NEW r \in Row
  PROVE  /\ Aged(r).status = r.status /\ Aged(r).token = r.token
         /\ Aged(r).attempts = r.attempts /\ Aged(r).born = r.born
         /\ Aged(r).compacted = r.compacted /\ Aged(r).snoozes = r.snoozes
<1>1. r.wait \in Nat /\ r.keep \in Nat
  BY DEF Row
<1>2. CountDown(r.wait) \in Nat /\ CountDown(r.keep) \in Nat
  BY <1>1 DEF CountDown
<1> QED BY <1>2 DEF Aged, Row

\* What a claim does to one row: it hands the row out, sweeps it away or leaves
\* it, and it touches only rows that are open and due.
LEMMA ClaimedRow ==
  ASSUME TableTypeOK, NEW scope, NEW locked, NEW batch, NEW given,
         ClaimBatch(scope, locked, batch, given), NEW e \in Events
  PROVE  \/ /\ e \in batch /\ Open(row, e) /\ Due(row, e) /\ row[e].attempts < MaxAttempts
            /\ row'[e] = Claimed(row[e], given[e])
         \/ e \notin batch /\ row'[e] = row[e]
         \/ /\ e \notin batch /\ Open(row, e) /\ Due(row, e)
            /\ row'[e] = Discarded(row[e])
<1> DEFINE swept == Swept(scope, locked)
<1>1. row[e] \in Row
  BY DEF TableTypeOK
<1>2. \/ swept[e] = row[e]
      \/ Open(row, e) /\ Due(row, e) /\ swept[e] = Discarded(row[e])
  BY DEF Swept, Exhausted
<1>3. e \in batch => Open(swept, e) /\ Due(swept, e) /\ swept[e].attempts < MaxAttempts
  BY DEF ClaimBatch, IsOldest, Candidates
<1>4. row'[e] = IF e \in batch THEN Claimed(swept[e], given[e]) ELSE swept[e]
  BY DEF ClaimBatch
<1>5. CASE e \in batch
  <2>1. ~(swept[e] = Discarded(row[e]))
    BY <1>1, <1>3, <1>5 DEF Open, OpenStatus, Discarded, Row
  <2> QED BY <1>2, <1>3, <1>4, <1>5, <2>1 DEF Open, Due
<1>6. CASE e \notin batch
  BY <1>2, <1>4, <1>6
<1> QED BY <1>5, <1>6

\* Every operation of the table leaves it well typed.
LEMMA OperationsTyped ==
  ASSUME TableTypeOK
  PROVE  /\ row' = TickRows /\ UNCHANGED clock => TableTypeOK'
         /\ \A e \in Events : BeginEnqueue(e) => TableTypeOK'
         /\ \A e \in Events, delay \in Nat : CommitEnqueue(e, delay) => TableTypeOK'
         /\ \A e \in Events : \A t : MarkProcessed(e, t) => TableTypeOK'
         /\ \A e \in Events : \A t, outcome : MarkFailed(e, t, outcome) => TableTypeOK'
         /\ \A held, delay : delay \in Nat /\ Release(held, delay) => TableTypeOK'
<1> USE WritesAreRows DEF TableTypeOK
<1>1. row' = TickRows /\ UNCHANGED clock => TableTypeOK'
  BY DEF TickRows
<1>2. \A e \in Events : BeginEnqueue(e) => TableTypeOK'
  BY DEF BeginEnqueue
<1>3. \A e \in Events, delay \in Nat : CommitEnqueue(e, delay) => TableTypeOK'
  BY DEF CommitEnqueue
<1>4. \A e \in Events : \A t : MarkProcessed(e, t) => TableTypeOK'
  BY DEF MarkProcessed
<1>5. ASSUME NEW e \in Events, NEW t, NEW outcome, MarkFailed(e, t, outcome)
      PROVE  TableTypeOK'
  <2>1. \A delay \in BackoffDelays(row[e].attempts) : delay \in Nat
    BY DelayAssumption DEF DelayAssumption, BackoffDelays
  <2>2. clock' = clock /\ \/ row' = row
                          \/ row' = [row EXCEPT ![e] = Discarded(@)]
                          \/ row' = [row EXCEPT ![e] = Snoozed(@)]
                          \/ \E delay \in Nat : row' = [row EXCEPT ![e] = Retried(@, delay)]
    BY <1>5, <2>1 DEF MarkFailed
  <2> QED BY <2>2
<1>6. \A held, delay : delay \in Nat /\ Release(held, delay) => TableTypeOK'
  BY DEF Release
<1> QED BY <1>1, <1>2, <1>3, <1>4, <1>5, <1>6

LEMMA ClaimTyped ==
  ASSUME TableTypeOK, NEW scope, NEW locked, NEW batch, NEW given,
         ClaimBatch(scope, locked, batch, given),
         \A e \in batch : given[e] \in Tokens
  PROVE  TableTypeOK'
<1>1. ASSUME NEW e \in Events PROVE row'[e] \in Row
  <2>1. \/ e \in batch /\ row'[e] = Claimed(row[e], given[e])
        \/ row'[e] = row[e]
        \/ row'[e] = Discarded(row[e])
    BY ClaimedRow
  <2>2. row[e] \in Row
    BY DEF TableTypeOK
  <2> QED BY <2>1, <2>2, WritesAreRows
<1> DEFINE claimed == [e \in Events |-> IF e \in batch
                                          THEN Claimed(Swept(scope, locked)[e], given[e])
                                          ELSE Swept(scope, locked)[e]]
<1>2. row' = claimed /\ clock' = clock
  BY DEF ClaimBatch
<1>3. \A e \in Events : claimed[e] \in Row
  BY <1>1, <1>2
<1>4. claimed \in [Events -> Row]
  BY <1>3
<1> QED BY <1>2, <1>4 DEF TableTypeOK

\* Only outbox_mark_processed makes a row "processed", and only the row it names.
NoneNewlyProcessed ==
  \A e \in Events : row'[e].status = "processed" => row[e].status = "processed"

LEMMA OnlyMarkProcesses ==
  ASSUME TableTypeOK
  PROVE  /\ row' = TickRows => NoneNewlyProcessed
         /\ \A e \in Events : BeginEnqueue(e) => NoneNewlyProcessed
         /\ \A e \in Events, delay \in Nat : CommitEnqueue(e, delay) => NoneNewlyProcessed
         /\ \A e \in Events : \A t, outcome : MarkFailed(e, t, outcome) => NoneNewlyProcessed
         /\ \A held, delay : Release(held, delay) => NoneNewlyProcessed
         /\ \A e \in Events : \A t : MarkProcessed(e, t) =>
              \A d \in Events : d # e => row'[d] = row[d]
<1> USE DEF NoneNewlyProcessed
<1>1. /\ row \in [Events -> Row] /\ \A e \in Events : row[e] \in Row
  BY DEF TableTypeOK
<1>2. ASSUME NEW e \in Events
      PROVE  /\ Aged(row[e]).status = row[e].status
             /\ Discarded(row[e]).status = "discarded" /\ Snoozed(row[e]).status = "failed"
             /\ \A x : /\ Retried(row[e], x).status = "failed"
                       /\ Released(row[e], x).status = "pending"
                       /\ Begun(row[e], x).status = "begun"
                       /\ Committed(row[e], x).status = "pending"
             /\ Withdrawn(row[e]).status = "withdrawn"
  BY <1>1 DEF Row, Aged, Discarded, Snoozed, Retried, Released, Begun, Committed, Withdrawn
<1>3. row' = TickRows => NoneNewlyProcessed
  BY <1>2 DEF TickRows
<1>4. \A e \in Events : BeginEnqueue(e) => NoneNewlyProcessed
  BY <1>1, <1>2 DEF BeginEnqueue
<1>5. \A e \in Events, delay \in Nat : CommitEnqueue(e, delay) => NoneNewlyProcessed
  BY <1>1, <1>2 DEF CommitEnqueue
<1>6. ASSUME NEW e \in Events, NEW t, NEW outcome, MarkFailed(e, t, outcome)
      PROVE  NoneNewlyProcessed
  <2>1. \/ row' = row
        \/ row' = [row EXCEPT ![e] = Discarded(row[e])]
        \/ row' = [row EXCEPT ![e] = Snoozed(row[e])]
        \/ \E delay : row' = [row EXCEPT ![e] = Retried(row[e], delay)]
    BY <1>6 DEF MarkFailed
  <2> QED BY <1>1, <1>2, <2>1
<1>7. \A held, delay : Release(held, delay) => NoneNewlyProcessed
  BY <1>2 DEF Release
<1>8. \A e \in Events : \A t : MarkProcessed(e, t) => \A d \in Events : d # e => row'[d] = row[d]
  BY <1>1 DEF MarkProcessed
<1> QED BY <1>3, <1>4, <1>5, <1>6, <1>7, <1>8

LEMMA ClaimProcessesNone ==
  ASSUME TableTypeOK, NEW scope, NEW locked, NEW batch, NEW given,
         ClaimBatch(scope, locked, batch, given)
  PROVE  NoneNewlyProcessed
<1> SUFFICES ASSUME NEW e \in Events, row'[e].status = "processed"
             PROVE  row[e].status = "processed"
  BY DEF NoneNewlyProcessed
<1>1. \/ row'[e] = Claimed(row[e], given[e])
      \/ row'[e] = row[e]
      \/ row'[e] = Discarded(row[e])
  BY ClaimedRow
<1>2. row[e] \in Row
  BY DEF TableTypeOK
<1> QED BY <1>1, <1>2 DEF Claimed, Discarded, Row

\* The claim handed e out in turn: no open row that is older, of the same aggregate
\* and a barrier to the caller is left.
ClaimedInTurn(scope, e) ==
  /\ TypeOf[e] \in scope.types
  /\ \A d \in Events :
       AggregateOf[d] = AggregateOf[e] /\ Older(row, d, e) /\ Barrier(scope, d) => ~Open(row', d)

\* What every operation but the start of a producer does to ages and statuses, for
\* the claims of these callers.
RowsMove(scopes) ==
  /\ clock' = clock
  /\ \A e \in Events :
       /\ row'[e].born = row[e].born
       /\ row'[e].status = "begun" => row[e].status = "begun"
       /\ row'[e].status = "absent" <=> row[e].status = "absent"
       /\ Stored(row', e) => Stored(row, e) \/ row[e].status = "begun"
       /\ Terminal(row, e) => Terminal(row', e)
       /\ row'[e].status = "processing" =>
            row[e].status = "processing" \/ \E scope \in scopes : ClaimedInTurn(scope, e)

\* One row of such a step, when it is not claimed.
RowMoves(e) ==
  /\ row'[e].born = row[e].born
  /\ \/ row'[e].status = row[e].status
     \/ row[e].status = "begun" /\ row'[e].status \in {"pending", "withdrawn"}
     \/ Open(row, e) /\ row'[e].status \in {"pending", "failed"} \cup TerminalStatus

LEMMA UnclaimedMove ==
  ASSUME clock' = clock, \A e \in Events : RowMoves(e)
  PROVE  \A scopes : RowsMove(scopes)
<1>1. \A e \in Events :
        /\ row'[e].born = row[e].born
        /\ row'[e].status = "begun" => row[e].status = "begun"
        /\ row'[e].status = "absent" <=> row[e].status = "absent"
        /\ Stored(row', e) => Stored(row, e) \/ row[e].status = "begun"
        /\ Terminal(row, e) => Terminal(row', e)
        /\ row'[e].status = "processing" => row[e].status = "processing"
  BY DEF RowMoves, Stored, Open, Terminal, OpenStatus, TerminalStatus
<1> QED BY <1>1 DEF RowsMove

LEMMA WritesMove ==
  ASSUME TableTypeOK, NEW e \in Events
  PROVE  /\ Aged(row[e]).status = row[e].status /\ Aged(row[e]).born = row[e].born
         /\ Discarded(row[e]).status = "discarded" /\ Discarded(row[e]).born = row[e].born
         /\ Processed(row[e]).status = "processed" /\ Processed(row[e]).born = row[e].born
         /\ Snoozed(row[e]).status = "failed" /\ Snoozed(row[e]).born = row[e].born
         /\ \A x : /\ Retried(row[e], x).status = "failed" /\ Retried(row[e], x).born = row[e].born
                   /\ Released(row[e], x).status = "pending" /\ Released(row[e], x).born = row[e].born
                   /\ Committed(row[e], x).status = "pending"
                   /\ Committed(row[e], x).born = row[e].born
         /\ Withdrawn(row[e]).status = "withdrawn" /\ Withdrawn(row[e]).born = row[e].born
<1>1. row[e] \in Row
  BY DEF TableTypeOK
<1> QED BY <1>1 DEF Row, Aged, Discarded, Processed, Snoozed, Retried, Released, Committed, Withdrawn

LEMMA OperationsMove ==
  ASSUME TableTypeOK, NEW scopes
  PROVE  /\ row' = row /\ UNCHANGED clock => RowsMove(scopes)
         /\ row' = TickRows /\ UNCHANGED clock => RowsMove(scopes)
         /\ \A e \in Events, delay \in Nat : CommitEnqueue(e, delay) => RowsMove(scopes)
         /\ \A e \in Events : \A t : MarkProcessed(e, t) => RowsMove(scopes)
         /\ \A e \in Events : \A t, outcome : MarkFailed(e, t, outcome) => RowsMove(scopes)
         /\ \A held, delay : Release(held, delay) => RowsMove(scopes)
<1> USE DEF RowMoves
<1>1. row \in [Events -> Row]
  BY DEF TableTypeOK
<1>2. row' = row /\ UNCHANGED clock => RowsMove(scopes)
  BY UnclaimedMove
<1>3. row' = TickRows /\ UNCHANGED clock => RowsMove(scopes)
  BY WritesMove, UnclaimedMove DEF TickRows
<1>4. \A e \in Events, delay \in Nat : CommitEnqueue(e, delay) => RowsMove(scopes)
  BY <1>1, WritesMove, UnclaimedMove DEF CommitEnqueue
<1>5. \A e \in Events : \A t : MarkProcessed(e, t) => RowsMove(scopes)
  BY <1>1, WritesMove, UnclaimedMove DEF MarkProcessed, Holds, Open, OpenStatus, TerminalStatus
<1>6. ASSUME NEW e \in Events, NEW t, NEW outcome, MarkFailed(e, t, outcome)
      PROVE  RowsMove(scopes)
  <2>1. CASE row' = row
    BY <1>2, <1>6, <2>1 DEF MarkFailed
  <2>2. CASE row' # row
    <3>1. clock' = clock /\ Holds(e, t)
          /\ \/ row' = [row EXCEPT ![e] = Discarded(row[e])]
             \/ row' = [row EXCEPT ![e] = Snoozed(row[e])]
             \/ \E delay : row' = [row EXCEPT ![e] = Retried(row[e], delay)]
      BY <1>6, <2>2 DEF MarkFailed, FailedAnswer
    <3>2. \A d \in Events : d # e => row'[d] = row[d]
      BY <1>1, <3>1
    <3>3. row'[e].born = row[e].born /\ row'[e].status \in {"discarded", "failed"} /\ Open(row, e)
      BY <1>1, <3>1, WritesMove DEF Holds, Open, OpenStatus
    <3> QED BY <3>1, <3>2, <3>3, UnclaimedMove DEF TerminalStatus
  <2> QED BY <2>1, <2>2
<1>7. ASSUME NEW held, NEW delay, Release(held, delay)
      PROVE  RowsMove(scopes)
  <2>1. \A e \in Events : \/ row'[e] = row[e]
                          \/ Open(row, e) /\ row'[e] = Released(row[e], delay)
    BY <1>7 DEF Release, Holds, Open, OpenStatus
  <2>2. \A e \in Events : RowMoves(e)
    BY <2>1, WritesMove
  <2> QED BY <1>7, <2>2, UnclaimedMove DEF Release
<1> QED BY <1>2, <1>3, <1>4, <1>5, <1>6, <1>7

LEMMA ClaimMoves ==
  ASSUME TableTypeOK, NEW scope, NEW locked, NEW batch, NEW given, NEW scopes, scope \in scopes,
         ClaimBatch(scope, locked, batch, given)
  PROVE  RowsMove(scopes)
<1> DEFINE swept == Swept(scope, locked)
<1>1. ASSUME NEW e \in Events
      PROVE  \/ /\ e \in batch /\ row'[e] = Claimed(row[e], given[e]) /\ Open(row, e)
             \/ e \notin batch /\ row'[e] = row[e]
             \/ e \notin batch /\ Open(row, e) /\ row'[e] = Discarded(row[e])
  BY ClaimedRow
<1>2. ASSUME NEW e \in Events
      PROVE  /\ swept[e].born = row[e].born /\ row[e] \in Row
             /\ e \in batch => Open(swept, e)
             /\ row'[e] = IF e \in batch THEN Claimed(swept[e], given[e]) ELSE swept[e]
  BY WritesMove DEF Swept, ClaimBatch, IsOldest, Candidates, TableTypeOK
<1>3. ASSUME NEW e \in batch, NEW d \in Events, AggregateOf[d] = AggregateOf[e],
             Older(row, d, e), Barrier(scope, d)
      PROVE  ~Open(row', d)
  <2>1. e \in Events /\ ~Blocked(swept, scope, e)
    BY DEF ClaimBatch, IsOldest, Candidates
  <2>2. Older(swept, d, e)
    BY <1>2, <1>3, <2>1 DEF Older
  <2>3. ~Open(swept, d)
    BY <1>3, <2>1, <2>2 DEF Blocked
  <2> QED BY <1>2, <2>3 DEF Open
<1>4. \A e \in batch : e \in Events /\ TypeOf[e] \in scope.types
  BY DEF ClaimBatch, IsOldest, Candidates
<1>5. \A e \in batch : ClaimedInTurn(scope, e)
  BY <1>3, <1>4 DEF ClaimedInTurn
<1>6. ASSUME NEW e \in Events
      PROVE  \/ RowMoves(e)
             \/ /\ ClaimedInTurn(scope, e) /\ row'[e].born = row[e].born
                /\ row'[e].status = "processing" /\ Open(row, e)
  <2>1. CASE e \in batch
    BY <1>1, <1>2, <1>5, <2>1 DEF Claimed, Row
  <2>2. CASE e \notin batch
    BY <1>1, <2>2, WritesMove DEF RowMoves, TerminalStatus
  <2> QED BY <2>1, <2>2
<1>7. \A e \in Events :
        /\ row'[e].born = row[e].born
        /\ row'[e].status = "begun" => row[e].status = "begun"
        /\ row'[e].status = "absent" <=> row[e].status = "absent"
        /\ Stored(row', e) => Stored(row, e) \/ row[e].status = "begun"
        /\ Terminal(row, e) => Terminal(row', e)
        /\ row'[e].status = "processing" =>
             row[e].status = "processing" \/ ClaimedInTurn(scope, e)
  BY <1>6 DEF RowMoves, Stored, Open, Terminal, OpenStatus, TerminalStatus
<1> QED BY <1>7 DEF RowsMove, ClaimBatch

\* The life of one row in one transaction, for the claims of these callers.
Lives(scopes, e) ==
  \/ /\ row'[e].status = row[e].status /\ row'[e].born = row[e].born
     /\ row'[e].attempts = row[e].attempts /\ row'[e].token = row[e].token
  \/ /\ BeginEnqueue(e) /\ row[e].status = "absent" /\ row'[e].status = "begun"
     /\ row'[e].born = clock + 1
     /\ row'[e].attempts = row[e].attempts /\ row'[e].token = row[e].token
  \/ /\ row[e].status = "begun" /\ row'[e].status \in {"pending", "withdrawn"}
     /\ row'[e].born = row[e].born
     /\ row'[e].attempts = row[e].attempts /\ row'[e].token = row[e].token
  \/ /\ Open(row, e) /\ row'[e].status = "processing"
     /\ row'[e].born = row[e].born /\ row'[e].token \in Tokens
     /\ row[e].attempts < MaxAttempts /\ row'[e].attempts = row[e].attempts + 1
     /\ \E scope \in scopes : ClaimedInTurn(scope, e)
  \/ /\ Open(row, e) /\ row'[e].status \in TerminalStatus
     /\ row[e].status = "processing" \/ row[e].attempts >= MaxAttempts
     /\ row'[e].born = row[e].born
     /\ row'[e].attempts = row[e].attempts /\ row'[e].token = row[e].token
  \/ /\ row[e].status = "processing" /\ row'[e].status \in {"pending", "failed"}
     /\ row'[e].born = row[e].born /\ row'[e].token = row[e].token
     /\ \/ row'[e].attempts = row[e].attempts /\ row[e].attempts < MaxAttempts
        \/ row'[e].attempts = Refund(row[e].attempts)

LEMMA WritesLive ==
  ASSUME TableTypeOK, NEW e \in Events
  PROVE  /\ \A r \in {Aged(row[e]), Discarded(row[e]), Processed(row[e]), Withdrawn(row[e])} :
              /\ r.born = row[e].born /\ r.attempts = row[e].attempts /\ r.token = row[e].token
         /\ \A x : /\ Retried(row[e], x).born = row[e].born
                   /\ Retried(row[e], x).attempts = row[e].attempts
                   /\ Retried(row[e], x).token = row[e].token
                   /\ Released(row[e], x).born = row[e].born
                   /\ Released(row[e], x).attempts = Refund(row[e].attempts)
                   /\ Released(row[e], x).token = row[e].token
                   /\ Committed(row[e], x).born = row[e].born
                   /\ Committed(row[e], x).attempts = row[e].attempts
                   /\ Committed(row[e], x).token = row[e].token
                   /\ Begun(row[e], x).status = "begun" /\ Begun(row[e], x).born = x
                   /\ Begun(row[e], x).attempts = row[e].attempts
                   /\ Begun(row[e], x).token = row[e].token
                   /\ Claimed(row[e], x).status = "processing"
                   /\ Claimed(row[e], x).born = row[e].born
                   /\ Claimed(row[e], x).attempts = row[e].attempts + 1
                   /\ Claimed(row[e], x).token = x
         /\ Snoozed(row[e]).born = row[e].born /\ Snoozed(row[e]).token = row[e].token
         /\ Snoozed(row[e]).attempts = Refund(row[e].attempts)
<1>1. row[e] \in Row
  BY DEF TableTypeOK
<1> QED BY <1>1 DEF Row, Aged, Discarded, Processed, Snoozed, Retried, Released, Committed,
                    Withdrawn, Begun, Claimed

LEMMA OperationsLive ==
  ASSUME TableTypeOK, NEW scopes, NEW e \in Events
  PROVE  /\ row' = row => Lives(scopes, e)
         /\ row' = TickRows => Lives(scopes, e)
         /\ \A x \in Events : BeginEnqueue(x) => Lives(scopes, e)
         /\ \A x \in Events, delay \in Nat : CommitEnqueue(x, delay) => Lives(scopes, e)
         /\ \A x \in Events : \A t : MarkProcessed(x, t) => Lives(scopes, e)
         /\ \A x \in Events, outcome \in {"retry", "discard", "snooze"} :
              \A t : MarkFailed(x, t, outcome) => Lives(scopes, e)
         /\ \A held, delay : Release(held, delay) => Lives(scopes, e)
<1>1. row \in [Events -> Row] /\ row[e] \in Row /\ row[e].attempts \in Nat
      /\ MaxAttempts \in Nat
  BY CeilingAssumption DEF TableTypeOK, Row, CeilingAssumption
<1>2. row'[e] = row[e] => Lives(scopes, e)
  BY DEF Lives
<1>3. row' = TickRows => Lives(scopes, e)
  BY <1>1, WritesMove, WritesLive DEF TickRows, Lives
<1>4. ASSUME NEW x \in Events, BeginEnqueue(x) PROVE Lives(scopes, e)
  <2>1. CASE x = e
    <3>1. row[e].status = "absent" /\ row'[e] = Begun(row[e], clock + 1)
      BY <1>1, <1>4, <2>1 DEF BeginEnqueue
    <3>2. BeginEnqueue(e)
      BY <1>4, <2>1
    <3> QED BY <3>1, <3>2, WritesLive DEF Lives
  <2>2. CASE x # e
    BY <1>1, <1>2, <1>4, <2>2 DEF BeginEnqueue
  <2> QED BY <2>1, <2>2
<1>5. ASSUME NEW x \in Events, NEW delay \in Nat, CommitEnqueue(x, delay)
      PROVE  Lives(scopes, e)
  <2>1. CASE x = e
    <3>1. row[e].status = "begun" /\ row'[e] \in {Withdrawn(row[e]), Committed(row[e], delay)}
      BY <1>1, <1>5, <2>1 DEF CommitEnqueue
    <3> QED BY <3>1, WritesMove, WritesLive DEF Lives
  <2>2. CASE x # e
    BY <1>1, <1>2, <1>5, <2>2 DEF CommitEnqueue
  <2> QED BY <2>1, <2>2
<1>6. ASSUME NEW x \in Events, NEW t, MarkProcessed(x, t) PROVE Lives(scopes, e)
  <2>1. CASE row'[e] = row[e]
    BY <1>2, <2>1
  <2>2. CASE row'[e] # row[e]
    <3>1. row[e].status = "processing" /\ row'[e] = Processed(row[e])
      BY <1>1, <1>6, <2>2 DEF MarkProcessed, Holds
    <3> QED BY <3>1, WritesMove, WritesLive DEF Lives, Open, OpenStatus, TerminalStatus
  <2> QED BY <2>1, <2>2
<1>7. ASSUME NEW x \in Events, NEW outcome \in {"retry", "discard", "snooze"}, NEW t,
             MarkFailed(x, t, outcome)
      PROVE  Lives(scopes, e)
  <2>1. CASE row'[e] = row[e]
    BY <1>2, <2>1
  <2>2. CASE row'[e] # row[e]
    <3>1. Holds(x, t) /\ \/ row' = [row EXCEPT ![x] = Discarded(row[x])]
                         \/ row' = [row EXCEPT ![x] = Snoozed(row[x])]
                         \/ /\ ~(row[x].attempts >= MaxAttempts)
                            /\ \E delay : row' = [row EXCEPT ![x] = Retried(row[x], delay)]
      BY <1>7, <2>2 DEF MarkFailed, FailedAnswer
    <3>2. x = e
      BY <1>1, <2>2, <3>1
    <3>3. /\ row[e].status = "processing"
          /\ \/ row'[e] = Discarded(row[e])
             \/ row'[e] = Snoozed(row[e])
             \/ row[e].attempts < MaxAttempts /\ \E delay : row'[e] = Retried(row[e], delay)
      BY <1>1, <3>1, <3>2 DEF Holds
    <3> QED BY <3>3, WritesMove, WritesLive DEF Lives, Open, OpenStatus, TerminalStatus
  <2> QED BY <2>1, <2>2
<1>8. ASSUME NEW held, NEW delay, Release(held, delay) PROVE Lives(scopes, e)
  <2>1. \/ row'[e] = row[e]
        \/ row[e].status = "processing" /\ row'[e] = Released(row[e], delay)
    BY <1>8 DEF Release, Holds
  <2> QED BY <1>2, <2>1, WritesMove, WritesLive DEF Lives
<1> QED BY <1>2, <1>3, <1>4, <1>5, <1>6, <1>7, <1>8

LEMMA ClaimLives ==
  ASSUME TableTypeOK, NEW scope, NEW locked, NEW batch, NEW given, NEW scopes, scope \in scopes,
         ClaimBatch(scope, locked, batch, given), \A e \in batch : given[e] \in Tokens,
         NEW e \in Events
  PROVE  Lives(scopes, e)
<1> DEFINE swept == Swept(scope, locked)
<1>1. row[e] \in Row /\ row[e].attempts \in Nat /\ MaxAttempts \in Nat
  BY CeilingAssumption DEF TableTypeOK, Row, CeilingAssumption
<1>2. CASE e \in batch
  <2>1. row'[e] = Claimed(row[e], given[e]) /\ Open(row, e) /\ row[e].attempts < MaxAttempts
    BY <1>2, ClaimedRow
  <2>2. \E s \in scopes : ClaimedInTurn(s, e)
    <3>1. e \in Events /\ ~Blocked(swept, scope, e) /\ TypeOf[e] \in scope.types
      BY <1>2 DEF ClaimBatch, IsOldest, Candidates
    <3>2. ASSUME NEW d \in Events, AggregateOf[d] = AggregateOf[e], Older(row, d, e),
                 Barrier(scope, d)
          PROVE  ~Open(row', d)
      <4>1. swept[d].born = row[d].born /\ swept[e].born = row[e].born
        BY WritesMove DEF Swept
      <4>2. ~Open(swept, d)
        BY <3>1, <3>2, <4>1 DEF Blocked, Older
      <4>3. d \notin batch
        BY <4>2 DEF ClaimBatch, IsOldest, Candidates
      <4>4. row'[d] = swept[d]
        BY <4>3 DEF ClaimBatch
      <4> QED BY <4>2, <4>4 DEF Open
    <3> QED BY <3>1, <3>2 DEF ClaimedInTurn
  <2>3. given[e] \in Tokens
    BY <1>2
  <2> QED BY <2>1, <2>2, <2>3, WritesLive DEF Lives
<1>3. CASE e \notin batch
  <2>1. row'[e] = swept[e]
    BY <1>3 DEF ClaimBatch
  <2>2. \/ row'[e] = row[e]
        \/ Open(row, e) /\ row[e].attempts >= MaxAttempts /\ row'[e] = Discarded(row[e])
    BY <2>1 DEF Swept, Exhausted
  <2> QED BY <2>2, WritesMove, WritesLive DEF Lives, TerminalStatus
<1> QED BY <1>2, <1>3
=============================================================================
