----------------------------- MODULE OutboxRail -----------------------------
(***************************************************************************)
(* The outbox rail with any number of callers.  Every claim hands a token  *)
(* to some caller; that caller may acknowledge at any later time, late,    *)
(* twice, in any order with the others, or never (it crashed, or its call  *)
(* was lost).  A caller presents only a pair <row, token> a claim gave out.*)
(*                                                                         *)
(* claimOf and answer are the callers' knowledge: which row each token was *)
(* issued for and the first answer with an effect that its acknowledgement *)
(* got.                                                                    *)
(***************************************************************************)
EXTENDS OutboxTable

CONSTANTS
  NoEvent,        \* a token not issued yet
  Scopes,         \* the callers' claim arguments [types, known]
  EnqueueDelays,  \* availableAt - now() of the producers
  ReleaseDelays   \* p_delay_seconds of the releases

ASSUME EventAssumption == NoEvent \notin Events
ASSUME ScopeAssumption ==
  Scopes \subseteq [types : SUBSET EventTypes, known : SUBSET EventTypes]
ASSUME EnvironmentAssumption == EnqueueDelays \subseteq Nat /\ ReleaseDelays \subseteq Nat

VARIABLES claimOf, answer

vars == <<row, clock, claimOf, answer>>

Answers == {"none", "applied", "failed", "snoozed", "discarded", "released"}

Issued == {t \in Tokens : claimOf[t] # NoEvent}

FieldsOK == /\ TableTypeOK
            /\ claimOf \in [Tokens -> Events \cup {NoEvent}]
            /\ answer \in [Tokens -> Answers]

TypeOK == FieldsOK /\ ClaimsCharged

Init == /\ TableInit
        /\ claimOf = [t \in Tokens |-> NoEvent]
        /\ answer = [t \in Tokens |-> "none"]

Tick == row' = TickRows /\ UNCHANGED <<clock, claimOf, answer>>

Produce(e) == /\ \/ BeginEnqueue(e)
                 \/ \E delay \in EnqueueDelays : CommitEnqueue(e, delay)
                 \/ AbortEnqueue(e)
              /\ UNCHANGED <<claimOf, answer>>

Injections(S, T) == {f \in [S -> T] : \A x, y \in S : f[x] = f[y] => x = y}

\* The caller learns which row each of the fresh tokens of its batch is for.
ClaimWith(scope, locked, batch, given) ==
  /\ ClaimBatch(scope, locked, batch, given)
  /\ claimOf' = [t \in Tokens |-> IF \E e \in batch : given[e] = t
                                    THEN CHOOSE e \in batch : given[e] = t
                                    ELSE claimOf[t]]
  /\ UNCHANGED answer

Claim(scope) ==
  \E locked \in SUBSET Events, batch \in SUBSET Events :
    \E given \in Injections(batch, Tokens \ Issued) :
      ClaimWith(scope, locked, batch, given)

AckProcessed(t) ==
  /\ t \in Issued
  /\ MarkProcessed(claimOf[t], t)
  /\ answer' = IF Holds(claimOf[t], t) THEN [answer EXCEPT ![t] = "applied"] ELSE answer
  /\ UNCHANGED claimOf

AckFailed(t, outcome) ==
  /\ t \in Issued
  /\ MarkFailed(claimOf[t], t, outcome)
  /\ answer' = LET got == FailedAnswer(claimOf[t], t, outcome)
               IN  IF got = "missed" THEN answer ELSE [answer EXCEPT ![t] = got]
  /\ UNCHANGED claimOf

\* A caller hands back several rows in one call, one token for each row.
AckReleased(held, delay) ==
  /\ Release(held, delay)
  /\ answer' = [t \in Tokens |->
                  IF \E e \in DOMAIN held : held[e] = t /\ Holds(e, t)
                    THEN "released" ELSE answer[t]]
  /\ UNCHANGED claimOf

\* The arguments such a call can have: every row with a token issued for it.
Handbacks == UNION {{held \in [S -> Issued] : \A e \in S : claimOf[held[e]] = e} :
                     S \in SUBSET {claimOf[t] : t \in Issued} \ {{}}}

Prune == /\ \E targets \in SUBSET Events : Compact(targets)
         /\ UNCHANGED <<claimOf, answer>>

Next == \/ Tick
        \/ \E e \in Events : Produce(e)
        \/ \E scope \in Scopes : Claim(scope)
        \/ \E t \in Tokens : AckProcessed(t)
        \/ \E t \in Tokens, outcome \in {"retry", "discard", "snooze"} : AckFailed(t, outcome)
        \/ \E held \in Handbacks, delay \in ReleaseDelays : AckReleased(held, delay)
        \/ Prune

Spec == Init /\ [][Next]_vars
-----------------------------------------------------------------------------
(***************************************************************************)
(* Safety.                                                                 *)
(***************************************************************************)

\* A key is delivered under one row only, even after the row was settled and
\* compacted: ON CONFLICT DO NOTHING and the compactor keep the dedupe key.
UniqueKey ==
  \A d, e \in Events :
    KeyOf[d] = KeyOf[e] /\ Stored(row, d) /\ Stored(row, e) => d = e

TokensOf(e) == {t \in Tokens : claimOf[t] = e}

\* An acknowledgement that was told it settled its row did settle it, for good:
\* the row still shows that outcome under that token, so no other claim of the
\* row was ever told the same, and a processed row was acknowledged by its
\* newest claim.  A stale claim is always answered "missed" or with a requeue.
SettledByNewest ==
  /\ \A t \in Issued :
       /\ answer[t] = "applied" =>
            row[claimOf[t]].token = t /\ row[claimOf[t]].status = "processed"
       /\ answer[t] = "discarded" =>
            row[claimOf[t]].token = t /\ row[claimOf[t]].status = "discarded"
  /\ \A e \in Events : row[e].status = "processed" =>
       row[e].token \in TokensOf(e) /\ answer[row[e].token] = "applied"

\* The attempt counter is exactly the number of claims that were not handed
\* back, and the snooze counter the number of snoozes, whatever order late,
\* repeated and missing acknowledgements arrive in: no refund is paid twice and
\* none is lost.
RefundsBalance ==
  \A e \in Events :
    /\ row[e].attempts =
         Cardinality({t \in TokensOf(e) : answer[t] \notin {"released", "snoozed"}})
    /\ row[e].snoozes = Cardinality({t \in TokensOf(e) : answer[t] = "snoozed"})

\* No row is ever claimed more often than the ceiling allows, and a row waiting
\* for another claim always has an attempt left: an exhausted row cannot sit in
\* the queue as "failed".
CeilingHolds ==
  \A e \in Events :
    /\ row[e].attempts <= MaxAttempts
    /\ row[e].status \in {"pending", "failed"} => row[e].attempts < MaxAttempts

\* Every caller that claims e's type is held back by d.
Precedes(d, e) ==
  /\ AggregateOf[d] = AggregateOf[e] /\ Stored(row, d) /\ Older(row, d, e)
  /\ \A scope \in Scopes : TypeOf[e] \in scope.types => Barrier(scope, d)

\* Within an aggregate a row is handed to a caller only once every older row
\* that holds it back is settled, and stays so while the younger one is retried.
AggregateOrder ==
  \A d, e \in Events :
    Precedes(d, e) /\ row[e].token # NoToken => Terminal(row, d)

\* The compactor empties a payload only when no caller can be handed the row
\* any more.
NoCompactedDelivery ==
  \A e \in Events : row[e].compacted => Terminal(row, e)

\* Retention takes away only what nobody needs: the compactor, which picks rows by
\* age while they are retried, settled late and produced again, never empties a
\* row that may still be handed out, nor frees a key a producer may repeat.
CompactionIsSafe == NoCompactedDelivery /\ UniqueKey

\* While a claim's lease runs, nothing but an acknowledgement with the claim's
\* own token changes the row: no other claim, no sweep of exhausted rows, no
\* late call of an earlier holder and no compaction.
LeaseRespected ==
  [][\A e \in Events :
       /\ row[e].status = "processing" /\ row[e].wait > 0
       /\ row'[e].status # "processing" \/ row'[e].token # row[e].token
       => answer[row[e].token] = "none" /\ answer'[row[e].token] # "none"]_vars

\* A settled row is never claimed, requeued or settled another way.
SettledIsFinal ==
  [][\A e \in Events : Terminal(row, e) =>
       /\ row'[e].status = row[e].status
       /\ row'[e].token = row[e].token
       /\ row[e].compacted => row'[e].compacted]_vars

(***************************************************************************)
(* The rail implements EventDelivery.                                      *)
(***************************************************************************)
PhaseOf(e) == CASE row[e].status \in {"pending", "failed"} -> "queued"
                [] row[e].status = "processing" -> "held"
                [] row[e].status \in TerminalStatus -> row[e].status
                [] OTHER -> "unborn"

Delivery == INSTANCE EventDelivery WITH
  phase <- [e \in Events |-> PhaseOf(e)],
  holder <- [e \in Events |-> row[e].token],
  spent <- Issued,
  winner <- {t \in Tokens : answer[t] = "applied"}

\* Claims with leases, late and repeated acknowledgements, sweeps and the
\* compactor together behave as single-holder, settle-once delivery.
ImplementsDelivery == Delivery!Spec
=============================================================================
