--------------------------- MODULE OutboxDispatch ---------------------------
(***************************************************************************)
(* runOutboxDispatchWorker (packages/outbox/src/worker.ts) over the table: *)
(* concurrent runs that claim batches, call handlers with a timeout, and   *)
(* acknowledge.  Every database call is one step, so the steps of several  *)
(* runs interleave between the calls of one; a run may be interrupted      *)
(* between any two of its steps (the host kills it, or a storage call      *)
(* throws after or before it committed) and then leaves its claims to the  *)
(* lease.  A handler that overran its timeout keeps running as an orphan.  *)
(***************************************************************************)
EXTENDS OutboxTable, Sequences, Functions

CONSTANTS
  PoolOf,        \* the tokens a row's claims draw from, a pool for each row
  Runners,       \* processes that run the worker, one run at a time each
  ScopeOf,       \* a runner's registry keys and knownEventTypes
  TimeoutOf,     \* handler.timeoutMs of an event type, in ticks
  OutcomesOf,    \* what the handler of an event type may return
  Margin,        \* MARK_MARGIN_MS
  SoftBudget,    \* config.softBudgetMs
  HostLimit,     \* hostLimitSeconds: how long the host should let a run live
  SlowStore,     \* does time pass during the worker's own steps and calls?
  Cadence,       \* ticks between the end of a run and the next one
  MaxSnoozes,    \* config.maxSnoozes
  MaxCrashes     \* bound on interrupted runs

ASSUME RunBounds ==
  /\ {Margin, SoftBudget, HostLimit, Cadence, MaxSnoozes, MaxCrashes} \subseteq Nat
  /\ Cadence > 0 /\ SoftBudget < HostLimit /\ HostLimit < Visibility
  /\ SlowStore \in BOOLEAN
ASSUME Pools ==
  /\ PoolOf \in [Events -> SUBSET Tokens] /\ IsFiniteSet(Runners)
  /\ \A e \in Events : IsFiniteSet(PoolOf[e])
                        /\ Cardinality(PoolOf[e]) >= Cardinality(Runners)
  /\ \A d, e \in Events : d # e => PoolOf[d] \cap PoolOf[e] = {}
ASSUME Registries ==
  /\ ScopeOf \in [Runners -> [types : SUBSET EventTypes, known : SUBSET EventTypes]]
  /\ OutcomesOf \in [EventTypes -> SUBSET {"processed", "retry", "discard", "snooze"}]
ASSUME HandlersFitBudget ==   \* validateScheduledConfig
  \A type \in EventTypes : TimeoutOf[type] \in Nat \ {0}
                           /\ TimeoutOf[type] + Margin <= SoftBudget

VARIABLES
  run,        \* the runs, see RunState
  strays,     \* orphaned handlers of runs that are over: events they may touch
  delivered,  \* events whose effect happened at least once
  crashes,    \* interrupted runs so far
  abandoned,  \* tokens an interrupted run took with it
  tries       \* handler starts of a row that were not snoozed

runVars == <<run, strays, delivered, crashes, abandoned, tries>>
vars == <<row, clock, run, strays, delivered, crashes, abandoned, tries>>

Phases == {"idle", "drain", "row", "handling", "acking", "break"}

Item == [event : Events, token : Tokens, snoozes : Nat]
Outcomes == {"none", "processed", "retry", "discard", "snooze"}

\* elapsed counts from the start of the run; while idle it is the time to the
\* next one.  batch holds the claimed items not yet dealt with, oldest first.
RunState == [phase : Phases, elapsed : Nat, busy : Nat, batch : Seq(Item), full : BOOLEAN,
             seen : SUBSET Events, unstarted : SUBSET Item, outcome : Outcomes,
             orphans : SUBSET Events]

NoRun(delay) == [phase |-> "idle", elapsed |-> delay, busy |-> 0, batch |-> <<>>,
                 full |-> FALSE, seen |-> {}, unstarted |-> {}, outcome |-> "none",
                 orphans |-> {}]

Init == /\ TableInit
        /\ run = [w \in Runners |-> NoRun(0)]
        /\ strays = {} /\ delivered = {} /\ crashes = 0 /\ abandoned = {}
        /\ tries = [e \in Events |-> 0]

Active(w) == run[w].phase # "idle"
Current(w) == Head(run[w].batch)
BatchItems(w) == {run[w].batch[i] : i \in DOMAIN run[w].batch}
Owned(w) == BatchItems(w) \cup run[w].unstarted

HeldTokens == {item.token : item \in UNION {Owned(w) : w \in Runners}}

\* A new token for row e.  A token nobody holds any more may come back: the
\* claim overwrites it in the row, so it is as good as one never seen before.
FreshToken(e) == CHOOSE t \in PoolOf[e] \ HeldTokens : TRUE

\* A run is over; its orphans may still touch the world, and so may the handler
\* it was in the middle of when it was interrupted.
EndRun(w) ==
  /\ run' = [run EXCEPT ![w] = NoRun(Cadence)]
  /\ strays' = strays \cup run[w].orphans
                \cup IF run[w].phase = "handling" THEN {Current(w).event} ELSE {}

TableUnchanged == UNCHANGED tableVars
HistoryUnchanged == UNCHANGED <<delivered, crashes, abandoned, tries>>

(***************************************************************************)
(* Producers and time.                                                     *)
(***************************************************************************)
Produce(e) == /\ BeginEnqueue(e) \/ CommitEnqueue(e, 0)
              /\ UNCHANGED runVars

\* A handler is cut off at its timeout; unless the store is slow the worker's own
\* steps take no time.
MayWait(w) ==
  /\ run[w].phase = "handling" => run[w].busy < TimeoutOf[TypeOf[Current(w).event]]
  /\ Active(w) /\ ~SlowStore => run[w].phase = "handling"

Later(state) ==
  IF state.phase = "idle" THEN [state EXCEPT !.elapsed = CountDown(@)]
  ELSE [state EXCEPT !.elapsed = AtMost(HostLimit, @ + 1),
                     !.busy = IF state.phase = "handling" THEN @ + 1 ELSE 0]

Tick == /\ \A w \in Runners : MayWait(w)
        /\ row' = TickRows
        /\ run' = [w \in Runners |-> Later(run[w])]
        /\ UNCHANGED <<clock, strays>> /\ HistoryUnchanged

(***************************************************************************)
(* One run: the drain loop.                                                *)
(***************************************************************************)
StartRun(w) ==
  /\ run[w].phase = "idle" /\ run[w].elapsed = 0
  /\ run' = [run EXCEPT ![w].phase = "drain"]
  /\ TableUnchanged /\ UNCHANGED strays /\ HistoryUnchanged

\* `while (clock.now() - startedAt < config.softBudgetMs)`
BudgetSpent(w) ==
  /\ run[w].phase = "drain" /\ run[w].elapsed >= SoftBudget
  /\ EndRun(w) /\ TableUnchanged /\ HistoryUnchanged

\* Re-established (created_at, id) order of the rows a claim returned.
InOrder(rows) == \A i, j \in DOMAIN rows : i < j => Older(row, rows[i], rows[j])

\* Rows that a statement of another run may hold locked while this claim runs.
LockedSets(w) == IF \E v \in Runners \ {w} : Active(v) THEN SUBSET Events ELSE {{}}

\* The claim returned these rows, none at the end of the queue.
ClaimRows(w, size, rows) ==
  LET given == [e \in Range(rows) |-> FreshToken(e)]
      item(e) == [event |-> e, token |-> given[e], snoozes |-> row[e].snoozes]
  IN /\ InOrder(rows)
     /\ \E locked \in LockedSets(w) : ClaimBatch(ScopeOf[w], locked, Range(rows), given)
     /\ IF size = 0
          THEN EndRun(w) /\ UNCHANGED abandoned
          ELSE /\ run' = [run EXCEPT ![w].phase = "row",
                                     ![w].full = (size = BatchSize),
                                     ![w].batch = [i \in 1..size |-> item(rows[i])]]
               /\ abandoned' = abandoned \ Range(given)
               /\ UNCHANGED strays

ClaimNext(w) ==
  /\ run[w].phase = "drain" /\ run[w].elapsed < SoftBudget
  /\ \E size \in 0..BatchSize : \E rows \in [1..size -> Events] : ClaimRows(w, size, rows)
  /\ UNCHANGED <<delivered, crashes, tries>>

AtRow(w) == run[w].phase = "row" /\ run[w].batch # <<>>

Handed(items) ==
  [e \in {item.event : item \in items} |-> (CHOOSE item \in items : item.event = e).token]

\* A row this run has handled before is handed back, never executed again.
SkipDuplicate(w) ==
  /\ AtRow(w) /\ Current(w).event \in run[w].seen
  /\ Release(Handed({Current(w)}), BackoffBase)
  /\ run' = [run EXCEPT ![w].batch = Tail(@)]
  /\ UNCHANGED strays /\ HistoryUnchanged

Fits(w) == run[w].elapsed + TimeoutOf[TypeOf[Current(w).event]] + Margin <= SoftBudget

\* The tail gate: no time left for this handler, keep the row for the refund.
DeferRow(w) ==
  /\ AtRow(w) /\ Current(w).event \notin run[w].seen /\ ~Fits(w)
  /\ run' = [run EXCEPT ![w].seen = @ \cup {Current(w).event},
                        ![w].unstarted = @ \cup {Current(w)},
                        ![w].batch = Tail(@)]
  /\ TableUnchanged /\ UNCHANGED strays /\ HistoryUnchanged

\* Fault: a row claimed a second time in one run is executed again.
StartHandlerAgain(w) ==
  /\ AtRow(w) /\ Fits(w)
  /\ run' = [run EXCEPT ![w].phase = "handling", ![w].busy = 0,
                        ![w].seen = @ \cup {Current(w).event}]
  /\ tries' = [tries EXCEPT ![Current(w).event] = @ + 1]
  /\ TableUnchanged /\ UNCHANGED <<strays, delivered, crashes, abandoned>>

StartHandler(w) ==
  /\ AtRow(w) /\ Current(w).event \notin run[w].seen /\ Fits(w)
  /\ run' = [run EXCEPT ![w].phase = "handling", ![w].busy = 0,
                        ![w].seen = @ \cup {Current(w).event}]
  /\ tries' = [tries EXCEPT ![Current(w).event] = @ + 1]
  /\ TableUnchanged /\ UNCHANGED <<strays, delivered, crashes, abandoned>>

\* executeHandler: the handler returned, or threw, which counts as a retry.
\* Only "processed" says for certain that the effect happened.
HandlerReturns(w) ==
  /\ run[w].phase = "handling"
  /\ \E outcome \in OutcomesOf[TypeOf[Current(w).event]] \cup {"retry"} :
       /\ run' = [run EXCEPT ![w].phase = "acking", ![w].outcome = outcome]
       /\ \/ delivered' = delivered \cup {Current(w).event}
          \/ outcome # "processed" /\ UNCHANGED delivered
  /\ TableUnchanged /\ UNCHANGED <<strays, crashes, abandoned, tries>>

\* Fault: a handler cut off at its timeout counts as done.
HandlerOverrunsDone(w) ==
  /\ run[w].phase = "handling"
  /\ run[w].busy = TimeoutOf[TypeOf[Current(w).event]]
  /\ run' = [run EXCEPT ![w].phase = "acking", ![w].outcome = "processed",
                        ![w].orphans = @ \cup {Current(w).event}]
  /\ TableUnchanged /\ UNCHANGED strays /\ HistoryUnchanged

\* The backstop: the handler ignored its abort signal and goes on by itself.
HandlerOverruns(w) ==
  /\ run[w].phase = "handling"
  /\ run[w].busy = TimeoutOf[TypeOf[Current(w).event]]
  /\ run' = [run EXCEPT ![w].phase = "acking", ![w].outcome = "retry",
                        ![w].orphans = @ \cup {Current(w).event}]
  /\ TableUnchanged /\ UNCHANGED strays /\ HistoryUnchanged

\* An orphan comes to its end, with or without its effect.
OrphanEnds ==
  /\ \/ \E w \in Runners : \E e \in run[w].orphans :
          /\ run' = [run EXCEPT ![w].orphans = @ \ {e}] /\ UNCHANGED strays
          /\ delivered' \in {delivered, delivered \cup {e}}
     \/ \E e \in strays :
          /\ strays' = strays \ {e} /\ UNCHANGED run
          /\ delivered' \in {delivered, delivered \cup {e}}
  /\ TableUnchanged /\ UNCHANGED <<crashes, abandoned, tries>>

NextRow(w) == run' = [run EXCEPT ![w].phase = "row", ![w].outcome = "none", ![w].busy = 0,
                                 ![w].batch = Tail(@)]

AckProcessed(w) ==
  /\ run[w].phase = "acking" /\ run[w].outcome = "processed"
  /\ MarkProcessed(Current(w).event, Current(w).token)
  /\ NextRow(w)
  /\ UNCHANGED <<strays, delivered, crashes, abandoned, tries>>

\* A snooze beyond the row's budget is charged as a retry, without a break.
Charged(w) == IF run[w].outcome = "snooze" THEN "retry" ELSE run[w].outcome

AckFailed(w) ==
  /\ run[w].phase = "acking"
  /\ \/ run[w].outcome \in {"retry", "discard"}
     \/ run[w].outcome = "snooze" /\ Current(w).snoozes >= MaxSnoozes
  /\ MarkFailed(Current(w).event, Current(w).token, Charged(w))
  /\ NextRow(w)
  /\ UNCHANGED <<strays, delivered, crashes, abandoned, tries>>

AckSnooze(w) ==
  /\ run[w].phase = "acking" /\ run[w].outcome = "snooze"
  /\ Current(w).snoozes < MaxSnoozes
  /\ MarkFailed(Current(w).event, Current(w).token, "snooze")
  /\ tries' = [tries EXCEPT ![Current(w).event] = Refund(@)]
  /\ run' = [run EXCEPT ![w].phase = "break", ![w].outcome = "none", ![w].busy = 0,
                        ![w].batch = Tail(@)]
  /\ UNCHANGED <<strays, delivered, crashes, abandoned>>

\* Fault: the break refunds the rest of the batch and forgets the gated rows.
CircuitBreakForgets(w) ==
  /\ run[w].phase = "break"
  /\ Release(Handed(BatchItems(w)), SnoozeDelay)
  /\ EndRun(w) /\ HistoryUnchanged

\* The circuit breaks: everything still claimed is refunded and the run ends.
CircuitBreak(w) ==
  /\ run[w].phase = "break"
  /\ Release(Handed(Owned(w)), SnoozeDelay)
  /\ EndRun(w) /\ HistoryUnchanged

\* The batch is done: refund the gated tail and stop, stop after a short batch,
\* or claim again.
BatchDone(w) ==
  /\ run[w].phase = "row" /\ run[w].batch = <<>>
  /\ Release(Handed(run[w].unstarted), 0)
  /\ IF run[w].unstarted = {} /\ run[w].full
       THEN run' = [run EXCEPT ![w].phase = "drain"] /\ UNCHANGED strays
       ELSE EndRun(w)
  /\ HistoryUnchanged

\* The host kills the run, or a storage call throws out of the worker; a call
\* that committed before it threw is the same as an interruption after it.
Interrupt(w) ==
  /\ Active(w) /\ crashes < MaxCrashes
  /\ EndRun(w)
  /\ abandoned' = abandoned \cup {item.token : item \in Owned(w)}
  /\ crashes' = crashes + 1
  /\ TableUnchanged /\ UNCHANGED <<delivered, tries>>

RunStep(w) == \/ StartRun(w) \/ BudgetSpent(w) \/ ClaimNext(w)
              \/ SkipDuplicate(w) \/ DeferRow(w) \/ StartHandler(w)
              \/ HandlerReturns(w) \/ HandlerOverruns(w)
              \/ AckProcessed(w) \/ AckFailed(w) \/ AckSnooze(w)
              \/ CircuitBreak(w) \/ BatchDone(w)

Next == \/ Tick
        \/ \E e \in Events : Produce(e)
        \/ \E w \in Runners : RunStep(w)
        \/ \E w \in Runners : Interrupt(w)
        \/ OrphanEnds

Spec == Init /\ [][Next]_vars

\* Runs are scheduled again and again and take their steps, time passes, and a
\* handler that goes on by itself is not needed for progress.
Fairness == /\ WF_vars(Tick)
            /\ \A w \in Runners : WF_vars(RunStep(w))

FairSpec == Spec /\ Fairness
-----------------------------------------------------------------------------
(***************************************************************************)
(* Properties.                                                             *)
(***************************************************************************)
FieldsOK == /\ TableTypeOK
            /\ run \in [Runners -> RunState]
            /\ strays \subseteq Events /\ delivered \subseteq Events
            /\ crashes \in 0..MaxCrashes /\ abandoned \subseteq Tokens
            /\ tries \in [Events -> Nat]

TypeOK == FieldsOK /\ ClaimsCharged

\* At-least-once: a row is never acknowledged as processed before its effect
\* happened, whichever run, retry or stale token acknowledged it.
ProcessedHasEffect ==
  \A e \in Events : row[e].status = "processed" => e \in delivered

\* Every claimed row under a running lease is in the hands of a run, or was taken
\* down by an interrupted one: the worker's normal ends (short batch, spent
\* budget, gated tail, open circuit, duplicate) settle or refund all they claimed.
ClaimsAccounted ==
  \A e \in Events : row[e].status = "processing" =>
    row[e].token \in HeldTokens \cup abandoned

\* Not yet as old as the host limit; a run that stalls is older, if nothing ends it.
InTime(w) == run[w].elapsed < HostLimit

\* With a visibility longer than the host limit, no run loses a lease in its time:
\* what such a run has in hand is its own, whatever stalled or interrupted runs do.
LeaseOutlivesRun ==
  \A w \in Runners : InTime(w) =>
    \A item \in Owned(w) : Holds(item.event, item.token)

Handling(w) == run[w].phase \in {"handling", "acking"}

\* Two runs never work on the same aggregate at once, each in its time.
OneHandlerPerAggregate ==
  \A v, w \in Runners :
    Handling(v) /\ Handling(w) /\ InTime(v) /\ InTime(w)
      /\ AggregateOf[Current(v).event] = AggregateOf[Current(w).event] => v = w

\* A run never starts a row's handler while an orphan of that handler, cut off
\* earlier in the same run, may still be at work.
NoRaceWithOrphan ==
  \A w \in Runners : run[w].phase = "handling" => Current(w).event \notin run[w].orphans

\* Claimed and not started by any run.
WaitingInRun(e) ==
  \E w \in Runners : \E item \in Owned(w) :
    item.event = e /\ ~(Handling(w) /\ item = Current(w))

\* "Nothing was tried, so nothing was spent": an attempt is charged to a row only
\* for a handler that was started, for an interrupted run, or until the run that
\* has it in hand gives it back.  Outages and full budgets discard nothing.
AttemptsWereTried ==
  \A e \in Events :
    row[e].attempts <= tries[e] + crashes + IF WaitingInRun(e) THEN 1 ELSE 0

\* Every committed row of a claimed type is eventually processed or discarded,
\* through retries, snoozes and interrupted runs.
EventuallySettled ==
  \A e \in Events : (\E w \in Runners : TypeOf[e] \in ScopeOf[w].types) =>
    (Stored(row, e) ~> Terminal(row, e))
(***************************************************************************)
(* The worker implements OrderedDelivery.                                  *)
(***************************************************************************)
PhaseOf(e) == CASE row[e].status \in {"pending", "failed"} -> "queued"
                [] row[e].status = "processing" -> "held"
                [] row[e].status = "absent" -> "unborn"
                [] OTHER -> row[e].status

\* The events of its aggregate that hold e back, whichever runner claims e.
Barriers(e) ==
  {d \in Events : /\ AggregateOf[d] = AggregateOf[e]
                   /\ \A w \in Runners : TypeOf[e] \in ScopeOf[w].types => Barrier(ScopeOf[w], d)}

EverHanded == {e \in Events : row[e].token # NoToken}

Delivery == INSTANCE OrderedDelivery WITH
  Lane <- AggregateOf,
  HeldBackBy <- [e \in Events |-> Barriers(e)],
  TakeTurns <- SerialProducers,
  phase <- [e \in Events |-> PhaseOf(e)],
  rank <- [e \in Events |-> row[e].born],
  attempts <- [e \in Events |-> row[e].attempts],
  handed <- EverHanded,
  done <- delivered

\* Concurrent runs, stalls, timeouts, orphans, snoozes, refunds and interrupted
\* runs together behave as delivery in order, at least once, settled once.
ImplementsOrderedDelivery == Delivery!Spec
=============================================================================
