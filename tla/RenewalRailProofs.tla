------------------------- MODULE RenewalRailProofs -------------------------
(***************************************************************************)
(* Proofs about RenewalRail, for any number of subscriptions, processes,   *)
(* retries and instants.  The invariant has three layers: what the tables  *)
(* of one cycle say of each other (CycleOK), what a process may conclude   *)
(* from where it is (WorkerOK), and how a cycle relates to its             *)
(* subscription's date (ScheduleOK).                                       *)
(***************************************************************************)
EXTENDS RenewalRail, TLAPS

\* A refused attempt; the customer may have approved it since.
Over == Refused \cup {"approved"}

\* An operation that asked for money is prepared until it is decided, its hold
\* is committed as long; the obligation takes over only after the refusal, and
\* goes from one attempt to the next only when that one is over.
CycleOK(c) ==
  /\ money[c] = "none" =>
       /\ op[c].state \in {"none", "claimed", "reserved", "refused"}
       /\ ob[c].state = "none" /\ \A k \in Attempts : ask[c][k] = "none"
  /\ money[c] # "none" => op[c].state \in {"prepared", "succeeded", "refused"}
  /\ op[c].state = "prepared" => hold[c].is = "committed"
  /\ ob[c].state # "none" => op[c].state = "refused"
  /\ ob[c].state = "none" => ob[c].seq = 0
  /\ ob[c].state = "prepared" => hold[c].is = "committed"
  /\ ask[c][0] = "sent" => op[c].state = "prepared"
  /\ ob[c].state = "waiting" => ask[c][ob[c].seq] \in Over
  /\ \A k \in Attempts :
       /\ k > ob[c].seq => ask[c][k] = "none"
       /\ k < ob[c].seq => ask[c][k] \in Over
       /\ ob[c].state = "recovered" => ask[c][k] # "sent"

\* What a process knows of its row; those about to ask know that nobody has.
WorkerOK(w) ==
  LET c == worker[w].cycle
      phase == worker[w].phase
  IN /\ phase = "prepared" => op[c].state = "prepared" /\ ask[c][0] = "none"
     /\ phase \in {"ack", "read"} => ask[c][0] # "none"
     /\ phase \in {"ackRefusal", "handoff", "refuse"} => ask[c][0] \in Over
     /\ phase = "success" => ask[c][0] \in Paying
     /\ phase = "retryAsk" =>
          /\ ob[c].state = "prepared" /\ worker[w].token = ob[c].seq /\ ob[c].seq > 0
          /\ ask[c][ob[c].seq] = "none"

\* No two processes are about to ask for the same attempt.
AskingAlone ==
  \A v, w \in Workers :
    /\ worker[v].phase \in {"prepared", "retryAsk"} /\ worker[w].phase = worker[v].phase
    /\ worker[v].cycle = worker[w].cycle
    => v = w

\* The schedule never goes back behind a cycle that was taken up; it stands on
\* one that is being renewed or unpaid, unless a prepare came too late or a
\* pause ended by itself.
ScheduleOK(c) ==
  /\ op[c].state # "none" => c[2] <= clock /\ c[2] <= sub[c[1]].next
  /\ /\ adrift \cap OfSub(c[1]) = {}
     /\ \/ op[c].state \in {"claimed", "reserved"} /\ op[c].lease > clock
        \/ money[c] \in {"open", "failed"}
     => sub[c[1]].next = c[2]
  /\ money[c] = "settled" =>
       c[2] < sub[c[1]].next \/ (c[2] = sub[c[1]].next /\ sub[c[1]].status # "active")

CyclesOK == \A c \in Cycles : CycleOK(c)
WorkersOK == \A w \in Workers : WorkerOK(w)
SchedulesOK == \A c \in Cycles : ScheduleOK(c)
RailInv == TypeOK /\ CyclesOK /\ WorkersOK /\ AskingAlone /\ SchedulesOK
-----------------------------------------------------------------------------
(* Cycles and dates. *)

\* A cycle is its subscription and its instant.
LEMMA CycleParts ==
  /\ \A c \in Cycles : c[1] \in Subs /\ c[2] \in 0..MaxTime /\ c = <<c[1], c[2]>>
  /\ \A s \in Subs, i \in 0..MaxTime : <<s, i>> \in Cycles
BY DEF Cycles

\* Whole units of a delay are a natural number of instants.
LEMMA DelayIsNat ==
  ASSUME NEW t \in Nat, NEW i \in Nat, NEW unit \in Nat \ {0}, t >= i
  PROVE  ((t - i) \div unit) * unit \in Nat
<1> DEFINE q == (t - i) \div unit
<1>1. q \in Nat
  OBVIOUS
<1>2. \A a, b \in Nat : a * b \in Nat
  OBVIOUS
<1> QED BY <1>1, <1>2

\* Whole units counted from a date that passed lead past the clock.
LEMMA UnitsPass ==
  ASSUME NEW a \in Nat, NEW unit \in Nat \ {0}
  PROVE  /\ (a \div unit + 1) * unit \in Nat
         /\ (a \div unit + 1) * unit > a
<1>1. (a \div unit + 1) * unit > a
  BY Z3T(20)
<1>2. \A x, y \in Nat : x * y \in Nat
  OBVIOUS
<1>3. a \div unit + 1 \in Nat
  OBVIOUS
<1> QED BY <1>1, <1>2, <1>3

\* Resuming moves a date forward, never back, and past the clock.
LEMMA ResumedDate ==
  ASSUME NEW s \in Subs, sub[s].next \in Nat, clock \in Nat
  PROVE  Resumed(s) \in Nat /\ Resumed(s) >= sub[s].next /\ Resumed(s) > clock
<1> DEFINE next == sub[s].next
<1> USE TimesAssumption
<1>1. CASE next > clock
  BY <1>1 DEF Resumed
<1>2. CASE next <= clock
  <2> DEFINE step == ((clock - next) \div Cadence + 1) * Cadence
  <2>1. clock - next \in Nat
    BY <1>2
  <2>2. step \in Nat /\ step > clock - next
    BY <2>1, UnitsPass
  <2>3. Resumed(s) = next + step
    BY <1>2 DEF Resumed
  <2> HIDE DEF step
  <2> QED BY <2>2, <2>3
<1> QED BY <1>1, <1>2

\* A payment leaves the date of its subscription a date, not earlier than it was,
\* and past the paid cycle if the subscription is active.
LEMMA AdvancedType ==
  ASSUME TypeOK, NEW c \in Cycles, NEW t \in c[2]..clock
  PROVE  /\ Advanced(c, t) \in [Subs -> SubRow]
         /\ Advanced(c, t)[c[1]].status = sub[c[1]].status
         /\ Advanced(c, t)[c[1]].next >= sub[c[1]].next
         /\ sub[c[1]].status = "active" => Advanced(c, t)[c[1]].next > c[2]
         /\ sub[c[1]].status # "active" => Advanced(c, t) = sub
         /\ \A s \in Subs : s # c[1] => Advanced(c, t)[s] = sub[s]
<1> USE TimesAssumption, CycleParts
<1> DEFINE p == AfterPayment(c, t)
<1>1. t \in Nat /\ c[2] \in Nat /\ t >= c[2]
  BY DEF TypeOK
<1>2. ((t - c[2]) \div Day) * Day \in Nat
  BY <1>1, DelayIsNat
<1>3. p \in Nat /\ p > c[2]
  BY <1>1, <1>2 DEF AfterPayment
<1>4. sub[c[1]] \in SubRow /\ sub[c[1]].next \in Nat
  BY DEF TypeOK, SubRow
<1>5. Larger(sub[c[1]].next, p) \in Nat /\ Larger(sub[c[1]].next, p) >= sub[c[1]].next
      /\ Larger(sub[c[1]].next, p) > c[2]
  BY <1>3, <1>4 DEF Larger
<1> HIDE DEF p
<1>6. Advanced(c, t) = [sub EXCEPT ![c[1]].next =
          IF sub[c[1]].status = "active" THEN Larger(sub[c[1]].next, p) ELSE sub[c[1]].next]
  BY DEF Advanced, p
<1>7. sub \in [Subs -> SubRow]
  BY DEF TypeOK
<1> QED BY <1>4, <1>5, <1>6, <1>7 DEF SubRow

-----------------------------------------------------------------------------
(* Types. *)

\* What the shared helpers write into the tables keeps their rows' types.
LEMMA RowsType ==
  ASSUME TypeOK
  PROVE  /\ \A set : RefusedOps(set, "stock") \in [Cycles -> OpRow]
         /\ \A set : RefusedOps(set, "other") \in [Cycles -> OpRow]
         /\ \A set, is : is \in {"committed", "consumed", "released", "expired"}
                          => HoldsBecome(set, is) \in [Cycles -> HoldRow]
         /\ \A c : CaseRecovered(c) \in [Cycles -> CaseRow]
<1> USE DEF TypeOK
<1>1. \A r \in OpRow : /\ [r EXCEPT !.state = "refused", !.why = "stock"] \in OpRow
                       /\ [r EXCEPT !.state = "refused", !.why = "other"] \in OpRow
  BY DEF OpRow
<1>2. \A r \in HoldRow, is \in {"committed", "consumed", "released", "expired"} :
        [r EXCEPT !.is = is, !.until = 0] \in HoldRow
  BY DEF HoldRow
<1>3. \A c : CaseRecovered(c) \in [Cycles -> CaseRow]
  BY DEF CaseRecovered, CaseRow
<1>4. \A set : RefusedOps(set, "stock") \in [Cycles -> OpRow]
  BY <1>1 DEF RefusedOps
<1>5. \A set : RefusedOps(set, "other") \in [Cycles -> OpRow]
  BY <1>1 DEF RefusedOps
<1>6. \A set, is : is \in {"committed", "consumed", "released", "expired"}
                   => HoldsBecome(set, is) \in [Cycles -> HoldRow]
  BY <1>2 DEF HoldsBecome
<1> QED BY <1>3, <1>4, <1>5, <1>6

WorkerType ==
  /\ worker \in [Workers -> Process]
  /\ \A w \in Workers : worker[w].phase # "idle" => worker[w].cycle \in Cycles

\* A process with a row has a cycle; going on and giving up keep it well formed.
LEMMA ProcessType ==
  ASSUME TypeOK, NEW w \in Workers, worker[w].phase # "idle"
  PROVE  /\ worker[w].cycle \in Cycles /\ worker[w].at \in Nat
         /\ RowDone(w) => WorkerType'
         /\ \A phase \in Phases : Become(w, phase) => WorkerType'
<1> USE DEF TypeOK, Process
<1>1. worker[w].cycle \in Cycles /\ worker[w].at \in Nat
  BY TimesAssumption
<1>2. RowDone(w) => WorkerType'
  BY TimesAssumption DEF RowDone, IdleWorker, WorkerType, Phases
<1>3. ASSUME NEW phase \in Phases, Become(w, phase) PROVE WorkerType'
  BY <1>1, <1>3 DEF Become, WorkerType
<1> QED BY <1>1, <1>2, <1>3


\* The row of a waiting obligation.
LEMMA WaitingType ==
  ASSUME TypeOK, NEW c \in Cycles, NEW tries \in Nat, NEW hard \in BOOLEAN,
         NEW due \in Nat \cup {NoDue}
  PROVE  Waiting(c, tries, hard, due) \in ObRow
<1>1. ob[c].seq \in Attempts
  BY DEF TypeOK, ObRow
<1> QED BY <1>1 DEF Waiting, ObRow

\* What the shared helpers change in the rows of a cycle.
LEMMA RowsEffect ==
  ASSUME TypeOK
  PROVE  /\ \A set, why : \A d \in Cycles :
              /\ RefusedOps(set, why)[d].state = IF d \in set THEN "refused" ELSE op[d].state
              /\ RefusedOps(set, why)[d].lease = op[d].lease
         /\ \A set, is : \A d \in Cycles :
              HoldsBecome(set, is)[d].is = IF d \in set THEN is ELSE hold[d].is
<1>1. \A d \in Cycles : op[d] \in OpRow /\ hold[d] \in HoldRow
  BY DEF TypeOK
<1>2. \A why : \A r \in OpRow : /\ [r EXCEPT !.state = "refused", !.why = why].state = "refused"
                                 /\ [r EXCEPT !.state = "refused", !.why = why].lease = r.lease
  BY DEF OpRow
<1>3. \A is : \A r \in HoldRow : [r EXCEPT !.is = is, !.until = 0].is = is
  BY DEF HoldRow
<1> QED BY <1>1, <1>2, <1>3 DEF RefusedOps, HoldsBecome

\* A command that sets a date, and the end of a pause, change the subscription's
\* row and nothing of a cycle.
Dated(s) == \/ Pause(s) \/ Resume(s) \/ Skip(s) \/ OrderNow(s) \/ Slide(s)
            \/ Reactivate(s) \/ AutoResume(s)

LEMMA DatedRows ==
  ASSUME NEW s \in Subs, Dated(s)
  PROVE  UNCHANGED <<clock, op, hold, money, dun, ob, ask, worker>> /\ adrift \subseteq adrift'
BY DEF Dated, Pause, Resume, Skip, OrderNow, Slide, Reactivate, Moved, Commanded, AutoResume

LEMMA DatedType ==
  ASSUME TypeOK, NEW s \in Subs, Dated(s)
  PROVE  TypeOK'
<1> USE TimesAssumption
<1>1. sub[s].next \in Nat /\ clock \in Nat
  BY DEF TypeOK, SubRow
<1>2. UNCHANGED <<clock, op, hold, money, dun, ob, ask, worker>>
  BY DatedRows
<1>3. ASSUME NEW status \in {"active", "paused"}, NEW next \in Nat,
             sub' = [sub EXCEPT ![s] = [status |-> status, next |-> next]]
      PROVE  sub' \in [Subs -> SubRow]
  <2>1. status \in {"active", "paused", "cancelled"}
    OBVIOUS
  <2>2. [status |-> status, next |-> next] \in SubRow
    BY <2>1 DEF SubRow
  <2>3. sub \in [Subs -> SubRow]
    BY DEF TypeOK
  <2> QED BY <1>3, <2>2, <2>3
<1>4. sub' \in [Subs -> SubRow]
  <2>1. CASE Pause(s)
    <3>1. sub' = [sub EXCEPT ![s] = [status |-> "paused", next |-> sub[s].next]]
      BY <2>1 DEF Pause, Commanded
    <3> QED BY <1>1, <1>3, <3>1
  <2>2. CASE AutoResume(s)
    <3>1. sub' = [sub EXCEPT ![s] = [status |-> "active", next |-> Resumed(s)]]
      BY <2>2 DEF AutoResume
    <3>2. Resumed(s) \in Nat
      BY <1>1, ResumedDate
    <3> QED BY <1>3, <3>1, <3>2
  <2>3. ASSUME NEW next, Commanded(s, "active", next) PROVE sub' \in [Subs -> SubRow]
    <3>1. /\ next \in 0..(MaxTime + Cadence)
          /\ sub' = [sub EXCEPT ![s] = [status |-> "active", next |-> next]]
      BY <2>3 DEF Commanded
    <3>2. next \in Nat
      BY <3>1
    <3> QED BY <1>3, <3>1, <3>2
  <2>4. ASSUME NEW status, NEW next, Moved(s, status, next) PROVE sub' \in [Subs -> SubRow]
    BY <2>3, <2>4 DEF Moved
  <2> QED BY <2>1, <2>2, <2>3, <2>4 DEF Dated, Resume, Skip, OrderNow, Slide, Reactivate
<1>5. wakes' \in [Subs -> Nat \cup {NoDue}]
  BY <1>1 DEF Dated, Pause, Resume, Skip, OrderNow, Slide, Reactivate, Moved, AutoResume, TypeOK
<1>6. adrift' \in SUBSET Cycles
  <2>1. OfSub(s) \subseteq Cycles
    BY DEF OfSub
  <2> QED BY <2>1 DEF Dated, Pause, Resume, Skip, OrderNow, Slide, Reactivate, Moved, Commanded,
             AutoResume, TypeOK
<1> QED BY <1>2, <1>4, <1>5, <1>6 DEF TypeOK

\* Every step keeps the types.
LEMMA TypeStep == TypeOK /\ [Next]_vars => TypeOK'
<1> SUFFICES ASSUME TypeOK, [Next]_vars PROVE TypeOK'
  OBVIOUS
<1> USE TimesAssumption
<1>0. CASE UNCHANGED vars
  BY <1>0 DEF TypeOK, vars
<1>1. CASE Tick
  BY <1>1 DEF TypeOK, Tick
<1>2. CASE ExpireHolds
  <2>1. op' \in [Cycles -> OpRow]
    BY <1>2, RowsType DEF TypeOK, ExpireHolds
  <2>2. hold' \in [Cycles -> HoldRow]
    BY <1>2, RowsType DEF TypeOK, ExpireHolds
  <2> QED BY <1>2, <2>1, <2>2 DEF TypeOK, WorkerType, ExpireHolds
<1>3. ASSUME NEW w \in Workers, NEW s \in Subs, NEW t \in 0..clock, Claim(w, s, t)
      PROVE TypeOK'
  <2>0. sub[s].next \in 0..MaxTime /\ <<s, sub[s].next>> \in Cycles /\ t \in 0..MaxTime
    BY <1>3, CycleParts DEF TypeOK, SubRow, Claim, Due
  <2>1. op' \in [Cycles -> OpRow]
    <3> DEFINE c == <<s, sub[s].next>>
    <3>1. op[c] \in OpRow /\ op[c].token + 1 \in 0..MaxToken /\ t + Lease \in Nat
      BY <1>3, <2>0 DEF TypeOK, OpRow, Claim
    <3> HIDE DEF c
    <3>2. [op[c] EXCEPT !.state = IF @ = "none" THEN "claimed" ELSE @,
                        !.token = @ + 1, !.lease = t + Lease] \in OpRow
      BY <3>1 DEF OpRow
    <3> QED BY <1>3, <2>0, <3>1, <3>2 DEF TypeOK, Claim, c
  <2>2. WorkerType'
    <3> DEFINE c == <<s, sub[s].next>>
    <3>1. op[c].token + 1 \in Nat
      BY <1>3, <2>0 DEF TypeOK, OpRow
    <3>2. [phase |-> IF op[c].state = "prepared" THEN "resume" ELSE "claimed",
           at |-> t, cycle |-> c, token |-> op[c].token + 1] \in Process
      BY <3>1, <2>0 DEF Process, Phases
    <3> HIDE DEF c
    <3>3. worker' = [worker EXCEPT ![w] =
            [phase |-> IF op[c].state = "prepared" THEN "resume" ELSE "claimed",
             at |-> t, cycle |-> c, token |-> op[c].token + 1]]
      BY <1>3 DEF Claim, c
    <3>4. c \in Cycles
      BY <2>0 DEF c
    <3> QED BY <3>2, <3>3, <3>4 DEF TypeOK, WorkerType
  <2> QED BY <1>3, <2>1, <2>2 DEF TypeOK, WorkerType, Claim
<1>4. ASSUME NEW w \in Workers, RefusePreflight(w) PROVE TypeOK'
  <2>0. worker[w].phase # "idle" /\ worker[w].cycle \in Cycles /\ worker[w].at \in Nat
    BY <1>4, ProcessType DEF RefusePreflight
  <2>1. op' \in [Cycles -> OpRow]
    BY <1>4, RowsType DEF TypeOK, RefusePreflight
  <2>2. hold' \in [Cycles -> HoldRow]
    BY <1>4, RowsType DEF TypeOK, RefusePreflight
  <2>3. WorkerType'
    BY <1>4, ProcessType, <2>0 DEF TypeOK, RefusePreflight, Phases
  <2> QED BY <1>4, <2>1, <2>2, <2>3 DEF TypeOK, WorkerType, RefusePreflight
<1>5. ASSUME NEW w \in Workers, Reserve(w) PROVE TypeOK'
  <2>0. worker[w].phase # "idle" /\ worker[w].cycle \in Cycles /\ worker[w].at \in Nat
    BY <1>5, ProcessType DEF Reserve
  <2>1. op' \in [Cycles -> OpRow]
    <3>1. \A r \in OpRow : [r EXCEPT !.state = "reserved"] \in OpRow
      BY DEF OpRow
    <3>2. CASE ReserveFresh(w)
      BY <3>1, <3>2, <2>0, RowsType DEF TypeOK, ReserveFresh
    <3>3. CASE ReserveLapsed(w)
      BY <3>3, RowsType DEF ReserveLapsed
    <3>4. CASE ReserveReplay(w)
      BY <3>4 DEF TypeOK, ReserveReplay
    <3> QED BY <1>5, <3>2, <3>3, <3>4 DEF Reserve
  <2>2. hold' \in [Cycles -> HoldRow]
    <3>1. worker[w].at + HoldTime \in Nat
      BY <2>0
    <3>2. \A r \in HoldRow : [r EXCEPT !.is = "held", !.until = worker[w].at + HoldTime] \in HoldRow
      BY <3>1 DEF HoldRow
    <3>3. CASE ReserveFresh(w)
      <4>1. hold[worker[w].cycle] \in HoldRow
        BY <2>0 DEF TypeOK
      <4>2. [hold[worker[w].cycle] EXCEPT !.is = "held", !.until = worker[w].at + HoldTime] \in HoldRow
        BY <3>2, <4>1
      <4> QED BY <3>3, <4>1, <4>2, <2>0 DEF TypeOK, ReserveFresh
    <3>4. CASE ReserveLapsed(w)
      BY <3>4, RowsType DEF ReserveLapsed
    <3>5. CASE ReserveReplay(w)
      BY <3>5 DEF TypeOK, ReserveReplay
    <3> QED BY <1>5, <3>3, <3>4, <3>5 DEF Reserve
  <2>3. WorkerType'
    BY <1>5, ProcessType, <2>0 DEF TypeOK, Reserve, Phases, ReserveFresh, ReserveLapsed,
       ReserveReplay
  <2> QED BY <1>5, <2>1, <2>2, <2>3 DEF TypeOK, WorkerType, ReserveFresh, ReserveLapsed,
             ReserveReplay, Reserve
<1>6. ASSUME NEW w \in Workers, Prepare(w) PROVE TypeOK'
  <2>0. worker[w].phase # "idle" /\ worker[w].cycle \in Cycles /\ worker[w].at \in Nat
    BY <1>6, ProcessType DEF Prepare
  <2>1. op' \in [Cycles -> OpRow]
    <3>1. op[worker[w].cycle] \in OpRow
      BY <1>6, <2>0 DEF TypeOK
    <3>2. [op[worker[w].cycle] EXCEPT !.state = "prepared"] \in OpRow
      BY <1>6, <2>0, <3>1 DEF OpRow, Prepare
    <3> QED BY <1>6, <2>0, <3>1, <3>2 DEF TypeOK, Prepare
  <2>2. hold' \in [Cycles -> HoldRow]
    BY <1>6, RowsType DEF TypeOK, Prepare
  <2>3. money' \in [Cycles -> {"none", "open", "failed", "settled"}]
    BY <1>6, <2>0 DEF TypeOK, Prepare
  <2>4. adrift' \in SUBSET Cycles
    BY <1>6, <2>0 DEF TypeOK, Prepare
  <2>5. WorkerType'
    BY <1>6, ProcessType, <2>0 DEF TypeOK, Prepare, Phases
  <2> QED BY <1>6, <2>1, <2>2, <2>3, <2>4, <2>5 DEF TypeOK, WorkerType, Prepare
<1>7. ASSUME NEW w \in Workers, RefuseInput(w) PROVE TypeOK'
  <2>0. worker[w].phase # "idle" /\ worker[w].cycle \in Cycles /\ worker[w].at \in Nat
    BY <1>7, ProcessType DEF RefuseInput
  <2>1. op' \in [Cycles -> OpRow]
    BY <1>7, RowsType DEF TypeOK, RefuseInput, OutcomeRefused
  <2>2. hold' \in [Cycles -> HoldRow]
    BY <1>7, RowsType DEF TypeOK, RefuseInput, OutcomeRefused
  <2>3. money' \in [Cycles -> {"none", "open", "failed", "settled"}]
    BY <1>7, <2>0 DEF TypeOK, RefuseInput, OutcomeRefused
  <2>4. WorkerType'
    BY <1>7, ProcessType, <2>0 DEF TypeOK, RefuseInput, Phases
  <2> QED BY <1>7, <2>1, <2>2, <2>3, <2>4 DEF TypeOK, WorkerType, RefuseInput
<1>8. ASSUME NEW w \in Workers, Execute(w) PROVE TypeOK'
  <2>0. worker[w].phase # "idle" /\ worker[w].cycle \in Cycles /\ worker[w].at \in Nat
    BY <1>8, ProcessType DEF Execute
  <2>1. ask' \in [Cycles -> [Attempts -> Answers]]
    <3>1. PICK answer \in {"sent"} \cup Refused : ask' = [ask EXCEPT ![worker[w].cycle][0] = answer]
      BY <1>8 DEF Execute
    <3>2. answer \in Answers
      BY DEF Answers
    <3>3. ask[worker[w].cycle] \in [Attempts -> Answers]
      BY <2>0 DEF TypeOK
    <3>4. [ask[worker[w].cycle] EXCEPT ![0] = answer] \in [Attempts -> Answers]
      BY <3>2, <3>3
    <3> QED BY <3>1, <3>4, <2>0 DEF TypeOK
  <2>2. WorkerType'
    BY <1>8, ProcessType, <2>0 DEF TypeOK, Execute, Phases
  <2> QED BY <1>8, <2>1, <2>2 DEF TypeOK, WorkerType, Execute
<1>9. ASSUME NEW w \in Workers, Acknowledge(w) PROVE TypeOK'
  <2>0. worker[w].phase # "idle" /\ worker[w].cycle \in Cycles /\ worker[w].at \in Nat
    BY <1>9, ProcessType DEF Acknowledge
  <2>1. op' \in [Cycles -> OpRow]
    <3>1. op[worker[w].cycle] \in OpRow
      BY <1>9, <2>0 DEF TypeOK
    <3>2. [op[worker[w].cycle] EXCEPT !.ack = TRUE] \in OpRow
      BY <1>9, <2>0, <3>1 DEF OpRow, Acknowledge
    <3> QED BY <1>9, <2>0, <3>1, <3>2 DEF TypeOK, Acknowledge
  <2>2. WorkerType'
    BY <1>9, ProcessType, <2>0 DEF TypeOK, Acknowledge, Phases
  <2> QED BY <1>9, <2>1, <2>2 DEF TypeOK, WorkerType, Acknowledge
<1>10. ASSUME NEW w \in Workers, ReadOutcome(w) PROVE TypeOK'
  <2>0. worker[w].phase # "idle" /\ worker[w].cycle \in Cycles /\ worker[w].at \in Nat
    BY <1>10, ProcessType DEF ReadOutcome
  <2>1. WorkerType'
    BY <1>10, ProcessType, <2>0 DEF TypeOK, ReadOutcome, Phases
  <2> QED BY <1>10, <2>1 DEF TypeOK, WorkerType, ReadOutcome
<1>11. ASSUME NEW w \in Workers, Handoff(w) PROVE TypeOK'
  <2>0. worker[w].phase # "idle" /\ worker[w].cycle \in Cycles /\ worker[w].at \in Nat
    BY <1>11, ProcessType DEF Handoff
  <2>1. dun' \in [Cycles -> CaseRow]
    <3>1. dun \in [Cycles -> CaseRow]
      BY DEF TypeOK
    <3> QED BY <1>11, <2>0, <3>1 DEF Handoff, CaseRow
  <2>2. WorkerType'
    BY <1>11, ProcessType, <2>0 DEF TypeOK, Handoff, Phases
  <2> QED BY <1>11, <2>1, <2>2 DEF TypeOK, WorkerType, Handoff
<1>12. ASSUME NEW w \in Workers, RecordRefused(w) PROVE TypeOK'
  <2>0. worker[w].phase # "idle" /\ worker[w].cycle \in Cycles /\ worker[w].at \in Nat
    BY <1>12, ProcessType DEF RecordRefused
  <2>1. op' \in [Cycles -> OpRow]
    BY <1>12, RowsType DEF TypeOK, RecordRefused, OutcomeRefused
  <2>2. hold' \in [Cycles -> HoldRow]
    BY <1>12, RowsType DEF TypeOK, RecordRefused, OutcomeRefused
  <2>3. money' \in [Cycles -> {"none", "open", "failed", "settled"}]
    BY <1>12, <2>0 DEF TypeOK, RecordRefused, OutcomeRefused
  <2>4. ob' \in [Cycles -> ObRow]
    <3>1. PICK hard \in BOOLEAN, t \in worker[w].cycle[2]..clock :
            ob' = [ob EXCEPT ![worker[w].cycle] = Waiting(worker[w].cycle, 1, hard,
                     IF hard THEN NoDue ELSE t + RetryDelay[0])]
      BY <1>12 DEF RecordRefused
    <3>2. t + RetryDelay[0] \in Nat
      BY <2>0, CycleParts
    <3> QED BY <2>0, <3>1, <3>2, WaitingType DEF TypeOK
  <2>5. WorkerType'
    BY <1>12, ProcessType, <2>0 DEF TypeOK, RecordRefused, Phases
  <2> QED BY <1>12, <2>1, <2>2, <2>3, <2>4, <2>5 DEF TypeOK, WorkerType, RecordRefused
<1>13. ASSUME NEW w \in Workers, RecordSucceeded(w) PROVE TypeOK'
  <2>0. worker[w].phase # "idle" /\ worker[w].cycle \in Cycles /\ worker[w].at \in Nat
    BY <1>13, ProcessType DEF RecordSucceeded
  <2>1. sub' \in [Subs -> SubRow]
    BY <1>13, AdvancedType, <2>0, CycleParts DEF TypeOK, RecordSucceeded, SubRow,
       SettlePaid
  <2>2. op' \in [Cycles -> OpRow]
    <3>1. op[worker[w].cycle] \in OpRow
      BY <1>13, <2>0 DEF TypeOK
    <3>2. [op[worker[w].cycle] EXCEPT !.state = "succeeded"] \in OpRow
      BY <1>13, <2>0, <3>1 DEF OpRow, RecordSucceeded
    <3> QED BY <1>13, <2>0, <3>1, <3>2 DEF TypeOK, RecordSucceeded
  <2>3. hold' \in [Cycles -> HoldRow]
    BY <1>13, RowsType DEF TypeOK, RecordSucceeded
  <2>4. money' \in [Cycles -> {"none", "open", "failed", "settled"}]
    BY <1>13, <2>0 DEF TypeOK, RecordSucceeded, SettlePaid
  <2>5. WorkerType'
    BY <1>13, ProcessType, <2>0 DEF TypeOK, RecordSucceeded, Phases
  <2> QED BY <1>13, <2>1, <2>2, <2>3, <2>4, <2>5 DEF TypeOK, WorkerType, RecordSucceeded
<1>14. ASSUME NEW w \in Workers, RowEnds(w) PROVE TypeOK'
  <2>0. worker[w].phase # "idle" /\ worker[w].cycle \in Cycles /\ worker[w].at \in Nat
    BY <1>14, ProcessType DEF RowEnds
  <2>1. WorkerType'
    BY <1>14, ProcessType, <2>0 DEF TypeOK, RowEnds, Phases
  <2> QED BY <1>14, <2>1 DEF TypeOK, WorkerType, RowEnds
<1>15. ASSUME NEW w \in Workers, RetryExecute(w) PROVE TypeOK'
  <2>0. worker[w].phase # "idle" /\ worker[w].cycle \in Cycles /\ worker[w].at \in Nat
    BY <1>15, ProcessType DEF RetryExecute
  <2>1. ask' \in [Cycles -> [Attempts -> Answers]]
    <3>1. PICK answer \in {"sent"} \cup Refused :
            ask' = [ask EXCEPT ![worker[w].cycle][worker[w].token] = answer]
      BY <1>15 DEF RetryExecute
    <3>2. answer \in Answers
      BY DEF Answers
    <3>3. ask[worker[w].cycle] \in [Attempts -> Answers]
      BY <2>0 DEF TypeOK
    <3>4. [ask[worker[w].cycle] EXCEPT ![worker[w].token] = answer] \in [Attempts -> Answers]
      BY <3>2, <3>3
    <3> QED BY <3>1, <3>4, <2>0 DEF TypeOK
  <2>2. WorkerType'
    BY <1>15, ProcessType, <2>0 DEF TypeOK, RetryExecute, Phases
  <2> QED BY <1>15, <2>1, <2>2 DEF TypeOK, WorkerType, RetryExecute
<1>16. ASSUME NEW w \in Workers, NEW c \in Cycles, NEW t \in 0..clock, RetryPrepare(w, c, t)
      PROVE TypeOK'
  <2>1. hold' \in [Cycles -> HoldRow]
    BY <1>16, RowsType DEF TypeOK, RetryPrepare
  <2>2. ob' \in [Cycles -> ObRow]
    <3>1. ob[c] \in ObRow
      BY DEF TypeOK
    <3>2. ob[c].seq + 1 \in Attempts
      BY <1>16, <3>1 DEF RetryPrepare, ObRow, Attempts
    <3>3. [ob[c] EXCEPT !.state = "prepared", !.seq = @ + 1, !.due = NoDue,
                        !.grant = IF @ = "open" THEN "used" ELSE @] \in ObRow
      BY <3>1, <3>2 DEF ObRow
    <3> QED BY <1>16, <3>3 DEF TypeOK, RetryPrepare
  <2>3. WorkerType'
    <3>1. ob[c].seq + 1 \in Nat /\ t \in 0..MaxTime
      BY <1>16 DEF TypeOK, ObRow, Attempts
    <3>2. [phase |-> "retryAsk", at |-> t, cycle |-> c, token |-> ob[c].seq + 1] \in Process
      BY <3>1 DEF Process, Phases
    <3> QED BY <1>16, <3>2 DEF TypeOK, WorkerType, RetryPrepare
  <2> QED BY <1>16, <2>1, <2>2, <2>3 DEF TypeOK, WorkerType, RetryPrepare
<1>17. ASSUME NEW c \in Cycles, RetryFailed(c) PROVE TypeOK'
  <2>1. hold' \in [Cycles -> HoldRow]
    BY <1>17, RowsType DEF TypeOK, RetryFailed
  <2>2. money' \in [Cycles -> {"none", "open", "failed", "settled"}]
    BY <1>17 DEF TypeOK, RetryFailed
  <2>3. ob' \in [Cycles -> ObRow]
    <3>1. PICK hard \in BOOLEAN, t \in c[2]..clock :
            ob' = [ob EXCEPT ![c] = Waiting(c, ob[c].tries + 1, hard, NextDue(c, hard, t))]
      BY <1>17 DEF RetryFailed, Rung
    <3>2. ob[c].tries \in Nat /\ t \in Nat
      BY <1>17, CycleParts DEF ObRow, TypeOK
    <3>3. NextDue(c, hard, t) \in Nat \cup {NoDue}
      <4>1. ob[c].tries <= 2 => RetryDelay[ob[c].tries] \in Nat
        BY <3>2
      <4> QED BY <3>2, <4>1 DEF NextDue
    <3>4. ob[c].tries + 1 \in Nat
      BY <3>2
    <3>5. Waiting(c, ob[c].tries + 1, hard, NextDue(c, hard, t)) \in ObRow
      BY <1>17, <3>3, <3>4, WaitingType
    <3> QED BY <3>1, <3>5 DEF TypeOK
  <2> QED BY <1>17, <2>1, <2>2, <2>3 DEF TypeOK, WorkerType, RetryFailed
<1>18. ASSUME NEW c \in Cycles, RetryRecovered(c) PROVE TypeOK'
  <2>1. sub' \in [Subs -> SubRow]
    BY <1>18, AdvancedType, CycleParts DEF TypeOK, RetryRecovered, SubRow, Recovery,
       SettlePaid
  <2>2. hold' \in [Cycles -> HoldRow]
    BY <1>18, RowsType DEF TypeOK, RetryRecovered, Recovery
  <2>3. money' \in [Cycles -> {"none", "open", "failed", "settled"}]
    BY <1>18 DEF TypeOK, RetryRecovered, Recovery, SettlePaid
  <2>4. dun' \in [Cycles -> CaseRow]
    BY <1>18, RowsType DEF TypeOK, RetryRecovered, Recovery
  <2>5. ob' \in [Cycles -> ObRow]
    <3>1. ob[c] \in ObRow
      BY <1>18 DEF TypeOK
    <3>2. [ob[c] EXCEPT !.state = "recovered", !.due = NoDue] \in ObRow
      BY <1>18, <3>1 DEF ObRow, RetryRecovered
    <3> QED BY <1>18, <3>1, <3>2 DEF TypeOK, RetryRecovered, Recovery
  <2> QED BY <1>18, <2>1, <2>2, <2>3, <2>4, <2>5 DEF TypeOK, WorkerType, Recovery,
             RetryRecovered
<1>19. ASSUME NEW c \in Cycles, LatePositive(c) PROVE TypeOK'
  <2>1. sub' \in [Subs -> SubRow]
    BY <1>19, AdvancedType, CycleParts DEF TypeOK, LatePositive, SubRow, Recovery,
       SettlePaid
  <2>2. hold' \in [Cycles -> HoldRow]
    BY <1>19, RowsType DEF TypeOK, LatePositive, Recovery
  <2>3. money' \in [Cycles -> {"none", "open", "failed", "settled"}]
    BY <1>19 DEF TypeOK, LatePositive, Recovery, SettlePaid
  <2>4. dun' \in [Cycles -> CaseRow]
    BY <1>19, RowsType DEF TypeOK, LatePositive, Recovery
  <2>5. ob' \in [Cycles -> ObRow]
    <3>1. ob[c] \in ObRow
      BY <1>19 DEF TypeOK
    <3>2. [ob[c] EXCEPT !.state = "recovered", !.due = NoDue] \in ObRow
      BY <1>19, <3>1 DEF ObRow, LatePositive
    <3> QED BY <1>19, <3>1, <3>2 DEF TypeOK, LatePositive, Recovery
  <2> QED BY <1>19, <2>1, <2>2, <2>3, <2>4, <2>5 DEF TypeOK, WorkerType, Recovery,
             LatePositive
<1>20. ASSUME NEW c \in Cycles, Authorize(c) PROVE TypeOK'
  <2>1. ob' \in [Cycles -> ObRow]
    <3>1. ob[c] \in ObRow
      BY <1>20 DEF TypeOK
    <3>2. [ob[c] EXCEPT !.grant = "open"] \in ObRow
      BY <1>20, <3>1 DEF ObRow, Authorize
    <3> QED BY <1>20, <3>1, <3>2 DEF TypeOK, Authorize
  <2> QED BY <1>20, <2>1 DEF TypeOK, WorkerType, Authorize
<1>21. ASSUME NEW c \in Cycles, ScheduleRecovery(c) PROVE TypeOK'
  <2>1. ob' \in [Cycles -> ObRow]
    <3>1. ob[c] \in ObRow /\ clock \in Nat
      BY <1>21 DEF TypeOK
    <3>2. [ob[c] EXCEPT !.due = clock] \in ObRow
      BY <3>1 DEF ObRow
    <3> QED BY <1>21, <3>1, <3>2 DEF TypeOK, ScheduleRecovery
  <2> QED BY <1>21, <2>1 DEF TypeOK, WorkerType, ScheduleRecovery
<1>22. ASSUME NEW w \in Workers, NEW c \in Cycles, NEW t \in 0..clock, StockReturns(w, c, t)
      PROVE TypeOK'
  <2>0. t \in Nat /\ t \in 0..MaxTime /\ op[c] \in OpRow /\ op[c].token + 1 \in 0..MaxToken
    <3>1. clock \in 0..MaxTime /\ t \in 0..clock /\ op[c] \in OpRow
      BY <1>22 DEF TypeOK
    <3>2. op[c].token \in 0..MaxToken /\ op[c].token < MaxToken
      BY <1>22, <3>1 DEF StockReturns, OpRow
    <3> QED BY <3>1, <3>2, TimesAssumption
  <2>1. op' \in [Cycles -> OpRow]
    <3>1. t + Lease \in Nat
      BY <2>0, TimesAssumption
    <3>2. [op[c] EXCEPT !.state = "reserved", !.why = "none", !.token = op[c].token + 1,
                        !.lease = t + Lease] \in OpRow
      BY <2>0, <3>1 DEF OpRow
    <3> QED BY <1>22, <3>2 DEF TypeOK, StockReturns
  <2>2. hold' \in [Cycles -> HoldRow]
    BY <1>22, <2>0 DEF TypeOK, StockReturns, HoldRow
  <2>3. WorkerType'
    <3>1. [phase |-> "reserved", at |-> t, cycle |-> c, token |-> op[c].token + 1] \in Process
      BY <1>22, <2>0 DEF Process, Phases
    <3> QED BY <1>22, <3>1 DEF TypeOK, WorkerType, StockReturns
  <2> QED BY <1>22, <2>1, <2>2, <2>3 DEF TypeOK, WorkerType, StockReturns
<1>23. ASSUME NEW c \in Cycles, IngestCapture(c) PROVE TypeOK'
  <2>1. sub' \in [Subs -> SubRow]
    BY <1>23, AdvancedType, CycleParts DEF TypeOK, IngestCapture, SubRow, SettlePaid
  <2>2. money' \in [Cycles -> {"none", "open", "failed", "settled"}]
    BY <1>23 DEF TypeOK, IngestCapture, SettlePaid
  <2>3. dun' \in [Cycles -> CaseRow]
    BY <1>23, RowsType DEF TypeOK, IngestCapture
  <2> QED BY <1>23, <2>1, <2>2, <2>3 DEF TypeOK, WorkerType, IngestCapture
<1>24. ASSUME NEW c \in Cycles, IngestRefusal(c) PROVE TypeOK'
  <2>1. money' \in [Cycles -> {"none", "open", "failed", "settled"}]
    BY <1>24 DEF TypeOK, IngestRefusal
  <2>2. dun' \in [Cycles -> CaseRow]
    <3>1. dun \in [Cycles -> CaseRow]
      BY DEF TypeOK
    <3> QED BY <1>24, <3>1 DEF IngestRefusal, CaseRow
  <2> QED BY <1>24, <2>1, <2>2 DEF TypeOK, WorkerType, IngestRefusal
<1>25. ASSUME NEW c \in Cycles, NEW k \in Attempts, ProviderDecides(c, k) PROVE TypeOK'
  <2>1. ask' \in [Cycles -> [Attempts -> Answers]]
    <3>1. PICK answer \in Answers : ask' = [ask EXCEPT ![c][k] = answer]
      BY <1>25 DEF ProviderDecides, Answers, Refused, Paying
    <3>2. ask \in [Cycles -> [Attempts -> Answers]]
      BY DEF TypeOK
    <3> QED BY <3>1, <3>2
  <2> QED BY <1>25, <2>1 DEF TypeOK, WorkerType, ProviderDecides
<1>26. ASSUME NEW s \in Subs, Dated(s) PROVE TypeOK'
  BY <1>26, DatedType
<1>27. ASSUME NEW s \in Subs, Cancel(s) PROVE TypeOK'
  <2>1. sub' \in [Subs -> SubRow]
    BY <1>27 DEF TypeOK, Cancel, SubRow, Ended
  <2>2. op' \in [Cycles -> OpRow]
    BY <1>27, RowsType DEF TypeOK, Cancel
  <2>3. hold' \in [Cycles -> HoldRow]
    BY <1>27, RowsType DEF TypeOK, Cancel
  <2>4. dun' \in [Cycles -> CaseRow]
    BY <1>27 DEF TypeOK, Cancel, CaseRow
  <2> QED BY <1>27, <2>1, <2>2, <2>3, <2>4 DEF TypeOK, WorkerType, Cancel
<1> QED BY <1>0, <1>1, <1>2, <1>3, <1>4, <1>5, <1>6, <1>7, <1>8, <1>9, <1>10, <1>11,
           <1>12, <1>13, <1>14, <1>15, <1>16, <1>17, <1>18, <1>19, <1>20, <1>21, <1>22,
           <1>23, <1>24, <1>25, <1>26, <1>27
  DEF Next, BatchStep, RetryStep, HostStep, Command, Dated
-----------------------------------------------------------------------------
(* The tables of one cycle. *)

\* A step that leaves a cycle's rows alone leaves its invariant.
LEMMA CycleSame ==
  ASSUME NEW d \in Cycles, CycleOK(d),
         money'[d] = money[d], op'[d].state = op[d].state, hold'[d].is = hold[d].is,
         ob'[d].state = ob[d].state, ob'[d].seq = ob[d].seq, ask'[d] = ask[d]
  PROVE  CycleOK(d)'
BY DEF CycleOK

\* Every step keeps what the tables of a cycle say of each other; what the
\* process that acts knows is used, never what another one does.
LEMMA CycleStep ==
  ASSUME TypeOK, CyclesOK, WorkersOK, [Next]_vars
  PROVE  CyclesOK'
<1> USE TimesAssumption
<1> SUFFICES ASSUME NEW d \in Cycles PROVE CycleOK(d)'
  BY DEF CyclesOK
<1>a. CycleOK(d) /\ op[d] \in OpRow /\ hold[d] \in HoldRow /\ ob[d] \in ObRow
      /\ ask[d] \in [Attempts -> Answers]
  BY DEF CyclesOK, TypeOK
<1>0. CASE UNCHANGED vars
  BY <1>0, <1>a, CycleSame DEF vars
<1>1. CASE Tick
  BY <1>1, <1>a, CycleSame DEF Tick
<1>2. CASE ExpireHolds
  <2>1. PICK gone \in SUBSET {c \in Cycles : Lapsed(c, clock)} :
          op' = RefusedOps(gone, "stock") /\ hold' = HoldsBecome(gone, "expired")
    BY <1>2 DEF ExpireHolds
  <2>2. /\ op'[d].state = IF d \in gone THEN "refused" ELSE op[d].state
        /\ hold'[d].is = IF d \in gone THEN "expired" ELSE hold[d].is
    BY <2>1, RowsEffect
  <2>3. d \in gone => op[d].state = "reserved" /\ hold[d].is = "held"
    BY <2>1 DEF Lapsed
  <2>4. UNCHANGED <<money, ob, ask>>
    BY <1>2 DEF ExpireHolds
  <2> QED BY <1>a, <2>2, <2>3, <2>4 DEF CycleOK
<1>3. ASSUME NEW w \in Workers, NEW s \in Subs, NEW t \in 0..clock, Claim(w, s, t)
      PROVE CycleOK(d)'
  <2> DEFINE c == <<s, sub[s].next>>
  <2>1. op'[d].state = IF d = c /\ op[d].state = "none" THEN "claimed" ELSE op[d].state
    BY <1>3, <1>a DEF Claim, TypeOK, OpRow
  <2>2. UNCHANGED <<money, hold, ob, ask>>
    BY <1>3 DEF Claim
  <2> QED BY <1>a, <2>1, <2>2 DEF CycleOK
<1>4. ASSUME NEW w \in Workers, RefusePreflight(w) PROVE CycleOK(d)'
  BY <1>4, <1>a, RowsEffect, ProcessType DEF RefusePreflight, CycleOK
<1>5. ASSUME NEW w \in Workers, Reserve(w) PROVE CycleOK(d)'
  <2> DEFINE c == worker[w].cycle
  <2>1. UNCHANGED <<money, ob, ask>>
    BY <1>5 DEF Reserve
  <2>2. CASE ReserveFresh(w)
    <3>1. op[c].state = "claimed" /\ hold[c].is = "none"
      BY <2>2 DEF ReserveFresh
    <3>2. op'[d].state \in {op[d].state} \cup (IF d = c THEN {"reserved", "refused"} ELSE {})
      BY <2>2, <1>a, RowsEffect DEF ReserveFresh, TypeOK, OpRow
    <3>3. hold'[d].is \in {hold[d].is} \cup (IF d = c THEN {"held"} ELSE {})
      BY <2>2, <1>a DEF ReserveFresh, TypeOK, HoldRow
    <3> QED BY <1>a, <2>1, <3>1, <3>2, <3>3 DEF CycleOK
  <2>3. CASE ReserveLapsed(w)
    <3>1. op[c].state = "reserved" /\ hold[c].is = "held"
      BY <2>3 DEF ReserveLapsed, Lapsed
    <3>2. /\ op'[d].state = IF d = c THEN "refused" ELSE op[d].state
          /\ hold'[d].is = IF d = c THEN "expired" ELSE hold[d].is
      BY <2>3, RowsEffect DEF ReserveLapsed
    <3> QED BY <1>a, <2>1, <3>1, <3>2 DEF CycleOK
  <2>4. CASE ReserveReplay(w)
    BY <1>a, <2>1, <2>4, CycleSame DEF ReserveReplay
  <2> QED BY <1>5, <2>2, <2>3, <2>4 DEF Reserve
<1>6. ASSUME NEW w \in Workers, Prepare(w) PROVE CycleOK(d)'
  BY <1>6, <1>a, RowsEffect, ProcessType DEF Prepare, TypeOK, CycleOK, OpRow
<1>7. ASSUME NEW w \in Workers, RefuseInput(w) PROVE CycleOK(d)'
  BY <1>7, <1>a, RowsEffect, ProcessType DEF RefuseInput, OutcomeRefused, TypeOK,
     CycleOK, WorkersOK, WorkerOK
<1>8. ASSUME NEW w \in Workers, Execute(w) PROVE CycleOK(d)'
  BY <1>8, <1>a, ProcessType DEF Execute, TypeOK, CycleOK, WorkersOK, WorkerOK
<1>9. ASSUME NEW w \in Workers, Acknowledge(w) PROVE CycleOK(d)'
  BY <1>9, <1>a, ProcessType DEF Acknowledge, TypeOK, CycleOK, OpRow
<1>10. ASSUME NEW w \in Workers, ReadOutcome(w) PROVE CycleOK(d)'
  BY <1>10, <1>a, CycleSame DEF ReadOutcome
<1>11. ASSUME NEW w \in Workers, Handoff(w) PROVE CycleOK(d)'
  BY <1>11, <1>a, CycleSame DEF Handoff
<1>12. ASSUME NEW w \in Workers, RecordRefused(w) PROVE CycleOK(d)'
  <2>0. worker[w].phase # "idle" /\ worker[w].cycle \in Cycles
    BY <1>12, ProcessType DEF RecordRefused
  <2> DEFINE c == worker[w].cycle
  <2>1. /\ op[c].state = "prepared" /\ ob[c].state = "none"
        /\ op' = RefusedOps({c}, "other") /\ money' = [money EXCEPT ![c] = "failed"]
        /\ hold' = IF hold[c].is = "committed" THEN HoldsBecome({c}, "released") ELSE hold
        /\ ask' = ask /\ worker[w].phase = "refuse"
    BY <1>12 DEF RecordRefused, OutcomeRefused
  <2>2. PICK row : ob' = [ob EXCEPT ![c] = row] /\ row.state = "waiting" /\ row.seq = ob[c].seq
    <3>1. PICK hard \in BOOLEAN, t \in c[2]..clock :
            ob' = [ob EXCEPT ![c] = Waiting(c, 1, hard,
                     IF hard THEN NoDue ELSE t + RetryDelay[0])]
      BY <1>12 DEF RecordRefused
    <3>2. \A due : Waiting(c, 1, hard, due).state = "waiting" /\ Waiting(c, 1, hard, due).seq = ob[c].seq
      BY DEF Waiting
    <3> QED BY <3>1, <3>2
  <2>3. ask[c][0] \in Over
    BY <2>1 DEF WorkersOK, WorkerOK
  <2>4. CASE d # c
    <3>1. money'[d] = money[d] /\ ask'[d] = ask[d]
      BY <2>1, <2>4 DEF TypeOK
    <3>2. ob'[d] = ob[d]
      BY <2>2, <2>4 DEF TypeOK
    <3>3. hold'[d].is = hold[d].is /\ op'[d].state = op[d].state
      BY <2>1, <2>4, RowsEffect
    <3> QED BY <1>a, <3>1, <3>2, <3>3, CycleSame
  <2>5. CASE d = c
    <3>1. op'[d].state = "refused" /\ money'[d] = "failed" /\ ask'[d] = ask[d]
      <4>1. RefusedOps({c}, "other")[d].state = "refused"
        BY <2>5, RowsEffect
      <4> QED BY <2>1, <2>5, <4>1 DEF TypeOK
    <3>2. ob'[d].state = "waiting" /\ ob'[d].seq = ob[d].seq
      BY <2>2, <2>5 DEF TypeOK
    <3>3. ob[d].seq = 0 /\ ask[d][0] # "sent"
      BY <1>a, <2>1, <2>3, <2>5 DEF CycleOK, Over, Refused
    <3> QED BY <1>a, <2>3, <2>5, <3>1, <3>2, <3>3 DEF CycleOK
  <2> QED BY <2>4, <2>5
<1>13. ASSUME NEW w \in Workers, RecordSucceeded(w) PROVE CycleOK(d)'
  <2>0. worker[w].phase # "idle" /\ worker[w].cycle \in Cycles
    BY <1>13, ProcessType DEF RecordSucceeded
  <2> DEFINE c == worker[w].cycle
  <2>1. /\ op[c].state = "prepared" /\ worker[w].phase = "success"
        /\ money' = [money EXCEPT ![c] = "settled"]
        /\ op' = [op EXCEPT ![c].state = "succeeded"]
        /\ UNCHANGED <<ob, ask>>
        /\ hold' = IF hold[c].is = "committed" THEN HoldsBecome({c}, "consumed") ELSE hold
    BY <1>13 DEF RecordSucceeded, SettlePaid
  <2>2. CASE d # c
    <3>1. op'[d] = op[d] /\ money'[d] = money[d] /\ hold'[d].is = hold[d].is
      BY <2>1, <2>2, RowsEffect DEF TypeOK
    <3> QED BY <1>a, <2>1, <3>1, CycleSame
  <2>3. CASE d = c
    <3>1. op'[d].state = "succeeded" /\ money'[d] = "settled"
      BY <1>a, <2>0, <2>1, <2>3 DEF TypeOK, OpRow
    <3>2. ob[d].state = "none" /\ ask[d][0] # "sent"
      BY <1>a, <2>1, <2>3 DEF CycleOK, WorkersOK, WorkerOK, Paying
    <3> QED BY <1>a, <2>1, <3>1, <3>2 DEF CycleOK
  <2> QED BY <2>2, <2>3
<1>14. ASSUME NEW w \in Workers, RowEnds(w) PROVE CycleOK(d)'
  BY <1>14, <1>a, CycleSame DEF RowEnds
<1>15. ASSUME NEW w \in Workers, RetryExecute(w) PROVE CycleOK(d)'
  <2>0. worker[w].phase # "idle" /\ worker[w].cycle \in Cycles
    BY <1>15, ProcessType DEF RetryExecute
  <2> DEFINE c == worker[w].cycle
  <2>1. PICK answer \in {"sent"} \cup Refused : ask' = [ask EXCEPT ![c][worker[w].token] = answer]
    BY <1>15 DEF RetryExecute
  <2>2. UNCHANGED <<op, hold, money, ob>>
    BY <1>15 DEF RetryExecute
  <2>3. /\ ob[c].state = "prepared" /\ worker[w].token = ob[c].seq /\ ob[c].seq > 0
        /\ ask[c][ob[c].seq] = "none"
    BY <1>15 DEF RetryExecute, WorkersOK, WorkerOK
  <2>4. CASE d # c
    BY <1>a, <2>1, <2>2, <2>4, CycleSame DEF TypeOK
  <2>5. CASE d = c
    <3>1. ask'[d] = [ask[d] EXCEPT ![ob[d].seq] = answer]
      BY <2>0, <2>1, <2>3, <2>5 DEF TypeOK
    <3>2. ask'[d][0] = ask[d][0] /\ \A k \in Attempts : k # ob[d].seq => ask'[d][k] = ask[d][k]
      BY <1>a, <2>3, <2>5, <3>1 DEF Attempts
    <3>3. ob[d].seq \in Nat
      BY <1>a DEF ObRow, Attempts
    <3>4. \A k \in Attempts : k # ob[d].seq => (k > ob[d].seq => ask'[d][k] = "none")
                                           /\ (k < ob[d].seq => ask'[d][k] \in Over)
      BY <1>a, <3>2 DEF CycleOK
    <3>5. \A k \in Attempts : k > ob[d].seq \/ k < ob[d].seq => k # ob[d].seq
      BY <3>3 DEF Attempts
    <3>6. ob[d].state = "prepared" /\ ob[d].seq > 0 /\ ob'[d] = ob[d]
      BY <2>2, <2>3, <2>5
    <3> QED BY <1>a, <2>2, <3>2, <3>4, <3>5, <3>6 DEF CycleOK
  <2> QED BY <2>4, <2>5
<1>16. ASSUME NEW w \in Workers, NEW c \in Cycles, NEW t \in 0..clock, RetryPrepare(w, c, t)
      PROVE CycleOK(d)'
  <2>1. /\ hold' = HoldsBecome({c}, "committed")
        /\ ob[c].state = "waiting" /\ money[c] = "failed"
        /\ UNCHANGED <<op, money, ask>>
    BY <1>16 DEF RetryPrepare
  <2>2. CASE d # c
    <3>1. ob'[d].state = ob[d].state /\ ob'[d].seq = ob[d].seq
      BY <1>16, <1>a, <2>2 DEF TypeOK, ObRow, RetryPrepare
    <3>2. hold'[d].is = hold[d].is
      BY <2>1, <2>2, RowsEffect
    <3> QED BY <1>a, <2>1, <3>1, <3>2, CycleSame
  <2>3. CASE d = c
    <3>1. ob'[d].state = "prepared" /\ ob'[d].seq = ob[d].seq + 1 /\ hold'[d].is = "committed"
      BY <1>16, <1>a, <2>1, <2>3, RowsEffect DEF TypeOK, ObRow, RetryPrepare
    <3>2. ob[d].seq \in Nat
      BY <1>a DEF ObRow, Attempts
    <3>3. \A k \in Attempts : k < ob[d].seq + 1 => k < ob[d].seq \/ k = ob[d].seq
      BY <3>2 DEF Attempts
    <3>4. \A k \in Attempts : k > ob[d].seq + 1 => k > ob[d].seq
      BY <3>2 DEF Attempts
    <3> QED BY <1>a, <2>1, <2>3, <3>1, <3>3, <3>4 DEF CycleOK
  <2> QED BY <2>2, <2>3
<1>17. ASSUME NEW c \in Cycles, RetryFailed(c) PROVE CycleOK(d)'
  <2>1. /\ ob[c].state = "prepared" /\ ask[c][ob[c].seq] = "declined"
        /\ money[c] # "none"
        /\ money' = [money EXCEPT ![c] = "failed"]
        /\ hold' = IF hold[c].is = "committed" THEN HoldsBecome({c}, "released") ELSE hold
        /\ UNCHANGED <<op, ask>>
    BY <1>17 DEF RetryFailed
  <2>2. PICK row : ob' = [ob EXCEPT ![c] = row] /\ row.state = "waiting" /\ row.seq = ob[c].seq
    BY <1>17 DEF RetryFailed, Rung, Waiting
  <2>3. CASE d # c
    <3>1. money'[d] = money[d] /\ op'[d].state = op[d].state /\ ask'[d] = ask[d]
      BY <2>1, <2>3 DEF TypeOK
    <3>2. ob'[d] = ob[d]
      BY <2>2, <2>3 DEF TypeOK
    <3>3. hold'[d].is = hold[d].is
      BY <2>1, <2>3, RowsEffect
    <3> QED BY <1>a, <3>1, <3>2, <3>3, CycleSame
  <2>4. CASE d = c
    <3>1. money'[d] = "failed" /\ ob'[d].state = "waiting" /\ ob'[d].seq = ob[d].seq
      BY <2>1, <2>2, <2>4 DEF TypeOK
    <3> QED BY <1>a, <2>1, <2>4, <3>1 DEF CycleOK, Over, Refused
  <2> QED BY <2>3, <2>4
<1>18. ASSUME NEW c \in Cycles, RetryRecovered(c) PROVE CycleOK(d)'
  <2>1. ob[c].state = "prepared" /\ ask[c][ob[c].seq] \in Paying
    BY <1>18 DEF RetryRecovered
  <2>2. PICK taken : hold' = HoldsBecome({e \in {c} : hold[e].is \in {"committed", "released"}}, taken)
    BY <1>18 DEF RetryRecovered, Recovery
  <2>3. /\ money' = [money EXCEPT ![c] = "settled"] /\ money[c] # "none"
        /\ ob' = [ob EXCEPT ![c].state = "recovered", ![c].due = NoDue]
        /\ UNCHANGED <<op, ask>>
    BY <1>18 DEF RetryRecovered, Recovery, SettlePaid
  <2>4. CASE d # c
    <3>1. money'[d] = money[d] /\ op'[d].state = op[d].state /\ ask'[d] = ask[d]
      BY <2>3, <2>4 DEF TypeOK
    <3>2. ob'[d] = ob[d]
      BY <2>3, <2>4 DEF TypeOK
    <3>3. hold'[d].is = hold[d].is
      BY <2>2, <2>4, RowsEffect
    <3> QED BY <1>a, <3>1, <3>2, <3>3, CycleSame
  <2>5. CASE d = c
    <3>1. money'[d] = "settled" /\ ob'[d].state = "recovered" /\ ob'[d].seq = ob[d].seq
      BY <1>a, <2>3, <2>5 DEF TypeOK, ObRow
    <3>2. op[d].state = "refused" /\ \A k \in Attempts : ask[d][k] # "sent"
      <4>1. ob[d].seq \in Nat /\ ask[d][ob[d].seq] # "sent"
        BY <1>a, <2>1, <2>5 DEF CycleOK, ObRow, Attempts, Over, Refused, Paying
      <4>2. \A k \in Attempts : k < ob[d].seq \/ k = ob[d].seq \/ k > ob[d].seq
        BY <4>1 DEF Attempts
      <4> QED BY <1>a, <2>1, <2>5, <4>1, <4>2 DEF CycleOK, Over, Refused
    <3> QED BY <1>a, <2>3, <3>1, <3>2 DEF CycleOK
  <2> QED BY <2>4, <2>5
<1>19. ASSUME NEW c \in Cycles, LatePositive(c) PROVE CycleOK(d)'
  <2>1. ob[c].state = "waiting"
    BY <1>19 DEF LatePositive
  <2>2. PICK taken : hold' = HoldsBecome({e \in {c} : hold[e].is \in {"committed", "released"}}, taken)
    BY <1>19 DEF LatePositive, Recovery
  <2>3. /\ money' = [money EXCEPT ![c] = "settled"] /\ money[c] # "none"
        /\ ob' = [ob EXCEPT ![c].state = "recovered", ![c].due = NoDue]
        /\ UNCHANGED <<op, ask>>
    BY <1>19 DEF LatePositive, Recovery, SettlePaid
  <2>4. CASE d # c
    <3>1. money'[d] = money[d] /\ op'[d].state = op[d].state /\ ask'[d] = ask[d]
      BY <2>3, <2>4 DEF TypeOK
    <3>2. ob'[d] = ob[d]
      BY <2>3, <2>4 DEF TypeOK
    <3>3. hold'[d].is = hold[d].is
      BY <2>2, <2>4, RowsEffect
    <3> QED BY <1>a, <3>1, <3>2, <3>3, CycleSame
  <2>5. CASE d = c
    <3>1. money'[d] = "settled" /\ ob'[d].state = "recovered" /\ ob'[d].seq = ob[d].seq
      BY <1>a, <2>3, <2>5 DEF TypeOK, ObRow
    <3>2. op[d].state = "refused" /\ \A k \in Attempts : ask[d][k] # "sent"
      <4>1. ob[d].seq \in Nat /\ ask[d][ob[d].seq] # "sent"
        BY <1>a, <2>1, <2>5 DEF CycleOK, ObRow, Attempts, Over, Refused, Paying
      <4>2. \A k \in Attempts : k < ob[d].seq \/ k = ob[d].seq \/ k > ob[d].seq
        BY <4>1 DEF Attempts
      <4> QED BY <1>a, <2>1, <2>5, <4>1, <4>2 DEF CycleOK, Over, Refused
    <3> QED BY <1>a, <2>3, <3>1, <3>2 DEF CycleOK
  <2> QED BY <2>4, <2>5
<1>20. ASSUME NEW c \in Cycles, Authorize(c) PROVE CycleOK(d)'
  BY <1>20, <1>a DEF Authorize, TypeOK, CycleOK, ObRow
<1>21. ASSUME NEW c \in Cycles, ScheduleRecovery(c) PROVE CycleOK(d)'
  BY <1>21, <1>a DEF ScheduleRecovery, TypeOK, CycleOK, ObRow
<1>22. ASSUME NEW w \in Workers, NEW c \in Cycles, NEW t \in 0..clock, StockReturns(w, c, t)
      PROVE CycleOK(d)'
  BY <1>22, <1>a DEF StockReturns, TypeOK, CycleOK, OpRow, HoldRow
<1>23. ASSUME NEW c \in Cycles, IngestCapture(c) PROVE CycleOK(d)'
  BY <1>23, <1>a DEF IngestCapture, TypeOK, CycleOK, SettlePaid
<1>24. ASSUME NEW c \in Cycles, IngestRefusal(c) PROVE CycleOK(d)'
  BY <1>24, <1>a DEF IngestRefusal, TypeOK, CycleOK
<1>25. ASSUME NEW c \in Cycles, NEW k \in Attempts, ProviderDecides(c, k)
      PROVE CycleOK(d)'
  <2>1. PICK answer \in {"captured", "approved"} \cup Refused :
          /\ ask' = [ask EXCEPT ![c][k] = answer]
          /\ \/ ask[c][k] = "sent"
             \/ ask[c][k] = "action" /\ answer \in {"approved", "declined"}
    BY <1>25 DEF ProviderDecides, Refused
  <2>2. UNCHANGED <<op, hold, money, ob>>
    BY <1>25 DEF ProviderDecides
  <2>3. CASE d # c
    BY <1>a, <2>1, <2>2, <2>3, CycleSame DEF TypeOK
  <2>4. CASE d = c
    <3>1. \A j \in Attempts : ask'[d][j] = IF j = k THEN answer ELSE ask[d][j]
      BY <1>a, <2>1, <2>4 DEF TypeOK
    <3>2. 0 \in Attempts /\ ob[d].seq \in Attempts
      BY <1>a DEF Attempts, ObRow
    <3>3. answer # "sent" /\ answer # "none" /\ ask[d][k] # "none"
      BY <2>1, <2>4 DEF Refused
    <3>4. ask[d][k] \in Over => answer \in Over
      BY <2>1, <2>4 DEF Refused, Over
    <3> QED BY <1>a, <2>2, <3>1, <3>2, <3>3, <3>4 DEF CycleOK
  <2> QED BY <2>3, <2>4
<1>26. ASSUME NEW s \in Subs, Dated(s) PROVE CycleOK(d)'
  BY <1>26, <1>a, CycleSame, DatedRows
<1>27. ASSUME NEW s \in Subs, Cancel(s) PROVE CycleOK(d)'
  <2>1. PICK ended \in SUBSET {c \in Cycles : op[c].state \in {"claimed", "reserved"}} :
          /\ op' = RefusedOps(ended, "other")
          /\ hold' = HoldsBecome({c \in ended : hold[c].is = "held"}, "released")
    BY <1>27 DEF Cancel, OfSub
  <2>2. UNCHANGED <<money, ob, ask>>
    BY <1>27 DEF Cancel
  <2>3. op'[d].state = IF d \in ended THEN "refused" ELSE op[d].state
    BY <2>1, RowsEffect
  <2>4. hold'[d].is = IF d \in ended /\ hold[d].is = "held" THEN "released" ELSE hold[d].is
    BY <2>1, RowsEffect
  <2>5. d \in ended => op[d].state \in {"claimed", "reserved"}
    BY <2>1
  <2> QED BY <1>a, <2>2, <2>3, <2>4, <2>5 DEF CycleOK
<1> QED BY <1>0, <1>1, <1>2, <1>3, <1>4, <1>5, <1>6, <1>7, <1>8, <1>9, <1>10, <1>11,
           <1>12, <1>13, <1>14, <1>15, <1>16, <1>17, <1>18, <1>19, <1>20, <1>21, <1>22,
           <1>23, <1>24, <1>25, <1>26, <1>27
  DEF Next, BatchStep, RetryStep, HostStep, Command, Dated
-----------------------------------------------------------------------------
(* What the processes know. *)

\* A process that does not move keeps what it knows if nobody takes its row away:
\* what the provider has of an attempt never becomes nothing, and an attempt that
\* is over, or paid, stays so.
LEMMA WorkerSame ==
  ASSUME NEW v \in Workers, WorkerOK(v), worker'[v] = worker[v],
         worker[v].phase # "idle" =>
           LET c == worker[v].cycle
           IN /\ ask[c][0] # "none" => ask'[c][0] # "none"
              /\ ask[c][0] \in Over => ask'[c][0] \in Over
              /\ ask[c][0] \in Paying => ask'[c][0] \in Paying
              /\ worker[v].phase = "prepared" => op'[c].state = "prepared" /\ ask'[c][0] = "none"
              /\ worker[v].phase = "retryAsk" =>
                   /\ ob'[c].state = "prepared" /\ ob'[c].seq = ob[c].seq
                   /\ ask'[c][ob[c].seq] = "none"
  PROVE  WorkerOK(v)'
BY DEF WorkerOK

\* A process without a row, or only at its beginning, knows nothing.
LEMMA WorkerIdle ==
  ASSUME NEW v \in Workers, worker'[v].phase \in {"idle", "claimed", "resume", "reserved"}
  PROVE  WorkerOK(v)'
BY DEF WorkerOK

\* Where a process is after it went on or gave up.
LEMMA WorkerMoves ==
  ASSUME TypeOK, NEW w \in Workers
  PROVE  /\ RowDone(w) => worker'[w].phase = "idle"
         /\ RowDone(w) => \A v \in Workers : v # w => worker'[v] = worker[v]
         /\ \A phase : Become(w, phase) =>
              /\ worker'[w].phase = phase /\ worker'[w].cycle = worker[w].cycle
              /\ worker'[w].token = worker[w].token
              /\ \A v \in Workers : v # w => worker'[v] = worker[v]
BY DEF TypeOK, Process, RowDone, Become, IdleWorker

\* Every step leaves every process right about its row: the row of a process
\* about to ask is decided by nobody else.
LEMMA WorkerStep ==
  ASSUME TypeOK, CyclesOK, WorkersOK, AskingAlone, [Next]_vars
  PROVE  WorkersOK'
<1> USE TimesAssumption
<1> SUFFICES ASSUME NEW v \in Workers PROVE WorkerOK(v)'
  BY DEF WorkersOK
<1>a. /\ WorkerOK(v) /\ worker[v] \in Process
      /\ worker[v].phase # "idle" => worker[v].cycle \in Cycles
  BY DEF WorkersOK, TypeOK
<1>0. CASE UNCHANGED vars
  BY <1>0, <1>a DEF vars, WorkerOK
<1>1. CASE Tick
  <2>1. UNCHANGED <<op, ob, ask, worker>>
    BY <1>1 DEF Tick
  <2> QED BY <1>a, <2>1 DEF WorkerOK
<1>2. CASE ExpireHolds
  <2>1. PICK gone \in SUBSET {c \in Cycles : Lapsed(c, clock)} : op' = RefusedOps(gone, "stock")
    BY <1>2 DEF ExpireHolds
  <2>2. \A c \in Cycles : op[c].state = "prepared" => op'[c].state = "prepared"
    BY <2>1, RowsEffect DEF Lapsed
  <2>3. UNCHANGED <<ob, ask, worker>>
    BY <1>2 DEF ExpireHolds
  <2> QED BY <1>a, <2>2, <2>3, WorkerSame DEF WorkerOK
<1>3. ASSUME NEW w \in Workers, NEW s \in Subs, NEW t \in 0..clock, Claim(w, s, t)
      PROVE WorkerOK(v)'
  <2> DEFINE c == <<s, sub[s].next>>
  <2>1. CASE v = w
    <3>1. worker'[v].phase \in {"claimed", "resume"}
      BY <1>3, <2>1 DEF Claim, TypeOK
    <3> QED BY <3>1, WorkerIdle
  <2>2. CASE v # w
    <3>1. \A e \in Cycles : op[e].state = "prepared" => op'[e].state = "prepared"
      BY <1>3 DEF Claim, TypeOK, OpRow
    <3>2. UNCHANGED <<ob, ask>> /\ worker'[v] = worker[v]
      BY <1>3, <2>2 DEF Claim, TypeOK
    <3> QED BY <1>a, <3>1, <3>2, WorkerSame DEF WorkerOK
  <2> QED BY <2>1, <2>2
<1>4. ASSUME NEW w \in Workers, RefusePreflight(w) PROVE WorkerOK(v)'
  <2>0. worker[w].phase # "idle" /\ worker[w].cycle \in Cycles
    BY <1>4, ProcessType DEF RefusePreflight
  <2>1. CASE v = w
    BY <1>4, <2>1, WorkerMoves, WorkerIdle DEF RefusePreflight
  <2>2. CASE v # w
    <3>1. \A e \in Cycles : op[e].state = "prepared" => op'[e].state = "prepared"
      BY <1>4, RowsEffect DEF RefusePreflight
    <3>2. UNCHANGED <<ob, ask>> /\ worker'[v] = worker[v]
      BY <1>4, <2>2, WorkerMoves DEF RefusePreflight
    <3> QED BY <1>a, <3>1, <3>2, WorkerSame DEF WorkerOK
  <2> QED BY <2>1, <2>2
<1>5. ASSUME NEW w \in Workers, Reserve(w) PROVE WorkerOK(v)'
  <2>0. worker[w].phase # "idle" /\ worker[w].cycle \in Cycles
    BY <1>5, ProcessType DEF Reserve
  <2>1. CASE v = w
    BY <1>5, <2>1, WorkerMoves, WorkerIdle DEF Reserve, ReserveFresh, ReserveLapsed,
       ReserveReplay
  <2>2. CASE v # w
    <3>1. ASSUME NEW e \in Cycles, op[e].state = "prepared" PROVE op'[e].state = "prepared"
      <4>1. CASE ReserveFresh(w)
        <5>1. e # worker[w].cycle
          BY <3>1, <4>1 DEF ReserveFresh
        <5>2. op'[e].state = op[e].state
          BY <4>1, <5>1, RowsEffect DEF ReserveFresh, TypeOK
        <5> QED BY <3>1, <5>2
      <4>2. CASE ReserveLapsed(w)
        BY <3>1, <4>2, RowsEffect DEF ReserveLapsed, Lapsed
      <4>3. CASE ReserveReplay(w)
        BY <3>1, <4>3 DEF ReserveReplay
      <4> QED BY <1>5, <4>1, <4>2, <4>3 DEF Reserve
    <3>2. UNCHANGED <<ob, ask>> /\ worker'[v] = worker[v]
      BY <1>5, <2>2, WorkerMoves DEF Reserve, ReserveFresh, ReserveLapsed, ReserveReplay
    <3> QED BY <1>a, <3>1, <3>2, WorkerSame DEF WorkerOK
  <2> QED BY <2>1, <2>2
<1>6. ASSUME NEW w \in Workers, Prepare(w) PROVE WorkerOK(v)'
  <2>0. worker[w].phase # "idle" /\ worker[w].cycle \in Cycles
    BY <1>6, ProcessType DEF Prepare
  <2>1. CASE v = w
    <3>1. worker'[v].phase = "prepared" /\ worker'[v].cycle = worker[w].cycle
      BY <1>6, <2>1, WorkerMoves DEF Prepare
    <3>2. op'[worker[w].cycle].state = "prepared"
      BY <1>6, <2>0 DEF Prepare, TypeOK, OpRow
    <3>3. ask'[worker[w].cycle][0] = "none"
      BY <1>6, <2>0 DEF Prepare, CyclesOK, CycleOK, Attempts
    <3> QED BY <3>1, <3>2, <3>3 DEF WorkerOK
  <2>2. CASE v # w
    <3>1. \A e \in Cycles : op[e].state = "prepared" => op'[e].state = "prepared"
      BY <1>6 DEF Prepare, TypeOK, OpRow
    <3>2. UNCHANGED <<ob, ask>> /\ worker'[v] = worker[v]
      BY <1>6, <2>2, WorkerMoves DEF Prepare
    <3> QED BY <1>a, <3>1, <3>2, WorkerSame DEF WorkerOK
  <2> QED BY <2>1, <2>2
<1>7. ASSUME NEW w \in Workers, RefuseInput(w) PROVE WorkerOK(v)'
  <2>0. worker[w].phase # "idle" /\ worker[w].cycle \in Cycles
    BY <1>7, ProcessType DEF RefuseInput
  <2>1. CASE v = w
    BY <1>7, <2>1, WorkerMoves, WorkerIdle DEF RefuseInput
  <2>2. CASE v # w
    <3>1. \A e \in Cycles : e # worker[w].cycle => op'[e].state = op[e].state
      BY <1>7, RowsEffect DEF RefuseInput, OutcomeRefused
    <3>2. UNCHANGED <<ob, ask>> /\ worker'[v] = worker[v]
      BY <1>7, <2>2, WorkerMoves DEF RefuseInput
    <3>3. worker[v].phase = "prepared" => worker[v].cycle # worker[w].cycle
      BY <1>7, <2>2 DEF AskingAlone, RefuseInput
    <3> QED BY <1>a, <3>1, <3>2, <3>3, WorkerSame DEF WorkerOK
  <2> QED BY <2>1, <2>2
<1>8. ASSUME NEW w \in Workers, Execute(w) PROVE WorkerOK(v)'
  <2>0. worker[w].phase # "idle" /\ worker[w].cycle \in Cycles
    BY <1>8, ProcessType DEF Execute
  <2> DEFINE c == worker[w].cycle
  <2>1. PICK answer \in {"sent"} \cup Refused, phase \in {"ack", "ackRefusal", "handoff"} :
          /\ (answer = "sent") <=> (phase = "ack")
          /\ ask' = [ask EXCEPT ![c][0] = answer]
          /\ Become(w, phase)
    BY <1>8 DEF Execute
  <2>2. 0 \in Attempts
    BY DEF Attempts
  <2>3. \A e \in Cycles, k \in Attempts :
          ask'[e][k] = IF e = c /\ k = 0 THEN answer ELSE ask[e][k]
    BY <2>0, <2>1, <2>2 DEF TypeOK
  <2>4. worker[w].phase = "prepared" /\ UNCHANGED <<op, ob>>
    BY <1>8 DEF Execute
  <2>5. CASE v = w
    <3>1. worker'[v].phase = phase /\ worker'[v].cycle = c
      BY <2>1, <2>5, WorkerMoves
    <3>2. ask'[c][0] = answer
      BY <2>0, <2>2, <2>3
    <3> QED BY <2>1, <3>1, <3>2 DEF WorkerOK, Over, Refused
  <2>6. CASE v # w
    <3>1. worker'[v] = worker[v]
      BY <2>1, <2>6, WorkerMoves
    <3>2. worker[v].phase = "prepared" => worker[v].cycle # c
      BY <2>4, <2>6 DEF AskingAlone
    <3>3. ask[c][0] = "none"
      BY <2>4 DEF WorkersOK, WorkerOK
    <3>4. ASSUME worker[v].phase # "idle"
          PROVE  ask'[worker[v].cycle][0] = IF worker[v].cycle = c THEN answer ELSE ask[worker[v].cycle][0]
      BY <1>a, <2>2, <2>3, <3>4
    <3>5. ASSUME worker[v].phase = "retryAsk"
          PROVE  LET e == worker[v].cycle IN ask'[e][ob[e].seq] = ask[e][ob[e].seq]
      <4>1. worker[v].cycle \in Cycles /\ ob[worker[v].cycle].seq > 0
        BY <1>a, <3>5 DEF WorkerOK
      <4>2. ob[worker[v].cycle].seq \in Attempts /\ ob[worker[v].cycle].seq # 0
        BY <4>1 DEF TypeOK, ObRow, Attempts
      <4> QED BY <2>3, <4>1, <4>2
    <3>6. answer # "none"
      BY DEF Refused
    <3> QED BY <1>a, <2>4, <3>1, <3>2, <3>3, <3>4, <3>5, <3>6, WorkerSame
          DEF WorkerOK, Over, Refused, Paying
  <2> QED BY <2>5, <2>6
<1>9. ASSUME NEW w \in Workers, Acknowledge(w) PROVE WorkerOK(v)'
  <2>0. worker[w].phase # "idle" /\ worker[w].cycle \in Cycles
    BY <1>9, ProcessType DEF Acknowledge
  <2>1. CASE v = w
    <3>1. /\ worker'[v].phase = IF worker[w].phase = "ackRefusal" THEN "handoff" ELSE "read"
          /\ worker'[v].cycle = worker[w].cycle /\ ask' = ask
      BY <1>9, <2>1, WorkerMoves DEF Acknowledge
    <3> QED BY <1>9, <1>a, <2>1, <3>1 DEF Acknowledge, WorkerOK
  <2>2. CASE v # w
    <3>1. \A e \in Cycles : op[e].state = "prepared" => op'[e].state = "prepared"
      BY <1>9 DEF Acknowledge, TypeOK, OpRow
    <3>2. UNCHANGED <<ob, ask>> /\ worker'[v] = worker[v]
      BY <1>9, <2>2, WorkerMoves DEF Acknowledge
    <3> QED BY <1>a, <3>1, <3>2, WorkerSame DEF WorkerOK
  <2> QED BY <2>1, <2>2
<1>10. ASSUME NEW w \in Workers, ReadOutcome(w) PROVE WorkerOK(v)'
  <2>0. worker[w].phase # "idle" /\ worker[w].cycle \in Cycles
    BY <1>10, ProcessType DEF ReadOutcome
  <2>1. CASE v = w
    <3>1. /\ worker'[v].phase = IF ask[worker[w].cycle][0] = "declined" THEN "handoff" ELSE "success"
          /\ worker'[v].cycle = worker[w].cycle /\ ask' = ask
          /\ ask[worker[w].cycle][0] \in {"declined"} \cup Paying
      BY <1>10, <2>1, WorkerMoves DEF ReadOutcome
    <3> QED BY <3>1 DEF WorkerOK, Over, Refused
  <2>2. CASE v # w
    BY <1>10, <1>a, <2>2, WorkerMoves, WorkerSame DEF ReadOutcome, WorkerOK
  <2> QED BY <2>1, <2>2
<1>11. ASSUME NEW w \in Workers, Handoff(w) PROVE WorkerOK(v)'
  <2>0. worker[w].phase # "idle" /\ worker[w].cycle \in Cycles
    BY <1>11, ProcessType DEF Handoff
  <2>1. CASE v = w
    <3>1. worker'[v].phase = "refuse" /\ worker'[v].cycle = worker[w].cycle /\ ask' = ask
      BY <1>11, <2>1, WorkerMoves DEF Handoff
    <3> QED BY <1>11, <1>a, <2>1, <3>1 DEF Handoff, WorkerOK
  <2>2. CASE v # w
    BY <1>11, <1>a, <2>2, WorkerMoves, WorkerSame DEF Handoff, WorkerOK
  <2> QED BY <2>1, <2>2
<1>12. ASSUME NEW w \in Workers, RecordRefused(w) PROVE WorkerOK(v)'
  <2>0. worker[w].phase # "idle" /\ worker[w].cycle \in Cycles
    BY <1>12, ProcessType DEF RecordRefused
  <2>1. CASE v = w
    BY <1>12, <2>1, WorkerMoves, WorkerIdle DEF RecordRefused
  <2>2. CASE v # w
    <3> DEFINE c == worker[w].cycle
    <3>1. \A e \in Cycles : e # c => op'[e].state = op[e].state
      BY <1>12, RowsEffect DEF RecordRefused, OutcomeRefused
    <3>2. \A e \in Cycles : e # c => ob'[e] = ob[e]
      BY <1>12 DEF RecordRefused, TypeOK
    <3>3. worker'[v] = worker[v] /\ ask' = ask
      BY <1>12, <2>2, WorkerMoves DEF RecordRefused
    <3>4. ob[c].state = "none" /\ ask[c][0] \in Over
      BY <1>12 DEF RecordRefused, WorkersOK, WorkerOK
    <3>5. worker[v].phase \in {"prepared", "retryAsk"} => worker[v].cycle # c
      BY <1>a, <3>4 DEF WorkerOK, Over, Refused
    <3> QED BY <1>a, <3>1, <3>2, <3>3, <3>5, WorkerSame DEF WorkerOK
  <2> QED BY <2>1, <2>2
<1>13. ASSUME NEW w \in Workers, RecordSucceeded(w) PROVE WorkerOK(v)'
  <2>0. worker[w].phase # "idle" /\ worker[w].cycle \in Cycles
    BY <1>13, ProcessType DEF RecordSucceeded
  <2>1. CASE v = w
    BY <1>13, <2>1, WorkerMoves, WorkerIdle DEF RecordSucceeded
  <2>2. CASE v # w
    <3> DEFINE c == worker[w].cycle
    <3>1. \A e \in Cycles : e # c => op'[e] = op[e]
      BY <1>13 DEF RecordSucceeded, TypeOK
    <3>2. worker'[v] = worker[v] /\ UNCHANGED <<ob, ask>>
      BY <1>13, <2>2, WorkerMoves DEF RecordSucceeded
    <3>3. ask[c][0] \in Paying
      BY <1>13 DEF RecordSucceeded, WorkersOK, WorkerOK
    <3>4. worker[v].phase = "prepared" => worker[v].cycle # c
      BY <1>a, <3>3 DEF WorkerOK, Paying
    <3> QED BY <1>a, <3>1, <3>2, <3>4, WorkerSame DEF WorkerOK
  <2> QED BY <2>1, <2>2
<1>14. ASSUME NEW w \in Workers, RowEnds(w) PROVE WorkerOK(v)'
  <2>0. worker[w].phase # "idle" /\ worker[w].cycle \in Cycles
    BY <1>14, ProcessType DEF RowEnds
  <2>1. CASE v = w
    BY <1>14, <2>1, WorkerMoves, WorkerIdle DEF RowEnds
  <2>2. CASE v # w
    BY <1>14, <1>a, <2>2, WorkerMoves, WorkerSame DEF RowEnds, WorkerOK
  <2> QED BY <2>1, <2>2
<1>15. ASSUME NEW w \in Workers, RetryExecute(w) PROVE WorkerOK(v)'
  <2>0. worker[w].phase # "idle" /\ worker[w].cycle \in Cycles
    BY <1>15, ProcessType DEF RetryExecute
  <2>1. CASE v = w
    BY <1>15, <2>1, WorkerMoves, WorkerIdle DEF RetryExecute
  <2>2. CASE v # w
    <3> DEFINE c == worker[w].cycle
    <3>1. PICK answer : ask' = [ask EXCEPT ![c][worker[w].token] = answer]
      BY <1>15 DEF RetryExecute
    <3>2. /\ worker[w].token = ob[c].seq /\ ob[c].seq \in Attempts /\ ob[c].seq # 0
      <4>1. worker[w].token = ob[c].seq /\ ob[c].seq > 0
        BY <1>15 DEF RetryExecute, WorkersOK, WorkerOK
      <4>2. ob[c].seq \in Attempts
        BY <2>0 DEF TypeOK, ObRow
      <4> QED BY <4>1, <4>2 DEF Attempts
    <3>3. \A e \in Cycles, k \in Attempts : e # c \/ k = 0 => ask'[e][k] = ask[e][k]
      BY <3>1, <3>2 DEF TypeOK
    <3>4. worker'[v] = worker[v] /\ UNCHANGED <<op, ob>>
      BY <1>15, <2>2, WorkerMoves DEF RetryExecute
    <3>5. worker[v].phase = "retryAsk" => worker[v].cycle # c
      BY <1>15, <2>2 DEF AskingAlone, RetryExecute
    <3>6. \A e \in Cycles : ask'[e][0] = ask[e][0]
      BY <3>3 DEF Attempts
    <3>7. \A e \in Cycles : e # c => ask'[e][ob[e].seq] = ask[e][ob[e].seq]
      BY <3>3 DEF TypeOK, ObRow
    <3> QED BY <1>a, <3>4, <3>5, <3>6, <3>7, WorkerSame DEF WorkerOK
  <2> QED BY <2>1, <2>2
<1>16. ASSUME NEW w \in Workers, NEW c \in Cycles, NEW t \in 0..clock, RetryPrepare(w, c, t)
      PROVE WorkerOK(v)'
  <2>1. ob[c].state = "waiting" /\ UNCHANGED <<op, ask>>
    BY <1>16 DEF RetryPrepare
  <2>2. CASE v = w
    <3>1. /\ worker'[v].phase = "retryAsk" /\ worker'[v].cycle = c
          /\ worker'[v].token = ob[c].seq + 1
      BY <1>16, <2>2 DEF RetryPrepare, TypeOK
    <3>2. ob'[c].state = "prepared" /\ ob'[c].seq = ob[c].seq + 1
      <4>1. ob \in [Cycles -> ObRow]
        BY DEF TypeOK
      <4> QED BY <1>16, <4>1 DEF RetryPrepare, ObRow
    <3>3. ob[c].seq + 1 \in Attempts /\ ob[c].seq + 1 > 0 /\ ob[c].seq + 1 > ob[c].seq
      <4>1. ob[c] \in ObRow /\ ob[c].seq < MaxSeq
        BY <1>16 DEF RetryPrepare, TypeOK
      <4> QED BY <4>1 DEF ObRow, Attempts
    <3>4. ask[c][ob[c].seq + 1] = "none"
      BY <3>3 DEF CyclesOK, CycleOK
    <3> QED BY <2>1, <3>1, <3>2, <3>3, <3>4 DEF WorkerOK
  <2>3. CASE v # w
    <3>1. worker'[v] = worker[v] /\ \A e \in Cycles : e # c => ob'[e] = ob[e]
      BY <1>16, <2>3 DEF RetryPrepare, TypeOK
    <3>2. worker[v].phase = "retryAsk" => worker[v].cycle # c
      BY <1>a, <2>1 DEF WorkerOK
    <3> QED BY <1>a, <2>1, <3>1, <3>2, WorkerSame DEF WorkerOK
  <2> QED BY <2>2, <2>3
<1>17. ASSUME NEW c \in Cycles, RetryFailed(c) PROVE WorkerOK(v)'
  <2>1. UNCHANGED <<op, ask, worker>> /\ \A e \in Cycles : e # c => ob'[e] = ob[e]
    BY <1>17 DEF TypeOK, RetryFailed, Rung
  <2>2. worker[v].phase = "retryAsk" => worker[v].cycle # c
    BY <1>17, <1>a DEF WorkerOK, RetryFailed
  <2> QED BY <1>a, <2>1, <2>2, WorkerSame DEF WorkerOK
<1>18. ASSUME NEW c \in Cycles, RetryRecovered(c) PROVE WorkerOK(v)'
  <2>1. UNCHANGED <<op, ask, worker>> /\ \A e \in Cycles : e # c => ob'[e] = ob[e]
    BY <1>18 DEF TypeOK, RetryRecovered, Recovery
  <2>2. worker[v].phase = "retryAsk" => worker[v].cycle # c
    BY <1>18, <1>a DEF WorkerOK, RetryRecovered, Paying
  <2> QED BY <1>a, <2>1, <2>2, WorkerSame DEF WorkerOK
<1>19. ASSUME NEW c \in Cycles, LatePositive(c) PROVE WorkerOK(v)'
  <2>1. UNCHANGED <<op, ask, worker>> /\ \A e \in Cycles : e # c => ob'[e] = ob[e]
    BY <1>19 DEF TypeOK, LatePositive, Recovery
  <2>2. worker[v].phase = "retryAsk" => worker[v].cycle # c
    BY <1>19, <1>a DEF WorkerOK, LatePositive
  <2> QED BY <1>a, <2>1, <2>2, WorkerSame DEF WorkerOK
<1>20. ASSUME NEW c \in Cycles, Authorize(c) PROVE WorkerOK(v)'
  <2>1. UNCHANGED <<op, ask, worker>> /\ \A e \in Cycles : e # c => ob'[e] = ob[e]
    BY <1>20 DEF TypeOK, Authorize
  <2>2. worker[v].phase = "retryAsk" => worker[v].cycle # c
    BY <1>20, <1>a DEF WorkerOK, Authorize
  <2> QED BY <1>a, <2>1, <2>2, WorkerSame DEF WorkerOK
<1>21. ASSUME NEW c \in Cycles, ScheduleRecovery(c) PROVE WorkerOK(v)'
  <2>1. UNCHANGED <<op, ask, worker>> /\ \A e \in Cycles : e # c => ob'[e] = ob[e]
    BY <1>21 DEF TypeOK, ScheduleRecovery
  <2>2. worker[v].phase = "retryAsk" => worker[v].cycle # c
    BY <1>21, <1>a DEF WorkerOK, ScheduleRecovery
  <2> QED BY <1>a, <2>1, <2>2, WorkerSame DEF WorkerOK
<1>22. ASSUME NEW w \in Workers, NEW c \in Cycles, NEW t \in 0..clock, StockReturns(w, c, t)
      PROVE WorkerOK(v)'
  <2>1. /\ UNCHANGED <<ob, ask>>
        /\ \A e \in Cycles : op[e].state = "prepared" => op'[e].state = "prepared"
    BY <1>22 DEF StockReturns, TypeOK
  <2>2. CASE v = w
    BY <1>22, <2>2, WorkerIdle DEF StockReturns, TypeOK
  <2>3. CASE v # w
    <3>1. worker'[v] = worker[v]
      BY <1>22, <2>3 DEF StockReturns, TypeOK
    <3> QED BY <1>a, <2>1, <3>1, WorkerSame DEF WorkerOK
  <2> QED BY <2>2, <2>3
<1>23. ASSUME NEW c \in Cycles, IngestCapture(c) PROVE WorkerOK(v)'
  <2>1. UNCHANGED <<op, ob, ask, worker>>
    BY <1>23 DEF IngestCapture
  <2> QED BY <1>a, <2>1 DEF WorkerOK
<1>24. ASSUME NEW c \in Cycles, IngestRefusal(c) PROVE WorkerOK(v)'
  <2>1. UNCHANGED <<op, ob, ask, worker>>
    BY <1>24 DEF IngestRefusal
  <2> QED BY <1>a, <2>1 DEF WorkerOK
<1>25. ASSUME NEW c \in Cycles, NEW k \in Attempts, ProviderDecides(c, k)
      PROVE WorkerOK(v)'
  <2>1. PICK answer \in {"captured", "approved"} \cup Refused :
          /\ ask' = [ask EXCEPT ![c][k] = answer]
          /\ \/ ask[c][k] = "sent"
             \/ ask[c][k] = "action" /\ answer \in {"approved", "declined"}
    BY <1>25 DEF ProviderDecides, Refused
  <2>2. UNCHANGED <<op, ob, worker>>
    BY <1>25 DEF ProviderDecides
  <2>3. \A e \in Cycles, j \in Attempts : ask'[e][j] = IF e = c /\ j = k THEN answer ELSE ask[e][j]
    BY <2>1 DEF TypeOK
  <2>4. \A e \in Cycles, j \in Attempts :
          /\ ask[e][j] # "none" => ask'[e][j] # "none"
          /\ ask[e][j] = "none" => ask'[e][j] = "none"
          /\ ask[e][j] \in Over => ask'[e][j] \in Over
          /\ ask[e][j] \in Paying => ask'[e][j] \in Paying
    BY <2>1, <2>3 DEF Over, Refused, Paying
  <2>5. 0 \in Attempts /\ \A e \in Cycles : ob[e].seq \in Attempts
    BY DEF TypeOK, ObRow, Attempts
  <2> QED BY <1>a, <2>2, <2>4, <2>5, WorkerSame DEF WorkerOK
<1>26. ASSUME NEW s \in Subs, Dated(s) PROVE WorkerOK(v)'
  <2>1. UNCHANGED <<op, ob, ask, worker>>
    BY <1>26, DatedRows
  <2> QED BY <1>a, <2>1 DEF WorkerOK
<1>27. ASSUME NEW s \in Subs, Cancel(s) PROVE WorkerOK(v)'
  <2>1. \A e \in Cycles : op[e].state = "prepared" => op'[e].state = "prepared"
    BY <1>27, RowsEffect DEF Cancel
  <2>2. UNCHANGED <<ob, ask, worker>>
    BY <1>27 DEF Cancel
  <2> QED BY <1>a, <2>1, <2>2, WorkerSame DEF WorkerOK
<1> QED BY <1>0, <1>1, <1>2, <1>3, <1>4, <1>5, <1>6, <1>7, <1>8, <1>9, <1>10, <1>11,
           <1>12, <1>13, <1>14, <1>15, <1>16, <1>17, <1>18, <1>19, <1>20, <1>21, <1>22,
           <1>23, <1>24, <1>25, <1>26, <1>27
  DEF Next, BatchStep, RetryStep, HostStep, Command, Dated

\* A step after which nobody has newly come to ask.
LEMMA AskingSame ==
  ASSUME AskingAlone,
         \A v \in Workers : worker'[v].phase \in {"prepared", "retryAsk"} => worker'[v] = worker[v]
  PROVE  AskingAlone'
BY DEF AskingAlone

\* Every step leaves at most one process about to ask for an attempt: prepare
\* finds a cycle without money, a retry an obligation that waits.
LEMMA AskingStep ==
  ASSUME TypeOK, WorkersOK, AskingAlone, [Next]_vars
  PROVE  AskingAlone'
<1>0. CASE UNCHANGED vars
  BY <1>0 DEF vars, AskingAlone
<1>1. CASE Tick
  BY <1>1, AskingSame DEF Tick
<1>2. CASE ExpireHolds
  BY <1>2, AskingSame DEF ExpireHolds
<1>3. ASSUME NEW w \in Workers, NEW s \in Subs, NEW t \in 0..clock, Claim(w, s, t)
      PROVE AskingAlone'
  BY <1>3, AskingSame DEF Claim, TypeOK
<1>4. ASSUME NEW w \in Workers, RefusePreflight(w) PROVE AskingAlone'
  BY <1>4, WorkerMoves, AskingSame DEF RefusePreflight
<1>5. ASSUME NEW w \in Workers, Reserve(w) PROVE AskingAlone'
  BY <1>5, WorkerMoves, AskingSame DEF Reserve, ReserveFresh, ReserveLapsed,
     ReserveReplay
<1>6. ASSUME NEW w \in Workers, Prepare(w) PROVE AskingAlone'
  <2>1. /\ worker'[w].phase = "prepared" /\ worker'[w].cycle = worker[w].cycle
        /\ \A v \in Workers : v # w => worker'[v] = worker[v]
    BY <1>6, WorkerMoves DEF Prepare
  <2>2. \A v \in Workers : worker[v].phase = "prepared" => worker[v].cycle # worker[w].cycle
    BY <1>6 DEF Prepare, WorkersOK, WorkerOK
  <2> QED BY <2>1, <2>2 DEF AskingAlone
<1>7. ASSUME NEW w \in Workers, RefuseInput(w) PROVE AskingAlone'
  BY <1>7, WorkerMoves, AskingSame DEF RefuseInput
<1>8. ASSUME NEW w \in Workers, Execute(w) PROVE AskingAlone'
  BY <1>8, WorkerMoves, AskingSame DEF Execute
<1>9. ASSUME NEW w \in Workers, Acknowledge(w) PROVE AskingAlone'
  BY <1>9, WorkerMoves, AskingSame DEF Acknowledge
<1>10. ASSUME NEW w \in Workers, ReadOutcome(w) PROVE AskingAlone'
  BY <1>10, WorkerMoves, AskingSame DEF ReadOutcome
<1>11. ASSUME NEW w \in Workers, Handoff(w) PROVE AskingAlone'
  BY <1>11, WorkerMoves, AskingSame DEF Handoff
<1>12. ASSUME NEW w \in Workers, RecordRefused(w) PROVE AskingAlone'
  BY <1>12, WorkerMoves, AskingSame DEF RecordRefused
<1>13. ASSUME NEW w \in Workers, RecordSucceeded(w) PROVE AskingAlone'
  BY <1>13, WorkerMoves, AskingSame DEF RecordSucceeded
<1>14. ASSUME NEW w \in Workers, RowEnds(w) PROVE AskingAlone'
  BY <1>14, WorkerMoves, AskingSame DEF RowEnds
<1>15. ASSUME NEW w \in Workers, RetryExecute(w) PROVE AskingAlone'
  BY <1>15, WorkerMoves, AskingSame DEF RetryExecute
<1>16. ASSUME NEW w \in Workers, NEW c \in Cycles, NEW t \in 0..clock, RetryPrepare(w, c, t)
      PROVE AskingAlone'
  <2>1. /\ worker'[w].phase = "retryAsk" /\ worker'[w].cycle = c
        /\ \A v \in Workers : v # w => worker'[v] = worker[v]
    BY <1>16 DEF RetryPrepare, TypeOK
  <2>2. \A v \in Workers : worker[v].phase = "retryAsk" => worker[v].cycle # c
    BY <1>16 DEF RetryPrepare, WorkersOK, WorkerOK
  <2> QED BY <2>1, <2>2 DEF AskingAlone
<1>17. ASSUME NEW c \in Cycles, RetryFailed(c) PROVE AskingAlone'
  BY <1>17, AskingSame DEF RetryFailed
<1>18. ASSUME NEW c \in Cycles, RetryRecovered(c) PROVE AskingAlone'
  BY <1>18, AskingSame DEF RetryRecovered, Recovery
<1>19. ASSUME NEW c \in Cycles, LatePositive(c) PROVE AskingAlone'
  BY <1>19, AskingSame DEF LatePositive, Recovery
<1>20. ASSUME NEW c \in Cycles, Authorize(c) PROVE AskingAlone'
  BY <1>20, AskingSame DEF Authorize
<1>21. ASSUME NEW c \in Cycles, ScheduleRecovery(c) PROVE AskingAlone'
  BY <1>21, AskingSame DEF ScheduleRecovery
<1>22. ASSUME NEW w \in Workers, NEW c \in Cycles, NEW t \in 0..clock, StockReturns(w, c, t)
      PROVE AskingAlone'
  BY <1>22, AskingSame DEF StockReturns, TypeOK
<1>23. ASSUME NEW c \in Cycles, IngestCapture(c) PROVE AskingAlone'
  BY <1>23, AskingSame DEF IngestCapture
<1>24. ASSUME NEW c \in Cycles, IngestRefusal(c) PROVE AskingAlone'
  BY <1>24, AskingSame DEF IngestRefusal
<1>25. ASSUME NEW c \in Cycles, NEW k \in Attempts, ProviderDecides(c, k)
      PROVE AskingAlone'
  BY <1>25, AskingSame DEF ProviderDecides
<1>26. ASSUME NEW s \in Subs, Dated(s) PROVE AskingAlone'
  BY <1>26, AskingSame, DatedRows
<1>27. ASSUME NEW s \in Subs, Cancel(s) PROVE AskingAlone'
  BY <1>27, AskingSame DEF Cancel
<1> QED BY <1>0, <1>1, <1>2, <1>3, <1>4, <1>5, <1>6, <1>7, <1>8, <1>9, <1>10, <1>11,
           <1>12, <1>13, <1>14, <1>15, <1>16, <1>17, <1>18, <1>19, <1>20, <1>21, <1>22,
           <1>23, <1>24, <1>25, <1>26, <1>27
  DEF Next, BatchStep, RetryStep, HostStep, Command, Dated
-----------------------------------------------------------------------------
(* The schedule. *)

Unpaid == {"open", "failed"}
Leased(c) == op[c].state \in {"claimed", "reserved"} /\ op[c].lease > clock

\* A step that takes up no cycle, leases none, and lets no money appear keeps
\* the schedule where it was.
LEMMA ScheduleSame ==
  ASSUME NEW d \in Cycles, ScheduleOK(d), UNCHANGED <<clock, sub>>, adrift \subseteq adrift',
         op'[d].state # "none" => op[d].state # "none",
         Leased(d)' => Leased(d),
         money'[d] \in Unpaid => money[d] \in Unpaid,
         money'[d] = "settled" => money[d] = "settled"
  PROVE  ScheduleOK(d)'
<1>1. adrift' \cap OfSub(d[1]) = {} => adrift \cap OfSub(d[1]) = {}
  OBVIOUS
<1>2. OfSub(d[1])' = OfSub(d[1])
  BY DEF OfSub, Cycles
<1> QED BY <1>1, <1>2 DEF ScheduleOK, Leased, Unpaid

\* A payment moves the date past its own cycle; no other cycle of the
\* subscription was waiting on that date.
LEMMA SettleSchedule ==
  ASSUME TypeOK, CyclesOK, SchedulesOK, NEW c \in Cycles, SettlePaid(c), NEW d \in Cycles,
         UNCHANGED <<clock, adrift>>,
         op'[d].state # "none" => op[d].state # "none",
         Leased(d)' => Leased(d)
  PROVE  ScheduleOK(d)'
<1> DEFINE s == c[1]
<1>1. PICK t \in c[2]..clock : sub' = Advanced(c, t) /\ money' = [money EXCEPT ![c] = "settled"]
  BY DEF SettlePaid
<1>2. /\ c[1] \in Subs /\ c[2] \in Nat /\ c = <<c[1], c[2]>>
      /\ d[1] \in Subs /\ d[2] \in Nat /\ d = <<d[1], d[2]>>
  BY CycleParts, TimesAssumption
<1>3. /\ sub'[s].status = sub[s].status /\ sub'[s].next >= sub[s].next
      /\ sub[s].status = "active" => sub'[s].next > c[2]
      /\ sub[s].status # "active" => sub' = sub
      /\ \A r \in Subs : r # s => sub'[r] = sub[r]
  BY <1>1, AdvancedType
<1>4. sub[s].next \in Nat /\ sub'[s].next \in Nat
  BY <1>1, <1>2, AdvancedType DEF TypeOK, SubRow
<1>5. ScheduleOK(c) /\ ScheduleOK(d) /\ CycleOK(c)
  BY DEF SchedulesOK, CyclesOK
<1>6. money[c] \in Unpaid /\ op[c].state # "none"
  BY <1>5 DEF SettlePaid, CycleOK, Unpaid
<1>7. OfSub(d[1])' = OfSub(d[1]) /\ clock \in Nat
  BY TimesAssumption DEF OfSub, Cycles, TypeOK
<1>8. CASE d[1] # s
  <2>1. money'[d] = money[d] /\ sub'[d[1]] = sub[d[1]]
    BY <1>1, <1>2, <1>3, <1>8 DEF TypeOK
  <2> QED BY <1>5, <1>7, <2>1 DEF ScheduleOK, Leased
<1>9. CASE d[1] = s /\ d # c
  <2>1. money'[d] = money[d]
    BY <1>1, <1>9 DEF TypeOK
  <2>2. adrift \cap OfSub(s) = {} => sub[s].next = c[2]
    BY <1>5, <1>6 DEF ScheduleOK, Unpaid
  <2>3. c[2] # d[2]
    BY <1>2, <1>9
  <2>4. adrift \cap OfSub(s) = {} => ~Leased(d) /\ money[d] \notin Unpaid
    BY <1>5, <1>9, <2>2, <2>3 DEF ScheduleOK, Leased, Unpaid
  <2>5. op[d].state # "none" => d[2] <= clock /\ d[2] <= sub[s].next
    BY <1>5, <1>9 DEF ScheduleOK
  <2>6. money[d] = "settled" =>
          d[2] < sub'[s].next \/ (d[2] = sub'[s].next /\ sub'[s].status # "active")
    <3>1. money[d] = "settled" =>
            d[2] < sub[s].next \/ (d[2] = sub[s].next /\ sub[s].status # "active")
      BY <1>5, <1>9 DEF ScheduleOK
    <3> QED BY <1>2, <1>3, <1>4, <3>1
  <2>7. op[d].state # "none" => d[2] <= clock /\ d[2] <= sub'[s].next
    BY <1>2, <1>3, <1>4, <2>5
  <2> QED BY <1>7, <1>9, <2>1, <2>4, <2>6, <2>7 DEF ScheduleOK, Leased, Unpaid
<1>10. CASE d = c
  <2>1. money'[d] = "settled"
    BY <1>1, <1>10 DEF TypeOK
  <2>2. c[2] <= clock /\ c[2] <= sub[s].next
    BY <1>5, <1>6 DEF ScheduleOK
  <2>3. ~Leased(d)
    BY <1>5, <1>6, <1>10 DEF CycleOK, Leased, Unpaid
  <2>4. c[2] < sub'[s].next \/ (c[2] = sub'[s].next /\ sub'[s].status # "active")
    BY <1>2, <1>3, <1>4, <2>2
  <2>5. c[2] <= sub'[s].next
    BY <1>2, <1>4, <2>4
  <2> QED BY <1>7, <1>10, <2>1, <2>2, <2>3, <2>4, <2>5 DEF ScheduleOK, Leased, Unpaid
<1> QED BY <1>8, <1>9, <1>10

\* A command that passes its fences moves the date only when no cycle waits on it.
LEMMA CommandSchedule ==
  ASSUME TypeOK, CyclesOK, SchedulesOK, NEW s \in Subs, MayMove(s), NEW next \in Nat,
         Commanded(s, "active", next), next >= sub[s].next \/ next > clock,
         NEW d \in Cycles
  PROVE  ScheduleOK(d)'
<1>1. /\ sub' = [sub EXCEPT ![s] = [status |-> "active", next |-> next]]
      /\ UNCHANGED <<clock, op, money, adrift>>
  BY DEF Commanded
<1>2. d[1] \in Subs /\ d[2] \in 0..MaxTime /\ d = <<d[1], d[2]>> /\ d[2] \in Nat
  BY CycleParts, TimesAssumption
<1>3. ScheduleOK(d) /\ CycleOK(d)
  BY DEF SchedulesOK, CyclesOK
<1>4. OfSub(d[1])' = OfSub(d[1]) /\ clock \in Nat /\ sub[s].next \in Nat
  BY TimesAssumption DEF OfSub, Cycles, TypeOK, SubRow
<1>5. CASE d[1] # s
  BY <1>1, <1>2, <1>3, <1>4, <1>5 DEF ScheduleOK
<1>6. CASE d[1] = s
  <2>1. sub'[s] = [status |-> "active", next |-> next]
    BY <1>1 DEF TypeOK
  <2>2. d \in OfSub(s) /\ ~Busy(d)
    BY <1>6 DEF OfSub, MayMove, Unfenced
  <2>3. sub[s].next = d[2] => money[d] = "none"
    BY <1>2, <1>6, TimesAssumption DEF MayMove, Unlocked
  <2>4. ~Leased(d)
    BY <2>2 DEF Busy, Leased
  <2>5. adrift \cap OfSub(s) = {} => money[d] \notin Unpaid
    BY <1>3, <1>6, <2>3 DEF ScheduleOK, Unpaid
  <2>6. op[d].state # "none" => d[2] <= clock /\ d[2] <= next
    BY <1>2, <1>3, <1>4, <1>6 DEF ScheduleOK
  <2>7. money[d] = "settled" => d[2] < next
    <3>1. money[d] = "settled" => d[2] < sub[s].next /\ d[2] <= clock
      BY <1>3, <1>6, <2>3 DEF ScheduleOK, CycleOK
    <3> QED BY <1>2, <1>4, <3>1
  <2> QED BY <1>1, <1>4, <1>6, <2>1, <2>4, <2>5, <2>6, <2>7 DEF ScheduleOK, Leased,
             Unpaid
<1> QED BY <1>5, <1>6

\* The end of a pause passes over every cycle that was taken up; those that are
\* being renewed or unpaid are adrift from then on.
LEMMA WakingSchedule ==
  ASSUME TypeOK, CyclesOK, SchedulesOK, NEW s \in Subs, AutoResume(s), NEW d \in Cycles
  PROVE  ScheduleOK(d)'
<1>1. /\ sub' = [sub EXCEPT ![s] = [status |-> "active", next |-> Resumed(s)]]
      /\ UNCHANGED <<clock, op, money>> /\ adrift \subseteq adrift'
      /\ \A c \in OfSub(s) : Busy(c) \/ money[c] \in Unpaid => c \in adrift'
  BY DEF AutoResume, Unpaid
<1>2. d[1] \in Subs /\ d[2] \in Nat /\ OfSub(d[1])' = OfSub(d[1]) /\ d \in OfSub(d[1])
  BY CycleParts, TimesAssumption DEF OfSub, Cycles
<1>3. ScheduleOK(d) /\ CycleOK(d)
  BY DEF SchedulesOK, CyclesOK
<1>4. clock \in Nat /\ sub[s].next \in Nat /\ Resumed(s) \in Nat /\ Resumed(s) > clock
  BY TimesAssumption, ResumedDate DEF TypeOK, SubRow
<1>5. CASE d[1] # s
  <2>1. sub'[d[1]] = sub[d[1]] /\ (adrift' \cap OfSub(d[1]) = {} => adrift \cap OfSub(d[1]) = {})
    BY <1>1, <1>2, <1>5 DEF TypeOK
  <2> QED BY <1>1, <1>2, <1>3, <2>1 DEF ScheduleOK
<1>6. CASE d[1] = s
  <2>1. sub'[s] = [status |-> "active", next |-> Resumed(s)]
    BY <1>1 DEF TypeOK
  <2>2. adrift' \cap OfSub(s) = {} => ~Leased(d) /\ money[d] \notin Unpaid
    BY <1>1, <1>2, <1>6 DEF Leased, Busy
  <2>3. op[d].state # "none" => d[2] <= clock /\ d[2] < Resumed(s)
    BY <1>2, <1>3, <1>4 DEF ScheduleOK
  <2>4. money[d] = "settled" => d[2] < Resumed(s)
    BY <1>3, <2>3 DEF CycleOK
  <2> QED BY <1>1, <1>2, <1>4, <1>6, <2>1, <2>2, <2>3, <2>4 DEF ScheduleOK, Leased, Unpaid
<1> QED BY <1>5, <1>6

\* Every command that sets a date keeps each cycle's relation to the date.
LEMMA DatedSchedule ==
  ASSUME TypeOK, CyclesOK, SchedulesOK, NEW s \in Subs, Dated(s), NEW d \in Cycles
  PROVE  ScheduleOK(d)'
<1> USE TimesAssumption
<1>1. clock \in Nat /\ sub[s].next \in Nat
  BY DEF TypeOK, SubRow
<1>2. ASSUME NEW status, NEW next \in Nat, Moved(s, status, next),
             next >= sub[s].next \/ next > clock
      PROVE  ScheduleOK(d)'
  BY <1>2, CommandSchedule DEF Moved
<1>3. CASE Pause(s)
  <2>1. /\ UNCHANGED <<clock, op, money, adrift>>
        /\ sub' = [sub EXCEPT ![s] = [status |-> "paused", next |-> sub[s].next]]
    BY <1>3 DEF Pause, Commanded
  <2>2. d[1] \in Subs /\ OfSub(d[1])' = OfSub(d[1]) /\ ScheduleOK(d)
    BY CycleParts DEF OfSub, Cycles, SchedulesOK
  <2>3. /\ sub'[d[1]].next = sub[d[1]].next
        /\ sub'[d[1]].status = "active" => sub[d[1]].status = "active"
    BY <2>1, <2>2 DEF TypeOK
  <2> QED BY <2>1, <2>2, <2>3 DEF ScheduleOK
<1>4. CASE Resume(s)
  BY <1>1, <1>4, ResumedDate, CommandSchedule DEF Resume
<1>5. CASE Skip(s)
  <2>1. sub[s].next + Cadence \in Nat /\ sub[s].next + Cadence >= sub[s].next
    BY <1>1
  <2> QED BY <1>2, <1>5, <2>1 DEF Skip
<1>6. CASE OrderNow(s)
  <2>1. clock + Soon \in Nat /\ clock + Soon > clock
    BY <1>1
  <2> QED BY <1>2, <1>6, <2>1 DEF OrderNow
<1>7. CASE Slide(s)
  <2>1. PICK span \in SlideAhead : Moved(s, "active", clock + span)
    BY <1>7 DEF Slide
  <2>2. clock + span \in Nat /\ clock + span > clock
    BY <1>1, SlideAssumption
  <2> QED BY <1>2, <2>1, <2>2
<1>8. CASE Reactivate(s)
  <2>1. clock + 2 * Day \in Nat /\ clock + 2 * Day > clock
    BY <1>1
  <2> QED BY <1>2, <1>8, <2>1 DEF Reactivate
<1>9. CASE AutoResume(s)
  BY <1>9, WakingSchedule
<1> QED BY <1>3, <1>4, <1>5, <1>6, <1>7, <1>8, <1>9 DEF Dated

\* Every step keeps each cycle's relation to its subscription's date.
LEMMA ScheduleStep ==
  ASSUME TypeOK, CyclesOK, SchedulesOK, [Next]_vars
  PROVE  SchedulesOK'
<1> USE TimesAssumption
<1> SUFFICES ASSUME NEW d \in Cycles PROVE ScheduleOK(d)'
  BY DEF SchedulesOK
<1>a. ScheduleOK(d) /\ op[d] \in OpRow
  BY DEF SchedulesOK, TypeOK
<1>b. clock \in Nat /\ \A s \in Subs : sub[s].next \in Nat
  BY DEF TypeOK, SubRow
<1>0. CASE UNCHANGED vars
  BY <1>0, <1>a, ScheduleSame DEF vars, Leased
<1>1. CASE Tick
  <2>1. clock' = clock + 1 /\ clock \in Nat /\ UNCHANGED <<op, money, sub, adrift>>
    BY <1>1 DEF Tick, TypeOK
  <2>2. OfSub(d[1])' = OfSub(d[1]) /\ d[2] \in Nat /\ op[d].lease \in Nat
    BY <1>a, CycleParts DEF OfSub, Cycles, OpRow
  <2> QED BY <1>a, <2>1, <2>2 DEF ScheduleOK
<1>2. CASE ExpireHolds
  <2>1. UNCHANGED <<clock, sub>> /\ adrift \subseteq adrift'
    BY <1>2 DEF ExpireHolds
  <2>2. /\ op'[d].state # "none" => op[d].state # "none"
        /\ Leased(d)' => Leased(d)
    BY <1>2, <1>a, RowsEffect DEF Leased, ExpireHolds, Lapsed
  <2>3. /\ money'[d] \in Unpaid => money[d] \in Unpaid
        /\ money'[d] = "settled" => money[d] = "settled"
    BY <1>2 DEF ExpireHolds
  <2> QED BY <1>a, <2>1, <2>2, <2>3, ScheduleSame
<1>3. ASSUME NEW w \in Workers, NEW s \in Subs, NEW t \in 0..clock, Claim(w, s, t)
      PROVE ScheduleOK(d)'
  <2> DEFINE c == <<s, sub[s].next>>
  <2>1. UNCHANGED <<clock, sub, money, adrift>>
    BY <1>3 DEF Claim
  <2>2. op'[d] = op[d] \/ d = c
    BY <1>3 DEF Claim, TypeOK
  <2>3. CASE op'[d] = op[d]
    BY <1>a, <2>1, <2>3, ScheduleSame DEF Leased
  <2>4. CASE d = c
    <3>1. d[1] = s /\ d[2] = sub[s].next
      BY <2>4
    <3>2. sub[s].next \in Nat /\ sub[s].next <= clock
      BY <1>3 DEF TypeOK, SubRow, Claim, Due
    <3> QED BY <1>a, <2>1, <3>1, <3>2 DEF ScheduleOK
  <2> QED BY <2>2, <2>3, <2>4
<1>4. ASSUME NEW w \in Workers, RefusePreflight(w) PROVE ScheduleOK(d)'
  <2>1. UNCHANGED <<clock, sub>> /\ adrift \subseteq adrift'
    BY <1>4 DEF RefusePreflight
  <2>2. /\ op'[d].state # "none" => op[d].state # "none"
        /\ Leased(d)' => Leased(d)
    BY <1>4, <1>a, RowsEffect DEF Leased, RefusePreflight
  <2>3. /\ money'[d] \in Unpaid => money[d] \in Unpaid
        /\ money'[d] = "settled" => money[d] = "settled"
    BY <1>4 DEF RefusePreflight
  <2> QED BY <1>a, <2>1, <2>2, <2>3, ScheduleSame
<1>5. ASSUME NEW w \in Workers, Reserve(w) PROVE ScheduleOK(d)'
  <2>a. /\ op'[d].state # "none" => op[d].state # "none"
        /\ op'[d].lease = op[d].lease
        /\ op'[d].state \in {"claimed", "reserved"} => op[d].state \in {"claimed", "reserved"}
        /\ clock' = clock
    <3>1. CASE ReserveFresh(w)
      <4>1. op[worker[w].cycle].state = "claimed" /\ clock' = clock
        BY <1>5, <3>1 DEF Reserve, ReserveFresh
      <4>2. CASE op' = [op EXCEPT ![worker[w].cycle].state = "reserved"]
        BY <1>a, <4>1, <4>2 DEF TypeOK, OpRow
      <4>3. CASE op' = RefusedOps({worker[w].cycle}, "stock")
        BY <1>a, <4>1, <4>3, RowsEffect
      <4> QED BY <3>1, <4>2, <4>3 DEF ReserveFresh
    <3>2. CASE ReserveLapsed(w)
      BY <1>5, <1>a, <3>2, RowsEffect DEF Reserve, ReserveLapsed, Lapsed
    <3>3. CASE ReserveReplay(w)
      BY <1>5, <1>a, <3>3 DEF Reserve, ReserveReplay
    <3> QED BY <1>5, <3>1, <3>2, <3>3 DEF Reserve
  <2>0. worker[w].phase # "idle" /\ worker[w].cycle \in Cycles
    BY <1>5, ProcessType DEF Reserve
  <2>1. UNCHANGED <<clock, sub>> /\ adrift \subseteq adrift'
    BY <1>5 DEF Reserve
  <2>2. /\ op'[d].state # "none" => op[d].state # "none"
        /\ Leased(d)' => Leased(d)
    BY <1>5, <1>a, <2>0, <2>a DEF Leased
  <2>3. /\ money'[d] \in Unpaid => money[d] \in Unpaid
        /\ money'[d] = "settled" => money[d] = "settled"
    BY <1>5 DEF Reserve
  <2> QED BY <1>a, <2>1, <2>2, <2>3, ScheduleSame
<1>6. ASSUME NEW w \in Workers, Prepare(w) PROVE ScheduleOK(d)'
  <2>0. worker[w].phase # "idle" /\ worker[w].cycle \in Cycles
    BY <1>6, ProcessType DEF Prepare
  <2> DEFINE c == worker[w].cycle
  <2>1. /\ UNCHANGED <<clock, sub>> /\ op[c].state = "reserved"
        /\ money' = [money EXCEPT ![c] = "open"]
        /\ op' = [op EXCEPT ![c].state = "prepared"]
        /\ adrift \subseteq adrift' /\ (op[c].lease <= clock => c \in adrift')
    BY <1>6 DEF Prepare
  <2>2. CASE d # c
    <3>1. op'[d] = op[d] /\ money'[d] = money[d]
      BY <2>1, <2>2 DEF TypeOK
    <3> QED BY <1>a, <2>1, <3>1, ScheduleSame DEF Leased
  <2>3. CASE d = c
    <3>1. op'[d].state = "prepared" /\ money'[d] = "open"
      BY <1>a, <2>1, <2>3 DEF TypeOK, OpRow
    <3>2. op[d].lease \in Nat /\ clock \in Nat
      BY <1>a, TimesAssumption DEF OpRow, TypeOK
    <3>3. OfSub(d[1])' = OfSub(d[1]) /\ d \in OfSub(d[1])
      BY DEF OfSub, Cycles
    <3>4. CASE op[d].lease <= clock
      <4>1. adrift' \cap OfSub(d[1]) # {}
        BY <2>1, <2>3, <3>3, <3>4
      <4> QED BY <1>a, <2>1, <2>3, <3>1, <3>3, <4>1 DEF ScheduleOK
    <3>5. CASE op[d].lease > clock
      <4>1. adrift' \cap OfSub(d[1]) = {} => adrift \cap OfSub(d[1]) = {}
        BY <2>1
      <4> QED BY <1>a, <2>1, <2>3, <3>1, <3>3, <3>5, <4>1 DEF ScheduleOK
    <3> QED BY <3>2, <3>4, <3>5
  <2> QED BY <2>2, <2>3
<1>7. ASSUME NEW w \in Workers, RefuseInput(w) PROVE ScheduleOK(d)'
  <2>0. worker[w].phase # "idle" /\ worker[w].cycle \in Cycles
    BY <1>7, ProcessType DEF RefuseInput
  <2>1. UNCHANGED <<clock, sub>> /\ adrift \subseteq adrift'
    BY <1>7 DEF RefuseInput
  <2>2. /\ op'[d].state # "none" => op[d].state # "none"
        /\ Leased(d)' => Leased(d)
    BY <1>7, <1>a, RowsEffect DEF Leased, RefuseInput, OutcomeRefused
  <2>3. /\ money'[d] \in Unpaid => money[d] \in Unpaid
        /\ money'[d] = "settled" => money[d] = "settled"
    BY <1>7, <2>0 DEF RefuseInput, OutcomeRefused, TypeOK, Unpaid
  <2> QED BY <1>a, <2>1, <2>2, <2>3, ScheduleSame
<1>8. ASSUME NEW w \in Workers, Execute(w) PROVE ScheduleOK(d)'
  BY <1>8, <1>a, ScheduleSame DEF Execute, Leased
<1>9. ASSUME NEW w \in Workers, Acknowledge(w) PROVE ScheduleOK(d)'
  <2>0. worker[w].phase # "idle" /\ worker[w].cycle \in Cycles
    BY <1>9, ProcessType DEF Acknowledge
  <2>1. UNCHANGED <<clock, sub>> /\ adrift \subseteq adrift'
    BY <1>9 DEF Acknowledge
  <2>2. /\ op'[d].state # "none" => op[d].state # "none"
        /\ Leased(d)' => Leased(d)
    BY <1>9, <1>a, <2>0 DEF Leased, Acknowledge, TypeOK, OpRow
  <2>3. /\ money'[d] \in Unpaid => money[d] \in Unpaid
        /\ money'[d] = "settled" => money[d] = "settled"
    BY <1>9 DEF Acknowledge
  <2> QED BY <1>a, <2>1, <2>2, <2>3, ScheduleSame
<1>10. ASSUME NEW w \in Workers, ReadOutcome(w) PROVE ScheduleOK(d)'
  BY <1>10, <1>a, ScheduleSame DEF ReadOutcome, Leased
<1>11. ASSUME NEW w \in Workers, Handoff(w) PROVE ScheduleOK(d)'
  BY <1>11, <1>a, ScheduleSame DEF Handoff, Leased
<1>12. ASSUME NEW w \in Workers, RecordRefused(w) PROVE ScheduleOK(d)'
  <2>0. worker[w].phase # "idle" /\ worker[w].cycle \in Cycles
    BY <1>12, ProcessType DEF RecordRefused
  <2>1. UNCHANGED <<clock, sub>> /\ adrift \subseteq adrift'
    BY <1>12 DEF RecordRefused
  <2>2. /\ op'[d].state # "none" => op[d].state # "none"
        /\ Leased(d)' => Leased(d)
    BY <1>12, <1>a, RowsEffect DEF Leased, RecordRefused, OutcomeRefused
  <2>3. /\ money'[d] \in Unpaid => money[d] \in Unpaid
        /\ money'[d] = "settled" => money[d] = "settled"
    BY <1>12, <2>0 DEF RecordRefused, OutcomeRefused, TypeOK, Unpaid
  <2> QED BY <1>a, <2>1, <2>2, <2>3, ScheduleSame
<1>13. ASSUME NEW w \in Workers, RecordSucceeded(w) PROVE ScheduleOK(d)'
  <2>0. worker[w].phase # "idle" /\ worker[w].cycle \in Cycles
    BY <1>13, ProcessType DEF RecordSucceeded
  <2>1. SettlePaid(worker[w].cycle) /\ UNCHANGED <<clock, adrift>>
    BY <1>13 DEF RecordSucceeded
  <2>2. /\ op'[d].state # "none" => op[d].state # "none"
        /\ Leased(d)' => Leased(d)
    BY <1>13, <1>a, <2>0 DEF RecordSucceeded, TypeOK, OpRow, Leased
  <2> QED BY <2>0, <2>1, <2>2, SettleSchedule
<1>14. ASSUME NEW w \in Workers, RowEnds(w) PROVE ScheduleOK(d)'
  BY <1>14, <1>a, ScheduleSame DEF RowEnds, Leased
<1>15. ASSUME NEW w \in Workers, RetryExecute(w) PROVE ScheduleOK(d)'
  BY <1>15, <1>a, ScheduleSame DEF RetryExecute, Leased
<1>16. ASSUME NEW w \in Workers, NEW c \in Cycles, NEW t \in 0..clock, RetryPrepare(w, c, t)
      PROVE ScheduleOK(d)'
  BY <1>16, <1>a, ScheduleSame DEF RetryPrepare, Leased
<1>17. ASSUME NEW c \in Cycles, RetryFailed(c) PROVE ScheduleOK(d)'
  <2>1. UNCHANGED <<clock, sub>> /\ adrift \subseteq adrift'
    BY <1>17 DEF RetryFailed
  <2>2. /\ op'[d].state # "none" => op[d].state # "none"
        /\ Leased(d)' => Leased(d)
    BY <1>17 DEF Leased, RetryFailed
  <2>3. /\ money'[d] \in Unpaid => money[d] \in Unpaid
        /\ money'[d] = "settled" => money[d] = "settled"
    BY <1>17 DEF RetryFailed, TypeOK, Unpaid
  <2> QED BY <1>a, <2>1, <2>2, <2>3, ScheduleSame
<1>18. ASSUME NEW c \in Cycles, RetryRecovered(c) PROVE ScheduleOK(d)'
  <2>1. SettlePaid(c) /\ UNCHANGED <<clock, adrift, op>>
    BY <1>18 DEF RetryRecovered, Recovery
  <2> QED BY <2>1, SettleSchedule DEF Leased
<1>19. ASSUME NEW c \in Cycles, LatePositive(c) PROVE ScheduleOK(d)'
  <2>1. SettlePaid(c) /\ UNCHANGED <<clock, adrift, op>>
    BY <1>19 DEF LatePositive, Recovery
  <2> QED BY <2>1, SettleSchedule DEF Leased
<1>20. ASSUME NEW c \in Cycles, Authorize(c) PROVE ScheduleOK(d)'
  BY <1>20, <1>a, ScheduleSame DEF Authorize, Leased
<1>21. ASSUME NEW c \in Cycles, ScheduleRecovery(c) PROVE ScheduleOK(d)'
  BY <1>21, <1>a, ScheduleSame DEF ScheduleRecovery, Leased
<1>22. ASSUME NEW w \in Workers, NEW c \in Cycles, NEW t \in 0..clock, StockReturns(w, c, t)
      PROVE ScheduleOK(d)'
  <2>1. UNCHANGED <<clock, sub, money, adrift>>
    BY <1>22 DEF StockReturns
  <2>2. op'[d] = op[d] \/ d = c
    BY <1>22 DEF StockReturns, TypeOK
  <2>3. CASE op'[d] = op[d]
    BY <1>a, <2>1, <2>3, ScheduleSame DEF Leased
  <2>4. CASE d = c
    <3>1. sub[d[1]].next = d[2] /\ op[d].state # "none"
      BY <1>22, <2>4 DEF StockReturns
    <3>2. OfSub(d[1])' = OfSub(d[1])
      BY DEF OfSub, Cycles
    <3> QED BY <1>a, <2>1, <3>1, <3>2 DEF ScheduleOK
  <2> QED BY <2>2, <2>3, <2>4
<1>23. ASSUME NEW c \in Cycles, IngestCapture(c) PROVE ScheduleOK(d)'
  <2>1. SettlePaid(c) /\ UNCHANGED <<clock, adrift, op>>
    BY <1>23 DEF IngestCapture
  <2> QED BY <2>1, SettleSchedule DEF Leased
<1>24. ASSUME NEW c \in Cycles, IngestRefusal(c) PROVE ScheduleOK(d)'
  <2>1. UNCHANGED <<clock, sub>> /\ adrift \subseteq adrift'
    BY <1>24 DEF IngestRefusal
  <2>2. /\ op'[d].state # "none" => op[d].state # "none"
        /\ Leased(d)' => Leased(d)
    BY <1>24 DEF Leased, IngestRefusal
  <2>3. /\ money'[d] \in Unpaid => money[d] \in Unpaid
        /\ money'[d] = "settled" => money[d] = "settled"
    BY <1>24 DEF IngestRefusal, TypeOK, Unpaid
  <2> QED BY <1>a, <2>1, <2>2, <2>3, ScheduleSame
<1>25. ASSUME NEW c \in Cycles, NEW k \in Attempts, ProviderDecides(c, k)
      PROVE ScheduleOK(d)'
  BY <1>25, <1>a, ScheduleSame DEF ProviderDecides, Leased
<1>26. ASSUME NEW s \in Subs, Dated(s) PROVE ScheduleOK(d)'
  BY <1>26, DatedSchedule
<1>27. ASSUME NEW s \in Subs, Cancel(s) PROVE ScheduleOK(d)'
  <2>1. UNCHANGED <<clock, money, adrift>> /\ sub' = [sub EXCEPT ![s].status = "cancelled"]
    BY <1>27 DEF Cancel, Ended
  <2>2. d[1] \in Subs /\ OfSub(d[1])' = OfSub(d[1])
    BY CycleParts DEF OfSub, Cycles
  <2>3. sub'[d[1]].next = sub[d[1]].next /\ (sub'[d[1]].status = "active" => sub[d[1]].status = "active")
    BY <2>1, <2>2 DEF TypeOK, SubRow
  <2>4. /\ op'[d].state # "none" => op[d].state # "none"
        /\ op'[d].state = op[d].state \/ op'[d].state = "refused"
        /\ op'[d].lease = op[d].lease
    BY <1>27, <1>a, RowsEffect DEF Cancel
  <2> QED BY <1>a, <2>1, <2>2, <2>3, <2>4 DEF ScheduleOK
<1> QED BY <1>0, <1>1, <1>2, <1>3, <1>4, <1>5, <1>6, <1>7, <1>8, <1>9, <1>10, <1>11,
           <1>12, <1>13, <1>14, <1>15, <1>16, <1>17, <1>18, <1>19, <1>20, <1>21, <1>22,
           <1>23, <1>24, <1>25, <1>26, <1>27
  DEF Next, BatchStep, RetryStep, HostStep, Command, Dated
-----------------------------------------------------------------------------
(* The theorems. *)

\* The tables begin empty, the processes idle, the subscriptions due.
LEMMA RailInit == Init => RailInv
<1> SUFFICES ASSUME Init PROVE RailInv
  OBVIOUS
<1> USE TimesAssumption DEF Init
<1>1. TypeOK
  <2>1. /\ NoOp \in OpRow /\ NoHold \in HoldRow /\ NoCase \in CaseRow
    BY DEF NoOp, OpRow, NoHold, HoldRow, NoCase, CaseRow
  <2>2. NoOb \in ObRow
    BY DEF NoOb, ObRow, Attempts
  <2>3. IdleWorker \in Process /\ IdleWorker.phase = "idle"
    BY DEF IdleWorker, Process, Phases
  <2>4. [status |-> "active", next |-> 0] \in SubRow
    BY DEF SubRow
  <2> QED BY <2>1, <2>2, <2>3, <2>4 DEF TypeOK, Answers
<1>2. CyclesOK
  BY DEF CyclesOK, CycleOK, NoOp, NoHold, NoOb, Attempts
<1>3. WorkersOK /\ AskingAlone
  BY DEF WorkersOK, WorkerOK, AskingAlone, IdleWorker
<1>4. SchedulesOK
  BY CycleParts DEF SchedulesOK, ScheduleOK, NoOp
<1> QED BY <1>1, <1>2, <1>3, <1>4 DEF RailInv

\* The invariant is inductive.
LEMMA RailStep == RailInv /\ [Next]_vars => RailInv'
BY TypeStep, CycleStep, WorkerStep, AskingStep, ScheduleStep DEF RailInv

\* The invariant holds in every reachable state.
THEOREM RailInvariant == Spec => []RailInv
BY RailInit, RailStep, PTL DEF Spec

\* Every table, process and clock keeps its type, through claims, takeovers,
\* answers of the provider and the customer's commands.
THEOREM TypeCorrect == Spec => []TypeOK
<1>1. RailInv => TypeOK
  BY DEF RailInv
<1> QED BY RailInvariant, <1>1, PTL

\* However processes crash, take over and interleave with webhooks, an attempt is
\* with the provider only for a prepared obligation, and after the one before it.
THEOREM AskedInTurnCorrect == Spec => []AskedInTurn
<1>1. ASSUME RailInv, NEW c \in Cycles, NEW k \in Attempts, ask[c][k] # "none"
      PROVE  money[c] # "none" /\ (k > 0 => ask[c][k - 1] \in Over)
  <2>1. CycleOK(c) /\ ob[c].seq \in Nat /\ k \in Nat
    BY <1>1, TimesAssumption DEF RailInv, CyclesOK, TypeOK, ObRow, Attempts
  <2>2. money[c] # "none" /\ ~(k > ob[c].seq)
    BY <1>1, <2>1 DEF CycleOK
  <2>3. k > 0 => k - 1 \in Attempts /\ k - 1 < ob[c].seq
    BY <2>1, <2>2, TimesAssumption DEF Attempts
  <2> QED BY <2>1, <2>2, <2>3 DEF CycleOK
<1>2. RailInv => AskedInTurn
  BY <1>1 DEF AskedInTurn, Over
<1> QED BY RailInvariant, <1>2, PTL

\* Stock stays committed while an attempt is with the provider undecided; one left
\* to the customer may still be approved after its stock was released.
THEOREM StockHeldCorrect == Spec => []StockHeldWhileAsked
<1>1. ASSUME RailInv, NEW c \in Cycles, NEW k \in Attempts, ask[c][k] = "sent"
      PROVE  hold[c].is = "committed"
  <2>1. CycleOK(c) /\ ob[c].seq \in Nat /\ k \in Nat /\ ob[c].state \in {"none", "waiting", "prepared", "recovered"}
    BY <1>1, TimesAssumption DEF RailInv, CyclesOK, TypeOK, ObRow, Attempts
  <2>2. ~(k > ob[c].seq) /\ ~(k < ob[c].seq) /\ ob[c].state # "recovered"
    BY <1>1, <2>1 DEF CycleOK, Over, Refused
  <2>3. k = ob[c].seq
    BY <2>1, <2>2
  <2>4. ob[c].state # "waiting"
    BY <1>1, <2>1, <2>3 DEF CycleOK, Over, Refused
  <2>5. ob[c].state = "none" => op[c].state = "prepared"
    BY <1>1, <2>1, <2>3 DEF CycleOK
  <2> QED BY <2>1, <2>2, <2>4, <2>5 DEF CycleOK
<1>2. RailInv => StockHeldWhileAsked
  BY <1>1 DEF StockHeldWhileAsked
<1> QED BY RailInvariant, <1>2, PTL

\* Whatever the customer commands, the next date of a subscription stays on its
\* unpaid cycle, unless a prepare ran after its lease or hold had ended.
THEOREM UnpaidHoldsScheduleCorrect == Spec => []UnpaidHoldsSchedule
<1>1. RailInv => UnpaidHoldsSchedule
  BY DEF RailInv, SchedulesOK, ScheduleOK, UnpaidHoldsSchedule
<1> QED BY RailInvariant, <1>1, PTL

\* No settlement and no command leaves an active subscription on a paid date.
THEOREM PaidCycleNeverDueCorrect == Spec => []PaidCycleNeverDue
<1>1. ASSUME RailInv, NEW s \in Subs, sub[s].status = "active", sub[s].next <= MaxTime
      PROVE  money[<<s, sub[s].next>>] # "settled"
  <2> DEFINE c == <<s, sub[s].next>>
  <2>1. sub[s].next \in 0..MaxTime /\ sub[s].next \in Nat
    BY <1>1, TimesAssumption DEF RailInv, TypeOK, SubRow
  <2>2. c \in Cycles /\ c[1] = s /\ c[2] = sub[s].next
    BY <2>1, CycleParts
  <2>3. ScheduleOK(c)
    BY <1>1, <2>2 DEF RailInv, SchedulesOK
  <2> QED BY <1>1, <2>1, <2>2, <2>3 DEF ScheduleOK
<1>2. RailInv => PaidCycleNeverDue
  BY <1>1 DEF PaidCycleNeverDue
<1> QED BY RailInvariant, <1>2, PTL

\* No process asks for an attempt the provider already has: what the provider
\* holds changes only by the provider's own step.
LEMMA NeverAskedAgainStep ==
  ASSUME RailInv, [Next]_vars, NEW c \in Cycles, NEW k \in Attempts,
         ask'[c][k] # ask[c][k], ask[c][k] # "none"
  PROVE  UNCHANGED worker
<1>0. TypeOK /\ WorkersOK /\ CycleOK(c)
  BY DEF RailInv, CyclesOK
<1>1. ask' # ask
  OBVIOUS
<1>2. ASSUME NEW w \in Workers, Execute(w) PROVE FALSE
  <2>1. worker[w].cycle \in Cycles /\ ask[worker[w].cycle][0] = "none"
    BY <1>0, <1>2, ProcessType DEF Execute, WorkersOK, WorkerOK
  <2>2. PICK answer : ask' = [ask EXCEPT ![worker[w].cycle][0] = answer]
    BY <1>2 DEF Execute
  <2> QED BY <1>0, <2>1, <2>2 DEF TypeOK
<1>3. ASSUME NEW w \in Workers, RetryExecute(w) PROVE FALSE
  <2>1. worker[w].cycle \in Cycles /\ ask[worker[w].cycle][worker[w].token] = "none"
    BY <1>0, <1>3, ProcessType DEF RetryExecute, WorkersOK, WorkerOK
  <2>2. PICK answer : ask' = [ask EXCEPT ![worker[w].cycle][worker[w].token] = answer]
    BY <1>3 DEF RetryExecute
  <2> QED BY <1>0, <2>1, <2>2 DEF TypeOK
<1>4. ASSUME NEW e \in Cycles, NEW j \in Attempts, ProviderDecides(e, j) PROVE UNCHANGED worker
  BY <1>4 DEF ProviderDecides
<1>5. ask' = ask \/ (\E w \in Workers : Execute(w) \/ RetryExecute(w))
      \/ (\E e \in Cycles, j \in Attempts : ProviderDecides(e, j))
  <2>0. CASE UNCHANGED vars
    BY <2>0 DEF vars
  <2>1. CASE Tick \/ ExpireHolds
    BY <2>1 DEF Tick, ExpireHolds
  <2>2. ASSUME NEW w \in Workers, BatchStep(w) \/ RetryStep(w)
        PROVE  ask' = ask \/ Execute(w) \/ RetryExecute(w)
    <3>1. CASE BatchStep(w)
      BY <3>1 DEF BatchStep, Claim, RefusePreflight, Reserve, Prepare, RefuseInput,
         Acknowledge, ReadOutcome, Handoff, RecordRefused, RecordSucceeded, RowEnds
    <3>2. CASE RetryStep(w)
      BY <3>2 DEF RetryStep, RetryPrepare, StockReturns
    <3> QED BY <2>2, <3>1, <3>2
  <2>3. ASSUME NEW e \in Cycles, HostStep(e)
        PROVE  ask' = ask \/ \E j \in Attempts : ProviderDecides(e, j)
    BY <2>3 DEF HostStep, RetryFailed, RetryRecovered, LatePositive, Recovery,
       Authorize, ScheduleRecovery, IngestCapture, IngestRefusal
  <2>4. ASSUME NEW s \in Subs, Command(s) \/ AutoResume(s) PROVE ask' = ask
    BY <2>4, DatedRows DEF Command, Dated, Cancel
  <2> QED BY <2>0, <2>1, <2>2, <2>3, <2>4 DEF Next
<1> QED BY <1>1, <1>2, <1>3, <1>4, <1>5

\* What the provider has of an attempt is never asked again.
THEOREM NeverAskedAgainCorrect == Spec => NeverAskedAgain
<1>1. RailInv /\ [Next]_vars =>
        [\A c \in Cycles, k \in Attempts :
           ask'[c][k] # ask[c][k] /\ ask[c][k] # "none" => UNCHANGED worker]_vars
  BY NeverAskedAgainStep
<1> QED BY RailInvariant, <1>1, PTL DEF Spec, NeverAskedAgain

\* One cycle's rows when they have ended.
Ends(c) ==
  /\ money[c] = "settled" => money'[c] = "settled"
  /\ op[c].state = "succeeded" => op'[c].state = "succeeded"
  /\ ob[c].state = "recovered" => ob'[c].state = "recovered"
  /\ op[c].state = "refused" /\ op'[c].state # "refused"
       => money[c] = "none" /\ \A k \in Attempts : ask[c][k] = "none"

\* No step undoes what ended.
LEMMA EndsStep ==
  ASSUME RailInv, [Next]_vars, NEW d \in Cycles
  PROVE  Ends(d)
<1>a. /\ TypeOK /\ CycleOK(d) /\ WorkersOK
      /\ op[d] \in OpRow /\ ob[d] \in ObRow
  BY DEF RailInv, CyclesOK, TypeOK
<1>b. UNCHANGED <<op, money, ob>> => Ends(d)
  BY DEF Ends
<1>0. CASE UNCHANGED vars
  BY <1>0, <1>b DEF vars
<1>1. CASE Tick
  BY <1>1, <1>b DEF Tick
<1>2. CASE ExpireHolds
  BY <1>2, <1>a, RowsEffect DEF ExpireHolds, Lapsed, Ends
<1>3. ASSUME NEW w \in Workers, NEW s \in Subs, NEW t \in 0..clock, Claim(w, s, t)
      PROVE Ends(d)
  BY <1>3, <1>a DEF Claim, TypeOK, OpRow, Ends
<1>4. ASSUME NEW w \in Workers, RefusePreflight(w) PROVE Ends(d)
  BY <1>4, <1>a, RowsEffect DEF RefusePreflight, Ends
<1>5. ASSUME NEW w \in Workers, Reserve(w) PROVE Ends(d)
  <2>1. CASE ReserveFresh(w)
    <3>1. op[worker[w].cycle].state = "claimed" /\ UNCHANGED <<money, ob>>
      BY <1>5, <2>1 DEF Reserve, ReserveFresh
    <3>2. op[d].state \in {"succeeded", "refused"} => op'[d].state = op[d].state
      <4>1. CASE op' = [op EXCEPT ![worker[w].cycle].state = "reserved"]
        BY <1>a, <3>1, <4>1 DEF TypeOK
      <4>2. CASE op' = RefusedOps({worker[w].cycle}, "stock")
        BY <1>a, <3>1, <4>2, RowsEffect
      <4> QED BY <2>1, <4>1, <4>2 DEF ReserveFresh
    <3> QED BY <3>1, <3>2 DEF Ends
  <2>2. CASE ReserveLapsed(w)
    BY <1>5, <1>a, <2>2, RowsEffect DEF Reserve, ReserveLapsed, Lapsed, Ends
  <2>3. CASE ReserveReplay(w)
    BY <1>5, <1>b, <2>3 DEF Reserve, ReserveReplay
  <2> QED BY <1>5, <2>1, <2>2, <2>3 DEF Reserve
<1>6. ASSUME NEW w \in Workers, Prepare(w) PROVE Ends(d)
  BY <1>6, <1>a DEF Prepare, TypeOK, OpRow, Ends
<1>7. ASSUME NEW w \in Workers, RefuseInput(w) PROVE Ends(d)
  BY <1>7, <1>a, RowsEffect DEF RefuseInput, OutcomeRefused, TypeOK, Ends
<1>8. ASSUME NEW w \in Workers, Execute(w) PROVE Ends(d)
  BY <1>8, <1>b DEF Execute
<1>9. ASSUME NEW w \in Workers, Acknowledge(w) PROVE Ends(d)
  BY <1>9, <1>a DEF Acknowledge, TypeOK, OpRow, Ends
<1>10. ASSUME NEW w \in Workers, ReadOutcome(w) PROVE Ends(d)
  BY <1>10, <1>b DEF ReadOutcome
<1>11. ASSUME NEW w \in Workers, Handoff(w) PROVE Ends(d)
  BY <1>11, <1>b DEF Handoff
<1>12. ASSUME NEW w \in Workers, RecordRefused(w) PROVE Ends(d)
  BY <1>12, <1>a, RowsEffect DEF RecordRefused, OutcomeRefused, TypeOK, Ends
<1>13. ASSUME NEW w \in Workers, RecordSucceeded(w) PROVE Ends(d)
  BY <1>13, <1>a DEF RecordSucceeded, SettlePaid, TypeOK, OpRow, Ends
<1>14. ASSUME NEW w \in Workers, RowEnds(w) PROVE Ends(d)
  BY <1>14, <1>b DEF RowEnds
<1>15. ASSUME NEW w \in Workers, RetryExecute(w) PROVE Ends(d)
  BY <1>15, <1>b DEF RetryExecute
<1>16. ASSUME NEW w \in Workers, NEW c \in Cycles, NEW t \in 0..clock, RetryPrepare(w, c, t)
      PROVE Ends(d)
  BY <1>16, <1>a DEF RetryPrepare, TypeOK, ObRow, Ends
<1>17. ASSUME NEW c \in Cycles, RetryFailed(c) PROVE Ends(d)
  BY <1>17, <1>a DEF RetryFailed, Rung, TypeOK, Ends
<1>18. ASSUME NEW c \in Cycles, RetryRecovered(c) PROVE Ends(d)
  BY <1>18, <1>a DEF RetryRecovered, Recovery, SettlePaid, TypeOK, ObRow, Ends
<1>19. ASSUME NEW c \in Cycles, LatePositive(c) PROVE Ends(d)
  BY <1>19, <1>a DEF LatePositive, Recovery, SettlePaid, TypeOK, ObRow, Ends
<1>20. ASSUME NEW c \in Cycles, Authorize(c) PROVE Ends(d)
  BY <1>20, <1>a DEF Authorize, TypeOK, ObRow, Ends
<1>21. ASSUME NEW c \in Cycles, ScheduleRecovery(c) PROVE Ends(d)
  BY <1>21, <1>a DEF ScheduleRecovery, TypeOK, ObRow, Ends
<1>22. ASSUME NEW w \in Workers, NEW c \in Cycles, NEW t \in 0..clock, StockReturns(w, c, t)
      PROVE Ends(d)
  BY <1>22, <1>a DEF StockReturns, TypeOK, OpRow, CycleOK, Ends
<1>23. ASSUME NEW c \in Cycles, IngestCapture(c) PROVE Ends(d)
  BY <1>23, <1>a DEF IngestCapture, SettlePaid, TypeOK, Ends
<1>24. ASSUME NEW c \in Cycles, IngestRefusal(c) PROVE Ends(d)
  BY <1>24, <1>a DEF IngestRefusal, TypeOK, Ends
<1>25. ASSUME NEW c \in Cycles, NEW k \in Attempts, ProviderDecides(c, k) PROVE Ends(d)
  BY <1>25, <1>b DEF ProviderDecides
<1>26. ASSUME NEW s \in Subs, Dated(s) PROVE Ends(d)
  BY <1>26, <1>b, DatedRows
<1>27. ASSUME NEW s \in Subs, Cancel(s) PROVE Ends(d)
  BY <1>27, <1>a, RowsEffect DEF Cancel, Ends
<1> QED BY <1>0, <1>1, <1>2, <1>3, <1>4, <1>5, <1>6, <1>7, <1>8, <1>9, <1>10, <1>11,
           <1>12, <1>13, <1>14, <1>15, <1>16, <1>17, <1>18, <1>19, <1>20, <1>21, <1>22,
           <1>23, <1>24, <1>25, <1>26, <1>27
  DEF Next, BatchStep, RetryStep, HostStep, Command, Dated

\* A payment, a success and a recovery are final, and a refused operation comes
\* back only if no money was ever asked for it.
THEOREM TerminalIsFinalCorrect == Spec => TerminalIsFinal
<1>1. RailInv /\ [Next]_vars => [\A c \in Cycles : Ends(c)]_vars
  BY EndsStep
<1> QED BY RailInvariant, <1>1, PTL DEF Spec, TerminalIsFinal, Ends
-----------------------------------------------------------------------------
(* The rail implements RenewalPromise. *)

\* What a step may do to money, to the provider's attempts and to the schedule.
Billing(c) ==
  /\ money[c] = "none" /\ money' = [money EXCEPT ![c] = "open"] /\ op[c].state # "none"
  /\ UNCHANGED <<sub, ask>>
Refusing(c) ==
  /\ money[c] \in Unpaid /\ money' = [money EXCEPT ![c] = "failed"]
  /\ (\E k \in Attempts : ask[c][k] \in Over) \/ \A k \in Attempts : ask[c][k] = "none"
  /\ UNCHANGED <<sub, ask>>
PayingFor(c) ==
  SettlePaid(c) /\ (\E k \in Attempts : ask[c][k] \in Paying) /\ UNCHANGED ask
Asking(c, k) ==
  /\ money[c] # "none" /\ ask[c][k] = "none" /\ \A j \in Attempts : j < k => ask[c][j] \in Over
  /\ \E answer \in {"sent"} \cup Refused : ask' = [ask EXCEPT ![c][k] = answer]
  /\ UNCHANGED <<money, sub>>
Stopping(s) ==
  /\ sub'[s].next = sub[s].next /\ sub'[s].status # "active" /\ sub[s].status # "cancelled"
  /\ \A r \in Subs \ {s} : sub'[r] = sub[r]
  /\ UNCHANGED <<money, ask>>
Moving(s) ==
  /\ sub[s].status = "active" /\ MayMove(s) /\ sub'[s].next \in Nat
  /\ sub'[s].next >= sub[s].next \/ sub'[s].next > clock
  /\ \A r \in Subs \ {s} : sub'[r] = sub[r]
  /\ UNCHANGED <<money, ask>>
Waking(s) ==
  /\ sub[s].status # "active" /\ sub'[s].status = "active" /\ sub'[s].next > clock
  /\ sub[s].status = "cancelled" => Unlocked(s)
  /\ \A r \in Subs \ {s} : sub'[r] = sub[r]
  /\ UNCHANGED <<money, ask>>

\* A terminal refusal of the operation finds the first attempt refused, or unasked.
LEMMA RefusingOutcome ==
  ASSUME RailInv, NEW c \in Cycles, money[c] \in Unpaid,
         ask[c][0] \in Over \/ (ask[c][0] = "none" /\ op[c].state = "prepared"),
         money' = [money EXCEPT ![c] = "failed"], UNCHANGED <<sub, ask>>
  PROVE  Refusing(c)
<1>1. 0 \in Attempts /\ \A k \in Attempts : k \in Nat
  BY TimesAssumption DEF Attempts
<1>2. CycleOK(c)
  BY DEF RailInv, CyclesOK
<1>3. CASE ask[c][0] = "none" /\ op[c].state = "prepared"
  <2>1. ob[c].seq = 0
    BY <1>2, <1>3 DEF CycleOK
  <2>2. ASSUME NEW k \in Attempts PROVE ask[c][k] = "none"
    <3>1. k = 0 \/ k > 0
      BY <1>1
    <3> QED BY <1>2, <1>3, <2>1, <3>1 DEF CycleOK
  <2> QED BY <2>2 DEF Refusing
<1> QED BY <1>1, <1>3 DEF Refusing

LEMMA BatchPromise ==
  ASSUME RailInv, NEW w \in Workers, BatchStep(w)
  PROVE  \/ UNCHANGED <<sub, money, ask>>
         \/ \E c \in Cycles : Billing(c) \/ Refusing(c) \/ PayingFor(c) \/ Asking(c, 0)
<1> DEFINE c == worker[w].cycle
<1>1. TypeOK /\ WorkerOK(w) /\ (worker[w].phase # "idle" => c \in Cycles /\ CycleOK(c))
  BY DEF RailInv, WorkersOK, CyclesOK, TypeOK
<1>2. 0 \in Attempts /\ \A k \in Attempts : k \in Nat
  BY TimesAssumption DEF Attempts
<1>3. (\E s \in Subs, t \in 0..clock : Claim(w, s, t)) \/ RefusePreflight(w) \/ Reserve(w)
      \/ Acknowledge(w) \/ ReadOutcome(w) \/ Handoff(w) \/ RowEnds(w)
      => UNCHANGED <<sub, money, ask>>
  BY DEF Claim, RefusePreflight, Reserve, Acknowledge, ReadOutcome, Handoff, RowEnds
<1>4. CASE Prepare(w)
  BY <1>1, <1>4 DEF Prepare, Billing
<1>5. CASE RefuseInput(w)
  BY <1>1, <1>5, RefusingOutcome DEF RefuseInput, OutcomeRefused, WorkerOK, Unpaid
<1>6. CASE Execute(w)
  <2>1. money[c] # "none" /\ ask[c][0] = "none" /\ c \in Cycles
    BY <1>1, <1>6 DEF Execute, WorkerOK, CycleOK
  <2>2. \A j \in Attempts : ~(j < 0)
    BY <1>2
  <2>3. \E answer \in {"sent"} \cup Refused : ask' = [ask EXCEPT ![c][0] = answer]
    BY <1>6 DEF Execute
  <2>4. UNCHANGED <<money, sub>>
    BY <1>6 DEF Execute
  <2> QED BY <2>1, <2>2, <2>3, <2>4 DEF Asking
<1>7. CASE RecordRefused(w)
  BY <1>1, <1>7, RefusingOutcome DEF RecordRefused, OutcomeRefused, WorkerOK, Unpaid
<1>8. CASE RecordSucceeded(w)
  BY <1>1, <1>2, <1>8 DEF RecordSucceeded, WorkerOK, PayingFor
<1> QED BY <1>3, <1>4, <1>5, <1>6, <1>7, <1>8 DEF BatchStep

LEMMA RetryPromise ==
  ASSUME RailInv, NEW w \in Workers, RetryStep(w)
  PROVE  \/ UNCHANGED <<sub, money, ask>>
         \/ \E c \in Cycles, k \in Attempts : Asking(c, k)
<1>1. CASE RetryExecute(w)
  <2> DEFINE c == worker[w].cycle
             k == worker[w].token
  <2>1. c \in Cycles /\ WorkerOK(w) /\ worker[w].phase = "retryAsk"
    BY <1>1 DEF RailInv, TypeOK, WorkersOK, RetryExecute
  <2>2. CycleOK(c) /\ ob[c] \in ObRow
    BY <2>1 DEF RailInv, CyclesOK, TypeOK
  <2>3. k = ob[c].seq /\ k \in Attempts /\ ask[c][k] = "none" /\ ob[c].state = "prepared"
    BY <2>1, <2>2 DEF WorkerOK, ObRow
  <2>4. money[c] # "none" /\ \A j \in Attempts : j < k => ask[c][j] \in Over
    BY <2>2, <2>3 DEF CycleOK
  <2> QED BY <1>1, <2>1, <2>3, <2>4 DEF RetryExecute, Asking
<1>2. CASE \E c \in Cycles, t \in 0..clock : RetryPrepare(w, c, t) \/ StockReturns(w, c, t)
  BY <1>2 DEF RetryPrepare, StockReturns
<1> QED BY <1>1, <1>2 DEF RetryStep

LEMMA HostPromise ==
  ASSUME RailInv, NEW c \in Cycles, HostStep(c)
  PROVE  \/ UNCHANGED <<sub, money, ask>>
         \/ Refusing(c) \/ PayingFor(c)
         \/ UNCHANGED <<sub, money>> /\ \E k \in Attempts : ProviderDecides(c, k)
<1>1. ob[c].seq \in Attempts
  BY DEF RailInv, TypeOK, ObRow
<1>2. Authorize(c) \/ ScheduleRecovery(c) => UNCHANGED <<sub, money, ask>>
  BY DEF Authorize, ScheduleRecovery
<1>3. RetryFailed(c) => Refusing(c)
  BY <1>1 DEF RetryFailed, Refusing, Over, Refused, Unpaid
<1>4. IngestRefusal(c) => Refusing(c)
  BY DEF IngestRefusal, Refusing, Over, Refused, Unpaid
<1>5. RetryRecovered(c) \/ LatePositive(c) \/ IngestCapture(c) => PayingFor(c)
  BY <1>1 DEF RetryRecovered, LatePositive, IngestCapture, Recovery, PayingFor
<1>6. \A k \in Attempts : ProviderDecides(c, k) => UNCHANGED <<sub, money>>
  BY DEF ProviderDecides
<1> QED BY <1>2, <1>3, <1>4, <1>5, <1>6 DEF HostStep

LEMMA CommandPromise ==
  ASSUME RailInv, NEW s \in Subs, Command(s) \/ AutoResume(s)
  PROVE  Stopping(s) \/ Moving(s) \/ Waking(s)
<1>1. /\ sub \in [Subs -> SubRow] /\ clock \in Nat /\ sub[s].next \in Nat
  BY TimesAssumption DEF RailInv, TypeOK, SubRow
<1>2. ASSUME NEW next \in Nat, Moved(s, "active", next), next >= sub[s].next \/ next > clock
      PROVE  Moving(s)
  BY <1>1, <1>2 DEF Moved, Commanded, Moving
<1> USE TimesAssumption
<1>3. CASE Pause(s)
  BY <1>1, <1>3 DEF Pause, Commanded, Stopping
<1>4. CASE Cancel(s)
  BY <1>1, <1>4 DEF Cancel, Ended, Stopping, SubRow
<1>5. CASE Resume(s) \/ AutoResume(s)
  BY <1>1, <1>5, ResumedDate DEF Resume, Commanded, AutoResume, Waking
<1>6. CASE Skip(s)
  <2>1. sub[s].next + Cadence \in Nat /\ sub[s].next + Cadence >= sub[s].next
    BY <1>1
  <2> QED BY <1>2, <1>6, <2>1 DEF Skip
<1>7. CASE OrderNow(s)
  <2>1. clock + Soon \in Nat /\ clock + Soon > clock
    BY <1>1
  <2> QED BY <1>2, <1>7, <2>1 DEF OrderNow
<1>8. CASE Slide(s)
  <2>1. PICK span \in SlideAhead : Moved(s, "active", clock + span)
    BY <1>8 DEF Slide
  <2>2. clock + span \in Nat /\ clock + span > clock
    BY <1>1, SlideAssumption
  <2> QED BY <1>2, <2>1, <2>2
<1>9. CASE Reactivate(s)
  BY <1>1, <1>9 DEF Reactivate, Moved, MayMove, Commanded, Waking
<1> QED BY <1>3, <1>4, <1>5, <1>6, <1>7, <1>8, <1>9 DEF Command

\* Every step of the rail is one of these, or touches none of the three.
LEMMA PromiseShape ==
  ASSUME RailInv, [Next]_vars
  PROVE  \/ UNCHANGED <<sub, money, ask>>
         \/ \E c \in Cycles : Billing(c) \/ Refusing(c) \/ PayingFor(c)
         \/ \E c \in Cycles, k \in Attempts :
              Asking(c, k) \/ (ProviderDecides(c, k) /\ UNCHANGED <<sub, money>>)
         \/ \E s \in Subs : Stopping(s) \/ Moving(s) \/ Waking(s)
<1>1. 0 \in Attempts
  BY TimesAssumption DEF Attempts
<1>2. Tick \/ ExpireHolds \/ UNCHANGED vars => UNCHANGED <<sub, money, ask>>
  BY DEF Tick, ExpireHolds, vars
<1> QED BY <1>1, <1>2, BatchPromise, RetryPromise, HostPromise, CommandPromise DEF Next

\* The promise, read on the rail.
LEMMA PromiseRead ==
  /\ Promise!Cycles = Cycles
  /\ \A s : Promise!Of(s) = OfSub(s)
  /\ \A s \in Subs : Promise!Unbilled(s) <=> \A c \in OfSub(s) : c[2] = sub[s].next => money[c] = "none"
  /\ \A s \in Subs : Promise!Keeps(s) <=> sub'[s].next = sub[s].next
  /\ Promise!Unpaid = Unpaid /\ Promise!Over = Over /\ Promise!Paying = Paying
<1>1. Promise!Cycles = Cycles
  BY DEF Promise!Cycles, Cycles
<1>2. \A s : Promise!Of(s) = OfSub(s)
  BY <1>1 DEF Promise!Of, OfSub
<1>3. \A s \in Subs : Promise!Unbilled(s) <=> \A c \in OfSub(s) : c[2] = sub[s].next => money[c] = "none"
  BY <1>2 DEF Promise!Unbilled
<1>4. \A s \in Subs : Promise!Keeps(s) <=> sub'[s].next = sub[s].next
  BY DEF Promise!Keeps
<1> QED BY <1>1, <1>2, <1>3, <1>4
    DEF Promise!Unpaid, Unpaid, Promise!Over, Over, Refused, Promise!Paying, Paying

\* A promise is kept by steps that touch one of the three only.
LEMMA PromiseParts ==
  ASSUME RailInv, RailInv',
         \A c \in Cycles : \/ Promise!Rests(c) \/ Promise!Bill(c) \/ Promise!Refuse(c)
                           \/ Promise!Settle(c),
         \A c \in Cycles, k \in Attempts :
           Promise!Stays(c, k) \/ Promise!Ask(c, k) \/ Promise!Decide(c, k),
         \A s \in Subs :
           \/ sub'[s].status = "active" /\ sub[s].status # "active" /\ Promise!Ahead(s)
           \/ /\ ~(sub'[s].status = "active" /\ sub[s].status # "active")
              /\ Promise!Keeps(s) \/ Promise!Advance(s) \/ Promise!Move(s)
  PROVE  Promise!Next
<1>1. \A s \in Subs : sub'[s].next \in Int
  BY DEF RailInv, TypeOK, SubRow
<1> QED BY <1>1, PromiseRead DEF Promise!Next, Promise!Wake

LEMMA MoneyPromise ==
  ASSUME RailInv, RailInv', UNCHANGED ask, NEW c \in Cycles,
         Billing(c) \/ Refusing(c) \/ PayingFor(c)
  PROVE  Promise!Next
<1>1. /\ money \in [Cycles -> {"none", "open", "failed", "settled"}]
      /\ sub \in [Subs -> SubRow] /\ c[1] \in Subs /\ ScheduleOK(c) /\ TypeOK
      /\ \A s \in Subs : sub[s].next \in Nat
  BY CycleParts DEF RailInv, TypeOK, SchedulesOK, SubRow
<1>2. \A d \in Cycles, k \in Attempts : Promise!Stays(d, k)
  BY DEF Promise!Stays
<1>3. \A d \in Cycles : d # c => Promise!Rests(d)
  BY <1>1 DEF Billing, Refusing, PayingFor, SettlePaid, Promise!Rests
<1>4. CASE Billing(c) \/ Refusing(c)
  <2>1. UNCHANGED sub
    BY <1>4 DEF Billing, Refusing
  <2>2. \A s \in Subs : Promise!Keeps(s)
    BY <2>1, PromiseRead
  <2>3. Billing(c) => Promise!Bill(c)
    BY <1>1 DEF Billing, ScheduleOK, Promise!Bill
  <2>4. Refusing(c) => Promise!Refuse(c)
    BY <1>1, PromiseRead DEF Refusing, Promise!Refuse
  <2> QED BY <1>2, <1>3, <1>4, <2>1, <2>2, <2>3, <2>4, PromiseParts
<1>5. CASE PayingFor(c)
  <2>1. PICK t \in c[2]..clock : sub' = Advanced(c, t) /\ money' = [money EXCEPT ![c] = "settled"]
    BY <1>5 DEF PayingFor, SettlePaid
  <2>2. /\ sub'[c[1]].status = sub[c[1]].status /\ sub'[c[1]].next >= sub[c[1]].next
        /\ sub[c[1]].status = "active" => sub'[c[1]].next > c[2]
        /\ sub[c[1]].status # "active" => sub' = sub
        /\ \A s \in Subs : s # c[1] => sub'[s] = sub[s]
        /\ sub' \in [Subs -> SubRow]
    BY <1>1, <2>1, AdvancedType
  <2>3. Promise!Settle(c)
    <3>1. money[c] \in Unpaid /\ money'[c] = "settled"
      BY <1>1, <1>5, <2>1 DEF PayingFor, SettlePaid, Unpaid
    <3>2. \E k \in Attempts : ask[c][k] \in Paying
      BY <1>5 DEF PayingFor
    <3> QED BY <1>1, <2>2, <3>1, <3>2, PromiseRead DEF Promise!Settle
  <2>4. \A s \in Subs : Promise!Keeps(s) \/ Promise!Advance(s)
    <3> TAKE s \in Subs
    <3>1. CASE sub'[s].next = sub[s].next
      BY <3>1, PromiseRead
    <3>2. CASE sub'[s].next # sub[s].next
      <4>1. s = c[1]
        BY <2>2, <3>2
      <4>2. sub'[s].next \in Nat /\ sub[s].next \in Nat
        BY <1>1, <2>2 DEF SubRow
      <4>3. sub'[s].next > sub[s].next
        BY <2>2, <3>2, <4>1, <4>2
      <4>4. c \in Promise!Of(s)
        BY <4>1, PromiseRead DEF OfSub
      <4> QED BY <2>3, <4>3, <4>4 DEF Promise!Advance
    <3> QED BY <3>1, <3>2
  <2>5. \A s \in Subs : sub'[s].status = sub[s].status
    BY <2>2
  <2> QED BY <1>2, <1>3, <2>3, <2>4, <2>5, PromiseParts
<1> QED BY <1>4, <1>5

LEMMA AskPromise ==
  ASSUME RailInv, RailInv', NEW c \in Cycles, NEW k \in Attempts,
         Asking(c, k) \/ (ProviderDecides(c, k) /\ UNCHANGED <<sub, money>>)
  PROVE  Promise!Next
<1>1. ask \in [Cycles -> [Attempts -> Answers]] /\ UNCHANGED <<sub, money>>
  BY DEF RailInv, TypeOK, Asking
<1>2. /\ \A d \in Cycles : Promise!Rests(d)
      /\ \A s \in Subs : Promise!Keeps(s)
  BY <1>1, PromiseRead DEF Promise!Rests
<1>3. ASSUME NEW d \in Cycles, NEW j \in Attempts, <<d, j>> # <<c, k>> PROVE Promise!Stays(d, j)
  BY <1>1, <1>3 DEF Asking, ProviderDecides, Promise!Stays
<1>4. Promise!Ask(c, k) \/ Promise!Decide(c, k)
  <2>1. Asking(c, k) => Promise!Ask(c, k)
    BY <1>1, PromiseRead DEF Asking, Refused, Promise!Ask
  <2>2. ProviderDecides(c, k) => Promise!Decide(c, k)
    BY <1>1 DEF ProviderDecides, Refused, Promise!Decide
  <2> QED BY <2>1, <2>2
<1>5. \A d \in Cycles, j \in Attempts :
        Promise!Stays(d, j) \/ Promise!Ask(d, j) \/ Promise!Decide(d, j)
  <2> TAKE d \in Cycles, j \in Attempts
  <2>1. CASE d = c /\ j = k
    BY <1>4, <2>1
  <2>2. CASE ~(d = c /\ j = k)
    BY <1>3, <2>2
  <2> QED BY <2>1, <2>2
<1> QED BY <1>1, <1>2, <1>5, PromiseParts

LEMMA DatePromise ==
  ASSUME RailInv, RailInv', NEW s \in Subs, Stopping(s) \/ Moving(s) \/ Waking(s)
  PROVE  Promise!Next
<1>1. /\ clock \in Nat /\ \A r \in Subs : sub[r].next \in Nat /\ sub'[r].next \in Nat
      /\ UNCHANGED <<money, ask>> /\ \A r \in Subs \ {s} : sub'[r] = sub[r]
  BY TimesAssumption DEF RailInv, TypeOK, SubRow, Stopping, Moving, Waking
<1>2. /\ \A d \in Cycles : Promise!Rests(d)
      /\ \A d \in Cycles, k \in Attempts : Promise!Stays(d, k)
      /\ \A r \in Subs \ {s} : Promise!Keeps(r)
  BY <1>1, PromiseRead DEF Promise!Rests, Promise!Stays
<1>3. CASE Stopping(s)
  <2>1. Promise!Keeps(s) /\ sub'[s].status # "active"
    BY <1>3, PromiseRead DEF Stopping
  <2> QED BY <1>1, <1>2, <2>1, PromiseParts
<1>4. ASSUME NEW c \in OfSub(s), money[c] # "none"
      PROVE  c = <<s, c[2]>> /\ c[2] \in 0..MaxTime /\ c[2] <= clock /\ c[2] <= sub[s].next
  <2>1. c \in Cycles /\ c[1] = s /\ c[2] \in 0..MaxTime /\ c = <<s, c[2]>>
    BY CycleParts DEF OfSub
  <2>2. ScheduleOK(c) /\ CycleOK(c)
    BY <2>1 DEF RailInv, SchedulesOK, CyclesOK
  <2> QED BY <1>4, <2>1, <2>2 DEF ScheduleOK, CycleOK
<1>5. CASE Moving(s)
  <2>1. ASSUME NEW c \in OfSub(s), money[c] # "none" PROVE c[2] # sub[s].next
    <3>1. Unlocked(s)
      BY <1>5 DEF Moving, MayMove
    <3> QED BY <1>4, <2>1, <3>1, TimesAssumption DEF Unlocked
  <2>2. Promise!Unbilled(s)
    BY <2>1, PromiseRead
  <2>3. Promise!Ahead(s)
    <3>1. ASSUME NEW c \in OfSub(s), money[c] # "none" PROVE c[2] < sub'[s].next
      <4>1. c[2] \in Nat /\ c[2] <= clock /\ c[2] <= sub[s].next /\ c[2] # sub[s].next
        BY <1>4, <2>1, <3>1, TimesAssumption
      <4>2. sub'[s].next >= sub[s].next \/ sub'[s].next > clock
        BY <1>5 DEF Moving
      <4> QED BY <1>1, <4>1, <4>2
    <3> QED BY <3>1, PromiseRead DEF Promise!Ahead
  <2>4. Promise!Move(s) /\ sub[s].status = "active"
    BY <1>5, <2>2, <2>3 DEF Promise!Move, Moving
  <2> QED BY <1>1, <1>2, <2>4, PromiseParts
<1>6. CASE Waking(s)
  <2>1. ASSUME NEW c \in OfSub(s), money[c] # "none" PROVE c[2] < sub'[s].next
    <3>1. c[2] \in Nat /\ c[2] <= clock /\ sub'[s].next > clock
      BY <1>4, <1>6, <2>1, TimesAssumption DEF Waking
    <3> QED BY <1>1, <3>1
  <2>2. Promise!Ahead(s)
    BY <2>1, PromiseRead DEF Promise!Ahead
  <2>3. sub[s].status # "active" /\ sub'[s].status = "active"
    BY <1>6 DEF Waking
  <2> QED BY <1>1, <1>2, <2>2, <2>3, PromiseParts
<1> QED BY <1>3, <1>5, <1>6

LEMMA PromiseInit == Init => Promise!Init
  BY PromiseRead DEF Init, Promise!Init

LEMMA PromiseStep == RailInv /\ RailInv' /\ [Next]_vars => [Promise!Next]_Promise!vars
<1> SUFFICES ASSUME RailInv, RailInv', [Next]_vars PROVE [Promise!Next]_Promise!vars
  OBVIOUS
<1>1. UNCHANGED <<sub, money, ask>> => UNCHANGED Promise!vars
  BY DEF Promise!vars
<1>2. ASSUME NEW c \in Cycles, Billing(c) \/ Refusing(c) \/ PayingFor(c) PROVE Promise!Next
  BY <1>2, MoneyPromise DEF Billing, Refusing, PayingFor
<1> QED BY <1>1, <1>2, PromiseShape, AskPromise, DatePromise

\* Batches that die and take over each other's claims, retries, the provider's answers
\* in any order, expiries and the customer's commands together keep the promise, for
\* any number of subscriptions, processes, retries and instants.
THEOREM RailKeepsPromise == Spec => KeepsPromise
  BY RailInvariant, PromiseInit, PromiseStep, PTL DEF Spec, KeepsPromise, Promise!Spec

\* The provider takes a cycle's money at most once of its own accord, whichever
\* processes died, took over or retried in between.
THEOREM CapturedOnceCorrect == Spec => []Promise!CapturedOnce
<1>1. RailInv => Promise!CapturedOnce
  <2> SUFFICES ASSUME RailInv, NEW c \in Cycles, NEW j \in Attempts, NEW k \in Attempts,
                      ask[c][j] = "captured", ask[c][k] = "captured"
               PROVE  j = k
    BY PromiseRead DEF Promise!CapturedOnce
  <2>1. CycleOK(c) /\ ob[c].seq \in Attempts /\ \A i \in Attempts : i \in Nat
    BY TimesAssumption DEF RailInv, CyclesOK, TypeOK, ObRow, Attempts
  <2>2. ASSUME NEW i \in Attempts, ask[c][i] = "captured" PROVE i = ob[c].seq
    BY <2>1, <2>2 DEF CycleOK, Over, Refused
  <2> QED BY <2>2
<1> QED BY RailInvariant, <1>1, PTL

\* A cycle counts as paid only when the provider took its money, whoever settled it:
\* the batch, the retry driver, a late answer or a webhook.
THEOREM SettledWasPaidCorrect == Spec => []Promise!SettledWasPaid
<1>1. Promise!Init => Promise!SettledWasPaid
  BY DEF Promise!Init, Promise!SettledWasPaid
<1>2. Promise!SettledWasPaid /\ [Promise!Next]_Promise!vars => Promise!SettledWasPaid'
  <2> SUFFICES ASSUME Promise!SettledWasPaid, [Promise!Next]_Promise!vars,
                      NEW c \in Cycles, money'[c] = "settled"
               PROVE  \E k \in Attempts : ask'[c][k] \in Paying
    BY PromiseRead DEF Promise!SettledWasPaid
  <2>1. CASE Promise!Next
    <3>1. \E k \in Attempts : ask[c][k] \in Paying
      <4>1. Promise!Rests(c) \/ Promise!Bill(c) \/ Promise!Refuse(c) \/ Promise!Settle(c)
        BY <2>1, PromiseRead DEF Promise!Next
      <4> QED BY <4>1, PromiseRead DEF Promise!Rests, Promise!Bill, Promise!Refuse,
              Promise!Settle, Promise!SettledWasPaid
    <3>2. \A k \in Attempts : Promise!Stays(c, k) \/ Promise!Ask(c, k) \/ Promise!Decide(c, k)
      BY <2>1, PromiseRead DEF Promise!Next
    <3> QED BY <3>1, <3>2 DEF Promise!Stays, Promise!Ask, Promise!Decide, Paying
  <2>2. CASE UNCHANGED Promise!vars
    BY <2>2, PromiseRead DEF Promise!vars, Promise!SettledWasPaid
  <2> QED BY <2>1, <2>2
<1> QED BY RailKeepsPromise, <1>1, <1>2, PTL DEF KeepsPromise, Promise!Spec

\* A subscription that renews by itself stands past every cycle it has paid, however
\* late the money came and whatever the customer commanded.
THEOREM PaidIsPastCorrect == Spec => []Promise!PaidIsPast
<1>1. RailInv => Promise!PaidIsPast
  <2> SUFFICES ASSUME RailInv, NEW c \in Cycles, money[c] = "settled",
                      c[1] \in Subs, sub[c[1]].status = "active"
               PROVE  c[2] < sub[c[1]].next
    BY PromiseRead DEF Promise!PaidIsPast
  <2> QED BY DEF RailInv, SchedulesOK, ScheduleOK
<1> QED BY RailInvariant, <1>1, PTL

\* An ended subscription whose date stands on a cycle that was paid after the end.
Stranded(s) ==
  /\ sub[s].status = "cancelled" /\ sub[s].next <= MaxTime
  /\ money[<<s, sub[s].next>>] = "settled"

\* Whoever is paid after the cancellation can never come back: the settlement moves the
\* date of active subscriptions only, and the reactivation refuses a date whose cycle
\* is paid (subscription_lifecycle_assert_unlocked_cycle).
THEOREM StrandedForGood == Spec => [][\A s \in Subs : Stranded(s) => Stranded(s)']_vars
<1>1. ASSUME RailInv, [Next]_vars, NEW s \in Subs, Stranded(s) PROVE Stranded(s)'
  <2> DEFINE d == <<s, sub[s].next>>
  <2>1. d \in Cycles /\ TypeOK
    BY <1>1, CycleParts, TimesAssumption DEF Stranded, RailInv, TypeOK, SubRow
  <2>2. money'[d] = "settled"
    BY <1>1, <2>1, EndsStep DEF Stranded, Ends
  <2>3. sub'[s] = sub[s]
    <3>1. ASSUME NEW c \in Cycles, PayingFor(c) PROVE sub'[s] = sub[s]
      <4>1. PICK t \in c[2]..clock : sub' = Advanced(c, t)
        BY <3>1 DEF PayingFor, SettlePaid
      <4> QED BY <1>1, <2>1, <4>1, AdvancedType DEF Stranded
    <3>2. ASSUME NEW r \in Subs, Stopping(r) \/ Moving(r) \/ Waking(r) PROVE sub'[s] = sub[s]
      BY <1>1, <3>2 DEF Stranded, Stopping, Moving, Waking, Unlocked
    <3>3. ASSUME NEW c \in Cycles, Billing(c) \/ Refusing(c) PROVE sub'[s] = sub[s]
      BY <3>3 DEF Billing, Refusing
    <3>4. ASSUME NEW c \in Cycles, NEW k \in Attempts, Asking(c, k) PROVE sub'[s] = sub[s]
      BY <3>4 DEF Asking
    <3> QED BY <1>1, <3>1, <3>2, <3>3, <3>4, PromiseShape
  <2> QED BY <1>1, <2>2, <2>3 DEF Stranded
<1>2. RailInv /\ [Next]_vars => [\A s \in Subs : Stranded(s) => Stranded(s)']_vars
  BY <1>1
<1> QED BY RailInvariant, <1>2, PTL DEF Spec
=============================================================================
