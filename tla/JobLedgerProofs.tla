-------------------------- MODULE JobLedgerProofs --------------------------
(***************************************************************************)
(* Proofs about JobLedger for any runners, run ids, lease and host limit.  *)
(***************************************************************************)
EXTENDS JobLedger, TLAPS

\* Adopting the row changes neither the lease nor what it recorded.
LEMMA AdoptedKeepsLease ==
  ASSUME TypeOK, NEW r \in Runners
  PROVE  /\ Adopted(r) \in Control
         /\ Adopted(r).stored /\ Adopted(r).driver \in Drivers
         /\ Adopted(r).token = control.token /\ Adopted(r).until = control.until
  BY DriverAssumption DEF DriverAssumption, TypeOK, Adopted, Control

(***************************************************************************)
(* What one step can do to the control row, the run rows and one runner.   *)
(***************************************************************************)
Granted(r, id) ==
  /\ runner[r].phase = "claiming" /\ control.until <= runner[r].began
  /\ id \in RunIds /\ runs[id] = "none"
  /\ runs' = [runs EXCEPT ![id] = "running"]
  /\ control'.token = id /\ control'.until = runner[r].began + Lease
  /\ runner' = [runner EXCEPT ![r].phase = "working", ![r].id = id]
  /\ overtaken' = overtaken \cup InFlight
  /\ UNCHANGED <<now, verdict>>

\* What the type says of the control row.
ControlOK(c) == /\ c \in Control
                /\ c.stored => c.driver \in Drivers
                /\ c.token = NoRun <=> c.until = 0

RefusedRun(r, id) ==
  /\ runner[r].phase = "claiming"
  /\ id \in RunIds /\ runs[id] = "none"
  /\ runs' = [runs EXCEPT ![id] = "skipped"]
  /\ control'.token = control.token /\ control'.until = control.until
  /\ runner' = [runner EXCEPT ![r] = Idle]
  /\ UNCHANGED <<now, verdict, overtaken>>

LEMMA GrantedShape ==
  ASSUME TypeOK, NEW r \in Runners, ClaimGranted(r)
  PROVE  \E id \in RunIds : Granted(r, id) /\ ControlOK(control')
<1> PICK id \in RunIds :
      /\ runs[id] = "none"
      /\ runs' = [runs EXCEPT ![id] = "running"]
      /\ control' = [Adopted(r) EXCEPT !.token = id, !.until = runner[r].began + Lease,
                                       !.lastStatus = "running", !.lastRun = id]
      /\ runner' = [runner EXCEPT ![r].phase = "working", ![r].id = id]
  BY DEF ClaimGranted
<1> DEFINE a == Adopted(r)
<1>1. a \in Control /\ a.driver \in Drivers /\ a.until = control.until
  BY AdoptedKeepsLease
<1>2. runner[r].began \in Nat /\ control.until \in Nat /\ Lease \in Nat
  BY LeaseAssumption DEF LeaseAssumption, TypeOK, RunnerState, Control
<1>3. ~LeaseActive(a, runner[r].began)
  BY DEF ClaimGranted, Refused
<1>4. control.until <= runner[r].began
  BY <1>1, <1>2, <1>3 DEF LeaseActive
<1> HIDE DEF a
<1>5. control' = [a EXCEPT !.token = id, !.until = runner[r].began + Lease,
                           !.lastStatus = "running", !.lastRun = id]
  BY DEF a
<1>6. runner[r].began + Lease \in Nat
  BY <1>2
<1>7. /\ control' \in Control /\ control'.driver \in Drivers
      /\ control'.token = id /\ control'.until = runner[r].began + Lease
  BY <1>1, <1>5, <1>6 DEF Control, RunStatus
<1>8. ControlOK(control')
  BY <1>2, <1>7, RunIdAssumption, LeaseAssumption
  DEF RunIdAssumption, LeaseAssumption, ControlOK
<1> QED BY <1>4, <1>7, <1>8 DEF ClaimGranted, Granted

LEMMA RefusedShape ==
  ASSUME TypeOK, NEW r \in Runners, ClaimRefused(r)
  PROVE  \E id \in RunIds : RefusedRun(r, id) /\ ControlOK(control')
<1> PICK id \in RunIds :
      /\ runs[id] = "none"
      /\ runs' = [runs EXCEPT ![id] = "skipped"]
      /\ control' = [Adopted(r) EXCEPT !.lastStatus = "skipped", !.lastRun = id]
  BY DEF ClaimRefused
<1> DEFINE a == Adopted(r)
<1>1. /\ a \in Control /\ a.driver \in Drivers
      /\ a.token = control.token /\ a.until = control.until
  BY AdoptedKeepsLease
<1> HIDE DEF a
<1>2. control' = [a EXCEPT !.lastStatus = "skipped", !.lastRun = id]
  BY DEF a
<1>3. /\ control' \in Control /\ control'.driver \in Drivers
      /\ control'.token = control.token /\ control'.until = control.until
  BY <1>1, <1>2 DEF Control, RunStatus
<1>4. ControlOK(control')
  BY <1>1, <1>3 DEF ControlOK, TypeOK
<1> QED BY <1>3, <1>4 DEF ClaimRefused, RefusedRun

LEMMA TypeInit == Init => TypeOK
  BY DEF Init, TypeOK, Control, RunStatus, RunnerState, Idle

\* A runner that works, or waits for the answer to its report, has a run id: the
\* part of its state the type leaves open.
HasRun(r) == runner[r].phase \in {"working", "unsure"}

WorkerHasRun ==
  \A r \in Runners : /\ HasRun(r) => runner[r].id \in RunIds
                     /\ runner[r].phase # "idle" => runner[r].began <= now

LEMMA IdleType == Idle \in RunnerState
  BY DEF Idle, RunnerState

\* A finish, the first or the repeated one, of the runner r that goes on in state s.
FinishedRun(r, status, s) ==
  /\ HasRun(r)
  /\ FinishRun(runner[r].id, status)
  /\ runner' = [runner EXCEPT ![r] = s]
  /\ s \in RunnerState /\ s.phase \in {"idle", "unsure"} /\ s.began <= runner[r].began
  /\ s.phase = "unsure" => s.id = runner[r].id /\ runner[r].phase = "working"

LEMMA FinishShape ==
  ASSUME TypeOK, NEW r \in Runners,
         FinishAgain(r) \/ \E status \in {"success", "failed"} : Finish(r, status)
  PROVE  \E status \in {"success", "failed"}, s \in RunnerState : FinishedRun(r, status, s)
<1>1. runner[r] \in RunnerState /\ runner[r].began \in Nat
  BY DEF TypeOK, RunnerState
<1> DEFINE u == [runner[r] EXCEPT !.phase = "unsure"]
<1>2. /\ u \in RunnerState /\ u.phase = "unsure" /\ u.id = runner[r].id
      /\ u.began = runner[r].began
  BY <1>1 DEF RunnerState
<1>3. /\ Idle \in RunnerState /\ Idle.phase = "idle" /\ Idle.began <= runner[r].began
  BY <1>1, IdleType DEF Idle
<1>4. CASE FinishAgain(r)
  BY <1>3, <1>4 DEF FinishAgain, FinishedRun, HasRun
<1>5. ASSUME NEW status \in {"success", "failed"}, Finish(r, status)
      PROVE  FinishedRun(r, status, Idle) \/ FinishedRun(r, status, u)
  <2>1. CASE runner' = [runner EXCEPT ![r] = Idle]
    BY <1>3, <1>5, <2>1 DEF Finish, FinishedRun, HasRun
  <2>2. CASE runner' = [runner EXCEPT ![r] = u]
    BY <1>1, <1>2, <1>5, <2>2 DEF Finish, FinishedRun, HasRun
  <2> QED BY <1>5, <2>1, <2>2 DEF Finish
<1> QED BY <1>2, <1>3, <1>4, <1>5

LEMMA TypeStep == TypeOK /\ WorkerHasRun /\ [Next]_vars => TypeOK' /\ WorkerHasRun'
<1> SUFFICES ASSUME TypeOK, WorkerHasRun, [Next]_vars PROVE TypeOK' /\ WorkerHasRun'
  OBVIOUS
<1> USE DEF TypeOK, WorkerHasRun
<1>0. \A r \in Runners : runner[r] \in RunnerState /\ runner[r].began \in Nat
  BY DEF RunnerState
<1>1. CASE Tick
  BY <1>0, <1>1 DEF Tick, HasRun
<1>2. ASSUME NEW r \in Runners, BeginClaim(r) PROVE TypeOK' /\ WorkerHasRun'
  BY <1>2 DEF BeginClaim, RunnerState, HasRun
<1>3. ASSUME NEW r \in Runners, ClaimRefused(r) PROVE TypeOK' /\ WorkerHasRun'
  <2> PICK id \in RunIds : RefusedRun(r, id) /\ ControlOK(control')
    BY <1>3, RefusedShape
  <2>1. runs' \in [RunIds -> RunStatus]
    BY DEF RefusedRun, RunStatus
  <2>2. runner' \in [Runners -> RunnerState] /\ WorkerHasRun'
    BY <1>0, IdleType DEF RefusedRun, Idle, HasRun
  <2>3. /\ control' \in Control /\ (control'.stored => control'.driver \in Drivers)
        /\ control'.token = NoRun <=> control'.until = 0
    BY DEF ControlOK
  <2>4. UNCHANGED <<now, verdict, overtaken>>
    BY DEF RefusedRun
  <2> QED BY <2>1, <2>2, <2>3, <2>4
<1>4. ASSUME NEW r \in Runners, ClaimGranted(r) PROVE TypeOK' /\ WorkerHasRun'
  <2> PICK id \in RunIds : Granted(r, id) /\ ControlOK(control')
    BY <1>4, GrantedShape
  <2>1. InFlight \subseteq RunIds
    BY DEF InFlight, HasRun
  <2> DEFINE s == [runner[r] EXCEPT !.phase = "working", !.id = id]
  <2>2. s \in RunnerState /\ s.phase = "working" /\ s.id = id /\ s.began = runner[r].began
    BY <1>0 DEF RunnerState
  <2>3. runner' = [runner EXCEPT ![r] = s]
    BY DEF Granted
  <2>4. runner[r].began <= now
    BY DEF Granted
  <2> HIDE DEF s
  <2>5. runner' \in [Runners -> RunnerState] /\ WorkerHasRun'
    BY <2>2, <2>3, <2>4 DEF Granted, HasRun
  <2> QED BY <2>1, <2>5 DEF Granted, RunStatus, ControlOK
<1>5. ASSUME NEW r \in Runners,
             FinishAgain(r) \/ \E status \in {"success", "failed"} : Finish(r, status)
      PROVE  TypeOK' /\ WorkerHasRun'
  <2> PICK status \in {"success", "failed"}, s \in RunnerState : FinishedRun(r, status, s)
    BY <1>5, FinishShape
  <2>1. runner[r].id \in RunIds
    BY DEF FinishedRun
  <2>2. ControlOK(Freed(runner[r].id, status))
    <3> DEFINE f == [control EXCEPT !.token = NoRun, !.until = 0,
                                    !.lastStatus = status, !.lastRun = runner[r].id]
    <3>1. f \in Control
      BY <2>1 DEF Control, RunStatus
    <3>2. /\ f.stored = control.stored /\ f.driver = control.driver
          /\ f.token = NoRun /\ f.until = 0
      BY DEF Control
    <3>3. ControlOK(f)
      BY <3>1, <3>2 DEF ControlOK
    <3> QED BY <3>3 DEF Freed
  <2>3. ControlOK(control')
    <3>1. ControlOK(control)
      BY DEF ControlOK
    <3>2. control' = control \/ control' = Freed(runner[r].id, status)
      BY DEF FinishedRun, FinishRun
    <3> QED BY <2>2, <3>1, <3>2 DEF ControlOK
  <2>4. runner' \in [Runners -> RunnerState] /\ WorkerHasRun'
    <3>1. runner' = [runner EXCEPT ![r] = s] /\ UNCHANGED now
      BY DEF FinishedRun, FinishRun
    <3>2. HasRun(r)' => s.id = runner[r].id
      BY <3>1 DEF FinishedRun, HasRun
    <3>3. s.began <= now
      <4>1. runner[r].began <= now /\ s.began <= runner[r].began
        BY DEF FinishedRun, HasRun
      <4>2. s.began \in Nat
        BY DEF RunnerState
      <4> QED BY <1>0, <4>1, <4>2
    <3> QED BY <2>1, <3>1, <3>2, <3>3 DEF HasRun
  <2>5. runs' \in [RunIds -> RunStatus]
    BY <2>1 DEF FinishedRun, FinishRun, Restamped, RunStatus
  <2> QED BY <2>1, <2>3, <2>4, <2>5 DEF FinishedRun, FinishRun, ControlOK
<1>6. ASSUME NEW r \in Runners, Crash(r) PROVE TypeOK' /\ WorkerHasRun'
  BY <1>6, IdleType DEF Crash, Idle, HasRun
<1>7. CASE Operate
  <2>1. ASSUME NEW b \in BOOLEAN, control' = [control EXCEPT !.enabled = b]
        PROVE  /\ control' \in Control /\ control'.driver = control.driver
               /\ control'.token = control.token /\ control'.until = control.until
    BY <2>1 DEF Control
  <2>2. ASSUME NEW d \in Drivers, control' = [control EXCEPT !.driver = d]
        PROVE  /\ control' \in Control /\ control'.driver = d
               /\ control'.token = control.token /\ control'.until = control.until
    BY <2>2 DEF Control
  <2>3. (~control.enabled) \in BOOLEAN
    OBVIOUS
  <2>4. /\ control' \in Control /\ control'.driver \in Drivers
        /\ control'.token = control.token /\ control'.until = control.until
    BY <1>7, <2>1, <2>2, <2>3 DEF Operate
  <2> QED BY <1>7, <2>4 DEF Operate, HasRun
<1>8. CASE UNCHANGED vars
  BY <1>8 DEF vars, HasRun
<1> QED BY <1>1, <1>2, <1>3, <1>4, <1>5, <1>6, <1>7, <1>8 DEF Next

\* The control row, the run rows and the runners are well typed whatever the
\* runners and the operator do, a stored control row names its driver, and the
\* columns of its lease are set and cleared together.
THEOREM TypeCorrect == Spec => []TypeOK
<1>1. Init => TypeOK /\ WorkerHasRun
  BY TypeInit DEF Init, WorkerHasRun, HasRun, Idle
<1> QED BY <1>1, TypeStep, PTL DEF Spec
-----------------------------------------------------------------------------
(***************************************************************************)
(* The fence.  A claim overtakes exactly the runs in flight when it is     *)
(* granted; that the lease's token then tells the truth to every finish    *)
(* needs run ids to be fresh, and each to have one runner.                 *)
(***************************************************************************)
\* Runs in flight are the running rows of distinct runners; a run whose runner waits
\* for an answer was answered.
RunsOwned ==
  /\ \A r \in Runners : /\ runner[r].phase = "working" => runs[runner[r].id] = "running"
                        /\ runner[r].phase = "unsure" => verdict[runner[r].id] # {}
  /\ \A q, r \in Runners : HasRun(q) /\ HasRun(r) /\ runner[q].id = runner[r].id => q = r

\* A run that was overtaken, answered or granted has a row, and an answered run is
\* over: it is not in flight and does not hold the lease.
RunsRecorded ==
  /\ \A id \in overtaken : runs[id] # "none"
  /\ \A id \in RunIds : verdict[id] # {} =>
       runs[id] # "none" /\ id \notin InFlight /\ control.token # id
  /\ control.token # NoRun => runs[control.token] # "none"

TokenNotOvertaken == control.token # NoRun => control.token \notin overtaken

FenceInv == /\ TypeOK /\ WorkerHasRun
            /\ RunsOwned /\ RunsRecorded /\ TokenNotOvertaken
            /\ HolderKeepsLease /\ FenceSignalExact

FencePart == RunsOwned /\ RunsRecorded /\ TokenNotOvertaken
             /\ HolderKeepsLease /\ FenceSignalExact

LEMMA FenceInit == Init => FenceInv
<1> SUFFICES ASSUME Init PROVE FencePart /\ WorkerHasRun
  BY TypeInit DEF FenceInv, FencePart
<1>1. InFlight = {} /\ overtaken = {} /\ control.token = NoRun
  BY DEF Init, InFlight, Idle
<1> QED BY <1>1 DEF Init, Idle, FencePart, WorkerHasRun, HasRun, RunsOwned, RunsRecorded,
                    TokenNotOvertaken, HolderKeepsLease, FenceSignalExact

\* A runner that stops working, or one that was not working, changes the runs in
\* flight by its own run at most.
LEMMA InFlightOfStep ==
  ASSUME TypeOK, RunsOwned, NEW r \in Runners, NEW s,
         runner' = [runner EXCEPT ![r] = s]
  PROVE  /\ runner[r].phase # "working" /\ s.phase # "working" => InFlight' = InFlight
         /\ runner[r].phase # "working" /\ s.phase = "working" =>
              InFlight' = InFlight \cup {s.id}
         /\ runner[r].phase = "working" /\ s.phase # "working" =>
              InFlight' = InFlight \ {runner[r].id}
  BY DEF TypeOK, RunsOwned, InFlight, HasRun

LEMMA FenceGranted ==
  ASSUME FenceInv, NEW r \in Runners, NEW id \in RunIds, Granted(r, id)
  PROVE  FencePart'
<1> USE DEF FenceInv, TypeOK
<1> DEFINE s == [runner[r] EXCEPT !.phase = "working", !.id = id]
<1>1. s.phase = "working" /\ s.id = id /\ runner' = [runner EXCEPT ![r] = s]
  BY DEF Granted, RunnerState
<1>2. runner[r].phase # "working"
  BY DEF Granted
<1> HIDE DEF s
<1>3. InFlight' = InFlight \cup {id}
  BY <1>1, <1>2, InFlightOfStep
<1>4. id \notin InFlight /\ id \notin overtaken /\ verdict[id] = {}
  BY DEF Granted, InFlight, RunsOwned, RunsRecorded
<1>5. RunsOwned'
  BY <1>1, <1>2, <1>4 DEF Granted, RunsOwned, RunsRecorded, WorkerHasRun, InFlight, HasRun
<1>6. RunsRecorded'
  BY <1>3, <1>4 DEF Granted, RunsOwned, RunsRecorded, WorkerHasRun, InFlight
<1>7. TokenNotOvertaken' /\ HolderKeepsLease'
  BY <1>3, <1>4 DEF Granted, TokenNotOvertaken, HolderKeepsLease
<1>8. FenceSignalExact'
  BY DEF Granted, FenceSignalExact, RunsRecorded
<1> QED BY <1>5, <1>6, <1>7, <1>8 DEF FencePart

LEMMA FenceFinish ==
  ASSUME FenceInv, NEW r \in Runners, NEW status \in {"success", "failed"},
         NEW s \in RunnerState, FinishedRun(r, status, s)
  PROVE  FencePart'
<1> USE DEF FenceInv, TypeOK
<1> DEFINE id == runner[r].id
<1>1. /\ id \in RunIds /\ HasRun(r)
      /\ runs' = [runs EXCEPT ![id] = status] /\ runner' = [runner EXCEPT ![r] = s]
      /\ s.phase \in {"idle", "unsure"} /\ UNCHANGED overtaken
      /\ s.phase = "unsure" => s.id = id
      /\ status # "none"
  BY DEF FinishedRun, FinishRun, Restamped, WorkerHasRun
<1>2. InFlight' = InFlight \ {id} /\ id \notin InFlight'
  <2>1. CASE runner[r].phase = "working"
    BY <1>1, <2>1, InFlightOfStep
  <2>2. CASE runner[r].phase = "unsure"
    <3>1. id \notin InFlight
      BY <1>1, <2>2 DEF RunsOwned, RunsRecorded
    <3>2. InFlight' = InFlight
      BY <1>1, <2>2, InFlightOfStep
    <3> QED BY <3>1, <3>2
  <2> QED BY <1>1, <2>1, <2>2 DEF HasRun
<1>3. \/ /\ control.token = id /\ control'.token = NoRun
         /\ verdict' = [verdict EXCEPT ![id] = @ \cup {"released"}]
      \/ /\ control.token # id /\ control' = control
         /\ verdict' = [verdict EXCEPT ![id] = @ \cup {"lost"}]
  <2>1. Freed(id, status).token = NoRun
    BY DEF Freed, Control
  <2>2. FinishRun(id, status)
    BY DEF FinishedRun
  <2>3. CASE control.token = id
    BY <2>1, <2>2, <2>3 DEF FinishRun, HoldsLease
  <2>4. CASE control.token # id
    BY <2>2, <2>4 DEF FinishRun, HoldsLease
  <2> QED BY <2>3, <2>4
<1>4. verdict'[id] # {} /\ \A i \in RunIds : i # id => verdict'[i] = verdict[i]
  BY <1>1, <1>3
<1>5. RunsOwned'
  <2>1. \A q \in Runners : q # r => runner'[q] = runner[q] /\ (HasRun(q) => runner[q].id # id)
    BY <1>1 DEF RunsOwned
  <2>2. runner'[r] = s
    BY <1>1
  <2> QED BY <1>1, <1>4, <2>1, <2>2 DEF RunsOwned, HasRun, WorkerHasRun
<1>6. RunsRecorded'
  BY <1>1, <1>2, <1>3, <1>4, RunIdAssumption DEF RunIdAssumption, RunsRecorded, Control
<1>7. TokenNotOvertaken'
  BY <1>1, <1>3 DEF TokenNotOvertaken
<1>8. HolderKeepsLease'
  BY <1>1, <1>2, <1>3 DEF HolderKeepsLease
<1>9. FenceSignalExact'
  <2>1. CASE control.token = id
    <3>1. verdict[id] = {} /\ id \notin overtaken
      BY <1>1, <2>1, RunIdAssumption DEF RunIdAssumption, RunsRecorded, TokenNotOvertaken
    <3>2. verdict'[id] = {"released"}
      BY <1>1, <1>3, <2>1, <3>1
    <3> QED BY <1>1, <1>4, <3>1, <3>2 DEF FenceSignalExact
  <2>2. CASE control.token # id
    <3>1. verdict'[id] = verdict[id] \cup {"lost"}
      BY <1>1, <1>3, <2>2
    <3>2. verdict[id] = {} => id \in overtaken
      BY <1>1, <2>2 DEF HolderKeepsLease, RunsOwned, HasRun, InFlight
    <3>3. "released" \in verdict'[id] => id \notin overtaken
      BY <1>1, <3>1 DEF FenceSignalExact
    <3>4. verdict'[id] = {"lost"} => id \in overtaken
      <4>1. verdict[id] \subseteq {"released", "lost"}
        BY <1>1
      <4>2. verdict'[id] = {"lost"} => verdict[id] = {} \/ verdict[id] = {"lost"}
        BY <3>1, <4>1
      <4> QED BY <1>1, <3>2, <4>2 DEF FenceSignalExact
    <3> QED BY <1>1, <1>4, <3>3, <3>4 DEF FenceSignalExact
  <2> QED BY <2>1, <2>2
<1> QED BY <1>5, <1>6, <1>7, <1>8, <1>9 DEF FencePart

LEMMA FenceStep == FenceInv /\ [Next]_vars => FenceInv'
<1> SUFFICES ASSUME FenceInv, [Next]_vars PROVE FencePart'
  BY TypeStep DEF FenceInv, FencePart
<1> USE DEF FenceInv
\* A step that moves neither lease nor rows, and no runner into or out of work.
<1>0. ASSUME runs' = runs, UNCHANGED <<verdict, overtaken>>, control'.token = control.token,
             InFlight' \subseteq InFlight, RunsOwned'
      PROVE  FencePart'
  BY <1>0 DEF FencePart, RunsRecorded, TokenNotOvertaken, HolderKeepsLease, FenceSignalExact
<1>1. CASE Tick
  BY <1>0, <1>1 DEF Tick, InFlight, RunsOwned, HasRun
<1>2. ASSUME NEW r \in Runners, BeginClaim(r) PROVE FencePart'
  <2>1. InFlight' = InFlight /\ RunsOwned'
    BY <1>2 DEF BeginClaim, TypeOK, InFlight, RunsOwned, HasRun
  <2> QED BY <1>0, <1>2, <2>1 DEF BeginClaim
<1>3. ASSUME NEW r \in Runners, ClaimRefused(r) PROVE FencePart'
  <2> PICK id \in RunIds : RefusedRun(r, id)
    BY <1>3, RefusedShape
  <2>1. InFlight' = InFlight
    BY InFlightOfStep DEF RefusedRun, Idle
  <2>2. RunsOwned'
    BY DEF RefusedRun, RunsOwned, TypeOK, WorkerHasRun, HasRun, Idle
  <2>3. RunsRecorded'
    BY <2>1 DEF RefusedRun, RunsRecorded, TypeOK
  <2> QED BY <2>1, <2>2, <2>3
          DEF RefusedRun, FencePart, TokenNotOvertaken, HolderKeepsLease, FenceSignalExact
<1>4. ASSUME NEW r \in Runners, ClaimGranted(r) PROVE FencePart'
  BY <1>4, GrantedShape, FenceGranted
<1>5. ASSUME NEW r \in Runners,
             FinishAgain(r) \/ \E status \in {"success", "failed"} : Finish(r, status)
      PROVE  FencePart'
  BY <1>5, FinishShape, FenceFinish
<1>6. ASSUME NEW r \in Runners, Crash(r) PROVE FencePart'
  <2>1. InFlight' \subseteq InFlight /\ RunsOwned'
    BY <1>6 DEF Crash, TypeOK, InFlight, RunsOwned, HasRun, Idle
  <2> QED BY <1>0, <1>6, <2>1 DEF Crash
<1>7. CASE Operate
  <2>1. control'.token = control.token
    BY <1>7 DEF Operate, TypeOK, Control
  <2> QED BY <1>0, <1>7, <2>1 DEF Operate, InFlight, RunsOwned, HasRun
<1>8. CASE UNCHANGED vars
  BY <1>0, <1>8 DEF vars, InFlight, RunsOwned, HasRun
<1> QED BY <1>1, <1>2, <1>3, <1>4, <1>5, <1>6, <1>7, <1>8 DEF Next

\* A run in flight that no later claim overtook has the job's lease, whatever late
\* finishes, refusals, crashes and operator's edits happened meanwhile.
THEOREM LeaseKept == Spec => []HolderKeepsLease
<1>1. FenceInv => HolderKeepsLease
  BY DEF FenceInv
<1> QED BY <1>1, FenceInit, FenceStep, PTL DEF Spec

\* platform_finish_job_run_v2 answers "released" only to runs that worked alone, and
\* a run that was only ever told "lost" was overtaken by another claim, also when a
\* finish is repeated because the answer to the first was lost.
THEOREM FenceExact == Spec => []FenceSignalExact
<1>1. FenceInv => FenceSignalExact
  BY DEF FenceInv
<1> QED BY <1>1, FenceInit, FenceStep, PTL DEF Spec

\* While a lease runs no claim is granted, even one that read now() long before it
\* got the lock: the lease ends by its own runner's finish or by expiry alone.
THEOREM LeaseExclusive == Spec => LeaseIsExclusive
<1>1. FenceInv /\ [Next]_vars =>
        [control.token # NoRun /\ control.until > now /\ control'.token # control.token
           => control'.token = NoRun /\ "released" \in verdict'[control.token]]_vars
  <2> SUFFICES ASSUME FenceInv, [Next]_vars,
                      control.token # NoRun, control.until > now,
                      control'.token # control.token
               PROVE  control'.token = NoRun /\ "released" \in verdict'[control.token]
    OBVIOUS
  <2> USE DEF FenceInv, TypeOK
  <2>1. ASSUME NEW r \in Runners, ClaimGranted(r) PROVE FALSE
    <3> PICK id \in RunIds : Granted(r, id)
      BY <2>1, GrantedShape
    <3>1. runner[r].began <= now /\ control.until <= runner[r].began
      BY DEF Granted, WorkerHasRun
    <3> QED BY <3>1 DEF RunnerState, Control
  <2>2. ASSUME NEW r \in Runners, ClaimRefused(r) PROVE FALSE
    BY <2>2, RefusedShape DEF RefusedRun
  <2>3. ASSUME NEW r \in Runners,
               FinishAgain(r) \/ \E status \in {"success", "failed"} : Finish(r, status)
        PROVE  control'.token = NoRun /\ "released" \in verdict'[control.token]
    <3> PICK status \in {"success", "failed"}, s \in RunnerState : FinishedRun(r, status, s)
      BY <2>3, FinishShape
    <3>1. runner[r].id \in RunIds
      BY DEF FinishedRun, WorkerHasRun
    <3>2. Freed(runner[r].id, status).token = NoRun
      BY DEF Freed, Control
    <3>3. control' # control
      OBVIOUS
    <3>4. /\ control.token = runner[r].id /\ control'.token = NoRun
          /\ verdict' = [verdict EXCEPT ![runner[r].id] = @ \cup {"released"}]
      BY <3>2, <3>3 DEF FinishedRun, FinishRun, HoldsLease
    <3> QED BY <3>1, <3>4
  <2>4. ~Operate
    BY DEF Operate, Control
  <2> QED BY <2>1, <2>2, <2>3, <2>4 DEF Next, Tick, BeginClaim, Crash, vars
<1> QED BY <1>1, FenceInit, FenceStep, PTL DEF Spec, LeaseIsExclusive

\* A run row changes only at the hands of its own runner: by its report, and by the
\* repeated finish after a lost answer, which says failed and leaves the lease alone.
\* The row of a refused attempt never changes.
THEOREM RunRowsCorrect == Spec => RunRowsTruthful
<1>1. FenceInv /\ [Next]_vars =>
        [\A id \in RunIds : runs[id] # "none" /\ runs'[id] # runs[id] =>
           \E r \in Runners :
             /\ runner[r].id = id
             /\ \/ runner[r].phase = "working" /\ runs[id] = "running"
                \/ /\ runner[r].phase = "unsure" /\ runs'[id] = "failed"
                   /\ UNCHANGED control]_vars
  <2> DEFINE Own(id) ==
        \E r \in Runners :
          /\ runner[r].id = id
          /\ \/ runner[r].phase = "working" /\ runs[id] = "running"
             \/ /\ runner[r].phase = "unsure" /\ runs'[id] = "failed"
                /\ UNCHANGED control
  <2> SUFFICES ASSUME FenceInv, [Next]_vars, NEW id \in RunIds,
                      runs[id] # "none", runs'[id] # runs[id]
               PROVE  Own(id)
    OBVIOUS
  <2> USE DEF FenceInv, TypeOK
  <2>1. ASSUME NEW r \in Runners, ClaimGranted(r) PROVE FALSE
    BY <2>1, GrantedShape DEF Granted
  <2>2. ASSUME NEW r \in Runners, ClaimRefused(r) PROVE FALSE
    BY <2>2, RefusedShape DEF RefusedRun
  <2>3. ASSUME NEW r \in Runners, NEW status \in {"success", "failed"}, Finish(r, status)
        PROVE  Own(id)
    BY <2>3 DEF Finish, FinishRun, Restamped, RunsOwned
  <2>4. ASSUME NEW r \in Runners, FinishAgain(r) PROVE Own(id)
    <3>1. id = runner[r].id /\ runner[r].phase = "unsure" /\ runs'[id] = "failed"
      BY <2>4 DEF FinishAgain, FinishRun, Restamped
    <3>2. ~HoldsLease(id)
      BY <3>1 DEF HoldsLease, RunsOwned, RunsRecorded
    <3>3. UNCHANGED control
      BY <2>4, <3>1, <3>2 DEF FinishAgain, FinishRun
    <3> QED BY <3>1, <3>3
  <2>5. (~ \E r \in Runners : ClaimGranted(r) \/ ClaimRefused(r) \/ FinishAgain(r)
           \/ \E status \in {"success", "failed"} : Finish(r, status)) => runs' = runs
    BY DEF Next, Tick, BeginClaim, Crash, Operate, vars
  <2> QED BY <2>1, <2>2, <2>3, <2>4, <2>5
<1> QED BY <1>1, FenceInit, FenceStep, PTL DEF Spec, RunRowsTruthful
-----------------------------------------------------------------------------
(***************************************************************************)
(* One runner at a time, among those the host has not let outlive the      *)
(* lease.  The lease counts from the now() the claim started with, so it   *)
(* is the age of the runner, waiting included, that the host must bound.   *)
(***************************************************************************)
LeaseCoversRun ==
  \A r \in Runners : AtWorkInTime(r) =>
    control.token = runner[r].id /\ control.until = runner[r].began + Lease

HostInv == FenceInv /\ LeaseCoversRun

LEMMA HostStep ==
  ASSUME HostLimit <= Lease
  PROVE  HostInv /\ [Next]_vars => HostInv'
<1> SUFFICES ASSUME HostInv, [Next]_vars PROVE LeaseCoversRun'
  BY FenceStep DEF HostInv
<1> USE LeaseAssumption DEF LeaseAssumption, HostInv, FenceInv, TypeOK, AtWorkInTime
<1>0. now \in Nat /\ \A r \in Runners : runner[r] \in RunnerState /\ runner[r].began \in Nat
  BY DEF RunnerState
<1>1. CASE Tick
  BY <1>0, <1>1 DEF Tick, LeaseCoversRun
<1>2. ASSUME NEW r \in Runners, BeginClaim(r) PROVE LeaseCoversRun'
  BY <1>0, <1>2 DEF BeginClaim, LeaseCoversRun
<1>3. ASSUME NEW r \in Runners, ClaimRefused(r) PROVE LeaseCoversRun'
  <2> PICK id \in RunIds : RefusedRun(r, id)
    BY <1>3, RefusedShape
  <2> QED BY DEF RefusedRun, LeaseCoversRun, Idle
<1>4. ASSUME NEW r \in Runners, ClaimGranted(r) PROVE LeaseCoversRun'
  <2> PICK id \in RunIds : Granted(r, id)
    BY <1>4, GrantedShape
  <2>1. ASSUME NEW q \in Runners, AtWorkInTime(q) PROVE FALSE
    <3>1. /\ control.until = runner[q].began + Lease
          /\ now < runner[q].began + HostLimit
          /\ control.until <= runner[r].began /\ runner[r].began <= now
      BY <2>1 DEF Granted, LeaseCoversRun, WorkerHasRun
    <3> QED BY <1>0, <3>1
  <2>2. runner'[r].began = runner[r].began /\ runner'[r].id = id
    BY <1>0 DEF Granted, RunnerState
  <2>3. \A q \in Runners : q # r => runner'[q] = runner[q]
    BY DEF Granted
  <2> QED BY <2>1, <2>2, <2>3 DEF Granted, LeaseCoversRun
<1>5. ASSUME NEW r \in Runners,
             FinishAgain(r) \/ \E status \in {"success", "failed"} : Finish(r, status)
      PROVE  LeaseCoversRun'
  <2> PICK status \in {"success", "failed"}, s \in RunnerState : FinishedRun(r, status, s)
    BY <1>5, FinishShape
  <2>1. /\ HasRun(r) /\ runner' = [runner EXCEPT ![r] = s] /\ s.phase # "working"
        /\ UNCHANGED now
    BY DEF FinishedRun, FinishRun
  <2>2. \A q \in Runners : q # r /\ AtWorkInTime(q) => control.token # runner[r].id
    BY <2>1 DEF LeaseCoversRun, RunsOwned, HasRun
  <2>3. control.token # runner[r].id => UNCHANGED control
    BY DEF FinishedRun, FinishRun, HoldsLease
  <2> QED BY <2>1, <2>2, <2>3 DEF LeaseCoversRun
<1>6. ASSUME NEW r \in Runners, Crash(r) PROVE LeaseCoversRun'
  BY <1>6 DEF Crash, LeaseCoversRun, Idle
<1>7. CASE Operate
  <2>1. control'.token = control.token /\ control'.until = control.until
    BY <1>7 DEF Operate, Control
  <2> QED BY <1>7, <2>1 DEF Operate, LeaseCoversRun
<1>8. CASE UNCHANGED vars
  BY <1>8 DEF vars, LeaseCoversRun
<1> QED BY <1>1, <1>2, <1>3, <1>4, <1>5, <1>6, <1>7, <1>8 DEF Next

\* With leaseSeconds at least the host limit, as the scheduled factory demands, two
\* runners never work on the job at the same time, unless one outlived that limit.
THEOREM OneRunnerCorrect == Spec => []OneRunnerAtWork
<1>1. CASE HostLimit <= Lease
  <2>1. Init => HostInv
    BY FenceInit DEF HostInv, Init, LeaseCoversRun, AtWorkInTime, Idle
  <2>2. HostInv /\ [Next]_vars => HostInv'
    BY <1>1, HostStep
  <2>3. HostInv => OneRunnerAtWork
    BY DEF HostInv, FenceInv, LeaseCoversRun, RunsOwned, HasRun, OneRunnerAtWork, AtWorkInTime
  <2> QED BY <2>1, <2>2, <2>3, PTL DEF Spec
<1>2. CASE ~(HostLimit <= Lease)
  <2>1. OneRunnerAtWork
    BY <1>2 DEF OneRunnerAtWork
  <2> QED BY <2>1, PTL
<1> QED BY <1>1, <1>2
=============================================================================
