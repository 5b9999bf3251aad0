----------------------------- MODULE JobLedger -----------------------------
(***************************************************************************)
(* The job-run ledger of packages/platform/sql/20260809150000_job_run_     *)
(* ledger.sql for one job: the control row with its lease, the run rows,   *)
(* and the runners that claim and finish.                                  *)
(*                                                                         *)
(* platform_claim_job_run reads now() when its transaction starts and then *)
(* waits for the control row's lock, so a claim is two steps here: the     *)
(* runner begins (and time may pass), then the body runs with that old     *)
(* now().  A runner may crash, or stall past its lease and finish late.    *)
(* When a finish commits and its answer is lost, the caller's catch block  *)
(* finishes the same run a second time.                                    *)
(***************************************************************************)
EXTENDS Integers, FiniteSets

CONSTANTS
  Runners,     \* processes that run the job
  Drivers,     \* 'worker', 'scheduler', 'operator'
  DriverOf,    \* p_driver of a runner
  RunIds,      \* values of gen_random_uuid() used as run ids
  NoRun, NoDriver,
  Lease,       \* p_lease_seconds, already clamped to 60..3600
  HostLimit,   \* how long the host should let a runner live
  MaxTime      \* bound on the clock

ASSUME RunIdAssumption == NoRun \notin RunIds
ASSUME DriverAssumption == DriverOf \in [Runners -> Drivers] /\ NoDriver \notin Drivers
ASSUME LeaseAssumption == Lease \in Nat \ {0} /\ HostLimit \in Nat \ {0} /\ MaxTime \in Nat

VARIABLES
  now,        \* the database clock
  control,    \* the row of platform_job_controls
  runs,       \* the rows of platform_job_runs
  runner,     \* the runners' own state
  verdict,    \* the answers the finishes of each run were given
  overtaken   \* runs in flight when another claim was granted

vars == <<now, control, runs, runner, verdict, overtaken>>

RunStatus == {"none", "running", "success", "failed", "skipped"}

Control == [stored : BOOLEAN, enabled : BOOLEAN, driver : Drivers \cup {NoDriver},
            token : RunIds \cup {NoRun}, until : Nat,
            lastStatus : RunStatus, lastRun : RunIds \cup {NoRun}]

\* "unsure": the finish committed, but its answer never came.
RunnerState == [phase : {"idle", "claiming", "working", "unsure"}, began : Nat,
                id : RunIds \cup {NoRun}]

TypeOK == /\ now \in Nat
          /\ control \in Control
          /\ control.stored => control.driver \in Drivers   \* NOT NULL
          \* The columns of the lease are set and cleared together.
          /\ control.token = NoRun <=> control.until = 0
          /\ runs \in [RunIds -> RunStatus]
          /\ runner \in [Runners -> RunnerState]
          /\ verdict \in [RunIds -> SUBSET {"released", "lost"}]
          /\ overtaken \subseteq RunIds

Idle == [phase |-> "idle", began |-> 0, id |-> NoRun]

Init == /\ now = 0
        /\ control = [stored |-> FALSE, enabled |-> TRUE, driver |-> NoDriver,
                      token |-> NoRun, until |-> 0, lastStatus |-> "none", lastRun |-> NoRun]
        /\ runs = [id \in RunIds |-> "none"]
        /\ runner = [r \in Runners |-> Idle]
        /\ verdict = [id \in RunIds |-> {}]
        /\ overtaken = {}

InFlight == {runner[r].id : r \in {q \in Runners : runner[q].phase = "working"}}

Tick == /\ now < MaxTime
        /\ now' = now + 1
        /\ UNCHANGED <<control, runs, runner, verdict, overtaken>>

BeginClaim(r) ==
  /\ runner[r].phase = "idle"
  /\ runner' = [runner EXCEPT ![r] = [phase |-> "claiming", began |-> now, id |-> NoRun]]
  /\ UNCHANGED <<now, control, runs, verdict, overtaken>>

\* INSERT ... ON CONFLICT DO NOTHING: the first claimer becomes the active driver.
Adopted(r) == IF control.stored THEN control
              ELSE [control EXCEPT !.stored = TRUE, !.driver = DriverOf[r]]

LeaseActive(c, at) == c.until > at

Refused(r) == LET c == Adopted(r) IN
  ~c.enabled \/ c.driver # DriverOf[r] \/ LeaseActive(c, runner[r].began)

\* A refused attempt is recorded as a skipped run; the lease stays as it is.
ClaimRefused(r) ==
  /\ runner[r].phase = "claiming" /\ Refused(r)
  /\ \E id \in RunIds :
       /\ runs[id] = "none"
       /\ runs' = [runs EXCEPT ![id] = "skipped"]
       /\ control' = [Adopted(r) EXCEPT !.lastStatus = "skipped", !.lastRun = id]
  /\ runner' = [runner EXCEPT ![r] = Idle]
  /\ UNCHANGED <<now, verdict, overtaken>>

\* Fault: the lease is shorter than what the caller asked for.
ClaimGrantedShort(r) ==
  /\ runner[r].phase = "claiming" /\ ~Refused(r)
  /\ \E id \in RunIds :
       /\ runs[id] = "none"
       /\ runs' = [runs EXCEPT ![id] = "running"]
       /\ control' = [Adopted(r) EXCEPT !.token = id, !.until = runner[r].began + Lease - 1,
                                        !.lastStatus = "running", !.lastRun = id]
       /\ runner' = [runner EXCEPT ![r].phase = "working", ![r].id = id]
  /\ overtaken' = overtaken \cup InFlight
  /\ UNCHANGED <<now, verdict>>

ClaimGranted(r) ==
  /\ runner[r].phase = "claiming" /\ ~Refused(r)
  /\ \E id \in RunIds :
       /\ runs[id] = "none"
       /\ runs' = [runs EXCEPT ![id] = "running"]
       /\ control' = [Adopted(r) EXCEPT !.token = id, !.until = runner[r].began + Lease,
                                        !.lastStatus = "running", !.lastRun = id]
       /\ runner' = [runner EXCEPT ![r].phase = "working", ![r].id = id]
  /\ overtaken' = overtaken \cup InFlight
  /\ UNCHANGED <<now, verdict>>

\* Faults: no fence; a fence by lease time.
HoldsLeaseAny(id) == TRUE
HoldsLeaseByTime(id) == control.until > now

\* The fence of the control row's UPDATE.
HoldsLease(id) == control.token = id

\* Fault: the release forgets lease_until.
FreedTokenOnly(id, status) ==
  [control EXCEPT !.token = NoRun, !.lastStatus = status, !.lastRun = id]

Freed(id, status) ==
  [control EXCEPT !.token = NoRun, !.until = 0, !.lastStatus = status, !.lastRun = id]

\* Fault: every running row of the job is stamped.
RestampedAll(id, status) ==
  [i \in RunIds |-> IF i = id \/ runs[i] = "running" THEN status ELSE runs[i]]

\* The run row is stamped whatever it shows: there is no guard on finished_at.
Restamped(id, status) == [runs EXCEPT ![id] = status]

\* platform_finish_job_run_v2: every finish stamps its own run row; only the token
\* that holds the lease frees the job, and the answer says which of the two it was.
FinishRun(id, status) ==
  /\ runs' = Restamped(id, status)
  /\ IF HoldsLease(id)
       THEN /\ control' = Freed(id, status)
            /\ verdict' = [verdict EXCEPT ![id] = @ \cup {"released"}]
       ELSE /\ verdict' = [verdict EXCEPT ![id] = @ \cup {"lost"}]
            /\ UNCHANGED control
  /\ UNCHANGED <<now, overtaken>>

\* The runner reports its outcome; its answer arrives, or is lost on the way.
Finish(r, status) ==
  /\ runner[r].phase = "working"
  /\ FinishRun(runner[r].id, status)
  /\ \/ runner' = [runner EXCEPT ![r] = Idle]
     \/ runner' = [runner EXCEPT ![r].phase = "unsure"]

\* A caller that finishes inside its try sees the lost answer as a failure of the
\* job and finishes the run once more, as failed.
FinishAgain(r) ==
  /\ runner[r].phase = "unsure"
  /\ FinishRun(runner[r].id, "failed")
  /\ runner' = [runner EXCEPT ![r] = Idle]

\* The process dies: its claim transaction rolls back, its lease stays.
Crash(r) ==
  /\ runner[r].phase # "idle"
  /\ runner' = [runner EXCEPT ![r] = Idle]
  /\ UNCHANGED <<now, control, runs, verdict, overtaken>>

\* The operator's own UPDATEs: pause or resume the job, pin another driver.
Operate ==
  /\ control.stored
  /\ \/ control' = [control EXCEPT !.enabled = ~@]
     \/ \E d \in Drivers : control' = [control EXCEPT !.driver = d]
  /\ UNCHANGED <<now, runs, runner, verdict, overtaken>>

Next == \/ Tick
        \/ \E r \in Runners : BeginClaim(r) \/ ClaimRefused(r) \/ ClaimGranted(r)
        \/ \E r \in Runners, status \in {"success", "failed"} : Finish(r, status)
        \/ \E r \in Runners : FinishAgain(r) \/ Crash(r)
        \/ Operate

Spec == Init /\ [][Next]_vars
-----------------------------------------------------------------------------
(***************************************************************************)
(* Properties.                                                             *)
(***************************************************************************)

\* A run in flight that was not overtaken still has the job's lease: no late
\* finish, refusal, crash or operator's edit took it away.
HolderKeepsLease ==
  \A id \in InFlight : id \notin overtaken => control.token = id

\* The fencing signal is exact: a run was told that it released the job only if no
\* other run was granted between its claim and its finish, and a run that was only
\* ever told "lost" was overtaken.  A finish repeated after a release is told "lost"
\* as well, and that answer alone says nothing.
FenceSignalExact ==
  \A id \in RunIds : /\ "released" \in verdict[id] => id \notin overtaken
                     /\ verdict[id] = {"lost"} => id \in overtaken

\* While a lease runs no claim is granted, even one whose transaction began, and
\* took its now(), long before it got the control row's lock.
LeaseIsExclusive ==
  [][control.token # NoRun /\ control.until > now /\ control'.token # control.token
       => control'.token = NoRun /\ "released" \in verdict'[control.token]]_vars

\* Working, and not as old as the host limit, the wait for its claim included.
AtWorkInTime(r) == runner[r].phase = "working" /\ now < runner[r].began + HostLimit

\* With a lease at least as long as the host limit, two runners never work on the
\* job at the same time, unless one of them was not ended at its limit.
OneRunnerAtWork ==
  HostLimit <= Lease =>
    \A q, r \in Runners : AtWorkInTime(q) /\ AtWorkInTime(r) => q = r

\* A run row that exists changes only at the hands of its own runner: once by its
\* report, and once more when the answer to that report was lost.  The second time
\* the row says failed, whatever the first report said, and the lease, which may be
\* another run's by then, is not touched.  A refused attempt's row never changes.
RunRowsTruthful ==
  [][\A id \in RunIds : runs[id] # "none" /\ runs'[id] # runs[id] =>
       \E r \in Runners :
         /\ runner[r].id = id
         /\ \/ runner[r].phase = "working" /\ runs[id] = "running"
            \/ /\ runner[r].phase = "unsure" /\ runs'[id] = "failed"
               /\ UNCHANGED control]_vars
=============================================================================
