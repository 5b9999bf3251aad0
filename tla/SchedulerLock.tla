--------------------------- MODULE SchedulerLock ---------------------------
(***************************************************************************)
(* The timers of the Node host and the advisory lock around every job body *)
(* (packages/platform/src/scheduler/nodeScheduler.ts, advisoryLock.ts) on  *)
(* several hosts.  A callback is one firing of a timer; it runs on its     *)
(* host's event loop and is cut at every await, so a statement it sends is *)
(* executed by the database in one step and handled by the host in a later *)
(* one.  A statement may fail before or after the database executed it.    *)
(*                                                                         *)
(* The database grants a key to one session (backend) at a time, and grants*)
(* it again to a session that has it.  A host's statements reach a backend *)
(* of its own pool; with the dedicated client the pool has one backend.    *)
(***************************************************************************)
EXTENDS Naturals, FiniteSets

CONSTANTS
  Hosts, Callbacks, Keys, Backends, NoBackend,
  HostOf,       \* the host a callback's timer is registered on
  KeyOf,        \* advisoryLockKey of its job; two jobs may share a key
  PoolOf,       \* the backends a host's statements may reach
  Faults,       \* may statements fail?
  SessionLoss   \* may the database end a session the host still uses?

ASSUME SchedulerAssumption ==
  /\ HostOf \in [Callbacks -> Hosts] /\ KeyOf \in [Callbacks -> Keys]
  /\ NoBackend \notin Backends
  /\ Faults \in BOOLEAN /\ SessionLoss \in BOOLEAN
\* Never transaction pooling: no two hosts reach the same backend.
ASSUME AffinityAssumption ==
  /\ PoolOf \in [Hosts -> SUBSET Backends]
  /\ \A g, h \in Hosts : g # h => PoolOf[g] \cap PoolOf[h] = {}

VARIABLES
  lock,   \* the server's advisory locks
  host,   \* each host's scheduler and lock object
  call    \* the callbacks

vars == <<lock, host, call>>

Free == [owner |-> NoBackend, depth |-> 0]
\* depth counts the grants to the owner; two would need two unlocks.
Lock == [owner : Backends \cup {NoBackend}, depth : 0..1]

\* pid is the backend seen first, reserved the keys of pending and held
\* acquisitions; a refused lock object admits no more work.
HostState == [state : {"up", "draining", "closed"}, pid : Backends \cup {NoBackend},
              reserved : SUBSET Keys, refused : BOOLEAN, lost : BOOLEAN]

Phase == {"idle", "admitted", "asking", "asked", "checking", "checked",
          "body", "unlocking", "unlocked"}
Call == [phase : Phase, reply : {"none", "yes", "no", "error"},
         at : Backends \cup {NoBackend}]

Started == [state |-> "up", pid |-> NoBackend, reserved |-> {}, refused |-> FALSE,
            lost |-> FALSE]
Idle == [phase |-> "idle", reply |-> "none", at |-> NoBackend]

TypeOK == /\ lock \in [Keys -> Lock]
          /\ host \in [Hosts -> HostState]
          /\ call \in [Callbacks -> Call]

Init == /\ lock = [k \in Keys |-> Free]
        /\ host = [h \in Hosts |-> Started]
        /\ call = [c \in Callbacks |-> Idle]

Enter(c, phase) == call' = [call EXCEPT ![c] = [Idle EXCEPT !.phase = phase]]

(***************************************************************************)
(* The database: one statement of callback c executes in one step.         *)
(***************************************************************************)
Grantable(k, b) == lock[k] = Free \/ lock[k].owner = b

\* pg_try_advisory_lock
TryLock(k, b) ==
  IF Grantable(k, b) THEN [lock EXCEPT ![k] = [owner |-> b, depth |-> @.depth + 1]]
                     ELSE lock

\* pg_advisory_unlock, by the session recorded at the grant only
Unlockable(c, b) == b = host[HostOf[c]].pid /\ lock[KeyOf[c]].owner = b

Unlock(c, b) ==
  IF ~Unlockable(c, b) THEN lock
  ELSE [lock EXCEPT ![KeyOf[c]] = IF @.depth = 1 THEN Free ELSE [@ EXCEPT !.depth = @ - 1]]

\* The statement's effect and answer, by the phase that sent it.
Effect(c, b) == CASE call[c].phase = "asking" -> TryLock(KeyOf[c], b)
                  [] call[c].phase = "unlocking" -> Unlock(c, b)
                  [] OTHER -> lock
Granted(c, b) == CASE call[c].phase = "asking" -> Grantable(KeyOf[c], b)
                   [] call[c].phase = "unlocking" -> Unlockable(c, b)
                   [] OTHER -> lock[KeyOf[c]].owner = b

Answered == [asking |-> "asked", checking |-> "checked", unlocking |-> "unlocked"]

Execute(c) ==
  /\ call[c].phase \in DOMAIN Answered
  /\ \E b \in PoolOf[HostOf[c]], reply \in {"yes", "no", "error"} :
       /\ \/ /\ reply = IF Granted(c, b) THEN "yes" ELSE "no"
             /\ ~host[HostOf[c]].lost
             /\ lock' = Effect(c, b)
          \/ /\ reply = "error" /\ Faults
             /\ ~host[HostOf[c]].lost
             /\ lock' = Effect(c, b)
          \/ /\ reply = "error" /\ (Faults \/ host[HostOf[c]].lost)
             /\ UNCHANGED lock
       /\ call' = [call EXCEPT ![c] = [phase |-> Answered[@.phase], reply |-> reply, at |-> b]]
  /\ UNCHANGED host

\* A session ends and the database drops its locks.  Of a pool, every backend is
\* retired, as the refusal's message asks before a host is restarted.
SessionEnds(h) ==
  lock' = [k \in Keys |-> IF lock[k].owner \in PoolOf[h] THEN Free ELSE lock[k]]

(***************************************************************************)
(* The host: one callback from its timer to the release of its lock.       *)
(***************************************************************************)
\* Fault: the timers are not fenced before the drain.
FireDraining(c) == /\ call[c].phase = "idle" /\ host[HostOf[c]].state # "closed"
                   /\ Enter(c, "admitted") /\ UNCHANGED <<lock, host>>

Fire(c) == /\ call[c].phase = "idle" /\ host[HostOf[c]].state = "up"
           /\ Enter(c, "admitted") /\ UNCHANGED <<lock, host>>

Reserve(h, k) == host' = [host EXCEPT ![h].reserved = @ \cup {k}]

\* Fault: the session's own reentrancy is not reckoned with.
BeginAcquireAgain(c) ==
  /\ call[c].phase = "admitted"
  /\ IF host[HostOf[c]].refused
       THEN Enter(c, "idle") /\ UNCHANGED host
       ELSE Enter(c, "asking") /\ Reserve(HostOf[c], KeyOf[c])
  /\ UNCHANGED lock

\* tryAcquire up to its first await: a refused lock object throws, a reserved
\* key is skipped.
BeginAcquire(c) ==
  /\ call[c].phase = "admitted"
  /\ IF host[HostOf[c]].refused \/ KeyOf[c] \in host[HostOf[c]].reserved
       THEN Enter(c, "idle") /\ UNCHANGED host
       ELSE Enter(c, "asking") /\ Reserve(HostOf[c], KeyOf[c])
  /\ UNCHANGED lock

\* Fault: the backend is not compared with the one of earlier statements.
AnyPid(c) == call[c].reply # "error"

\* checkPid: the answer came from the backend this lock object began with.
PidAgrees(c) ==
  /\ call[c].reply # "error"
  /\ host[HostOf[c]].pid \in {NoBackend, call[c].at}

Refuse(c) == /\ host' = [host EXCEPT ![HostOf[c]].refused = TRUE]
             /\ Enter(c, "idle")

\* The key is given back: nobody on this host has or asks for the lock.
GiveBack(c) ==
  /\ host' = [host EXCEPT ![HostOf[c]].reserved = @ \ {KeyOf[c]},
                          ![HostOf[c]].pid = call[c].at]
  /\ Enter(c, "idle")

GoOn(c, phase) == /\ host' = [host EXCEPT ![HostOf[c]].pid = call[c].at]
                  /\ Enter(c, phase)

\* Fault: a declined acquisition keeps its reservation.
TriedKeeps(c) ==
  /\ call[c].phase = "asked"
  /\ IF ~PidAgrees(c) THEN Refuse(c)
     ELSE IF call[c].reply = "no" THEN GoOn(c, "idle") ELSE GoOn(c, "checking")
  /\ UNCHANGED lock

\* An uncertain grant refuses all further work and keeps the key reserved.
Tried(c) ==
  /\ call[c].phase = "asked"
  /\ IF ~PidAgrees(c) THEN Refuse(c)
     ELSE IF call[c].reply = "no" THEN GiveBack(c) ELSE GoOn(c, "checking")
  /\ UNCHANGED lock

\* The second statement confirmed the grant; only now does the body start.
Checked(c) ==
  /\ call[c].phase = "checked"
  /\ IF ~PidAgrees(c) \/ call[c].reply = "no" \/ host[HostOf[c]].refused
       THEN Refuse(c) ELSE GoOn(c, "body")
  /\ UNCHANGED lock

\* The body returned or threw: `finally { await lock.release(jobId) }`.
BodyEnds(c) == /\ call[c].phase = "body"
               /\ Enter(c, "unlocking") /\ UNCHANGED <<lock, host>>

\* Fault: the reservation goes although the unlock may not have happened.
ReleasedAnyway(c) == call[c].phase = "unlocked" /\ GiveBack(c) /\ UNCHANGED lock

\* A failed unlock keeps the reservation; an unlock that did not unlock refuses
\* all further work as well.
Released(c) ==
  /\ call[c].phase = "unlocked"
  /\ IF call[c].reply = "error" THEN Enter(c, "idle") /\ UNCHANGED host
     ELSE IF ~PidAgrees(c) \/ call[c].reply = "no" THEN Refuse(c) ELSE GiveBack(c)
  /\ UNCHANGED lock

(***************************************************************************)
(* Shutdown, restart and crash.                                            *)
(***************************************************************************)
OnHost(h) == {c \in Callbacks : HostOf[c] = h}

\* stopAll fences the timers at once.
Stop(h) == /\ host[h].state = "up"
           /\ host' = [host EXCEPT ![h].state = "draining"]
           /\ UNCHANGED <<lock, call>>

\* Fault: a callback counts as active only once it has its lock.
DrainedBodies(h) == \A c \in OnHost(h) : call[c].phase \notin {"body", "unlocking", "unlocked"}

Drained(h) == \A c \in OnHost(h) : call[c].phase = "idle"

\* The lock's session is closed when every admitted callback has settled.
Close(h) == /\ host[h].state = "draining" /\ Drained(h)
            /\ SessionEnds(h)
            /\ host' = [host EXCEPT ![h].state = "closed"]
            /\ UNCHANGED call

Restart(h) == /\ host[h].state = "closed"
              /\ host' = [host EXCEPT ![h] = Started]
              /\ UNCHANGED <<lock, call>>

\* The process dies, and its bodies and its session with it.
Crash(h) == /\ host[h].state # "closed"
            /\ SessionEnds(h)
            /\ host' = [host EXCEPT ![h] = [Started EXCEPT !.state = "closed"]]
            /\ call' = [c \in Callbacks |-> IF HostOf[c] = h THEN Idle ELSE call[c]]

\* The database ends the session; the host learns of it from its next statement.
LoseSession(h) == /\ SessionLoss /\ host[h].state # "closed" /\ ~host[h].lost
                  /\ SessionEnds(h)
                  /\ host' = [host EXCEPT ![h].lost = TRUE]
                  /\ UNCHANGED call

CallbackStep(c) == \/ BeginAcquire(c) \/ Execute(c) \/ Tried(c) \/ Checked(c)
                   \/ BodyEnds(c) \/ Released(c)

Next == \/ \E c \in Callbacks : Fire(c) \/ CallbackStep(c)
        \/ \E h \in Hosts : Stop(h) \/ Close(h) \/ Restart(h) \/ Crash(h) \/ LoseSession(h)

Spec == Init /\ [][Next]_vars

\* The event loop runs, statements are answered or fail, job bodies end and a
\* host that is told to stop closes its session after the drain.
Fairness == /\ \A c \in Callbacks : WF_vars(CallbackStep(c))
            /\ \A h \in Hosts : WF_vars(Close(h))

FairSpec == Spec /\ Fairness
-----------------------------------------------------------------------------
(***************************************************************************)
(* Properties.                                                             *)
(***************************************************************************)
InBody(c) == call[c].phase = "body"

\* "Multi-instance Node must not double-run a cron": no two bodies of one key.
OneBodyPerKey ==
  \A c, d \in Callbacks : InBody(c) /\ InBody(d) /\ KeyOf[c] = KeyOf[d] => c = d

LostSession(c) == host[HostOf[c]].lost

\* A job runs twice at once only on two hosts, and only if the database ended the
\* session of one of them, whatever statements fail and jobs collide on a key.
OnlyLossDoublesBody ==
  \A c, d \in Callbacks : InBody(c) /\ InBody(d) /\ KeyOf[c] = KeyOf[d] =>
    c = d \/ (HostOf[c] # HostOf[d] /\ (LostSession(c) \/ LostSession(d)))

\* While a body runs its lock is held, once, by the very session the release
\* will address, so that one unlock frees it.
SessionHasLock ==
  \A c \in Callbacks : InBody(c) /\ ~LostSession(c) =>
    lock[KeyOf[c]] = [owner |-> host[HostOf[c]].pid, depth |-> 1]

\* Every lock on the server is remembered by a live host: no failed statement
\* makes a host forget, and later re-enter, a lock its session still has.
LocksRemembered ==
  \A k \in Keys : lock[k] # Free =>
    \E h \in Hosts : /\ lock[k].owner \in PoolOf[h] /\ host[h].state # "closed"
                      /\ k \in host[h].reserved

\* A host that closed its lock session has nothing left that was admitted before.
ClosedIsQuiet ==
  \A c \in Callbacks : host[HostOf[c]].state = "closed" => call[c].phase = "idle"

\* Once a host has refused, it admits no body any more, not even for a callback
\* that was already past its own first statement.
RefusedAdmitsNothing ==
  [][\A c \in Callbacks : host[HostOf[c]].refused => ~(~InBody(c) /\ InBody(c)')]_vars

\* Without faults a key comes back after every run, so a job that was declined
\* or has run can run again on the host.
KeyComesBack ==
  \A h \in Hosts, k \in Keys : k \in host[h].reserved ~> k \notin host[h].reserved

\* A host that is told to stop gets there: its timers bring in nothing new, and what
\* was admitted comes to its end.
StopCompletes == \A h \in Hosts : host[h].state = "draining" ~> host[h].state # "draining"
=============================================================================
