------------------------- MODULE SchedulerLockProofs -------------------------
(***************************************************************************)
(* Proofs about SchedulerLock for any number of hosts, callbacks, keys and *)
(* backends.  The argument: a key is engaged by one callback of a host at  *)
(* most (the reservation), the server's lock of a key that nobody on the   *)
(* host reserves belongs to no backend of the host, and a callback that    *)
(* passed its first answer has the lock under the host's recorded backend. *)
(***************************************************************************)
EXTENDS SchedulerLock, TLAPS

\* A callback between its reservation and the end of its release.
Engaged(c) == call[c].phase \notin {"idle", "admitted"}

\* Its acquisition was answered with a grant and it did not unlock yet.
HasGrant(c) == \/ call[c].phase = "asked" /\ call[c].reply = "yes"
               \/ call[c].phase \in {"checking", "checked", "body", "unlocking"}

\* It has not been granted the lock, or has given it back for certain.
Without(c) == \/ call[c].phase = "asking"
              \/ call[c].phase = "asked" /\ call[c].reply = "no"
              \/ call[c].phase = "unlocked" /\ call[c].reply = "yes"

Own(c) == PoolOf[HostOf[c]]

OneEngaged ==
  \A c, d \in Callbacks :
    Engaged(c) /\ Engaged(d) /\ HostOf[c] = HostOf[d] /\ KeyOf[c] = KeyOf[d] => c = d

Reserves(c) == Engaged(c) => KeyOf[c] \in host[HostOf[c]].reserved

AnsweredByOwn(c) == call[c].phase \in {"asked", "checked", "unlocked"} =>
                      call[c].reply # "none" /\ call[c].at \in Own(c)

\* The lock was granted to the backend that answered, from then on the recorded one.
GrantBackend(c) == IF call[c].phase = "asked" THEN call[c].at ELSE host[HostOf[c]].pid

GrantHeld(c) == HasGrant(c) /\ ~host[HostOf[c]].lost =>
  /\ lock[KeyOf[c]] = [owner |-> GrantBackend(c), depth |-> 1]
  /\ GrantBackend(c) \in Own(c)

NoGrantLeft(c) == Without(c) => lock[KeyOf[c]].owner \notin Own(c)

CallInv(c) == Reserves(c) /\ AnsweredByOwn(c) /\ GrantHeld(c) /\ NoGrantLeft(c)

PidsOwn == \A h \in Hosts : host[h].pid \in PoolOf[h] \cup {NoBackend}

FreeOrDeep == \A k \in Keys : lock[k] = Free \/ lock[k].depth = 1

NeverLost == ~SessionLoss => \A h \in Hosts : ~host[h].lost

LockInv == /\ TypeOK /\ OneEngaged /\ (\A c \in Callbacks : CallInv(c)) /\ PidsOwn
           /\ FreeOrDeep /\ NeverLost /\ LocksRemembered /\ ClosedIsQuiet

USE SchedulerAssumption, AffinityAssumption

\* A backend belongs to one host's pool only, and is never NoBackend.
LEMMA OnePool ==
  /\ \A h \in Hosts : NoBackend \notin PoolOf[h]
  /\ \A g, h \in Hosts : PoolOf[g] \cap PoolOf[h] # {} => g = h
  OBVIOUS

\* Started with no lock, no host at work and no callback fired, the invariant holds.
LEMMA InitLock == Init => LockInv
  BY DEF Init, LockInv, TypeOK, OneEngaged, CallInv, Reserves, AnsweredByOwn, GrantHeld,
    NoGrantLeft, PidsOwn, FreeOrDeep, NeverLost, LocksRemembered, ClosedIsQuiet, Engaged,
    HasGrant, Without, Lock, Free, HostState, Started, Call, Idle, Phase

-----------------------------------------------------------------------------
(***************************************************************************)
(* The host's side of a callback: the locks on the server do not change.   *)
(***************************************************************************)
OnlyCall(c) == /\ call' \in [Callbacks -> Call]
               /\ \A d \in Callbacks \ {c} : call'[d] = call[d]

OnlyHost(h) == /\ host' \in [Hosts -> HostState]
               /\ \A g \in Hosts \ {h} : host'[g] = host[g]

\* A backend is recorded once; a key is given up only by the callback that engaged
\* it, and only when the host's sessions do not have its lock.
HostSide(c) ==
  /\ UNCHANGED lock /\ OnlyCall(c) /\ OnlyHost(HostOf[c])
  /\ host'[HostOf[c]].state = host[HostOf[c]].state
  /\ host'[HostOf[c]].lost = host[HostOf[c]].lost
  /\ host'[HostOf[c]].pid \in PoolOf[HostOf[c]] \cup {NoBackend}
  /\ host[HostOf[c]].pid \in {NoBackend, host'[HostOf[c]].pid}
  /\ \/ host[HostOf[c]].reserved \subseteq host'[HostOf[c]].reserved
     \/ /\ Engaged(c) /\ lock[KeyOf[c]].owner \notin PoolOf[HostOf[c]]
        /\ host'[HostOf[c]].reserved = host[HostOf[c]].reserved \ {KeyOf[c]}
  /\ Engaged(c)' => Engaged(c) \/ KeyOf[c] \notin host[HostOf[c]].reserved
  /\ call'[c].phase # "idle" => host[HostOf[c]].state # "closed"
  /\ CallInv(c)'

\* Such a step leaves what was known of the other callbacks true.
LEMMA OthersKept ==
  ASSUME LockInv, NEW c \in Callbacks, HostSide(c), NEW d \in Callbacks \ {c}
  PROVE  CallInv(d)'
<1>1. call'[d] = call[d] /\ lock' = lock
  BY DEF HostSide, OnlyCall
<1>2. CASE HostOf[d] # HostOf[c]
  <2>1. host'[HostOf[d]] = host[HostOf[d]]
    BY <1>2 DEF HostSide, OnlyHost
  <2> QED BY <1>1, <2>1 DEF LockInv, CallInv, Reserves, AnsweredByOwn, GrantHeld,
            NoGrantLeft, Engaged, HasGrant, Without, Own, GrantBackend
<1>3. CASE HostOf[d] = HostOf[c]
  <2>1. Reserves(d)'
    BY <1>1, <1>3 DEF LockInv, CallInv, Reserves, Engaged, HostSide, OneEngaged
  <2>2. AnsweredByOwn(d)' /\ NoGrantLeft(d)'
    BY <1>1 DEF LockInv, CallInv, AnsweredByOwn, NoGrantLeft, Without, Own
  <2>3. GrantHeld(d)'
    <3>1. host'[HostOf[d]].lost = host[HostOf[d]].lost
      BY <1>3 DEF HostSide
    <3>2. host[HostOf[d]].pid \in {NoBackend, host'[HostOf[d]].pid}
      BY <1>3 DEF HostSide
    <3>3. GrantHeld(d) /\ NoBackend \notin Own(d)
      BY OnePool DEF LockInv, CallInv, Own
    <3> QED BY <1>1, <3>1, <3>2, <3>3 DEF GrantHeld, HasGrant, Own, GrantBackend
  <2> QED BY <2>1, <2>2, <2>3 DEF CallInv
<1> QED BY <1>2, <1>3

\* And preserves the invariant.
LEMMA HostSideStep ==
  ASSUME LockInv, NEW c \in Callbacks, HostSide(c)
  PROVE  LockInv'
<1>1. TypeOK'
  BY DEF LockInv, TypeOK, HostSide, OnlyCall, OnlyHost
<1>2. \A d \in Callbacks : CallInv(d)'
  <2>1. CallInv(c)'
    BY DEF HostSide
  <2> QED BY <2>1, OthersKept
<1>3. OneEngaged'
  <2>1. \A d \in Callbacks \ {c} : Engaged(d)' <=> Engaged(d)
    BY DEF HostSide, OnlyCall, Engaged
  <2>2. Engaged(c)' => Engaged(c) \/ KeyOf[c] \notin host[HostOf[c]].reserved
    BY DEF HostSide
  <2>3. \A d \in Callbacks : Engaged(d) => KeyOf[d] \in host[HostOf[d]].reserved
    BY DEF LockInv, CallInv, Reserves
  <2> QED BY <2>1, <2>2, <2>3 DEF LockInv, OneEngaged
<1>4. PidsOwn' /\ NeverLost' /\ FreeOrDeep'
  BY DEF LockInv, PidsOwn, NeverLost, FreeOrDeep, HostSide, OnlyHost
<1>5. LocksRemembered'
  <2> SUFFICES ASSUME NEW k \in Keys, lock[k] # Free
               PROVE  \E h \in Hosts : /\ lock[k].owner \in PoolOf[h]
                                       /\ host'[h].state # "closed"
                                       /\ k \in host'[h].reserved
    BY DEF LocksRemembered, HostSide
  <2>1. PICK h \in Hosts : /\ lock[k].owner \in PoolOf[h] /\ host[h].state # "closed"
                           /\ k \in host[h].reserved
    BY DEF LockInv, LocksRemembered
  <2>2. host'[h].state # "closed" /\ k \in host'[h].reserved
    BY <2>1 DEF HostSide, OnlyHost
  <2> QED BY <2>1, <2>2
<1>6. ClosedIsQuiet'
  BY DEF LockInv, ClosedIsQuiet, HostSide, OnlyCall, OnlyHost
<1> QED BY <1>1, <1>2, <1>3, <1>4, <1>5, <1>6 DEF LockInv

\* A callback that enters a phase leaves the other callbacks as they are.
LEMMA EnterFrame ==
  ASSUME TypeOK, NEW c \in Callbacks, NEW phase \in Phase, Enter(c, phase)
  PROVE  OnlyCall(c) /\ call'[c].phase = phase /\ call'[c].reply = "none"
  BY DEF TypeOK, OnlyCall, Enter, Idle, Call

\* The host's four writes, field by field.
LEMMA SameHost ==
  ASSUME TypeOK, NEW h \in Hosts, UNCHANGED host
  PROVE  OnlyHost(h)
  BY DEF TypeOK, OnlyHost

LEMMA ReserveFrame ==
  ASSUME TypeOK, NEW h \in Hosts, NEW k \in Keys, Reserve(h, k)
  PROVE  /\ OnlyHost(h)
         /\ host'[h].state = host[h].state /\ host'[h].lost = host[h].lost
         /\ host'[h].pid = host[h].pid
         /\ host'[h].reserved = host[h].reserved \cup {k}
<1>1. host'[h] = [host[h] EXCEPT !.reserved = @ \cup {k}]
  BY DEF Reserve, TypeOK
<1>2. host[h] \in HostState
  BY DEF TypeOK
<1>3. host'[h] \in HostState
  BY <1>1, <1>2 DEF HostState
<1> QED BY <1>1, <1>2, <1>3 DEF Reserve, TypeOK, OnlyHost, HostState

LEMMA RefuseFrame ==
  ASSUME TypeOK, NEW c \in Callbacks, Refuse(c)
  PROVE  LET h == HostOf[c] IN
         /\ OnlyHost(h)
         /\ host'[h].state = host[h].state /\ host'[h].lost = host[h].lost
         /\ host'[h].pid = host[h].pid /\ host'[h].reserved = host[h].reserved
<1> DEFINE h == HostOf[c]
<1>1. host'[h] = [host[h] EXCEPT !.refused = TRUE]
  BY DEF Refuse, TypeOK
<1>2. host[h] \in HostState
  BY DEF TypeOK
<1>3. host'[h] \in HostState
  BY <1>1, <1>2 DEF HostState
<1> QED BY <1>1, <1>2, <1>3 DEF Refuse, TypeOK, OnlyHost, HostState

LEMMA GoOnFrame ==
  ASSUME TypeOK, NEW c \in Callbacks, NEW phase, GoOn(c, phase)
  PROVE  LET h == HostOf[c] IN
         /\ OnlyHost(h)
         /\ host'[h].state = host[h].state /\ host'[h].lost = host[h].lost
         /\ host'[h].pid = call[c].at /\ host'[h].reserved = host[h].reserved
<1> DEFINE h == HostOf[c]
<1>1. host'[h] = [host[h] EXCEPT !.pid = call[c].at]
  BY DEF GoOn, TypeOK
<1>2. host[h] \in HostState /\ call[c].at \in Backends \cup {NoBackend}
  BY DEF TypeOK, Call
<1>3. host'[h] \in HostState
  BY <1>1, <1>2 DEF HostState
<1> QED BY <1>1, <1>2, <1>3 DEF GoOn, TypeOK, OnlyHost, HostState

LEMMA GiveBackFrame ==
  ASSUME TypeOK, NEW c \in Callbacks, GiveBack(c)
  PROVE  LET h == HostOf[c] IN
         /\ OnlyHost(h)
         /\ host'[h].state = host[h].state /\ host'[h].lost = host[h].lost
         /\ host'[h].pid = call[c].at /\ host'[h].reserved = host[h].reserved \ {KeyOf[c]}
<1> DEFINE h == HostOf[c]
<1>1. host'[h] = [host[h] EXCEPT !.reserved = @ \ {KeyOf[c]}, !.pid = call[c].at]
  BY DEF GiveBack, TypeOK
<1>2. host[h] \in HostState /\ call[c].at \in Backends \cup {NoBackend}
  BY DEF TypeOK, Call
<1>3. host'[h] \in HostState
  BY <1>1, <1>2 DEF HostState
<1> QED BY <1>1, <1>2, <1>3 DEF GiveBack, TypeOK, OnlyHost, HostState

\* The firing of a timer.
LEMMA FireStep ==
  ASSUME LockInv, NEW c \in Callbacks, Fire(c)
  PROVE  LockInv'
<1>1. OnlyCall(c) /\ call'[c].phase = "admitted"
  BY EnterFrame DEF Fire, LockInv, Phase
<1>2. OnlyHost(HostOf[c])
  BY SameHost DEF Fire, LockInv
<1>3. CallInv(c)' /\ ~Engaged(c)'
  BY <1>1 DEF CallInv, Reserves, AnsweredByOwn, GrantHeld, NoGrantLeft, Engaged, HasGrant,
    Without
<1>4. HostSide(c)
  BY <1>1, <1>2, <1>3 DEF HostSide, Fire, LockInv, PidsOwn
<1> QED BY <1>4, HostSideStep

\* A callback that ends without giving its key back: it was not admitted, its
\* lock object refused, or its unlock failed.
LEMMA EndStep ==
  ASSUME LockInv, NEW c \in Callbacks, Enter(c, "idle"), UNCHANGED lock,
         UNCHANGED host \/ Refuse(c)
  PROVE  LockInv'
<1>1. OnlyCall(c) /\ call'[c].phase = "idle"
  BY EnterFrame DEF LockInv, Phase
<1>2. /\ OnlyHost(HostOf[c])
      /\ host'[HostOf[c]].state = host[HostOf[c]].state
      /\ host'[HostOf[c]].lost = host[HostOf[c]].lost
      /\ host'[HostOf[c]].pid = host[HostOf[c]].pid
      /\ host'[HostOf[c]].reserved = host[HostOf[c]].reserved
  BY SameHost, RefuseFrame DEF LockInv
<1>3. CallInv(c)' /\ ~Engaged(c)'
  BY <1>1 DEF CallInv, Reserves, AnsweredByOwn, GrantHeld, NoGrantLeft, Engaged, HasGrant,
    Without
<1>4. HostSide(c)
  BY <1>1, <1>2, <1>3 DEF HostSide, LockInv, PidsOwn
<1> QED BY <1>4, HostSideStep

\* The start of an acquisition: a key nobody reserves is not locked by an own session.
LEMMA BeginStep ==
  ASSUME LockInv, NEW c \in Callbacks, BeginAcquire(c)
  PROVE  LockInv'
<1> DEFINE h == HostOf[c]  k == KeyOf[c]
<1>1. CASE host[h].refused \/ k \in host[h].reserved
  BY <1>1, EndStep DEF BeginAcquire
<1>2. CASE ~(host[h].refused \/ k \in host[h].reserved)
  <2>1. OnlyCall(c) /\ call'[c].phase = "asking"
    BY <1>2, EnterFrame DEF BeginAcquire, LockInv, Phase
  <2>2. /\ OnlyHost(h)
        /\ host'[h].state = host[h].state /\ host'[h].lost = host[h].lost
        /\ host'[h].pid = host[h].pid /\ host'[h].reserved = host[h].reserved \cup {k}
    BY <1>2, ReserveFrame DEF BeginAcquire, LockInv
  <2>3. lock[k].owner \notin PoolOf[h]
    BY <1>2, OnePool DEF LockInv, LocksRemembered, Free
  <2>4. UNCHANGED lock /\ host[h].state # "closed"
    BY DEF BeginAcquire, LockInv, ClosedIsQuiet
  <2>5. CallInv(c)'
    BY <2>1, <2>2, <2>3, <2>4 DEF CallInv, Reserves, AnsweredByOwn, GrantHeld, NoGrantLeft,
      Engaged, HasGrant, Without, Own
  <2>6. HostSide(c)
    BY <1>2, <2>1, <2>2, <2>4, <2>5 DEF HostSide, LockInv, PidsOwn
  <2> QED BY <2>6, HostSideStep
<1> QED BY <1>1, <1>2

\* An answer from the recorded backend, or the first, comes from the host's pool.
LEMMA PidKnown ==
  ASSUME LockInv, NEW c \in Callbacks, call[c].phase \in {"asked", "checked", "unlocked"},
         PidAgrees(c)
  PROVE  /\ host[HostOf[c]].pid \in {NoBackend, call[c].at} /\ call[c].at \in Own(c)
         /\ call[c].reply \in {"yes", "no"}
  BY DEF LockInv, TypeOK, Call, CallInv, AnsweredByOwn, PidAgrees

\* A granted callback goes on: its lock stays granted to the recorded backend.
LEMMA GoOnStep ==
  ASSUME LockInv, NEW c \in Callbacks, PidAgrees(c), UNCHANGED lock,
         \/ call[c].phase = "asked" /\ call[c].reply = "yes" /\ GoOn(c, "checking")
         \/ call[c].phase = "checked" /\ call[c].reply = "yes" /\ GoOn(c, "body")
  PROVE  LockInv'
<1> DEFINE h == HostOf[c]
<1>1. OnlyCall(c) /\ call'[c].phase \in {"checking", "body"}
  BY EnterFrame DEF GoOn, LockInv, Phase
<1>2. /\ OnlyHost(h)
      /\ host'[h].state = host[h].state /\ host'[h].lost = host[h].lost
      /\ host'[h].pid = call[c].at /\ host'[h].reserved = host[h].reserved
  BY GoOnFrame DEF LockInv
<1>3. host[h].pid \in {NoBackend, call[c].at} /\ call[c].at \in PoolOf[h]
  BY PidKnown DEF Own
<1>4. Engaged(c) /\ HasGrant(c) /\ host[h].state # "closed"
  BY DEF Engaged, HasGrant, LockInv, ClosedIsQuiet
<1>5. ~host[h].lost => lock[KeyOf[c]] = [owner |-> call[c].at, depth |-> 1]
  <2>1. GrantHeld(c) /\ NoBackend \notin PoolOf[h]
    BY OnePool DEF LockInv, CallInv
  <2>2. GrantBackend(c) \in {call[c].at, host[h].pid}
    BY DEF GrantBackend
  <2> QED BY <1>3, <1>4, <2>1, <2>2 DEF GrantHeld, Own
<1>6. CallInv(c)'
  <2>1. Reserves(c)'
    BY <1>2, <1>4 DEF LockInv, CallInv, Reserves
  <2>2. AnsweredByOwn(c)' /\ NoGrantLeft(c)'
    BY <1>1 DEF AnsweredByOwn, NoGrantLeft, Without
  <2>3. GrantHeld(c)'
    BY <1>1, <1>2, <1>3, <1>5 DEF GrantHeld, GrantBackend, Own
  <2> QED BY <2>1, <2>2, <2>3 DEF CallInv
<1>7. HostSide(c)
  BY <1>1, <1>2, <1>3, <1>4, <1>6 DEF HostSide
<1> QED BY <1>7, HostSideStep

\* A key is given back only when the answer says the session does not have its lock.
LEMMA GiveBackStep ==
  ASSUME LockInv, NEW c \in Callbacks, PidAgrees(c), UNCHANGED lock, GiveBack(c),
         \/ call[c].phase = "asked" /\ call[c].reply = "no"
         \/ call[c].phase = "unlocked" /\ call[c].reply = "yes"
  PROVE  LockInv'
<1> DEFINE h == HostOf[c]
<1>1. OnlyCall(c) /\ call'[c].phase = "idle"
  BY EnterFrame DEF GiveBack, LockInv, Phase
<1>2. /\ OnlyHost(h)
      /\ host'[h].state = host[h].state /\ host'[h].lost = host[h].lost
      /\ host'[h].pid = call[c].at /\ host'[h].reserved = host[h].reserved \ {KeyOf[c]}
  BY GiveBackFrame DEF LockInv
<1>3. host[h].pid \in {NoBackend, call[c].at} /\ call[c].at \in PoolOf[h]
  BY PidKnown DEF Own
<1>4. Engaged(c) /\ lock[KeyOf[c]].owner \notin PoolOf[h]
  <2>1. Engaged(c) /\ Without(c)
    BY DEF Engaged, Without
  <2> QED BY <2>1 DEF LockInv, CallInv, NoGrantLeft, Own
<1>5. CallInv(c)' /\ ~Engaged(c)'
  BY <1>1 DEF CallInv, Reserves, AnsweredByOwn, GrantHeld, NoGrantLeft, Engaged, HasGrant,
    Without
<1>6. HostSide(c)
  BY <1>1, <1>2, <1>3, <1>4, <1>5 DEF HostSide
<1> QED BY <1>6, HostSideStep

\* The host handles the answer to its first statement.
LEMMA TriedStep ==
  ASSUME LockInv, NEW c \in Callbacks, Tried(c)
  PROVE  LockInv'
<1>1. CASE ~PidAgrees(c)
  BY <1>1, EndStep DEF Tried, Refuse
<1>2. CASE PidAgrees(c) /\ call[c].reply = "no"
  BY <1>2, GiveBackStep DEF Tried
<1>3. CASE PidAgrees(c) /\ call[c].reply # "no"
  <2>1. call[c].reply = "yes"
    BY <1>3, PidKnown DEF Tried
  <2> QED BY <1>3, <2>1, GoOnStep DEF Tried
<1> QED BY <1>1, <1>2, <1>3

\* The host handles the answer to its second statement.
LEMMA CheckedStep ==
  ASSUME LockInv, NEW c \in Callbacks, Checked(c)
  PROVE  LockInv'
<1> DEFINE no == ~PidAgrees(c) \/ call[c].reply = "no" \/ host[HostOf[c]].refused
<1>1. CASE no
  BY <1>1, EndStep DEF Checked, Refuse
<1>2. CASE ~no
  <2>1. call[c].reply = "yes"
    BY <1>2, PidKnown DEF Checked
  <2> QED BY <1>2, <2>1, GoOnStep DEF Checked
<1> QED BY <1>1, <1>2

\* The body ends and the release is sent.
LEMMA BodyEndsStep ==
  ASSUME LockInv, NEW c \in Callbacks, BodyEnds(c)
  PROVE  LockInv'
<1>1. OnlyCall(c) /\ call'[c].phase = "unlocking"
  BY EnterFrame DEF BodyEnds, LockInv, Phase
<1>2. OnlyHost(HostOf[c]) /\ host[HostOf[c]].state # "closed"
  BY SameHost DEF BodyEnds, LockInv, ClosedIsQuiet
<1>3. Engaged(c) /\ HasGrant(c)
  BY DEF BodyEnds, Engaged, HasGrant
<1>4. CallInv(c)'
  BY <1>1, <1>3 DEF BodyEnds, LockInv, CallInv, Reserves, AnsweredByOwn, GrantHeld,
    NoGrantLeft, Without, Own, GrantBackend
<1>5. HostSide(c)
  BY <1>1, <1>2, <1>3, <1>4 DEF HostSide, BodyEnds, LockInv, PidsOwn
<1> QED BY <1>5, HostSideStep

\* The host handles the answer to its unlock.
LEMMA ReleasedStep ==
  ASSUME LockInv, NEW c \in Callbacks, Released(c)
  PROVE  LockInv'
<1>1. CASE call[c].reply = "error"
  BY <1>1, EndStep DEF Released
<1>2. CASE call[c].reply # "error" /\ (~PidAgrees(c) \/ call[c].reply = "no")
  BY <1>2, EndStep DEF Released, Refuse
<1>3. CASE PidAgrees(c) /\ call[c].reply # "no"
  <2>1. call[c].reply = "yes"
    BY <1>3, PidKnown DEF Released
  <2> QED BY <1>3, <2>1, GiveBackStep DEF Released
<1> QED BY <1>1, <1>2, <1>3 DEF PidAgrees

-----------------------------------------------------------------------------
(***************************************************************************)
(* The database's side: one statement executes, the host has not seen it.  *)
(***************************************************************************)

\* What the statement of c may do to the locks: nothing, or grant its free key to
\* the own backend b, or free its key from the own backend b.
DatabaseSide(c, b) ==
  LET k == KeyOf[c] IN
  \/ UNCHANGED lock
  \/ /\ call[c].phase = "asking" /\ lock[k] = Free
     /\ lock' = [lock EXCEPT ![k] = [owner |-> b, depth |-> 1]]
  \/ /\ call[c].phase = "unlocking" /\ lock[k].owner = b
     /\ lock' = [lock EXCEPT ![k] = Free]

\* A granted lock is never granted twice, so one unlock frees it.
LEMMA EffectKind ==
  ASSUME LockInv, NEW c \in Callbacks, NEW b \in Own(c), lock' = Effect(c, b)
  PROVE  DatabaseSide(c, b)
<1> DEFINE k == KeyOf[c]
<1>1. CASE call[c].phase = "asking"
  <2>1. lock[k].owner # b
    BY <1>1 DEF LockInv, CallInv, NoGrantLeft, Without
  <2>2. CASE lock[k] = Free
    BY <1>1, <2>1, <2>2 DEF LockInv, TypeOK, Effect, TryLock, Grantable, DatabaseSide, Free
  <2>3. CASE lock[k] # Free
    BY <1>1, <2>1, <2>3 DEF Effect, TryLock, Grantable, DatabaseSide
  <2> QED BY <2>2, <2>3
<1>2. CASE call[c].phase = "unlocking"
  <2>1. CASE ~Unlockable(c, b)
    BY <1>2, <2>1 DEF Effect, Unlock, DatabaseSide
  <2>2. CASE Unlockable(c, b)
    <3>1. lock[k].owner = b /\ lock[k].depth = 1
      BY <2>2, OnePool DEF Unlockable, LockInv, FreeOrDeep, Free, Own
    <3> QED BY <1>2, <2>2, <3>1 DEF LockInv, TypeOK, Effect, Unlock, DatabaseSide
  <2> QED BY <2>1, <2>2
<1>3. CASE call[c].phase \notin {"asking", "unlocking"}
  BY <1>3 DEF Effect, DatabaseSide
<1> QED BY <1>1, <1>2, <1>3

\* A statement's effect on the locks of the other callbacks: none that they rely on.
LEMMA OthersUntouched ==
  ASSUME LockInv, NEW c \in Callbacks, NEW b \in Own(c), DatabaseSide(c, b), UNCHANGED host,
         Engaged(c), NEW d \in Callbacks \ {c}, call'[d] = call[d]
  PROVE  CallInv(d)'
<1>1. CallInv(d)
  BY DEF LockInv
<1>2. Reserves(d)' /\ AnsweredByOwn(d)'
  BY <1>1 DEF CallInv, Reserves, AnsweredByOwn, Engaged, Own
<1>3. CASE lock'[KeyOf[d]] = lock[KeyOf[d]]
  BY <1>1, <1>2, <1>3 DEF CallInv, GrantHeld, NoGrantLeft, HasGrant, Without, Own, GrantBackend
<1>4. CASE lock'[KeyOf[d]] # lock[KeyOf[d]]
  <2>1. KeyOf[d] = KeyOf[c] /\ lock'[KeyOf[d]].owner \in {b, NoBackend}
    BY <1>4 DEF DatabaseSide, LockInv, TypeOK, Free
  <2>2. lock[KeyOf[d]].owner \in {b, NoBackend}
    BY <1>4, <2>1 DEF DatabaseSide, Free
  <2>3. CASE Engaged(d)
    <3>1. HostOf[d] # HostOf[c]
      BY <2>1, <2>3 DEF LockInv, OneEngaged
    <3>2. b \notin Own(d) /\ NoBackend \notin Own(d)
      BY <3>1, OnePool DEF Own
    <3>3. GrantHeld(d)'
      BY <1>1, <2>2, <3>2 DEF CallInv, GrantHeld, HasGrant, Own, GrantBackend
    <3>4. NoGrantLeft(d)'
      BY <2>1, <3>2 DEF NoGrantLeft, Own
    <3> QED BY <1>2, <3>3, <3>4 DEF CallInv
  <2>4. CASE ~Engaged(d)
    BY <1>2, <2>4 DEF CallInv, GrantHeld, NoGrantLeft, Engaged, HasGrant, Without
  <2> QED BY <2>3, <2>4
<1> QED BY <1>3, <1>4

\* The answer tells the callback the truth about its lock, or nothing.
LEMMA AnswerTrue ==
  ASSUME LockInv, NEW c \in Callbacks, Execute(c)
  PROVE  \E b \in Own(c) :
           /\ DatabaseSide(c, b)
           /\ call'[c].at = b /\ call'[c].reply \in {"yes", "no", "error"}
           /\ call[c].phase = "asking" =>
                /\ call'[c].phase = "asked"
                /\ call'[c].reply = "yes" =>
                     lock'[KeyOf[c]] = [owner |-> b, depth |-> 1]
                /\ call'[c].reply = "no" => UNCHANGED lock
           /\ call[c].phase = "checking" => call'[c].phase = "checked" /\ UNCHANGED lock
           /\ call[c].phase = "unlocking" =>
                /\ call'[c].phase = "unlocked"
                /\ call'[c].reply = "yes" => lock'[KeyOf[c]] = Free
<1> DEFINE k == KeyOf[c]
<1>1. PICK b \in Own(c), reply \in {"yes", "no", "error"} :
        /\ \/ /\ reply = IF Granted(c, b) THEN "yes" ELSE "no"
              /\ lock' = Effect(c, b)
           \/ reply = "error" /\ lock' \in {lock, Effect(c, b)}
        /\ call' = [call EXCEPT ![c] = [phase |-> Answered[@.phase], reply |-> reply, at |-> b]]
  BY DEF Execute, Own
<1>2. call'[c] = [phase |-> Answered[call[c].phase], reply |-> reply, at |-> b]
  BY <1>1 DEF LockInv, TypeOK
<1>3. DatabaseSide(c, b)
  BY <1>1, EffectKind DEF DatabaseSide
<1>4. CASE call[c].phase = "asking"
  <2>1. lock[k].owner # b
    BY <1>4 DEF LockInv, CallInv, NoGrantLeft, Without
  <2>2. reply = "yes" => lock'[k] = [owner |-> b, depth |-> 1]
    BY <1>1, <1>4, <2>1 DEF Granted, Grantable, Effect, TryLock, Free, LockInv, TypeOK
  <2>3. reply = "no" => UNCHANGED lock
    BY <1>1, <1>4 DEF Granted, Grantable, Effect, TryLock
  <2> QED BY <1>2, <1>3, <1>4, <2>2, <2>3 DEF Answered
<1>5. CASE call[c].phase = "checking"
  BY <1>1, <1>2, <1>3, <1>5 DEF Answered, Effect
<1>6. CASE call[c].phase = "unlocking"
  <2>1. reply = "yes" => lock'[k] = Free
    <3> SUFFICES ASSUME reply = "yes" PROVE lock'[k] = Free
      OBVIOUS
    <3>1. Unlockable(c, b) /\ lock' = Unlock(c, b)
      BY <1>1, <1>6 DEF Granted, Effect
    <3>2. lock[k].owner = b /\ lock[k].depth = 1
      BY <3>1, OnePool DEF Unlockable, LockInv, FreeOrDeep, Free, Own
    <3> QED BY <3>1, <3>2 DEF Unlock, LockInv, TypeOK
  <2> QED BY <1>2, <1>3, <1>6, <2>1 DEF Answered
<1> QED BY <1>4, <1>5, <1>6 DEF Execute, Answered

\* The database executes a statement.
LEMMA ExecuteStep ==
  ASSUME LockInv, NEW c \in Callbacks, Execute(c)
  PROVE  LockInv'
<1> DEFINE k == KeyOf[c]
<1>1. PICK b \in Own(c) :
        /\ DatabaseSide(c, b)
        /\ call'[c].at = b /\ call'[c].reply \in {"yes", "no", "error"}
        /\ call[c].phase = "asking" =>
             /\ call'[c].phase = "asked"
             /\ call'[c].reply = "yes" => lock'[k] = [owner |-> b, depth |-> 1]
             /\ call'[c].reply = "no" => UNCHANGED lock
        /\ call[c].phase = "checking" => call'[c].phase = "checked" /\ UNCHANGED lock
        /\ call[c].phase = "unlocking" =>
             /\ call'[c].phase = "unlocked"
             /\ call'[c].reply = "yes" => lock'[k] = Free
  BY AnswerTrue
<1>2. UNCHANGED host /\ call[c].phase \in {"asking", "checking", "unlocking"}
  BY DEF Execute, Answered
<1>3. Engaged(c) /\ host[HostOf[c]].state # "closed" /\ k \in host[HostOf[c]].reserved
  BY <1>2 DEF Engaged, LockInv, ClosedIsQuiet, CallInv, Reserves
<1>4. OnlyCall(c)
  BY DEF Execute, LockInv, TypeOK, OnlyCall, Call, Phase, Answered, Own
<1>5. call'[c].phase \in {"asked", "checked", "unlocked"} /\ Engaged(c)'
  BY <1>1, <1>2 DEF Engaged
<1>6. CallInv(c)'
  <2>1. Reserves(c)' /\ AnsweredByOwn(c)'
    BY <1>1, <1>2, <1>3 DEF Reserves, AnsweredByOwn, Own
  <2>2. GrantHeld(c) /\ NoGrantLeft(c) /\ NoBackend \notin Own(c)
    BY OnePool DEF LockInv, CallInv, Own
  <2>3. CASE call[c].phase = "asking"
    BY <1>1, <2>1, <2>2, <2>3 DEF CallInv, GrantHeld, NoGrantLeft, HasGrant, Without, Own,
      GrantBackend
  <2>4. CASE call[c].phase = "checking"
    BY <1>1, <1>2, <2>1, <2>2, <2>4 DEF CallInv, GrantHeld, NoGrantLeft, HasGrant, Without,
      Own, GrantBackend
  <2>5. CASE call[c].phase = "unlocking"
    BY <1>1, <2>1, <2>2, <2>5 DEF CallInv, GrantHeld, NoGrantLeft, HasGrant, Without, Own, Free
  <2> QED BY <1>2, <2>3, <2>4, <2>5
<1>7. \A d \in Callbacks : CallInv(d)'
  BY <1>1, <1>2, <1>3, <1>4, <1>6, OthersUntouched DEF OnlyCall
<1>8. TypeOK' /\ FreeOrDeep'
  <2>1. [owner |-> b, depth |-> 1] \in Lock /\ Free \in Lock
    BY DEF Lock, Free, Own
  <2>2. lock' \in [Keys -> Lock]
    BY <1>1, <2>1 DEF LockInv, TypeOK, DatabaseSide
  <2>3. \A j \in Keys : lock'[j] \in {lock[j], Free, [owner |-> b, depth |-> 1]}
    BY <1>1 DEF LockInv, TypeOK, DatabaseSide
  <2> QED BY <1>2, <1>4, <2>2, <2>3 DEF LockInv, TypeOK, FreeOrDeep, OnlyCall
<1>9. OneEngaged' /\ PidsOwn' /\ NeverLost' /\ ClosedIsQuiet'
  BY <1>2, <1>3, <1>4 DEF LockInv, OneEngaged, PidsOwn, NeverLost, ClosedIsQuiet, OnlyCall,
    Engaged
<1>10. LocksRemembered'
  <2> SUFFICES ASSUME NEW j \in Keys, lock'[j] # Free
               PROVE  \E h \in Hosts : /\ lock'[j].owner \in PoolOf[h]
                                       /\ host[h].state # "closed"
                                       /\ j \in host[h].reserved
    BY <1>2 DEF LocksRemembered
  <2>1. CASE lock'[j] = lock[j]
    BY <2>1 DEF LockInv, LocksRemembered
  <2>2. CASE lock'[j] # lock[j]
    <3>1. j = k /\ lock'[j].owner = b
      BY <1>1, <2>2 DEF DatabaseSide, LockInv, TypeOK
    <3> QED BY <1>3, <3>1 DEF Own
  <2> QED BY <2>1, <2>2
<1> QED BY <1>7, <1>8, <1>9, <1>10 DEF LockInv

-----------------------------------------------------------------------------
(***************************************************************************)
(* The hosts: what they keep when a session ends, and the invariant.       *)
(***************************************************************************)

\* The sessions of host h end; a callback of h that is not ended by it has lost its
\* lock, and the host is marked so.
HostEnds(h) ==
  /\ SessionEnds(h) /\ OnlyHost(h)
  /\ host'[h].pid \in {host[h].pid, NoBackend}
  /\ call' \in [Callbacks -> Call]
  /\ \A d \in Callbacks : call'[d] \in {call[d], Idle}
  /\ \A d \in Callbacks : HostOf[d] # h => call'[d] = call[d]
  /\ \A d \in Callbacks : HostOf[d] = h /\ Engaged(d)' =>
       host'[h].lost /\ host'[h].reserved = host[h].reserved
  /\ host'[h].state = "closed" => \A d \in Callbacks : HostOf[d] = h => call'[d].phase = "idle"
  /\ host[h].state = "closed" => host'[h].state = "closed"
  /\ host'[h].lost => SessionLoss

\* What is known of every callback survives the end of a host's sessions.
LEMMA CallsSurvive ==
  ASSUME LockInv, NEW h \in Hosts, HostEnds(h), NEW d \in Callbacks
  PROVE  CallInv(d)'
<1>1. /\ call'[d] \in {call[d], Idle}
      /\ lock'[KeyOf[d]] = IF lock[KeyOf[d]].owner \in PoolOf[h] THEN Free ELSE lock[KeyOf[d]]
  BY DEF HostEnds, SessionEnds
<1>2. CallInv(d) /\ NoBackend \notin Own(d)
  BY OnePool DEF LockInv, Own
<1>3. AnsweredByOwn(d)' /\ NoGrantLeft(d)'
  BY <1>1, <1>2 DEF CallInv, AnsweredByOwn, NoGrantLeft, Without, Own, Free, Idle
<1>4. CASE HostOf[d] # h
  <2>1. host'[HostOf[d]] = host[HostOf[d]] /\ call'[d] = call[d]
    BY <1>4 DEF HostEnds, OnlyHost
  <2>2. Own(d) \cap PoolOf[h] = {}
    BY <1>4, OnePool DEF Own
  <2> QED BY <1>1, <1>2, <1>3, <2>1, <2>2 DEF CallInv, Reserves, GrantHeld, HasGrant, Engaged,
            Own, GrantBackend
<1>5. CASE HostOf[d] = h
  <2>1. Reserves(d)'
    BY <1>1, <1>2, <1>5 DEF HostEnds, CallInv, Reserves, Engaged, Idle
  <2>2. HasGrant(d)' => Engaged(d)'
    BY DEF HasGrant, Engaged
  <2>3. GrantHeld(d)'
    BY <1>5, <2>2 DEF HostEnds, GrantHeld
  <2> QED BY <1>3, <2>1, <2>3 DEF CallInv
<1> QED BY <1>4, <1>5

\* The end of a host's sessions keeps the invariant: the locks go with them.
LEMMA HostEndsStep ==
  ASSUME LockInv, NEW h \in Hosts, HostEnds(h)
  PROVE  LockInv'
<1>1. \A d \in Callbacks : CallInv(d)'
  BY CallsSurvive
<1>2. \A k \in Keys : lock'[k] = IF lock[k].owner \in PoolOf[h] THEN Free ELSE lock[k]
  BY DEF HostEnds, SessionEnds
<1>3. TypeOK' /\ FreeOrDeep'
  <2>1. Free \in Lock /\ lock' = [k \in Keys |-> lock'[k]]
    BY DEF Lock, Free, HostEnds, SessionEnds
  <2>2. lock' \in [Keys -> Lock]
    BY <1>2, <2>1 DEF LockInv, TypeOK
  <2> QED BY <1>2, <2>2 DEF LockInv, TypeOK, FreeOrDeep, HostEnds, OnlyHost
<1>4. OneEngaged'
  <2>1. \A d \in Callbacks : Engaged(d)' => Engaged(d)
    BY DEF HostEnds, Engaged, Idle
  <2> QED BY <2>1 DEF LockInv, OneEngaged
<1>5. PidsOwn' /\ NeverLost'
  BY DEF LockInv, PidsOwn, NeverLost, HostEnds, OnlyHost
<1>6. ClosedIsQuiet'
  BY DEF LockInv, ClosedIsQuiet, HostEnds, OnlyHost
<1>7. LocksRemembered'
  <2> SUFFICES ASSUME NEW k \in Keys, lock'[k] # Free
               PROVE  \E g \in Hosts : /\ lock'[k].owner \in PoolOf[g]
                                       /\ host'[g].state # "closed"
                                       /\ k \in host'[g].reserved
    BY DEF LocksRemembered
  <2>1. lock'[k] = lock[k] /\ lock[k].owner \notin PoolOf[h]
    BY <1>2
  <2>2. PICK g \in Hosts : /\ lock[k].owner \in PoolOf[g] /\ host[g].state # "closed"
                           /\ k \in host[g].reserved
    BY <2>1 DEF LockInv, LocksRemembered
  <2>3. host'[g] = host[g]
    BY <2>1, <2>2 DEF HostEnds, OnlyHost
  <2> QED BY <2>1, <2>2, <2>3
<1> QED BY <1>1, <1>3, <1>4, <1>5, <1>6, <1>7 DEF LockInv

\* The lock's session is closed after the drain.
LEMMA CloseStep ==
  ASSUME LockInv, NEW h \in Hosts, Close(h)
  PROVE  LockInv'
<1>1. host'[h] = [host[h] EXCEPT !.state = "closed"] /\ host[h] \in HostState
  BY DEF Close, LockInv, TypeOK
<1>2. OnlyHost(h)
  <2>1. host'[h] \in HostState
    BY <1>1 DEF HostState
  <2> QED BY <2>1 DEF Close, LockInv, TypeOK, OnlyHost
<1>3. host'[h].pid = host[h].pid /\ host'[h].lost = host[h].lost
  BY <1>1 DEF HostState
<1>4. \A d \in Callbacks : HostOf[d] = h => call'[d].phase = "idle"
  BY DEF Close, Drained, OnHost
<1>5. HostEnds(h)
  BY <1>2, <1>3, <1>4 DEF HostEnds, Close, LockInv, TypeOK, NeverLost, Engaged
<1> QED BY <1>5, HostEndsStep

\* The process dies.
LEMMA CrashStep ==
  ASSUME LockInv, NEW h \in Hosts, Crash(h)
  PROVE  LockInv'
<1>1. host'[h] = [Started EXCEPT !.state = "closed"]
  BY DEF Crash, LockInv, TypeOK
<1>2. host'[h] \in HostState /\ host'[h].pid = NoBackend /\ ~host'[h].lost
  BY <1>1 DEF Started, HostState
<1>3. OnlyHost(h)
  BY <1>2 DEF Crash, LockInv, TypeOK, OnlyHost
<1>4. call' \in [Callbacks -> Call]
  BY DEF Crash, LockInv, TypeOK, Idle, Call, Phase
<1>5. \A d \in Callbacks : HostOf[d] = h => call'[d] = Idle
  BY DEF Crash
<1>6. HostEnds(h)
  BY <1>2, <1>3, <1>4, <1>5 DEF HostEnds, Crash, Engaged, Idle
<1> QED BY <1>6, HostEndsStep

\* The database ends the session behind the host's back.
LEMMA LoseSessionStep ==
  ASSUME LockInv, NEW h \in Hosts, LoseSession(h)
  PROVE  LockInv'
<1>1. host'[h] = [host[h] EXCEPT !.lost = TRUE] /\ host[h] \in HostState
  BY DEF LoseSession, LockInv, TypeOK
<1>2. /\ host'[h] \in HostState /\ host'[h].pid = host[h].pid /\ host'[h].lost
      /\ host'[h].reserved = host[h].reserved /\ host'[h].state = host[h].state
  BY <1>1 DEF HostState
<1>3. OnlyHost(h)
  BY <1>2 DEF LoseSession, LockInv, TypeOK, OnlyHost
<1>4. HostEnds(h)
  BY <1>2, <1>3 DEF HostEnds, LoseSession, LockInv, TypeOK
<1> QED BY <1>4, HostEndsStep

\* A host is told to stop.
LEMMA StopStep ==
  ASSUME LockInv, NEW h \in Hosts, Stop(h)
  PROVE  LockInv'
<1>1. host'[h] = [host[h] EXCEPT !.state = "draining"] /\ host[h] \in HostState
  BY DEF Stop, LockInv, TypeOK
<1>2. /\ host'[h] \in HostState /\ host'[h].pid = host[h].pid /\ host'[h].lost = host[h].lost
      /\ host'[h].reserved = host[h].reserved /\ host'[h].state = "draining"
  BY <1>1 DEF HostState
<1>3. \A g \in Hosts \ {h} : host'[g] = host[g]
  BY DEF Stop, LockInv, TypeOK
<1>4. host' \in [Hosts -> HostState] /\ UNCHANGED <<lock, call>>
  BY <1>2 DEF Stop, LockInv, TypeOK
<1>5. \A g \in Hosts : /\ host'[g].pid = host[g].pid /\ host'[g].lost = host[g].lost
                       /\ host'[g].reserved = host[g].reserved
                       /\ host'[g].state = "closed" => host[g].state = "closed"
                       /\ host[g].state # "closed" => host'[g].state # "closed"
  BY <1>2, <1>3
<1>6. \A d \in Callbacks : CallInv(d)'
  BY <1>4, <1>5 DEF LockInv, CallInv, Reserves, AnsweredByOwn, GrantHeld, NoGrantLeft, Engaged,
    HasGrant, Without, Own, GrantBackend
<1>7. TypeOK' /\ OneEngaged' /\ PidsOwn' /\ FreeOrDeep' /\ NeverLost'
  BY <1>4, <1>5 DEF LockInv, TypeOK, OneEngaged, PidsOwn, FreeOrDeep, NeverLost, Engaged
<1>8. LocksRemembered' /\ ClosedIsQuiet'
  BY <1>4, <1>5 DEF LockInv, LocksRemembered, ClosedIsQuiet
<1> QED BY <1>6, <1>7, <1>8 DEF LockInv

\* A closed host starts again; nothing was left of it.
LEMMA RestartStep ==
  ASSUME LockInv, NEW h \in Hosts, Restart(h)
  PROVE  LockInv'
<1>1. /\ host'[h] = Started /\ host[h].state = "closed"
      /\ \A g \in Hosts \ {h} : host'[g] = host[g]
  BY DEF Restart, LockInv, TypeOK
<1>2. Started \in HostState
  BY DEF Started, HostState
<1>3. host' \in [Hosts -> HostState] /\ UNCHANGED <<lock, call>>
  BY <1>2 DEF Restart, LockInv, TypeOK
<1>4. \A d \in Callbacks : HostOf[d] = h => call[d].phase = "idle"
  BY <1>1 DEF LockInv, ClosedIsQuiet
<1>5. \A d \in Callbacks : CallInv(d)'
  <2> TAKE d \in Callbacks
  <2>1. CallInv(d)
    BY DEF LockInv
  <2>2. CASE HostOf[d] = h
    BY <1>3, <1>4, <2>2 DEF CallInv, Reserves, AnsweredByOwn, GrantHeld, NoGrantLeft, Engaged,
      HasGrant, Without
  <2>3. CASE HostOf[d] # h
    BY <1>1, <1>3, <2>1, <2>3 DEF CallInv, Reserves, AnsweredByOwn, GrantHeld, NoGrantLeft,
      Engaged, HasGrant, Without, Own, GrantBackend
  <2> QED BY <2>2, <2>3
<1>6. TypeOK' /\ OneEngaged' /\ FreeOrDeep'
  BY <1>3 DEF LockInv, TypeOK, OneEngaged, FreeOrDeep, Engaged
<1>7. PidsOwn' /\ NeverLost'
  BY <1>1 DEF LockInv, PidsOwn, NeverLost, Started
<1>8. LocksRemembered' /\ ClosedIsQuiet'
  BY <1>1, <1>3, <1>4 DEF LockInv, LocksRemembered, ClosedIsQuiet
<1> QED BY <1>5, <1>6, <1>7, <1>8 DEF LockInv

\* Every step keeps the invariant.
LEMMA NextLock == LockInv /\ [Next]_vars => LockInv'
<1> SUFFICES ASSUME LockInv, [Next]_vars PROVE LockInv'
  OBVIOUS
<1>1. CASE \E c \in Callbacks : Fire(c) \/ CallbackStep(c)
  BY <1>1, FireStep, BeginStep, ExecuteStep, TriedStep, CheckedStep, BodyEndsStep,
    ReleasedStep DEF CallbackStep
<1>2. CASE \E h \in Hosts : Stop(h) \/ Close(h) \/ Restart(h) \/ Crash(h) \/ LoseSession(h)
  BY <1>2, StopStep, CloseStep, RestartStep, CrashStep, LoseSessionStep
<1>3. CASE UNCHANGED vars
  BY <1>3 DEF vars, LockInv, TypeOK, OneEngaged, CallInv, Reserves, AnsweredByOwn, GrantHeld,
    NoGrantLeft, PidsOwn, FreeOrDeep, NeverLost, LocksRemembered, ClosedIsQuiet, Engaged,
    HasGrant, Without, Own, GrantBackend
<1> QED BY <1>1, <1>2, <1>3 DEF Next

\* The invariant holds in every reachable state.
LEMMA LockInvariant == Spec => []LockInv
  BY InitLock, NextLock, PTL DEF Spec

-----------------------------------------------------------------------------
(***************************************************************************)
(* The theorems.                                                           *)
(***************************************************************************)

\* The state of the locks, the hosts and the callbacks stays well formed; a lock is
\* never granted twice over, so that one unlock would not free it.
THEOREM TypeCorrect == Spec => []TypeOK
  BY LockInvariant, PTL DEF LockInv

\* Whatever statements fail, hosts crash or sessions are lost, a lock that the server
\* holds is remembered by a live host (the reserved keys of advisoryLock.ts).
THEOREM RememberedCorrect == Spec => []LocksRemembered
  BY LockInvariant, PTL DEF LockInv

\* close() ends the session only after every admitted callback (stopAll's drain).
THEOREM ClosedCorrect == Spec => []ClosedIsQuiet
  BY LockInvariant, PTL DEF LockInv

\* A body has its lock: held once, by the backend its release will address.
LEMMA BodyHasLock == LockInv => SessionHasLock
  BY DEF LockInv, CallInv, GrantHeld, GrantBackend, HasGrant, SessionHasLock, InBody, LostSession

\* Unless the database ended its session, a running body has the lock that its release
\* will address, exactly once.
THEOREM SessionHasLockCorrect == Spec => []SessionHasLock
  BY LockInvariant, BodyHasLock, PTL

\* Two bodies of one key are one key engaged twice on a host, which the reservation
\* excludes, or one lock held by the backends of two hosts.
LEMMA BodiesExclude == LockInv => OnlyLossDoublesBody
<1> SUFFICES ASSUME LockInv, NEW c \in Callbacks, NEW d \in Callbacks,
                    InBody(c), InBody(d), KeyOf[c] = KeyOf[d], c # d
             PROVE  HostOf[c] # HostOf[d] /\ (LostSession(c) \/ LostSession(d))
  BY DEF OnlyLossDoublesBody
<1>1. Engaged(c) /\ HasGrant(c) /\ Engaged(d) /\ HasGrant(d)
  BY DEF InBody, Engaged, HasGrant
<1>2. HostOf[c] # HostOf[d]
  BY <1>1 DEF LockInv, OneEngaged
<1>3. ASSUME ~LostSession(c), ~LostSession(d) PROVE FALSE
  <2>1. GrantHeld(c) /\ GrantHeld(d)
    BY DEF LockInv, CallInv
  <2>2. /\ lock[KeyOf[c]].owner = GrantBackend(c) /\ GrantBackend(c) \in Own(c)
        /\ lock[KeyOf[d]].owner = GrantBackend(d) /\ GrantBackend(d) \in Own(d)
    BY <1>1, <1>3, <2>1 DEF GrantHeld, LostSession
  <2> QED BY <1>2, <2>2, OnePool DEF Own
<1> QED BY <1>2, <1>3

\* Mutual exclusion of job bodies, on one host and across hosts, for colliding keys,
\* failed statements, restarts and crashes: only a session that the database ended
\* lets a second host in.
THEOREM ExclusionCorrect == Spec => []OnlyLossDoublesBody
  BY LockInvariant, BodiesExclude, PTL

\* So no job is run twice at once while the database keeps its sessions.
THEOREM MutualExclusion ==
  ASSUME ~SessionLoss
  PROVE  Spec => []OneBodyPerKey
<1>1. LockInv => OneBodyPerKey
  BY BodiesExclude DEF LockInv, NeverLost, OnlyLossDoublesBody, OneBodyPerKey, LostSession
<1> QED BY <1>1, LockInvariant, PTL

\* A lock object that has refused starts no body: the answer to a second statement
\* that comes after the refusal is not enough.
THEOREM RefusedAdmitsNothingCorrect == Spec => RefusedAdmitsNothing
<1>1. TypeOK /\ [Next]_vars =>
        [\A c \in Callbacks : host[HostOf[c]].refused => ~(~InBody(c) /\ InBody(c)')]_vars
  <2> SUFFICES ASSUME TypeOK, [Next]_vars, NEW c \in Callbacks, host[HostOf[c]].refused,
                      ~InBody(c), InBody(c)'
               PROVE  FALSE
    OBVIOUS
  <2>1. \A d \in Callbacks, phase \in Phase : Enter(d, phase) =>
          call'[c].phase \in {phase, call[c].phase} /\ (d # c => call'[c] = call[c])
    BY EnterFrame DEF OnlyCall
  <2>2. PICK d \in Callbacks : d = c /\ Checked(d)
    <3>1. ASSUME NEW d \in Callbacks, Fire(d) \/ CallbackStep(d), ~Checked(d) PROVE FALSE
      <4>1. ASSUME NEW phase \in Phase \ {"body"}, Enter(d, phase) PROVE FALSE
        BY <2>1, <4>1 DEF InBody
      <4>2. CASE Fire(d) \/ BeginAcquire(d) \/ BodyEnds(d)
        BY <4>1, <4>2 DEF Fire, BeginAcquire, BodyEnds, Phase
      <4>3. CASE Tried(d) \/ Released(d)
        BY <4>1, <4>3 DEF Tried, Released, Refuse, GiveBack, GoOn, Phase
      <4>4. CASE Execute(d)
        BY <4>4 DEF Execute, Answered, TypeOK, InBody
      <4> QED BY <3>1, <4>2, <4>3, <4>4 DEF CallbackStep
    <3>2. \A d \in Callbacks : Checked(d) => d = c
      BY <2>1 DEF Checked, Refuse, GoOn, Phase, InBody
    <3>3. ASSUME NEW h \in Hosts, Crash(h) PROVE FALSE
      BY <3>3 DEF Crash, InBody, Idle
    <3>4. CASE UNCHANGED call
      BY <3>4 DEF InBody
    <3> QED BY <3>1, <3>2, <3>3, <3>4 DEF Next, Stop, Close, Restart, LoseSession, vars
  <2>3. Refuse(c)
    BY <2>2 DEF Checked
  <2> QED BY <2>1, <2>3, EnterFrame DEF Refuse, InBody, Phase
<1> QED BY <1>1, TypeCorrect, PTL DEF Spec, RefusedAdmitsNothing
=============================================================================
