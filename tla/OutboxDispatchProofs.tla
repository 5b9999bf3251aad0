------------------------ MODULE OutboxDispatchProofs ------------------------
(***************************************************************************)
(* Proofs about OutboxDispatch for any rows, runs, batch sizes, timeouts,  *)
(* budgets and delays.                                                     *)
(***************************************************************************)
EXTENDS OutboxDispatch, OutboxTableProofs, FiniteSetTheorems, TLAPS

\* What a run r has in hand; Owned(w) is Items(run[w]).
Items(r) == {r.batch[i] : i \in DOMAIN r.batch} \cup r.unstarted

\* A run between two batches has nothing in hand; it holds no row twice, each
\* under a token of the row's own pool; it handles the first row of its batch, and
\* one whose handler has not been cut off.
OneItemEach(r) ==
  /\ \A i, j \in DOMAIN r.batch : r.batch[i].event = r.batch[j].event => i = j
  /\ \A i \in DOMAIN r.batch, item \in r.unstarted : r.batch[i].event # item.event
  /\ \A one, other \in r.unstarted : one.event = other.event => one = other

Sound(r) ==
  /\ r.phase \in {"idle", "drain"} => r.batch = <<>> /\ r.unstarted = {}
  /\ r.phase \in {"handling", "acking"} => r.batch # <<>>
  /\ OneItemEach(r)
  /\ \A item \in Items(r) : item.token \in PoolOf[item.event]
  /\ r.orphans \subseteq r.seen
  /\ r.phase = "handling" => Head(r.batch).event \in r.seen \ r.orphans

RunsInv == FieldsOK /\ \A w \in Runners : Sound(run[w])

LEMMA ItemsTyped ==
  ASSUME NEW r \in RunState
  PROVE  Items(r) \subseteq Item
  BY DEF Items, RunState

LEMMA OneItemOfRow ==
  ASSUME NEW r \in RunState, OneItemEach(r),
         NEW one \in Items(r), NEW other \in Items(r), one.event = other.event
  PROVE  one = other
<1>1. CASE one \in r.unstarted /\ other \in r.unstarted
  BY <1>1 DEF OneItemEach
<1>2. CASE one \notin r.unstarted /\ other \notin r.unstarted
  <2> PICK i \in DOMAIN r.batch, j \in DOMAIN r.batch : one = r.batch[i] /\ other = r.batch[j]
    BY <1>2 DEF Items
  <2> QED BY DEF OneItemEach
<1>3. CASE one \in r.unstarted <=> other \notin r.unstarted
  BY <1>3 DEF OneItemEach, Items
<1> QED BY <1>1, <1>2, <1>3

LEMMA IdleIsSound ==
  ASSUME NEW delay \in Nat
  PROVE  NoRun(delay) \in RunState /\ Sound(NoRun(delay)) /\ Items(NoRun(delay)) = {}
<1> DEFINE r == NoRun(delay)
<1>1. /\ r.batch = <<>> /\ r.unstarted = {} /\ r.orphans = {} /\ r.phase = "idle"
  BY DEF NoRun
<1>2. r \in RunState
  BY DEF NoRun, RunState, Phases, Outcomes
<1>3. DOMAIN r.batch = {}
  BY <1>1
<1>4. Items(r) = {}
  BY <1>1, <1>3 DEF Items
<1>5. OneItemEach(r)
  BY <1>1, <1>3 DEF OneItemEach
<1> QED BY <1>1, <1>2, <1>4, <1>5 DEF Sound

\* A run that keeps its batch and leaves its handler alone stays sound.
LEMMA SameItemsSound ==
  ASSUME NEW r \in RunState, Sound(r), NEW s \in RunState,
         s.batch = r.batch, s.unstarted = r.unstarted,
         s.orphans \subseteq s.seen,
         s.phase \in {"idle", "drain"} => r.batch = <<>> /\ r.unstarted = {},
         s.phase \in {"handling", "acking"} => r.batch # <<>>,
         s.phase = "handling" => Head(r.batch).event \in s.seen \ s.orphans
  PROVE  Sound(s) /\ Items(s) = Items(r)
<1>1. Items(s) = Items(r)
  BY DEF Items
<1>2. OneItemEach(s)
  BY DEF Sound, OneItemEach
<1> QED BY <1>1, <1>2 DEF Sound

\* Taking the head off a batch leaves the other items, each moved up by one.
LEMMA BatchTail ==
  ASSUME NEW s \in Seq(Item), s # <<>>
  PROVE  /\ Head(s) = s[1] /\ Head(s) \in Item /\ Tail(s) \in Seq(Item)
         /\ 1 \in DOMAIN s
         /\ \A i \in DOMAIN Tail(s) : i + 1 \in DOMAIN s /\ Tail(s)[i] = s[i + 1] /\ i + 1 # 1
         /\ \A i \in DOMAIN s : i # 1 => i - 1 \in DOMAIN Tail(s) /\ Tail(s)[i - 1] = s[i]
  OBVIOUS

\* Dealing with the head of the batch, at once (settled) or by keeping it for the
\* refund (deferred), leaves a sound run; a settled row is no longer in hand.
LEMMA NextHeadSound ==
  ASSUME NEW r \in RunState, Sound(r), r.batch # <<>>, NEW s \in RunState,
         s.batch = Tail(r.batch), s.phase \in {"row", "break"},
         s.orphans \subseteq s.seen,
         s.unstarted \in {r.unstarted, r.unstarted \cup {Head(r.batch)}}
  PROVE  /\ Sound(s)
         /\ s.unstarted = r.unstarted => Items(s) = Items(r) \ {Head(r.batch)}
         /\ s.unstarted # r.unstarted => Items(s) = Items(r)
<1> DEFINE head == Head(r.batch)
<1>1. r.batch \in Seq(Item) /\ r.unstarted \subseteq Item
  BY DEF RunState
<1>2. /\ head = r.batch[1] /\ head \in Item /\ 1 \in DOMAIN r.batch
      /\ \A i \in DOMAIN s.batch : /\ i + 1 \in DOMAIN r.batch /\ s.batch[i] = r.batch[i + 1]
                                   /\ i + 1 # 1 /\ i \in Nat
      /\ \A i \in DOMAIN r.batch : i # 1 => i - 1 \in DOMAIN s.batch /\ s.batch[i - 1] = r.batch[i]
  BY <1>1, BatchTail
<1>3. \A i \in DOMAIN s.batch : s.batch[i].event # head.event /\ s.batch[i] \in Items(r)
  BY <1>2 DEF Sound, OneItemEach, Items
<1>4. \A item \in r.unstarted : item.event # head.event
  BY <1>2 DEF Sound, OneItemEach
<1>5. head \in Items(r)
  BY <1>2 DEF Items
<1>6. OneItemEach(s)
  <2>1. \A i, j \in DOMAIN s.batch : s.batch[i].event = s.batch[j].event => i = j
    <3> TAKE i, j \in DOMAIN s.batch
    <3> HAVE s.batch[i].event = s.batch[j].event
    <3>1. i + 1 = j + 1
      BY <1>2 DEF Sound, OneItemEach
    <3> QED BY <1>2, <3>1
  <2>2. \A i \in DOMAIN s.batch, item \in s.unstarted : s.batch[i].event # item.event
    BY <1>2, <1>3 DEF Sound, OneItemEach
  <2>3. \A one, other \in s.unstarted : one.event = other.event => one = other
    BY <1>4 DEF Sound, OneItemEach
  <2> QED BY <2>1, <2>2, <2>3 DEF OneItemEach
<1>7. \A item \in Items(r) : item # head => item \in Items(s)
  <2> SUFFICES ASSUME NEW item \in Items(r), item # head PROVE item \in Items(s)
    OBVIOUS
  <2>1. CASE item \in r.unstarted
    BY <2>1 DEF Items
  <2>2. CASE \E i \in DOMAIN r.batch : item = r.batch[i]
    <3> PICK i \in DOMAIN r.batch : item = r.batch[i]
      BY <2>2
    <3>1. i - 1 \in DOMAIN s.batch /\ s.batch[i - 1] = item
      BY <1>2
    <3> QED BY <3>1 DEF Items
  <2> QED BY <2>1, <2>2 DEF Items
<1>8. Items(s) \subseteq Items(r)
  BY <1>3, <1>5 DEF Items
<1>9. s.unstarted = r.unstarted => head \notin Items(s)
  BY <1>3, <1>4 DEF Items
<1>10. s.unstarted # r.unstarted => head \in Items(s)
  BY DEF Items
<1>11. Sound(s)
  BY <1>6, <1>8 DEF Sound
<1> QED BY <1>5, <1>7, <1>8, <1>9, <1>10, <1>11

\* There is a token for a run with nothing in hand: every other run holds at most
\* one of the row's pool, which has one for each run.
LEMMA FreshTokenExists ==
  ASSUME RunsInv, NEW w \in Runners, Items(run[w]) = {}, NEW e \in Events
  PROVE  FreshToken(e) \in PoolOf[e] \ HeldTokens
<1> SUFFICES ASSUME PoolOf[e] \subseteq HeldTokens PROVE FALSE
  BY DEF FreshToken
<1> DEFINE others == Runners \ {w}
           holder == [t \in PoolOf[e] |->
                        CHOOSE v \in others : \E item \in Items(run[v]) : item.token = t]
<1>1. \A v \in Runners : Owned(v) = Items(run[v]) /\ Items(run[v]) \subseteq Item
                         /\ OneItemEach(run[v]) /\ run[v] \in RunState
  BY ItemsTyped DEF RunsInv, Sound, FieldsOK, Owned, BatchItems, Items
<1>2. \A t \in PoolOf[e] : \E v \in others : \E item \in Items(run[v]) : item.token = t
  BY <1>1 DEF HeldTokens
<1>3. \A t \in PoolOf[e] : holder[t] \in others
                           /\ \E item \in Items(run[holder[t]]) : item.token = t
  BY <1>2
<1>4. holder \in [PoolOf[e] -> others]
  BY <1>3
<1>5. IsFiniteSet(PoolOf[e]) /\ IsFiniteSet(others) /\ Cardinality(others) < Cardinality(PoolOf[e])
  <2>1. IsFiniteSet(others) /\ Cardinality(others) = Cardinality(Runners) - 1
    BY FS_RemoveElement, Pools DEF Pools
  <2>2. Cardinality(Runners) \in Nat /\ Cardinality(PoolOf[e]) \in Nat
    BY FS_CardinalityType, Pools DEF Pools
  <2> QED BY <2>1, <2>2, Pools DEF Pools
<1> HIDE DEF holder, others
<1>6. PICK t, u \in PoolOf[e] : t # u /\ holder[t] = holder[u]
  BY <1>4, <1>5, FS_PigeonHole
<1> DEFINE v == holder[t]
<1>7. PICK one \in Items(run[v]) : one.token = t
  BY <1>3
<1>8. PICK other \in Items(run[v]) : other.token = u
  BY <1>3, <1>6
<1>9. v \in Runners
  BY <1>3 DEF others
<1>10. one.event = e /\ other.event = e
  <2>1. /\ one.event \in Events /\ t \in PoolOf[one.event]
        /\ other.event \in Events /\ u \in PoolOf[other.event]
    BY <1>1, <1>7, <1>8, <1>9 DEF RunsInv, Sound, Item
  <2> QED BY <2>1, Pools DEF Pools
<1>11. one = other
  BY <1>1, <1>9, <1>10, OneItemOfRow
<1> QED BY <1>6, <1>7, <1>8, <1>11

LEMMA CurrentTyped ==
  ASSUME RunsInv, NEW w \in Runners, run[w].batch # <<>>
  PROVE  /\ Current(w) \in Item /\ Current(w) \in Items(run[w])
         /\ Current(w) = Head(run[w].batch)
         /\ Current(w).event \in Events /\ Current(w).token \in Tokens
<1>1. run[w].batch \in Seq(Item)
  BY DEF RunsInv, FieldsOK, RunState
<1>2. Current(w) = run[w].batch[1] /\ Current(w) \in Item /\ 1 \in DOMAIN run[w].batch
  BY <1>1, BatchTail DEF Current
<1> QED BY <1>2 DEF Items, Item, Current

LEMMA RunUpdated ==
  ASSUME RunsInv, NEW w \in Runners, NEW s \in RunState, Sound(s),
         run' = [run EXCEPT ![w] = s]
  PROVE  run' \in [Runners -> RunState] /\ \A v \in Runners : Sound(run'[v])
  BY DEF RunsInv, FieldsOK

LEMMA RunEnded ==
  ASSUME RunsInv, NEW w \in Runners, EndRun(w)
  PROVE  /\ run' \in [Runners -> RunState] /\ \A v \in Runners : Sound(run'[v])
         /\ strays' \subseteq Events
         /\ run' = [run EXCEPT ![w] = NoRun(Cadence)] /\ Items(run'[w]) = {}
<1>1. Cadence \in Nat
  BY RunBounds DEF RunBounds
<1>2. run' = [run EXCEPT ![w] = NoRun(Cadence)]
  BY DEF EndRun
<1>3. run[w].phase = "handling" => Current(w).event \in Events
  BY CurrentTyped DEF RunsInv, Sound
<1>4. run[w].orphans \subseteq Events
  BY DEF RunsInv, FieldsOK, RunState
<1>5. run' \in [Runners -> RunState] /\ \A v \in Runners : Sound(run'[v])
  BY <1>1, <1>2, IdleIsSound, RunUpdated
<1>6. strays' \subseteq Events
  BY <1>3, <1>4 DEF EndRun, RunsInv, FieldsOK
<1>7. run'[w] = NoRun(Cadence)
  BY <1>2 DEF RunsInv, FieldsOK
<1> QED BY <1>1, <1>2, <1>5, <1>6, <1>7, IdleIsSound

LEMMA RunsInit == Init => RunsInv
<1> SUFFICES ASSUME Init PROVE RunsInv
  OBVIOUS
<1>1. TableTypeOK
  BY DEF Init, TableInit, TableTypeOK, Row, Status
<1>2. \A w \in Runners : run[w] = NoRun(0)
  BY DEF Init
<1>3. run \in [Runners -> RunState] /\ \A w \in Runners : Sound(run[w])
  BY <1>2, IdleIsSound DEF Init
<1>4. MaxCrashes \in Nat
  BY RunBounds DEF RunBounds
<1> QED BY <1>1, <1>3, <1>4 DEF Init, RunsInv, FieldsOK

\* The claimed batch is a sound one: its rows are in strict age order, so no row is
\* in it twice, and each has a fresh token of its own pool.
TokensFor(rows) == [e \in Range(rows) |-> FreshToken(e)]

ItemFor(rows, e) == [event |-> e, token |-> TokensFor(rows)[e], snoozes |-> row[e].snoozes]

Loaded(r, size, rows) ==
  [r EXCEPT !.phase = "row", !.full = (size = BatchSize),
            !.batch = [i \in 1..size |-> ItemFor(rows, rows[i])]]

LEMMA ClaimedRun ==
  ASSUME RunsInv, NEW w \in Runners, run[w].phase = "drain",
         NEW size \in Nat, NEW rows \in [1..size -> Events], InOrder(rows)
  PROVE  /\ Loaded(run[w], size, rows) \in RunState /\ Sound(Loaded(run[w], size, rows))
         /\ Items(Loaded(run[w], size, rows)) = {ItemFor(rows, e) : e \in Range(rows)}
<1> USE DEF RunsInv
<1> DEFINE given == TokensFor(rows)
           item(e) == ItemFor(rows, e)
           batch == [i \in 1..size |-> item(rows[i])]
           s == Loaded(run[w], size, rows)
<1>1. run[w] \in RunState /\ run[w].batch = <<>> /\ run[w].unstarted = {}
      /\ run[w].orphans \subseteq run[w].seen
  BY DEF Sound, FieldsOK
<1>2. DOMAIN run[w].batch = {}
  BY <1>1
<1>3. Items(run[w]) = {}
  BY <1>1, <1>2 DEF Items
<1>4. \A e \in Range(rows) : e \in Events /\ given[e] = FreshToken(e)
  BY DEF Range, TokensFor
<1>5. \A e \in Range(rows) : given[e] \in PoolOf[e] /\ given[e] \in Tokens
  BY <1>3, <1>4, FreshTokenExists, Pools DEF Pools
<1>6. \A e \in Range(rows) : row[e].snoozes \in Nat
  BY <1>4 DEF FieldsOK, TableTypeOK, Row
<1>7. \A i \in 1..size : rows[i] \in Range(rows)
  BY DEF Range
<1>8. \A i \in 1..size : item(rows[i]) \in Item
  BY <1>4, <1>5, <1>6, <1>7 DEF Item, ItemFor
<1>9. batch \in Seq(Item)
  <2>1. batch \in [1..size -> Item]
    BY <1>8
  <2> HIDE DEF batch
  <2> QED BY <2>1
<1>10. s.batch = batch /\ s.unstarted = {} /\ s.phase = "row" /\ s.orphans = run[w].orphans
       /\ s.seen = run[w].seen
  BY <1>1 DEF RunState, Loaded
<1>11. s \in RunState
  BY <1>1, <1>9 DEF RunState, Phases, Loaded
<1>12. Items(s) = {item(e) : e \in Range(rows)}
  <2>1. Items(s) = {batch[i] : i \in 1..size}
    BY <1>10 DEF Items
  <2>2. {batch[i] : i \in 1..size} = {item(e) : e \in Range(rows)}
    BY DEF Range
  <2> QED BY <2>1, <2>2
<1>13. OneItemEach(s)
  <2>1. \A i, j \in 1..size : rows[i] = rows[j] => i = j
    <3> SUFFICES ASSUME NEW i \in 1..size, NEW j \in 1..size, rows[i] = rows[j], i < j
                 PROVE  FALSE
      OBVIOUS
    <3>1. Older(row, rows[i], rows[i])
      BY DEF InOrder
    <3>2. row[rows[i]].born \in Nat
      BY DEF FieldsOK, TableTypeOK, Row
    <3> QED BY <3>1, <3>2 DEF Older
  <2>2. \A i \in DOMAIN s.batch : i \in 1..size /\ s.batch[i].event = rows[i]
    BY <1>10 DEF ItemFor
  <2> QED BY <1>10, <2>1, <2>2 DEF OneItemEach
<1>14. \A one \in Items(s) : one.token \in PoolOf[one.event]
  <2> TAKE one \in Items(s)
  <2> PICK e \in Range(rows) : one = item(e)
    BY <1>12
  <2>1. one.event = e /\ one.token = given[e]
    BY DEF ItemFor
  <2> QED BY <1>5, <2>1
<1>15. Sound(s)
  BY <1>1, <1>10, <1>13, <1>14 DEF Sound
<1> QED BY <1>10, <1>11, <1>12, <1>15
-----------------------------------------------------------------------------
(***************************************************************************)
(* What one step does to the table and to what the runs have in hand.      *)
(***************************************************************************)

\* The rows of items are given up: where the token still holds the row, the row
\* stops being claimed; every other row stays as it is.
Settles(items) ==
  \A e \in Events :
    \/ row'[e] = row[e] /\ \A item \in items : item.event = e => ~Holds(e, item.token)
    \/ \E item \in items : /\ item.event = e /\ Holds(e, item.token)
                           /\ row'[e].status # "processing"

OthersKept(w) == \A v \in Runners : v # w => run'[v] = run[v]

\* A run gives up some, all or none of what it has, and its clock goes on.
Settling(w, items) ==
  /\ items \subseteq Items(run[w]) /\ Items(run'[w]) = Items(run[w]) \ items
  /\ OthersKept(w) /\ Settles(items) /\ abandoned' = abandoned
  /\ run'[w].elapsed = run[w].elapsed \/ Items(run'[w]) = {}

\* A run with nothing in hand takes rows that are open and due; a claim also
\* discards due rows, and leaves all others alone.
Claiming(w) ==
  \E taken \in SUBSET Events :
    /\ Items(run[w]) = {} /\ OthersKept(w)
    /\ \A item \in Items(run'[w]) : item.event \in taken
    /\ \A e \in taken :
         /\ row'[e] = Claimed(row[e], FreshToken(e)) /\ Open(row, e) /\ Due(row, e)
         /\ \E item \in Items(run'[w]) : item.event = e /\ item.token = FreshToken(e)
    /\ \A item \in Items(run'[w]) : item.token = FreshToken(item.event)
    /\ \A e \in Events \ taken : \/ row'[e] = row[e]
                                 \/ /\ Open(row, e) /\ Due(row, e)
                                    /\ row'[e] = Discarded(row[e])
    /\ abandoned' = abandoned \ {FreshToken(e) : e \in taken}

Dying(w) ==
  /\ Items(run'[w]) = {} /\ OthersKept(w) /\ row' = row
  /\ abandoned' = abandoned \cup {item.token : item \in Items(run[w])}

Ticking == /\ row' = TickRows /\ abandoned' = abandoned
           /\ \A w \in Runners : run'[w] = Later(run[w]) /\ Items(run'[w]) = Items(run[w])

Producing ==
  /\ run' = run /\ abandoned' = abandoned
  /\ \A e \in Events : \/ row'[e] = row[e]
                       \/ ~Open(row, e) /\ row'[e].status # "processing"
                          /\ row'[e].token = row[e].token

StepShape == \/ \E w \in Runners : Claiming(w) \/ Dying(w)
             \/ \E w \in Runners : \E items \in SUBSET Items(run[w]) : Settling(w, items)
             \/ Ticking \/ Producing

\* A step of run w that leaves the table alone and changes only the part s of the
\* run that does not say what it has in hand.
LEMMA QuietStep ==
  ASSUME RunsInv, NEW w \in Runners, NEW s \in RunState,
         run' = [run EXCEPT ![w] = s], UNCHANGED <<row, clock, crashes, abandoned>>,
         s.batch = run[w].batch, s.unstarted = run[w].unstarted,
         s.elapsed = run[w].elapsed, s.orphans \subseteq s.seen,
         s.phase \in {"idle", "drain"} => s.batch = <<>> /\ s.unstarted = {},
         s.phase \in {"handling", "acking"} => s.batch # <<>>,
         s.phase = "handling" => Head(s.batch).event \in s.seen \ s.orphans,
         strays' \subseteq Events, delivered' \subseteq Events, tries' \in [Events -> Nat]
  PROVE  RunsInv' /\ StepShape
<1>1. run[w] \in RunState /\ Sound(run[w])
  BY DEF RunsInv, FieldsOK
<1>2. Sound(s) /\ Items(s) = Items(run[w])
  BY <1>1, SameItemsSound
<1>3. run' \in [Runners -> RunState] /\ \A v \in Runners : Sound(run'[v])
  BY <1>2, RunUpdated
<1>4. RunsInv'
  BY <1>3 DEF RunsInv, FieldsOK, TableTypeOK
<1>5. run'[w] = s
  BY DEF RunsInv, FieldsOK
<1>6. Settling(w, {})
  BY <1>2, <1>5 DEF Settling, Settles, OthersKept, RunsInv, FieldsOK
<1> QED BY <1>4, <1>6 DEF StepShape

\* A step of run w that ends it and gives back all it has.
LEMMA EndingStep ==
  ASSUME RunsInv, NEW w \in Runners, EndRun(w), TableTypeOK', Settles(Items(run[w])),
         UNCHANGED <<delivered, crashes, abandoned, tries>>
  PROVE  RunsInv' /\ StepShape
<1>1. /\ run' \in [Runners -> RunState] /\ \A v \in Runners : Sound(run'[v])
      /\ strays' \subseteq Events
      /\ run' = [run EXCEPT ![w] = NoRun(Cadence)] /\ Items(run'[w]) = {}
  BY RunEnded
<1>2. RunsInv'
  BY <1>1 DEF RunsInv, FieldsOK
<1>3. Settling(w, Items(run[w]))
  BY <1>1 DEF Settling, OthersKept
<1> QED BY <1>2, <1>3 DEF StepShape

\* A step of run w that settles the row it is at and goes on to the next.
LEMMA SettlingStep ==
  ASSUME RunsInv, NEW w \in Runners, run[w].batch # <<>>, NEW s \in RunState,
         run' = [run EXCEPT ![w] = s], TableTypeOK', Settles({Current(w)}),
         s.batch = Tail(run[w].batch), s.phase \in {"row", "break"},
         s.unstarted = run[w].unstarted, s.orphans = run[w].orphans, s.seen = run[w].seen,
         s.elapsed = run[w].elapsed,
         UNCHANGED <<strays, delivered, crashes, abandoned>>, tries' \in [Events -> Nat]
  PROVE  RunsInv' /\ StepShape
<1>1. run[w] \in RunState /\ Sound(run[w])
  BY DEF RunsInv, FieldsOK
<1>2. s.orphans \subseteq s.seen
  BY <1>1 DEF Sound
<1>3. Sound(s) /\ Items(s) = Items(run[w]) \ {Current(w)}
  BY <1>1, <1>2, NextHeadSound DEF Current
<1>4. run' \in [Runners -> RunState] /\ \A v \in Runners : Sound(run'[v])
  BY <1>3, RunUpdated
<1>5. RunsInv'
  BY <1>4 DEF RunsInv, FieldsOK
<1>6. run'[w] = s /\ {Current(w)} \subseteq Items(run[w])
  BY CurrentTyped DEF RunsInv, FieldsOK
<1>7. Settling(w, {Current(w)})
  BY <1>3, <1>6 DEF Settling, OthersKept, RunsInv, FieldsOK
<1> QED BY <1>5, <1>6, <1>7 DEF StepShape

\* A storage call settles the rows it names, wherever the token still holds.
LEMMA AckSettles ==
  ASSUME TableTypeOK, NEW item \in Item
  PROVE  /\ MarkProcessed(item.event, item.token) => Settles({item})
         /\ \A outcome : MarkFailed(item.event, item.token, outcome) => Settles({item})
<1> USE DEF TableTypeOK
<1> DEFINE e == item.event
           t == item.token
<1>1. e \in Events
  BY DEF Item
<1>2. ASSUME \/ ~Holds(e, t) /\ row' = row
             \/ Holds(e, t) /\ \E r : r.status # "processing" /\ row' = [row EXCEPT ![e] = r]
      PROVE  Settles({item})
  BY <1>1, <1>2 DEF Settles
<1>3. /\ Processed(row[e]).status = "processed" /\ Discarded(row[e]).status = "discarded"
      /\ Snoozed(row[e]).status = "failed"
      /\ \A delay : Retried(row[e], delay).status = "failed"
  BY <1>1 DEF Row, Processed, Discarded, Snoozed, Retried
<1>4. MarkProcessed(e, t) => Settles({item})
  BY <1>2, <1>3 DEF MarkProcessed
<1>5. ASSUME NEW outcome, MarkFailed(e, t, outcome) PROVE Settles({item})
  <2>1. CASE ~Holds(e, t)
    BY <1>2, <1>5, <2>1 DEF MarkFailed, FailedAnswer
  <2>2. CASE Holds(e, t)
    <3>1. \/ row' = [row EXCEPT ![e] = Discarded(row[e])]
          \/ row' = [row EXCEPT ![e] = Snoozed(row[e])]
          \/ \E delay : row' = [row EXCEPT ![e] = Retried(row[e], delay)]
      BY <1>5, <2>2 DEF MarkFailed, FailedAnswer
    <3> QED BY <1>2, <1>3, <2>2, <3>1
  <2> QED BY <2>1, <2>2
<1> QED BY <1>4, <1>5

LEMMA ReleaseSettles ==
  ASSUME TableTypeOK, NEW items \in SUBSET Item, NEW delay,
         \A one, other \in items : one.event = other.event => one = other,
         Release(Handed(items), delay)
  PROVE  Settles(items)
<1> DEFINE held == Handed(items)
<1>1. DOMAIN held = {item.event : item \in items}
  BY DEF Handed
<1>2. \A item \in items : held[item.event] = item.token
  <2> TAKE item \in items
  <2> DEFINE chosen == CHOOSE one \in items : one.event = item.event
  <2>1. held[item.event] = chosen.token
    BY DEF Handed
  <2>2. chosen \in items /\ chosen.event = item.event
    OBVIOUS
  <2> QED BY <2>1, <2>2
<1>3. \A e \in Events : row'[e] = IF e \in DOMAIN held /\ Holds(e, held[e])
                                    THEN Released(row[e], delay) ELSE row[e]
  BY DEF Release
<1>4. \A e \in Events : Released(row[e], delay).status = "pending"
  BY DEF TableTypeOK, Row, Released
<1> HIDE DEF held
<1> SUFFICES ASSUME NEW e \in Events
             PROVE  \/ row'[e] = row[e] /\ \A item \in items : item.event = e => ~Holds(e, item.token)
                    \/ \E item \in items : /\ item.event = e /\ Holds(e, item.token)
                                           /\ row'[e].status # "processing"
  BY DEF Settles
<1>5. CASE e \in DOMAIN held /\ Holds(e, held[e])
  <2>1. PICK item \in items : item.event = e
    BY <1>1, <1>5
  <2>2. held[e] = item.token
    BY <1>2, <2>1
  <2>3. row'[e].status # "processing"
    BY <1>3, <1>4, <1>5
  <2> QED BY <1>5, <2>1, <2>2, <2>3
<1>6. CASE ~(e \in DOMAIN held /\ Holds(e, held[e]))
  <2>1. row'[e] = row[e]
    BY <1>3, <1>6
  <2>2. \A item \in items : item.event = e => ~Holds(e, item.token)
    BY <1>1, <1>2, <1>6
  <2> QED BY <2>1, <2>2
<1> QED BY <1>5, <1>6

LEMMA ClaimStep ==
  ASSUME RunsInv, NEW w \in Runners, ClaimNext(w)
  PROVE  RunsInv' /\ StepShape
<1> USE DEF RunsInv
<1>1. run[w] \in RunState /\ Sound(run[w]) /\ run[w].phase = "drain" /\ TableTypeOK
  BY DEF ClaimNext, FieldsOK
<1>2. Items(run[w]) = {} /\ Owned(w) = {}
  BY <1>1 DEF Sound, Items, Owned, BatchItems
<1>3. PICK size \in 0..BatchSize : \E rows \in [1..size -> Events] : ClaimRows(w, size, rows)
  BY DEF ClaimNext
<1>4. PICK rows \in [1..size -> Events] : ClaimRows(w, size, rows)
  BY <1>3
<1> DEFINE taken == Range(rows)
           given == TokensFor(rows)
           s == Loaded(run[w], size, rows)
<1>5. size \in Nat /\ taken \in SUBSET Events
  BY BatchAssumption DEF BatchAssumption, Range
<1>6. \A e \in taken : given[e] = FreshToken(e) /\ given[e] \in Tokens
  <2> TAKE e \in taken
  <2>1. FreshToken(e) \in PoolOf[e]
    BY <1>2, <1>5, FreshTokenExists
  <2> QED BY <1>5, <2>1, Pools DEF Pools, TokensFor
<1>7. PICK locked : ClaimBatch(ScopeOf[w], locked, taken, given) /\ InOrder(rows)
  BY <1>4 DEF ClaimRows, TokensFor
<1>8. TableTypeOK'
  BY <1>1, <1>6, <1>7, ClaimTyped
<1>9. ASSUME NEW e \in Events
      PROVE  \/ /\ e \in taken /\ row'[e] = Claimed(row[e], given[e])
                /\ Open(row, e) /\ Due(row, e)
             \/ e \notin taken /\ row'[e] = row[e]
             \/ e \notin taken /\ Open(row, e) /\ Due(row, e) /\ row'[e] = Discarded(row[e])
  BY <1>1, <1>7, ClaimedRow
<1>10. CASE size = 0
  <2>1. EndRun(w) /\ UNCHANGED abandoned /\ taken = {}
    BY <1>4, <1>10 DEF Range, ClaimRows
  <2>2. /\ run' \in [Runners -> RunState] /\ \A v \in Runners : Sound(run'[v])
        /\ strays' \subseteq Events
        /\ run' = [run EXCEPT ![w] = NoRun(Cadence)] /\ Items(run'[w]) = {}
    BY <2>1, RunEnded
  <2>3. RunsInv'
    BY <1>8, <2>1, <2>2 DEF ClaimNext, FieldsOK
  <2>4. Claiming(w)
    <3>1. \A e \in Events : \/ row'[e] = row[e]
                            \/ Open(row, e) /\ Due(row, e) /\ row'[e] = Discarded(row[e])
      BY <1>9, <2>1
    <3>2. OthersKept(w)
      BY <2>2 DEF OthersKept
    <3> QED BY <1>2, <2>1, <2>2, <3>1, <3>2 DEF Claiming
  <2> QED BY <2>3, <2>4 DEF StepShape
<1>11. CASE size # 0
  <2>1. /\ run' = [run EXCEPT ![w].phase = "row",
                              ![w].full = (size = BatchSize),
                              ![w].batch = [i \in 1..size |-> ItemFor(rows, rows[i])]]
        /\ abandoned' = abandoned \ Range(given) /\ UNCHANGED strays
    BY <1>4, <1>11 DEF ClaimRows, ItemFor, TokensFor
  <2>2. run' = [run EXCEPT ![w] = s]
    BY <1>1, <2>1 DEF RunState, FieldsOK, Loaded
  <2>3. /\ s \in RunState /\ Sound(s)
        /\ Items(s) = {ItemFor(rows, e) : e \in taken}
    BY <1>1, <1>5, <1>7, ClaimedRun
  <2> HIDE DEF s
  <2>4. run' \in [Runners -> RunState] /\ \A v \in Runners : Sound(run'[v])
    BY <2>2, <2>3, RunUpdated
  <2>5. RunsInv'
    BY <1>8, <2>1, <2>4 DEF ClaimNext, FieldsOK
  <2>6. run'[w] = s /\ OthersKept(w)
    BY <2>2 DEF FieldsOK, OthersKept
  <2>7. Range(given) = {FreshToken(e) : e \in taken}
    BY DEF Range, TokensFor
  <2>8. \A item \in Items(run'[w]) : item.event \in taken /\ item.token = FreshToken(item.event)
    <3> SUFFICES ASSUME NEW item \in Items(run'[w])
                 PROVE  item.event \in taken /\ item.token = FreshToken(item.event)
      OBVIOUS
    <3> PICK e \in taken : item = ItemFor(rows, e)
      BY <2>3, <2>6
    <3> QED BY <1>6 DEF ItemFor
  <2>9. \A e \in taken : \E item \in Items(run'[w]) : item.event = e /\ item.token = FreshToken(e)
    <3> TAKE e \in taken
    <3>1. ItemFor(rows, e) \in Items(run'[w])
      BY <2>3, <2>6
    <3> QED BY <1>6, <3>1 DEF ItemFor
  <2>10. Claiming(w)
    <3> HIDE DEF given, taken
    <3>1. \A e \in taken : row'[e] = Claimed(row[e], FreshToken(e)) /\ Open(row, e) /\ Due(row, e)
      BY <1>5, <1>6, <1>9
    <3>2. \A e \in Events \ taken : \/ row'[e] = row[e]
                                    \/ /\ Open(row, e) /\ Due(row, e)
                                       /\ row'[e] = Discarded(row[e])
      BY <1>9
    <3>3. abandoned' = abandoned \ {FreshToken(e) : e \in taken}
      BY <2>1, <2>7
    <3> QED BY <1>2, <1>5, <2>6, <2>8, <2>9, <3>1, <3>2, <3>3 DEF Claiming
  <2> QED BY <2>5, <2>10 DEF StepShape
<1> QED BY <1>10, <1>11

\* The steps of a run that do not call the store.
LEMMA InnerStep ==
  ASSUME RunsInv, NEW w \in Runners,
         \/ StartRun(w) \/ StartHandler(w) \/ HandlerReturns(w) \/ HandlerOverruns(w)
  PROVE  RunsInv' /\ StepShape
<1> USE DEF RunsInv
<1> DEFINE r == run[w]
<1>1. r \in RunState /\ Sound(r) /\ run \in [Runners -> RunState]
  BY DEF FieldsOK
<1>2. /\ strays \subseteq Events /\ delivered \subseteq Events /\ tries \in [Events -> Nat]
      /\ r.orphans \subseteq r.seen /\ r.seen \subseteq Events /\ r.unstarted \subseteq Item
  BY <1>1 DEF FieldsOK, RunState, Sound
<1>3. CASE StartRun(w)
  <2> DEFINE s == [r EXCEPT !.phase = "drain"]
  <2>1. s \in RunState /\ run' = [run EXCEPT ![w] = s]
    BY <1>1, <1>3 DEF StartRun, RunState, Phases
  <2>2. /\ s.batch = r.batch /\ s.unstarted = r.unstarted /\ s.elapsed = r.elapsed
        /\ s.orphans = r.orphans /\ s.seen = r.seen /\ s.phase = "drain"
    BY <1>1 DEF RunState
  <2>3. r.batch = <<>> /\ r.unstarted = {}
    BY <1>1, <1>3 DEF StartRun, Sound
  <2>4. /\ row' = row /\ clock' = clock /\ crashes' = crashes /\ abandoned' = abandoned
        /\ strays' \subseteq Events /\ delivered' \subseteq Events /\ tries' \in [Events -> Nat]
    BY <1>2, <1>3 DEF StartRun, TableUnchanged, tableVars, HistoryUnchanged
  <2> HIDE DEF s
  <2> QED BY <1>2, <1>3, <2>1, <2>2, <2>3, <2>4, QuietStep
<1>4. CASE StartHandler(w)
  <2> DEFINE s == [r EXCEPT !.phase = "handling", !.busy = 0,
                            !.seen = @ \cup {Current(w).event}]
  <2>1. /\ r.batch # <<>> /\ Current(w).event \notin r.seen
        /\ Current(w).event \in Events /\ Current(w) = Head(r.batch)
    BY <1>4, CurrentTyped DEF StartHandler, AtRow
  <2>2. s \in RunState
    BY <1>1, <1>2, <2>1 DEF RunState, Phases
  <2>3. run' = [run EXCEPT ![w] = s]
    BY <1>1, <1>4 DEF StartHandler, RunState
  <2>4. /\ s.batch = r.batch /\ s.unstarted = r.unstarted /\ s.elapsed = r.elapsed
        /\ s.orphans = r.orphans /\ s.seen = r.seen \cup {Current(w).event}
        /\ s.phase = "handling"
    BY <1>1 DEF RunState
  <2>5. Head(s.batch).event \in s.seen \ s.orphans
    BY <1>2, <2>1, <2>4
  <2>6. tries' \in [Events -> Nat]
    BY <1>2, <1>4, <2>1 DEF StartHandler
  <2> HIDE DEF s
  <2> QED BY <1>2, <1>4, <2>1, <2>2, <2>3, <2>4, <2>5, <2>6, QuietStep
          DEF StartHandler, TableUnchanged, tableVars
<1>5. CASE HandlerReturns(w)
  <2>1. r.phase = "handling" /\ r.batch # <<>> /\ Current(w).event \in Events
    BY <1>1, <1>5, CurrentTyped DEF HandlerReturns, Sound
  <2>2. TypeOf[Current(w).event] \in EventTypes
    BY <2>1, TypeAssumption DEF TypeAssumption
  <2>3. PICK outcome \in OutcomesOf[TypeOf[Current(w).event]] \cup {"retry"} :
          run' = [run EXCEPT ![w].phase = "acking", ![w].outcome = outcome]
    BY <1>5 DEF HandlerReturns
  <2>4. outcome \in Outcomes
    BY <2>2, Registries DEF Registries, Outcomes
  <2> DEFINE s == [r EXCEPT !.phase = "acking", !.outcome = outcome]
  <2>5. s \in RunState /\ run' = [run EXCEPT ![w] = s]
    BY <1>1, <2>3, <2>4 DEF RunState, Phases
  <2>6. /\ s.batch = r.batch /\ s.unstarted = r.unstarted /\ s.elapsed = r.elapsed
        /\ s.orphans = r.orphans /\ s.seen = r.seen /\ s.phase = "acking"
    BY <1>1 DEF RunState
  <2>7. delivered' \subseteq Events
    BY <1>2, <1>5, <2>1 DEF HandlerReturns
  <2> HIDE DEF s
  <2> QED BY <1>2, <1>5, <2>1, <2>5, <2>6, <2>7, QuietStep
          DEF HandlerReturns, TableUnchanged, tableVars
<1>6. CASE HandlerOverruns(w)
  <2>1. /\ r.phase = "handling" /\ r.batch # <<>> /\ Current(w).event \in Events
    BY <1>1, <1>6, CurrentTyped DEF HandlerOverruns, Sound
  <2> DEFINE s == [r EXCEPT !.phase = "acking", !.outcome = "retry",
                            !.orphans = @ \cup {Current(w).event}]
  <2>2. s \in RunState /\ run' = [run EXCEPT ![w] = s]
    BY <1>1, <1>2, <1>6, <2>1 DEF HandlerOverruns, RunState, Phases, Outcomes
  <2>3. /\ s.batch = r.batch /\ s.unstarted = r.unstarted /\ s.elapsed = r.elapsed
        /\ s.orphans = r.orphans \cup {Current(w).event} /\ s.seen = r.seen
        /\ s.phase = "acking"
    BY <1>1 DEF RunState
  <2>4. Current(w).event \in r.seen
    BY <1>1, <2>1 DEF Sound, Current
  <2>5. /\ row' = row /\ clock' = clock /\ crashes' = crashes /\ abandoned' = abandoned
        /\ strays' \subseteq Events /\ delivered' \subseteq Events /\ tries' \in [Events -> Nat]
    BY <1>2, <1>6 DEF HandlerOverruns, TableUnchanged, tableVars, HistoryUnchanged
  <2> HIDE DEF s
  <2> QED BY <1>2, <1>6, <2>1, <2>2, <2>3, <2>4, <2>5, QuietStep
<1> QED BY <1>3, <1>4, <1>5, <1>6

\* The steps that settle the row the run is at, and the one that defers it.
LEMMA RowStep ==
  ASSUME RunsInv, NEW w \in Runners,
         \/ SkipDuplicate(w) \/ DeferRow(w)
         \/ AckProcessed(w) \/ AckFailed(w) \/ AckSnooze(w)
  PROVE  RunsInv' /\ StepShape
<1> USE DEF RunsInv
<1> DEFINE r == run[w]
           item == Current(w)
           next == [r EXCEPT !.phase = "row", !.outcome = "none", !.busy = 0, !.batch = Tail(@)]
<1>1. /\ r \in RunState /\ Sound(r) /\ run \in [Runners -> RunState] /\ TableTypeOK
      /\ strays \subseteq Events /\ delivered \subseteq Events /\ tries \in [Events -> Nat]
  BY DEF FieldsOK
<1>2. r.batch # <<>>
  BY <1>1 DEF SkipDuplicate, DeferRow, AtRow, AckProcessed, AckFailed, AckSnooze, Sound
<1>3. /\ item \in Item /\ item \in Items(r) /\ item = Head(r.batch)
      /\ item.event \in Events /\ item.token \in Tokens
  BY <1>2, CurrentTyped
<1>4. Tail(r.batch) \in Seq(Item)
  BY <1>1, <1>2, BatchTail DEF RunState
<1>5. CASE SkipDuplicate(w)
  <2> DEFINE s == [r EXCEPT !.batch = Tail(@)]
  <2>1. s \in RunState /\ run' = [run EXCEPT ![w] = s]
    BY <1>1, <1>4, <1>5 DEF SkipDuplicate, RunState
  <2>2. /\ s.batch = Tail(r.batch) /\ s.unstarted = r.unstarted /\ s.elapsed = r.elapsed
        /\ s.orphans = r.orphans /\ s.seen = r.seen /\ s.phase = "row"
    BY <1>1, <1>5 DEF RunState, SkipDuplicate, AtRow
  <2>3. Release(Handed({item}), BackoffBase) /\ BackoffBase \in Nat
    BY <1>5, DelayAssumption DEF SkipDuplicate, DelayAssumption
  <2>4. Settles({item})
    BY <1>1, <1>3, <2>3, ReleaseSettles
  <2>5. TableTypeOK'
    BY <1>1, <2>3, OperationsTyped
  <2>6. UNCHANGED <<strays, delivered, crashes, abandoned>> /\ tries' = tries
    BY <1>5 DEF SkipDuplicate, HistoryUnchanged
  <2> HIDE DEF s
  <2> QED BY <1>1, <1>2, <2>1, <2>2, <2>4, <2>5, <2>6, SettlingStep
<1>6. CASE DeferRow(w)
  <2> DEFINE s == [r EXCEPT !.seen = @ \cup {item.event}, !.unstarted = @ \cup {item},
                            !.batch = Tail(@)]
  <2>1. s \in RunState /\ run' = [run EXCEPT ![w] = s]
    BY <1>1, <1>3, <1>4, <1>6 DEF DeferRow, RunState
  <2>2. /\ s.batch = Tail(r.batch) /\ s.unstarted = r.unstarted \cup {item}
        /\ s.elapsed = r.elapsed /\ s.phase = "row"
        /\ s.orphans = r.orphans /\ s.seen = r.seen \cup {item.event}
    BY <1>1, <1>6 DEF RunState, DeferRow, AtRow
  <2>3. s.orphans \subseteq s.seen
    BY <1>1, <2>2 DEF Sound
  <2> HIDE DEF s
  <2>4. Sound(s) /\ Items(s) \in {Items(r), Items(r) \ {item}}
        /\ (s.unstarted # r.unstarted => Items(s) = Items(r))
    BY <1>1, <1>2, <1>3, <2>1, <2>2, <2>3, NextHeadSound
  <2>5. s.unstarted # r.unstarted
    <3>1. 1 \in DOMAIN r.batch /\ item = r.batch[1]
      BY <1>1, <1>2, <1>3, BatchTail DEF RunState
    <3>2. item \notin r.unstarted
      BY <1>1, <3>1 DEF Sound, OneItemEach
    <3> QED BY <2>2, <3>2
  <2>6. /\ row' = row /\ clock' = clock /\ UNCHANGED <<strays, delivered, crashes, abandoned, tries>>
    BY <1>6 DEF DeferRow, TableUnchanged, tableVars, HistoryUnchanged
  <2>7. run' \in [Runners -> RunState] /\ \A v \in Runners : Sound(run'[v])
    BY <2>1, <2>4, RunUpdated
  <2>8. RunsInv'
    BY <2>6, <2>7 DEF FieldsOK, TableTypeOK
  <2>9. run'[w] = s /\ OthersKept(w)
    BY <1>1, <2>1 DEF OthersKept
  <2>10. Settling(w, {})
    BY <2>2, <2>4, <2>5, <2>6, <2>9 DEF Settling, Settles
  <2> QED BY <2>8, <2>10 DEF StepShape
<1>7. next \in RunState
      /\ next.batch = Tail(r.batch) /\ next.unstarted = r.unstarted /\ next.elapsed = r.elapsed
      /\ next.orphans = r.orphans /\ next.seen = r.seen /\ next.phase = "row"
  BY <1>1, <1>4 DEF RunState, Phases, Outcomes
<1>8. NextRow(w) => run' = [run EXCEPT ![w] = next]
  BY <1>1 DEF NextRow, RunState
<1>9. CASE AckProcessed(w)
  <2>1. MarkProcessed(item.event, item.token) /\ NextRow(w)
        /\ UNCHANGED <<strays, delivered, crashes, abandoned, tries>>
    BY <1>9 DEF AckProcessed
  <2>2. Settles({item}) /\ TableTypeOK'
    BY <1>1, <1>3, <2>1, AckSettles, OperationsTyped
  <2> HIDE DEF next
  <2> QED BY <1>1, <1>2, <1>7, <1>8, <2>1, <2>2, SettlingStep
<1>10. CASE AckFailed(w)
  <2>1. MarkFailed(item.event, item.token, Charged(w)) /\ NextRow(w)
        /\ UNCHANGED <<strays, delivered, crashes, abandoned, tries>>
    BY <1>10 DEF AckFailed
  <2>2. Settles({item}) /\ TableTypeOK'
    BY <1>1, <1>3, <2>1, AckSettles, OperationsTyped
  <2> HIDE DEF next
  <2> QED BY <1>1, <1>2, <1>7, <1>8, <2>1, <2>2, SettlingStep
<1>11. CASE AckSnooze(w)
  <2> DEFINE s == [r EXCEPT !.phase = "break", !.outcome = "none", !.busy = 0, !.batch = Tail(@)]
  <2>1. s \in RunState /\ run' = [run EXCEPT ![w] = s]
    BY <1>1, <1>4, <1>11 DEF AckSnooze, RunState, Phases, Outcomes
  <2>2. /\ s.batch = Tail(r.batch) /\ s.unstarted = r.unstarted /\ s.elapsed = r.elapsed
        /\ s.orphans = r.orphans /\ s.seen = r.seen /\ s.phase = "break"
    BY <1>1 DEF RunState
  <2>3. MarkFailed(item.event, item.token, "snooze")
        /\ UNCHANGED <<strays, delivered, crashes, abandoned>>
    BY <1>11 DEF AckSnooze
  <2>4. Settles({item}) /\ TableTypeOK'
    BY <1>1, <1>3, <2>3, AckSettles, OperationsTyped
  <2>5. tries' \in [Events -> Nat]
    BY <1>1, <1>3, <1>11 DEF AckSnooze, Refund
  <2> HIDE DEF s
  <2> QED BY <1>1, <1>2, <2>1, <2>2, <2>3, <2>4, <2>5, SettlingStep
<1> QED BY <1>5, <1>6, <1>9, <1>10, <1>11

\* The steps between batches and at the end of a run.
LEMMA EndStep ==
  ASSUME RunsInv, NEW w \in Runners,
         BudgetSpent(w) \/ CircuitBreak(w) \/ BatchDone(w)
  PROVE  RunsInv' /\ StepShape
<1> USE DEF RunsInv
<1> DEFINE r == run[w]
<1>1. /\ r \in RunState /\ Sound(r) /\ run \in [Runners -> RunState] /\ TableTypeOK
      /\ strays \subseteq Events /\ delivered \subseteq Events /\ tries \in [Events -> Nat]
  BY DEF FieldsOK
<1>2. Items(r) \in SUBSET Item /\ r.unstarted \in SUBSET Item /\ Owned(w) = Items(r)
  BY <1>1, ItemsTyped DEF RunState, Owned, BatchItems, Items
<1>3. \A one, other \in Items(r) : one.event = other.event => one = other
  BY <1>1, OneItemOfRow DEF Sound
<1>4. CASE BudgetSpent(w)
  <2>1. Items(r) = {}
    BY <1>1, <1>4 DEF BudgetSpent, Sound, Items
  <2>2. Settles(Items(r)) /\ TableTypeOK' /\ EndRun(w)
        /\ UNCHANGED <<delivered, crashes, abandoned, tries>>
    BY <1>1, <1>4, <2>1
    DEF BudgetSpent, TableUnchanged, tableVars, Settles, TableTypeOK, HistoryUnchanged
  <2> QED BY <2>2, EndingStep
<1>5. CASE CircuitBreak(w)
  <2>1. Release(Handed(Items(r)), SnoozeDelay) /\ SnoozeDelay \in Nat
    BY <1>2, <1>5, DelayAssumption DEF CircuitBreak, DelayAssumption
  <2>2. Settles(Items(r)) /\ TableTypeOK'
    BY <1>1, <1>2, <1>3, <2>1, ReleaseSettles, OperationsTyped
  <2>3. EndRun(w) /\ UNCHANGED <<delivered, crashes, abandoned, tries>>
    BY <1>5 DEF CircuitBreak, HistoryUnchanged
  <2> QED BY <2>2, <2>3, EndingStep
<1>6. CASE BatchDone(w)
  <2>1. /\ r.phase = "row" /\ r.batch = <<>>
        /\ Release(Handed(r.unstarted), 0)
        /\ UNCHANGED <<delivered, crashes, abandoned, tries>>
    BY <1>6 DEF BatchDone, HistoryUnchanged
  <2>2. Items(r) = r.unstarted
    BY <2>1 DEF Items
  <2>3. Settles(r.unstarted)
    BY <1>1, <1>2, <1>3, <2>1, <2>2, ReleaseSettles
  <2>4. TableTypeOK'
    BY <1>1, <2>1, OperationsTyped
  <2>5. CASE EndRun(w)
    BY <2>1, <2>2, <2>3, <2>4, <2>5, EndingStep
  <2>6. CASE ~EndRun(w)
    <3> DEFINE s == [r EXCEPT !.phase = "drain"]
    <3>1. r.unstarted = {} /\ run' = [run EXCEPT ![w].phase = "drain"] /\ strays' = strays
      BY <1>6, <2>6 DEF BatchDone
    <3>2. s \in RunState /\ run' = [run EXCEPT ![w] = s]
      BY <1>1, <3>1 DEF RunState, Phases
    <3>3. /\ s.batch = r.batch /\ s.unstarted = r.unstarted /\ s.elapsed = r.elapsed
          /\ s.orphans = r.orphans /\ s.seen = r.seen /\ s.phase = "drain"
      BY <1>1 DEF RunState
    <3>4. r.orphans \subseteq r.seen
      BY <1>1 DEF Sound
    <3>5. row' = row /\ clock' = clock
      <4>1. \A e \in Events : row'[e] = row[e]
        BY <2>3, <3>1 DEF Settles
      <4>2. row' \in [Events -> Row] /\ row \in [Events -> Row] /\ clock' = clock
        BY <1>1, <2>1, <2>4 DEF TableTypeOK, Release
      <4> QED BY <4>1, <4>2
    <3> HIDE DEF s
    <3>6. /\ strays' \subseteq Events /\ delivered' \subseteq Events
          /\ tries' \in [Events -> Nat] /\ crashes' = crashes /\ abandoned' = abandoned
      BY <1>1, <2>1, <3>1
    <3>7. s.batch = <<>> /\ s.unstarted = {} /\ s.orphans \subseteq s.seen
      BY <2>1, <3>1, <3>3, <3>4
    <3> QED BY <3>2, <3>3, <3>5, <3>6, <3>7, QuietStep
  <2> QED BY <2>5, <2>6
<1> QED BY <1>4, <1>5, <1>6

\* The steps nobody in the worker takes: time, producers, interruptions, orphans.
LEMMA OuterStep ==
  ASSUME RunsInv,
         \/ Tick \/ OrphanEnds \/ UNCHANGED vars
         \/ \E e \in Events : Produce(e)
         \/ \E w \in Runners : Interrupt(w)
  PROVE  RunsInv' /\ StepShape
<1> USE DEF RunsInv
<1>1. /\ run \in [Runners -> RunState] /\ TableTypeOK /\ \A w \in Runners : Sound(run[w])
      /\ strays \subseteq Events /\ delivered \subseteq Events /\ tries \in [Events -> Nat]
      /\ crashes \in 0..MaxCrashes /\ abandoned \subseteq Tokens
  BY DEF FieldsOK
<1>2. CASE Tick
  <2>1. HostLimit \in Nat
    BY RunBounds DEF RunBounds
  <2>2. ASSUME NEW w \in Runners
        PROVE  /\ Later(run[w]) \in RunState /\ Sound(Later(run[w]))
               /\ Items(Later(run[w])) = Items(run[w])
    <3> DEFINE r == run[w]
               s == Later(r)
    <3>1. r \in RunState /\ Sound(r) /\ r.elapsed \in Nat
      BY <1>1 DEF RunState
    <3>2. CountDown(r.elapsed) \in Nat /\ AtMost(HostLimit, r.elapsed + 1) \in Nat
      BY <2>1, <3>1 DEF CountDown, AtMost
    <3>3. s \in RunState
      <4>1. CASE r.phase = "idle"
        <5>1. s = [r EXCEPT !.elapsed = CountDown(@)]
          BY <4>1 DEF Later
        <5> QED BY <3>1, <3>2, <5>1 DEF RunState
      <4>2. CASE r.phase # "idle"
        <5> DEFINE busy == IF r.phase = "handling" THEN r.busy + 1 ELSE 0
        <5>1. s = [r EXCEPT !.elapsed = AtMost(HostLimit, @ + 1), !.busy = busy]
          BY <4>2 DEF Later
        <5>2. busy \in Nat
          BY <3>1 DEF RunState
        <5> HIDE DEF busy
        <5> QED BY <3>1, <3>2, <5>1, <5>2 DEF RunState
      <4> QED BY <4>1, <4>2
    <3>4. /\ s.batch = r.batch /\ s.unstarted = r.unstarted /\ s.phase = r.phase
          /\ s.orphans = r.orphans /\ s.seen = r.seen
      BY <3>1 DEF RunState, Later
    <3> HIDE DEF s
    <3>5. Sound(s) /\ Items(s) = Items(r)
      BY <3>1, <3>3, <3>4, SameItemsSound DEF Sound
    <3> QED BY <3>3, <3>5 DEF s
  <2>3. run' = [w \in Runners |-> Later(run[w])] /\ row' = TickRows
        /\ UNCHANGED <<clock, strays, delivered, crashes, abandoned, tries>>
    BY <1>2 DEF Tick, HistoryUnchanged
  <2>4. TableTypeOK'
    BY <1>1, <2>3, OperationsTyped
  <2>5. RunsInv'
    BY <1>1, <2>2, <2>3, <2>4 DEF FieldsOK
  <2>6. Ticking
    BY <2>2, <2>3 DEF Ticking
  <2> QED BY <2>5, <2>6 DEF StepShape
<1>3. CASE \E e \in Events : Produce(e)
  <2> PICK e \in Events : Produce(e)
    BY <1>3
  <2>1. (BeginEnqueue(e) \/ CommitEnqueue(e, 0))
        /\ UNCHANGED <<run, strays, delivered, crashes, abandoned, tries>>
    BY DEF Produce, runVars
  <2>2. TableTypeOK'
    BY <1>1, <2>1, OperationsTyped
  <2>3. RunsInv'
    BY <1>1, <2>1, <2>2 DEF FieldsOK
  <2>4. \A d \in Events : row[d] \in Row
    BY <1>1 DEF TableTypeOK
  <2>5. \A rank, delay : /\ Begun(row[e], rank).status = "begun"
                         /\ Begun(row[e], rank).token = row[e].token
                         /\ Committed(row[e], delay).status = "pending"
                         /\ Committed(row[e], delay).token = row[e].token
                         /\ Withdrawn(row[e]).status = "withdrawn"
                         /\ Withdrawn(row[e]).token = row[e].token
    BY <2>4 DEF Begun, Committed, Withdrawn, Row
  <2>6. /\ row[e].status \in {"absent", "begun"}
        /\ row'[e].status # "processing" /\ row'[e].token = row[e].token
        /\ \A d \in Events : d # e => row'[d] = row[d]
    BY <1>1, <2>1, <2>5 DEF BeginEnqueue, CommitEnqueue, TableTypeOK
  <2>7. Producing
    BY <2>1, <2>6 DEF Producing, Open, OpenStatus
  <2> QED BY <2>3, <2>7 DEF StepShape
<1>4. CASE \E w \in Runners : Interrupt(w)
  <2> PICK w \in Runners : Interrupt(w)
    BY <1>4
  <2>1. /\ EndRun(w) /\ crashes < MaxCrashes /\ crashes' = crashes + 1
        /\ abandoned' = abandoned \cup {item.token : item \in Items(run[w])}
        /\ UNCHANGED <<row, clock, delivered, tries>>
    BY DEF Interrupt, TableUnchanged, tableVars, Owned, BatchItems, Items
  <2>2. /\ run' \in [Runners -> RunState] /\ \A v \in Runners : Sound(run'[v])
        /\ strays' \subseteq Events
        /\ run' = [run EXCEPT ![w] = NoRun(Cadence)] /\ Items(run'[w]) = {}
    BY <2>1, RunEnded
  <2>3. \A item \in Items(run[w]) : item.token \in Tokens
    BY <1>1, ItemsTyped DEF Item
  <2>4. crashes' \in 0..MaxCrashes
    BY <1>1, <2>1, RunBounds DEF RunBounds
  <2>5. RunsInv'
    BY <1>1, <2>1, <2>2, <2>3, <2>4 DEF FieldsOK, TableTypeOK
  <2>6. Dying(w)
    BY <2>1, <2>2 DEF Dying, OthersKept
  <2> QED BY <2>5, <2>6 DEF StepShape
<1>5. CASE OrphanEnds
  <2>1. /\ row' = row /\ clock' = clock
        /\ UNCHANGED <<crashes, abandoned, tries>>
    BY <1>5 DEF OrphanEnds, TableUnchanged, tableVars
  <2>2. CASE \E w \in Runners : \E e \in run[w].orphans :
               /\ run' = [run EXCEPT ![w].orphans = @ \ {e}] /\ UNCHANGED strays
               /\ delivered' \in {delivered, delivered \cup {e}}
    <3> PICK w \in Runners : \E e \in run[w].orphans :
               /\ run' = [run EXCEPT ![w].orphans = @ \ {e}] /\ UNCHANGED strays
               /\ delivered' \in {delivered, delivered \cup {e}}
      BY <2>2
    <3> PICK e \in run[w].orphans :
               /\ run' = [run EXCEPT ![w].orphans = @ \ {e}] /\ UNCHANGED strays
               /\ delivered' \in {delivered, delivered \cup {e}}
      OBVIOUS
    <3> DEFINE r == run[w]
               s == [r EXCEPT !.orphans = @ \ {e}]
    <3>1. r \in RunState /\ Sound(r) /\ r.orphans \subseteq Events
      BY <1>1 DEF RunState
    <3>2. s \in RunState /\ run' = [run EXCEPT ![w] = s]
      BY <1>1, <3>1 DEF RunState
    <3>3. /\ s.batch = r.batch /\ s.unstarted = r.unstarted /\ s.elapsed = r.elapsed
          /\ s.orphans \subseteq r.orphans /\ s.seen = r.seen /\ s.phase = r.phase
      BY <3>1 DEF RunState
    <3>4. delivered' \subseteq Events
      BY <1>1, <3>1
    <3> HIDE DEF s
    <3>5. /\ s.orphans \subseteq s.seen
          /\ s.phase \in {"idle", "drain"} => s.batch = <<>> /\ s.unstarted = {}
          /\ s.phase \in {"handling", "acking"} => s.batch # <<>>
          /\ s.phase = "handling" => Head(s.batch).event \in s.seen \ s.orphans
      BY <3>1, <3>3 DEF Sound
    <3>6. strays' \subseteq Events /\ tries' \in [Events -> Nat]
      BY <1>1, <2>1
    <3> QED BY <2>1, <3>2, <3>3, <3>4, <3>5, <3>6, QuietStep
  <2>3. CASE \E e \in strays : /\ strays' = strays \ {e} /\ UNCHANGED run
                               /\ delivered' \in {delivered, delivered \cup {e}}
    <3>1. strays' \subseteq Events /\ delivered' \subseteq Events /\ run' = run
      BY <1>1, <2>3
    <3>2. RunsInv'
      BY <1>1, <2>1, <3>1 DEF FieldsOK, TableTypeOK
    <3>3. Producing
      BY <2>1, <3>1 DEF Producing
    <3> QED BY <3>2, <3>3 DEF StepShape
  <2> QED BY <1>5, <2>2, <2>3 DEF OrphanEnds
<1>6. CASE UNCHANGED vars
  <2>1. RunsInv'
    BY <1>1, <1>6 DEF vars, FieldsOK, TableTypeOK
  <2>2. Producing
    BY <1>6 DEF vars, Producing
  <2> QED BY <2>1, <2>2 DEF StepShape
<1> QED BY <1>2, <1>3, <1>4, <1>5, <1>6

LEMMA EveryStep == RunsInv /\ [Next]_vars => RunsInv' /\ StepShape
<1> SUFFICES ASSUME RunsInv, [Next]_vars PROVE RunsInv' /\ StepShape
  OBVIOUS
<1>1. CASE \E w \in Runners : RunStep(w)
  <2> PICK w \in Runners : RunStep(w)
    BY <1>1
  <2>1. CASE ClaimNext(w)
    BY <2>1, ClaimStep
  <2>2. CASE StartRun(w) \/ StartHandler(w) \/ HandlerReturns(w) \/ HandlerOverruns(w)
    BY <2>2, InnerStep
  <2>3. CASE SkipDuplicate(w) \/ DeferRow(w) \/ AckProcessed(w) \/ AckFailed(w) \/ AckSnooze(w)
    BY <2>3, RowStep
  <2>4. CASE BudgetSpent(w) \/ CircuitBreak(w) \/ BatchDone(w)
    BY <2>4, EndStep
  <2> QED BY <2>1, <2>2, <2>3, <2>4 DEF RunStep
<1>2. CASE \/ Tick \/ OrphanEnds \/ UNCHANGED vars
           \/ \E e \in Events : Produce(e)
           \/ \E w \in Runners : Interrupt(w)
  BY <1>2, OuterStep
<1> QED BY <1>1, <1>2 DEF Next

\* No run starts the handler of a row while an orphan of that handler, cut off
\* earlier in the same run, may still be at work.
THEOREM NoRaceCorrect == Spec => []NoRaceWithOrphan
<1>1. RunsInv => NoRaceWithOrphan
  BY DEF RunsInv, Sound, NoRaceWithOrphan, Current
<1> QED BY <1>1, RunsInit, EveryStep, PTL DEF Spec
-----------------------------------------------------------------------------
(***************************************************************************)
(* At-least-once delivery.                                                 *)
(***************************************************************************)

\* A run is about to acknowledge its row as processed.
Vouches(w) == run[w].phase = "acking" /\ run[w].outcome = "processed"

EffectInv ==
  /\ RunsInv /\ ProcessedHasEffect
  /\ \A w \in Runners : Vouches(w) => Current(w).event \in delivered

\* No run begins to vouch for a row, or turns to another row while it does.
NoneNewlyVouches == \A w \in Runners : Vouches(w)' => Vouches(w) /\ Current(w)' = Current(w)

\* A step of run w alone after which w does not vouch.
LEMMA OneRunVouchesNot ==
  ASSUME RunsInv, NEW w \in Runners, OthersKept(w), ~Vouches(w)'
  PROVE  NoneNewlyVouches
  BY DEF NoneNewlyVouches, OthersKept, Vouches, Current

LEMMA EffectKept ==
  ASSUME EffectInv, NoneNewlyProcessed, NoneNewlyVouches, delivered \subseteq delivered'
  PROVE  ProcessedHasEffect' /\ \A w \in Runners : Vouches(w)' => Current(w)'.event \in delivered'
<1>1. ProcessedHasEffect'
  BY DEF EffectInv, ProcessedHasEffect, NoneNewlyProcessed
<1>2. \A w \in Runners : Vouches(w)' => Current(w)'.event \in delivered'
  BY DEF EffectInv, NoneNewlyVouches
<1> QED BY <1>1, <1>2

LEMMA EffectStep == EffectInv /\ [Next]_vars => EffectInv'
<1> SUFFICES ASSUME EffectInv, [Next]_vars
             PROVE  /\ ProcessedHasEffect'
                    /\ \A w \in Runners : Vouches(w)' => Current(w)'.event \in delivered'
  BY EveryStep DEF EffectInv, ProcessedHasEffect, Vouches, Current
<1>1. /\ RunsInv /\ TableTypeOK /\ run \in [Runners -> RunState]
      /\ \A w \in Runners : run[w] \in RunState /\ Sound(run[w])
  BY DEF EffectInv, RunsInv, FieldsOK
<1>2. row' = row => NoneNewlyProcessed
  BY DEF NoneNewlyProcessed
<1>3. run' = run => NoneNewlyVouches
  BY DEF NoneNewlyVouches, Vouches, Current
<1>4. ASSUME NEW w \in Runners, EndRun(w) PROVE NoneNewlyVouches
  <2>1. run'[w].phase = "idle" /\ OthersKept(w)
    BY <1>1, <1>4 DEF EndRun, NoRun, OthersKept
  <2> QED BY <1>1, <2>1, OneRunVouchesNot DEF Vouches
<1>5. ASSUME NEW w \in Runners, NEW s, run' = [run EXCEPT ![w] = s], s.phase # "acking"
      PROVE  NoneNewlyVouches
  <2>1. run'[w].phase # "acking" /\ OthersKept(w)
    BY <1>1, <1>5 DEF OthersKept
  <2> QED BY <1>1, <2>1, OneRunVouchesNot DEF Vouches
<1>6. ASSUME NEW w \in Runners, NextRow(w) PROVE NoneNewlyVouches
  <2>1. /\ run' = [run EXCEPT ![w] = [run[w] EXCEPT !.phase = "row", !.outcome = "none",
                                       !.busy = 0, !.batch = Tail(@)]]
        /\ [run[w] EXCEPT !.phase = "row", !.outcome = "none",
                          !.busy = 0, !.batch = Tail(@)].phase = "row"
    BY <1>1, <1>6 DEF NextRow, RunState
  <2> QED BY <1>5, <2>1
<1> USE DEF TableUnchanged, tableVars, HistoryUnchanged
<1>7. ASSUME NEW w \in Runners, StartRun(w) \/ StartHandler(w) \/ DeferRow(w) \/ SkipDuplicate(w)
                                  \/ HandlerOverruns(w)
      PROVE  NoneNewlyVouches /\ delivered' = delivered
  <2>1. run'[w].phase = "acking" => run'[w].outcome = "retry"
    BY <1>1, <1>7 DEF StartRun, StartHandler, DeferRow, SkipDuplicate, HandlerOverruns,
                      AtRow, RunState
  <2>2. OthersKept(w)
    BY <1>1, <1>7 DEF StartRun, StartHandler, DeferRow, SkipDuplicate, HandlerOverruns, OthersKept
  <2>3. NoneNewlyVouches
    BY <1>1, <2>1, <2>2, OneRunVouchesNot DEF Vouches
  <2> QED BY <1>7, <2>3 DEF StartRun, StartHandler, DeferRow, SkipDuplicate, HandlerOverruns
<1>8. CASE \E w \in Runners : RunStep(w)
  <2> PICK w \in Runners : RunStep(w)
    BY <1>8
  <2>1. CASE StartRun(w) \/ StartHandler(w) \/ DeferRow(w) \/ HandlerOverruns(w)
    <3>1. row' = row
      BY <2>1 DEF StartRun, StartHandler, DeferRow, HandlerOverruns
    <3> QED BY <1>2, <1>7, <2>1, <3>1, EffectKept
  <2>2. CASE SkipDuplicate(w)
    <3>1. NoneNewlyProcessed
      BY <1>1, <2>2, OnlyMarkProcesses DEF SkipDuplicate
    <3> QED BY <1>7, <2>2, <3>1, EffectKept
  <2>3. CASE ClaimNext(w)
    <3> PICK size \in 0..BatchSize : \E rows \in [1..size -> Events] : ClaimRows(w, size, rows)
      BY <2>3 DEF ClaimNext
    <3>1. PICK rows \in [1..size -> Events] : ClaimRows(w, size, rows)
      OBVIOUS
    <3>2. PICK locked : ClaimBatch(ScopeOf[w], locked, Range(rows), [e \in Range(rows) |-> FreshToken(e)])
      BY <3>1 DEF ClaimRows
    <3>3. NoneNewlyProcessed
      BY <1>1, <3>2, ClaimProcessesNone
    <3>4. NoneNewlyVouches
      <4>1. CASE EndRun(w)
        BY <1>4, <4>1
      <4>2. CASE ~EndRun(w)
        <5>1. run'[w].phase = "row" /\ OthersKept(w)
          BY <1>1, <3>1, <4>2 DEF ClaimRows, OthersKept, RunState
        <5> QED BY <1>1, <5>1, OneRunVouchesNot DEF Vouches
      <4> QED BY <4>1, <4>2
    <3> QED BY <2>3, <3>3, <3>4, EffectKept DEF ClaimNext
  <2>4. CASE BudgetSpent(w)
    BY <1>2, <1>4, <2>4, EffectKept DEF BudgetSpent
  <2>5. CASE HandlerReturns(w)
    <3>1. PICK outcome \in OutcomesOf[TypeOf[Current(w).event]] \cup {"retry"} :
            /\ run' = [run EXCEPT ![w].phase = "acking", ![w].outcome = outcome]
            /\ \/ delivered' = delivered \cup {Current(w).event}
               \/ outcome # "processed" /\ UNCHANGED delivered
      BY <2>5 DEF HandlerReturns
    <3>2. row' = row /\ delivered \subseteq delivered'
      BY <2>5, <3>1 DEF HandlerReturns
    <3>3. /\ run'[w].outcome = outcome /\ Current(w)' = Current(w) /\ OthersKept(w)
      BY <1>1, <3>1 DEF RunState, OthersKept, Current
    <3>4. ASSUME NEW v \in Runners, Vouches(v)' PROVE Current(v)'.event \in delivered'
      <4>1. CASE v = w
        BY <3>1, <3>3, <3>4, <4>1 DEF Vouches
      <4>2. CASE v # w
        <5>1. Vouches(v) /\ Current(v)' = Current(v)
          BY <3>3, <3>4, <4>2 DEF Vouches, OthersKept, Current
        <5> QED BY <3>2, <5>1 DEF EffectInv
      <4> QED BY <4>1, <4>2
    <3>5. ProcessedHasEffect'
      BY <3>2 DEF EffectInv, ProcessedHasEffect
    <3> QED BY <3>4, <3>5
  <2>6. CASE AckProcessed(w)
    <3>1. Vouches(w) /\ NextRow(w) /\ delivered' = delivered
          /\ MarkProcessed(Current(w).event, Current(w).token)
      BY <2>6 DEF AckProcessed, Vouches
    <3>2. Current(w).event \in Events /\ Current(w).event \in delivered
      BY <1>1, <3>1, CurrentTyped DEF EffectInv, Vouches, Sound
    <3>3. \A d \in Events : d # Current(w).event => row'[d] = row[d]
      BY <1>1, <3>1, <3>2, OnlyMarkProcesses
    <3>4. ProcessedHasEffect'
      BY <3>1, <3>2, <3>3 DEF EffectInv, ProcessedHasEffect
    <3>5. \A v \in Runners : Vouches(v)' => Current(v)'.event \in delivered'
      BY <1>6, <3>1 DEF EffectInv, NoneNewlyVouches
    <3> QED BY <3>4, <3>5
  <2>7. CASE AckFailed(w)
    <3>1. NextRow(w) /\ delivered' = delivered
          /\ MarkFailed(Current(w).event, Current(w).token, Charged(w))
      BY <2>7 DEF AckFailed
    <3>2. Current(w).event \in Events
      BY <1>1, <2>7, CurrentTyped DEF AckFailed, Sound
    <3>3. NoneNewlyProcessed
      BY <1>1, <3>1, <3>2, OnlyMarkProcesses
    <3> QED BY <1>6, <3>1, <3>3, EffectKept
  <2>8. CASE AckSnooze(w)
    <3>1. MarkFailed(Current(w).event, Current(w).token, "snooze") /\ delivered' = delivered
          /\ run'[w].phase = "break" /\ OthersKept(w)
      BY <1>1, <2>8 DEF AckSnooze, OthersKept, RunState
    <3>2. Current(w).event \in Events
      BY <1>1, <2>8, CurrentTyped DEF AckSnooze, Sound
    <3>3. NoneNewlyProcessed
      BY <1>1, <3>1, <3>2, OnlyMarkProcesses
    <3>4. NoneNewlyVouches
      BY <1>1, <3>1, OneRunVouchesNot DEF Vouches
    <3> QED BY <3>1, <3>3, <3>4, EffectKept
  <2>9. CASE CircuitBreak(w)
    <3>1. NoneNewlyProcessed
      BY <1>1, <2>9, OnlyMarkProcesses DEF CircuitBreak
    <3> QED BY <1>4, <2>9, <3>1, EffectKept DEF CircuitBreak
  <2>10. CASE BatchDone(w)
    <3>1. NoneNewlyProcessed
      BY <1>1, <2>10, OnlyMarkProcesses DEF BatchDone
    <3>2. NoneNewlyVouches
      <4>1. CASE EndRun(w)
        BY <1>4, <4>1
      <4>2. CASE ~EndRun(w)
        <5>1. run'[w].phase = "drain" /\ OthersKept(w)
          BY <1>1, <2>10, <4>2 DEF BatchDone, OthersKept, RunState
        <5> QED BY <1>1, <5>1, OneRunVouchesNot DEF Vouches
      <4> QED BY <4>1, <4>2
    <3> QED BY <2>10, <3>1, <3>2, EffectKept DEF BatchDone
  <2> QED BY <2>1, <2>2, <2>3, <2>4, <2>5, <2>6, <2>7, <2>8, <2>9, <2>10 DEF RunStep
<1>9. CASE Tick
  <2>1. NoneNewlyProcessed
    BY <1>1, <1>9, OnlyMarkProcesses DEF Tick
  <2>2. \A w \in Runners : /\ run'[w].phase = run[w].phase /\ run'[w].outcome = run[w].outcome
                           /\ run'[w].batch = run[w].batch
    BY <1>1, <1>9 DEF Tick, Later, RunState
  <2>3. NoneNewlyVouches
    BY <2>2 DEF NoneNewlyVouches, Vouches, Current
  <2> QED BY <1>9, <2>1, <2>3, EffectKept DEF Tick
<1>10. CASE \E e \in Events : Produce(e)
  <2> PICK e \in Events : Produce(e)
    BY <1>10
  <2>1. NoneNewlyProcessed
    BY <1>1, OnlyMarkProcesses DEF Produce
  <2>2. run' = run /\ delivered' = delivered
    BY DEF Produce, runVars
  <2> QED BY <1>3, <2>1, <2>2, EffectKept
<1>11. CASE \E w \in Runners : Interrupt(w)
  BY <1>2, <1>4, <1>11, EffectKept DEF Interrupt
<1>12. CASE OrphanEnds
  <2>1. row' = row /\ delivered \subseteq delivered'
    BY <1>12 DEF OrphanEnds
  <2>2. \A w \in Runners : /\ run'[w].phase = run[w].phase /\ run'[w].outcome = run[w].outcome
                           /\ run'[w].batch = run[w].batch
    <3>1. CASE run' = run
      BY <3>1
    <3>2. CASE run' # run
      <4> PICK v \in Runners : \E e \in run[v].orphans : run' = [run EXCEPT ![v].orphans = @ \ {e}]
        BY <1>12, <3>2 DEF OrphanEnds
      <4> QED BY <1>1 DEF RunState
    <3> QED BY <3>1, <3>2
  <2>3. NoneNewlyVouches
    BY <2>2 DEF NoneNewlyVouches, Vouches, Current
  <2> QED BY <1>2, <2>1, <2>3, EffectKept
<1>13. CASE UNCHANGED vars
  BY <1>2, <1>3, <1>13, EffectKept DEF vars
<1> QED BY <1>8, <1>9, <1>10, <1>11, <1>12, <1>13 DEF Next

\* A row is acknowledged as processed only after its effect happened, whichever
\* run, retry, stale token or orphan came first.
THEOREM EffectCorrect == Spec => []ProcessedHasEffect
<1>1. Init => EffectInv
  <2> SUFFICES ASSUME Init PROVE EffectInv
    OBVIOUS
  <2>1. \A w \in Runners : ~Vouches(w)
    BY DEF Init, NoRun, Vouches
  <2>2. ProcessedHasEffect
    BY DEF Init, TableInit, ProcessedHasEffect
  <2> QED BY <2>1, <2>2, RunsInit DEF EffectInv
<1>2. EffectInv => ProcessedHasEffect
  BY DEF EffectInv
<1> QED BY <1>1, <1>2, EffectStep, PTL DEF Spec
-----------------------------------------------------------------------------
(***************************************************************************)
(* Claims: who has them in hand, and for how long.                         *)
(***************************************************************************)

\* A claimed row carries a token of its own pool.
OwnTokens == \A e \in Events : row[e].status = "processing" => row[e].token \in PoolOf[e]

AccountInv == RunsInv /\ OwnTokens /\ ClaimsAccounted

LEMMA OwnedIsItems ==
  ASSUME NEW w \in Runners
  PROVE  Owned(w) = Items(run[w])
  BY DEF Owned, BatchItems, Items

\* A claimed row is abandoned, or in hand under its token and its own name.
LEMMA HolderOfRow ==
  ASSUME AccountInv, NEW e \in Events, row[e].status = "processing",
         row[e].token \notin abandoned
  PROVE  \E w \in Runners : \E item \in Items(run[w]) :
           item.event = e /\ item.token = row[e].token
<1>1. PICK w \in Runners : \E item \in Items(run[w]) : item.token = row[e].token
  BY OwnedIsItems DEF AccountInv, ClaimsAccounted, HeldTokens
<1>2. PICK item \in Items(run[w]) : item.token = row[e].token
  BY <1>1
<1>3. item.event \in Events /\ item.token \in PoolOf[item.event]
  BY ItemsTyped DEF AccountInv, RunsInv, FieldsOK, Sound, Item
<1>4. row[e].token \in PoolOf[e]
  BY DEF AccountInv, OwnTokens
<1> QED BY <1>2, <1>3, <1>4, Pools DEF Pools

LEMMA AccountStep == AccountInv /\ [Next]_vars => AccountInv'
<1> SUFFICES ASSUME AccountInv, [Next]_vars PROVE AccountInv'
  OBVIOUS
<1>1. RunsInv /\ RunsInv' /\ StepShape
  BY EveryStep DEF AccountInv
<1>2. \A e \in Events : row[e] \in Row
  BY <1>1 DEF RunsInv, FieldsOK, TableTypeOK
<1> SUFFICES ASSUME NEW e \in Events, row'[e].status = "processing"
             PROVE  /\ row'[e].token \in PoolOf[e]
                    /\ \/ row'[e].token \in abandoned'
                       \/ \E w \in Runners : \E item \in Items(run'[w]) : item.token = row'[e].token
  <2>1. \A w \in Runners : Owned(w)' = Items(run'[w])
    BY DEF Owned, BatchItems, Items
  <2>2. HeldTokens' = {item.token : item \in UNION {Items(run'[w]) : w \in Runners}}
    BY <2>1 DEF HeldTokens
  <2> QED BY <1>1, <2>2 DEF AccountInv, OwnTokens, ClaimsAccounted
<1>3. ASSUME row'[e].status = row[e].status, row'[e].token = row[e].token
      PROVE  /\ row'[e].token \in PoolOf[e]
             /\ \/ row'[e].token \in abandoned
                \/ \E w \in Runners : \E item \in Items(run[w]) :
                     item.event = e /\ item.token = row'[e].token
  BY <1>3, HolderOfRow DEF AccountInv, OwnTokens
<1>4. CASE \E w \in Runners : \E items \in SUBSET Items(run[w]) : Settling(w, items)
  <2> PICK w \in Runners : \E items \in SUBSET Items(run[w]) : Settling(w, items)
    BY <1>4
  <2> PICK items \in SUBSET Items(run[w]) : Settling(w, items)
    OBVIOUS
  <2>1. row'[e] = row[e] /\ \A item \in items : item.event = e => ~Holds(e, item.token)
    BY DEF Settling, Settles
  <2>2. abandoned' = abandoned /\ OthersKept(w) /\ Items(run'[w]) = Items(run[w]) \ items
    BY DEF Settling
  <2>3. ASSUME NEW v \in Runners, NEW item \in Items(run[v]), item.event = e,
               item.token = row'[e].token
        PROVE  item \in Items(run'[v])
    BY <2>1, <2>2, <2>3 DEF OthersKept, Holds
  <2> QED BY <1>3, <2>1, <2>2, <2>3
<1>5. CASE \E w \in Runners : Claiming(w)
  <2> PICK w \in Runners : Claiming(w)
    BY <1>5
  <2> PICK taken \in SUBSET Events :
        /\ Items(run[w]) = {} /\ OthersKept(w)
        /\ \A d \in taken :
             /\ row'[d] = Claimed(row[d], FreshToken(d))
             /\ \E item \in Items(run'[w]) : item.event = d /\ item.token = FreshToken(d)
        /\ \A d \in Events \ taken : \/ row'[d] = row[d]
                                     \/ row'[d] = Discarded(row[d])
        /\ abandoned' = abandoned \ {FreshToken(d) : d \in taken}
    BY DEF Claiming
  <2>1. \A d \in taken : FreshToken(d) \in PoolOf[d]
    BY <1>1, FreshTokenExists
  <2>2. CASE e \in taken
    <3>1. row'[e].token = FreshToken(e)
      BY <1>2, <2>2 DEF Claimed, Row
    <3> QED BY <2>1, <2>2, <3>1
  <2>3. CASE e \notin taken
    <3>1. row'[e] = row[e]
      BY <1>2, <2>3 DEF Discarded, Row
    <3>2. \A d \in taken : FreshToken(d) # row'[e].token
      BY <1>3, <2>1, <2>3, <3>1, Pools DEF Pools
    <3>3. CASE row'[e].token \in abandoned
      BY <1>3, <3>1, <3>2, <3>3
    <3>4. CASE \E v \in Runners : \E item \in Items(run[v]) :
                 item.event = e /\ item.token = row'[e].token
      <4> PICK v \in Runners : \E item \in Items(run[v]) :
                 item.event = e /\ item.token = row'[e].token
        BY <3>4
      <4>1. v # w /\ run'[v] = run[v]
        BY DEF OthersKept
      <4> QED BY <1>3, <3>1, <4>1
    <3> QED BY <1>3, <3>1, <3>3, <3>4
  <2> QED BY <2>2, <2>3
<1>6. CASE \E w \in Runners : Dying(w)
  <2> PICK w \in Runners : Dying(w)
    BY <1>6
  <2>1. row' = row /\ OthersKept(w)
        /\ abandoned' = abandoned \cup {item.token : item \in Items(run[w])}
    BY DEF Dying
  <2> QED BY <1>3, <2>1 DEF OthersKept
<1>7. CASE Ticking
  <2>1. row'[e].status = row[e].status /\ row'[e].token = row[e].token
    BY <1>2, <1>7, AgeTouchesTimers DEF Ticking, TickRows
  <2> QED BY <1>3, <1>7, <2>1 DEF Ticking
<1>8. CASE Producing
  BY <1>3, <1>8 DEF Producing
<1> QED BY <1>1, <1>4, <1>5, <1>6, <1>7, <1>8 DEF StepShape

\* Every claimed row is in the hands of a run or was taken down by an interrupted
\* one: no end of a run forgets a claim.
THEOREM AccountCorrect == Spec => []ClaimsAccounted
<1>1. Init => AccountInv
  <2> SUFFICES ASSUME Init PROVE AccountInv
    OBVIOUS
  <2>1. \A e \in Events : row[e].status # "processing"
    BY DEF Init, TableInit
  <2> QED BY <2>1, RunsInit DEF AccountInv, OwnTokens, ClaimsAccounted
<1>2. AccountInv => ClaimsAccounted
  BY DEF AccountInv
<1> QED BY <1>1, <1>2, AccountStep, PTL DEF Spec

\* Two items under the same token belong to the same run.
UniqueTokens ==
  \A v, w \in Runners : \A one \in Items(run[v]), other \in Items(run[w]) :
    one.token = other.token => v = w

\* What a run in its time has in hand is its own, and the age of the run and what is
\* left of the lease add up to the whole lease.
LeaseLeft ==
  \A w \in Runners : InTime(w) => \A item \in Items(run[w]) :
    /\ Holds(item.event, item.token)
    /\ row[item.event].wait + run[w].elapsed >= Visibility

LeaseInv == RunsInv /\ UniqueTokens /\ LeaseLeft

LEMMA UniqueStep ==
  ASSUME LeaseInv, StepShape
  PROVE  UniqueTokens'
<1>1. RunsInv /\ UniqueTokens
  BY DEF LeaseInv
<1>2. ASSUME \A v \in Runners : Items(run'[v]) \subseteq Items(run[v])
      PROVE  UniqueTokens'
  BY <1>1, <1>2 DEF UniqueTokens, Items
<1>3. CASE \E w \in Runners : Claiming(w)
  <2> PICK w \in Runners : Claiming(w)
    BY <1>3
  <2> PICK taken \in SUBSET Events :
        /\ Items(run[w]) = {} /\ OthersKept(w)
        /\ \A item \in Items(run'[w]) : item.event \in taken
        /\ \A item \in Items(run'[w]) : item.token = FreshToken(item.event)
    BY DEF Claiming
  <2>1. \A item \in Items(run'[w]) : item.token \notin HeldTokens
    BY <1>1, FreshTokenExists
  <2>2. \A v \in Runners : v # w => Items(run'[v]) = Items(run[v])
    BY DEF OthersKept
  <2>3. \A v \in Runners : \A item \in Items(run[v]) : item.token \in HeldTokens
    BY OwnedIsItems DEF HeldTokens
  <2>4. ASSUME NEW u \in Runners, NEW v \in Runners,
               NEW one \in Items(run'[u]), NEW other \in Items(run'[v]), one.token = other.token
        PROVE  u = v
    <3>1. CASE u # w /\ v # w
      <4>1. one \in Items(run[u]) /\ other \in Items(run[v])
        BY <2>2, <3>1
      <4> QED BY <1>1, <2>4, <4>1 DEF UniqueTokens
    <3>2. CASE u = w /\ v # w
      BY <2>1, <2>2, <2>3, <2>4, <3>2
    <3>3. CASE u # w /\ v = w
      BY <2>1, <2>2, <2>3, <2>4, <3>3
    <3> QED BY <3>1, <3>2, <3>3
  <2> QED BY <2>4 DEF UniqueTokens, Items
<1>4. CASE \E w \in Runners : Dying(w)
  BY <1>2, <1>4 DEF Dying, OthersKept
<1>5. CASE \E w \in Runners : \E items \in SUBSET Items(run[w]) : Settling(w, items)
  BY <1>2, <1>5 DEF Settling, OthersKept
<1>6. CASE Ticking \/ Producing
  BY <1>2, <1>6 DEF Ticking, Producing
<1> QED BY <1>3, <1>4, <1>5, <1>6 DEF StepShape

\* A row whose lease runs is neither claimed nor swept.
LEMMA LeaseStep ==
  ASSUME LeaseInv, RunsInv', StepShape
  PROVE  LeaseLeft'
<1>1. /\ RunsInv /\ UniqueTokens /\ LeaseLeft
      /\ \A w \in Runners : run[w] \in RunState /\ Sound(run[w]) /\ run[w].elapsed \in Nat
      /\ \A w \in Runners : run'[w] \in RunState /\ run'[w].elapsed \in Nat
      /\ \A e \in Events : row[e] \in Row /\ row[e].wait \in Nat
      /\ HostLimit \in Nat /\ Visibility \in Nat /\ HostLimit < Visibility
  <2>1. HostLimit \in Nat /\ Visibility \in Nat /\ HostLimit < Visibility
    BY RunBounds, DelayAssumption DEF RunBounds, DelayAssumption
  <2> QED BY <2>1 DEF LeaseInv, RunsInv, FieldsOK, TableTypeOK, RunState, Row
<1>2. \A w \in Runners : \A item \in Items(run[w]) : item.event \in Events /\ item \in Item
  BY <1>1, ItemsTyped DEF Item
<1> SUFFICES ASSUME NEW w \in Runners, run'[w].elapsed < HostLimit, NEW item \in Items(run'[w])
             PROVE  /\ row'[item.event].status = "processing" /\ row'[item.event].token = item.token
                    /\ row'[item.event].wait + run'[w].elapsed >= Visibility
  <2>1. \A v \in Runners : InTime(v)' <=> run'[v].elapsed < HostLimit
    BY DEF InTime
  <2> QED BY <2>1 DEF LeaseLeft, Holds, Items
<1> DEFINE e == item.event
\* Nothing happened to the row and to the run's clock.
<1>3. ASSUME item \in Items(run[w]), row'[e] = row[e], run'[w].elapsed = run[w].elapsed
      PROVE  /\ row'[e].status = "processing" /\ row'[e].token = item.token
             /\ row'[e].wait + run'[w].elapsed >= Visibility
  BY <1>1, <1>3 DEF LeaseLeft, InTime, Holds
\* In hand already, and in time: then the lease runs.
<1>4. ASSUME item \in Items(run[w]), run[w].elapsed < HostLimit
      PROVE  /\ Holds(e, item.token) /\ ~Due(row, e) /\ row[e].wait > 0
             /\ row[e].wait + run[w].elapsed >= Visibility
  <2>1. Holds(e, item.token) /\ row[e].wait + run[w].elapsed >= Visibility
    BY <1>1, <1>4 DEF LeaseLeft, InTime
  <2>2. row[e].wait > 0
    BY <1>1, <1>2, <1>4, <2>1
  <2> QED BY <2>1, <2>2 DEF Due
<1>5. CASE \E v \in Runners : Claiming(v)
  <2> PICK v \in Runners : Claiming(v)
    BY <1>5
  <2> PICK taken \in SUBSET Events :
        /\ Items(run[v]) = {} /\ OthersKept(v)
        /\ \A other \in Items(run'[v]) : other.event \in taken
        /\ \A d \in taken :
             row'[d] = Claimed(row[d], FreshToken(d)) /\ Due(row, d)
        /\ \A other \in Items(run'[v]) : other.token = FreshToken(other.event)
        /\ \A d \in Events \ taken : row'[d] = row[d] \/ Due(row, d)
    BY DEF Claiming
  <2>1. CASE v = w
    <3>1. e \in taken /\ e \in Events /\ item.token = FreshToken(e)
      BY <2>1
    <3>2. row'[e] = Claimed(row[e], item.token)
      BY <3>1
    <3>3. row'[e].status = "processing" /\ row'[e].token = item.token
          /\ row'[e].wait = Visibility
      BY <1>1, <3>1, <3>2 DEF Claimed, Row
    <3> QED BY <1>1, <3>3
  <2>2. CASE v # w
    <3>1. run'[w] = run[w]
      BY <2>2 DEF OthersKept
    <3>2. ~Due(row, e) /\ e \in Events
      BY <1>2, <1>4, <3>1
    <3>3. row'[e] = row[e]
      BY <3>2
    <3> QED BY <1>3, <3>1, <3>3
  <2> QED BY <2>1, <2>2
<1>6. CASE \E v \in Runners : Dying(v)
  <2> PICK v \in Runners : Dying(v)
    BY <1>6
  <2>1. v # w /\ run'[w] = run[w] /\ row' = row
    BY DEF Dying, OthersKept
  <2> QED BY <1>3, <2>1
<1>7. CASE \E v \in Runners : \E items \in SUBSET Items(run[v]) : Settling(v, items)
  <2> PICK v \in Runners : \E items \in SUBSET Items(run[v]) : Settling(v, items)
    BY <1>7
  <2> PICK items \in SUBSET Items(run[v]) : Settling(v, items)
    OBVIOUS
  <2>1. /\ Items(run'[v]) = Items(run[v]) \ items /\ OthersKept(v) /\ Settles(items)
        /\ run'[v].elapsed = run[v].elapsed \/ Items(run'[v]) = {}
    BY DEF Settling
  <2>2. item \in Items(run[w]) /\ run'[w].elapsed = run[w].elapsed
    BY <2>1 DEF OthersKept
  <2>3. Holds(e, item.token) /\ e \in Events
    BY <1>2, <1>4, <2>2
  <2>4. \A other \in items : ~(other.event = e /\ Holds(e, other.token))
    <3> SUFFICES ASSUME NEW other \in items, other.event = e, Holds(e, other.token) PROVE FALSE
      OBVIOUS
    <3>1. other.token = item.token
      BY <2>3 DEF Holds
    <3>2. v = w
      BY <1>1, <2>2, <3>1 DEF UniqueTokens
    <3>3. other = item
      BY <1>1, <2>2, <3>2, OneItemOfRow DEF Sound
    <3> QED BY <2>1, <3>2, <3>3
  <2>5. row'[e] = row[e]
    BY <2>1, <2>3, <2>4 DEF Settles
  <2> QED BY <1>3, <2>2, <2>5
<1>8. CASE Ticking
  <2>1. /\ item \in Items(run[w]) /\ run'[w] = Later(run[w]) /\ row' = TickRows
    BY <1>8 DEF Ticking
  <2>2. run[w].phase # "idle"
    BY <1>1, <2>1 DEF Sound, Items
  <2>3. run'[w].elapsed = AtMost(HostLimit, run[w].elapsed + 1)
    BY <1>1, <2>1, <2>2 DEF Later, RunState
  <2>4. run'[w].elapsed = run[w].elapsed + 1 /\ run[w].elapsed < HostLimit
    BY <1>1, <2>3 DEF AtMost
  <2>5. Holds(e, item.token) /\ row[e].wait > 0 /\ row[e].wait + run[w].elapsed >= Visibility
    BY <1>4, <2>1, <2>4
  <2>6. row'[e] = Aged(row[e]) /\ row[e] \in Row
    BY <1>1, <1>2, <2>1 DEF TickRows
  <2>7. row'[e].wait = row[e].wait - 1
    BY <2>5, <2>6 DEF Aged, CountDown, Row
  <2>8. row'[e].status = "processing" /\ row'[e].token = item.token
    BY <2>5, <2>6, AgeTouchesTimers DEF Holds
  <2>9. row[e].wait \in Nat
    BY <2>6 DEF Row
  <2> QED BY <1>1, <2>4, <2>5, <2>7, <2>8, <2>9
<1>9. CASE Producing
  <2>1. item \in Items(run[w]) /\ run'[w] = run[w]
    BY <1>9 DEF Producing
  <2>2. Holds(e, item.token) /\ e \in Events
    BY <1>2, <1>4, <2>1
  <2>3. row'[e] = row[e]
    BY <1>9, <2>2 DEF Producing, Holds, Open, OpenStatus
  <2> QED BY <1>3, <2>1, <2>3
<1> QED BY <1>5, <1>6, <1>7, <1>8, <1>9 DEF StepShape

LEMMA LeaseInvInit == Init => LeaseInv
<1> SUFFICES ASSUME Init PROVE LeaseInv
  OBVIOUS
<1>1. \A w \in Runners : Items(run[w]) = {}
  BY IdleIsSound DEF Init
<1> QED BY <1>1, RunsInit DEF LeaseInv, UniqueTokens, LeaseLeft

LEMMA LeaseInvStep == LeaseInv /\ [Next]_vars => LeaseInv'
<1> SUFFICES ASSUME LeaseInv, [Next]_vars PROVE LeaseInv'
  OBVIOUS
<1>1. RunsInv' /\ StepShape
  BY EveryStep DEF LeaseInv
<1> QED BY <1>1, UniqueStep, LeaseStep DEF LeaseInv

LEMMA LeaseHeld == LeaseInv => LeaseOutlivesRun
  BY OwnedIsItems DEF LeaseInv, LeaseLeft, LeaseOutlivesRun

\* A lease longer than the host limit is never lost by a run in its time, whatever
\* stalled or interrupted runs and other claims do.
THEOREM LeaseCorrect == Spec => []LeaseOutlivesRun
  BY LeaseInvInit, LeaseInvStep, LeaseHeld, PTL DEF Spec
-----------------------------------------------------------------------------
(***************************************************************************)
(* Per-aggregate order, for producers of one aggregate that run one after  *)
(* another and runners that agree on which types hold an aggregate back.   *)
(***************************************************************************)
AllScopes == {ScopeOf[w] : w \in Runners}

\* A type that one runner claims is a barrier to every other.
RunnersAgree ==
  \A v, w \in Runners : \A type \in ScopeOf[v].types :
    type \in ScopeOf[w].types \/ type \notin ScopeOf[w].known \cup Dormant

Claimable(e) == \E w \in Runners : TypeOf[e] \in ScopeOf[w].types

LEMMA AgreedBarrier ==
  ASSUME RunnersAgree, NEW scope \in AllScopes, NEW d \in Events, Claimable(d)
  PROVE  Barrier(scope, d)
  BY DEF RunnersAgree, AllScopes, Claimable, Barrier

\* Every step begins a producer or moves the rows as the table's operations do.
LEMMA EveryStepMoves ==
  ASSUME RunsInv, [Next]_vars
  PROVE  (\E e \in Events : BeginEnqueue(e)) \/ RowsMove(AllScopes)
<1> USE DEF TableUnchanged, tableVars
<1>1. /\ TableTypeOK /\ \A w \in Runners : Sound(run[w])
      /\ \A w \in Runners : run[w].batch # <<>> => Current(w).event \in Events
  BY CurrentTyped DEF RunsInv, FieldsOK
<1>2. row' = row /\ clock' = clock => RowsMove(AllScopes)
  BY <1>1, OperationsMove
<1>3. CASE \E w \in Runners : RunStep(w)
  <2> PICK w \in Runners : RunStep(w)
    BY <1>3
  <2>1. CASE StartRun(w) \/ BudgetSpent(w) \/ DeferRow(w) \/ StartHandler(w)
             \/ HandlerReturns(w) \/ HandlerOverruns(w)
    BY <1>2, <2>1 DEF StartRun, BudgetSpent, DeferRow, StartHandler, HandlerReturns, HandlerOverruns
  <2>2. CASE ClaimNext(w)
    <3> PICK size \in 0..BatchSize : \E rows \in [1..size -> Events] : ClaimRows(w, size, rows)
      BY <2>2 DEF ClaimNext
    <3>1. PICK rows \in [1..size -> Events] : ClaimRows(w, size, rows)
      OBVIOUS
    <3>2. PICK locked : ClaimBatch(ScopeOf[w], locked, Range(rows), [e \in Range(rows) |-> FreshToken(e)])
      BY <3>1 DEF ClaimRows
    <3>3. ScopeOf[w] \in AllScopes
      BY DEF AllScopes
    <3> QED BY <1>1, <3>2, <3>3, ClaimMoves
  <2>3. CASE AckProcessed(w)
    BY <1>1, <2>3, OperationsMove DEF AckProcessed, Sound
  <2>4. CASE AckFailed(w)
    BY <1>1, <2>4, OperationsMove DEF AckFailed, Sound
  <2>5. CASE AckSnooze(w)
    BY <1>1, <2>5, OperationsMove DEF AckSnooze, Sound
  <2>6. CASE SkipDuplicate(w)
    BY <1>1, <2>6, OperationsMove DEF SkipDuplicate
  <2>7. CASE CircuitBreak(w)
    BY <1>1, <2>7, OperationsMove DEF CircuitBreak
  <2>8. CASE BatchDone(w)
    BY <1>1, <2>8, OperationsMove DEF BatchDone
  <2> QED BY <2>1, <2>2, <2>3, <2>4, <2>5, <2>6, <2>7, <2>8 DEF RunStep
<1>4. CASE Tick
  BY <1>1, <1>4, OperationsMove DEF Tick
<1>5. CASE \E e \in Events : Produce(e)
  BY <1>1, <1>5, OperationsMove DEF Produce
<1>6. CASE \E w \in Runners : Interrupt(w)
  BY <1>2, <1>6 DEF Interrupt
<1>7. CASE OrphanEnds
  BY <1>2, <1>7 DEF OrphanEnds
<1>8. CASE UNCHANGED vars
  BY <1>2, <1>8 DEF vars
<1> QED BY <1>3, <1>4, <1>5, <1>6, <1>7, <1>8 DEF Next

\* Ages are ranks of the past, one for each row; a producer that has begun is the
\* youngest of its aggregate.
AgesInv ==
  /\ \A e \in Events : row[e].status # "absent" => row[e].born <= clock
  /\ \A d, e \in Events :
       row[d].status # "absent" /\ row[e].status # "absent" /\ row[d].born = row[e].born => d = e
  /\ \A d, e \in Events : row[d].status = "begun" /\ row[e].status # "absent"
                            /\ AggregateOf[d] = AggregateOf[e] => ~Older(row, d, e)

\* A row is in a runner's hands only once every older row of its aggregate that a
\* runner could claim is settled.
InTurn ==
  /\ \A e \in Events : row[e].status = "processing" => Claimable(e)
  /\ \A d, e \in Events :
       row[e].status = "processing" /\ AggregateOf[d] = AggregateOf[e]
         /\ Stored(row, d) /\ Older(row, d, e) /\ Claimable(d) => Terminal(row, d)

OrderInv == LeaseInv /\ AgesInv /\ InTurn

LEMMA BeginKeepsOrder ==
  ASSUME TableTypeOK, AgesInv, InTurn, SerialProducers,
         NEW x \in Events, BeginEnqueue(x)
  PROVE  AgesInv' /\ InTurn'
<1>1. \A e \in Events : row[e] \in Row /\ row[e].born \in Nat /\ clock \in Nat
  BY DEF TableTypeOK, Row
<1>2. /\ row[x].status = "absent" /\ clock' = clock + 1
      /\ \A d \in Events : AggregateOf[d] = AggregateOf[x] => row[d].status # "begun"
      /\ \A d \in Events : d # x => row'[d] = row[d]
      /\ row'[x] = Begun(row[x], clock + 1)
  BY DEF BeginEnqueue, TableTypeOK
<1>3. row'[x].born = clock + 1 /\ row'[x].status = "begun"
  BY <1>1, <1>2 DEF Begun, Row
<1>4. \A e \in Events : row'[e].status # "absent" => row'[e].born <= clock'
  BY <1>1, <1>2, <1>3 DEF AgesInv
<1>5. \A d, e \in Events :
        row'[d].status # "absent" /\ row'[e].status # "absent" /\ row'[d].born = row'[e].born
          => d = e
  BY <1>1, <1>2, <1>3 DEF AgesInv
<1>6. \A d, e \in Events : row'[d].status = "begun" /\ row'[e].status # "absent"
                             /\ AggregateOf[d] = AggregateOf[e] => ~Older(row', d, e)
  BY <1>1, <1>2, <1>3 DEF AgesInv, Older
<1>7. AgesInv'
  BY <1>4, <1>5, <1>6 DEF AgesInv, Older
<1>8. InTurn'
  BY <1>1, <1>2, <1>3
  DEF InTurn, AgesInv, Older, Stored, Terminal, OpenStatus, TerminalStatus, Claimable
<1> QED BY <1>7, <1>8

LEMMA MoveKeepsOrder ==
  ASSUME TableTypeOK, AgesInv, InTurn, RunnersAgree, RowsMove(AllScopes)
  PROVE  AgesInv' /\ InTurn'
<1>1. \A e \in Events :
        /\ row'[e].born = row[e].born /\ clock' = clock
        /\ row'[e].status = "begun" => row[e].status = "begun"
        /\ row'[e].status = "absent" <=> row[e].status = "absent"
        /\ Stored(row', e) => Stored(row, e) \/ row[e].status = "begun"
        /\ Terminal(row, e) => Terminal(row', e)
        /\ row'[e].status = "processing" =>
             row[e].status = "processing" \/ \E scope \in AllScopes : ClaimedInTurn(scope, e)
  BY DEF RowsMove
<1>2. AgesInv'
  BY <1>1 DEF AgesInv, Older
<1>3. ASSUME NEW e \in Events, row'[e].status = "processing" PROVE Claimable(e)
  BY <1>1, <1>3 DEF InTurn, ClaimedInTurn, AllScopes, Claimable
<1>4. ASSUME NEW d \in Events, NEW e \in Events, row'[e].status = "processing",
             AggregateOf[d] = AggregateOf[e], Stored(row', d), Older(row', d, e), Claimable(d)
      PROVE  Terminal(row', d)
  <2>1. Older(row, d, e)
    BY <1>1, <1>4 DEF Older
  <2>2. CASE \E scope \in AllScopes : ClaimedInTurn(scope, e)
    <3>1. ~Open(row', d)
      BY <1>4, <2>1, <2>2, AgreedBarrier DEF ClaimedInTurn
    <3> QED BY <1>4, <3>1 DEF Stored, Open, Terminal
  <2>3. CASE row[e].status = "processing"
    <3>1. row[d].status # "begun"
      BY <1>4, <2>1, <2>3 DEF AgesInv
    <3>2. Stored(row, d)
      BY <1>1, <1>4, <3>1
    <3>3. Terminal(row, d)
      BY <1>4, <2>1, <2>3, <3>2 DEF InTurn
    <3> QED BY <1>1, <3>3
  <2> QED BY <1>1, <1>4, <2>2, <2>3
<1>5. InTurn'
  <2>1. \A e \in Events : row'[e].status = "processing" => Claimable(e)
    BY <1>3
  <2>2. \A d, e \in Events :
          row'[e].status = "processing" /\ AggregateOf[d] = AggregateOf[e]
            /\ Stored(row', d) /\ Older(row', d, e) /\ Claimable(d) => Terminal(row', d)
    BY <1>4
  <2> QED BY <2>1, <2>2 DEF InTurn, Claimable
<1> QED BY <1>2, <1>5

\* Two runs in their time never have rows of one aggregate in hand.
LEMMA OneHolderPerAggregate ==
  ASSUME OrderInv, NEW v \in Runners, NEW w \in Runners, v # w, InTime(v), InTime(w),
         NEW one \in Items(run[v]), NEW other \in Items(run[w]),
         AggregateOf[one.event] = AggregateOf[other.event]
  PROVE  FALSE
<1> DEFINE d == one.event
           e == other.event
<1>1. /\ RunsInv /\ UniqueTokens /\ LeaseLeft /\ AgesInv /\ InTurn
      /\ \A x \in Events : row[x].born \in Nat
  BY DEF OrderInv, LeaseInv, RunsInv, FieldsOK, TableTypeOK, Row
<1>2. d \in Events /\ e \in Events
  BY <1>1, ItemsTyped DEF RunsInv, FieldsOK, Item
<1>3. Holds(d, one.token) /\ Holds(e, other.token)
  BY <1>1 DEF LeaseLeft
<1>4. d # e
  BY <1>1, <1>3 DEF UniqueTokens, Holds
<1>5. row[d].born # row[e].born
  BY <1>1, <1>2, <1>3, <1>4 DEF AgesInv, Holds
<1>6. Older(row, d, e) \/ Older(row, e, d)
  BY <1>1, <1>2, <1>5 DEF Older
<1>7. /\ row[d].status = "processing" /\ row[e].status = "processing"
      /\ Stored(row, d) /\ Stored(row, e) /\ ~Terminal(row, d) /\ ~Terminal(row, e)
      /\ Claimable(d) /\ Claimable(e)
  BY <1>1, <1>2, <1>3 DEF Holds, Stored, Terminal, OpenStatus, TerminalStatus, InTurn
<1> QED BY <1>1, <1>2, <1>6, <1>7 DEF InTurn

\* Two runs never work on the same aggregate at once, each in its time, if the
\* producers of an aggregate take turns and the runners agree on its barriers.
THEOREM OneHandlerCorrect ==
  ASSUME SerialProducers, RunnersAgree
  PROVE  Spec => []OneHandlerPerAggregate
<1>1. Init => OrderInv
  <2> SUFFICES ASSUME Init PROVE AgesInv /\ InTurn
    BY LeaseInvInit DEF OrderInv
  <2>1. \A e \in Events : row[e].status = "absent"
    BY DEF Init, TableInit
  <2>2. AgesInv
    BY <2>1 DEF AgesInv
  <2>3. InTurn
    BY <2>1 DEF InTurn
  <2> QED BY <2>2, <2>3
<1>2. OrderInv /\ [Next]_vars => OrderInv'
  <2> SUFFICES ASSUME OrderInv, [Next]_vars PROVE OrderInv'
    OBVIOUS
  <2>1. /\ LeaseInv' /\ RunsInv /\ TableTypeOK /\ AgesInv /\ InTurn
    BY LeaseInvStep DEF OrderInv, LeaseInv, RunsInv, FieldsOK
  <2>2. AgesInv' /\ InTurn'
    BY <2>1, EveryStepMoves, BeginKeepsOrder, MoveKeepsOrder
  <2> QED BY <2>1, <2>2 DEF OrderInv
<1>3. OrderInv => OneHandlerPerAggregate
  <2> SUFFICES ASSUME OrderInv, NEW v \in Runners, NEW w \in Runners,
                      Handling(v), Handling(w), InTime(v), InTime(w),
                      AggregateOf[Current(v).event] = AggregateOf[Current(w).event], v # w
               PROVE  FALSE
    BY DEF OneHandlerPerAggregate
  <2>1. Current(v) \in Items(run[v]) /\ Current(w) \in Items(run[w])
    BY CurrentTyped DEF OrderInv, LeaseInv, RunsInv, Sound, Handling
  <2> QED BY <2>1, OneHolderPerAggregate
<1> QED BY <1>1, <1>2, <1>3, PTL DEF Spec
-----------------------------------------------------------------------------
(***************************************************************************)
(* Attempts: each was tried, crashed, or is about to be tried or refunded. *)
(***************************************************************************)

\* Does run r have row e in hand without working on it?
Waits(r, e) == \E item \in Items(r) :
                 /\ item.event = e
                 /\ r.phase \in {"handling", "acking"} => item # Head(r.batch)

\* No run ever stalls up to the host limit.
AllInTime == \A w \in Runners : Active(w) => InTime(w)

LEMMA HoldersInTime ==
  ASSUME RunsInv, AllInTime, NEW w \in Runners, Items(run[w]) # {}
  PROVE  InTime(w)
<1>1. run[w].phase # "idle"
  BY DEF RunsInv, Sound, Items
<1> QED BY <1>1 DEF AllInTime, Active

LEMMA WaitingInSomeRun ==
  ASSUME NEW e \in Events
  PROVE  /\ WaitingInRun(e) <=> \E w \in Runners : Waits(run[w], e)
         /\ WaitingInRun(e)' <=> \E w \in Runners : Waits(run'[w], e)
  BY DEF WaitingInRun, Waits, Handling, Current, Owned, BatchItems, Items

\* Runs in their time share no row.
LEMMA OneHolderInTime ==
  ASSUME LeaseInv, AllInTime, NEW v \in Runners, NEW w \in Runners,
         NEW one \in Items(run[v]), NEW other \in Items(run[w]), one.event = other.event
  PROVE  v = w /\ one = other
<1>1. Holds(one.event, one.token) /\ Holds(other.event, other.token)
  BY HoldersInTime DEF LeaseInv, LeaseLeft
<1>2. v = w
  BY <1>1 DEF LeaseInv, UniqueTokens, Holds
<1> QED BY <1>2, OneItemOfRow DEF LeaseInv, RunsInv, FieldsOK, Sound

\* What is in hand in time is claimed, and not due.
LEMMA InHandInTime ==
  ASSUME LeaseInv, AllInTime, NEW w \in Runners, NEW item \in Items(run[w])
  PROVE  Holds(item.event, item.token) /\ ~Due(row, item.event)
<1>1. item.event \in Events
  BY ItemsTyped DEF LeaseInv, RunsInv, FieldsOK, Item
<1>2. /\ HostLimit \in Nat /\ Visibility \in Nat /\ HostLimit < Visibility
      /\ run[w].elapsed \in Nat /\ row[item.event].wait \in Nat
  BY <1>1, RunBounds, DelayAssumption
  DEF RunBounds, DelayAssumption, LeaseInv, RunsInv, FieldsOK, TableTypeOK, RunState, Row
<1>3. Holds(item.event, item.token) /\ row[item.event].wait + run[w].elapsed >= Visibility
      /\ run[w].elapsed < HostLimit
  BY HoldersInTime DEF LeaseInv, LeaseLeft, InTime
<1> QED BY <1>2, <1>3 DEF Due

\* A run that keeps what it has, at the same work, waits for as much as before.
LEMMA SameWaits ==
  ASSUME NEW r, NEW s, NEW e, s.batch = r.batch, s.unstarted = r.unstarted,
         s.phase \in {"handling", "acking"} => r.phase \in {"handling", "acking"}
  PROVE  Waits(r, e) => Waits(s, e)
  BY DEF Waits, Items

\* Going on to the next row, a run waits for all it has left.
LEMMA NextWaits ==
  ASSUME NEW r \in RunState, r.batch # <<>>, NEW s, NEW e,
         s.batch = Tail(r.batch), r.unstarted \subseteq s.unstarted,
         s.phase \notin {"handling", "acking"}
  PROVE  \A item \in Items(r) :
           item.event = e /\ (item # Head(r.batch) \/ item \in s.unstarted) => Waits(s, e)
<1> SUFFICES ASSUME NEW item \in Items(r), item.event = e,
                    item # Head(r.batch) \/ item \in s.unstarted
             PROVE  item \in Items(s)
  BY DEF Waits
<1>1. CASE item \in s.unstarted
  BY <1>1 DEF Items
<1>2. CASE item \notin s.unstarted
  <2>1. r.batch \in Seq(Item)
    BY DEF RunState
  <2> PICK i \in DOMAIN r.batch : item = r.batch[i]
    BY <1>2 DEF Items
  <2>2. i # 1
    BY <1>2, <2>1, BatchTail
  <2>3. i - 1 \in DOMAIN s.batch /\ s.batch[i - 1] = item
    BY <2>1, <2>2, BatchTail
  <2> QED BY <2>3 DEF Items
<1> QED BY <1>1, <1>2

\* What the table's operations do to the attempts of a row.
LEMMA WritesCount ==
  ASSUME TableTypeOK, NEW e \in Events
  PROVE  /\ row[e].attempts \in Nat
         /\ Aged(row[e]).attempts = row[e].attempts
         /\ Discarded(row[e]).attempts = row[e].attempts
         /\ Processed(row[e]).attempts = row[e].attempts
         /\ Snoozed(row[e]).attempts = Refund(row[e].attempts)
         /\ Withdrawn(row[e]).attempts = row[e].attempts
         /\ \A x : /\ Retried(row[e], x).attempts = row[e].attempts
                   /\ Released(row[e], x).attempts = Refund(row[e].attempts)
                   /\ Begun(row[e], x).attempts = row[e].attempts
                   /\ Committed(row[e], x).attempts = row[e].attempts
                   /\ Claimed(row[e], x).attempts = row[e].attempts + 1
<1>1. row[e] \in Row
  BY DEF TableTypeOK
<1> QED BY <1>1 DEF Row, Aged, Discarded, Processed, Snoozed, Withdrawn, Retried, Released,
                    Begun, Committed, Claimed

\* An acknowledgement leaves the attempts alone, but for a snooze it grants.
LEMMA AcksCount ==
  ASSUME TableTypeOK, NEW d \in Events, NEW t, NEW outcome,
         MarkProcessed(d, t) \/ (MarkFailed(d, t, outcome) /\ outcome # "snooze"),
         NEW e \in Events
  PROVE  row'[e].attempts = row[e].attempts
<1>1. row \in [Events -> Row]
  BY DEF TableTypeOK
<1>2. \/ row' = row
      \/ row' = [row EXCEPT ![d] = Processed(row[d])]
      \/ row' = [row EXCEPT ![d] = Discarded(row[d])]
      \/ \E delay : row' = [row EXCEPT ![d] = Retried(row[d], delay)]
  BY DEF MarkProcessed, MarkFailed, FailedAnswer
<1> QED BY <1>1, <1>2, WritesCount

LEMMA SnoozeCounts ==
  ASSUME TableTypeOK, NEW d \in Events, NEW t, MarkFailed(d, t, "snooze"), Holds(d, t)
  PROVE  row' = [row EXCEPT ![d] = Snoozed(row[d])]
  BY DEF MarkFailed, FailedAnswer

LEMMA TriesStep ==
  ASSUME LeaseInv, AllInTime, AttemptsWereTried, [Next]_vars
  PROVE  AttemptsWereTried'
<1>1. /\ RunsInv /\ TableTypeOK /\ run \in [Runners -> RunState] /\ RunsInv'
      /\ \A w \in Runners : run[w] \in RunState /\ Sound(run[w])
  BY EveryStep DEF LeaseInv, RunsInv, FieldsOK
<1>2. /\ tries \in [Events -> Nat] /\ tries' \in [Events -> Nat]
      /\ crashes \in Nat /\ crashes' \in Nat
      /\ row \in [Events -> Row] /\ row' \in [Events -> Row]
  BY <1>1, RunBounds DEF RunBounds, RunsInv, FieldsOK, TableTypeOK
<1> SUFFICES ASSUME NEW e \in Events
             PROVE  row'[e].attempts <= tries'[e] + crashes'
                      + IF \E w \in Runners : Waits(run'[w], e) THEN 1 ELSE 0
  BY WaitingInSomeRun DEF AttemptsWereTried
<1> DEFINE waits == \E w \in Runners : Waits(run[w], e)
           waitsNext == \E w \in Runners : Waits(run'[w], e)
           Accounted == row'[e].attempts <= tries'[e] + crashes' + IF waitsNext THEN 1 ELSE 0
<1>3. row[e].attempts <= tries[e] + crashes + IF waits THEN 1 ELSE 0
  BY WaitingInSomeRun DEF AttemptsWereTried
<1>4. /\ row[e].attempts \in Nat /\ row'[e].attempts \in Nat
      /\ tries[e] \in Nat /\ tries'[e] \in Nat /\ row[e] \in Row
  BY <1>2 DEF Row
<1> SUFFICES Accounted
  OBVIOUS
<1> HIDE DEF waits, waitsNext, Accounted
\* Nothing charged, and still waiting if it was.
<1>5. ASSUME row'[e].attempts = row[e].attempts, tries'[e] = tries[e], crashes' = crashes,
             waits => waitsNext
      PROVE  Accounted
  BY <1>2, <1>3, <1>4, <1>5 DEF Accounted
\* The charge of a waiting row is spent.
<1>6. ASSUME row'[e].attempts = row[e].attempts,
             tries'[e] + crashes' = tries[e] + crashes + 1
      PROVE  Accounted
  BY <1>2, <1>3, <1>4, <1>6 DEF Accounted
\* The charge is refunded.
<1>7. ASSUME row'[e].attempts = Refund(row[e].attempts), tries'[e] = tries[e],
             crashes' = crashes
      PROVE  Accounted
  BY <1>2, <1>3, <1>4, <1>7 DEF Refund, Accounted
\* Only run w changes.
<1>8. ASSUME NEW w \in Runners, OthersKept(w), Waits(run[w], e) => Waits(run'[w], e)
      PROVE  waits => waitsNext
  BY <1>8 DEF waits, waitsNext, OthersKept
\* A release by run w, which has the released items in hand and keeps the others.
<1>9. ASSUME NEW w \in Runners, NEW items \in SUBSET Items(run[w]), NEW delay,
             Release(Handed(items), delay), OthersKept(w), tries' = tries, crashes' = crashes,
             \A item \in Items(run[w]) \ items : item.event = e => Waits(run'[w], e)
      PROVE  Accounted
  <2>1. items \in SUBSET Item /\ \A one, other \in items : one.event = other.event => one = other
    BY <1>1, ItemsTyped, OneItemOfRow DEF Sound
  <2>2. Settles(items)
    BY <1>1, <1>9, <2>1, ReleaseSettles
  <2>3. row'[e] = row[e] \/ row'[e] = Released(row[e], delay)
    BY <1>9 DEF Release
  <2>4. CASE row'[e] = Released(row[e], delay)
    BY <1>1, <1>7, <1>9, <2>4, WritesCount
  <2>5. CASE row'[e] = row[e]
    <3>1. \A item \in items : item.event # e
      BY <2>2, <2>5, InHandInTime DEF Settles, Holds
    <3>2. Waits(run[w], e) => Waits(run'[w], e)
      BY <1>9, <3>1 DEF Waits
    <3> QED BY <1>5, <1>8, <1>9, <2>5, <3>2
  <2> QED BY <2>3, <2>4, <2>5
<1>10. CASE Tick
  <2>1. row'[e] = Aged(row[e]) /\ tries' = tries /\ crashes' = crashes
    BY <1>10 DEF Tick, TickRows, HistoryUnchanged
  <2>2. ASSUME NEW w \in Runners PROVE Waits(run[w], e) => Waits(run'[w], e)
    <3>1. run'[w] = Later(run[w])
      BY <1>10 DEF Tick
    <3>2. /\ run'[w].batch = run[w].batch /\ run'[w].unstarted = run[w].unstarted
          /\ run'[w].phase = run[w].phase
      BY <1>1, <3>1 DEF Later, RunState
    <3> QED BY <3>2, SameWaits
  <2>3. row'[e].attempts = row[e].attempts
    BY <1>1, <2>1, WritesCount
  <2> QED BY <1>5, <2>1, <2>2, <2>3 DEF waits, waitsNext
<1>11. CASE \E d \in Events : Produce(d)
  <2> PICK d \in Events : Produce(d)
    BY <1>11
  <2>1. (BeginEnqueue(d) \/ CommitEnqueue(d, 0)) /\ UNCHANGED <<run, crashes, tries>>
    BY DEF Produce, runVars
  <2>2. row'[e].attempts = row[e].attempts
    BY <1>1, <1>2, <2>1, WritesCount DEF BeginEnqueue, CommitEnqueue
  <2> QED BY <1>5, <2>1, <2>2 DEF waits, waitsNext
<1>12. CASE \E w \in Runners : Interrupt(w)
  <2>1. row' = row /\ tries' = tries /\ crashes' = crashes + 1
    BY <1>12 DEF Interrupt, TableUnchanged, tableVars
  <2> QED BY <1>2, <1>4, <1>6, <2>1
<1>13. CASE OrphanEnds \/ UNCHANGED vars
  <2>1. row' = row /\ tries' = tries /\ crashes' = crashes
    BY <1>13 DEF OrphanEnds, vars, TableUnchanged, tableVars
  <2>2. ASSUME NEW w \in Runners
        PROVE  /\ run'[w].batch = run[w].batch /\ run'[w].unstarted = run[w].unstarted
               /\ run'[w].phase = run[w].phase
    <3>1. run' = run \/ \E v \in Runners : \E d : run' = [run EXCEPT ![v].orphans = @ \ {d}]
      BY <1>13 DEF OrphanEnds, vars
    <3>2. CASE run' = run
      BY <3>2
    <3>3. ASSUME NEW v \in Runners, NEW d, run' = [run EXCEPT ![v].orphans = @ \ {d}]
          PROVE  /\ run'[w].batch = run[w].batch /\ run'[w].unstarted = run[w].unstarted
                 /\ run'[w].phase = run[w].phase
      BY <1>1, <3>3 DEF RunState
    <3> QED BY <3>1, <3>2, <3>3
  <2>3. \A w \in Runners : Waits(run[w], e) => Waits(run'[w], e)
    BY <2>2, SameWaits
  <2> QED BY <1>5, <2>1, <2>3 DEF waits, waitsNext
<1>14. CASE \E w \in Runners : RunStep(w)
  <2> PICK w \in Runners : RunStep(w)
    BY <1>14
  <2> DEFINE r == run[w]
             item == Current(w)
  <2>1. r \in RunState /\ Sound(r)
    BY <1>1
  \* The steps of run w change no other.
  <2>2. OthersKept(w)
    BY <1>1 DEF RunStep, OthersKept, StartRun, BudgetSpent, ClaimNext, ClaimRows, SkipDuplicate,
           DeferRow, StartHandler, HandlerReturns, HandlerOverruns, AckProcessed, AckFailed,
           AckSnooze, CircuitBreak, BatchDone, EndRun, NextRow
  <2>3. CASE StartRun(w) \/ HandlerReturns(w) \/ HandlerOverruns(w)
    <3>1. row' = row /\ tries' = tries /\ crashes' = crashes
      BY <2>3 DEF StartRun, HandlerReturns, HandlerOverruns, TableUnchanged, tableVars,
                  HistoryUnchanged
    <3>2. /\ run'[w].batch = r.batch /\ run'[w].unstarted = r.unstarted
          /\ run'[w].phase \in {"handling", "acking"} => r.phase \in {"handling", "acking"}
      BY <1>1, <2>1, <2>3 DEF StartRun, HandlerReturns, HandlerOverruns, RunState
    <3> QED BY <1>5, <1>8, <2>2, <3>1, <3>2, SameWaits
  <2>4. CASE BudgetSpent(w)
    <3>1. row' = row /\ tries' = tries /\ crashes' = crashes
      BY <2>4 DEF BudgetSpent, TableUnchanged, tableVars, HistoryUnchanged
    <3>2. Items(r) = {}
      BY <2>1, <2>4 DEF BudgetSpent, Sound, Items
    <3> QED BY <1>5, <1>8, <2>2, <3>1, <3>2 DEF Waits
  <2>5. CASE StartHandler(w)
    <3>1. /\ r.batch # <<>> /\ row' = row /\ crashes' = crashes /\ r.phase = "row"
          /\ tries' = [tries EXCEPT ![item.event] = @ + 1]
      BY <2>5 DEF StartHandler, AtRow, TableUnchanged, tableVars
    <3>2. run'[w].batch = r.batch /\ run'[w].unstarted = r.unstarted
      BY <1>1, <2>1, <2>5 DEF StartHandler, RunState
    <3>3. CASE item.event = e
      BY <1>2, <1>4, <1>6, <3>1, <3>3
    <3>4. CASE item.event # e
      <4>1. Waits(r, e) => Waits(run'[w], e)
        BY <3>2, <3>4 DEF Waits, Items, Current
      <4> QED BY <1>2, <1>5, <1>8, <2>2, <3>1, <3>4, <4>1
    <3> QED BY <3>3, <3>4
  <2>6. CASE DeferRow(w)
    <3>1. /\ r.batch # <<>> /\ row' = row /\ tries' = tries /\ crashes' = crashes
      BY <2>6 DEF DeferRow, AtRow, TableUnchanged, tableVars, HistoryUnchanged
    <3>2. /\ run'[w].batch = Tail(r.batch) /\ run'[w].unstarted = r.unstarted \cup {item}
          /\ run'[w].phase = "row"
      BY <1>1, <2>1, <2>6 DEF DeferRow, AtRow, RunState
    <3>3. Waits(r, e) => Waits(run'[w], e)
      BY <2>1, <3>1, <3>2, NextWaits DEF Waits, Current
    <3> QED BY <1>5, <1>8, <2>2, <3>1, <3>3
  <2>7. CASE SkipDuplicate(w)
    <3>1. /\ r.batch # <<>> /\ Release(Handed({item}), BackoffBase)
          /\ tries' = tries /\ crashes' = crashes
      BY <2>7 DEF SkipDuplicate, AtRow, HistoryUnchanged
    <3>2. /\ run'[w].batch = Tail(r.batch) /\ run'[w].unstarted = r.unstarted
          /\ run'[w].phase = "row"
      BY <1>1, <2>1, <2>7 DEF SkipDuplicate, AtRow, RunState
    <3>3. {item} \in SUBSET Items(r)
      BY <1>1, <3>1, CurrentTyped
    <3>4. \A one \in Items(r) \ {item} : one.event = e => Waits(run'[w], e)
      BY <2>1, <3>1, <3>2, NextWaits DEF Current
    <3> QED BY <1>9, <2>2, <3>1, <3>3, <3>4
  <2>8. CASE AckProcessed(w) \/ AckFailed(w)
    <3>1. /\ r.phase = "acking" /\ r.batch # <<>> /\ tries' = tries /\ crashes' = crashes
          /\ NextRow(w)
      BY <2>1, <2>8 DEF AckProcessed, AckFailed, Sound
    <3>2. /\ run'[w].batch = Tail(r.batch) /\ run'[w].unstarted = r.unstarted
          /\ run'[w].phase = "row"
      BY <1>1, <2>1, <3>1 DEF NextRow, RunState
    <3>3. Waits(r, e) => Waits(run'[w], e)
      BY <2>1, <3>1, <3>2, NextWaits DEF Waits
    <3>4. item.event \in Events
      BY <1>1, <3>1, CurrentTyped
    <3>5. row'[e].attempts = row[e].attempts
      <4>1. CASE AckProcessed(w)
        <5>1. MarkProcessed(item.event, item.token)
          BY <4>1 DEF AckProcessed
        <5> QED BY <1>1, <3>4, <5>1, AcksCount
      <4>2. CASE AckFailed(w)
        <5>1. MarkFailed(item.event, item.token, Charged(w)) /\ Charged(w) # "snooze"
          BY <4>2 DEF AckFailed, Charged
        <5> QED BY <1>1, <3>4, <5>1, AcksCount
      <4> QED BY <2>8, <4>1, <4>2
    <3> QED BY <1>5, <1>8, <2>2, <3>1, <3>3, <3>5
  <2>9. CASE AckSnooze(w)
    <3>1. /\ r.phase = "acking" /\ r.batch # <<>> /\ crashes' = crashes
          /\ MarkFailed(item.event, item.token, "snooze")
          /\ tries' = [tries EXCEPT ![item.event] = Refund(@)]
      BY <2>1, <2>9 DEF AckSnooze, Sound
    <3>2. /\ run'[w].batch = Tail(r.batch) /\ run'[w].unstarted = r.unstarted
          /\ run'[w].phase = "break"
      BY <1>1, <2>1, <2>9 DEF AckSnooze, RunState
    <3>3. Waits(r, e) => Waits(run'[w], e)
      BY <2>1, <3>1, <3>2, NextWaits DEF Waits
    <3>4. item.event \in Events /\ item \in Items(r) /\ item = Head(r.batch)
      BY <1>1, <3>1, CurrentTyped
    <3>5. CASE item.event # e
      <4>1. row'[e].attempts = row[e].attempts
        BY <1>2, <3>1, <3>4, <3>5, InHandInTime, SnoozeCounts, <1>1
      <4> QED BY <1>2, <1>5, <1>8, <2>2, <3>1, <3>3, <3>5, <4>1
    \* The row in work waits in no run, so a charge that is refunded was tried, or
    \* an interrupted run paid for it.
    <3>6. CASE item.event = e
      <4>1. ~waits
        <5> SUFFICES ASSUME NEW v \in Runners, NEW other \in Items(run[v]), other.event = e
                     PROVE  v = w /\ other = item
          BY <3>1, <3>4 DEF waits, Waits
        <5> QED BY <3>4, <3>6, OneHolderInTime
      <4>2. row'[e].attempts = Refund(row[e].attempts)
        BY <1>1, <1>2, <3>1, <3>4, <3>6, SnoozeCounts, InHandInTime, WritesCount
      <4>3. tries'[e] = Refund(tries[e])
        BY <1>2, <3>1, <3>6
      <4> QED BY <1>2, <1>3, <1>4, <3>1, <4>1, <4>2, <4>3 DEF Refund, Accounted
    <3> QED BY <3>5, <3>6
  <2>10. CASE CircuitBreak(w)
    <3>1. /\ Release(Handed(Items(r)), SnoozeDelay) /\ tries' = tries /\ crashes' = crashes
      BY <2>10, OwnedIsItems DEF CircuitBreak, HistoryUnchanged
    <3> QED BY <1>9, <2>2, <3>1
  <2>11. CASE BatchDone(w)
    <3>1. /\ r.batch = <<>> /\ Release(Handed(r.unstarted), 0)
          /\ tries' = tries /\ crashes' = crashes
      BY <2>11 DEF BatchDone, HistoryUnchanged
    <3>2. r.unstarted = Items(r)
      BY <3>1 DEF Items
    <3> QED BY <1>9, <2>2, <3>1, <3>2
  <2>12. CASE ClaimNext(w)
    <3>1. /\ r.phase = "drain" /\ tries' = tries /\ crashes' = crashes
          /\ \E size \in 0..BatchSize : \E rows \in [1..size -> Events] : ClaimRows(w, size, rows)
      BY <2>12 DEF ClaimNext
    <3>2. PICK size \in 0..BatchSize : \E rows \in [1..size -> Events] : ClaimRows(w, size, rows)
      BY <3>1
    <3>3. PICK rows \in [1..size -> Events] : ClaimRows(w, size, rows)
      BY <3>2
    <3> DEFINE given == [d \in Range(rows) |-> FreshToken(d)]
    <3>4. \/ /\ e \in Range(rows) /\ Due(row, e) /\ row'[e] = Claimed(row[e], given[e])
          \/ e \notin Range(rows) /\ row'[e] = row[e]
          \/ e \notin Range(rows) /\ row'[e] = Discarded(row[e])
      <4>1. PICK locked : ClaimBatch(ScopeOf[w], locked, Range(rows), given)
        BY <3>3 DEF ClaimRows
      <4> QED BY <1>1, <4>1, ClaimedRow
    <3>5. CASE e \notin Range(rows)
      <4>1. row'[e].attempts = row[e].attempts
        BY <1>1, <3>4, <3>5, WritesCount
      <4>2. Items(r) = {}
        BY <2>1, <3>1 DEF Sound, Items
      <4>3. ~Waits(r, e)
        BY <4>2 DEF Waits
      <4> QED BY <1>5, <1>8, <2>2, <3>1, <4>1, <4>3
    \* A claimed row was due, so no run had it in hand; now this one has.
    <3>6. CASE e \in Range(rows)
      <4>1. Due(row, e) /\ row'[e].attempts = row[e].attempts + 1
        BY <1>1, <3>4, <3>6, WritesCount
      <4>2. ~waits
        BY <4>1, InHandInTime DEF waits, Waits
      <4>3. PICK i \in 1..size : rows[i] = e
        BY <3>6 DEF Range
      <4>4. size # 0
        BY <4>3
      <4> DEFINE loaded == [j \in 1..size |->
                  [event |-> rows[j], token |-> given[rows[j]], snoozes |-> row[rows[j]].snoozes]]
      <4>5. run'[w].phase = "row" /\ run'[w].batch = loaded
        <5>1. run' = [run EXCEPT ![w].phase = "row", ![w].full = (size = BatchSize),
                                 ![w].batch = loaded]
          BY <3>3, <4>4 DEF ClaimRows
        <5> HIDE DEF loaded
        <5> QED BY <1>1, <2>1, <5>1 DEF RunState
      <4>6. run'[w].batch[i] \in Items(run'[w]) /\ run'[w].batch[i].event = e
        BY <4>3, <4>5 DEF Items
      <4>7. waitsNext
        BY <4>5, <4>6 DEF waitsNext, Waits
      <4> QED BY <1>2, <1>3, <1>4, <3>1, <4>1, <4>2, <4>7 DEF Accounted
    <3> QED BY <3>5, <3>6
  <2> QED BY <2>3, <2>4, <2>5, <2>6, <2>7, <2>8, <2>9, <2>10, <2>11, <2>12 DEF RunStep
<1> QED BY <1>10, <1>11, <1>12, <1>13, <1>14 DEF Next

\* An attempt is charged to a row only for a handler that was started, for an
\* interrupted run, or until the run that has it in hand gives it back, as long as
\* every run stays in its time.
THEOREM AttemptsCorrect == Spec /\ []AllInTime => []AttemptsWereTried
<1>1. Init => LeaseInv /\ AttemptsWereTried
  <2> SUFFICES ASSUME Init PROVE AttemptsWereTried
    BY LeaseInvInit
  <2>1. \A e \in Events : row[e].attempts = 0 /\ tries[e] = 0 /\ crashes = 0
    BY DEF Init, TableInit
  <2> QED BY <2>1 DEF AttemptsWereTried
<1>2. LeaseInv /\ AllInTime /\ AttemptsWereTried /\ [Next]_vars => LeaseInv' /\ AttemptsWereTried'
  BY LeaseInvStep, TriesStep
<1> QED BY <1>1, <1>2, PTL DEF Spec
-----------------------------------------------------------------------------
(***************************************************************************)
(* How old a run gets, if its store answers at once.                       *)
(***************************************************************************)
\* A run that waits for its handlers only is within its soft budget: a handler
\* starts if what is left covers its timeout.
Budgeted(r) ==
  /\ r.phase # "idle" => r.elapsed <= SoftBudget
  /\ r.phase = "handling" =>
       LET timeout == TimeoutOf[TypeOf[Head(r.batch).event]]
       IN  r.busy <= timeout /\ r.elapsed + timeout + Margin <= SoftBudget + r.busy

BudgetInv == RunsInv /\ \A w \in Runners : Budgeted(run[w])

LEMMA BudgetInTime == BudgetInv => AllInTime
  BY RunBounds, DelayAssumption
  DEF RunBounds, DelayAssumption, BudgetInv, Budgeted, AllInTime, Active, InTime, RunsInv,
      FieldsOK, RunState

LEMMA OneTickLater ==
  ASSUME NEW a \in Nat, NEW b \in Nat, NEW t \in Nat, NEW m \in Nat, NEW budget \in Nat,
         b < t, a + t + m <= budget + b
  PROVE  a + 1 <= budget /\ b + 1 <= t /\ (a + 1) + t + m <= budget + (b + 1)
  OBVIOUS

LEMMA BudgetStep ==
  ASSUME ~SlowStore, BudgetInv, [Next]_vars
  PROVE  BudgetInv'
<1>1. /\ RunsInv /\ RunsInv' /\ run \in [Runners -> RunState]
      /\ \A w \in Runners : run[w] \in RunState /\ Sound(run[w]) /\ Budgeted(run[w])
  BY EveryStep DEF BudgetInv, RunsInv, FieldsOK
<1>2. /\ SoftBudget \in Nat /\ HostLimit \in Nat /\ Margin \in Nat /\ SoftBudget < HostLimit
  BY RunBounds, DelayAssumption DEF RunBounds, DelayAssumption
<1> SUFFICES ASSUME NEW w \in Runners PROVE Budgeted(run'[w])
  BY <1>1 DEF BudgetInv, Budgeted
<1> DEFINE r == run[w]
           s == run'[w]
           timeout == TimeoutOf[TypeOf[Current(w).event]]
<1>3. r \in RunState /\ Sound(r) /\ Budgeted(r) /\ r.elapsed \in Nat /\ r.busy \in Nat
  BY <1>1 DEF RunState
<1>4. r.phase = "handling" => r.elapsed <= SoftBudget
  BY <1>3 DEF Budgeted
<1>5. ASSUME s.elapsed = r.elapsed, s.phase # "handling", r.phase # "idle"
      PROVE  Budgeted(s)
  BY <1>3, <1>5 DEF Budgeted
<1>6. ASSUME s.phase = "idle" PROVE Budgeted(s)
  BY <1>6 DEF Budgeted
<1>7. ASSUME s.elapsed = r.elapsed, s.busy = r.busy, s.phase = r.phase, s.batch = r.batch
      PROVE  Budgeted(s)
  BY <1>3, <1>7 DEF Budgeted
<1>8. ASSUME r.batch # <<>>
      PROVE  timeout \in Nat \ {0} /\ Current(w) = Head(r.batch)
  BY <1>1, <1>8, CurrentTyped, HandlersFitBudget, TypeAssumption
  DEF HandlersFitBudget, TypeAssumption
<1>9. CASE Tick
  <2>1. MayWait(w) /\ s = Later(r)
    BY <1>9 DEF Tick
  <2>2. CASE r.phase = "idle"
    BY <1>3, <1>6, <2>1, <2>2 DEF Later, RunState
  <2>3. CASE r.phase = "handling"
    <3>1. /\ r.batch # <<>> /\ r.busy < timeout
          /\ r.elapsed + timeout + Margin <= SoftBudget + r.busy
      BY <1>3, <1>8, <2>1, <2>3 DEF MayWait, Sound, Budgeted
    <3>2. timeout \in Nat /\ Current(w) = Head(r.batch)
      BY <1>8, <3>1
    <3>3. /\ s.elapsed = AtMost(HostLimit, r.elapsed + 1) /\ s.busy = r.busy + 1
          /\ s.phase = "handling" /\ s.batch = r.batch
      BY <1>3, <2>1, <2>3 DEF Later, RunState
    <3> HIDE DEF timeout
    <3>4. s.elapsed = r.elapsed + 1
      <4>1. r.elapsed + 1 < HostLimit
        BY <1>2, <1>3, <3>1, <3>2
      <4> QED BY <3>3, <4>1 DEF AtMost
    <3>5. s.busy <= timeout /\ s.elapsed + timeout + Margin <= SoftBudget + s.busy
          /\ s.elapsed <= SoftBudget
      <4>1. r.elapsed \in Nat /\ r.busy \in Nat /\ Margin \in Nat /\ SoftBudget \in Nat
        BY <1>2, <1>3
      <4> DEFINE a == r.elapsed
                 b == r.busy
      <4>2. /\ a \in Nat /\ b \in Nat /\ timeout \in Nat /\ b < timeout
            /\ a + timeout + Margin <= SoftBudget + b /\ s.elapsed = a + 1 /\ s.busy = b + 1
        BY <3>1, <3>2, <3>3, <3>4, <4>1
      <4> HIDE DEF a, b
      <4>3. /\ a + 1 <= SoftBudget /\ b + 1 <= timeout
            /\ (a + 1) + timeout + Margin <= SoftBudget + (b + 1)
        BY <4>1, <4>2, OneTickLater
      <4> QED BY <4>2, <4>3
    <3> QED BY <3>2, <3>3, <3>5 DEF Budgeted, timeout
  <2> QED BY <2>1, <2>2, <2>3 DEF MayWait, Active
<1>10. CASE (\E d \in Events : Produce(d)) \/ UNCHANGED vars
  <2>1. run' = run
    BY <1>10 DEF Produce, runVars, vars
  <2> QED BY <1>3, <2>1
<1>11. CASE OrphanEnds
  <2>1. run' = run \/ \E v \in Runners : \E d : run' = [run EXCEPT ![v].orphans = @ \ {d}]
    BY <1>11 DEF OrphanEnds
  <2>2. CASE run' = run
    BY <1>3, <2>2
  <2>3. ASSUME NEW v \in Runners, NEW d, run' = [run EXCEPT ![v].orphans = @ \ {d}]
        PROVE  Budgeted(s)
    BY <1>1, <1>7, <2>3 DEF RunState
  <2> QED BY <2>1, <2>2, <2>3
<1>12. CASE \E v \in Runners : Interrupt(v) \/ RunStep(v)
  <2> PICK v \in Runners : Interrupt(v) \/ RunStep(v)
    BY <1>12
  <2>1. CASE v # w
    <3>1. run'[w] = run[w]
      BY <1>1, <2>1 DEF RunStep, Interrupt, StartRun, BudgetSpent, ClaimNext, ClaimRows,
           SkipDuplicate, DeferRow, StartHandler, HandlerReturns, HandlerOverruns, AckProcessed,
           AckFailed, AckSnooze, CircuitBreak, BatchDone, EndRun, NextRow
    <3> QED BY <1>3, <3>1
  <2>2. CASE v = w /\ EndRun(w)
    <3>1. s.phase = "idle"
      BY <1>1, <2>2 DEF EndRun, NoRun
    <3> QED BY <1>6, <3>1
  <2>3. CASE v = w /\ StartRun(w)
    <3>1. s.elapsed = 0 /\ s.phase = "drain"
      BY <1>1, <1>3, <2>3 DEF StartRun, RunState
    <3> QED BY <1>2, <3>1 DEF Budgeted
  <2>4. CASE v = w /\ StartHandler(w)
    <3>1. /\ r.batch # <<>> /\ r.elapsed + timeout + Margin <= SoftBudget
      BY <2>4 DEF StartHandler, AtRow, Fits
    <3>2. s.elapsed = r.elapsed /\ s.busy = 0 /\ s.phase = "handling" /\ s.batch = r.batch
      BY <1>1, <1>3, <2>4 DEF StartHandler, RunState
    <3>3. timeout \in Nat /\ Current(w) = Head(r.batch)
      BY <1>8, <3>1
    <3>4. /\ s.busy <= timeout /\ s.elapsed + timeout + Margin <= SoftBudget + s.busy
          /\ s.elapsed <= SoftBudget
      <4> HIDE DEF timeout
      <4> QED BY <1>2, <1>3, <3>1, <3>2, <3>3
    <3> QED BY <3>2, <3>3, <3>4 DEF Budgeted
  <2>5. CASE v = w /\ (HandlerReturns(w) \/ HandlerOverruns(w))
    <3>1. s.elapsed = r.elapsed /\ s.phase = "acking" /\ r.phase = "handling"
      BY <1>1, <1>3, <2>5 DEF HandlerReturns, HandlerOverruns, RunState
    <3> QED BY <1>5, <3>1
  <2>6. CASE v = w /\ (SkipDuplicate(w) \/ DeferRow(w))
    <3>1. s.elapsed = r.elapsed /\ s.phase = "row" /\ r.phase = "row"
      BY <1>1, <1>3, <2>6 DEF SkipDuplicate, DeferRow, AtRow, RunState
    <3> QED BY <1>5, <3>1
  <2>7. CASE v = w /\ (AckProcessed(w) \/ AckFailed(w) \/ AckSnooze(w))
    <3>1. s.elapsed = r.elapsed /\ s.phase \in {"row", "break"} /\ r.phase = "acking"
      BY <1>1, <1>3, <2>7 DEF AckProcessed, AckFailed, AckSnooze, NextRow, RunState
    <3> QED BY <1>5, <3>1
  <2>8. CASE v = w /\ ~EndRun(w) /\ BatchDone(w)
    <3>1. s.elapsed = r.elapsed /\ s.phase = "drain" /\ r.phase = "row"
      BY <1>1, <1>3, <2>8 DEF BatchDone, RunState
    <3> QED BY <1>5, <3>1
  <2>9. CASE v = w /\ ~EndRun(w) /\ ClaimNext(w)
    <3>1. /\ r.phase = "drain"
          /\ \E size \in 0..BatchSize : \E rows \in [1..size -> Events] : ClaimRows(w, size, rows)
      BY <2>9 DEF ClaimNext
    <3>2. PICK size \in 0..BatchSize : \E rows \in [1..size -> Events] : ClaimRows(w, size, rows)
      BY <3>1
    <3>3. \E full, batch : run' = [run EXCEPT ![w].phase = "row", ![w].full = full,
                                              ![w].batch = batch]
      BY <2>9, <3>2 DEF ClaimRows
    <3>4. s.elapsed = r.elapsed /\ s.phase = "row"
      BY <1>1, <1>3, <3>3 DEF RunState
    <3> QED BY <1>5, <3>1, <3>4
  <2> QED BY <2>1, <2>2, <2>3, <2>4, <2>5, <2>6, <2>7, <2>8, <2>9
          DEF RunStep, Interrupt, BudgetSpent, CircuitBreak
<1> QED BY <1>9, <1>10, <1>11, <1>12 DEF Next

LEMMA BudgetInit == Init => BudgetInv
  BY RunsInit DEF Init, BudgetInv, Budgeted, NoRun

\* With a store that answers at once, no run comes near the host limit: handlers are
\* cut off at their timeouts, and none starts without room for its timeout.
THEOREM RunsEndInTime ==
  ASSUME ~SlowStore
  PROVE  Spec => []AllInTime
<1>1. BudgetInv /\ [Next]_vars => BudgetInv'
  BY BudgetStep
<1> QED BY <1>1, BudgetInit, BudgetInTime, PTL DEF Spec

\* With such a store nothing is charged that was not tried, without a condition on
\* the runs.
THEOREM FastStoreAttempts ==
  ASSUME ~SlowStore
  PROVE  Spec => []AttemptsWereTried
  BY RunsEndInTime, AttemptsCorrect, PTL

-----------------------------------------------------------------------------
(***************************************************************************)
(* The worker implements OrderedDelivery.                                  *)
(***************************************************************************)
LEMMA EveryStepLives ==
  ASSUME RunsInv, [Next]_vars, NEW e \in Events
  PROVE  Lives(AllScopes, e)
<1> USE DEF TableUnchanged, tableVars
<1>1. /\ TableTypeOK /\ \A w \in Runners : run[w] \in RunState /\ Sound(run[w])
      /\ \A w \in Runners : run[w].batch # <<>> => Current(w).event \in Events
  BY CurrentTyped DEF RunsInv, FieldsOK
<1>2. row' = row => Lives(AllScopes, e)
  BY <1>1, OperationsLive
<1>3. CASE \E w \in Runners : RunStep(w)
  <2> PICK w \in Runners : RunStep(w)
    BY <1>3
  <2>1. CASE StartRun(w) \/ BudgetSpent(w) \/ DeferRow(w) \/ StartHandler(w)
             \/ HandlerReturns(w) \/ HandlerOverruns(w)
    BY <1>2, <2>1 DEF StartRun, BudgetSpent, DeferRow, StartHandler, HandlerReturns, HandlerOverruns
  <2>2. CASE ClaimNext(w)
    <3> PICK size \in 0..BatchSize : \E rows \in [1..size -> Events] : ClaimRows(w, size, rows)
      BY <2>2 DEF ClaimNext
    <3>1. PICK rows \in [1..size -> Events] : ClaimRows(w, size, rows)
      OBVIOUS
    <3> DEFINE given == [d \in Range(rows) |-> FreshToken(d)]
    <3>2. PICK locked : ClaimBatch(ScopeOf[w], locked, Range(rows), given)
      BY <3>1 DEF ClaimRows
    <3>3. Range(rows) \subseteq Events
      BY DEF Range
    <3>4. \A d \in Events : FreshToken(d) \in Tokens
      <4>1. Items(run[w]) = {}
        BY <1>1, <2>2 DEF ClaimNext, Sound, Items
      <4> QED BY <4>1, FreshTokenExists, Pools DEF Pools
    <3>5. \A d \in Range(rows) : given[d] \in Tokens
      BY <3>3, <3>4
    <3>6. ScopeOf[w] \in AllScopes
      BY DEF AllScopes
    <3> HIDE DEF given
    <3> QED BY <1>1, <3>2, <3>5, <3>6, ClaimLives
  <2>3. CASE AckProcessed(w)
    BY <1>1, <2>3, OperationsLive DEF AckProcessed, Sound
  <2>4. CASE AckFailed(w)
    <3>1. Charged(w) \in {"retry", "discard", "snooze"}
      BY <2>4 DEF AckFailed, Charged
    <3> QED BY <1>1, <2>4, <3>1, OperationsLive DEF AckFailed, Sound
  <2>5. CASE AckSnooze(w)
    BY <1>1, <2>5, OperationsLive DEF AckSnooze, Sound
  <2>6. CASE SkipDuplicate(w)
    BY <1>1, <2>6, OperationsLive DEF SkipDuplicate
  <2>7. CASE CircuitBreak(w)
    BY <1>1, <2>7, OperationsLive DEF CircuitBreak
  <2>8. CASE BatchDone(w)
    BY <1>1, <2>8, OperationsLive DEF BatchDone
  <2> QED BY <2>1, <2>2, <2>3, <2>4, <2>5, <2>6, <2>7, <2>8 DEF RunStep
<1>4. CASE Tick
  BY <1>1, <1>4, OperationsLive DEF Tick
<1>5. CASE \E x \in Events : Produce(x)
  BY <1>1, <1>5, OperationsLive DEF Produce
<1>6. CASE \E w \in Runners : Interrupt(w)
  BY <1>2, <1>6 DEF Interrupt
<1>7. CASE OrphanEnds
  BY <1>2, <1>7 DEF OrphanEnds
<1>8. CASE UNCHANGED vars
  BY <1>2, <1>8 DEF vars
<1> QED BY <1>3, <1>4, <1>5, <1>6, <1>7, <1>8 DEF Next

\* The worker's state is well typed in every reachable state: among others, there
\* is always a fresh token for a claim, so the pools never run dry, and a claimed row
\* carries a token and was charged for its claim.
THEOREM TypeCorrect == Spec => []TypeOK
<1>1. Init => ClaimsCharged
  BY DEF Init, TableInit, ClaimsCharged
<1>2. RunsInv /\ ClaimsCharged /\ [Next]_vars => ClaimsCharged'
  <2> SUFFICES ASSUME RunsInv, ClaimsCharged, [Next]_vars,
                      NEW e \in Events, row'[e].status = "processing"
               PROVE  row'[e].attempts > 0 /\ row'[e].token # NoToken
    BY DEF ClaimsCharged
  <2>1. Lives(AllScopes, e) /\ row[e].attempts \in Nat
    BY EveryStepLives DEF RunsInv, FieldsOK, TableTypeOK, Row
  <2>2. \/ /\ row[e].status = "processing" /\ row'[e].attempts = row[e].attempts
           /\ row'[e].token = row[e].token
        \/ row'[e].attempts = row[e].attempts + 1 /\ row'[e].token \in Tokens
    BY <2>1 DEF Lives, TerminalStatus
  <2> QED BY <2>1, <2>2, TokenAssumption DEF ClaimsCharged, TokenAssumption
<1>3. RunsInv => FieldsOK
  BY DEF RunsInv
<1> QED BY <1>1, <1>2, <1>3, RunsInit, EveryStep, PTL DEF Spec, TypeOK

\* The events a run may have an effect on, by itself or through an orphan.
Reach(w) == run[w].seen \cup {item.event : item \in Items(run[w])}
WorldReach == strays \cup UNION {Reach(w) : w \in Runners}

\* Effects come from the handlers of rows a run had in hand, and from nowhere else.
LEMMA ReachStep ==
  ASSUME RunsInv, [Next]_vars
  PROVE  /\ \A w \in Runners : run'[w].seen \subseteq Reach(w)
         /\ strays' \subseteq WorldReach
         /\ delivered \subseteq delivered' /\ delivered' \subseteq delivered \cup WorldReach
<1> DEFINE Small == /\ \A w \in Runners : run'[w].seen \subseteq Reach(w)
                    /\ strays' \subseteq WorldReach
                    /\ delivered \subseteq delivered' /\ delivered' \subseteq delivered \cup WorldReach
<1> SUFFICES Small
  OBVIOUS
<1>1. /\ run \in [Runners -> RunState]
      /\ \A w \in Runners : /\ run[w] \in RunState /\ Sound(run[w])
                            /\ run[w].orphans \subseteq run[w].seen
                            /\ run[w].batch # <<>> => Current(w) \in Items(run[w])
  BY CurrentTyped DEF RunsInv, FieldsOK, Sound
<1>2. \A w \in Runners : /\ run[w].seen \subseteq Reach(w) /\ Reach(w) \subseteq WorldReach
                         /\ run[w].batch # <<>> => Current(w).event \in Reach(w)
  BY <1>1 DEF Reach, WorldReach
<1>3. strays \subseteq WorldReach
  BY DEF WorldReach
<1>4. \A w \in Runners : run[w].phase = "handling" => Current(w).event \in Reach(w)
  BY <1>1, <1>2 DEF Sound
<1> HIDE DEF Small
\* A step of one run that keeps its strays, with or without its row's effect.
<1>5. ASSUME NEW w \in Runners, OthersKept(w), run'[w].seen \subseteq Reach(w),
             strays' = strays,
             \/ delivered' = delivered
             \/ \E e \in Reach(w) : delivered' = delivered \cup {e}
      PROVE  Small
  <2>1. \A v \in Runners : run'[v].seen \subseteq Reach(v)
    BY <1>2, <1>5 DEF OthersKept
  <2> QED BY <1>2, <1>3, <1>5, <2>1 DEF Small
<1>6. ASSUME NEW w \in Runners, EndRun(w), delivered' = delivered
      PROVE  Small
  <2>1. \A v \in Runners : run'[v].seen \subseteq Reach(v)
    <3>1. NoRun(Cadence).seen = {}
      BY DEF NoRun
    <3> QED BY <1>1, <1>2, <1>6, <3>1 DEF EndRun
  <2>2. strays' \subseteq WorldReach
    BY <1>1, <1>2, <1>3, <1>4, <1>6 DEF EndRun
  <2> QED BY <1>6, <2>1, <2>2 DEF Small
<1> USE DEF HistoryUnchanged
<1>7. CASE \E w \in Runners : RunStep(w)
  <2> PICK w \in Runners : RunStep(w)
    BY <1>7
  <2>1. CASE StartRun(w) \/ SkipDuplicate(w) \/ AckProcessed(w) \/ AckFailed(w) \/ AckSnooze(w)
             \/ HandlerOverruns(w)
    <3>1. run'[w].seen = run[w].seen /\ OthersKept(w)
      BY <1>1, <2>1 DEF StartRun, SkipDuplicate, AckProcessed, AckFailed, AckSnooze, NextRow,
                        HandlerOverruns, RunState, OthersKept
    <3>2. delivered' = delivered /\ strays' = strays
      BY <2>1 DEF StartRun, SkipDuplicate, AckProcessed, AckFailed, AckSnooze, HandlerOverruns
    <3> QED BY <1>2, <1>5, <3>1, <3>2
  <2>2. CASE BudgetSpent(w)
    BY <1>6, <2>2 DEF BudgetSpent
  <2>3. CASE ClaimNext(w)
    <3> PICK size \in 0..BatchSize : \E rows \in [1..size -> Events] : ClaimRows(w, size, rows)
      BY <2>3 DEF ClaimNext
    <3> PICK rows \in [1..size -> Events] : ClaimRows(w, size, rows)
      OBVIOUS
    <3>1. delivered' = delivered
      BY <2>3 DEF ClaimNext
    <3>2. CASE EndRun(w)
      BY <1>6, <3>1, <3>2
    <3>3. CASE ~EndRun(w)
      <4>1. run'[w].seen = run[w].seen /\ OthersKept(w) /\ strays' = strays
        BY <1>1, <3>3 DEF ClaimRows, RunState, OthersKept
      <4> QED BY <1>2, <1>5, <3>1, <4>1
    <3> QED BY <3>2, <3>3
  <2>4. CASE DeferRow(w) \/ StartHandler(w)
    <3>1. run[w].batch # <<>> /\ run'[w].seen = run[w].seen \cup {Current(w).event}
          /\ OthersKept(w)
      BY <1>1, <2>4 DEF DeferRow, StartHandler, AtRow, RunState, OthersKept
    <3>2. delivered' = delivered /\ strays' = strays
      BY <2>4 DEF DeferRow, StartHandler
    <3> QED BY <1>2, <1>5, <3>1, <3>2
  <2>5. CASE HandlerReturns(w)
    <3>1. run'[w].seen = run[w].seen /\ OthersKept(w)
      BY <1>1, <2>5 DEF HandlerReturns, RunState, OthersKept
    <3>2. /\ delivered' \in {delivered, delivered \cup {Current(w).event}} /\ strays' = strays
          /\ Current(w).event \in Reach(w)
      BY <1>4, <2>5 DEF HandlerReturns
    <3> QED BY <1>2, <1>5, <3>1, <3>2
  <2>6. CASE CircuitBreak(w)
    BY <1>6, <2>6 DEF CircuitBreak
  <2>7. CASE BatchDone(w)
    <3>1. CASE EndRun(w)
      BY <1>6, <2>7, <3>1 DEF BatchDone
    <3>2. CASE ~EndRun(w)
      <4>1. run'[w].seen = run[w].seen /\ OthersKept(w) /\ strays' = strays
        BY <1>1, <2>7, <3>2 DEF BatchDone, RunState, OthersKept
      <4> QED BY <1>2, <1>5, <2>7, <4>1 DEF BatchDone
    <3> QED BY <3>1, <3>2
  <2> QED BY <2>1, <2>2, <2>3, <2>4, <2>5, <2>6, <2>7 DEF RunStep
<1>8. CASE Tick
  <2>1. \A w \in Runners : run'[w].seen = run[w].seen
    BY <1>1, <1>8 DEF Tick, Later, RunState
  <2> QED BY <1>2, <1>3, <1>8, <2>1 DEF Tick, Small
<1>9. CASE \E e \in Events : Produce(e)
  BY <1>2, <1>3, <1>9 DEF Produce, runVars, Small
<1>10. CASE \E w \in Runners : Interrupt(w)
  BY <1>6, <1>10 DEF Interrupt
<1>11. CASE OrphanEnds
  <2>1. CASE \E w \in Runners : \E e \in run[w].orphans :
               /\ run' = [run EXCEPT ![w].orphans = @ \ {e}] /\ UNCHANGED strays
               /\ delivered' \in {delivered, delivered \cup {e}}
    <3> PICK w \in Runners : \E e \in run[w].orphans :
               /\ run' = [run EXCEPT ![w].orphans = @ \ {e}] /\ UNCHANGED strays
               /\ delivered' \in {delivered, delivered \cup {e}}
      BY <2>1
    <3> PICK e \in run[w].orphans :
               /\ run' = [run EXCEPT ![w].orphans = @ \ {e}] /\ UNCHANGED strays
               /\ delivered' \in {delivered, delivered \cup {e}}
      OBVIOUS
    <3>1. e \in Reach(w)
      BY <1>1, <1>2
    <3>2. run'[w].seen = run[w].seen /\ OthersKept(w)
      BY <1>1 DEF RunState, OthersKept
    <3> QED BY <1>2, <1>5, <3>1, <3>2
  <2>2. CASE \E e \in strays : /\ strays' = strays \ {e} /\ UNCHANGED run
                               /\ delivered' \in {delivered, delivered \cup {e}}
    BY <1>2, <1>3, <2>2 DEF Small
  <2> QED BY <1>11, <2>1, <2>2 DEF OrphanEnds
<1>12. CASE UNCHANGED vars
  BY <1>2, <1>3, <1>12 DEF vars, Small
<1> QED BY <1>7, <1>8, <1>9, <1>10, <1>11, <1>12 DEF Next

\* What a row's attempts say about where it is in its life.
Counted(e) ==
  /\ row[e].attempts <= MaxAttempts
  /\ row[e].status \in {"pending", "failed"} => row[e].attempts < MaxAttempts
  /\ row[e].status \in {"absent", "begun"} => row[e].attempts = 0
  /\ row[e].status = "processing" => row[e].attempts > 0
  /\ row[e].status # "absent" => row[e].born <= clock

DeliveryInv == /\ EffectInv
               /\ \A e \in Events : Counted(e)
               /\ WorldReach \subseteq EverHanded

LEMMA EffectInit == Init => EffectInv
<1> SUFFICES ASSUME Init PROVE EffectInv
  OBVIOUS
<1>1. \A w \in Runners : ~Vouches(w)
  BY DEF Init, NoRun, Vouches
<1>2. ProcessedHasEffect
  BY DEF Init, TableInit, ProcessedHasEffect
<1> QED BY <1>1, <1>2, RunsInit DEF EffectInv

LEMMA CountedStep ==
  ASSUME FieldsOK, NEW e \in Events, Counted(e), NEW scopes, Lives(scopes, e),
         clock' \in {clock, clock + 1}
  PROVE  Counted(e)' /\ (e \in EverHanded => e \in EverHanded')
<1>1. /\ row[e].attempts \in Nat /\ row[e].born \in Nat /\ clock \in Nat
      /\ row[e].status \in Status
      /\ MaxAttempts \in Nat /\ MaxAttempts > 0 /\ NoToken \notin Tokens
  BY CeilingAssumption, TokenAssumption
  DEF FieldsOK, TableTypeOK, Row, CeilingAssumption, TokenAssumption
<1>2. row[e].attempts > 0 => Refund(row[e].attempts) = row[e].attempts - 1
  BY <1>1 DEF Refund
<1> QED
  <2>1. /\ row'[e].attempts <= MaxAttempts
        /\ row'[e].status \in {"pending", "failed"} => row'[e].attempts < MaxAttempts
        /\ row'[e].status \in {"absent", "begun"} => row'[e].attempts = 0
        /\ row'[e].status = "processing" => row'[e].attempts > 0
    BY <1>1, <1>2 DEF Lives, Counted, Open, OpenStatus, TerminalStatus
  <2>2. row'[e].status # "absent" => row'[e].born <= clock'
    <3>1. CASE BeginEnqueue(e) /\ row'[e].born = clock + 1
      <4>1. clock' = clock + 1
        BY <3>1 DEF BeginEnqueue
      <4> QED BY <1>1, <3>1, <4>1
    <3>2. CASE row'[e].born = row[e].born /\ row[e].status # "absent"
      BY <1>1, <3>2 DEF Counted
    <3>3. row'[e].status # "absent" =>
            \/ BeginEnqueue(e) /\ row'[e].born = clock + 1
            \/ row'[e].born = row[e].born /\ row[e].status # "absent"
      BY DEF Lives, Open, OpenStatus
    <3> QED BY <3>1, <3>2, <3>3
  <2>3. e \in EverHanded => e \in EverHanded'
    BY <1>1 DEF Lives, EverHanded
  <2> QED BY <2>1, <2>2, <2>3 DEF Counted

LEMMA DeliveryInvStep == DeliveryInv /\ [Next]_vars => DeliveryInv'
<1> SUFFICES ASSUME DeliveryInv, [Next]_vars
             PROVE  (\A e \in Events : Counted(e)') /\ WorldReach' \subseteq EverHanded'
  BY EffectStep DEF DeliveryInv
<1>1. /\ RunsInv /\ FieldsOK /\ RunsInv' /\ StepShape
      /\ \A e \in Events : Lives(AllScopes, e)
  BY EveryStep, EveryStepLives DEF DeliveryInv, EffectInv, RunsInv
<1>2. clock' \in {clock, clock + 1}
  BY <1>1, EveryStepMoves DEF BeginEnqueue, RowsMove
<1>3. \A e \in Events : Counted(e)' /\ (e \in EverHanded => e \in EverHanded')
  BY <1>1, <1>2, CountedStep DEF DeliveryInv
<1>4. EverHanded \subseteq EverHanded'
  BY <1>3 DEF EverHanded
<1>5. ASSUME NEW w \in Runners, NEW item \in Items(run'[w]) PROVE item.event \in EverHanded'
  <2>1. CASE item \in Items(run[w])
    BY <1>4, <2>1 DEF DeliveryInv, WorldReach, Reach
  <2>2. CASE item \notin Items(run[w])
    <3>1. Claiming(w)
      <4>1. \A v \in Runners : v # w /\ OthersKept(v) => Items(run'[w]) = Items(run[w])
        BY DEF OthersKept
      <4>2. Items(run'[w]) \subseteq Items(run[w]) \/ Claiming(w)
        BY <1>1, <4>1 DEF StepShape, Claiming, Dying, Settling, Ticking, Producing
      <4> QED BY <1>5, <2>2, <4>2
    <3>2. PICK taken \in SUBSET Events :
             /\ item.event \in taken
             /\ row'[item.event] = Claimed(row[item.event], FreshToken(item.event))
             /\ FreshToken(item.event) = item.token
      BY <1>5, <3>1 DEF Claiming
    <3>3. item.event \in Events /\ item.token \in Tokens
      BY <1>1, <1>5, ItemsTyped DEF RunsInv, FieldsOK, Item
    <3>4. row'[item.event].token = item.token
      <4>1. row[item.event] \in Row
        BY <1>1, <3>3 DEF FieldsOK, TableTypeOK
      <4> QED BY <3>2, <4>1 DEF Claimed, Row
    <3> QED BY <3>3, <3>4, TokenAssumption DEF EverHanded, TokenAssumption
  <2> QED BY <2>1, <2>2
<1>6. WorldReach \subseteq EverHanded
  BY DEF DeliveryInv
<1>7. /\ \A w \in Runners : run'[w].seen \subseteq WorldReach
      /\ strays' \subseteq WorldReach
  BY <1>1, ReachStep DEF WorldReach
<1>8. WorldReach' \subseteq EverHanded'
  <2> SUFFICES ASSUME NEW e \in WorldReach' PROVE e \in EverHanded'
    OBVIOUS
  <2>1. CASE e \in strays'
    BY <1>4, <1>6, <1>7, <2>1
  <2>2. CASE \E w \in Runners : e \in Reach(w)'
    BY <1>4, <1>5, <1>6, <1>7, <2>2 DEF Reach, Items
  <2> QED BY <2>1, <2>2 DEF WorldReach
<1> QED BY <1>3, <1>8


\* The life of a row is the life of its event, and a row gets a token by a hand-out.
LEMMA DeliveryMove ==
  ASSUME DeliveryInv, FieldsOK', ProcessedHasEffect', NEW e \in Events, Lives(AllScopes, e)
  PROVE  /\ \/ Delivery!Rest(e) \/ Delivery!Begin(e) \/ Delivery!Publish(e)
            \/ Delivery!Withdraw(e) \/ Delivery!HandOut(e) \/ Delivery!GiveBack(e)
            \/ Delivery!Process(e) \/ Delivery!Discard(e)
         /\ e \in EverHanded' <=> e \in EverHanded \/ Delivery!HandOut(e)
<1>1. /\ row[e].attempts \in Nat /\ row[e].status \in Status /\ MaxAttempts \in Nat
      /\ NoToken \notin Tokens /\ clock \in Nat /\ Counted(e)
      /\ \A d \in Events : row[d].born \in Nat /\ row[d].status \in Status
  BY CeilingAssumption, TokenAssumption
  DEF DeliveryInv, EffectInv, RunsInv, FieldsOK, TableTypeOK, Row, CeilingAssumption, TokenAssumption
\* The abstract actions, read on the table.
<1>2. /\ Delivery!Rest(e) <=> PhaseOf(e)' = PhaseOf(e) /\ row'[e].born = row[e].born
                                /\ row'[e].attempts = row[e].attempts
      /\ \A from, to : Delivery!Moves(e, from, to) <=> PhaseOf(e) \in from /\ PhaseOf(e)' = to
      /\ Delivery!KeepsRank(e) <=> row'[e].born = row[e].born
      /\ Delivery!KeepsAttempts(e) <=> row'[e].attempts = row[e].attempts
  BY DEF Delivery!Rest, Delivery!Moves, Delivery!KeepsRank, Delivery!KeepsAttempts
<1>3. Delivery!HandOut(e) => row'[e].attempts = row[e].attempts + 1
  BY DEF Delivery!HandOut
<1>4. e \in EverHanded <=> row[e].token # NoToken
  BY DEF EverHanded
<1>5. e \in EverHanded' <=> row'[e].token # NoToken
  BY DEF EverHanded
<1> USE DEF PhaseOf, OpenStatus, TerminalStatus, Open
<1>6. CASE row'[e].status = row[e].status /\ row'[e].born = row[e].born
           /\ row'[e].attempts = row[e].attempts /\ row'[e].token = row[e].token
  <2>1. Delivery!Rest(e)
    BY <1>2, <1>6
  <2> QED BY <1>1, <1>3, <1>4, <1>5, <1>6, <2>1
<1>7. CASE /\ BeginEnqueue(e) /\ row[e].status = "absent" /\ row'[e].status = "begun"
           /\ row'[e].born = clock + 1
           /\ row'[e].attempts = row[e].attempts /\ row'[e].token = row[e].token
  <2>1. Delivery!Moves(e, {"unborn"}, "begun") /\ Delivery!KeepsAttempts(e)
    BY <1>2, <1>7
  <2>2. ASSUME NEW d \in Events, PhaseOf(d) # "unborn" PROVE row[d].born < row'[e].born
    <3>1. row[d].status # "absent"
      BY <2>2
    <3> QED BY <1>1, <1>7, <3>1 DEF DeliveryInv, Counted
  <2>3. ASSUME SerialProducers, NEW d \in Events \ {e}, AggregateOf[d] = AggregateOf[e]
        PROVE  PhaseOf(d) # "begun" /\ PhaseOf(d)' # "begun"
    <3>1. row[d].status # "begun"
      BY <1>7, <2>3 DEF BeginEnqueue
    <3>2. row'[d] = row[d]
      BY <1>7, <2>3 DEF BeginEnqueue
    <3>3. PhaseOf(d) = "begun" => row[d].status = "begun"
      BY <1>1 DEF Status
    <3> QED BY <3>1, <3>2, <3>3
  <2>4. row'[e].born \in Nat
    BY <1>1, <1>7
  <2>5. Delivery!Begin(e)
    BY <2>1, <2>2, <2>3, <2>4 DEF Delivery!Begin
  <2> QED BY <1>1, <1>3, <1>4, <1>5, <1>7, <2>5
<1>8. CASE /\ row[e].status = "begun" /\ row'[e].status \in {"pending", "withdrawn"}
           /\ row'[e].born = row[e].born
           /\ row'[e].attempts = row[e].attempts /\ row'[e].token = row[e].token
  <2>1. Delivery!Publish(e) \/ Delivery!Withdraw(e)
    BY <1>2, <1>8 DEF Delivery!Publish, Delivery!Withdraw
  <2> QED BY <1>1, <1>3, <1>4, <1>5, <1>8, <2>1
<1>9. CASE /\ Open(row, e) /\ row'[e].status = "processing"
           /\ row'[e].born = row[e].born /\ row'[e].token \in Tokens
           /\ row[e].attempts < MaxAttempts /\ row'[e].attempts = row[e].attempts + 1
           /\ \E scope \in AllScopes : ClaimedInTurn(scope, e)
  <2>1. Delivery!Moves(e, {"queued", "held"}, "held") /\ Delivery!KeepsRank(e)
    BY <1>2, <1>9
  <2>2. ASSUME NEW d \in Barriers(e), row[d].born < row[e].born
        PROVE  PhaseOf(d)' \notin {"queued", "held"}
    <3>1. PICK w \in Runners : ClaimedInTurn(ScopeOf[w], e)
      BY <1>9 DEF AllScopes
    <3>2. d \in Events /\ AggregateOf[d] = AggregateOf[e] /\ Barrier(ScopeOf[w], d)
      BY <3>1 DEF Barriers, ClaimedInTurn
    <3>3. ~Open(row', d)
      BY <2>2, <3>1, <3>2 DEF ClaimedInTurn, Older
    <3>4. row'[d].status \in Status
      BY <3>2 DEF FieldsOK, TableTypeOK, Row
    <3> QED BY <3>3, <3>4 DEF Status
  <2>3. Delivery!HandOut(e)
    BY <1>9, <2>1, <2>2 DEF Delivery!HandOut, Delivery!Waiting, Barriers
  <2> QED BY <1>1, <1>5, <1>9, <2>3
<1>10. CASE /\ Open(row, e) /\ row'[e].status \in TerminalStatus
            /\ row[e].status = "processing" \/ row[e].attempts >= MaxAttempts
            /\ row'[e].born = row[e].born
            /\ row'[e].attempts = row[e].attempts /\ row'[e].token = row[e].token
  <2>1. row[e].status = "processing"
    BY <1>1, <1>10 DEF Counted
  <2>2. CASE row'[e].status = "processed"
    <3>1. e \in delivered'
      BY <2>2 DEF ProcessedHasEffect
    <3>2. Delivery!Process(e)
      BY <1>2, <1>10, <2>1, <2>2, <3>1 DEF Delivery!Process
    <3> QED BY <1>1, <1>3, <1>4, <1>5, <1>10, <3>2
  <2>3. CASE row'[e].status = "discarded"
    <3>1. Delivery!Discard(e)
      BY <1>2, <1>10, <2>1, <2>3 DEF Delivery!Discard
    <3> QED BY <1>1, <1>3, <1>4, <1>5, <1>10, <3>1
  <2> QED BY <1>10, <2>2, <2>3
<1>11. CASE /\ row[e].status = "processing" /\ row'[e].status \in {"pending", "failed"}
            /\ row'[e].born = row[e].born /\ row'[e].token = row[e].token
            /\ \/ row'[e].attempts = row[e].attempts /\ row[e].attempts < MaxAttempts
               \/ row'[e].attempts = Refund(row[e].attempts)
  <2>1. row'[e].attempts \in {row[e].attempts, row[e].attempts - 1}
        /\ row'[e].attempts < MaxAttempts
    BY <1>1, <1>11 DEF Refund, Counted
  <2>2. Delivery!GiveBack(e)
    BY <1>2, <1>11, <2>1 DEF Delivery!GiveBack
  <2> QED BY <1>1, <1>3, <1>4, <1>5, <1>11, <2>1, <2>2
<1> QED BY <1>6, <1>7, <1>8, <1>9, <1>10, <1>11 DEF Lives

LEMMA DeliveryInit == Init => DeliveryInv /\ Delivery!Init
<1> SUFFICES ASSUME Init PROVE DeliveryInv /\ Delivery!Init
  OBVIOUS
<1>1. /\ \A e \in Events : row[e].status = "absent" /\ row[e].attempts = 0 /\ row[e].born = 0
                            /\ row[e].token = NoToken
      /\ delivered = {} /\ strays = {}
      /\ \A w \in Runners : run[w] = NoRun(0)
  BY DEF Init, TableInit
<1>2. EffectInv
  BY EffectInit
<1>3. \A e \in Events : Counted(e)
  BY <1>1, CeilingAssumption DEF Counted, CeilingAssumption
<1>4. WorldReach = {}
  <2>1. \A w \in Runners : Items(run[w]) = {} /\ run[w].seen = {}
    BY <1>1, IdleIsSound DEF NoRun
  <2> QED BY <1>1, <2>1 DEF WorldReach, Reach
<1>5. EverHanded = {} /\ \A e \in Events : PhaseOf(e) = "unborn"
  BY <1>1 DEF EverHanded, PhaseOf
<1> QED BY <1>1, <1>2, <1>3, <1>4, <1>5 DEF DeliveryInv, Delivery!Init

LEMMA DeliveryStep == DeliveryInv /\ [Next]_vars => [Delivery!Next]_Delivery!vars
<1> SUFFICES ASSUME DeliveryInv, [Next]_vars PROVE Delivery!Next
  BY DEF Delivery!vars
<1>1. RunsInv /\ DeliveryInv' /\ FieldsOK' /\ ProcessedHasEffect'
  BY DeliveryInvStep DEF DeliveryInv, EffectInv, RunsInv
<1>2. \A e \in Events :
        /\ \/ Delivery!Rest(e) \/ Delivery!Begin(e) \/ Delivery!Publish(e)
           \/ Delivery!Withdraw(e) \/ Delivery!HandOut(e) \/ Delivery!GiveBack(e)
           \/ Delivery!Process(e) \/ Delivery!Discard(e)
        /\ e \in EverHanded' <=> e \in EverHanded \/ Delivery!HandOut(e)
  BY <1>1, DeliveryMove, EveryStepLives
<1>3. EverHanded' = EverHanded \cup {e \in Events : Delivery!HandOut(e)}
  BY <1>2 DEF EverHanded
<1>4. delivered \subseteq delivered' /\ delivered' \subseteq delivered \cup EverHanded
  BY <1>1, ReachStep DEF DeliveryInv
<1> QED BY <1>2, <1>3, <1>4 DEF Delivery!Next

\* The dispatch worker, with any number of runs that claim, stall, overrun, snooze,
\* refund and are interrupted, delivers every event at least once before it is
\* processed, in the order of its aggregate, within its attempts, and settles it once.
THEOREM DispatchImplementsDelivery == Spec => ImplementsOrderedDelivery
  BY DeliveryInit, DeliveryInvStep, DeliveryStep, PTL
  DEF Spec, ImplementsOrderedDelivery, Delivery!Spec

\* Any number of concurrent runs hand out the events of an aggregate in order: once
\* one was handed out, no older event that holds it back is ever retried, published
\* late or handed out again, if the aggregate's producers run one after another.
THEOREM HandedInOrder ==
  ASSUME SerialProducers
  PROVE  Spec => []Delivery!InOrder
<1>1. \A e \in Events : Barriers(e) \subseteq {d \in Events : AggregateOf[d] = AggregateOf[e]}
  BY DEF Barriers
<1>2. Delivery!Spec => []Delivery!InOrder
  BY <1>1, Delivery!PromiseKeepsOrder
<1> QED BY <1>2, DispatchImplementsDelivery, PTL DEF ImplementsOrderedDelivery
=============================================================================
