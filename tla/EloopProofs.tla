------------------------------- MODULE EloopProofs ------------------------------
(***************************************************************************)
(* The event loop of eloop_hisi_rtos.c for every set of handlers and every *)
(* delay, budget and rounding: its list stays sorted, every timer is       *)
(* accounted for once, no sleep misses a deadline, and run_once leaves     *)
(* nothing behind that is due.                                             *)
(***************************************************************************)
EXTENDS Eloop, Collections

Timers == [deadline : 0 .. U64Max, handler : Handlers, context : Contexts, stamp : Nat]

Before(first, second) ==
  \/ first.deadline < second.deadline
  \/ first.deadline = second.deadline /\ first.stamp < second.stamp

\* A list that the operations may leave behind, before the stamp `next` is used.
Sorted(list, next) ==
  /\ list \in Seq(Timers)
  /\ \A i \in 1 .. Len(list) : list[i].stamp < next
  /\ \A i, j \in 1 .. Len(list) : i < j => Before(list[i], list[j])

--------------------------------------------------------------------------------
(* The list operations *)

\* PlaceFor is defined: it follows the leading run of earlier deadlines.
LEMMA PlaceForFacts ==
  ASSUME NEW list \in Seq(Timers), NEW d \in Int
  PROVE  /\ PlaceFor(list, d) \in 1 .. Len(list) + 1
         /\ \A j \in 1 .. PlaceFor(list, d) - 1 : list[j].deadline <= d
         /\ PlaceFor(list, d) <= Len(list) => list[PlaceFor(list, d)].deadline > d
<1> DEFINE Early == {j \in 1 .. Len(list) : list[j].deadline <= d}
           n == Len(list)
           Fits(p) == /\ \A j \in 1 .. p - 1 : list[j].deadline <= d
                      /\ p <= Len(list) => list[p].deadline > d
<1>1. n \in Nat
  OBVIOUS
<1>2. PICK p \in 1 .. n + 1 : /\ \A j \in 1 .. p - 1 : j \in Early
                              /\ p <= n => p \notin Early
  BY <1>1, LeadingRun
<1>3. Fits(p)
  <2>1. \A j \in 1 .. n : list[j] \in Timers
    OBVIOUS
  <2>2. \A j \in 1 .. n : list[j].deadline \in Int
    BY <2>1, EloopAssumption DEF Timers
  <2>3. \A j \in 1 .. p - 1 : list[j].deadline <= d
    BY <1>2
  <2>4. ASSUME p <= n PROVE list[p].deadline > d
    <3>1. p \in 1 .. n /\ ~(list[p].deadline <= d)
      BY <1>1, <1>2, <2>4
    <3>2. QED
      BY <2>2, <3>1
  <2>5. QED
    BY <2>3, <2>4
<1>4. QED
  BY <1>2, <1>3 DEF PlaceFor

\* Insertion keeps a sorted list sorted when the new timer has the newest stamp.
LEMMA InsertSorted ==
  ASSUME NEW list, NEW next \in Nat, Sorted(list, next),
         NEW timer \in Timers, timer.stamp = next
  PROVE  /\ Sorted(Insert(list, timer), next + 1)
         /\ Len(Insert(list, timer)) = Len(list) + 1
<1> DEFINE p == PlaceFor(list, timer.deadline)
           more == PutAt(list, p, timer)
           n == Len(list)
<1>1. /\ list \in Seq(Timers) /\ n \in Nat
      /\ \A i \in 1 .. n : list[i] \in Timers /\ list[i].stamp < next
      /\ \A i, j \in 1 .. n : i < j => Before(list[i], list[j])
  BY DEF Sorted
<1>2. /\ p \in 1 .. n + 1
      /\ \A j \in 1 .. p - 1 : list[j].deadline <= timer.deadline
      /\ p <= n => list[p].deadline > timer.deadline
  <2>1. timer.deadline \in Int
    BY EloopAssumption DEF Timers
  <2>2. QED
    BY <1>1, <2>1, PlaceForFacts
<1>3. /\ more \in Seq(Timers) /\ Len(more) = n + 1
      /\ \A i \in 1 .. p - 1 : more[i] = list[i]
      /\ more[p] = timer
      /\ \A i \in p .. n : more[i + 1] = list[i]
  <2> HIDE DEF p
  <2>1. p \in 1 .. Len(list) + 1 /\ list \in Seq(Timers) /\ timer \in Timers
    BY <1>1, <1>2, Zenon
  <2>2. IsPut(Timers, list, p, timer, more)
    BY <2>1, PutAtFacts, Zenon
  <2>3. QED
    BY <2>2, Zenon DEF IsPut
<1>4. Insert(list, timer) = more
  BY DEF Insert
<1> HIDE DEF p, more, n
<1>5. \A i \in 1 .. n + 1 : \/ i \in 1 .. p - 1 /\ i \in 1 .. n
                            \/ i = p
                            \/ \E k \in p .. n : k \in 1 .. n /\ i = k + 1
  <2> TAKE i \in 1 .. n + 1
  <2>1. CASE i > p
    <3>1. i - 1 \in p .. n /\ i - 1 \in 1 .. n /\ i = (i - 1) + 1
      BY <1>1, <1>2, <2>1
    <3>2. QED
      BY <3>1
  <2>2. QED
    BY <1>1, <1>2, <2>1
<1>6. \A k \in p .. n : list[k].deadline > timer.deadline
  <2> TAKE k \in p .. n
  <2>1. p \in 1 .. n /\ k \in 1 .. n
    BY <1>1, <1>2
  <2>2. list[p].deadline > timer.deadline
    BY <1>2, <2>1
  <2>3. p = k \/ Before(list[p], list[k])
    BY <1>1, <2>1
  <2>4. list[p] \in Timers /\ list[k] \in Timers
    BY <1>1, <2>1
  <2>5. /\ list[p].deadline \in Int /\ list[k].deadline \in Int /\ timer.deadline \in Int
    BY <2>4, EloopAssumption DEF Timers
  <2>6. QED
    BY <2>2, <2>3, <2>5 DEF Before
<1>7. \A i \in 1 .. n + 1 : more[i].stamp < next + 1
  <2> TAKE i \in 1 .. n + 1
  <2>1. \A k \in 1 .. n : list[k].stamp < next + 1
    BY <1>1 DEF Timers
  <2>2. QED
    BY <1>3, <1>5, <2>1
<1>8. ASSUME NEW i \in 1 .. n + 1, NEW j \in 1 .. n + 1, i < j
      PROVE  Before(more[i], more[j])
  <2>0. timer.deadline \in Int /\ \A k \in 1 .. n : list[k].deadline \in Int
    BY <1>1, EloopAssumption DEF Timers
  <2>1. CASE i \in 1 .. p - 1 /\ i \in 1 .. n
    <3>1. more[i] = list[i]
      BY <1>3, <2>1
    <3>2. CASE j \in 1 .. p - 1 /\ j \in 1 .. n
      BY <1>1, <1>3, <1>8, <2>1, <3>1, <3>2
    <3>3. CASE j = p
      <4>1. list[i].deadline <= timer.deadline /\ list[i].stamp < timer.stamp
        BY <1>1, <1>2, <2>1
      <4>2. QED
        BY <1>3, <2>0, <2>1, <3>1, <3>3, <4>1 DEF Before
    <3>4. ASSUME NEW k \in p .. n, k \in 1 .. n, j = k + 1 PROVE Before(more[i], more[j])
      <4>1. i < k
        BY <1>2, <2>1, <3>4
      <4>2. QED
        BY <1>1, <1>3, <2>1, <3>1, <3>4, <4>1
    <3>5. QED
      BY <1>5, <3>2, <3>3, <3>4
  <2>2. CASE i = p
    <3>1. PICK k \in p .. n : k \in 1 .. n /\ j = k + 1
      BY <1>2, <1>5, <1>8, <2>2
    <3>2. QED
      BY <1>3, <1>6, <2>0, <2>2, <3>1 DEF Before
  <2>3. ASSUME NEW k \in p .. n, k \in 1 .. n, i = k + 1 PROVE Before(more[i], more[j])
    <3>1. PICK l \in p .. n : l \in 1 .. n /\ j = l + 1
      BY <1>2, <1>5, <1>8, <2>3
    <3>2. k < l
      BY <1>8, <2>3, <3>1
    <3>3. QED
      BY <1>1, <1>3, <2>3, <3>1, <3>2
  <2>4. QED
    BY <1>5, <2>1, <2>2, <2>3
<1>9. QED
  BY <1>3, <1>4, <1>7, <1>8 DEF Sorted, n

\* What is left of a sorted list, in its order, is sorted.
LEMMA SubSorted ==
  ASSUME NEW list, NEW next, Sorted(list, next), NEW left \in Seq(Timers), NEW from,
         from \in [1 .. Len(left) -> 1 .. Len(list)],
         \A i \in 1 .. Len(left) : left[i] = list[from[i]],
         \A i, j \in 1 .. Len(left) : i < j => from[i] < from[j]
  PROVE  Sorted(left, next)
<1>1. \A i \in 1 .. Len(left) : from[i] \in 1 .. Len(list)
  OBVIOUS
<1>2. QED
  BY <1>1 DEF Sorted

LEMMA RemoveAtSorted ==
  ASSUME NEW list, NEW next, Sorted(list, next), NEW p \in 1 .. Len(list)
  PROVE  Sorted(RemoveAt(list, p), next) /\ Len(RemoveAt(list, p)) = Len(list) - 1
<1> DEFINE left == RemoveAt(list, p)
           from == [i \in 1 .. Len(list) - 1 |-> IF i < p THEN i ELSE i + 1]
<1>1. list \in Seq(Timers) /\ Len(list) \in Nat
  BY DEF Sorted
<1>2. /\ left \in Seq(Timers) /\ Len(left) = Len(list) - 1
      /\ \A i \in 1 .. p - 1 : left[i] = list[i]
      /\ \A i \in p .. Len(list) - 1 : left[i] = list[i + 1]
  BY <1>1, RemoveAtFacts
<1> HIDE DEF left
<1>3. from \in [1 .. Len(left) -> 1 .. Len(list)]
  BY <1>1, <1>2
<1>4. ASSUME NEW i \in 1 .. Len(left) PROVE left[i] = list[from[i]]
  <2>1. CASE i < p
    BY <1>1, <1>2, <2>1
  <2>2. CASE ~(i < p)
    BY <1>1, <1>2, <2>2
  <2>3. QED
    BY <2>1, <2>2
<1>5. \A i, j \in 1 .. Len(left) : i < j => from[i] < from[j]
  BY <1>1, <1>2
<1> HIDE DEF from
<1>6. Sorted(left, next)
  BY <1>2, <1>3, <1>4, <1>5, SubSorted
<1>7. QED
  BY <1>2, <1>6 DEF left

LEMMA TailSorted ==
  ASSUME NEW list, NEW next, Sorted(list, next), list # <<>>
  PROVE  Sorted(Tail(list), next) /\ Len(Tail(list)) = Len(list) - 1
<1>1. list \in Seq(Timers)
  BY DEF Sorted
<1>2. /\ Tail(list) \in Seq(Timers) /\ Len(Tail(list)) = Len(list) - 1
      /\ \A i \in 1 .. Len(Tail(list)) : Tail(list)[i] = list[i + 1]
  BY <1>1, HeadTailProperties
<1>3. \A i \in 1 .. Len(Tail(list)) : i \in 1 .. Len(list) /\ i + 1 \in 1 .. Len(list)
  BY <1>1, <1>2
<1> DEFINE left == Tail(list)
<1> HIDE DEF left
<1>4. \A i \in 1 .. Len(left) : left[i].stamp < next
  BY <1>2, <1>3, Zenon DEF Sorted, left
<1>5. \A i, j \in 1 .. Len(left) : i < j => Before(left[i], left[j])
  <2> SUFFICES ASSUME NEW i \in 1 .. Len(left), NEW j \in 1 .. Len(left), i < j
               PROVE  Before(left[i], left[j])
    OBVIOUS
  <2>1. /\ i + 1 \in 1 .. Len(list) /\ j + 1 \in 1 .. Len(list) /\ i + 1 < j + 1
    BY <1>2, <1>3 DEF left
  <2>2. left[i] = list[i + 1] /\ left[j] = list[j + 1]
    BY <1>2, Zenon DEF left
  <2>3. QED
    BY <2>1, <2>2, Zenon DEF Sorted
<1>6. QED
  BY <1>2, <1>4, <1>5, Zenon DEF Sorted, left

LEMMA RemoveAllSorted ==
  ASSUME NEW list, NEW next, Sorted(list, next), NEW h, NEW c
  PROVE  /\ Sorted(RemoveAll(list, h, c), next)
         /\ Len(RemoveAll(list, h, c)) \in Nat /\ Len(list) \in Nat
         /\ Len(RemoveAll(list, h, c)) <= Len(list)
<1> DEFINE left == RemoveAll(list, h, c)
           kept == (1 .. Len(list)) \ MatchesAt(list, h, c)
<1>1. list \in Seq(Timers)
  BY DEF Sorted
<1>2. left = Picked(list, kept)
  BY DEF RemoveAll
<1> HIDE DEF left, kept
<1>3. left \in Seq(Timers) /\ \E from : LeftOf(list, kept, Len(list), left, from)
  BY <1>1, <1>2, PickedOrder
<1>4. PICK from : LeftOf(list, kept, Len(list), left, from)
  BY <1>3
<1>5. Sorted(left, next)
  <2>1. /\ from \in [1 .. Len(left) -> 1 .. Len(list)]
        /\ \A i \in 1 .. Len(left) : left[i] = list[from[i]]
        /\ \A i, j \in 1 .. Len(left) : i < j => from[i] < from[j]
    BY <1>4, Zenon DEF LeftOf
  <2>2. QED
    BY <1>3, <2>1, SubSorted, Zenon
<1>6. Len(left) <= Len(list)
  <2>1. Len(left) \in Nat /\ Len(list) \in Nat
    BY <1>1, <1>3
  <2>2. QED
    BY <1>4, <2>1, RisingLength, Zenon DEF LeftOf
<1>7. QED
  BY <1>1, <1>3, <1>5, <1>6 DEF left

\* An operation on the first match has one.
LEMMA FirstMatchFacts ==
  ASSUME NEW list, NEW h, NEW c, MatchesAt(list, h, c) # {}
  PROVE  FirstMatch(list, h, c) \in MatchesAt(list, h, c)
<1> DEFINE At == MatchesAt(list, h, c)
<1>1. At \in SUBSET Nat
  BY DEF MatchesAt
<1> HIDE DEF At
<1>2. PICK p \in At : \A q \in At : p <= q
  BY <1>1, LeastElement DEF At
<1>3. QED
  BY <1>2 DEF FirstMatch, At

--------------------------------------------------------------------------------
(* What holds in every state *)

Typed ==
  /\ TypeOK
  /\ insertions \in Nat /\ withdrawn \in Nat
  /\ g_timeout_registrations \in Nat /\ g_timeout_executions \in Nat
  /\ pc = "handler" => budget # 0

IInv ==
  /\ Typed
  /\ Sorted(g_timeouts, insertions)
  /\ EachTimerOnce
  /\ SleepMeetsDeadline

\* What the width of the integer leaves of a sum that wraps at most once.
LEMMA WrappedSum ==
  ASSUME NEW m \in Nat, m > 0, NEW s \in Nat, s < m + m
  PROVE  s % m = IF s < m THEN s ELSE s - m
OBVIOUS

LEMMA QuotientBounds ==
  ASSUME NEW k \in Nat, k > 0, NEW s \in Nat
  PROVE  /\ s \div k \in Nat
         /\ (s \div k) * k \in Nat
         /\ (s \div k) * k <= s
         /\ s < (s \div k) * k + k
         /\ s < k => s \div k = 0
OBVIOUS

\* Rounding up gains less than a millisecond, and loses none but where the sum
\* wraps, and then everything.
LEMMA CeilingFacts ==
  ASSUME NEW us \in 0 .. U64Max
  PROVE  /\ CeilingMs(us) \in Nat
         /\ CeilingMs(us) * PerMs \in Nat
         /\ \/ us <= CeilingMs(us) * PerMs
            \/ SumWraps(us) /\ CeilingMs(us) * PerMs = 0
         /\ CeilingMs(us) * PerMs < us + PerMs
<1>1. /\ PerMs \in Nat /\ PerMs > 0 /\ PerMs <= U64Max /\ U64Max \in Nat
      /\ us \in Nat /\ us <= U64Max
  BY EloopAssumption
<1> DEFINE m == U64Max + 1
           s == us + PerMs - 1
           left == s % m
           ms == left \div PerMs
<1>2. left = IF s < m THEN s ELSE s - m
  BY <1>1, WrappedSum
<1>3. left \in Nat /\ (s < m => left = s) /\ (~(s < m) => left < PerMs)
  BY <1>1, <1>2
<1>4. CeilingMs(us) = ms
  BY DEF CeilingMs
<1>5. ~(s < m) => SumWraps(us)
  BY <1>1 DEF SumWraps
<1> HIDE DEF left
<1>6. /\ ms \in Nat /\ ms * PerMs \in Nat /\ ms * PerMs <= left
      /\ left < ms * PerMs + PerMs /\ (left < PerMs => ms = 0)
  BY <1>1, <1>3, QuotientBounds
<1> HIDE DEF ms
<1>7. CASE s < m
  BY <1>1, <1>3, <1>4, <1>6, <1>7
<1>8. CASE ~(s < m)
  <2>1. ms = 0 /\ ms * PerMs = 0
    BY <1>1, <1>3, <1>6, <1>8
  <2>2. QED
    BY <1>1, <1>4, <1>5, <1>8, <2>1
<1>9. QED
  BY <1>7, <1>8

LEMMA SaturatingFacts ==
  ASSUME NEW left \in 0 .. U64Max, NEW right \in Nat
  PROVE  SaturatingAdd(left, right) \in 0 .. U64Max
BY EloopAssumption DEF SaturatingAdd

LEMMA TimerFacts ==
  ASSUME Typed, NEW h \in Handlers, NEW c \in Contexts, NEW d \in Delays
  PROVE  /\ Timer(h, c, d) \in Timers /\ Timer(h, c, d).stamp = insertions
         /\ SaturatingAdd(now, d) \in 0 .. U64Max
<1>1. now \in 0 .. U64Max /\ d \in Nat
  BY EloopAssumption DEF Typed, TypeOK
<1>2. SaturatingAdd(now, d) \in 0 .. U64Max
  BY <1>1, SaturatingFacts
<1>3. QED
  BY <1>2 DEF Timer, Timers, Typed

\* A list of timers has the type that TypeOK asks of it.
LEMMA ListTyped ==
  ASSUME NEW list, NEW next, Sorted(list, next)
  PROVE  \A i \in 1 .. Len(list) :
           /\ list[i].deadline \in 0 .. U64Max
           /\ list[i].handler \in Handlers
           /\ list[i].context \in Contexts
<1>1. \A i \in 1 .. Len(list) : list[i] \in Timers
  BY DEF Sorted
<1>2. QED
  BY <1>1 DEF Timers

LEMMA HeadFacts ==
  ASSUME IInv, g_timeouts # <<>>
  PROVE  /\ Head(g_timeouts) = g_timeouts[1] /\ 1 \in 1 .. Len(g_timeouts)
         /\ Head(g_timeouts).deadline \in 0 .. U64Max
         /\ Head(g_timeouts).deadline \in Nat
<1>1. g_timeouts \in Seq(Timers)
  BY DEF IInv, Sorted
<1>2. Head(g_timeouts) = g_timeouts[1] /\ 1 \in 1 .. Len(g_timeouts)
  BY <1>1
<1>3. QED
  BY <1>2, ListTyped, EloopAssumption DEF IInv

\* Rescheduling the first match.
LEMMA UpdateLists ==
  ASSUME Typed, Sorted(g_timeouts, insertions),
         NEW h \in Handlers, NEW c \in Contexts, NEW d \in Delays,
         NEW deplete \in BOOLEAN, Update(h, c, d, deplete)
  PROVE  Sorted(g_timeouts', insertions') /\ Len(g_timeouts') = Len(g_timeouts)
<1> DEFINE p == FirstMatch(g_timeouts, h, c)
           left == RemoveAt(g_timeouts, p)
           timer == [g_timeouts[p] EXCEPT !.deadline = SaturatingAdd(now, d),
                                          !.stamp = insertions]
<1>1. p \in 1 .. Len(g_timeouts)
  BY FirstMatchFacts DEF Update, MatchesAt
<1>2. g_timeouts' = Insert(left, timer) /\ insertions' = insertions + 1
  BY DEF Update
<1>3. Sorted(left, insertions)
  BY <1>1, RemoveAtSorted
<1>4. g_timeouts[p] \in Timers
  BY <1>1 DEF Sorted
<1>5. SaturatingAdd(now, d) \in 0 .. U64Max
  BY TimerFacts
<1>6. timer \in Timers /\ timer.stamp = insertions /\ insertions \in Nat
  BY <1>4, <1>5 DEF Timers, Typed
<1> HIDE DEF p, left, timer
<1>7. Sorted(Insert(left, timer), insertions + 1) /\ Len(Insert(left, timer)) = Len(left) + 1
  BY <1>3, <1>6, InsertSorted
<1>8. Len(left) = Len(g_timeouts) - 1 /\ Len(g_timeouts) \in Nat
  <2>1. Len(left) = Len(g_timeouts) - 1
    BY <1>1, RemoveAtSorted DEF left
  <2>2. QED
    BY <2>1 DEF Sorted
<1>9. QED
  BY <1>2, <1>7, <1>8

\* The clients' part: what happens to the list.
LEMMA ClientLists ==
  ASSUME IInv, [Next]_vars
  PROVE  Sorted(g_timeouts', insertions')
<1>0. /\ Sorted(g_timeouts, insertions) /\ insertions \in Nat
      /\ Typed
  BY DEF IInv, Typed
<1>1. ASSUME NEW h \in Handlers, NEW c \in Contexts, NEW d \in Delays, Register(h, c, d)
      PROVE  Sorted(g_timeouts', insertions')
  <2>1. g_timeouts' = Insert(g_timeouts, Timer(h, c, d)) /\ insertions' = insertions + 1
    BY <1>1 DEF Register
  <2>2. Timer(h, c, d) \in Timers /\ Timer(h, c, d).stamp = insertions
    BY <1>0, TimerFacts
  <2>3. QED
    BY <1>0, <2>1, <2>2, InsertSorted
<1>2. ASSUME NEW h, NEW c, Cancel(h, c)
      PROVE  Sorted(g_timeouts', insertions')
  BY <1>0, <1>2, RemoveAllSorted DEF Cancel
<1>3. ASSUME NEW h, NEW c, CancelOne(h, c)
      PROVE  Sorted(g_timeouts', insertions')
  <2>1. FirstMatch(g_timeouts, h, c) \in 1 .. Len(g_timeouts)
    BY <1>3, FirstMatchFacts DEF CancelOne, MatchesAt
  <2>2. QED
    BY <1>0, <1>3, <2>1, RemoveAtSorted DEF CancelOne
<1>4. ASSUME NEW h \in Handlers, NEW c \in Contexts, NEW d \in Delays,
             NEW deplete \in BOOLEAN, Update(h, c, d, deplete)
      PROVE  Sorted(g_timeouts', insertions')
  BY <1>0, <1>4, UpdateLists
<1>5. ASSUME EloopInit \/ Destroy
      PROVE  Sorted(g_timeouts', insertions')
  <2>1. g_timeouts' = <<>>
    BY <1>5 DEF EloopInit, Destroy
  <2>2. QED
    BY <2>1 DEF Sorted
<1>6. CASE RunOne
  BY <1>0, <1>6, TailSorted DEF RunOne, Working, Unlinked
<1>7. ASSUME UNCHANGED <<g_timeouts, insertions>>
      PROVE  Sorted(g_timeouts', insertions')
  BY <1>0, <1>7
<1>8. QED
  <2>1. RunnerStep => RunOne \/ UNCHANGED <<g_timeouts, insertions>>
    BY DEF RunnerStep, HandlerReturns, RunOnceEnds, ClockFails, LeaveLoop, PollReturns,
           RunWaits, WaitUntil, RunStops, Stop, WaitReturns
  <2>2. Terminate \/ EloopWake \/ StartRun \/ Tick \/ UNCHANGED vars
        \/ (\E w \in Budgets : Poll(w))
        => UNCHANGED <<g_timeouts, insertions>>
    BY DEF Terminate, EloopWake, StartRun, Tick, vars, Poll
  <2>3. QED
    BY <1>1, <1>2, <1>3, <1>4, <1>5, <1>6, <1>7, <2>1, <2>2, Zenon DEF Next, Client

--------------------------------------------------------------------------------
(* Types *)

LEMMA TypedInit == Init => Typed
<1> SUFFICES ASSUME Init PROVE Typed
  OBVIOUS
<1>1. \A i \in 1 .. Len(g_timeouts) : FALSE
  BY DEF Init
<1>2. /\ now = 0 /\ budget = 0 /\ wake_at = Forever /\ insertions = 0 /\ withdrawn = 0
      /\ g_timeout_registrations = 0 /\ g_timeout_executions = 0
      /\ pc = "idle" /\ loop = "poll"
      /\ g_initialized = FALSE /\ g_terminate = FALSE /\ woken = FALSE
  BY Zenon DEF Init
<1>3. now \in 0 .. MaxTime
  BY <1>2, EloopAssumption
<1>4. /\ budget \in Nat \cup {Forever} /\ wake_at \in Nat \cup {Forever}
      /\ pc \in {"idle", "loop", "handler", "after", "waiting"} /\ loop \in {"run", "poll"}
  BY <1>2
<1>5. /\ g_initialized \in BOOLEAN /\ g_terminate \in BOOLEAN /\ woken \in BOOLEAN
      /\ insertions \in Nat /\ withdrawn \in Nat
      /\ g_timeout_registrations \in Nat /\ g_timeout_executions \in Nat
      /\ pc # "handler"
  BY <1>2
<1>6. QED
  BY <1>1, <1>3, <1>4, <1>5, Zenon DEF Typed, TypeOK

LEMMA TypedStep ==
  ASSUME IInv, [Next]_vars
  PROVE  Typed'
<1> USE EloopAssumption
<1>1. Typed
  BY DEF IInv
<1>2. \A i \in 1 .. Len(g_timeouts') :
        /\ g_timeouts'[i].deadline \in 0 .. U64Max
        /\ g_timeouts'[i].handler \in Handlers
        /\ g_timeouts'[i].context \in Contexts
  BY ClientLists, ListTyped
<1>3. ASSUME UNCHANGED <<pc, budget, wake_at, loop, now>>,
             g_initialized' \in BOOLEAN, g_terminate' \in BOOLEAN, woken' \in BOOLEAN,
             insertions' \in Nat, withdrawn' \in Nat,
             g_timeout_registrations' \in Nat, g_timeout_executions' \in Nat
      PROVE  Typed'
  BY <1>1, <1>2, <1>3 DEF Typed, TypeOK
<1>4. ASSUME EloopInit \/ Terminate \/ Destroy \/ EloopWake \/ UNCHANGED vars
      PROVE  Typed'
  <2>1. Len(g_timeouts) \in Nat
    BY DEF IInv, Sorted
  <2>2. CASE EloopInit
    <3>1. /\ UNCHANGED <<pc, budget, wake_at, loop, now, woken, insertions>>
          /\ g_initialized' = TRUE /\ g_terminate' = FALSE /\ withdrawn' = 0
          /\ g_timeout_registrations' = 0 /\ g_timeout_executions' = 0
      BY <2>2 DEF EloopInit, runner
    <3>2. g_initialized' \in BOOLEAN /\ g_terminate' \in BOOLEAN /\ woken \in BOOLEAN
      BY <1>1, <3>1 DEF Typed, TypeOK
    <3>3. QED
      BY <1>1, <1>3, <3>1, <3>2 DEF Typed
  <2>3. CASE Destroy
    <3>1. /\ UNCHANGED <<pc, budget, wake_at, loop, now, woken, insertions>>
          /\ g_initialized' = FALSE /\ g_terminate' = FALSE
          /\ withdrawn' = withdrawn + Len(g_timeouts)
          /\ UNCHANGED <<g_timeout_registrations, g_timeout_executions>>
      BY <2>3 DEF Destroy, runner, counters
    <3>2. g_initialized' \in BOOLEAN /\ g_terminate' \in BOOLEAN /\ woken \in BOOLEAN
      BY <1>1, <3>1 DEF Typed, TypeOK
    <3>3. withdrawn' \in Nat
      BY <1>1, <2>1, <3>1 DEF Typed
    <3>4. QED
      BY <1>1, <1>3, <3>1, <3>2, <3>3 DEF Typed
  <2>4. CASE Terminate \/ EloopWake
    BY <1>1, <1>3, <2>4 DEF Typed, TypeOK, Terminate, EloopWake, runner, counters, Wakes
  <2>5. CASE UNCHANGED vars
    BY <1>1, <1>3, <2>5 DEF Typed, TypeOK, vars, runner, counters
  <2>6. QED
    BY <1>4, <2>2, <2>3, <2>4, <2>5
<1>5. ASSUME NEW h \in Handlers, NEW c \in Contexts, NEW d \in Delays, Register(h, c, d)
      PROVE  Typed'
  BY <1>1, <1>3, <1>5 DEF Typed, TypeOK, Register, runner, counters, Wakes
<1>6. ASSUME NEW h, NEW c, Cancel(h, c) \/ CancelOne(h, c)
      PROVE  Typed'
  <2>1. withdrawn' \in Nat
    <3>1. CASE Cancel(h, c)
      <4>1. Len(RemoveAll(g_timeouts, h, c)) <= Len(g_timeouts)
            /\ Len(RemoveAll(g_timeouts, h, c)) \in Nat /\ Len(g_timeouts) \in Nat
        BY RemoveAllSorted DEF IInv
      <4>2. QED
        BY <1>1, <3>1, <4>1 DEF Cancel, Typed
    <3>2. CASE CancelOne(h, c)
      <4>1. withdrawn' = withdrawn + 1
        BY <3>2 DEF CancelOne
      <4>2. QED
        BY <1>1, <4>1 DEF Typed
    <3>3. QED
      BY <1>6, <3>1, <3>2
  <2>2. QED
    BY <1>1, <1>3, <1>6, <2>1
       DEF Typed, TypeOK, Cancel, CancelOne, runner, counters, Wakes
<1>7. ASSUME NEW h, NEW c, NEW d, NEW deplete, Update(h, c, d, deplete)
      PROVE  Typed'
  BY <1>1, <1>3, <1>7 DEF Typed, TypeOK, Update, runner, counters, Wakes
<1>8. CASE StartRun
  BY <1>1, <1>2, <1>8 DEF Typed, TypeOK, StartRun, Enter, counters
<1>9. ASSUME NEW w \in Budgets, Poll(w) PROVE Typed'
  BY <1>1, <1>2, <1>9 DEF Typed, TypeOK, Poll, Enter, counters
<1>10. CASE Tick
  BY <1>1, <1>2, <1>10 DEF Typed, TypeOK, Tick, runner, counters
<1>11. CASE RunOne
  BY <1>1, <1>2, <1>11 DEF Typed, TypeOK, RunOne, Working, counters
<1>12. CASE HandlerReturns
  BY <1>1, <1>2, <1>12 DEF Typed, TypeOK, HandlerReturns
<1>13. CASE RunOnceEnds \/ ClockFails
  BY <1>1, <1>2, <1>13 DEF Typed, TypeOK, RunOnceEnds, ClockFails, LeaveLoop, counters
<1>14. CASE RunStops
  BY <1>1, <1>2, <1>14 DEF Typed, TypeOK, RunStops, Stop, counters
<1>15. CASE WaitReturns
  BY <1>1, <1>2, <1>15 DEF Typed, TypeOK, WaitReturns, Enter, counters
<1>16. ASSUME NEW t \in Nat \cup {Forever}, WaitUntil(t) PROVE Typed'
  BY <1>1, <1>2, <1>16 DEF Typed, TypeOK, WaitUntil, counters
<1>17. NextDeadline \in 0 .. U64Max
  <2>1. g_timeouts # <<>> => Head(g_timeouts).deadline \in 0 .. U64Max
    BY HeadFacts
  <2>2. QED
    BY <2>1, EloopAssumption DEF NextDeadline
<1>18. CASE PollReturns
  BY <1>16, <1>17, <1>18, CeilingFacts DEF PollReturns
<1>19. CASE RunWaits
  <2> DEFINE remaining == IF NextDeadline > now THEN NextDeadline - now ELSE 0
             ms == CeilingMs(remaining)
  <2>1. now \in Nat /\ remaining \in 0 .. U64Max
    BY <1>1, <1>17, EloopAssumption DEF Typed, TypeOK
  <2>2. ms * PerMs \in Nat
    BY <2>1, CeilingFacts
  <2>3. RunWaits => WaitUntil(IF NextDeadline = U64Max \/ ms >= WaitMax THEN Forever
                              ELSE now + ms * PerMs)
    BY DEF RunWaits
  <2> HIDE DEF remaining, ms
  <2>4. (IF NextDeadline = U64Max \/ ms >= WaitMax THEN Forever ELSE now + ms * PerMs)
        \in Nat \cup {Forever}
    BY <2>1, <2>2
  <2>5. QED
    BY <1>16, <1>19, <2>3, <2>4
<1>20. QED
  BY <1>4, <1>5, <1>6, <1>7, <1>8, <1>9, <1>10, <1>11, <1>12, <1>13, <1>14, <1>15,
     <1>18, <1>19, Zenon DEF Next, Client, RunnerStep

--------------------------------------------------------------------------------
(* No timer is run twice or lost *)

LEMMA OnceStep ==
  ASSUME IInv, [Next]_vars
  PROVE  EachTimerOnce'
<1>1. /\ Sorted(g_timeouts, insertions) /\ Len(g_timeouts) \in Nat /\ Typed
      /\ EachTimerOnce /\ g_timeouts \in Seq(Timers)
      /\ withdrawn \in Nat
      /\ g_timeout_registrations \in Nat /\ g_timeout_executions \in Nat
  BY DEF IInv, Sorted, Typed
<1> DEFINE running == IF pc = "handler" THEN 1 ELSE 0
<1>a. /\ g_timeout_registrations = Len(g_timeouts) + running + g_timeout_executions
                                      + withdrawn
      /\ running \in Nat /\ Len(g_timeouts) \in Nat /\ withdrawn \in Nat
      /\ g_timeout_registrations \in Nat /\ g_timeout_executions \in Nat
  BY <1>1 DEF EachTimerOnce
<1>b. ASSUME UNCHANGED <<pc, g_timeout_registrations, g_timeout_executions>>,
             Len(g_timeouts') \in Nat,
             withdrawn' = withdrawn + Len(g_timeouts) - Len(g_timeouts')
      PROVE  EachTimerOnce'
  <2>1. g_timeout_registrations = Len(g_timeouts') + running + g_timeout_executions
                                    + withdrawn'
    <3> HIDE DEF running
    <3>1. QED
      BY <1>a, <1>b
  <2>2. QED
    BY <1>b, <2>1 DEF EachTimerOnce
<1>2. ASSUME NEW h \in Handlers, NEW c \in Contexts, NEW d \in Delays, Register(h, c, d)
      PROVE  EachTimerOnce'
  <2>1. Len(Insert(g_timeouts, Timer(h, c, d))) = Len(g_timeouts) + 1
    BY <1>1, TimerFacts, InsertSorted DEF Typed
  <2>2. /\ Len(g_timeouts') = Len(g_timeouts) + 1 /\ pc' = pc /\ withdrawn' = withdrawn
        /\ g_timeout_registrations' = g_timeout_registrations + 1
        /\ g_timeout_executions' = g_timeout_executions
    BY <1>2, <2>1, Zenon DEF Register, runner
  <2>3. QED
    BY <1>1, <2>2 DEF EachTimerOnce
<1>3. ASSUME NEW h, NEW c, Cancel(h, c)
      PROVE  EachTimerOnce'
  <2>1. Len(g_timeouts') \in Nat
    BY <1>1, <1>3, RemoveAllSorted DEF Cancel
  <2>2. /\ withdrawn' = withdrawn + Len(g_timeouts) - Len(g_timeouts') /\ pc' = pc
        /\ g_timeout_registrations' = g_timeout_registrations
        /\ g_timeout_executions' = g_timeout_executions
    BY <1>3, Zenon DEF Cancel, runner, counters
  <2>3. QED
    BY <1>b, <2>1, <2>2
<1>4. ASSUME NEW h, NEW c, CancelOne(h, c)
      PROVE  EachTimerOnce'
  <2>1. FirstMatch(g_timeouts, h, c) \in 1 .. Len(g_timeouts)
    BY <1>4, FirstMatchFacts DEF CancelOne, MatchesAt
  <2>2. Len(g_timeouts') = Len(g_timeouts) - 1
    BY <1>1, <1>4, <2>1, RemoveAtSorted DEF CancelOne
  <2>3. /\ withdrawn' = withdrawn + 1 /\ pc' = pc
        /\ g_timeout_registrations' = g_timeout_registrations
        /\ g_timeout_executions' = g_timeout_executions
    BY <1>4, Zenon DEF CancelOne, runner, counters
  <2>4. QED
    BY <1>a, <1>b, <2>2, <2>3
<1>5. ASSUME NEW h \in Handlers, NEW c \in Contexts, NEW d \in Delays,
             NEW deplete \in BOOLEAN, Update(h, c, d, deplete)
      PROVE  EachTimerOnce'
  <2>1. Len(g_timeouts') = Len(g_timeouts)
    BY <1>1, <1>5, UpdateLists, Zenon
  <2>2. /\ withdrawn' = withdrawn /\ pc' = pc
        /\ g_timeout_registrations' = g_timeout_registrations
        /\ g_timeout_executions' = g_timeout_executions
    BY <1>5, Zenon DEF Update, runner, counters
  <2>3. QED
    BY <1>1, <2>1, <2>2 DEF EachTimerOnce
<1>6. CASE EloopInit
  <2>1. /\ Len(g_timeouts') = 0 /\ pc' # "handler" /\ withdrawn' = 0
        /\ g_timeout_registrations' = 0 /\ g_timeout_executions' = 0
    BY <1>6 DEF EloopInit, runner
  <2>2. QED
    BY <2>1 DEF EachTimerOnce
<1>7. CASE Destroy
  <2>1. /\ Len(g_timeouts') = 0 /\ withdrawn' = withdrawn + Len(g_timeouts)
        /\ pc # "handler" /\ pc' = pc
        /\ g_timeout_registrations' = g_timeout_registrations
        /\ g_timeout_executions' = g_timeout_executions
    BY <1>7 DEF Destroy, runner, counters
  <2>2. QED
    BY <1>1, <2>1 DEF EachTimerOnce
<1>8. CASE RunOne
  <2>1. Len(g_timeouts') = Len(g_timeouts) - 1
    BY <1>1, <1>8, TailSorted DEF RunOne, Working, Unlinked
  <2>2. /\ pc = "loop" /\ pc' = "handler" /\ withdrawn' = withdrawn
        /\ g_timeout_registrations' = g_timeout_registrations
        /\ g_timeout_executions' = g_timeout_executions
    BY <1>8, Zenon DEF RunOne, Working, counters
  <2>3. QED
    BY <1>1, <2>1, <2>2 DEF EachTimerOnce
<1>9. CASE HandlerReturns
  <2>1. /\ pc = "handler" /\ pc' = "loop" /\ withdrawn' = withdrawn
        /\ g_timeouts' = g_timeouts /\ g_timeout_registrations' = g_timeout_registrations
        /\ g_timeout_executions' = g_timeout_executions + 1
    BY <1>9, Zenon DEF HandlerReturns
  <2>2. QED
    BY <1>1, <2>1 DEF EachTimerOnce
<1>10. ASSUME UNCHANGED <<g_timeouts, g_timeout_registrations, g_timeout_executions,
                          withdrawn>>,
              pc = "handler" <=> pc' = "handler"
       PROVE  EachTimerOnce'
  BY <1>1, <1>10 DEF EachTimerOnce
<1>11. CASE RunOnceEnds \/ ClockFails \/ PollReturns \/ RunWaits \/ RunStops \/ WaitReturns
  BY <1>10, <1>11 DEF RunOnceEnds, ClockFails, LeaveLoop, PollReturns, RunWaits, WaitUntil,
                      RunStops, Stop, WaitReturns, Enter, counters
<1>12. CASE Terminate \/ EloopWake \/ StartRun \/ Tick \/ UNCHANGED vars
            \/ \E w \in Budgets : Poll(w)
  BY <1>10, <1>12 DEF Terminate, EloopWake, StartRun, Tick, vars, Poll, Enter, counters,
                      runner
<1>13. QED
  BY <1>2, <1>3, <1>4, <1>5, <1>6, <1>7, <1>8, <1>9, <1>11, <1>12, Zenon
     DEF Next, Client, RunnerStep

--------------------------------------------------------------------------------
(* No sleep misses a deadline *)

\* Until when the runner may sleep when `due` is the earliest deadline.
Meets(due, t, which, at) ==
  IF at # Forever
  THEN /\ due >= t => at < due + PerMs
       /\ at >= due \/ (SumWraps(due) /\ at <= t)
  ELSE \/ due = U64Max
       \/ which = "run" /\ due > (WaitMax - 1) * PerMs

LEMMA SleepsBy ==
  SleepMeetsDeadline <=>
    (pc = "waiting" /\ ~woken /\ g_timeouts # <<>>)
      => Meets(Head(g_timeouts).deadline, now, loop, wake_at)
BY DEF SleepMeetsDeadline, Meets

\* A longer wait than the hook can take is more than WaitMax - 1 milliseconds.
LEMMA LongWait ==
  ASSUME NEW us \in 0 .. U64Max, CeilingMs(us) >= WaitMax
  PROVE  us > (WaitMax - 1) * PerMs
<1>1. /\ CeilingMs(us) \in Nat /\ CeilingMs(us) * PerMs < us + PerMs
      /\ CeilingMs(us) * PerMs \in Nat
  BY CeilingFacts
<1>2. PerMs \in Nat /\ WaitMax \in Nat /\ us \in Nat
  BY EloopAssumption
<1> DEFINE ms == CeilingMs(us)
<1> HIDE DEF ms
<1>3. WaitMax * PerMs <= ms * PerMs
  BY <1>1, <1>2 DEF ms
<1>4. (WaitMax - 1) * PerMs = WaitMax * PerMs - PerMs
  BY <1>2
<1>5. WaitMax * PerMs \in Int
  BY <1>2
<1>6. QED
  BY <1>1, <1>2, <1>3, <1>4, <1>5 DEF ms

LEMMA PollMeets ==
  ASSUME IInv, PollReturns
  PROVE  SleepMeetsDeadline'
<1>1. SUFFICES ASSUME g_timeouts' # <<>>
               PROVE  Meets(Head(g_timeouts').deadline, now', loop', wake_at')
  BY DEF SleepMeetsDeadline, Meets
<1> DEFINE due == Head(g_timeouts).deadline
<1>2. /\ g_timeouts' = g_timeouts /\ now' = now /\ loop' = loop
      /\ wake_at' = IF NextDeadline = U64Max THEN Forever
                    ELSE CeilingMs(NextDeadline) * PerMs
  BY DEF PollReturns, WaitUntil
<1>3. NextDeadline = due
  BY <1>1, <1>2 DEF NextDeadline
<1>4. due \in 0 .. U64Max /\ now \in Nat
  BY <1>1, <1>2, HeadFacts DEF IInv, Typed, TypeOK
<1> HIDE DEF due
<1>5. /\ CeilingMs(due) * PerMs \in Nat
      /\ \/ due <= CeilingMs(due) * PerMs
         \/ SumWraps(due) /\ CeilingMs(due) * PerMs = 0
      /\ CeilingMs(due) * PerMs < due + PerMs
  BY <1>4, CeilingFacts
<1> DEFINE wait == CeilingMs(due) * PerMs
<1> HIDE DEF wait
<1>6. Meets(due, now, loop, wake_at')
  <2>1. wait \in Nat /\ (due <= wait \/ (SumWraps(due) /\ wait = 0)) /\ wait < due + PerMs
    BY <1>5 DEF wait
  <2>2. wake_at' = IF due = U64Max THEN Forever ELSE wait
    BY <1>2, <1>3 DEF wait
  <2>3. QED
    BY <1>4, <2>1, <2>2, EloopAssumption DEF Meets
<1>7. QED
  BY <1>2, <1>6 DEF due

LEMMA RunMeets ==
  ASSUME IInv, RunWaits
  PROVE  SleepMeetsDeadline'
<1>1. SUFFICES ASSUME g_timeouts' # <<>>
               PROVE  Meets(Head(g_timeouts').deadline, now', loop', wake_at')
  BY DEF SleepMeetsDeadline, Meets
<1> DEFINE due == Head(g_timeouts).deadline
           remaining == IF due > now THEN due - now ELSE 0
           ms == CeilingMs(remaining)
<1>2. /\ g_timeouts' = g_timeouts /\ now' = now /\ loop' = loop /\ loop = "run"
      /\ wake_at' = LET left == IF NextDeadline > now THEN NextDeadline - now ELSE 0
                        wait == CeilingMs(left)
                    IN  IF NextDeadline = U64Max \/ wait >= WaitMax THEN Forever
                        ELSE now + wait * PerMs
  BY DEF RunWaits, WaitUntil
<1>3. NextDeadline = due
  BY <1>1, <1>2 DEF NextDeadline
<1>4. wake_at' = IF due = U64Max \/ ms >= WaitMax THEN Forever ELSE now + ms * PerMs
  BY <1>2, <1>3
<1>5. /\ due \in Nat /\ now \in Nat /\ PerMs \in Nat /\ PerMs > 0
      /\ U64Max \in Nat /\ due <= U64Max
  BY <1>1, <1>2, HeadFacts, EloopAssumption DEF IInv, Typed, TypeOK
<1> HIDE DEF due
<1>6. /\ remaining \in 0 .. U64Max /\ due <= now + remaining
      /\ (due >= now => now + remaining = due) /\ remaining <= due
  BY <1>5
<1> HIDE DEF remaining
<1>7. /\ ms * PerMs \in Nat
      /\ remaining <= ms * PerMs \/ (SumWraps(remaining) /\ ms * PerMs = 0)
      /\ ms * PerMs < remaining + PerMs
      /\ ms >= WaitMax => remaining > (WaitMax - 1) * PerMs
  BY <1>6, CeilingFacts, LongWait
<1> HIDE DEF ms
<1>8. ASSUME due = U64Max
      PROVE  Meets(due, now, loop, wake_at')
  BY <1>4, <1>8, Zenon DEF Meets
<1>9. ASSUME due # U64Max, ms >= WaitMax
      PROVE  Meets(due, now, loop, wake_at')
  <2>1. (WaitMax - 1) * PerMs \in Int
    BY EloopAssumption
  <2>2. due > (WaitMax - 1) * PerMs
    BY <1>5, <1>6, <1>7, <1>9, <2>1
  <2>3. QED
    BY <1>2, <1>4, <1>9, <2>2, Zenon DEF Meets
<1>10. ASSUME due # U64Max, ~(ms >= WaitMax)
       PROVE  Meets(due, now, loop, wake_at')
  <2>1. wake_at' = now + ms * PerMs /\ wake_at' # Forever
    BY <1>4, <1>5, <1>7, <1>10, EloopAssumption
  <2>2. /\ due >= now => wake_at' < due + PerMs
        /\ wake_at' >= due \/ (SumWraps(due) /\ wake_at' <= now)
    <3> DEFINE wait == ms * PerMs
    <3>1. /\ wait \in Nat /\ wait < remaining + PerMs
          /\ remaining <= wait \/ (SumWraps(remaining) /\ wait = 0)
      BY <1>7
    <3>2. wake_at' = now + wait
      BY <2>1
    <3>3. SumWraps(remaining) => SumWraps(due)
      BY <1>5, <1>6 DEF SumWraps
    <3> HIDE DEF wait
    <3>4. QED
      BY <1>5, <1>6, <3>1, <3>2, <3>3
  <2>3. QED
    BY <2>1, <2>2, Zenon DEF Meets
<1>11. Meets(due, now, loop, wake_at')
  BY <1>8, <1>9, <1>10, Zenon
<1>12. QED
  BY <1>2, <1>11 DEF due

LEMMA SleepStep ==
  ASSUME IInv, [Next]_vars
  PROVE  SleepMeetsDeadline'
<1>1. SleepMeetsDeadline /\ Typed
  BY DEF IInv
<1>2. ASSUME woken' = TRUE PROVE SleepMeetsDeadline'
  BY <1>2 DEF SleepMeetsDeadline
<1>3. ASSUME pc' # "waiting" \/ g_timeouts' = <<>> PROVE SleepMeetsDeadline'
  BY <1>3 DEF SleepMeetsDeadline
<1>4. ASSUME UNCHANGED <<pc, woken, g_timeouts, now, loop, wake_at>>
      PROVE  SleepMeetsDeadline'
  BY <1>1, <1>4 DEF SleepMeetsDeadline
<1>5. ASSUME Terminate \/ EloopWake
             \/ (\E h, c, d : Register(h, c, d)) \/ (\E h, c : CancelOne(h, c))
             \/ (\E h, c, d, deplete : Update(h, c, d, deplete))
      PROVE  SleepMeetsDeadline'
  <2>1. woken' = TRUE
    BY <1>5 DEF Terminate, EloopWake, Register, CancelOne, Update, Wakes
  <2>2. QED
    BY <1>2, <2>1
<1>6. ASSUME NEW h, NEW c, Cancel(h, c) PROVE SleepMeetsDeadline'
  <2>1. CASE g_timeouts' # g_timeouts
    BY <1>2, <1>6, <2>1, Zenon DEF Cancel, Wakes
  <2>2. CASE g_timeouts' = g_timeouts
    <3>1. woken' = woken
      BY <1>1, <1>6, <2>2 DEF Cancel, Wakes, Typed, TypeOK
    <3>2. QED
      BY <1>4, <1>6, <2>2, <3>1 DEF Cancel, runner
  <2>3. QED
    BY <2>1, <2>2
<1>7. CASE EloopInit \/ Destroy
  BY <1>3, <1>7, Zenon DEF EloopInit, Destroy
<1>8. CASE \/ StartRun \/ RunOne \/ HandlerReturns \/ RunOnceEnds \/ ClockFails
           \/ RunStops \/ WaitReturns \/ (\E w \in Budgets : Poll(w))
  BY <1>3, <1>8 DEF StartRun, RunOne, HandlerReturns, RunOnceEnds, ClockFails, LeaveLoop,
                    RunStops, Stop, WaitReturns, Poll, Enter
<1>9. CASE PollReturns \/ RunWaits
  BY <1>9, PollMeets, RunMeets
<1>10. CASE Tick
  <2>1. SUFFICES ASSUME pc = "waiting", ~woken, g_timeouts # <<>>
                 PROVE  Meets(Head(g_timeouts).deadline, now + 1, loop, wake_at)
    BY <1>10 DEF Tick, runner, SleepMeetsDeadline, Meets
  <2>2. Meets(Head(g_timeouts).deadline, now, loop, wake_at)
    BY <1>1, <2>1, SleepsBy
  <2>3. /\ Head(g_timeouts).deadline \in Nat /\ now \in Nat
        /\ wake_at # Forever => wake_at \in Nat
    BY <1>1, <2>1, HeadFacts DEF Typed, TypeOK
  <2>4. QED
    BY <2>2, <2>3 DEF Meets
<1>11. CASE UNCHANGED vars
  BY <1>4, <1>11 DEF vars, runner
<1>12. QED
  BY <1>5, <1>6, <1>7, <1>8, <1>9, <1>10, <1>11, Zenon DEF Next, Client, RunnerStep

--------------------------------------------------------------------------------
(* The theorems *)

LEMMA InitIInv == Init => IInv
<1> SUFFICES ASSUME Init PROVE IInv
  OBVIOUS
<1>1. g_timeouts = <<>> /\ insertions = 0
  BY DEF Init
<1>2. Sorted(g_timeouts, insertions)
  BY <1>1 DEF Sorted
<1>3. EachTimerOnce
  BY DEF Init, EachTimerOnce
<1>4. SleepMeetsDeadline
  BY DEF Init, SleepMeetsDeadline
<1>5. QED
  BY <1>2, <1>3, <1>4, TypedInit DEF IInv

LEMMA NextIInv == IInv /\ [Next]_vars => IInv'
BY TypedStep, ClientLists, OnceStep, SleepStep DEF IInv

LEMMA IInvAlways == Spec => []IInv
BY InitIInv, NextIInv, PTL DEF Spec

\* The sorted list of the proof is the ordered list of the run.
LEMMA SortedSound == IInv => ListSound
BY DEF IInv, Typed, Sorted, Before, ListSound, OldestFirst

(* The timer list holds nothing but timers and is always sorted by         *)
(* deadline, equal deadlines in the order of registration or rescheduling, *)
(* whatever handlers and owners register, cancel, bring forward or put off *)
(* (eloop_hisi_rtos.c:41-66, 166-278).                                     *)
THEOREM ListAlwaysSound == Spec => []ListSound
BY IInvAlways, SortedSound, PTL

(* No timer is run twice, lost, or run after its cancellation: the         *)
(* registered ones are pending, in their handler, executed or withdrawn    *)
(* (eloop_hisi_rtos.c:133-151, 255-278, 332-341).                          *)
THEOREM TimersBalance == Spec => []EachTimerOnce
<1>1. IInv => EachTimerOnce
  BY DEF IInv
<1>2. QED
  BY <1>1, IInvAlways, PTL

(* For every length of the millisecond, every width of the clock and every *)
(* limit of the wait hook, a sleep that nothing interrupts ends at the     *)
(* earliest deadline, rounded up by less than a millisecond, or at once if *)
(* rounding up wraps, as it does in the last 998 microseconds before the   *)
(* clock saturates; a sleep without an end is begun only for lack of a     *)
(* deadline that the hook can express (eloop_hisi_rtos.c:309-322,          *)
(* supplicant_ws63.c:728-730).                                             *)
THEOREM SleepAlwaysMeets == Spec => []SleepMeetsDeadline
<1>1. IInv => SleepMeetsDeadline
  BY DEF IInv
<1>2. QED
  BY <1>1, IInvAlways, PTL

(* When run_once comes back with budget left and a working clock, every    *)
(* pending timer lies in the future: the head is the earliest              *)
(* (eloop_hisi_rtos.c:116-157).                                            *)
THEOREM RunOnceComplete == Spec => NothingDueLeftBehind
<1> DEFINE Left == \A i \in 1 .. Len(g_timeouts) : g_timeouts[i].deadline > now
           Returns == pc = "loop" /\ pc' = "after" /\ g_initialized /\ budget # 0
                        /\ ~OsMayFail
<1>1. ASSUME IInv, [Next]_vars, Returns PROVE Left
  <2>1. RunOnceEnds
    <3>1. ~(EloopInit \/ Terminate \/ Destroy \/ EloopWake \/ StartRun \/ Tick
             \/ (\E h, c, d : Register(h, c, d))
             \/ (\E h, c : Cancel(h, c) \/ CancelOne(h, c))
             \/ (\E h, c, d, deplete : Update(h, c, d, deplete)))
      BY <1>1 DEF EloopInit, Terminate, Destroy, EloopWake, StartRun, Tick, Register,
                  Cancel, CancelOne, Update, runner, Enter
    <3>2. ~(RunOne \/ HandlerReturns \/ ClockFails \/ PollReturns \/ RunWaits \/ RunStops
             \/ WaitReturns \/ (\E w : Poll(w)) \/ UNCHANGED vars)
      BY <1>1 DEF RunOne, HandlerReturns, ClockFails, PollReturns, RunWaits, RunStops,
                  WaitReturns, Poll, vars, runner
    <3>3. QED
      BY <1>1, <3>1, <3>2, Zenon DEF Next, Client, RunnerStep
  <2>2. ASSUME NEW i \in 1 .. Len(g_timeouts) PROVE g_timeouts[i].deadline > now
    <3>1. g_timeouts # <<>> /\ Sorted(g_timeouts, insertions) /\ now \in Nat
      BY <1>1, EloopAssumption DEF IInv, Typed, TypeOK
    <3>2. g_timeouts[1].deadline > now
      BY <1>1, <2>1, <3>1, HeadFacts DEF RunOnceEnds, Working
    <3>3. i = 1 \/ Before(g_timeouts[1], g_timeouts[i])
      BY <3>1, HeadFacts, <1>1 DEF Sorted
    <3>4. g_timeouts[1].deadline \in Nat /\ g_timeouts[i].deadline \in Nat
      BY <1>1, <3>1, HeadFacts, ListTyped, EloopAssumption
    <3>5. QED
      BY <3>1, <3>2, <3>3, <3>4 DEF Before
  <2>3. QED
    BY <2>2
<1>2. IInv /\ [Next]_vars => (Returns => Left)
  BY <1>1
<1>3. QED
  BY <1>2, IInvAlways, PTL DEF Spec, NothingDueLeftBehind
================================================================================
