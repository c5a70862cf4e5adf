---------------------------- MODULE EventRingProofs ----------------------------
(***************************************************************************)
(* The event ring loses nothing silently and is a first-in first-out       *)
(* queue, for every capacity, every set of events and every counter width. *)
(* The ring invariants are inductive together; what makes them so is that  *)
(* a drop needs a full ring and that no event leaves a ring whose drops    *)
(* are unreported, so a full ring stays full until the report.             *)
(***************************************************************************)
EXTENDS EventRing, SequenceTheorems, TLAPS

IInv == TypeOK /\ LossMeansFull /\ LossesAccounted /\ DiagnosticsAgree

--------------------------------------------------------------------------------
(* Index arithmetic *)

(* An index that ran at most one lap too far is brought back by one lap. *)
LEMMA Lap ==
  ASSUME NEW x \in 0 .. 2 * Capacity - 1
  PROVE  x % Capacity = IF x < Capacity THEN x ELSE x - Capacity
<1>1. CASE x < Capacity
  BY <1>1, EventRingAssumption
<1>2. CASE x >= Capacity
  <2>1. x \in Capacity .. 2 * Capacity - 1 /\ Capacity \in Nat \ {0}
    BY <1>2, EventRingAssumption
  <2>. QED  BY <1>2, <2>1
<1>. QED  BY <1>1, <1>2, EventRingAssumption

(* The successor of a slot index, (index + 1) % HISI_WPA_EVENT_CAPACITY. *)
LEMMA Successor ==
  ASSUME NEW s \in Slots
  PROVE  /\ (s + 1) % Capacity = IF s + 1 = Capacity THEN 0 ELSE s + 1
         /\ (s + 1) % Capacity \in Slots
BY Lap, EventRingAssumption DEF Slots

(* event_depth() without the modulus. *)
LEMMA DepthValue ==
  ASSUME NEW r \in Slots, NEW w \in Slots
  PROVE  /\ Depth(r, w) = IF w >= r THEN w - r ELSE w + Capacity - r
         /\ Depth(r, w) \in Slots
<1>1. w + Capacity - r \in 0 .. 2 * Capacity - 1
  BY EventRingAssumption DEF Slots
<1>. QED  BY <1>1, Lap, EventRingAssumption DEF Depth, Slots

(* Writing one slot deepens the ring by one unless it was full. *)
LEMMA DepthAfterWrite ==
  ASSUME NEW r \in Slots, NEW w \in Slots, (w + 1) % Capacity # r
  PROVE  /\ Depth(r, (w + 1) % Capacity) = Depth(r, w) + 1
         /\ Depth(r, w) < Capacity - 1
<1>. DEFINE n == (w + 1) % Capacity
<1>1. n \in Slots /\ n = IF w + 1 = Capacity THEN 0 ELSE w + 1
  BY Successor
<1>2. Depth(r, n) = IF n >= r THEN n - r ELSE n + Capacity - r
  BY <1>1, DepthValue
<1>3. Depth(r, w) = IF w >= r THEN w - r ELSE w + Capacity - r
  BY DepthValue
<1>4. r \in 0 .. Capacity - 1 /\ w \in 0 .. Capacity - 1 /\ Capacity \in Nat
  BY EventRingAssumption DEF Slots
<1>5. n # r
  OBVIOUS
<1>. HIDE DEF n
<1>6. Depth(r, n) = Depth(r, w) + 1 /\ Depth(r, w) < Capacity - 1
  BY <1>1, <1>2, <1>3, <1>4, <1>5
<1>. QED  BY <1>6 DEF n

(* The ring is full exactly when all but one slot are taken. *)
LEMMA FullDepth ==
  ASSUME NEW r \in Slots, NEW w \in Slots, (w + 1) % Capacity = r
  PROVE  Depth(r, w) = Capacity - 1
<1>1. r = IF w + 1 = Capacity THEN 0 ELSE w + 1
  BY Successor
<1>2. Depth(r, w) = IF w >= r THEN w - r ELSE w + Capacity - r
  BY DepthValue
<1>3. w \in 0 .. Capacity - 1 /\ Capacity \in Nat
  BY EventRingAssumption DEF Slots
<1>. QED  BY <1>1, <1>2, <1>3

(* Reading one slot makes a ring that is not empty shallower by one. *)
LEMMA DepthAfterRead ==
  ASSUME NEW r \in Slots, NEW w \in Slots, r # w
  PROVE  /\ Depth((r + 1) % Capacity, w) = Depth(r, w) - 1
         /\ Depth(r, w) > 0
<1>. DEFINE n == (r + 1) % Capacity
<1>1. n \in Slots /\ n = IF r + 1 = Capacity THEN 0 ELSE r + 1
  BY Successor
<1>2. Depth(n, w) = IF w >= n THEN w - n ELSE w + Capacity - n
  BY <1>1, DepthValue
<1>3. Depth(r, w) = IF w >= r THEN w - r ELSE w + Capacity - r
  BY DepthValue
<1>4. r \in 0 .. Capacity - 1 /\ w \in 0 .. Capacity - 1 /\ Capacity \in Nat
  BY EventRingAssumption DEF Slots
<1>5. r # w
  OBVIOUS
<1>. HIDE DEF n
<1>6. Depth(n, w) = Depth(r, w) - 1 /\ Depth(r, w) > 0
  BY <1>1, <1>2, <1>3, <1>4, <1>5
<1>. QED  BY <1>6 DEF n

(* The ring is empty exactly when the indices meet. *)
LEMMA EmptyDepth ==
  ASSUME NEW r \in Slots, NEW w \in Slots
  PROVE  Depth(r, w) = 0 <=> r = w
<1>1. Depth(r, w) = IF w >= r THEN w - r ELSE w + Capacity - r
  BY DepthValue
<1>2. r \in 0 .. Capacity - 1 /\ w \in 0 .. Capacity - 1 /\ Capacity \in Nat
  BY EventRingAssumption DEF Slots
<1>. QED  BY <1>1, <1>2

--------------------------------------------------------------------------------
LEMMA InitIInv == Init => IInv
<1>. SUFFICES ASSUME Init PROVE IInv
  OBVIOUS
<1>1. TypeOK
  BY EventRingAssumption DEF Init, TypeOK, Slots
<1>2. LossMeansFull /\ LossesAccounted
  BY EventRingAssumption DEF Init, LossMeansFull, LossesAccounted
<1>3. DiagnosticsAgree
  BY EmptyDepth, EventRingAssumption DEF Init, DiagnosticsAgree, event_depth, Slots
<1>. QED  BY <1>1, <1>2, <1>3 DEF IInv

LEMMA StepIInv == IInv /\ [Next]_vars => IInv'
<1>. SUFFICES ASSUME IInv, [Next]_vars PROVE IInv'
  OBVIOUS
<1>. USE EventRingAssumption DEF IInv
<1>1. ASSUME NEW e \in Events, Store(e) PROVE IInv'
  <2>1. NextWrite \in Slots /\ event_read \in Slots /\ event_write \in Slots
    BY Successor DEF TypeOK, NextWrite
  <2>2. /\ Depth(event_read, NextWrite) = event_depth + 1
        /\ Depth(event_read, NextWrite) \in Slots
    BY <1>1, <2>1, DepthAfterWrite, DepthValue DEF Store, NextWrite, event_depth
  <2>3. /\ event_write' = NextWrite /\ event_read' = event_read
        /\ dropped_events' = dropped_events
        /\ total_dropped_events' = total_dropped_events
        /\ lost' = lost /\ reported' = reported
    BY <1>1 DEF Store
  <2>4. TypeOK'
    BY <1>1, <2>1, <2>2, <2>3 DEF Store, TypeOK, Slots
  <2>5. LossMeansFull'
    BY <1>1, <2>3 DEF Store, LossMeansFull
  <2>6. LossesAccounted'
    BY <2>3 DEF LossesAccounted
  <2>7. event_depth' = Depth(event_read, NextWrite)
    BY <2>3 DEF event_depth, Depth
  <2>8. max_event_depth' = IF Depth(event_read, NextWrite) > max_event_depth
                           THEN Depth(event_read, NextWrite) ELSE max_event_depth
    BY <1>1 DEF Store
  <2>9. DiagnosticsAgree'
    BY <2>2, <2>3, <2>7, <2>8 DEF DiagnosticsAgree, TypeOK, Slots
  <2>. QED  BY <2>4, <2>5, <2>6, <2>9
<1>2. ASSUME Drop PROVE IInv'
  <2>1. event_depth = Capacity - 1
    BY <1>2, FullDepth DEF Drop, TypeOK, NextWrite, event_depth
  <2>2. TypeOK'
    BY <1>2 DEF Drop, TypeOK, Saturating, ring
  <2>3. LossMeansFull'
    BY <1>2 DEF Drop, LossMeansFull, NextWrite, ring
  <2>4. LossesAccounted'
    BY <1>2 DEF Drop, LossesAccounted, Saturating, TypeOK
  <2>5. DiagnosticsAgree'
    BY <1>2, <2>1 DEF Drop, DiagnosticsAgree, TypeOK, Slots, event_depth, Depth, ring
  <2>. QED  BY <2>2, <2>3, <2>4, <2>5
<1>3. ASSUME ReportOverflow PROVE IInv'
  <2>1. TypeOK'
    BY <1>3 DEF ReportOverflow, TypeOK, ring
  <2>2. LossMeansFull'
    BY <1>3 DEF ReportOverflow, LossMeansFull
  <2>3. LossesAccounted'
    BY <1>3 DEF ReportOverflow, LossesAccounted, TypeOK
  <2>4. DiagnosticsAgree'
    BY <1>3 DEF ReportOverflow, DiagnosticsAgree, event_depth, Depth, ring
  <2>. QED  BY <2>1, <2>2, <2>3, <2>4
<1>4. ASSUME Pop PROVE IInv'
  <2>1. /\ event_read' = (event_read + 1) % Capacity
        /\ event_read' \in Slots
    BY <1>4, Successor DEF Pop, TypeOK
  <2>2. TypeOK'
    BY <1>4, <2>1 DEF Pop, TypeOK
  <2>3. LossMeansFull' /\ LossesAccounted'
    BY <1>4 DEF Pop, LossMeansFull, LossesAccounted
  <2>4. event_depth' = event_depth - 1 /\ event_depth \in Slots
    BY <1>4, DepthAfterRead, DepthValue DEF Pop, TypeOK, event_depth, Depth
  <2>5. DiagnosticsAgree'
    BY <1>4, <2>4 DEF Pop, DiagnosticsAgree, TypeOK, Slots
  <2>. QED  BY <2>2, <2>3, <2>5
<1>5. ASSUME Empty \/ UNCHANGED vars PROVE IInv'
  BY <1>5 DEF Empty, vars, ring, TypeOK, LossMeansFull, LossesAccounted,
     DiagnosticsAgree, NextWrite, event_depth, Depth
<1>. QED  BY <1>1, <1>2, <1>3, <1>4, <1>5 DEF Next, NextEvent

(* The ring's invariants hold in every reachable state. *)
THEOREM Invariance == Spec => []IInv
BY InitIInv, StepIInv, PTL DEF Spec

(* "Queue overflow is an explicit failure event rather than a silent loss" *)
(* (README.md of the repository): every loss is reported or still to be    *)
(* reported, and while one is unreported the ring is not empty, so that    *)
(* output_pending is set.                                                  *)
THEOREM NoSilentLoss == Spec => []LossesReported
<1>1. IInv => LossesReported
  BY DEF IInv, LossesReported
<1>. QED  BY <1>1, Invariance, PTL

--------------------------------------------------------------------------------
(* Refinement of the lossy queue *)

Queued == [i \in 1 .. event_depth |->
             events[(event_read + i - 1) % Capacity]]

(* Len and membership of the queue the ring represents. *)
LEMMA QueuedSeq ==
  ASSUME TypeOK
  PROVE  /\ Queued \in Seq(Events \cup {NoEvent})
         /\ Len(Queued) = event_depth
         /\ event_depth \in Slots
<1>. USE EventRingAssumption
<1>1. event_depth \in Slots /\ event_depth \in Nat
  BY DepthValue DEF TypeOK, event_depth, Slots
<1>2. ASSUME NEW i \in 1 .. event_depth
      PROVE  events[(event_read + i - 1) % Capacity] \in Events \cup {NoEvent}
  <2>1. event_read + i - 1 \in 0 .. 2 * Capacity - 1
    BY <1>1 DEF TypeOK, Slots
  <2>2. (event_read + i - 1) % Capacity \in Slots
    BY <2>1, Lap DEF Slots
  <2>. QED  BY <2>2 DEF TypeOK
<1>3. Queued \in [1 .. event_depth -> Events \cup {NoEvent}]
  BY <1>2 DEF Queued
<1>. QED  BY <1>1, <1>3

LEMMA QueuedSeqNow ==
  TypeOK => /\ Queued \in Seq(Events \cup {NoEvent})
            /\ Len(Queued) = event_depth
BY QueuedSeq

LEMMA QueuedSeqNext ==
  TypeOK' => (/\ Queued \in Seq(Events \cup {NoEvent})
              /\ Len(Queued) = event_depth)'
BY QueuedSeqNow, PTL

(* A stored event is appended: the window grows by the written slot, and   *)
(* no slot of the window is overwritten.                                   *)
LEMMA StoreAppends ==
  ASSUME TypeOK, TypeOK', NEW e \in Events, Store(e)
  PROVE  Queued' = Append(Queued, e) /\ Len(Queued) < Capacity - 1
<1>. USE EventRingAssumption
<1>1. /\ event_write' = NextWrite /\ event_read' = event_read
      /\ events' = [events EXCEPT ![event_write] = e]
  BY DEF Store
<1>2. event_depth' = event_depth + 1 /\ event_depth < Capacity - 1
  BY <1>1, DepthAfterWrite DEF Store, NextWrite, event_depth, Depth, TypeOK
<1>3. event_depth \in Nat /\ event_depth \in Slots
  BY QueuedSeq DEF Slots
<1>a. /\ Capacity \in Nat /\ event_read \in 0 .. Capacity - 1
       /\ event_write \in 0 .. Capacity - 1
       /\ event_depth = IF event_write >= event_read THEN event_write - event_read
                        ELSE event_write + Capacity - event_read
  BY DepthValue DEF TypeOK, Slots, event_depth
<1>4. ASSUME NEW i \in 1 .. event_depth
      PROVE  Queued'[i] = Queued[i]
  <2>. DEFINE x == event_read + i - 1
  <2>1. x \in 0 .. 2 * Capacity - 1 /\ x # event_write /\ x # event_write + Capacity
    BY <1>a
  <2>2. x % Capacity = IF x < Capacity THEN x ELSE x - Capacity
    BY <2>1, Lap
  <2>3. x % Capacity \in 0 .. Capacity - 1 /\ x % Capacity # event_write
    BY <1>a, <2>1, <2>2
  <2>4. events'[x % Capacity] = events[x % Capacity]
    BY <1>1, <2>3 DEF TypeOK, Slots
  <2>5. Queued'[i] = events'[(event_read' + i - 1) % Capacity]
    BY <1>2, <1>3 DEF Queued
  <2>6. Queued[i] = events[x % Capacity]
    BY DEF Queued
  <2>. QED  BY <1>1, <2>4, <2>5, <2>6
<1>5. Queued'[event_depth + 1] = e
  <2>. DEFINE x == event_read + event_depth
  <2>1. x \in 0 .. 2 * Capacity - 1
        /\ (x = event_write \/ x = event_write + Capacity)
    BY <1>a
  <2>2. x % Capacity = event_write
    BY <1>a, <2>1, Lap
  <2>3. Queued'[event_depth + 1] =
          events'[(event_read' + (event_depth + 1) - 1) % Capacity]
    BY <1>2, <1>3 DEF Queued
  <2>4. event_read' + (event_depth + 1) - 1 = x
    BY <1>1, <1>3, <1>a
  <2>5. Queued'[event_depth + 1] = events'[event_write]
    BY <2>2, <2>3, <2>4
  <2>. QED  BY <1>1, <2>5 DEF TypeOK
<1>6. /\ Queued' \in Seq(Events \cup {NoEvent}) /\ Len(Queued') = event_depth + 1
      /\ Queued \in Seq(Events \cup {NoEvent}) /\ Len(Queued) = event_depth
  BY <1>2, QueuedSeq, QueuedSeqNext
<1>. QED  BY <1>2, <1>3, <1>4, <1>5, <1>6

(* A popped event is the head, and the rest stays in order. *)
LEMMA PopTakesHead ==
  ASSUME TypeOK, TypeOK', Pop
  PROVE  /\ Queued # <<>>
         /\ events[event_read] = Head(Queued)
         /\ Queued' = Tail(Queued)
<1>. USE EventRingAssumption
<1>1. /\ event_read' = (event_read + 1) % Capacity
      /\ event_write' = event_write /\ events' = events
  BY DEF Pop
<1>2. event_depth' = event_depth - 1 /\ event_depth > 0
  BY <1>1, DepthAfterRead DEF Pop, TypeOK, event_depth, Depth
<1>3. event_depth \in Nat /\ event_depth \in Slots
  BY QueuedSeq DEF Slots
<1>a. /\ Capacity \in Nat /\ event_read \in 0 .. Capacity - 1
       /\ event_write \in 0 .. Capacity - 1
       /\ event_depth <= Capacity - 1
       /\ event_read' = IF event_read + 1 = Capacity THEN 0 ELSE event_read + 1
  BY <1>1, <1>3, Successor DEF TypeOK, Slots
<1>4. Queued[1] = events[event_read]
  <2>1. event_read + 1 - 1 = event_read /\ event_read \in 0 .. 2 * Capacity - 1
    BY <1>a
  <2>2. event_read % Capacity = event_read
    BY <1>a, <2>1, Lap
  <2>3. Queued[1] = events[(event_read + 1 - 1) % Capacity]
    BY <1>2, <1>3 DEF Queued
  <2>. QED  BY <2>1, <2>2, <2>3
<1>5. ASSUME NEW i \in 1 .. event_depth - 1
      PROVE  Queued'[i] = Queued[i + 1]
  <2>1. /\ event_read + i \in 0 .. 2 * Capacity - 1
        /\ event_read' + i - 1 \in 0 .. 2 * Capacity - 1
    BY <1>3, <1>a
  <2>2. (event_read' + i - 1) % Capacity = (event_read + i) % Capacity
    <3>. DEFINE x == event_read + i
                y == event_read' + i - 1
    <3>1. x % Capacity = IF x < Capacity THEN x ELSE x - Capacity
      BY <2>1, Lap
    <3>2. y % Capacity = IF y < Capacity THEN y ELSE y - Capacity
      BY <2>1, Lap
    <3>3. y = x \/ (y = x - Capacity /\ x >= Capacity)
      BY <1>3, <1>a
    <3>. QED  BY <1>a, <2>1, <3>1, <3>2, <3>3
  <2>3. event_read + (i + 1) - 1 = event_read + i
    BY <1>a
  <2>4. Queued'[i] = events'[(event_read' + i - 1) % Capacity]
    BY <1>2, <1>3 DEF Queued
  <2>5. Queued[i + 1] = events[(event_read + i) % Capacity]
    BY <1>3, <2>3 DEF Queued
  <2>. QED  BY <1>1, <2>2, <2>4, <2>5
<1>6. /\ Queued' \in Seq(Events \cup {NoEvent}) /\ Len(Queued') = event_depth - 1
      /\ Queued \in Seq(Events \cup {NoEvent}) /\ Len(Queued) = event_depth
  BY <1>2, QueuedSeq, QueuedSeqNext
<1>7. Queued # <<>> /\ Head(Queued) = Queued[1]
  BY <1>2, <1>3, <1>6
<1>8. Tail(Queued) \in Seq(Events \cup {NoEvent}) /\ Len(Tail(Queued)) = event_depth - 1
  BY <1>6, <1>7, HeadTailProperties
<1>9. ASSUME NEW i \in 1 .. event_depth - 1
      PROVE  Tail(Queued)[i] = Queued[i + 1]
  BY <1>3, <1>6, <1>7
<1>. QED  BY <1>3, <1>4, <1>5, <1>6, <1>7, <1>8, <1>9

LEMMA QueueStep == IInv /\ IInv' /\ [Next]_vars => [Queue!Next]_(Queue!vars)
<1>. SUFFICES ASSUME IInv, IInv', [Next]_vars PROVE [Queue!Next]_(Queue!vars)
  OBVIOUS
<1>. USE EventRingAssumption DEF IInv
<1>1. ASSUME NEW e \in Events, Store(e) PROVE Queue!Accept(e)
  BY <1>1, StoreAppends DEF Store, Queue!Accept, Queued
<1>2. ASSUME ring' = ring PROVE Queued' = Queued
  BY <1>2 DEF ring, Queued, event_depth, Depth
<1>3. ASSUME Drop PROVE Queue!Lose
  <2>1. Len(Queued) = Capacity - 1
    BY <1>3, QueuedSeq, FullDepth DEF Drop, TypeOK, NextWrite, event_depth
  <2>. QED  BY <1>2, <1>3, <2>1 DEF Drop, Queue!Lose, Queued, Saturating
<1>4. ASSUME ReportOverflow PROVE Queue!Report
  BY <1>2, <1>4 DEF ReportOverflow, Queue!Report, Queue!Overflow, Queued
<1>5. ASSUME Pop PROVE Queue!Deliver
  BY <1>5, PopTakesHead DEF Pop, Queue!Deliver, Queue!Event, Queued
<1>6. ASSUME Empty PROVE Queue!Idle
  <2>1. Queued = <<>>
    BY <1>6, QueuedSeq, EmptyDepth DEF Empty, TypeOK, event_depth
  <2>. QED  BY <1>2, <1>6, <2>1 DEF Empty, Queue!Idle, Queue!Nothing, Queued
<1>7. ASSUME UNCHANGED vars PROVE UNCHANGED Queue!vars
  BY <1>2, <1>7 DEF vars, ring, Queue!vars, Queued
<1>. QED  BY <1>1, <1>3, <1>4, <1>5, <1>6, <1>7 DEF Next, NextEvent, Queue!Next

(* The ring with its two wrapping indices, its free slot and its uncleared *)
(* old events is the lossy first-in first-out queue of LossyQueue.         *)
THEOREM QueueRefined == Spec => ImplementsQueue
<1>1. Init => Queue!Init
  <2>. SUFFICES ASSUME Init PROVE Queue!Init
    OBVIOUS
  <2>1. TypeOK
    BY InitIInv DEF IInv
  <2>2. Queued = <<>>
    BY <2>1, QueuedSeq, EmptyDepth DEF Init, TypeOK, event_depth
  <2>. QED  BY <2>2 DEF Init, Queue!Init, Queue!Nothing, Queued
<1>2. QED
  BY <1>1, QueueStep, Invariance, PTL DEF Spec, ImplementsQueue, Queue!Spec
================================================================================
