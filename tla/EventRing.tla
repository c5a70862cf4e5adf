------------------------------- MODULE EventRing -------------------------------
(***************************************************************************)
(* The bounded event queue of struct hisi_wpa_context: push_event,         *)
(* hisi_wpa_next_event and what the diagnostic word tells of the losses    *)
(* (supplicant_ws63.c).  The slots are an array that is never cleared, so  *)
(* a slot outside the window between the two indices holds an old event.   *)
(*                                                                         *)
(* An event is its kind and status; the timestamp is left out.  `lost` and *)
(* `reported` are history: what was dropped, and what overflow events have *)
(* told the consumer of it.                                                *)
(***************************************************************************)
EXTENDS Naturals, Sequences

CONSTANTS
  Events,      (* pairs of a kind and a status                            *)
  NoEvent,     (* a zeroed slot                                           *)
  Capacity,    (* HISI_WPA_EVENT_CAPACITY                                 *)
  CountMax,    (* UINT32_MAX, where both drop counters saturate           *)
  MaxLost      (* bound of the model on `lost`                            *)

ASSUME EventRingAssumption ==
  /\ Capacity \in Nat \ {0, 1}
  /\ CountMax \in Nat \ {0}
  /\ MaxLost \in Nat
  /\ NoEvent \notin Events

VARIABLES
  events,                (* the slots                                     *)
  event_read,            (* index of the oldest event                     *)
  event_write,           (* index of the next free slot                   *)
  dropped_events,        (* drops not reported yet                        *)
  total_dropped_events,  (* drops since hisi_wpa_create                   *)
  max_event_depth,       (* high-water mark                               *)
  answer,                (* what the last hisi_wpa_next_event returned    *)
  lost,                  (* history: number of events dropped             *)
  reported               (* history: sum of all overflow events           *)

ring == <<events, event_read, event_write>>
vars == <<events, event_read, event_write, dropped_events,
          total_dropped_events, max_event_depth, answer, lost, reported>>

Slots == 0 .. Capacity - 1

Depth(read, write) == (write + Capacity - read) % Capacity
event_depth        == Depth(event_read, event_write)

WrappingIncrement(n) == (n + 1) % (CountMax + 1)  \* faulty variant
Saturating(n)        == IF n = CountMax THEN n ELSE n + 1

Init ==
  /\ events = [s \in Slots |-> NoEvent]
  /\ event_read = 0
  /\ event_write = 0
  /\ dropped_events = 0
  /\ total_dropped_events = 0
  /\ max_event_depth = 0
  /\ answer = [kind |-> "none"]
  /\ lost = 0
  /\ reported = 0

--------------------------------------------------------------------------------
(* push_event: one slot stays free, so that a full ring is not taken for   *)
(* an empty one.                                                           *)

NextWrite == (event_write + 1) % Capacity

Store(e) ==
  /\ NextWrite # event_read
  /\ events' = [events EXCEPT ![event_write] = e]
  /\ event_write' = NextWrite
  /\ max_event_depth' =
       IF Depth(event_read, NextWrite) > max_event_depth
       THEN Depth(event_read, NextWrite) ELSE max_event_depth
  /\ UNCHANGED <<event_read, dropped_events, total_dropped_events, answer,
                 lost, reported>>

Drop ==
  /\ NextWrite = event_read
  /\ lost < MaxLost
  /\ lost' = lost + 1
  /\ dropped_events' = Saturating(dropped_events)
  /\ total_dropped_events' = Saturating(total_dropped_events)
  /\ UNCHANGED <<ring, max_event_depth, answer, reported>>

--------------------------------------------------------------------------------
(* hisi_wpa_next_event: an unreported overflow goes first and takes no     *)
(* event out of the ring.                                                  *)

ReportAndPop ==   \* faulty variant: an overflow also consumes the oldest event
  /\ dropped_events # 0
  /\ answer' = [kind |-> "overflow", lost |-> dropped_events]
  /\ reported' = reported + dropped_events
  /\ dropped_events' = 0
  /\ event_read' = (event_read + 1) % Capacity
  /\ UNCHANGED <<events, event_write, total_dropped_events, max_event_depth,
                 lost>>

ReportOverflow ==
  /\ dropped_events # 0
  /\ answer' = [kind |-> "overflow", lost |-> dropped_events]
  /\ reported' = reported + dropped_events
  /\ dropped_events' = 0
  /\ UNCHANGED <<ring, total_dropped_events, max_event_depth, lost>>

Pop ==
  /\ dropped_events = 0
  /\ event_read # event_write
  /\ answer' = [kind |-> "event", event |-> events[event_read]]
  /\ event_read' = (event_read + 1) % Capacity
  /\ UNCHANGED <<events, event_write, dropped_events, total_dropped_events,
                 max_event_depth, lost, reported>>

Empty ==
  /\ dropped_events = 0
  /\ event_read = event_write
  /\ answer' = [kind |-> "none"]
  /\ UNCHANGED <<ring, dropped_events, total_dropped_events, max_event_depth,
                 lost, reported>>

NextEvent == ReportOverflow \/ Pop \/ Empty

Next == (\E e \in Events : Store(e)) \/ Drop \/ NextEvent

Spec == Init /\ [][Next]_vars

--------------------------------------------------------------------------------
(* Every variable keeps its C type's range; both indices stay inside the   *)
(* slot array (supplicant_ws63.c:160, 756).                                *)
TypeOK ==
  /\ events \in [Slots -> Events \cup {NoEvent}]
  /\ event_read \in Slots
  /\ event_write \in Slots
  /\ dropped_events \in 0 .. CountMax
  /\ total_dropped_events \in 0 .. CountMax
  /\ max_event_depth \in Slots
  /\ lost \in 0 .. MaxLost
  /\ reported \in Nat

(* An unreported loss means a full ring.  Hence output_pending, which      *)
(* hisi_wpa_poll computes from the two indices alone, never hides an       *)
(* overflow from a runner that asks for events only when it is set         *)
(* (supplicant_ws63.c:731, crates/ws63-radio-sys/src/supplicant.rs:226).   *)
LossMeansFull == dropped_events # 0 => NextWrite = event_read

(* Nothing is lost silently: as long as no counter has saturated, what was *)
(* reported plus what is still to report is what was lost, and the         *)
(* cumulative count agrees; a saturated total stays at its maximum         *)
(* (supplicant_ws63.c:164-167, 741-751).                                   *)
LossesAccounted ==
  /\ total_dropped_events = IF lost < CountMax THEN lost ELSE CountMax
  /\ lost <= CountMax => reported + dropped_events = lost

(* The diagnostic word is consistent: the high-water mark bounds the       *)
(* present depth, and a total above zero comes with a mark of the full     *)
(* ring (supplicant_ws63.c:177-178, 504-515).                              *)
DiagnosticsAgree ==
  /\ event_depth <= max_event_depth
  /\ total_dropped_events # 0 => max_event_depth = Capacity - 1

(* No loss goes by silently, on any of the three ways to learn of it       *)
(* (supplicant_ws63.c:160-178, 504-515, 731-751).                          *)
LossesReported == LossMeansFull /\ LossesAccounted /\ DiagnosticsAgree

(* The ring with its two indices is the lossy first-in first-out queue.    *)
Queue == INSTANCE LossyQueue
           WITH Room <- Capacity - 1,
                queue <- [i \in 1 .. event_depth |->
                            events[(event_read + i - 1) % Capacity]],
                losses <- dropped_events

ImplementsQueue == Queue!Spec
================================================================================
