------------------------------- MODULE LossyQueue ------------------------------
(***************************************************************************)
(* What a consumer of the supplicant's event queue may rely on: events     *)
(* come out in the order in which they went in, the queue holds at most    *)
(* Room of them, an event that finds it full is lost, and the number of    *)
(* losses is handed over, before anything else, by the next call           *)
(* (README.md of the repository: "Queue overflow is an explicit failure    *)
(* event rather than a silent loss").                                      *)
(***************************************************************************)
EXTENDS Naturals, Sequences

CONSTANTS
  Events,    (* what can be pushed                                    *)
  Room,      (* how many events the queue holds                       *)
  CountMax   (* where the count of losses saturates                   *)

VARIABLES
  queue,     (* events accepted and not handed over yet               *)
  losses,    (* events lost since the last report, saturating         *)
  answer     (* what the last call of the consumer returned           *)

vars == <<queue, losses, answer>>

Nothing     == [kind |-> "none"]
Event(e)    == [kind |-> "event", event |-> e]
Overflow(n) == [kind |-> "overflow", lost |-> n]

Init ==
  /\ queue = <<>>
  /\ losses = 0
  /\ answer = Nothing

Accept(e) ==
  /\ Len(queue) < Room
  /\ queue' = Append(queue, e)
  /\ UNCHANGED <<losses, answer>>

Lose ==
  /\ Len(queue) = Room
  /\ losses' = IF losses = CountMax THEN losses ELSE losses + 1
  /\ UNCHANGED <<queue, answer>>

Report ==
  /\ losses # 0
  /\ answer' = Overflow(losses)
  /\ losses' = 0
  /\ UNCHANGED queue

Deliver ==
  /\ losses = 0
  /\ queue # <<>>
  /\ answer' = Event(Head(queue))
  /\ queue' = Tail(queue)
  /\ UNCHANGED losses

Idle ==
  /\ losses = 0
  /\ queue = <<>>
  /\ answer' = Nothing
  /\ UNCHANGED <<queue, losses>>

Next ==
  \/ \E e \in Events : Accept(e)
  \/ Lose \/ Report \/ Deliver \/ Idle

Spec == Init /\ [][Next]_vars
================================================================================
