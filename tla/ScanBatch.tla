------------------------------- MODULE ScanBatch -------------------------------
(***************************************************************************)
(* What the scan capture of a driver instance promises hostap: a batch is  *)
(* made of the results that came in since the capture was last emptied, in *)
(* the order they came in, up to a capacity; and it is handed over once.   *)
(***************************************************************************)
EXTENDS Naturals, Sequences

CONSTANTS
  Results,     (* scan results                                  *)
  Capacity     (* how many of them a capture holds              *)

VARIABLES
  capture,     (* the results that wait to be handed over       *)
  delivered    (* history: the batch that was handed over last  *)

vars == <<capture, delivered>>

Init == capture = <<>> /\ delivered = <<>>

Add(r) ==
  /\ Len(capture) < Capacity
  /\ capture' = Append(capture, r)
  /\ UNCHANGED delivered

Discard == capture' = <<>> /\ UNCHANGED delivered

HandOver == delivered' = capture /\ capture' = <<>>

Next == Discard \/ HandOver \/ \E r \in Results : Add(r)

Spec == Init /\ [][Next]_vars
================================================================================
