------------------------------- MODULE MCEventRing -----------------------------
(* Three usable slots, two kinds of event so that an order can be seen,    *)
(* and more losses than the counters can hold.                             *)
EXTENDS EventRing
================================================================================
