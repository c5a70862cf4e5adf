--------------------------------- MODULE MCEloop -------------------------------
(* Three microseconds to the millisecond, so that rounding shows both ways *)
(* and the sum of CeilingMs can wrap: the deadline of a delay of 98 does,  *)
(* and saturates once time has passed.  Eight time units are beyond the    *)
(* longest wait (WaitMax).                                                 *)
EXTENDS Eloop
================================================================================
