------------------------------ MODULE MCSupplicant -----------------------------
(* The states that the recoveries and the reports tell apart; an event     *)
(* queue of one or two slots overflows within a few inputs; the fallback   *)
(* comes before and after hostap's own timer.                              *)
EXTENDS Supplicant
================================================================================
