---------------------------- MODULE RetryObligation ----------------------------
(***************************************************************************)
(* What each of the two recoveries of supplicant_ws63.c promises: a        *)
(* detected failure creates an obligation to retry, an obligation is met   *)
(* by one retry or given up, and there is no retry without an obligation.  *)
(* A failure detected while a retry is owed takes over the older one.      *)
(***************************************************************************)
EXTENDS Naturals

VARIABLES
  owed,       (* whether a retry is owed                *)
  detected,   (* failures detected                      *)
  retried,    (* retries made                           *)
  given_up    (* obligations withdrawn or taken over    *)

vars == <<owed, detected, retried, given_up>>

Init == owed = FALSE /\ detected = 0 /\ retried = 0 /\ given_up = 0

Detect ==
  /\ owed' = TRUE
  /\ detected' = detected + 1
  /\ given_up' = IF owed THEN given_up + 1 ELSE given_up
  /\ UNCHANGED retried

Retry ==
  /\ owed
  /\ owed' = FALSE
  /\ retried' = retried + 1
  /\ UNCHANGED <<detected, given_up>>

GiveUp ==
  /\ owed
  /\ owed' = FALSE
  /\ given_up' = given_up + 1
  /\ UNCHANGED <<detected, retried>>

\* hisi_wpa_destroy and hisi_wpa_create start over.
Reset == owed' = FALSE /\ detected' = 0 /\ retried' = 0 /\ given_up' = 0

Next == Detect \/ Retry \/ GiveUp \/ Reset

Spec == Init /\ [][Next]_vars

(* Every detected failure is still owed, was retried once, or was given up.*)
Balance == detected = retried + given_up + (IF owed THEN 1 ELSE 0)
================================================================================
