--------------------------- MODULE RecoveryDiagnostics -------------------------
(***************************************************************************)
(* The counters of the first-EAPOL recovery, each a uint8_t that saturates *)
(* (increment_diagnostic), and the word that                               *)
(* hisi_wpa_recovery_diagnostic_word packs them into, four bits for each.  *)
(* Which steps increment which counter is the matter of Supplicant; here   *)
(* any of them may, in any order.                                          *)
(***************************************************************************)
EXTENDS Naturals, Sequences

CONSTANTS
  CountMax,   (* UINT8_MAX                                          *)
  MaxSteps    (* bound of the model on increments                   *)

VARIABLES
  count,      (* the counters of struct hisi_wpa_context            *)
  pending     (* first_eapol_retry_pending                          *)

vars == <<count, pending>>

\* From bit 0 upwards.
Layout == <<"timeouts", "disconnect_events", "fallbacks", "local_disconnects",
            "cached_retries", "scan_retries">>
Places == 1 .. Len(Layout)

Init ==
  /\ count = [p \in Places |-> 0]
  /\ pending = FALSE

Steps == count[1] + count[2] + count[3] + count[4] + count[5] + count[6]

IncrementDiagnostic(p) ==
  /\ Steps < MaxSteps
  /\ count' = [count EXCEPT ![p] = IF @ = CountMax THEN @ ELSE @ + 1]
  /\ UNCHANGED pending

SetPending == pending' = ~pending /\ UNCHANGED count

Next == SetPending \/ \E p \in Places : IncrementDiagnostic(p)

Spec == Init /\ [][Next]_vars

NibbleMax == 15

\* The values of bits 0, 4, 8, 12, 16, 20 and 24.
Weight ==
  <<1, 16, 16 * 16, 16 * 16 * 16, 16 * 16 * 16 * 16, 16 * 16 * 16 * 16 * 16,
    16 * 16 * 16 * 16 * 16 * 16>>

Shifted(p) == (count[p] % (NibbleMax + 1)) * Weight[p]

RecoveryWord ==
  Shifted(1) + Shifted(2) + Shifted(3) + Shifted(4) + Shifted(5) + Shifted(6)
    + (IF pending THEN Weight[7] ELSE 0)

\* What a reader of the word takes for the counter at place p.
Nibble(p) == (RecoveryWord \div Weight[p]) % (NibbleMax + 1)

--------------------------------------------------------------------------------
(* "Six saturated nibbles encode timeout, disconnect-event, fallback,      *)
(* local-disconnect, cached-retry, and scan-retry counts"                  *)
(* (include/hisi_wpa_supplicant.h:283-285): a nibble shows its counter, or *)
(* its own maximum when the counter is beyond it.  The code masks with     *)
(* 0x0f (supplicant_ws63.c:517-529), so that the sixteenth count shows 0.  *)
NibblesSaturated ==
  \A p \in Places :
    Nibble(p) = IF count[p] > NibbleMax THEN NibbleMax ELSE count[p]
================================================================================
