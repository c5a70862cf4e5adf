---------------------------- MODULE SupplicantProofs ---------------------------
(***************************************************************************)
(* Both recoveries of Supplicant implement RetryObligation, for every      *)
(* value of the constants: the steps that touch a pending flag or one of   *)
(* its counters are the abstract steps, all others leave them alone.       *)
(*                                                                         *)
(* The safety properties follow from three invariants.  TimersInv says     *)
(* which timers the two flags and the histories imply, that each step of a *)
(* recovery but Complete has one at most, and that a Complete that finds a *)
(* retry pending is of that retry; QueueInv ties the newest event to the   *)
(* state last observed; OutsideTyped gives the ranges of the rest.         *)
(***************************************************************************)
EXTENDS Supplicant, Collections

Counters ==
  [timeouts : Nat, disconnect_events : Nat, fallbacks : Nat,
   local_disconnects : Nat, cached : Nat, scan : Nat,
   rejects : Nat, reject_cached : Nat, reject_scan : Nat]

(* The flags are Booleans and the counters numbers. *)
RecoveryTypeOK ==
  /\ first_eapol_retry_pending \in BOOLEAN
  /\ temporary_reject_retry_pending \in BOOLEAN
  /\ count \in Counters
  /\ lapsed \in [first : Nat, reject : Nat]

--------------------------------------------------------------------------------
(* Actions that have nothing to do with the recoveries say so.             *)
LEMMA OtherActions ==
  \/ InitContext \/ Configure \/ Connect \/ FeedEapol \/ FeedOther \/ FeedRejected
  \/ NextEvent \/ RunHostap \/ PollReturns \/ Tick
  \/ (\E ok \in Outcomes : FeedAssociated(ok))
  \/ (\E work \in Budgets : PollStarts(work))
  \/ UNCHANGED vars
  => UNCHANGED recovery
BY DEF InitContext, Configure, Connect, FeedEapol, FeedOther, FeedRejected, NextEvent,
       RunHostap, PollReturns, Tick, FeedAssociated, PollStarts, vars, recovery

(* Starting over zeroes the recovery's variables.                          *)
LEMMA StartingOver ==
  Create \/ Destroy
  => /\ first_eapol_retry_pending' = FALSE /\ temporary_reject_retry_pending' = FALSE
     /\ count' = ZeroCounts /\ lapsed' = [first |-> 0, reject |-> 0]
BY DEF Create, Destroy, Zeroed

(* All that an action may do to the two obligations and their counters.    *)
Restarted ==
  /\ first_eapol_retry_pending' = FALSE /\ temporary_reject_retry_pending' = FALSE
  /\ count' = ZeroCounts /\ lapsed' = [first |-> 0, reject |-> 0]

BothGivenUp ==
  /\ first_eapol_retry_pending' = FALSE /\ temporary_reject_retry_pending' = FALSE
  /\ lapsed' = [first  |-> lapsed.first + One(first_eapol_retry_pending),
                reject |-> lapsed.reject + One(temporary_reject_retry_pending)]
  /\ count' = count

OnlyCounted ==
  /\ UNCHANGED <<first_eapol_retry_pending, temporary_reject_retry_pending, lapsed>>
  /\ \/ count' = count
     \/ count' = [count EXCEPT !.disconnect_events = @ + 1]
     \/ count' = [count EXCEPT !.fallbacks = @ + 1]

RejectDetected ==
  /\ temporary_reject_retry_pending' = TRUE
  /\ lapsed' = [lapsed EXCEPT !.reject = @ + One(temporary_reject_retry_pending)]
  /\ \/ count' = [count EXCEPT !.rejects = @ + 1]
     \/ count' = [count EXCEPT !.rejects = @ + 1, !.disconnect_events = @ + 1]
  /\ UNCHANGED first_eapol_retry_pending

TimeoutDetected ==
  /\ first_eapol_retry_pending' = TRUE
  /\ lapsed' = [lapsed EXCEPT !.first = @ + One(first_eapol_retry_pending)]
  /\ count' = [count EXCEPT !.timeouts = @ + 1]
  /\ UNCHANGED temporary_reject_retry_pending

FirstRetried ==
  /\ first_eapol_retry_pending /\ first_eapol_retry_pending' = FALSE
  /\ \E f, l \in Nat :
       LET counted == [count EXCEPT !.fallbacks = f, !.local_disconnects = l]
       IN  \/ count' = [counted EXCEPT !.cached = @ + 1]
           \/ count' = [counted EXCEPT !.scan = @ + 1]
  /\ UNCHANGED <<temporary_reject_retry_pending, lapsed>>

RejectRetried ==
  /\ temporary_reject_retry_pending /\ temporary_reject_retry_pending' = FALSE
  /\ \/ count' = [count EXCEPT !.reject_cached = @ + 1]
     \/ count' = [count EXCEPT !.reject_scan = @ + 1]
  /\ UNCHANGED <<first_eapol_retry_pending, lapsed>>

Effect ==
  \/ UNCHANGED recovery \/ Restarted \/ BothGivenUp \/ OnlyCounted
  \/ RejectDetected \/ TimeoutDetected \/ FirstRetried \/ RejectRetried

LEMMA DisconnectEffect == Disconnect => Effect
BY DEF Disconnect, Effect, BothGivenUp

LEMMA FeedDisconnectEffect ==
  ASSUME NEW ok, FeedDisconnect(ok)
  PROVE  Effect
<1>1. UNCHANGED <<first_eapol_retry_pending, temporary_reject_retry_pending, lapsed>>
  BY DEF FeedDisconnect
<1>2. count' = count \/ count' = [count EXCEPT !.disconnect_events = @ + 1]
  BY DEF FeedDisconnect
<1>3. QED BY <1>1, <1>2 DEF Effect, OnlyCounted

LEMMA FeedTemporaryRejectEffect ==
  ASSUME NEW ok, NEW ok_complete, FeedTemporaryReject(ok, ok_complete)
  PROVE  Effect
<1>1. /\ temporary_reject_retry_pending' = TRUE
      /\ lapsed' = [lapsed EXCEPT !.reject = @ + One(temporary_reject_retry_pending)]
      /\ UNCHANGED first_eapol_retry_pending
  BY DEF FeedTemporaryReject
<1>2. \/ count' = [count EXCEPT !.rejects = @ + 1]
      \/ count' = [count EXCEPT !.rejects = @ + 1, !.disconnect_events = @ + 1]
  BY DEF FeedTemporaryReject
<1>3. QED BY <1>1, <1>2 DEF Effect, RejectDetected

LEMMA RunFirstEapolEffect ==
  ASSUME NEW ok, RunFirstEapol(ok)
  PROVE  Effect
<1>1. CASE wpa_state = "ASSOCIATED" /\ ~eapol_received
  BY <1>1 DEF RunFirstEapol, Effect, TimeoutDetected
<1>2. CASE ~(wpa_state = "ASSOCIATED" /\ ~eapol_received)
  BY <1>2 DEF RunFirstEapol, Effect, OnlyCounted
<1>3. QED BY <1>1, <1>2

(* With the counters as they were but for the fallbacks, the shared retry  *)
(* function meets the pending obligation once, or does nothing.            *)
LEMMA RetryEffect ==
  ASSUME RecoveryTypeOK, NEW list, NEW sure \in BOOLEAN, NEW counted,
         \/ counted = count
         \/ counted = [count EXCEPT !.fallbacks = @ + 1],
         RetryFirstEapol(list, sure, counted)
  PROVE  Effect
<1>1. CASE ~first_eapol_retry_pending
  <2>1. count' = counted
    BY <1>1 DEF RetryFirstEapol
  <2>2. UNCHANGED <<first_eapol_retry_pending, temporary_reject_retry_pending, lapsed>>
    BY <1>1 DEF RetryFirstEapol
  <2>3. QED BY <2>1, <2>2 DEF Effect, OnlyCounted
<1>2. CASE first_eapol_retry_pending
  <2> DEFINE l == counted.local_disconnects + One(~sure /\ ~associated)
             f == counted.fallbacks
             c == [count EXCEPT !.fallbacks = f, !.local_disconnects = l]
  <2>1. /\ first_eapol_retry_pending' = FALSE
        /\ UNCHANGED <<temporary_reject_retry_pending, lapsed>>
    BY <1>2 DEF RetryFirstEapol
  <2>2. counted \in Counters
    BY DEF RecoveryTypeOK, Counters
  <2>3. f \in Nat /\ l \in Nat
    BY <2>2 DEF Counters, One
  <2>4. [counted EXCEPT !.local_disconnects = @ + One(~sure /\ ~associated)] = c
    BY <2>2 DEF RecoveryTypeOK, Counters
  <2>5. \/ count' = [c EXCEPT !.cached = @ + 1]
        \/ count' = [c EXCEPT !.scan = @ + 1]
    BY <1>2, <2>4 DEF RetryFirstEapol
  <2>6. QED BY <1>2, <2>1, <2>3, <2>5 DEF Effect, FirstRetried
<1>3. QED BY <1>1, <1>2 DEF RecoveryTypeOK

LEMMA RunFallbackEffect == RecoveryTypeOK /\ RunFallback => Effect
<1> SUFFICES ASSUME RecoveryTypeOK, RunFallback PROVE Effect
  OBVIOUS
<1>1. RetryFirstEapol(Tail(timers), FALSE, [count EXCEPT !.fallbacks = @ + 1])
  BY DEF RunFallback
<1>2. QED BY <1>1, RetryEffect

LEMMA RunCompleteEffect == RecoveryTypeOK /\ RunComplete => Effect
<1> SUFFICES ASSUME RecoveryTypeOK, RunComplete PROVE Effect
  OBVIOUS
<1>1. RetryFirstEapol(Tail(timers), TRUE, count)
  BY DEF RunComplete
<1>2. QED BY <1>1, RetryEffect

LEMMA RunTempRetryEffect == RunTempRetry => Effect
<1> SUFFICES ASSUME RunTempRetry PROVE Effect
  OBVIOUS
<1>1. CASE temporary_reject_retry_pending
  BY <1>1 DEF RunTempRetry, Effect, RejectRetried
<1>2. CASE ~temporary_reject_retry_pending
  BY <1>2 DEF RunTempRetry, Effect, OnlyCounted
<1>3. QED BY <1>1, <1>2

LEMMA EveryStep == RecoveryTypeOK /\ [Next]_vars => Effect
<1> SUFFICES ASSUME RecoveryTypeOK, [Next]_vars PROVE Effect
  OBVIOUS
<1>1. CASE UNCHANGED recovery
  BY <1>1 DEF Effect
<1>2. CASE Create \/ Destroy
  BY <1>2, StartingOver DEF Effect, Restarted
<1>3. CASE Disconnect
  BY <1>3, DisconnectEffect
<1>4. CASE \E ok \in Outcomes : FeedDisconnect(ok)
  BY <1>4, FeedDisconnectEffect
<1>5. CASE \E ok, ok_complete \in Outcomes : FeedTemporaryReject(ok, ok_complete)
  BY <1>5, FeedTemporaryRejectEffect
<1>6. CASE \E ok \in Outcomes : RunFirstEapol(ok)
  BY <1>6, RunFirstEapolEffect
<1>7. CASE RunFallback \/ RunComplete \/ RunTempRetry
  BY <1>7, RunFallbackEffect, RunCompleteEffect, RunTempRetryEffect
<1>8. QED
  BY <1>1, <1>2, <1>3, <1>4, <1>5, <1>6, <1>7, OtherActions
     DEF Next, Client, Handler

--------------------------------------------------------------------------------
LEMMA ZeroTyped == ZeroCounts \in Counters /\ [first |-> 0, reject |-> 0] \in [first : Nat, reject : Nat]
BY DEF ZeroCounts, Counters

LEMMA InitTyped == Init => RecoveryTypeOK
BY ZeroTyped DEF Init, RecoveryTypeOK

(* Updating the counters of one step with numbers keeps their type.        *)
LEMMA TwoCounters ==
  ASSUME NEW c \in Counters, NEW n \in Nat, NEW m \in Nat
  PROVE  [c EXCEPT !.rejects = n, !.disconnect_events = m] \in Counters
BY DEF Counters

LEMMA ThreeCounters ==
  ASSUME NEW c \in Counters, NEW f \in Nat, NEW l \in Nat, NEW n \in Nat
  PROVE  /\ [[c EXCEPT !.fallbacks = f, !.local_disconnects = l]
                EXCEPT !.cached = n] \in Counters
         /\ [[c EXCEPT !.fallbacks = f, !.local_disconnects = l]
                EXCEPT !.scan = n] \in Counters
<1> DEFINE d == [c EXCEPT !.fallbacks = f, !.local_disconnects = l]
<1>1. d \in Counters
  BY DEF Counters
<1> HIDE DEF d
<1>2. [d EXCEPT !.cached = n] \in Counters /\ [d EXCEPT !.scan = n] \in Counters
  BY <1>1 DEF Counters
<1>3. QED BY <1>2 DEF d

LEMMA EffectCounts == ASSUME RecoveryTypeOK, Effect PROVE count' \in Counters
<1> USE DEF RecoveryTypeOK
<1>1. CASE UNCHANGED recovery
  BY <1>1 DEF recovery
<1>2. CASE Restarted
  BY <1>2, ZeroTyped DEF Restarted
<1>3. CASE BothGivenUp
  BY <1>3 DEF BothGivenUp
<1>4. CASE OnlyCounted
  BY <1>4 DEF OnlyCounted, Counters
<1>5. CASE RejectDetected
  <2>1. count.rejects + 1 \in Nat /\ count.disconnect_events + 1 \in Nat
    BY DEF Counters
  <2>2. CASE count' = [count EXCEPT !.rejects = @ + 1]
    BY <2>2 DEF Counters
  <2>3. CASE count' = [count EXCEPT !.rejects = @ + 1, !.disconnect_events = @ + 1]
    <3>1. count' = [count EXCEPT !.rejects = count.rejects + 1,
                                 !.disconnect_events = count.disconnect_events + 1]
      BY <2>3
    <3>2. QED BY <2>1, <3>1, TwoCounters
  <2>4. QED BY <1>5, <2>2, <2>3 DEF RejectDetected
<1>6. CASE TimeoutDetected
  BY <1>6 DEF TimeoutDetected, Counters
<1>7. CASE FirstRetried
  <2>1. PICK f \in Nat, l \in Nat :
          LET counted == [count EXCEPT !.fallbacks = f, !.local_disconnects = l]
          IN  \/ count' = [counted EXCEPT !.cached = @ + 1]
              \/ count' = [counted EXCEPT !.scan = @ + 1]
    BY <1>7 DEF FirstRetried
  <2> DEFINE counted == [count EXCEPT !.fallbacks = f, !.local_disconnects = l]
  <2>2. counted.cached + 1 \in Nat /\ counted.scan + 1 \in Nat
    BY SMTT(40) DEF Counters
  <2>3. CASE count' = [counted EXCEPT !.cached = @ + 1]
    <3>1. count' = [counted EXCEPT !.cached = counted.cached + 1]
      BY <2>3, SMTT(40)
    <3>2. QED BY <2>2, <3>1, ThreeCounters
  <2>4. CASE count' = [counted EXCEPT !.scan = @ + 1]
    <3>1. count' = [counted EXCEPT !.scan = counted.scan + 1]
      BY <2>4
    <3>2. QED BY <2>2, <3>1, ThreeCounters
  <2>5. QED BY <2>1, <2>3, <2>4, SMTT(40)
<1>8. CASE RejectRetried
  BY <1>8 DEF RejectRetried, Counters
<1>9. QED BY <1>1, <1>2, <1>3, <1>4, <1>5, <1>6, <1>7, <1>8 DEF Effect

LEMMA EffectTyped == RecoveryTypeOK /\ Effect => RecoveryTypeOK'
<1> SUFFICES ASSUME RecoveryTypeOK, Effect PROVE RecoveryTypeOK'
  BY SMTT(40)
<1>1. first_eapol_retry_pending' \in {TRUE, FALSE, first_eapol_retry_pending}
  BY ZenonT(60)
  DEF Effect, Restarted, BothGivenUp, OnlyCounted, RejectDetected, TimeoutDetected,
         FirstRetried, RejectRetried, recovery
<1>2. temporary_reject_retry_pending' \in {TRUE, FALSE, temporary_reject_retry_pending}
  BY DEF Effect, Restarted, BothGivenUp, OnlyCounted, RejectDetected, TimeoutDetected,
         FirstRetried, RejectRetried, recovery
<1>3. first_eapol_retry_pending' \in BOOLEAN
  BY <1>1, Zenon DEF RecoveryTypeOK
<1>4. temporary_reject_retry_pending' \in BOOLEAN
  BY <1>2, Zenon DEF RecoveryTypeOK
<1>5. lapsed' \in [first : Nat, reject : Nat]
  <2>1. One(first_eapol_retry_pending) \in Nat /\ One(temporary_reject_retry_pending) \in Nat
    BY DEF One
  <2>2. lapsed \in [first : Nat, reject : Nat]
    BY SMTT(40) DEF RecoveryTypeOK
  <2>3. \/ lapsed' = lapsed
        \/ lapsed' = [first |-> 0, reject |-> 0]
        \/ lapsed' = [first  |-> lapsed.first + One(first_eapol_retry_pending),
                      reject |-> lapsed.reject + One(temporary_reject_retry_pending)]
        \/ lapsed' = [lapsed EXCEPT !.reject = @ + One(temporary_reject_retry_pending)]
        \/ lapsed' = [lapsed EXCEPT !.first = @ + One(first_eapol_retry_pending)]
    BY DEF Effect, Restarted, BothGivenUp, OnlyCounted, RejectDetected, TimeoutDetected,
           FirstRetried, RejectRetried, recovery
  <2>4. QED BY <2>1, <2>2, <2>3
<1>6. count' \in Counters
  BY EffectCounts
<1>7. QED BY <1>3, <1>4, <1>5, <1>6 DEF RecoveryTypeOK

(* The flags and counters of the recoveries keep their types, in every     *)
(* behaviour of the context (hisi_wpa_context_internal.h:28-38).           *)
THEOREM RecoveryTyped == Spec => []RecoveryTypeOK
<1>1. RecoveryTypeOK /\ [Next]_vars => RecoveryTypeOK'
  BY EveryStep, EffectTyped
<1>2. QED BY InitTyped, <1>1, PTL DEF Spec

LEMMA FirstInit == Init => FirstEapolObligation!Init
BY DEF Init, FirstEapolObligation!Init, ZeroCounts

LEMMA FirstStep ==
  RecoveryTypeOK /\ Effect
  => [FirstEapolObligation!Next]_(FirstEapolObligation!vars)
<1> SUFFICES ASSUME RecoveryTypeOK, Effect
             PROVE  [FirstEapolObligation!Next]_(FirstEapolObligation!vars)
  OBVIOUS
<1> USE DEF RecoveryTypeOK, Counters, One
<1>1. CASE UNCHANGED recovery
  BY <1>1 DEF recovery, FirstEapolObligation!vars
<1>2. CASE Restarted
  <2>1. FirstEapolObligation!Reset
    BY <1>2 DEF Restarted, ZeroCounts, FirstEapolObligation!Reset
  <2>2. QED BY <2>1 DEF FirstEapolObligation!Next
<1>3. CASE BothGivenUp
  <2>1. CASE first_eapol_retry_pending
    BY <1>3, <2>1 DEF BothGivenUp, FirstEapolObligation!GiveUp, FirstEapolObligation!Next
  <2>2. CASE ~first_eapol_retry_pending
    <3>1. first_eapol_retry_pending' = first_eapol_retry_pending
      BY <1>3, <2>2, Zenon DEF BothGivenUp
    <3>2. lapsed'.first = lapsed.first /\ count' = count
      BY <1>3, <2>2 DEF BothGivenUp
    <3>3. QED BY <3>1, <3>2 DEF FirstEapolObligation!vars
  <2>3. QED BY <2>1, <2>2
<1>4. CASE OnlyCounted
  BY <1>4 DEF OnlyCounted, FirstEapolObligation!vars
<1>5. CASE TimeoutDetected
  <2>1. FirstEapolObligation!Detect
    BY <1>5 DEF TimeoutDetected, FirstEapolObligation!Detect
  <2>2. QED BY <2>1 DEF FirstEapolObligation!Next
<1>6. CASE RejectDetected
  BY <1>6 DEF RejectDetected, FirstEapolObligation!vars
<1>7. CASE FirstRetried
  <2>1. PICK f \in Nat, l \in Nat :
          LET counted == [count EXCEPT !.fallbacks = f, !.local_disconnects = l]
          IN  \/ count' = [counted EXCEPT !.cached = @ + 1]
              \/ count' = [counted EXCEPT !.scan = @ + 1]
    BY <1>7 DEF FirstRetried
  <2>2. /\ count'.cached + count'.scan = count.cached + count.scan + 1
        /\ count'.timeouts = count.timeouts
    <3> DEFINE counted == [count EXCEPT !.fallbacks = f, !.local_disconnects = l]
    <3>1. /\ counted.cached = count.cached /\ counted.scan = count.scan
          /\ counted.timeouts = count.timeouts
          /\ counted \in Counters
      OBVIOUS
    <3> HIDE DEF counted
    <3>2. CASE count' = [counted EXCEPT !.cached = @ + 1]
      BY <3>1, <3>2
    <3>3. CASE count' = [counted EXCEPT !.scan = @ + 1]
      BY <3>1, <3>3
    <3>4. QED BY <2>1, <3>2, <3>3 DEF counted
  <2>3. first_eapol_retry_pending /\ first_eapol_retry_pending' = FALSE
    BY <1>7, Zenon DEF FirstRetried
  <2>4. lapsed'.first = lapsed.first
    BY <1>7 DEF FirstRetried
  <2> HIDE DEF RecoveryTypeOK, Counters
  <2>5. FirstEapolObligation!Retry
    BY <2>2, <2>3, <2>4, Zenon DEF FirstEapolObligation!Retry
  <2>6. QED BY <2>5 DEF FirstEapolObligation!Next
<1>8. CASE RejectRetried
  BY <1>8 DEF RejectRetried, FirstEapolObligation!vars
<1>9. QED BY <1>1, <1>2, <1>3, <1>4, <1>5, <1>6, <1>7, <1>8 DEF Effect

(* The recovery from a missing first EAPOL frame implements its            *)
(* obligation: every retry answers one timeout, and every timeout is       *)
(* answered by at most one retry (supplicant_ws63.c:40-115, 401-419,       *)
(* 699-713).                                                               *)
THEOREM FirstEapolRefined == Spec => ImplementsFirstEapolRetry
<1>1. RecoveryTypeOK /\ [Next]_vars
      => [FirstEapolObligation!Next]_(FirstEapolObligation!vars)
  BY EveryStep, FirstStep
<1>2. QED
  BY RecoveryTyped, FirstInit, <1>1, PTL
     DEF Spec, ImplementsFirstEapolRetry, FirstEapolObligation!Spec

LEMMA RejectInit == Init => TempRejectObligation!Init
BY DEF Init, TempRejectObligation!Init, ZeroCounts

LEMMA RejectStep ==
  RecoveryTypeOK /\ Effect
  => [TempRejectObligation!Next]_(TempRejectObligation!vars)
<1> SUFFICES ASSUME RecoveryTypeOK, Effect
             PROVE  [TempRejectObligation!Next]_(TempRejectObligation!vars)
  OBVIOUS
<1> USE DEF RecoveryTypeOK, Counters, One
<1>1. CASE UNCHANGED recovery
  BY <1>1 DEF recovery, TempRejectObligation!vars
<1>2. CASE Restarted
  <2>1. TempRejectObligation!Reset
    BY <1>2 DEF Restarted, ZeroCounts, TempRejectObligation!Reset
  <2>2. QED BY <2>1 DEF TempRejectObligation!Next
<1>3. CASE BothGivenUp
  <2>1. CASE temporary_reject_retry_pending
    BY <1>3, <2>1 DEF BothGivenUp, TempRejectObligation!GiveUp, TempRejectObligation!Next
  <2>2. CASE ~temporary_reject_retry_pending
    <3>1. temporary_reject_retry_pending' = temporary_reject_retry_pending
      BY <1>3, <2>2, Zenon DEF BothGivenUp
    <3>2. lapsed'.reject = lapsed.reject /\ count' = count
      BY <1>3, <2>2 DEF BothGivenUp
    <3>3. QED BY <3>1, <3>2 DEF TempRejectObligation!vars
  <2>3. QED BY <2>1, <2>2
<1>4. CASE OnlyCounted
  BY <1>4 DEF OnlyCounted, TempRejectObligation!vars
<1>5. CASE RejectDetected
  <2>1. /\ count'.rejects = count.rejects + 1
        /\ count'.reject_cached = count.reject_cached
        /\ count'.reject_scan = count.reject_scan
    BY <1>5 DEF RejectDetected
  <2>2. lapsed'.reject = lapsed.reject + One(temporary_reject_retry_pending)
    BY <1>5 DEF RejectDetected
  <2>3. TempRejectObligation!Detect
    BY <1>5, <2>1, <2>2 DEF RejectDetected, TempRejectObligation!Detect
  <2>4. QED BY <2>3 DEF TempRejectObligation!Next
<1>6. CASE TimeoutDetected
  BY <1>6 DEF TimeoutDetected, TempRejectObligation!vars
<1>7. CASE RejectRetried
  <2>1. TempRejectObligation!Retry
    BY <1>7 DEF RejectRetried, TempRejectObligation!Retry
  <2>2. QED BY <2>1 DEF TempRejectObligation!Next
<1>8. CASE FirstRetried
  BY <1>8 DEF FirstRetried, TempRejectObligation!vars
<1>9. QED BY <1>1, <1>2, <1>3, <1>4, <1>5, <1>6, <1>7, <1>8 DEF Effect

(* So does the recovery from a temporary reject, reason 8030               *)
(* (supplicant_ws63.c:117-141, 413-415, 682-698).                          *)
THEOREM TempRejectRefined == Spec => ImplementsTempRejectRetry
<1>1. RecoveryTypeOK /\ [Next]_vars
      => [TempRejectObligation!Next]_(TempRejectObligation!vars)
  BY EveryStep, RejectStep
<1>2. QED
  BY RecoveryTyped, RejectInit, <1>1, PTL
     DEF Spec, ImplementsTempRejectRetry, TempRejectObligation!Spec

--------------------------------------------------------------------------------
(* What the obligations say of the counters that the firmware reports. *)

FirstBalance == FirstEapolObligation!Balance
RejectBalance == TempRejectObligation!Balance
Balanced == RecoveryTypeOK /\ FirstBalance /\ RejectBalance

LEMMA FirstBalanceKept ==
  ASSUME RecoveryTypeOK, RecoveryTypeOK', FirstBalance,
         [FirstEapolObligation!Next]_(FirstEapolObligation!vars)
  PROVE  FirstBalance'
<1> USE DEF FirstBalance, FirstEapolObligation!Balance
<1> DEFINE retried == count.cached + count.scan
<1>1. /\ count.timeouts \in Nat /\ retried \in Nat /\ lapsed.first \in Nat
      /\ count'.timeouts \in Nat /\ retried' \in Nat /\ lapsed'.first \in Nat
      /\ first_eapol_retry_pending \in BOOLEAN
  BY DEF RecoveryTypeOK, Counters
<1> HIDE DEF retried
<1>2. count.timeouts = retried + lapsed.first + (IF first_eapol_retry_pending THEN 1 ELSE 0)
  BY DEF retried
<1>3. CASE FirstEapolObligation!Detect
  BY <1>1, <1>2, <1>3 DEF FirstEapolObligation!Detect, retried
<1>4. CASE FirstEapolObligation!Retry
  BY <1>1, <1>2, <1>4 DEF FirstEapolObligation!Retry, retried
<1>5. CASE FirstEapolObligation!GiveUp
  BY <1>1, <1>2, <1>5 DEF FirstEapolObligation!GiveUp, retried
<1>6. CASE FirstEapolObligation!Reset
  BY <1>6 DEF FirstEapolObligation!Reset
<1>7. CASE UNCHANGED FirstEapolObligation!vars
  BY <1>2, <1>7 DEF FirstEapolObligation!vars, retried
<1>8. QED
  BY <1>3, <1>4, <1>5, <1>6, <1>7 DEF FirstEapolObligation!Next

LEMMA RejectBalanceKept ==
  ASSUME RecoveryTypeOK, RecoveryTypeOK', RejectBalance,
         [TempRejectObligation!Next]_(TempRejectObligation!vars)
  PROVE  RejectBalance'
<1> USE DEF RejectBalance, TempRejectObligation!Balance
<1> DEFINE retried == count.reject_cached + count.reject_scan
<1>1. /\ count.rejects \in Nat /\ retried \in Nat /\ lapsed.reject \in Nat
      /\ count'.rejects \in Nat /\ retried' \in Nat /\ lapsed'.reject \in Nat
      /\ temporary_reject_retry_pending \in BOOLEAN
  BY DEF RecoveryTypeOK, Counters
<1> HIDE DEF retried
<1>2. count.rejects = retried + lapsed.reject
                        + (IF temporary_reject_retry_pending THEN 1 ELSE 0)
  BY DEF retried
<1>3. CASE TempRejectObligation!Detect
  BY <1>1, <1>2, <1>3 DEF TempRejectObligation!Detect, retried
<1>4. CASE TempRejectObligation!Retry
  BY <1>1, <1>2, <1>4 DEF TempRejectObligation!Retry, retried
<1>5. CASE TempRejectObligation!GiveUp
  BY <1>1, <1>2, <1>5 DEF TempRejectObligation!GiveUp, retried
<1>6. CASE TempRejectObligation!Reset
  BY <1>6 DEF TempRejectObligation!Reset
<1>7. CASE UNCHANGED TempRejectObligation!vars
  BY <1>2, <1>7 DEF TempRejectObligation!vars, retried
<1>8. QED
  BY <1>3, <1>4, <1>5, <1>6, <1>7 DEF TempRejectObligation!Next

(* The counters balance: each failure that was detected is still owed a    *)
(* retry, was retried once, or was given up, at every moment and for both  *)
(* recoveries (supplicant_ws63.c:40-141, 682-713).                         *)
THEOREM RetriesBalance ==
  Spec => [](FirstEapolObligation!Balance /\ TempRejectObligation!Balance)
<1>1. Init => FirstBalance /\ RejectBalance
  BY DEF Init, ZeroCounts, FirstBalance, RejectBalance,
         FirstEapolObligation!Balance, TempRejectObligation!Balance
<1>2. ASSUME Balanced, [Next]_vars PROVE Balanced'
  <2>1. Effect
    BY <1>2, EveryStep DEF Balanced
  <2>2. RecoveryTypeOK /\ RecoveryTypeOK'
    BY <1>2, <2>1, EffectTyped DEF Balanced
  <2>3. FirstBalance'
    BY <1>2, <2>1, <2>2, FirstStep, FirstBalanceKept DEF Balanced
  <2>4. RejectBalance'
    BY <1>2, <2>1, <2>2, RejectStep, RejectBalanceKept DEF Balanced
  <2>5. QED BY <2>2, <2>3, <2>4 DEF Balanced
<1>3. Balanced => FirstEapolObligation!Balance /\ TempRejectObligation!Balance
  BY DEF Balanced, FirstBalance, RejectBalance
<1>4. Init => Balanced
  BY <1>1, InitTyped DEF Balanced
<1>5. QED BY <1>2, <1>3, <1>4, PTL DEF Spec

(* So the diagnostics never report more retries than failures: a number of *)
(* cached and scanning retries above the number of first EAPOL timeouts,   *)
(* or of temporary rejects, is a wrong report                              *)
(* (hisi_wpa_context_internal.h:28-38).                                    *)
RetriesWithinFailures ==
  /\ count.cached + count.scan <= count.timeouts
  /\ count.reject_cached + count.reject_scan <= count.rejects

THEOREM RetriesAnswerFailures == Spec => []RetriesWithinFailures
<1>1. ASSUME RecoveryTypeOK, FirstEapolObligation!Balance, TempRejectObligation!Balance
      PROVE  RetriesWithinFailures
  BY <1>1 DEF RetriesWithinFailures, RecoveryTypeOK, Counters,
              FirstEapolObligation!Balance, TempRejectObligation!Balance
<1>2. QED BY <1>1, RecoveryTyped, RetriesBalance, PTL

--------------------------------------------------------------------------------
(* The word that the six counters of the first recovery are packed into *)

\* increment_diagnostic keeps each of them at the maximum of its eight bits.
Reported(n) == IF n > 255 THEN 255 ELSE n

Word ==
  INSTANCE RecoveryDiagnostics
    WITH CountMax <- 255, MaxSteps <- 0, pending <- first_eapol_retry_pending,
         count <- <<Reported(count.timeouts), Reported(count.disconnect_events),
                    Reported(count.fallbacks), Reported(count.local_disconnects),
                    Reported(count.cached), Reported(count.scan)>>

\* What a division cuts off and what it leaves.
LEMMA Quotient ==
  ASSUME NEW k \in Nat, k > 0, NEW q \in Nat, NEW r \in Nat, r < k,
         NEW w, w = q * k + r
  PROVE  w \div k = q
OBVIOUS

LEMMA Remainder ==
  ASSUME NEW q \in Nat, NEW r \in 0 .. 15, NEW w, w = q * 16 + r
  PROVE  w % 16 = r
OBVIOUS

\* Six digits of four bits and a bit above them, and what is read at each place.
IsPacked(w, a, b, c, d, e, f, g) ==
  w = ((((((g * 16 + f) * 16 + e) * 16 + d) * 16 + c) * 16 + b) * 16) + a
ReadsAs(w, a, b, c, d, e, f) ==
  /\ (w \div 1) % 16 = a /\ (w \div 16) % 16 = b
  /\ (w \div (16 * 16)) % 16 = c /\ (w \div (16 * 16 * 16)) % 16 = d
  /\ (w \div (16 * 16 * 16 * 16)) % 16 = e
  /\ (w \div (16 * 16 * 16 * 16 * 16)) % 16 = f

\* The places do not disturb each other.
LEMMA Digits ==
  ASSUME NEW a \in 0 .. 15, NEW b \in 0 .. 15, NEW c \in 0 .. 15,
         NEW d \in 0 .. 15, NEW e \in 0 .. 15, NEW f \in 0 .. 15,
         NEW g \in 0 .. 1, NEW w, IsPacked(w, a, b, c, d, e, f, g)
  PROVE  ReadsAs(w, a, b, c, d, e, f)
<1> DEFINE q5 == g * 16 + f
           q4 == q5 * 16 + e
           q3 == q4 * 16 + d
           q2 == q3 * 16 + c
           q1 == q2 * 16 + b
<1>1. /\ q5 \in Nat /\ q4 \in Nat /\ q3 \in Nat /\ q2 \in Nat /\ q1 \in Nat
      /\ w \in Nat /\ w = q1 * 16 + a
      /\ q5 = g * 16 + f /\ q4 = q5 * 16 + e /\ q3 = q4 * 16 + d
      /\ q2 = q3 * 16 + c /\ q1 = q2 * 16 + b
  BY DEF IsPacked
<1> HIDE DEF q1, q2, q3, q4, q5
<1>2. (w \div 1) % 16 = a
  <2>1. w \div 1 = w
    BY <1>1
  <2> QED BY <1>1, <2>1, Remainder
<1>3. (w \div 16) % 16 = b
  <2>1. w \div 16 = q1
    BY <1>1, Quotient
  <2> QED BY <1>1, <2>1, Remainder
<1>4. (w \div (16 * 16)) % 16 = c
  <2>1. w = q2 * (16 * 16) + (b * 16 + a) /\ b * 16 + a \in 0 .. 255
    BY <1>1
  <2>2. w \div (16 * 16) = q2
    BY <1>1, <2>1, Quotient
  <2> QED BY <1>1, <2>2, Remainder
<1>5. (w \div (16 * 16 * 16)) % 16 = d
  <2>1. w = q3 * (16 * 16 * 16) + ((c * 16 + b) * 16 + a)
    BY <1>1
  <2>2. w \div (16 * 16 * 16) = q3
    BY <1>1, <2>1, Quotient
  <2> QED BY <1>1, <2>2, Remainder
<1>6. (w \div (16 * 16 * 16 * 16)) % 16 = e
  <2>1. w = q4 * (16 * 16 * 16 * 16) + (((d * 16 + c) * 16 + b) * 16 + a)
    BY <1>1
  <2>2. w \div (16 * 16 * 16 * 16) = q4
    BY <1>1, <2>1, Quotient
  <2> QED BY <1>1, <2>2, Remainder
<1>7. (w \div (16 * 16 * 16 * 16 * 16)) % 16 = f
  <2>1. w = q5 * (16 * 16 * 16 * 16 * 16)
              + ((((e * 16 + d) * 16 + c) * 16 + b) * 16 + a)
    BY <1>1
  <2>2. w \div (16 * 16 * 16 * 16 * 16) = q5
    BY <1>1, <2>1, Quotient
  <2> QED BY <1>1, <2>2, Remainder
<1> QED BY <1>2, <1>3, <1>4, <1>5, <1>6, <1>7, Zenon DEF ReadsAs

\* The counters as the word has them, and which of them it shows as promised.
Reports == <<Reported(count.timeouts), Reported(count.disconnect_events),
             Reported(count.fallbacks), Reported(count.local_disconnects),
             Reported(count.cached), Reported(count.scan)>>
Showable(n) == n <= 15 \/ n % 16 = 15

LEMMA ReportsTyped ==
  ASSUME RecoveryTypeOK
  PROVE  /\ Word!Places = 1 .. 6
         /\ \A p \in 1 .. 6 : Reports[p] \in Nat
  BY DEF RecoveryTypeOK, Counters, Word!Places, Word!Layout, Reports, Reported

LEMMA NibbleIs ==
  ASSUME RecoveryTypeOK, NEW p \in 1 .. 6
  PROVE  Word!Nibble(p) = Reports[p] % 16
<1> DEFINE a == Reports[1] % 16
           b == Reports[2] % 16
           c == Reports[3] % 16
           d == Reports[4] % 16
           e == Reports[5] % 16
           f == Reports[6] % 16
           g == IF first_eapol_retry_pending THEN 1 ELSE 0
           w == Word!RecoveryWord
<1>1. /\ a \in 0 .. 15 /\ b \in 0 .. 15 /\ c \in 0 .. 15 /\ d \in 0 .. 15
      /\ e \in 0 .. 15 /\ f \in 0 .. 15 /\ g \in 0 .. 1
  BY ReportsTyped
<1>2. w = a * 1 + b * 16 + c * (16 * 16) + d * (16 * 16 * 16)
            + e * (16 * 16 * 16 * 16) + f * (16 * 16 * 16 * 16 * 16)
            + (IF first_eapol_retry_pending THEN 16 * 16 * 16 * 16 * 16 * 16 ELSE 0)
  <2>1. /\ Word!Shifted(1) = a * 1 /\ Word!Shifted(2) = b * 16
        /\ Word!Shifted(3) = c * (16 * 16) /\ Word!Shifted(4) = d * (16 * 16 * 16)
        /\ Word!Shifted(5) = e * (16 * 16 * 16 * 16)
        /\ Word!Shifted(6) = f * (16 * 16 * 16 * 16 * 16)
        /\ Word!Weight[7] = 16 * 16 * 16 * 16 * 16 * 16
    BY DEF Word!Shifted, Word!Weight, Word!NibbleMax, Reports
  <2> QED BY <2>1 DEF Word!RecoveryWord
<1> HIDE DEF a, b, c, d, e, f, w
<1>3. IsPacked(w, a, b, c, d, e, f, g)
  BY <1>1, <1>2 DEF IsPacked
<1> HIDE DEF g
<1>4. ReadsAs(w, a, b, c, d, e, f)
  BY <1>1, <1>3, Digits, Zenon
<1>5. Word!Nibble(p) = (w \div Word!Weight[p]) % 16
  BY DEF Word!Nibble, Word!NibbleMax, w
<1>6. /\ Word!Weight[1] = 1 /\ Word!Weight[2] = 16 /\ Word!Weight[3] = 16 * 16
      /\ Word!Weight[4] = 16 * 16 * 16 /\ Word!Weight[5] = 16 * 16 * 16 * 16
      /\ Word!Weight[6] = 16 * 16 * 16 * 16 * 16
  BY DEF Word!Weight
<1>7. \/ p = 1 /\ Reports[p] % 16 = a
      \/ p = 2 /\ Reports[p] % 16 = b
      \/ p = 3 /\ Reports[p] % 16 = c
      \/ p = 4 /\ Reports[p] % 16 = d
      \/ p = 5 /\ Reports[p] % 16 = e
      \/ p = 6 /\ Reports[p] % 16 = f
  BY DEF a, b, c, d, e, f
<1> QED BY <1>4, <1>5, <1>6, <1>7, Zenon DEF ReadsAs

(* The reach of the promise of include/hisi_wpa_supplicant.h:283-285, "six  *)
(* saturated nibbles": the word keeps it exactly while each counter is 15   *)
(* at most, or is one that its low four bits show as 15 again.  All of the  *)
(* nibbles are what the mask leaves (supplicant_ws63.c:517-529).            *)
NibblesAreRemainders == \A p \in Word!Places : Word!Nibble(p) = Reports[p] % 16

PromiseKept ==
  Word!NibblesSaturated <=> \A p \in Word!Places : Showable(Reports[p])

THEOREM NibblesShown == Spec => [](NibblesAreRemainders /\ PromiseKept)
<1>1. ASSUME RecoveryTypeOK PROVE NibblesAreRemainders
  BY <1>1, ReportsTyped, NibbleIs DEF NibblesAreRemainders
<1>2. ASSUME RecoveryTypeOK PROVE PromiseKept
  <2>1. ASSUME NEW p \in Word!Places
        PROVE  Word!Nibble(p) = (IF Reports[p] > 15 THEN 15 ELSE Reports[p])
                 <=> Showable(Reports[p])
    <3>1. Word!Nibble(p) = Reports[p] % 16 /\ Reports[p] \in Nat
      BY <1>2, ReportsTyped, NibbleIs
    <3>2. Reports[p] <= 15 => Reports[p] % 16 = Reports[p]
      BY <3>1
    <3> QED BY <3>1, <3>2 DEF Showable
  <2>2. Word!NibblesSaturated
          <=> \A p \in Word!Places :
                Word!Nibble(p) = (IF Reports[p] > 15 THEN 15 ELSE Reports[p])
    BY Zenon DEF Word!NibblesSaturated, Word!NibbleMax, Reports
  <2> QED BY <2>1, <2>2, Zenon DEF PromiseKept
<1>3. QED BY <1>1, <1>2, RecoveryTyped, PTL

--------------------------------------------------------------------------------
(* The timers, as far as the recoveries depend on them: which handlers     *)
(* have one, and which have no two.                                        *)

Names     == OwnTimers \cup {Hostap}
Singles   == {FirstEapol, Fallback, TempRetry, Hostap}
TimerType == [deadline : Nat, handler : Names, context : {"context"}]

Has(list, h) == \E i \in 1 .. Len(list) : list[i].handler = h

Once(list, h) ==
  \A i, j \in 1 .. Len(list) : list[i].handler = h /\ list[j].handler = h => i = j

\* What one list of timers has in common with another, but for the timers of h.
LEMMA CancelFacts ==
  ASSUME NEW list \in Seq(TimerType), NEW h
  PROVE  /\ Cancelled(list, h) \in Seq(TimerType)
         /\ \A g : Has(Cancelled(list, h), g) <=> g # h /\ Has(list, g)
         /\ \A g : Once(list, g) => Once(Cancelled(list, h), g)
<1> DEFINE kept == (1 .. Len(list)) \ List!MatchesAt(list, h, "context")
           left == Cancelled(list, h)
<1>1. left = Picked(list, kept)
  BY DEF Cancelled, List!RemoveAll, List!Picked, Picked
<1>2. \A i \in 1 .. Len(list) : list[i] \in TimerType
  OBVIOUS
<1>3. \A i \in 1 .. Len(list) : i \in kept <=> list[i].handler # h
  BY <1>2 DEF List!MatchesAt, List!Matches, TimerType
<1> HIDE DEF kept, left
<1>4. left \in Seq(TimerType)
  BY <1>1, PickedOrder
<1>5. PICK from : LeftOf(list, kept, Len(list), left, from)
  BY <1>1, PickedOrder
<1>6. /\ \A i \in 1 .. Len(left) : /\ from[i] \in 1 .. Len(list) /\ from[i] \in kept
                                   /\ left[i] = list[from[i]]
      /\ \A i, j \in 1 .. Len(left) : i < j => from[i] < from[j]
      /\ \A p \in 1 .. Len(list) : p \in kept => \E i \in 1 .. Len(left) : from[i] = p
  BY <1>5 DEF LeftOf
<1>7. \A i, j \in 1 .. Len(left) : from[i] = from[j] => i = j
  <2> TAKE i \in 1 .. Len(left), j \in 1 .. Len(left)
  <2>1. i \in Int /\ j \in Int /\ from[i] \in Int /\ from[j] \in Int
    BY <1>4, <1>6
  <2>2. i < j \/ j < i \/ i = j
    BY <2>1
  <2>3. QED
    BY <1>6, <2>1, <2>2
<1>8. \A g : Has(left, g) <=> g # h /\ Has(list, g)
  <2> TAKE g
  <2>1. ASSUME Has(left, g) PROVE g # h /\ Has(list, g)
    <3>1. PICK i \in 1 .. Len(left) : left[i].handler = g
      BY <2>1 DEF Has
    <3>2. from[i] \in 1 .. Len(list) /\ from[i] \in kept /\ list[from[i]].handler = g
      BY <1>6, <3>1
    <3>3. QED
      BY <1>3, <3>2, Zenon DEF Has
  <2>2. ASSUME g # h, Has(list, g) PROVE Has(left, g)
    <3>1. PICK p \in 1 .. Len(list) : list[p].handler = g
      BY <2>2 DEF Has
    <3>2. PICK i \in 1 .. Len(left) : from[i] = p
      BY <1>3, <1>6, <2>2, <3>1
    <3>3. left[i].handler = g
      BY <1>6, <3>1, <3>2
    <3>4. QED
      BY <3>3 DEF Has
  <2>3. QED
    BY <2>1, <2>2
<1>9. \A g : Once(list, g) => Once(left, g)
  <2> SUFFICES ASSUME NEW g, Once(list, g),
                      NEW i \in 1 .. Len(left), NEW j \in 1 .. Len(left),
                      left[i].handler = g, left[j].handler = g
               PROVE  i = j
    BY DEF Once
  <2>1. list[from[i]].handler = g /\ list[from[j]].handler = g
    BY <1>6
  <2>2. from[i] = from[j]
    BY <1>6, <2>1, Zenon DEF Once
  <2>3. QED
    BY <1>7, <2>2
<1>10. QED
  BY <1>4, <1>8, <1>9 DEF left

LEMMA RegisterFacts ==
  ASSUME NEW list \in Seq(TimerType), NEW h \in Names, NEW d \in Nat
  PROVE  /\ Registered(list, h, d) \in Seq(TimerType)
         /\ \A g : Has(Registered(list, h, d), g) <=> g = h \/ Has(list, g)
         /\ \A g : Once(list, g) /\ (g = h => ~Has(list, g))
                   => Once(Registered(list, h, d), g)
<1> DEFINE timer == [deadline |-> d, handler |-> h, context |-> "context"]
           p == List!PlaceFor(list, d)
           more == Registered(list, h, d)
           n == Len(list)
<1>1. timer \in TimerType /\ timer.handler = h /\ n \in Nat
  BY DEF TimerType
<1>2. \A i \in 1 .. n : list[i].deadline \in Nat
  <2>1. \A i \in 1 .. n : list[i] \in TimerType
    OBVIOUS
  <2>2. QED
    BY <2>1 DEF TimerType
<1>3. p \in 1 .. n + 1
  <2> DEFINE Early == {j \in 1 .. n : list[j].deadline <= d}
  <2>1. PICK q \in 1 .. n + 1 : /\ \A j \in 1 .. q - 1 : j \in Early
                                /\ q <= n => q \notin Early
    <3> HIDE DEF Early, n
    <3>1. QED
      BY <1>1, LeadingRun, Zenon
  <2>2. q <= n => list[q].deadline > d
    <3>1. q <= n => q \in 1 .. n
      BY <1>1
    <3>2. QED
      BY <1>2, <2>1, <3>1
  <2>3. \A j \in 1 .. q - 1 : list[j].deadline <= d
    BY <2>1
  <2>4. QED
    BY <2>2, <2>3 DEF List!PlaceFor
<1>4. more = PutAt(list, p, timer)
  BY DEF Registered, List!Insert, List!PutAt, PutAt
<1> HIDE DEF timer, p, more
<1>5. /\ more \in Seq(TimerType) /\ Len(more) = n + 1
      /\ \A i \in 1 .. p - 1 : more[i] = list[i]
      /\ more[p] = timer
      /\ \A i \in p .. n : more[i + 1] = list[i]
  <2>1. IsPut(TimerType, list, p, timer, more)
    BY <1>1, <1>3, <1>4, PutAtFacts, Zenon
  <2>2. QED
    BY <2>1, Zenon DEF IsPut
<1> DEFINE at == [i \in 1 .. n |-> IF i < p THEN i ELSE i + 1]
           back == [i \in 1 .. n + 1 |-> IF i < p THEN i ELSE i - 1]
<1> HIDE DEF n
<1>6. \A i \in 1 .. n : at[i] \in 1 .. n + 1 /\ at[i] # p /\ more[at[i]] = list[i]
  BY <1>1, <1>3, <1>5
<1>7. \A i \in 1 .. n + 1 : i # p => /\ back[i] \in 1 .. n /\ at[back[i]] = i
                                     /\ more[i] = list[back[i]]
  <2> TAKE i \in 1 .. n + 1
  <2> HAVE i # p
  <2>1. CASE i < p
    <3>1. i \in 1 .. n /\ i \in 1 .. p - 1
      BY <1>1, <1>3, <2>1
    <3>2. QED
      BY <1>5, <2>1, <3>1
  <2>2. CASE i > p
    <3>1. PICK k \in p .. n : k \in 1 .. n /\ i = k + 1 /\ ~(k < p) /\ i - 1 = k /\ ~(i < p)
      <4>1. i - 1 \in p .. n /\ i - 1 \in 1 .. n /\ i = (i - 1) + 1 /\ ~(i - 1 < p)
            /\ ~(i < p)
        BY <1>1, <1>3, <2>2
      <4>2. QED
        BY <4>1
    <3>2. QED
      BY <1>5, <3>1
  <2>3. QED
    BY <1>3, <2>1, <2>2
<1> HIDE DEF at, back
<1>8. p \in 1 .. n + 1 /\ more[p].handler = h
  BY <1>1, <1>3, <1>5
<1>9. \A g : Has(more, g) <=> g = h \/ Has(list, g)
  <2> TAKE g
  <2>1. ASSUME Has(more, g), g # h PROVE Has(list, g)
    <3>1. PICK i \in 1 .. n + 1 : more[i].handler = g
      BY <1>5, <2>1 DEF Has
    <3>2. i # p
      BY <1>8, <2>1, <3>1
    <3>3. back[i] \in 1 .. n /\ list[back[i]].handler = g
      BY <1>7, <3>1, <3>2
    <3>4. QED
      BY <3>3 DEF Has, n
  <2>2. ASSUME Has(list, g) PROVE Has(more, g)
    <3>1. PICK i \in 1 .. n : list[i].handler = g
      BY <2>2 DEF Has, n
    <3>2. at[i] \in 1 .. n + 1 /\ more[at[i]].handler = g
      BY <1>6, <3>1
    <3>3. QED
      BY <1>5, <3>2 DEF Has
  <2>3. Has(more, h)
    BY <1>5, <1>8 DEF Has
  <2>4. QED
    BY <2>1, <2>2, <2>3, Zenon
<1>10. ASSUME NEW g, Once(list, g), g = h => ~Has(list, g)
       PROVE  Once(more, g)
  <2>1. SUFFICES ASSUME NEW i \in 1 .. n + 1, NEW j \in 1 .. n + 1,
                        more[i].handler = g, more[j].handler = g
                 PROVE  i = j
    BY <1>5, Zenon DEF Once
  <2>2. CASE g = h
    <3>1. \A k \in 1 .. n + 1 : k # p => more[k].handler # g
      <4> TAKE k \in 1 .. n + 1
      <4> HAVE k # p
      <4>1. back[k] \in 1 .. Len(list) /\ more[k] = list[back[k]]
        BY <1>7, Zenon DEF n
      <4>2. ~Has(list, g)
        BY <1>10, <2>2
      <4>3. list[back[k]].handler # g
        BY <4>1, <4>2, Zenon DEF Has
      <4>4. QED
        BY <4>1, <4>3, Zenon
    <3>2. QED
      BY <2>1, <3>1, Zenon
  <2>3. CASE g # h
    <3>1. i # p /\ j # p
      BY <1>8, <2>1, <2>3, Zenon
    <3>2. /\ back[i] \in 1 .. n /\ list[back[i]].handler = g
          /\ back[j] \in 1 .. n /\ list[back[j]].handler = g
      BY <1>7, <2>1, <3>1
    <3>3. back[i] = back[j]
      BY <1>10, <3>2, Zenon DEF Once, n
    <3>4. QED
      BY <1>7, <3>1, <3>3, Zenon
  <2>4. QED
    BY <2>2, <2>3
<1>11. QED
  BY <1>5, <1>9, <1>10 DEF more

\* The first timer is gone.
LEMMA TailFacts ==
  ASSUME NEW list \in Seq(TimerType), list # <<>>
  PROVE  /\ Tail(list) \in Seq(TimerType) /\ Head(list) \in TimerType
         /\ \A g : Has(Tail(list), g) => Has(list, g)
         /\ \A g : Has(list, g) => g = Head(list).handler \/ Has(Tail(list), g)
         /\ \A g : Once(list, g) => /\ Once(Tail(list), g)
                                    /\ Has(Tail(list), g) => g # Head(list).handler
<1> DEFINE left == Tail(list)
<1>1. /\ left \in Seq(TimerType) /\ Len(left) = Len(list) - 1 /\ Len(list) \in Nat
      /\ \A i \in 1 .. Len(left) : left[i] = list[i + 1]
      /\ Head(list) = list[1] /\ 1 \in 1 .. Len(list) /\ Head(list) \in TimerType
  BY HeadTailProperties
<1> HIDE DEF left
<1>2. \A i \in 1 .. Len(left) : i + 1 \in 1 .. Len(list) /\ i + 1 # 1
  BY <1>1
<1>3. \A i \in 1 .. Len(list) : i # 1 => \E k \in 1 .. Len(left) : i = k + 1
  <2> TAKE i \in 1 .. Len(list)
  <2> HAVE i # 1
  <2>1. i - 1 \in 1 .. Len(left) /\ i = (i - 1) + 1
    BY <1>1
  <2>2. QED
    BY <2>1
<1>4. \A i, j \in 1 .. Len(left) : i + 1 = j + 1 => i = j
  BY <1>1
<1>5. \A g : Has(left, g) => Has(list, g)
  BY <1>1, <1>2, Zenon DEF Has
<1>6. \A g : Has(list, g) => g = list[1].handler \/ Has(left, g)
  BY <1>1, <1>3, Zenon DEF Has
<1>7. \A g : Once(list, g) => Once(left, g)
  <2> SUFFICES ASSUME NEW g, Once(list, g),
                      NEW i \in 1 .. Len(left), NEW j \in 1 .. Len(left),
                      left[i].handler = g, left[j].handler = g
               PROVE  i = j
    BY DEF Once
  <2>1. list[i + 1].handler = g /\ list[j + 1].handler = g
    BY <1>1
  <2>2. i + 1 = j + 1
    BY <1>2, <2>1, Zenon DEF Once
  <2>3. QED
    BY <1>4, <2>2
<1>8. \A g : Once(list, g) /\ Has(left, g) => g # list[1].handler
  BY <1>1, <1>2, Zenon DEF Once, Has
<1>9. QED
  BY <1>1, <1>5, <1>6, <1>7, <1>8, Zenon DEF left
\* Time brings the deadlines nearer and changes nothing else.
LEMMA TickFacts ==
  ASSUME NEW list \in Seq(TimerType)
  PROVE  LET later == [i \in 1 .. Len(list) |->
                         [list[i] EXCEPT !.deadline = IF @ = 0 THEN 0 ELSE @ - 1]]
         IN  /\ later \in Seq(TimerType)
             /\ \A g : Has(later, g) <=> Has(list, g)
             /\ \A g : Once(list, g) => Once(later, g)
<1> DEFINE later == [i \in 1 .. Len(list) |->
                       [list[i] EXCEPT !.deadline = IF @ = 0 THEN 0 ELSE @ - 1]]
<1>1. Len(list) \in Nat /\ \A i \in 1 .. Len(list) : list[i] \in TimerType
  OBVIOUS
<1>2. \A t \in TimerType :
        LET next == [t EXCEPT !.deadline = IF @ = 0 THEN 0 ELSE @ - 1]
        IN  next \in TimerType /\ next.handler = t.handler
  BY DEF TimerType
<1>3. \A i \in 1 .. Len(list) : later[i] \in TimerType /\ later[i].handler = list[i].handler
  BY <1>1, <1>2
<1>4. later \in Seq(TimerType) /\ Len(later) = Len(list)
  <2>1. later \in [1 .. Len(list) -> TimerType]
    BY <1>3
  <2>2. QED
    BY <1>1, <2>1
<1> HIDE DEF later
<1>5. \A g : Has(later, g) <=> Has(list, g)
  BY <1>3, <1>4 DEF Has
<1>6. \A g : Once(list, g) => Once(later, g)
  BY <1>3, <1>4 DEF Once
<1>7. QED
  BY <1>4, <1>5, <1>6 DEF later

--------------------------------------------------------------------------------
(* The recoveries and their timers.                                        *)

\* What the timers, the two flags and the histories have to do with each other.
Safe(list, first, reject, without, told, idle) ==
  /\ list \in Seq(TimerType)
  /\ \A h \in Singles : Once(list, h)
  /\ without \subseteq OwnTimers
  /\ first => \/ Has(list, Fallback) \/ Has(list, Complete)
              \/ Fallback \in without \/ Complete \in without
  /\ reject => Has(list, TempRetry) \/ TempRetry \in without
  /\ first /\ Has(list, Complete) => told
  /\ idle => ~first /\ ~reject /\ \A h \in OwnTimers : ~Has(list, h)

SafeNow == Safe(timers, first_eapol_retry_pending, temporary_reject_retry_pending,
                refused, confirmed, quiet)

\* The names of the handlers differ.
LEMMA NamesDiffer ==
  /\ FirstEapol \in OwnTimers /\ Fallback \in OwnTimers /\ Complete \in OwnTimers
  /\ TempRetry \in OwnTimers /\ Hostap \notin OwnTimers
  /\ FirstEapol \in Names /\ Fallback \in Names /\ Complete \in Names
  /\ TempRetry \in Names /\ Hostap \in Names
  /\ FirstEapol # Fallback /\ FirstEapol # Complete /\ FirstEapol # TempRetry
  /\ Fallback # Complete /\ Fallback # TempRetry /\ Complete # TempRetry
  /\ FirstEapol \in Singles /\ Fallback \in Singles /\ TempRetry \in Singles
  /\ Hostap \in Singles /\ Complete \notin Singles
  /\ \A h \in Singles : h = FirstEapol \/ h = Fallback \/ h = TempRetry \/ h = Hostap
BY DEF FirstEapol, Fallback, Complete, TempRetry, Hostap, OwnTimers, Names, Singles

\* A list in which the recoveries' own timers are the same serves them as well.
SameOwn(list, other) ==
  /\ other \in Seq(TimerType)
  /\ \A h \in OwnTimers : Has(other, h) <=> Has(list, h)
  /\ (\A h \in Singles : Once(list, h)) => \A h \in Singles : Once(other, h)

LEMMA SafeSame ==
  ASSUME NEW list, NEW other, SameOwn(list, other),
         NEW first, NEW reject, NEW without, NEW told, NEW idle,
         Safe(list, first, reject, without, told, idle)
  PROVE  Safe(other, first, reject, without, told, idle)
BY NamesDiffer, Zenon DEF Safe, SameOwn

LEMMA RestartSame ==
  ASSUME NEW list \in Seq(TimerType), NEW d \in HostapDelays
  PROVE  SameOwn(list, Registered(Cancelled(list, Hostap), Hostap, d))
<1> DEFINE less == Cancelled(list, Hostap)
           more == Registered(less, Hostap, d)
<1>1. /\ less \in Seq(TimerType)
      /\ \A g : Has(less, g) <=> g # Hostap /\ Has(list, g)
      /\ \A g : Once(list, g) => Once(less, g)
  BY CancelFacts
<1> HIDE DEF less
<1>2. d \in Nat
  BY SupplicantAssumption
<1>3. /\ more \in Seq(TimerType)
      /\ \A g : Has(more, g) <=> g = Hostap \/ Has(less, g)
      /\ \A g : Once(less, g) /\ (g = Hostap => ~Has(less, g)) => Once(more, g)
  BY <1>1, <1>2, RegisterFacts, NamesDiffer
<1> HIDE DEF more
<1>4. SameOwn(list, more)
  BY <1>1, <1>3, NamesDiffer, Zenon DEF SameOwn
<1>5. QED
  BY <1>4 DEF more, less

\* So does hostap's timer, restarted or not.
LEMMA HostapSame ==
  ASSUME NEW list \in Seq(TimerType), NEW other \in HostapLists(list)
  PROVE  SameOwn(list, other)
<1>1. CASE other = list
  BY <1>1, Zenon DEF SameOwn
<1>2. ASSUME NEW d \in HostapDelays, other = Registered(Cancelled(list, Hostap), Hostap, d)
      PROVE  SameOwn(list, other)
  BY <1>2, RestartSame
<1>3. QED
  BY <1>1, <1>2 DEF HostapLists
\* A timer that is cancelled first is there once afterwards.
LEMMA ReplaceFacts ==
  ASSUME NEW list \in Seq(TimerType), NEW h \in Names, NEW d \in Nat
  PROVE  LET more == Registered(Cancelled(list, h), h, d)
         IN  /\ more \in Seq(TimerType)
             /\ \A g : Has(more, g) <=> g = h \/ Has(list, g)
             /\ \A g : Once(list, g) => Once(more, g)
<1> DEFINE less == Cancelled(list, h)
           more == Registered(less, h, d)
<1>1. /\ less \in Seq(TimerType)
      /\ \A g : Has(less, g) <=> g # h /\ Has(list, g)
      /\ \A g : Once(list, g) => Once(less, g)
  BY CancelFacts
<1> HIDE DEF less
<1>2. /\ more \in Seq(TimerType)
      /\ \A g : Has(more, g) <=> g = h \/ Has(less, g)
      /\ \A g : Once(less, g) /\ (g = h => ~Has(less, g)) => Once(more, g)
  BY <1>1, RegisterFacts
<1> HIDE DEF more
<1>3. /\ more \in Seq(TimerType)
      /\ \A g : Has(more, g) <=> g = h \/ Has(list, g)
      /\ \A g : Once(list, g) => Once(more, g)
  BY <1>1, <1>2, Zenon
<1>4. QED
  BY <1>3 DEF more, less

Armed(list, h, d, ok) ==
  IF ok THEN Registered(Cancelled(list, h), h, d) ELSE Cancelled(list, h)
Without(set, h, ok) == IF ok THEN set \ {h} ELSE set \cup {h}

\* With memory or without, arming a timer does this to a list.
LEMMA ArmedFacts ==
  ASSUME NEW list \in Seq(TimerType), NEW h \in Names, NEW d \in Nat, NEW ok
  PROVE  /\ Armed(list, h, d, ok) \in Seq(TimerType)
         /\ \A g : g # h => (Has(Armed(list, h, d, ok), g) <=> Has(list, g))
         /\ Has(Armed(list, h, d, ok), h) <=> ok
         /\ \A g : Once(list, g) => Once(Armed(list, h, d, ok), g)
<1>1. CASE ok
  BY <1>1, ReplaceFacts DEF Armed
<1>2. CASE ~ok
  BY <1>2, CancelFacts DEF Armed
<1>3. QED
  BY <1>1, <1>2

LEMMA DelaysTyped == FirstEapolDelay \in Nat /\ FallbackDelay \in Nat /\ 0 \in Nat
BY SupplicantAssumption

\* A first-EAPOL timeout is armed: the retries do not depend on it.
LEMMA SafeFirstArmed ==
  ASSUME NEW list, NEW first, NEW reject, NEW without, NEW told, NEW idle, NEW ok,
         Safe(list, first, reject, without, told, idle)
  PROVE  Safe(Armed(list, FirstEapol, FirstEapolDelay, ok), first, reject,
              Without(without, FirstEapol, ok), told, FALSE)
<1> DEFINE more == Armed(list, FirstEapol, FirstEapolDelay, ok)
<1>1. /\ more \in Seq(TimerType)
      /\ \A g : g # FirstEapol => (Has(more, g) <=> Has(list, g))
      /\ \A g : Once(list, g) => Once(more, g)
  BY ArmedFacts, DelaysTyped, NamesDiffer, Zenon DEF Safe
<1> HIDE DEF more
<1>2. Without(without, FirstEapol, ok) \subseteq OwnTimers
  BY NamesDiffer DEF Without, Safe
<1>3. \A h : h # FirstEapol => (h \in without <=> h \in Without(without, FirstEapol, ok))
  BY DEF Without
<1>4. Safe(more, first, reject, Without(without, FirstEapol, ok), told, FALSE)
  BY <1>1, <1>2, <1>3, NamesDiffer, Zenon DEF Safe
<1>5. QED
  BY <1>4 DEF more

\* The disconnect that was waited for has come: the fallback gives way to the
\* second part of the retry.
Completed(list, ok) ==
  IF ok THEN Registered(Cancelled(list, Fallback), Complete, 0)
  ELSE Cancelled(list, Fallback)

LEMMA SafeCompleted ==
  ASSUME NEW list, NEW first, NEW reject, NEW without, NEW told, NEW idle, NEW ok,
         Safe(list, first, reject, without, told, idle)
  PROVE  Safe(Completed(list, ok), first, reject, Without(without, Complete, ok),
              TRUE, FALSE)
<1> DEFINE less == Cancelled(list, Fallback)
           more == Completed(list, ok)
<1>1. /\ less \in Seq(TimerType)
      /\ \A g : Has(less, g) <=> g # Fallback /\ Has(list, g)
      /\ \A g : Once(list, g) => Once(less, g)
  BY CancelFacts, Zenon DEF Safe
<1> HIDE DEF less
<1>2. /\ more \in Seq(TimerType)
      /\ \A g : g # Fallback /\ g # Complete => (Has(more, g) <=> Has(list, g))
      /\ ok => Has(more, Complete)
      /\ \A g : g # Complete /\ Once(list, g) => Once(more, g)
  <2>1. CASE ok
    <3>1. more = Registered(less, Complete, 0)
      BY <2>1 DEF Completed, less
    <3> HIDE DEF more
    <3>2. /\ more \in Seq(TimerType)
          /\ \A g : Has(more, g) <=> g = Complete \/ Has(less, g)
          /\ \A g : Once(less, g) /\ (g = Complete => ~Has(less, g)) => Once(more, g)
      BY <1>1, <3>1, RegisterFacts, DelaysTyped, NamesDiffer, Zenon
    <3>3. QED
      BY <1>1, <3>2, Zenon
  <2>2. CASE ~ok
    <3>1. more = less
      BY <2>2 DEF Completed, less
    <3> HIDE DEF more
    <3>2. QED
      BY <1>1, <2>2, <3>1, Zenon
  <2>3. QED
    BY <2>1, <2>2
<1> HIDE DEF more
<1>3. Without(without, Complete, ok) \subseteq OwnTimers
  BY NamesDiffer DEF Without, Safe
<1>4. /\ \A h : h # Complete => (h \in without <=> h \in Without(without, Complete, ok))
      /\ ~ok => Complete \in Without(without, Complete, ok)
  BY DEF Without
<1>5. Safe(more, first, reject, Without(without, Complete, ok), TRUE, FALSE)
  BY <1>1, <1>2, <1>3, <1>4, NamesDiffer, Zenon DEF Safe
<1>6. QED
  BY <1>5 DEF more

\* The retry of a temporary reject is armed.
LEMMA SafeRejectArmed ==
  ASSUME NEW list, NEW first, NEW reject, NEW without, NEW told, NEW idle, NEW ok,
         Safe(list, first, reject, without, told, idle)
  PROVE  Safe(Armed(list, TempRetry, 0, ok), first, TRUE,
              Without(without, TempRetry, ok), told, FALSE)
<1> DEFINE more == Armed(list, TempRetry, 0, ok)
<1>1. /\ more \in Seq(TimerType)
      /\ \A g : g # TempRetry => (Has(more, g) <=> Has(list, g))
      /\ Has(more, TempRetry) <=> ok
      /\ \A g : Once(list, g) => Once(more, g)
  BY ArmedFacts, DelaysTyped, NamesDiffer, Zenon DEF Safe
<1> HIDE DEF more
<1>2. Without(without, TempRetry, ok) \subseteq OwnTimers
  BY NamesDiffer DEF Without, Safe
<1>3. /\ \A h : h # TempRetry => (h \in without <=> h \in Without(without, TempRetry, ok))
      /\ ~ok => TempRetry \in Without(without, TempRetry, ok)
  BY DEF Without
<1>4. Safe(more, first, TRUE, Without(without, TempRetry, ok), told, FALSE)
  BY <1>1, <1>2, <1>3, NamesDiffer, Zenon DEF Safe
<1>5. QED
  BY <1>4 DEF more

\* The wait for a disconnect, as ArmFallback leaves the list.
Waited(list, ok) ==
  IF ok THEN Registered(Cancelled(Cancelled(list, Fallback), Complete),
                        Fallback, FallbackDelay)
  ELSE Cancelled(Cancelled(list, Fallback), Complete)

\* The wait for a disconnect begins: the fallback is armed, a second part that
\* was left from an earlier one is cancelled.
LEMMA SafeFallbackArmed ==
  ASSUME NEW list, NEW first, NEW reject, NEW without, NEW told, NEW idle, NEW ok,
         Safe(list, first, reject, without, told, idle), ~idle
  PROVE  Safe(Waited(list, ok), TRUE, reject, Without(without, Fallback, ok), FALSE, idle)
<1> DEFINE more == Waited(list, ok)
           some == Cancelled(list, Fallback)
           less == Cancelled(some, Complete)
<1>1. /\ some \in Seq(TimerType)
      /\ \A g : Has(some, g) <=> g # Fallback /\ Has(list, g)
      /\ \A g : Once(list, g) => Once(some, g)
  BY CancelFacts, Zenon DEF Safe
<1> HIDE DEF some
<1>2. /\ less \in Seq(TimerType)
      /\ \A g : Has(less, g) <=> g # Complete /\ Has(some, g)
      /\ \A g : Once(some, g) => Once(less, g)
  BY <1>1, CancelFacts, Zenon
<1>3. more = IF ok THEN Registered(less, Fallback, FallbackDelay) ELSE less
  BY DEF less, some, Waited
<1> HIDE DEF less, more
<1>4. /\ more \in Seq(TimerType)
      /\ \A g : g # Fallback /\ g # Complete => (Has(more, g) <=> Has(list, g))
      /\ ok => Has(more, Fallback)
      /\ ~Has(more, Complete)
      /\ \A g : Once(list, g) => Once(more, g)
  <2>1. CASE ok
    <3>1. more = Registered(less, Fallback, FallbackDelay)
      BY <1>3, <2>1
    <3>2. /\ more \in Seq(TimerType)
          /\ \A g : Has(more, g) <=> g = Fallback \/ Has(less, g)
          /\ \A g : Once(less, g) /\ (g = Fallback => ~Has(less, g)) => Once(more, g)
      <4>1. less \in Seq(TimerType) /\ Fallback \in Names /\ FallbackDelay \in Nat
        BY <1>2, DelaysTyped, NamesDiffer, Zenon
      <4>2. QED
        BY <3>1, <4>1, RegisterFacts, Zenon
    <3>3. QED
      BY <1>1, <1>2, <3>2, NamesDiffer, Zenon
  <2>2. CASE ~ok
    <3>1. more = less
      BY <1>3, <2>2
    <3>2. QED
      BY <1>1, <1>2, <2>2, <3>1, Zenon
  <2>3. QED
    BY <2>1, <2>2
<1>5. Without(without, Fallback, ok) \subseteq OwnTimers
  BY NamesDiffer DEF Without, Safe
<1>6. /\ \A h : h # Fallback => (h \in without <=> h \in Without(without, Fallback, ok))
      /\ ~ok => Fallback \in Without(without, Fallback, ok)
  BY DEF Without
<1>7. Safe(more, TRUE, reject, Without(without, Fallback, ok), FALSE, idle)
  BY <1>4, <1>5, <1>6, NamesDiffer, Zenon DEF Safe
<1>8. QED
  BY <1>7 DEF more

\* A disconnect of the user takes all four timers away.
LEMMA SafeWithdrawn ==
  ASSUME NEW list, NEW first, NEW reject, NEW without, NEW told, NEW idle,
         Safe(list, first, reject, without, told, idle)
  PROVE  Safe(Withdrawn(list), FALSE, FALSE, {}, FALSE, TRUE)
<1> DEFINE a == Cancelled(list, FirstEapol)
           b == Cancelled(a, Fallback)
           c == Cancelled(b, Complete)
           d == Cancelled(c, TempRetry)
<1>1. /\ a \in Seq(TimerType) /\ \A g : Has(a, g) <=> g # FirstEapol /\ Has(list, g)
      /\ \A g : Once(list, g) => Once(a, g)
  BY CancelFacts, Zenon DEF Safe
<1> HIDE DEF a
<1>2. /\ b \in Seq(TimerType) /\ \A g : Has(b, g) <=> g # Fallback /\ Has(a, g)
      /\ \A g : Once(a, g) => Once(b, g)
  BY <1>1, CancelFacts, Zenon
<1> HIDE DEF b
<1>3. /\ c \in Seq(TimerType) /\ \A g : Has(c, g) <=> g # Complete /\ Has(b, g)
      /\ \A g : Once(b, g) => Once(c, g)
  BY <1>2, CancelFacts, Zenon
<1> HIDE DEF c
<1>4. /\ d \in Seq(TimerType) /\ \A g : Has(d, g) <=> g # TempRetry /\ Has(c, g)
      /\ \A g : Once(c, g) => Once(d, g)
  BY <1>3, CancelFacts, Zenon
<1> HIDE DEF d
<1>5. \A h \in OwnTimers : h = FirstEapol \/ h = Fallback \/ h = Complete \/ h = TempRetry
  BY DEF OwnTimers
<1>6. \A h \in OwnTimers : ~Has(d, h)
  BY <1>1, <1>2, <1>3, <1>4, <1>5, Zenon
<1>7. \A h \in Singles : Once(d, h)
  BY <1>1, <1>2, <1>3, <1>4, Zenon DEF Safe
<1>8. Safe(d, FALSE, FALSE, {}, FALSE, TRUE)
  BY <1>4, <1>6, <1>7, Zenon DEF Safe
<1>9. QED
  BY <1>8 DEF a, b, c, d, Withdrawn
--------------------------------------------------------------------------------
(* What holds in every state of the recoveries.                            *)

\* Only a ready context polls, has timers or owes a retry.
AtRest ==
  /\ polling => life = "ready"
  /\ timers # <<>> => life = "ready"
  /\ life # "ready" => ~first_eapol_retry_pending /\ ~temporary_reject_retry_pending

TimersInv == RecoveryTypeOK /\ AtRest /\ SafeNow

LEMMA SafeEmpty == Safe(<<>>, FALSE, FALSE, {}, FALSE, TRUE)
<1>1. <<>> \in Seq(TimerType) /\ Len(<<>>) = 0
  OBVIOUS
<1>2. \A h : ~Has(<<>>, h) /\ Once(<<>>, h)
  BY <1>1 DEF Has, Once
<1>3. QED
  BY <1>1, <1>2, Zenon DEF Safe

\* When a handler runs its timer is off the list.
LEMMA SafeRun ==
  ASSUME SafeNow, NEW h, Runs(h)
  PROVE  /\ Tail(timers) \in Seq(TimerType)
         /\ \A g \in Singles : Once(Tail(timers), g)
         /\ \A g : g # h => (Has(Tail(timers), g) <=> Has(timers, g))
         /\ h \in Singles => ~Has(Tail(timers), h)
         /\ Has(Tail(timers), h) => Has(timers, h)
         /\ Has(timers, h)
         /\ UNCHANGED quiet /\ (h \in OwnTimers => ~quiet)
<1>1. timers \in Seq(TimerType) /\ timers # <<>> /\ Head(timers).handler = h
      /\ quiet' = quiet
  BY DEF Runs, Due, SafeNow, Safe
<1>2. Has(timers, h)
  <2>1. Head(timers) = timers[1] /\ 1 \in 1 .. Len(timers)
    BY <1>1
  <2>2. QED
    BY <1>1, <2>1 DEF Has
<1>3. QED
  BY <1>1, <1>2, TailFacts, Zenon DEF SafeNow, Safe

LEMMA SameInput ==
  ASSUME SafeNow, SameOwn(timers, timers'),
         UNCHANGED <<first_eapol_retry_pending, temporary_reject_retry_pending,
                     refused, confirmed, quiet>>
  PROVE  SafeNow'
<1>1. Safe(timers', first_eapol_retry_pending, temporary_reject_retry_pending,
           refused, confirmed, quiet)
  BY SafeSame DEF SafeNow
<1>2. QED
  BY <1>1 DEF SafeNow

LEMMA SameInputs ==
  ASSUME TimersInv,
         \/ InitContext \/ Configure \/ Connect \/ FeedEapol \/ FeedOther \/ FeedRejected
         \/ NextEvent \/ RunHostap \/ PollReturns \/ Tick
         \/ (\E work \in Budgets : PollStarts(work))
         \/ UNCHANGED vars
  PROVE  SafeNow'
<1>1. SafeNow /\ timers \in Seq(TimerType)
  BY DEF TimersInv, SafeNow, Safe
<1>2. UNCHANGED <<first_eapol_retry_pending, temporary_reject_retry_pending,
                  refused, confirmed, quiet>>
  BY DEF InitContext, Configure, Connect, FeedEapol, FeedOther, FeedRejected, NextEvent,
         RunHostap, Runs, PollReturns, Tick, PollStarts, vars, recovery
<1>3. ASSUME UNCHANGED timers PROVE SafeNow'
  BY <1>1, <1>2, <1>3 DEF SafeNow
<1>4. ASSUME timers' \in HostapLists(timers) PROVE SafeNow'
  BY <1>1, <1>2, <1>4, HostapSame, SameInput
<1>5. CASE InitContext
  <2>1. timers = <<>>
    BY <1>5 DEF InitContext, TimersInv, AtRest
  <2>2. QED
    BY <1>4, <1>5, <2>1 DEF InitContext
<1>6. CASE Connect \/ FeedOther \/ FeedRejected
  BY <1>4, <1>6 DEF Connect, FeedOther, FeedRejected, HostapActs
<1>7. CASE FeedEapol
  BY <1>3, <1>4, <1>7 DEF FeedEapol, HostapActs
<1>8. CASE RunHostap
  <2>1. /\ Tail(timers) \in Seq(TimerType)
        /\ \A g \in Singles : Once(Tail(timers), g)
        /\ \A g : g # Hostap => (Has(Tail(timers), g) <=> Has(timers, g))
    BY <1>1, <1>8, SafeRun DEF RunHostap
  <2>2. timers' \in HostapLists(Tail(timers))
    BY <1>8 DEF RunHostap, HostapActs
  <2>3. SameOwn(Tail(timers), timers')
    BY <2>1, <2>2, HostapSame
  <2>4. SameOwn(timers, timers')
    BY <2>1, <2>3, NamesDiffer, Zenon DEF SameOwn
  <2>5. QED
    BY <1>1, <1>2, <2>4, SameInput
<1>9. CASE Tick
  <2>1. SameOwn(timers, timers')
    BY <1>1, <1>9, TickFacts DEF Tick, SameOwn
  <2>2. QED
    BY <1>1, <1>2, <2>1, SameInput
<1>10. CASE \/ Configure \/ NextEvent \/ PollReturns
            \/ (\E work \in Budgets : PollStarts(work)) \/ UNCHANGED vars
  BY <1>3, <1>10 DEF Configure, NextEvent, PollReturns, PollStarts, vars
<1>11. QED
  BY <1>5, <1>6, <1>7, <1>8, <1>9, <1>10

LEMMA SafeStartOver ==
  ASSUME TimersInv, Create \/ Destroy
  PROVE  SafeNow'
<1>1. timers' = <<>>
  BY DEF Create, Destroy, TimersInv, AtRest
<1>2. /\ first_eapol_retry_pending' = FALSE /\ temporary_reject_retry_pending' = FALSE
      /\ refused' = {} /\ confirmed' = FALSE /\ quiet' = TRUE
  BY DEF Create, Destroy, Zeroed
<1>3. QED
  BY <1>1, <1>2, SafeEmpty DEF SafeNow

LEMMA SafeDisconnect ==
  ASSUME SafeNow, Disconnect
  PROVE  SafeNow'
<1>1. /\ first_eapol_retry_pending' = FALSE /\ temporary_reject_retry_pending' = FALSE
      /\ refused' = {} /\ confirmed' = FALSE /\ quiet' = TRUE
      /\ timers' \in HostapLists(Withdrawn(timers))
  BY DEF Disconnect, HostapActs
<1>2. Safe(Withdrawn(timers), FALSE, FALSE, {}, FALSE, TRUE)
  BY SafeWithdrawn DEF SafeNow
<1>3. SameOwn(Withdrawn(timers), timers')
  BY <1>1, <1>2, HostapSame DEF Safe
<1>4. Safe(timers', FALSE, FALSE, {}, FALSE, TRUE)
  BY <1>2, <1>3, SafeSame
<1>5. QED
  BY <1>1, <1>4 DEF SafeNow

\* hostap acts, and what the recoveries know of their timers is still true.
LEMMA SafeHostap ==
  ASSUME SafeNow, NEW list \in HostapLists(timers)
  PROVE  Safe(list, first_eapol_retry_pending, temporary_reject_retry_pending,
              refused, confirmed, quiet)
<1>1. timers \in Seq(TimerType)
  BY DEF SafeNow, Safe
<1>2. SameOwn(timers, list)
  BY <1>1, HostapSame
<1>3. QED
  BY <1>2, SafeSame DEF SafeNow

\* Something from the driver ends the quiet.
LEMMA SafeLoud ==
  ASSUME NEW list, NEW first, NEW reject, NEW without, NEW told, NEW idle,
         Safe(list, first, reject, without, told, idle)
  PROVE  Safe(list, first, reject, without, told, FALSE)
BY Zenon DEF Safe

LEMMA SafeAssociated ==
  ASSUME SafeNow, NEW ok, FeedAssociated(ok)
  PROVE  SafeNow'
<1>1. PICK list \in HostapLists(timers) :
        IF wpa_state' = "ASSOCIATED" THEN ArmFirstEapol(list, ok)
        ELSE timers' = list /\ UNCHANGED refused
  BY DEF FeedAssociated
<1>2. /\ UNCHANGED <<first_eapol_retry_pending, temporary_reject_retry_pending, confirmed>>
      /\ quiet' = FALSE
  BY DEF FeedAssociated, recovery
<1>3. Safe(list, first_eapol_retry_pending, temporary_reject_retry_pending,
           refused, confirmed, quiet)
  BY SafeHostap
<1>4. CASE wpa_state' = "ASSOCIATED"
  <2>1. /\ timers' = Armed(list, FirstEapol, FirstEapolDelay, ok)
        /\ refused' = Without(refused, FirstEapol, ok)
    BY <1>1, <1>4 DEF ArmFirstEapol, Register, Armed, Without
  <2>2. Safe(timers', first_eapol_retry_pending, temporary_reject_retry_pending,
             refused', confirmed, FALSE)
    BY <1>3, <2>1, SafeFirstArmed
  <2>3. QED
    BY <1>2, <2>2 DEF SafeNow
<1>5. CASE wpa_state' # "ASSOCIATED"
  BY <1>1, <1>2, <1>3, <1>5, SafeLoud DEF SafeNow
<1>6. QED
  BY <1>4, <1>5

LEMMA SafeFeedDisconnect ==
  ASSUME RecoveryTypeOK, SafeNow, NEW ok, FeedDisconnect(ok)
  PROVE  SafeNow'
<1>1. PICK list \in HostapLists(timers) :
        /\ quiet' = FALSE
        /\ IF first_eapol_retry_pending
           THEN /\ Register(Cancelled(list, Fallback), Complete, 0, ok)
                /\ confirmed' = TRUE
           ELSE timers' = list /\ UNCHANGED <<confirmed, refused>>
  BY DEF FeedDisconnect, Disassociated
<1>2. UNCHANGED <<first_eapol_retry_pending, temporary_reject_retry_pending>>
  BY DEF FeedDisconnect
<1>3. Safe(list, first_eapol_retry_pending, temporary_reject_retry_pending,
           refused, confirmed, quiet)
  BY SafeHostap
<1>4. CASE first_eapol_retry_pending
  <2>1. /\ timers' = Completed(list, ok)
        /\ refused' = Without(refused, Complete, ok) /\ confirmed' = TRUE
    BY <1>1, <1>4 DEF Register, Completed, Without
  <2>2. Safe(timers', first_eapol_retry_pending, temporary_reject_retry_pending,
             refused', TRUE, FALSE)
    BY <1>3, <2>1, SafeCompleted
  <2>3. QED
    BY <1>1, <1>2, <2>1, <2>2 DEF SafeNow
<1>5. CASE ~first_eapol_retry_pending
  BY <1>1, <1>2, <1>3, <1>5, SafeLoud DEF SafeNow
<1>6. QED
  BY <1>4, <1>5 DEF RecoveryTypeOK

LEMMA SafeReject ==
  ASSUME SafeNow, NEW ok, NEW ok_complete, FeedTemporaryReject(ok, ok_complete)
  PROVE  SafeNow'
<1>1. PICK list \in HostapLists(timers) :
        \/ /\ ~ok
           /\ timers' = Cancelled(list, TempRetry)
           /\ refused' = refused \cup {TempRetry}
           /\ UNCHANGED confirmed
        \/ /\ ok /\ ~first_eapol_retry_pending
           /\ timers' = Registered(Cancelled(list, TempRetry), TempRetry, 0)
           /\ refused' = refused \ {TempRetry}
           /\ UNCHANGED confirmed
        \/ /\ ok /\ first_eapol_retry_pending
           /\ timers' = Completed(Registered(Cancelled(list, TempRetry), TempRetry, 0),
                                  ok_complete)
           /\ refused' = (refused \ {TempRetry, Complete})
                           \cup (IF ok_complete THEN {} ELSE {Complete})
           /\ confirmed' = TRUE
  BY DEF FeedTemporaryReject, Completed
<1>2. /\ UNCHANGED first_eapol_retry_pending /\ temporary_reject_retry_pending' = TRUE
      /\ quiet' = FALSE
  BY DEF FeedTemporaryReject, Disassociated
<1>3. Safe(list, first_eapol_retry_pending, temporary_reject_retry_pending,
           refused, confirmed, quiet)
  BY SafeHostap
<1> DEFINE armed == Armed(list, TempRetry, 0, ok)
           less == Without(refused, TempRetry, ok)
<1>4. Safe(armed, first_eapol_retry_pending, TRUE, less, confirmed, FALSE)
  BY <1>3, SafeRejectArmed
<1>5. CASE timers' = armed /\ refused' = less /\ UNCHANGED confirmed
  <2> HIDE DEF armed, less
  <2>1. QED
    BY <1>2, <1>4, <1>5 DEF SafeNow
<1>6. CASE /\ timers' = Completed(armed, ok_complete)
           /\ refused' = Without(less, Complete, ok_complete)
           /\ confirmed' = TRUE
  <2> HIDE DEF armed, less
  <2>1. Safe(timers', first_eapol_retry_pending, TRUE, refused', TRUE, FALSE)
    BY <1>4, <1>6, SafeCompleted
  <2>2. QED
    BY <1>2, <1>6, <2>1 DEF SafeNow
<1>7. QED
  <2>1. CASE ~ok
    BY <1>1, <1>5, <2>1 DEF Armed, Without
  <2>2. CASE ok /\ ~first_eapol_retry_pending
    BY <1>1, <1>5, <2>2 DEF Armed, Without
  <2>3. CASE ok /\ first_eapol_retry_pending
    <3>1. armed = Registered(Cancelled(list, TempRetry), TempRetry, 0)
      BY <2>3 DEF Armed
    <3>2. (refused \ {TempRetry, Complete}) \cup (IF ok_complete THEN {} ELSE {Complete})
          = Without(less, Complete, ok_complete)
      BY <2>3, NamesDiffer DEF Without
    <3> HIDE DEF armed, less
    <3>3. QED
      BY <1>1, <1>6, <2>3, <3>1, <3>2
  <2>4. QED
    BY <1>1, <2>1, <2>2, <2>3

LEMMA SafeRunFirstEapol ==
  ASSUME SafeNow, NEW ok, RunFirstEapol(ok)
  PROVE  SafeNow'
<1>1. Runs(FirstEapol) /\ UNCHANGED temporary_reject_retry_pending
  BY DEF RunFirstEapol
<1>2. /\ Tail(timers) \in Seq(TimerType) /\ \A g \in Singles : Once(Tail(timers), g)
      /\ \A g : g # FirstEapol => (Has(Tail(timers), g) <=> Has(timers, g))
      /\ UNCHANGED quiet /\ ~quiet
  BY <1>1, SafeRun, NamesDiffer
<1>3. Safe(Tail(timers), first_eapol_retry_pending, temporary_reject_retry_pending,
           refused, confirmed, quiet)
  BY <1>2, NamesDiffer, Zenon DEF SafeNow, Safe
<1>4. CASE wpa_state = "ASSOCIATED" /\ ~eapol_received
  <2>1. PICK list \in HostapLists(Tail(timers)) : ArmFallback(list, ok)
    BY <1>4 DEF RunFirstEapol
  <2>2. first_eapol_retry_pending' = TRUE /\ confirmed' = FALSE
    BY <1>4 DEF RunFirstEapol
  <2>3. Safe(list, first_eapol_retry_pending, temporary_reject_retry_pending,
             refused, confirmed, quiet)
    BY <1>2, <1>3, HostapSame, SafeSame
  <2>4. timers' = Waited(list, ok) /\ refused' = Without(refused, Fallback, ok)
    BY <2>1 DEF ArmFallback, Register, Waited, Without
  <2>5. Safe(timers', TRUE, temporary_reject_retry_pending, refused', FALSE, quiet)
    BY <1>2, <2>3, <2>4, SafeFallbackArmed
  <2>6. QED
    BY <1>1, <1>2, <2>2, <2>5 DEF SafeNow
<1>5. CASE ~(wpa_state = "ASSOCIATED" /\ ~eapol_received)
  <2>1. timers' = Tail(timers) /\ UNCHANGED <<confirmed, refused, first_eapol_retry_pending>>
    BY <1>5 DEF RunFirstEapol
  <2>2. QED
    BY <1>1, <1>2, <1>3, <2>1 DEF SafeNow
<1>6. QED
  BY <1>4, <1>5

\* A retry of either kind leaves hostap's timer and meets the obligation.
LEMMA RetryTimers ==
  ASSUME NEW list \in Seq(TimerType), HostapAssociates(list) \/ HostapScansLater(list)
  PROVE  SameOwn(list, timers')
BY RestartSame DEF HostapAssociates, HostapScansLater

LEMMA SafeRunRetry ==
  ASSUME RecoveryTypeOK, SafeNow, RunFallback \/ RunComplete
  PROVE  SafeNow'
<1>1. PICK h \in {Fallback, Complete} : Runs(h)
  BY DEF RunFallback, RunComplete
<1>2. \E sure, counted : RetryFirstEapol(Tail(timers), sure, counted)
  BY DEF RunFallback, RunComplete
<1>3. /\ Tail(timers) \in Seq(TimerType) /\ \A g \in Singles : Once(Tail(timers), g)
      /\ \A g : g # h => (Has(Tail(timers), g) <=> Has(timers, g))
      /\ \A g : Has(Tail(timers), g) => Has(timers, g)
      /\ UNCHANGED quiet /\ ~quiet
  BY <1>1, SafeRun, NamesDiffer
<1>4. UNCHANGED <<temporary_reject_retry_pending, confirmed, refused>>
  BY <1>2 DEF RetryFirstEapol
<1>5. Safe(Tail(timers), FALSE, temporary_reject_retry_pending, refused, confirmed, quiet)
  BY <1>1, <1>3, NamesDiffer, Zenon DEF SafeNow, Safe
<1>6. CASE first_eapol_retry_pending
  <2>1. first_eapol_retry_pending' = FALSE
        /\ (HostapAssociates(Tail(timers)) \/ HostapScansLater(Tail(timers)))
    BY <1>2, <1>6 DEF RetryFirstEapol
  <2>2. Safe(timers', FALSE, temporary_reject_retry_pending, refused, confirmed, quiet)
    BY <1>3, <1>5, <2>1, RetryTimers, SafeSame
  <2>3. QED
    BY <1>3, <1>4, <2>1, <2>2 DEF SafeNow
<1>7. CASE ~first_eapol_retry_pending
  <2>1. timers' = Tail(timers) /\ first_eapol_retry_pending' = FALSE
    BY <1>2, <1>7 DEF RetryFirstEapol, RecoveryTypeOK
  <2>2. QED
    BY <1>3, <1>4, <1>5, <2>1 DEF SafeNow
<1>8. QED
  BY <1>6, <1>7

LEMMA SafeRunTempRetry ==
  ASSUME RecoveryTypeOK, SafeNow, RunTempRetry
  PROVE  SafeNow'
<1>1. Runs(TempRetry) /\ UNCHANGED <<first_eapol_retry_pending, confirmed, refused>>
  BY DEF RunTempRetry
<1>2. /\ Tail(timers) \in Seq(TimerType) /\ \A g \in Singles : Once(Tail(timers), g)
      /\ \A g : g # TempRetry => (Has(Tail(timers), g) <=> Has(timers, g))
      /\ \A g : Has(Tail(timers), g) => Has(timers, g)
      /\ UNCHANGED quiet /\ ~quiet
  BY <1>1, SafeRun, NamesDiffer
<1>3. Safe(Tail(timers), first_eapol_retry_pending, FALSE, refused, confirmed, quiet)
  BY <1>2, NamesDiffer, Zenon DEF SafeNow, Safe
<1>4. CASE temporary_reject_retry_pending
  <2>1. temporary_reject_retry_pending' = FALSE
        /\ (HostapAssociates(Tail(timers)) \/ HostapScansLater(Tail(timers)))
    BY <1>4 DEF RunTempRetry
  <2>2. Safe(timers', first_eapol_retry_pending, FALSE, refused, confirmed, quiet)
    BY <1>2, <1>3, <2>1, RetryTimers, SafeSame
  <2>3. QED
    BY <1>1, <1>2, <2>1, <2>2 DEF SafeNow
<1>5. CASE ~temporary_reject_retry_pending
  <2>1. timers' = Tail(timers) /\ temporary_reject_retry_pending' = FALSE
    BY <1>5 DEF RunTempRetry, RecoveryTypeOK
  <2>2. QED
    BY <1>1, <1>2, <1>3, <2>1 DEF SafeNow
<1>6. QED
  BY <1>4, <1>5

LEMMA SafeStep == TimersInv /\ [Next]_vars => SafeNow'
<1> SUFFICES ASSUME TimersInv, [Next]_vars PROVE SafeNow'
  OBVIOUS
<1>1. RecoveryTypeOK /\ SafeNow
  BY DEF TimersInv
<1>2. QED
  BY <1>1, SameInputs, SafeStartOver, SafeDisconnect, SafeAssociated, SafeFeedDisconnect,
     SafeReject, SafeRunFirstEapol, SafeRunRetry, SafeRunTempRetry, Zenon
     DEF Next, Client, Handler
\* What a step of a context that is not ready can be.
LEMMA ReadySteps ==
  ASSUME AtRest, [Next]_vars
  PROVE  \/ Create \/ InitContext \/ Destroy \/ NextEvent \/ UNCHANGED vars
         \/ life = "ready" /\ life' = "ready"
<1>1. ASSUME Input, UNCHANGED life PROVE life = "ready" /\ life' = "ready"
  BY <1>1 DEF Input
<1>2. CASE \/ Configure \/ Connect \/ Disconnect \/ FeedEapol \/ FeedOther \/ FeedRejected
           \/ (\E ok : FeedAssociated(ok) \/ FeedDisconnect(ok))
           \/ (\E ok, ok_complete : FeedTemporaryReject(ok, ok_complete))
  BY <1>1, <1>2 DEF Configure, Connect, Disconnect, FeedEapol, FeedOther, FeedRejected,
                    FeedAssociated, FeedDisconnect, FeedTemporaryReject
<1>3. CASE \/ RunHostap \/ RunFallback \/ RunComplete \/ RunTempRetry \/ PollReturns
           \/ (\E ok : RunFirstEapol(ok)) \/ (\E work : PollStarts(work))
  BY <1>3 DEF RunHostap, RunFallback, RunComplete, RunTempRetry, RunFirstEapol, Runs, Due,
              PollReturns, PollStarts, AtRest
<1>4. CASE Tick
  <2>1. timers # <<>>
    BY <1>4 DEF Tick
  <2>2. QED
    BY <1>4, <2>1 DEF Tick, AtRest
<1>5. QED
  BY <1>2, <1>3, <1>4, Zenon DEF Next, Client, Handler

LEMMA RestStep == RecoveryTypeOK /\ AtRest /\ [Next]_vars => AtRest'
<1> SUFFICES ASSUME RecoveryTypeOK, AtRest, [Next]_vars PROVE AtRest'
  OBVIOUS
<1>1. CASE life = "ready" /\ life' = "ready"
  BY <1>1 DEF AtRest
<1>2. CASE Create \/ Destroy
  <2>1. first_eapol_retry_pending' = FALSE /\ temporary_reject_retry_pending' = FALSE
    BY <1>2, StartingOver
  <2>2. ~polling' /\ timers' = <<>>
    BY <1>2 DEF Create, Destroy, poller, AtRest
  <2>3. QED
    BY <2>1, <2>2 DEF AtRest
<1>3. CASE InitContext
  BY <1>3 DEF InitContext, AtRest
<1>4. CASE NextEvent \/ UNCHANGED vars
  BY <1>4 DEF NextEvent, vars, poller, recovery, AtRest
<1>5. QED
  BY <1>1, <1>2, <1>3, <1>4, ReadySteps

LEMMA TimersInit == Init => TimersInv
<1> SUFFICES ASSUME Init PROVE TimersInv
  OBVIOUS
<1>1. /\ timers = <<>> /\ first_eapol_retry_pending = FALSE
      /\ temporary_reject_retry_pending = FALSE /\ refused = {} /\ confirmed = FALSE
      /\ quiet = TRUE /\ polling = FALSE
  BY DEF Init
<1>2. SafeNow
  BY <1>1, SafeEmpty DEF SafeNow
<1>3. AtRest
  BY <1>1 DEF AtRest
<1>4. QED
  BY <1>2, <1>3, InitTyped DEF TimersInv

LEMMA TimersStep == TimersInv /\ [Next]_vars => TimersInv'
BY EveryStep, EffectTyped, RestStep, SafeStep DEF TimersInv

LEMMA TimersAlways == Spec => []TimersInv
BY TimersInit, TimersStep, PTL DEF Spec

--------------------------------------------------------------------------------
(* The cached BSS                                                          *)

LEMMA CachedStep ==
  ASSUME TimersInv, [Next]_vars, count'.cached > count.cached
  PROVE  confirmed \/ ~associated
<1>1. count \in Counters /\ count.cached \in Nat
  BY DEF TimersInv, RecoveryTypeOK, Counters
<1>2. ~(count'.cached = count.cached) /\ ~UNCHANGED count
  BY <1>1
<1>3. ~UNCHANGED recovery
  BY <1>2 DEF recovery
<1>4. CASE Create \/ Destroy
  <2>1. count'.cached = 0
    BY <1>4, StartingOver DEF ZeroCounts
  <2>2. QED
    BY <1>1, <2>1
<1>5. CASE Disconnect
  BY <1>2, <1>5 DEF Disconnect
<1>6. CASE \/ \E ok : FeedDisconnect(ok) \/ RunFirstEapol(ok)
           \/ \E ok, ok_complete : FeedTemporaryReject(ok, ok_complete)
  <2>1. \/ count' = count
        \/ count' = [count EXCEPT !.disconnect_events = @ + 1]
        \/ count' = [count EXCEPT !.timeouts = @ + 1]
        \/ count' = [count EXCEPT !.rejects = @ + 1]
        \/ count' = [count EXCEPT !.rejects = @ + 1, !.disconnect_events = @ + 1]
    BY <1>6 DEF FeedDisconnect, RunFirstEapol, FeedTemporaryReject
  <2>2. count'.cached = count.cached
    BY <1>1, <2>1 DEF Counters
  <2>3. QED
    BY <1>2, <2>2
<1>7. CASE RunTempRetry
  <2>1. \/ count' = count
        \/ count' = [count EXCEPT !.reject_cached = @ + 1]
        \/ count' = [count EXCEPT !.reject_scan = @ + 1]
    BY <1>7 DEF RunTempRetry
  <2>2. count'.cached = count.cached
    BY <1>1, <2>1 DEF Counters
  <2>3. QED
    BY <1>2, <2>2
<1>8. ASSUME NEW sure, NEW counted,
             counted = count \/ counted = [count EXCEPT !.fallbacks = @ + 1],
             RetryFirstEapol(Tail(timers), sure, counted)
      PROVE  first_eapol_retry_pending /\ Gone(sure)
  <2>1. counted.cached = count.cached
    BY <1>1, <1>8 DEF Counters
  <2>2. first_eapol_retry_pending
    BY <1>2, <1>8, <2>1 DEF RetryFirstEapol
  <2> DEFINE local == [counted EXCEPT !.local_disconnects = @ + One(~sure /\ ~associated)]
  <2>3. \/ Gone(sure)
        \/ count' = [local EXCEPT !.scan = @ + 1]
    BY <1>8, <2>2 DEF RetryFirstEapol
  <2>4. [local EXCEPT !.scan = @ + 1].cached = counted.cached
    BY <1>1, <1>8 DEF Counters
  <2>5. QED
    BY <1>2, <2>1, <2>2, <2>3, <2>4
<1>9. CASE RunFallback
  BY <1>8, <1>9 DEF RunFallback, Gone
<1>10. CASE RunComplete
  <2>1. first_eapol_retry_pending
    BY <1>8, <1>10 DEF RunComplete
  <2>2. Has(timers, Complete)
    BY <1>10, SafeRun DEF RunComplete, TimersInv
  <2>3. QED
    BY <2>1, <2>2 DEF TimersInv, SafeNow, Safe
<1>11. QED
  BY <1>3, <1>4, <1>5, <1>6, <1>7, <1>9, <1>10, OtherActions, Zenon
     DEF Next, Client, Handler

--------------------------------------------------------------------------------
(* What the consumer is told                                               *)

Kinds == {"authenticating", "associated", "authorized", "disconnected", "none"}

LEMMA KindTyped == ASSUME NEW s PROVE KindOf(s) \in Kinds
BY DEF KindOf, Kinds

\* The newest event that the consumer has read or will read.
Latest == IF events = <<>> THEN view ELSE events[Len(events)]

QueueInv ==
  /\ events \in Seq(Kinds) /\ Len(events) <= Room
  /\ dropped_events \in 0 .. CountMax
  /\ life # "ready" => events = <<>> /\ view = "disconnected"
  /\ ~newest_lost /\ KindOf(observed_state) # "none" => Latest = KindOf(observed_state)
  /\ life = "ready" /\ ~polling /\ ~lagging => observed_state = wpa_state

\* What a step does to the reports.
LEMMA ReportSteps ==
  ASSUME AtRest, [Next]_vars
  PROVE  \/ life' = "ready" /\ Observe
         \/ life' = "ready" /\ ReturnUnobserved
         \/ life' = "ready" /\ polling' /\ UNCHANGED report
         \/ UNCHANGED <<report, life, polling, wpa_state>>
         \/ NextEvent \/ InitContext \/ Create \/ Destroy
<1>1. CASE \/ Connect \/ Disconnect \/ FeedOther \/ FeedRejected \/ PollReturns
           \/ \E ok : FeedAssociated(ok)
  <2>1. Observe
    BY <1>1 DEF Connect, Disconnect, FeedOther, FeedRejected, PollReturns, FeedAssociated
  <2>2. life' = "ready"
    BY <1>1 DEF Connect, Disconnect, FeedOther, FeedRejected, PollReturns, FeedAssociated,
                Input, AtRest
  <2>3. QED
    BY <2>1, <2>2
<1>2. CASE \/ FeedEapol \/ (\E ok : FeedDisconnect(ok))
           \/ (\E ok, ok_complete : FeedTemporaryReject(ok, ok_complete))
  <2>1. Observe \/ ReturnUnobserved
    BY <1>2, Zenon DEF FeedEapol, FeedDisconnect, FeedTemporaryReject
  <2>2. life' = "ready"
    BY <1>2 DEF FeedEapol, FeedDisconnect, FeedTemporaryReject, Input
  <2>3. QED
    BY <2>1, <2>2
<1>3. ASSUME NEW h, Runs(h)
      PROVE  life' = "ready" /\ polling' /\ UNCHANGED report
  BY <1>3 DEF Runs, Due, AtRest
<1>4. CASE RunHostap \/ RunFallback \/ RunComplete \/ RunTempRetry \/ \E ok : RunFirstEapol(ok)
  BY <1>3, <1>4 DEF RunHostap, RunFallback, RunComplete, RunTempRetry, RunFirstEapol
<1>5. CASE \E work : PollStarts(work)
  BY <1>5 DEF PollStarts
<1>6. CASE Configure \/ Tick \/ UNCHANGED vars
  BY <1>6 DEF Configure, Tick, vars, outside, poller
<1>7. QED
  BY <1>1, <1>2, <1>4, <1>5, <1>6, Zenon DEF Next, Client, Handler

LEMMA ObserveQueue ==
  ASSUME QueueInv, Observe, life' = "ready"
  PROVE  QueueInv'
<1>1. observed_state' = wpa_state' /\ UNCHANGED view
  BY DEF Observe
<1>2. CASE ~News(wpa_state')
  <2>1. UNCHANGED <<events, dropped_events, newest_lost>>
    BY <1>2 DEF Observe, queue
  <2>2. wpa_state' = observed_state \/ KindOf(wpa_state') = "none"
    BY <1>2 DEF News
  <2>3. Latest' = Latest
    BY <1>1, <2>1 DEF Latest
  <2>4. ~newest_lost' /\ KindOf(observed_state') # "none" => Latest' = KindOf(observed_state')
    BY <1>1, <2>1, <2>2, <2>3 DEF QueueInv
  <2>5. QED
    BY <1>1, <2>1, <2>4 DEF QueueInv
<1>3. CASE News(wpa_state')
  <2> DEFINE kind == KindOf(wpa_state')
  <2>1. PushEvent(kind)
    BY <1>3 DEF Observe
  <2>2. /\ events \in Seq(Kinds) /\ Len(events) <= Room /\ Len(events) \in Nat
        /\ kind \in Kinds /\ Room \in Nat /\ CountMax \in Nat /\ dropped_events \in 0 .. CountMax
    BY KindTyped, SupplicantAssumption DEF QueueInv
  <2> HIDE DEF kind
  <2>3. CASE Len(events) = Room
    <3>1. newest_lost'
      BY <2>1, <2>3, Zenon DEF PushEvent
    <3>2. events' = events /\ dropped_events' \in {CountMax, dropped_events + 1}
      BY <2>1, <2>3 DEF PushEvent
    <3>3. dropped_events = CountMax => dropped_events' = CountMax
      BY <2>1, <2>3 DEF PushEvent
    <3>4. dropped_events' \in 0 .. CountMax
      BY <2>2, <3>2, <3>3
    <3>5. QED
      BY <1>1, <2>2, <3>1, <3>2, <3>4 DEF QueueInv
  <2>4. CASE Len(events) # Room
    <3>1. events' = Append(events, kind) /\ dropped_events' = dropped_events
      BY <2>1, <2>4 DEF PushEvent
    <3>2. /\ events' \in Seq(Kinds) /\ Len(events') = Len(events) + 1
          /\ events'[Len(events) + 1] = kind
      BY <2>2, <3>1, AppendFacts
    <3>3. events' # <<>> /\ Len(events') <= Room
      BY <2>2, <2>4, <3>2
    <3>4. Latest' = kind
      BY <3>2, <3>3 DEF Latest
    <3>5. QED
      BY <1>1, <2>2, <3>1, <3>2, <3>3, <3>4 DEF QueueInv, kind
  <2>5. QED
    BY <2>3, <2>4
<1>4. QED
  BY <1>2, <1>3

LEMMA NextEventQueue ==
  ASSUME QueueInv, NextEvent
  PROVE  QueueInv'
<1>1. UNCHANGED <<life, polling, observed_state, wpa_state, newest_lost, lagging>>
  BY DEF NextEvent, outside, poller
<1>2. CASE UNCHANGED <<events, view>> /\ dropped_events' = 0
  <2>1. dropped_events' \in 0 .. CountMax
    BY <1>2, SupplicantAssumption
  <2>2. QED
    BY <1>1, <1>2, <2>1 DEF QueueInv, Latest
<1>3. CASE /\ events # <<>> /\ view' = Head(events) /\ events' = Tail(events)
           /\ UNCHANGED dropped_events
  <2>1. /\ events' \in Seq(Kinds) /\ Len(events') = Len(events) - 1 /\ Len(events) \in Nat
        /\ \A i \in 1 .. Len(events') : events'[i] = events[i + 1]
        /\ Head(events) = events[1] /\ Len(events) # 0
    BY <1>3, HeadTailProperties DEF QueueInv
  <2>2. Latest' = Latest
    <3>1. CASE events' = <<>>
      <4>1. Len(events) = 1
        BY <2>1, <3>1
      <4>2. QED
        BY <1>3, <2>1, <3>1, <4>1 DEF Latest
    <3>2. CASE events' # <<>>
      <4>1. Len(events') \in 1 .. Len(events') /\ Len(events') + 1 = Len(events)
        BY <2>1, <3>2
      <4>2. QED
        BY <1>3, <2>1, <3>2, <4>1 DEF Latest
    <3>3. QED
      BY <3>1, <3>2
  <2>3. life = "ready"
    BY <1>3 DEF QueueInv
  <2>4. Room \in Nat /\ Len(events') <= Room
    BY <2>1, SupplicantAssumption DEF QueueInv
  <2>5. QED
    BY <1>1, <1>3, <2>1, <2>2, <2>3, <2>4 DEF QueueInv
<1>4. QED
  BY <1>2, <1>3 DEF NextEvent

LEMMA QueueStep ==
  ASSUME AtRest, QueueInv, [Next]_vars
  PROVE  QueueInv'
<1>1. CASE life' = "ready" /\ Observe
  BY <1>1, ObserveQueue
<1>2. CASE life' = "ready" /\ ReturnUnobserved
  BY <1>2 DEF ReturnUnobserved, queue, QueueInv, Latest
<1>3. CASE life' = "ready" /\ polling' /\ UNCHANGED report
  BY <1>3 DEF report, queue, QueueInv, Latest
<1>4. CASE UNCHANGED <<report, life, polling, wpa_state>>
  BY <1>4 DEF report, queue, QueueInv, Latest
<1>5. CASE NextEvent
  BY <1>5, NextEventQueue
<1>6. CASE InitContext
  <2>1. /\ events' = <<>> /\ view' = "disconnected" /\ observed_state' = wpa_state'
        /\ dropped_events' = dropped_events
        /\ observed_state' \in {"DISCONNECTED", "INTERFACE_DISABLED", "INACTIVE"}
    BY <1>6 DEF InitContext, queue, QueueInv
  <2>2. KindOf(observed_state') = "disconnected"
    BY <2>1 DEF KindOf
  <2>3. /\ events' \in Seq(Kinds) /\ Len(events') <= Room
    BY <2>1, SupplicantAssumption
  <2>4. QED
    BY <2>1, <2>2, <2>3 DEF QueueInv, Latest
<1>7. CASE Create \/ Destroy
  <2>1. /\ events' = <<>> /\ view' = "disconnected" /\ dropped_events' = 0
        /\ observed_state' = "INTERFACE_DISABLED" /\ life' # "ready"
    BY <1>7 DEF Create, Destroy, Zeroed
  <2>2. KindOf(observed_state') = "disconnected"
    BY <2>1 DEF KindOf
  <2>3. /\ events' \in Seq(Kinds) /\ Len(events') <= Room /\ dropped_events' \in 0 .. CountMax
    BY <2>1, SupplicantAssumption
  <2>4. QED
    BY <2>1, <2>2, <2>3 DEF QueueInv, Latest
<1>8. QED
  BY <1>1, <1>2, <1>3, <1>4, <1>5, <1>6, <1>7, ReportSteps

LEMMA QueueInit == Init => QueueInv
<1> SUFFICES ASSUME Init PROVE QueueInv
  OBVIOUS
<1>1. /\ events = <<>> /\ view = "disconnected" /\ dropped_events = 0
      /\ observed_state = "INTERFACE_DISABLED" /\ wpa_state = observed_state
  BY DEF Init
<1>2. KindOf(observed_state) = "disconnected"
  BY <1>1 DEF KindOf
<1>3. events \in Seq(Kinds) /\ Len(events) <= Room /\ dropped_events \in 0 .. CountMax
  BY <1>1, SupplicantAssumption
<1>4. QED
  BY <1>1, <1>2, <1>3 DEF QueueInv, Latest

LEMMA QueueAlways == Spec => []QueueInv
<1>1. TimersInv => AtRest
  BY DEF TimersInv
<1>2. QED
  BY TimersAlways, QueueInit, QueueStep, <1>1, PTL DEF Spec

--------------------------------------------------------------------------------
(* The ranges of the other variables                                       *)

OutsideTyped ==
  /\ life \in {"none", "created", "ready"} /\ network \in {"none", "any", "bssid"}
  /\ wpa_state \in States /\ observed_state \in States
  /\ eapol_received \in BOOLEAN /\ associated \in BOOLEAN /\ polling \in BOOLEAN

LEMMA HostapTyped ==
  ASSUME OutsideTyped, NEW states, NEW list, HostapActs(states, list)
  PROVE  wpa_state' \in States /\ associated' \in BOOLEAN
BY Zenon DEF OutsideTyped, HostapActs

LEMMA ReportTyped ==
  ASSUME OutsideTyped, Observe \/ ReturnUnobserved, wpa_state' \in States
  PROVE  observed_state' \in States
BY DEF OutsideTyped, Observe, ReturnUnobserved

\* What the calls that reach hostap do to its variables.
LEMMA CallsTyped ==
  ASSUME OutsideTyped,
         \/ Connect \/ Disconnect \/ FeedEapol \/ FeedOther \/ FeedRejected
         \/ (\E ok : FeedAssociated(ok) \/ FeedDisconnect(ok))
         \/ (\E ok, ok_complete : FeedTemporaryReject(ok, ok_complete))
  PROVE  OutsideTyped'
<1>1. /\ UNCHANGED <<life, network, polling>>
      /\ Observe \/ ReturnUnobserved
  BY Zenon DEF Connect, Disconnect, FeedEapol, FeedOther, FeedRejected, FeedAssociated,
         FeedDisconnect, FeedTemporaryReject, poller
<1>2. "DISCONNECTED" \in States /\ "SCANNING" \in States /\ "ASSOCIATING" \in States
  BY SupplicantAssumption
<1>3. ASSUME wpa_state' \in States, associated' \in BOOLEAN, eapol_received' \in BOOLEAN
      PROVE  OutsideTyped'
  <2>1. observed_state' \in States
    BY <1>1, <1>3, ReportTyped
  <2>2. QED
    BY <1>1, <1>3, <2>1, Zenon DEF OutsideTyped
<1>4. CASE Connect \/ Disconnect \/ FeedOther
  <2>1. \E states, list : HostapActs(states, list)
    BY <1>4, Zenon DEF Connect, Disconnect, FeedOther
  <2>2. UNCHANGED eapol_received
    BY <1>4 DEF Connect, Disconnect, FeedOther
  <2>3. QED
    BY <1>3, <2>1, <2>2, HostapTyped, Zenon DEF OutsideTyped
<1>5. CASE FeedEapol
  <2>1. \/ eapol_received' = TRUE /\ \E states, list : HostapActs(states, list)
        \/ UNCHANGED outside
    BY <1>5, Zenon DEF FeedEapol
  <2>2. CASE UNCHANGED outside
    BY <1>3, <2>2, Zenon DEF OutsideTyped, outside
  <2>3. QED
    BY <1>3, <2>1, <2>2, HostapTyped, Zenon
<1>6. CASE FeedRejected
  <2>1. wpa_state' \in States
    BY <1>2, <1>6 DEF FeedRejected, OutsideTyped
  <2>2. associated' = FALSE /\ UNCHANGED eapol_received
    BY <1>6 DEF FeedRejected
  <2>3. QED
    BY <1>3, <2>1, <2>2, Zenon DEF OutsideTyped
<1>7. CASE \E ok : FeedAssociated(ok)
  <2>1. wpa_state' \in States /\ associated' = TRUE
    BY <1>7 DEF FeedAssociated
  <2>2. eapol_received' \in BOOLEAN
    BY <1>7, Zenon DEF FeedAssociated
  <2>3. QED
    BY <1>3, <2>1, <2>2, Zenon
<1>8. CASE \/ (\E ok : FeedDisconnect(ok))
           \/ (\E ok, ok_complete : FeedTemporaryReject(ok, ok_complete))
  <2>1. \E list : Disassociated(list)
    BY <1>8, Zenon DEF FeedDisconnect, FeedTemporaryReject
  <2>2. wpa_state' \in States /\ associated' = FALSE /\ UNCHANGED eapol_received
    BY <1>2, <2>1 DEF Disassociated
  <2>3. QED
    BY <1>3, <2>2, Zenon DEF OutsideTyped
<1>9. QED
  BY <1>4, <1>5, <1>6, <1>7, <1>8, Zenon

\* What the handlers of the timers do to them.
LEMMA HandlersTyped ==
  ASSUME OutsideTyped, Handler
  PROVE  OutsideTyped'
<1>1. /\ UNCHANGED <<life, network, polling, observed_state>>
  BY DEF Handler, RunHostap, RunFallback, RunComplete, RunTempRetry, RunFirstEapol, Runs,
         report
<1>2. "DISCONNECTED" \in States /\ "ASSOCIATING" \in States
  BY SupplicantAssumption
<1>3. ASSUME wpa_state' \in States, associated' \in BOOLEAN, eapol_received' \in BOOLEAN
      PROVE  OutsideTyped'
  BY <1>1, <1>3, Zenon DEF OutsideTyped
<1>4. CASE RunHostap
  <2>1. \E states, list : HostapActs(states, list)
    BY <1>4, Zenon DEF RunHostap
  <2>2. UNCHANGED eapol_received
    BY <1>4 DEF RunHostap
  <2>3. QED
    BY <1>3, <2>1, <2>2, HostapTyped, Zenon DEF OutsideTyped
<1>5. CASE RunFallback \/ RunComplete \/ RunTempRetry
  <2>1. \/ UNCHANGED outside
        \/ wpa_state' = "ASSOCIATING" /\ UNCHANGED <<associated, eapol_received>>
    BY <1>5 DEF RunFallback, RunComplete, RunTempRetry, RetryFirstEapol, HostapAssociates,
                HostapScansLater
  <2>2. CASE UNCHANGED outside
    BY <1>3, <2>2, Zenon DEF OutsideTyped, outside
  <2>3. QED
    BY <1>2, <1>3, <2>1, <2>2, Zenon DEF OutsideTyped
<1>6. CASE \E ok \in Outcomes : RunFirstEapol(ok)
  <2>1. wpa_state' \in {wpa_state, "DISCONNECTED"} /\ UNCHANGED eapol_received
    BY <1>6 DEF RunFirstEapol
  <2>2. associated' \in {associated, FALSE}
    BY <1>6 DEF RunFirstEapol
  <2>3. wpa_state' \in States
    BY <1>2, <2>1 DEF OutsideTyped
  <2>4. associated' \in BOOLEAN
    BY <2>2, Zenon DEF OutsideTyped
  <2>5. QED
    BY <1>3, <2>1, <2>3, <2>4, Zenon DEF OutsideTyped
<1>7. QED
  BY <1>4, <1>5, <1>6, Zenon DEF Handler

LEMMA OutsideStep ==
  ASSUME OutsideTyped, [Next]_vars
  PROVE  OutsideTyped'
<1>1. CASE Create \/ Destroy \/ InitContext
  <2>1. "INTERFACE_DISABLED" \in States
    BY SupplicantAssumption
  <2>2. /\ life' \in {"none", "created", "ready"} /\ network' \in {"none", network}
        /\ wpa_state' = wpa_state \/ wpa_state' \in States
        /\ observed_state' = wpa_state' \/ observed_state' = "INTERFACE_DISABLED"
    <3>1. CASE Create
      BY <3>1 DEF Create, Zeroed, outside
    <3>2. CASE Destroy
      BY <2>1, <3>2 DEF Destroy, Zeroed
    <3>3. CASE InitContext
      BY <3>3 DEF InitContext
    <3>4. QED
      BY <1>1, <3>1, <3>2, <3>3
  <2>3. \/ eapol_received' = eapol_received /\ associated' = associated
        \/ eapol_received' = FALSE /\ associated' = FALSE
    BY <1>1, Zenon DEF Create, Destroy, InitContext, outside
  <2>4. UNCHANGED polling
    BY <1>1 DEF Create, Destroy, InitContext, poller
  <2>5. wpa_state' \in States /\ observed_state' \in States
    BY <2>1, <2>2 DEF OutsideTyped
  <2>6. network' \in {"none", "any", "bssid"}
    BY <2>2 DEF OutsideTyped
  <2>7. QED
    BY <2>2, <2>3, <2>4, <2>5, <2>6, Zenon DEF OutsideTyped
<1>2. CASE Configure
  <2>1. network' \in {"none", "any", "bssid"}
    BY <1>2 DEF Configure, OutsideTyped
  <2>2. UNCHANGED <<life, wpa_state, eapol_received, associated, polling, observed_state>>
    BY <1>2 DEF Configure, outside, poller, report
  <2>3. QED
    BY <2>1, <2>2, Zenon DEF OutsideTyped
<1>3. CASE NextEvent \/ Tick \/ UNCHANGED vars
  <2>1. UNCHANGED <<life, network, wpa_state, eapol_received, associated, polling, observed_state>>
    BY <1>3 DEF NextEvent, Tick, vars, outside, poller, report
  <2>2. QED
    BY <2>1, Zenon DEF OutsideTyped
<1>4. CASE PollReturns \/ \E work \in Budgets : PollStarts(work)
  <2>1. /\ UNCHANGED <<life, network, wpa_state, eapol_received, associated>>
        /\ observed_state' \in {observed_state, wpa_state'}
    BY <1>4 DEF PollReturns, PollStarts, outside, report, Observe
  <2>2. polling' = FALSE \/ polling' = TRUE
    BY <1>4 DEF PollReturns, PollStarts
  <2>3. QED
    BY <2>1, <2>2, Zenon DEF OutsideTyped
<1>5. QED
  BY <1>1, <1>2, <1>3, <1>4, CallsTyped, HandlersTyped, Zenon DEF Next, Client

LEMMA OutsideAlways == Spec => []OutsideTyped
<1>1. Init => OutsideTyped
  BY SupplicantAssumption DEF Init, OutsideTyped
<1>2. QED
  BY OutsideStep, <1>1, PTL DEF Spec

--------------------------------------------------------------------------------
(* The properties, from the invariants                                     *)

LEMMA WaitingTimer == ASSUME NEW h PROVE Waiting(h) <=> Has(timers, h)
BY DEF Waiting, Has

LEMMA SafeQuiet == SafeNow => QuietAfterDisconnect
BY WaitingTimer, Zenon DEF SafeNow, Safe, QuietAfterDisconnect

LEMMA SafeDriven == SafeNow => RetryIsDriven /\ TimersSingle /\ CompletionConfirmed
<1> SUFFICES ASSUME SafeNow
             PROVE  RetryIsDriven /\ TimersSingle /\ CompletionConfirmed
  OBVIOUS
<1>1. RetryIsDriven
  <2>1. Fallback \in refused \/ Complete \in refused => refused \cap {Fallback, Complete} # {}
    OBVIOUS
  <2>2. QED
    BY <2>1, WaitingTimer, Zenon DEF SafeNow, Safe, RetryIsDriven
<1>2. TimersSingle
  BY Zenon DEF SafeNow, Safe, TimersSingle, Once, Singles
<1>3. CompletionConfirmed
  BY WaitingTimer, Zenon DEF SafeNow, Safe, CompletionConfirmed
<1>4. QED
  BY <1>1, <1>2, <1>3

LEMMA AllTyped == TimersInv /\ QueueInv /\ OutsideTyped => TypeOK
<1> SUFFICES ASSUME TimersInv, QueueInv, OutsideTyped PROVE TypeOK
  OBVIOUS
<1>1. \A i \in 1 .. Len(timers) : /\ timers[i].handler \in OwnTimers \cup {Hostap}
                                  /\ timers[i].deadline \in Nat
  <2>1. timers \in Seq(TimerType)
    BY DEF TimersInv, SafeNow, Safe
  <2>2. \A i \in 1 .. Len(timers) : timers[i] \in TimerType
    BY <2>1
  <2>3. QED
    BY <2>2 DEF TimerType, Names
<1>2. (timers # <<>> => life = "ready") /\ refused \subseteq OwnTimers
  BY DEF TimersInv, SafeNow, Safe, AtRest
<1>3. Len(events) <= Room /\ dropped_events \in 0 .. CountMax
  BY DEF QueueInv
<1>4. QED
  BY <1>1, <1>2, <1>3, Zenon DEF OutsideTyped, TypeOK

LEMMA QueueCurrent == QueueInv => ConsumerCurrent
BY DEF QueueInv, ConsumerCurrent, Latest

(* A recovery that is owed has a timer that will make it, unless memory    *)
(* was refused for exactly that timer, whatever the delays, budgets and    *)
(* number of calls.  No timer waits twice but Complete, and no Complete    *)
(* ends a retry that is not the one of its disconnect                      *)
(* (supplicant_ws63.c:98-126, 635-720).                                    *)
THEOREM RecoveryAlwaysDriven == Spec => []RecoveryDriven
<1>1. TimersInv /\ QueueInv /\ OutsideTyped => RecoveryDriven
  BY AllTyped, SafeDriven DEF RecoveryDriven, TimersInv
<1>2. QED
  BY TimersAlways, QueueAlways, OutsideAlways, <1>1, PTL

(* After an explicit disconnect no recovery is owed and none of its timers *)
(* is left, until the driver reports again (supplicant_ws63.c:401-419).    *)
THEOREM AlwaysQuiet == Spec => []QuietAfterDisconnect
<1>1. TimersInv => QuietAfterDisconnect
  BY SafeQuiet DEF TimersInv
<1>2. QED
  BY TimersAlways, <1>1, PTL

(* A consumer that has read everything believes the state of hostap, for   *)
(* any capacity of the queue (supplicant_ws63.c:157-232).                  *)
THEOREM ConsumerAlwaysCurrent == Spec => []ConsumerCurrent
BY QueueAlways, QueueCurrent, PTL

(* No step goes back to the cached BSS while the association may still     *)
(* stand: every timer that confirms a disconnect was registered by one     *)
(* (supplicant_ws63.c:51-62, 75-104).                                      *)
THEOREM CachedAlwaysSafe == Spec => CachedRetryIsSafe
<1>1. TimersInv /\ [Next]_vars
      => [count'.cached > count.cached => confirmed \/ ~associated]_vars
  BY CachedStep
<1>2. QED
  BY TimersAlways, <1>1, PTL DEF Spec, CachedRetryIsSafe
================================================================================
