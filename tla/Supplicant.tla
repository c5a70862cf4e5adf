------------------------------- MODULE Supplicant ------------------------------
(***************************************************************************)
(* The context of supplicant_ws63.c on its single runner: the API calls,   *)
(* the driver events fed to it, hisi_wpa_poll with its work budget, the    *)
(* two recoveries that are driven by timers (no first EAPOL frame after an *)
(* association; a temporary reject, reason 8030) and the events that tell  *)
(* the consumer of state changes.                                          *)
(*                                                                         *)
(* hostap itself is not in the repository.  What it does to wpa_state, to  *)
(* its own timer and, through the driver, to the association is a choice   *)
(* among the outcomes that the code around its calls allows for.           *)
(*                                                                         *)
(* Deadlines are relative to the present, overdue ones are 0: the timer    *)
(* list itself is checked in Eloop, the event ring in EventRing.  The      *)
(* uint8_t counters do not reach their limit within MaxInputs inputs.      *)
(***************************************************************************)
EXTENDS Naturals, Sequences

CONSTANTS
  States,            (* enum wpa_states, those that the model visits       *)
  Room,              (* HISI_WPA_EVENT_CAPACITY - 1                        *)
  FirstEapolDelay,   (* HISI_WPA_FIRST_EAPOL_TIMEOUT_SECONDS               *)
  FallbackDelay,     (* the second a disconnect event is waited for        *)
  HostapDelays,      (* delays of hostap's own timer                       *)
  ConsumerReads,     (* whether the consumer ever calls hisi_wpa_next_event*)
  Budgets,           (* work budgets of hisi_wpa_poll                      *)
  CountMax,          (* UINT32_MAX, where dropped_events saturates         *)
  AllocMayFail,      (* whether eloop_register_timeout may fail            *)
  MaxInputs          (* bound of the model on calls other than poll,       *)
                     (* next_event, create and init                        *)

ASSUME SupplicantAssumption ==
  /\ {"INTERFACE_DISABLED", "DISCONNECTED", "SCANNING", "ASSOCIATING",
      "ASSOCIATED"} \subseteq States
  /\ Room \in Nat \ {0}
  /\ FirstEapolDelay \in Nat /\ FallbackDelay \in Nat
  /\ HostapDelays \subseteq Nat /\ Budgets \subseteq Nat
  /\ AllocMayFail \in BOOLEAN /\ ConsumerReads \in BOOLEAN
  /\ MaxInputs \in Nat /\ CountMax \in Nat \ {0}

VARIABLES
  life,              (* "none", "created" or "ready" (initialized)         *)
  network,           (* the configured network: "none", "any" or "bssid"   *)
  wpa_state,         (* external: hostap's state                           *)
  eapol_received,    (* external: a frame came since the association       *)
  associated,        (* of struct ws63_driver_data                         *)
  timers,            (* the eloop's list                                   *)
  polling,           (* inside hisi_wpa_poll                               *)
  budget,            (* its work budget left                               *)
  first_eapol_retry_pending, temporary_reject_retry_pending,
  count,             (* the diagnostic counters                            *)
  observed_state,
  events, dropped_events,           (* the event queue                     *)
  inputs,            (* history: inputs so far                             *)
  lapsed,            (* history: retries given up, per recovery            *)
  confirmed,         (* history: the driver told of the disconnect that    *)
                     (* the pending first-EAPOL retry waits for            *)
  refused,           (* history: timers that got no memory                 *)
  quiet,             (* history: nothing from the driver since the last    *)
                     (* hisi_wpa_disconnect                                *)
  view,              (* history: kind of the last event consumed           *)
  newest_lost,       (* history: the newest event found the queue full     *)
  lagging            (* history: a call returned without observe_state     *)

outside  == <<wpa_state, eapol_received, associated>>
recovery == <<first_eapol_retry_pending, temporary_reject_retry_pending, count,
              lapsed, confirmed>>
queue    == <<events, dropped_events>>
report   == <<observed_state, queue, view, newest_lost, lagging>>
poller   == <<polling, budget>>
vars == <<life, network, outside, timers, poller, recovery, report, inputs,
          refused, quiet>>

List == INSTANCE TimerList WITH AllContexts <- "all"

FirstEapol == "first_eapol_timeout"
Fallback   == "first_eapol_disconnect_fallback"
Complete   == "first_eapol_disconnect_complete"
TempRetry  == "temporary_reject_retry"
Hostap     == "hostap"
OwnTimers  == {FirstEapol, Fallback, Complete, TempRetry}

Cancelled(list, handler)     == List!RemoveAll(list, handler, "context")
Registered(list, handler, d) ==
  List!Insert(list, [deadline |-> d, handler |-> handler, context |-> "context"])
Waiting(handler) == \E i \in 1 .. Len(timers) : timers[i].handler = handler

Outcomes == IF AllocMayFail THEN BOOLEAN ELSE {TRUE}

\* eloop_register_timeout on `list`, with or without memory for it.
Register(list, handler, d, ok) ==
  /\ timers' = IF ok THEN Registered(list, handler, d) ELSE list
  /\ refused' = IF ok THEN refused \ {handler} ELSE refused \cup {handler}

One(b) == IF b THEN 1 ELSE 0

--------------------------------------------------------------------------------
(* Reporting: event_for_state and observe_state *)

KindOf(state) ==
  CASE state \in {"AUTHENTICATING", "ASSOCIATING"} -> "authenticating"
    [] state \in {"ASSOCIATED", "4WAY_HANDSHAKE", "GROUP_HANDSHAKE"} -> "associated"
    [] state = "COMPLETED" -> "authorized"
    [] state \in {"DISCONNECTED", "INTERFACE_DISABLED", "INACTIVE"} -> "disconnected"
    [] OTHER -> "none"

PushEvent(kind) ==
  /\ newest_lost' = (Len(events) = Room)
  /\ IF Len(events) = Room
     THEN /\ dropped_events' = IF dropped_events = CountMax THEN CountMax
                               ELSE dropped_events + 1
          /\ UNCHANGED events
     ELSE events' = Append(events, kind) /\ UNCHANGED dropped_events

NewsToConsumer(state) ==   \* faulty variant: compares with what was consumed
  KindOf(state) \notin {"none", view}

News(state) == state # observed_state /\ KindOf(state) # "none"

\* On the value that wpa_state has at the end of the call.
Observe ==
  /\ observed_state' = wpa_state'
  /\ lagging' = FALSE
  /\ IF ~News(wpa_state')
     THEN UNCHANGED <<queue, newest_lost>>
     ELSE PushEvent(KindOf(wpa_state'))
  /\ UNCHANGED view

ReturnUnobserved ==
  /\ lagging' = TRUE
  /\ UNCHANGED <<observed_state, queue, view, newest_lost>>

\* hisi_wpa_next_event: an overflow is reported before anything else.
NextEvent ==
  /\ ConsumerReads /\ life # "none" /\ ~polling
  /\ \/ /\ dropped_events # 0
        /\ dropped_events' = 0
        /\ UNCHANGED <<events, view>>
     \/ /\ dropped_events = 0 /\ events # <<>>
        /\ view' = Head(events) /\ events' = Tail(events)
        /\ UNCHANGED dropped_events
  /\ UNCHANGED <<life, network, outside, timers, poller, recovery, observed_state,
                 newest_lost, lagging, inputs, refused, quiet>>

--------------------------------------------------------------------------------
(* External: hostap, as its callers here see it *)

\* It registers its timer, or restarts it, or leaves it running.
HostapLists(list) ==
  {Registered(Cancelled(list, Hostap), Hostap, d) : d \in HostapDelays} \cup
    {list : i \in {i \in 1 .. Len(list) : list[i].handler = Hostap}}

\* Some function of hostap that leaves it in one of `states`; on the way it may
\* deauthenticate, and the driver hook may refuse that.
HostapActs(states, list) ==
  /\ wpa_state' \in states \cap States
  /\ associated' \in {associated, associated /\ wpa_state' # "DISCONNECTED"}
  /\ timers' \in HostapLists(list)

\* wpa_supplicant_associate and wpa_supplicant_req_scan always leave a timer.
HostapAssociates(list) ==
  /\ wpa_state' = "ASSOCIATING"
  /\ \E d \in HostapDelays : timers' = Registered(Cancelled(list, Hostap), Hostap, d)
  /\ UNCHANGED <<associated, eapol_received>>

HostapScansLater(list) ==
  /\ \E d \in HostapDelays : timers' = Registered(Cancelled(list, Hostap), Hostap, d)
  /\ UNCHANGED outside

--------------------------------------------------------------------------------
(* Lifetime and configuration *)

ZeroCounts ==
  [timeouts |-> 0, disconnect_events |-> 0, fallbacks |-> 0,
   local_disconnects |-> 0, cached |-> 0, scan |-> 0,
   rejects |-> 0, reject_cached |-> 0, reject_scan |-> 0]

Zeroed ==
  /\ network' = "none"
  /\ first_eapol_retry_pending' = FALSE /\ temporary_reject_retry_pending' = FALSE
  /\ count' = ZeroCounts /\ lapsed' = [first |-> 0, reject |-> 0]
  /\ confirmed' = FALSE /\ refused' = {} /\ quiet' = TRUE
  /\ observed_state' = "INTERFACE_DISABLED"
  /\ events' = <<>> /\ dropped_events' = 0
  /\ view' = "disconnected" /\ newest_lost' = FALSE /\ lagging' = FALSE

Init ==
  /\ life = "none" /\ network = "none"
  /\ wpa_state = "INTERFACE_DISABLED" /\ eapol_received = FALSE /\ associated = FALSE
  /\ timers = <<>> /\ polling = FALSE /\ budget = 0
  /\ first_eapol_retry_pending = FALSE /\ temporary_reject_retry_pending = FALSE
  /\ count = ZeroCounts /\ lapsed = [first |-> 0, reject |-> 0]
  /\ confirmed = FALSE /\ refused = {} /\ quiet = TRUE
  /\ observed_state = "INTERFACE_DISABLED"
  /\ events = <<>> /\ dropped_events = 0
  /\ view = "disconnected" /\ newest_lost = FALSE /\ lagging = FALSE
  /\ inputs = 0

Create ==
  /\ life = "none"
  /\ life' = "created"
  /\ Zeroed
  /\ UNCHANGED <<outside, timers, poller, inputs>>

\* hisi_wpa_init; when it fails it has undone what it did.
InitContext ==
  /\ life = "created" /\ ~polling
  /\ life' = "ready"
  /\ wpa_state' \in {"DISCONNECTED", "INTERFACE_DISABLED", "INACTIVE"} \cap States
  /\ observed_state' = wpa_state'
  /\ associated' = FALSE /\ eapol_received' = FALSE
  /\ timers' \in HostapLists(<<>>)
  /\ UNCHANGED <<network, poller, recovery, queue, view, newest_lost, lagging,
                 inputs, refused, quiet>>

Input == life = "ready" /\ ~polling /\ inputs < MaxInputs /\ inputs' = inputs + 1

\* A configuration that fails part of the way leaves no network, or, when the
\* old one cannot be removed, that.
Configure ==
  /\ Input
  /\ network' \in {"any", "bssid", "none", network}
  /\ UNCHANGED <<life, outside, timers, poller, recovery, report, refused, quiet>>

\* wpa_supplicant_deinit ends in eloop_destroy; then the context is zeroed.
Destroy ==
  /\ life # "none" /\ ~polling
  /\ inputs < MaxInputs /\ inputs' = inputs + 1
  /\ life' = "none"
  /\ timers' = <<>>
  /\ Zeroed
  /\ wpa_state' = "INTERFACE_DISABLED" /\ eapol_received' = FALSE /\ associated' = FALSE
  /\ UNCHANGED <<poller>>

Connect ==
  /\ Input
  /\ network # "none"
  /\ HostapActs({wpa_state, "ASSOCIATING", "DISCONNECTED", "SCANNING"}, timers)
  /\ Observe
  /\ UNCHANGED <<life, network, eapol_received, poller, recovery, refused, quiet>>

WithdrawnForgettingReject(list) ==   \* faulty variant: knows one recovery
  Cancelled(Cancelled(Cancelled(list, FirstEapol), Fallback), Complete)

Withdrawn(list) ==
  Cancelled(Cancelled(Cancelled(Cancelled(list, FirstEapol), Fallback), Complete),
            TempRetry)

Disconnect ==
  /\ Input
  /\ first_eapol_retry_pending' = FALSE
  /\ temporary_reject_retry_pending' = FALSE
  /\ lapsed' = [first  |-> lapsed.first + One(first_eapol_retry_pending),
                reject |-> lapsed.reject + One(temporary_reject_retry_pending)]
  /\ confirmed' = FALSE
  /\ HostapActs({"DISCONNECTED"}, Withdrawn(timers))
  /\ refused' = {}
  /\ quiet' = TRUE
  /\ Observe
  /\ UNCHANGED <<life, network, eapol_received, poller, count>>

--------------------------------------------------------------------------------
(* Driver events *)

\* hisi_wpa_feed_eapol does not observe; before the association hostap keeps
\* the frame for later.
FeedEapol ==
  /\ Input
  /\ IF KindOf(wpa_state) \in {"associated", "authorized"}
     THEN /\ eapol_received' = TRUE
          /\ HostapActs({wpa_state, "4WAY_HANDSHAKE", "GROUP_HANDSHAKE",
                         "COMPLETED", "DISCONNECTED"}, timers)
     ELSE UNCHANGED <<outside, timers>>
  /\ ReturnUnobserved
  /\ UNCHANGED <<life, network, poller, recovery, refused, quiet>>

\* Management frames, external authentication and the end of a scan.
FeedOther ==
  /\ Input
  /\ HostapActs({wpa_state, "AUTHENTICATING", "ASSOCIATING", "SCANNING",
                 "DISCONNECTED"}, timers)
  /\ Observe
  /\ UNCHANGED <<life, network, eapol_received, poller, recovery, refused, quiet>>

ArmFirstEapol(list, ok) ==
  Register(Cancelled(list, FirstEapol), FirstEapol, FirstEapolDelay, ok)

\* A success: EVENT_ASSOC, which also delivers a frame that came too early.
FeedAssociated(ok) ==
  /\ Input
  /\ associated' = TRUE
  /\ wpa_state' \in {"ASSOCIATED", "4WAY_HANDSHAKE", "DISCONNECTED"} \cap States
  /\ eapol_received' = (wpa_state' = "4WAY_HANDSHAKE")
  /\ \E list \in HostapLists(timers) :
       IF wpa_state' = "ASSOCIATED"
       THEN ArmFirstEapol(list, ok)
       ELSE timers' = list /\ UNCHANGED refused
  /\ quiet' = FALSE
  /\ Observe
  /\ UNCHANGED <<life, network, poller, recovery>>

FeedRejected ==
  /\ Input
  /\ associated' = FALSE
  /\ wpa_state' \in {wpa_state, "DISCONNECTED", "SCANNING"}
  /\ timers' \in HostapLists(timers)
  /\ Observe
  /\ UNCHANGED <<life, network, eapol_received, poller, recovery, refused, quiet>>

\* EVENT_DISASSOC as hostap leaves it, before the code below looks at it.
Disassociated(list) ==
  /\ associated' = FALSE
  /\ wpa_state' \in {"DISCONNECTED", "SCANNING", "ASSOCIATING"}
  /\ list \in HostapLists(timers)
  /\ quiet' = FALSE
  /\ UNCHANGED eapol_received

\* A disconnect for any reason but 8030.
FeedDisconnect(ok) ==
  /\ Input
  /\ \E list \in HostapLists(timers) :
       /\ Disassociated(list)
       /\ IF first_eapol_retry_pending
          THEN /\ count' = [count EXCEPT !.disconnect_events = @ + 1]
               /\ Register(Cancelled(list, Fallback), Complete, 0, ok)
               /\ confirmed' = TRUE
               /\ IF ok THEN Observe ELSE ReturnUnobserved
          ELSE /\ timers' = list
               /\ Observe
               /\ UNCHANGED <<count, confirmed, refused>>
  /\ UNCHANGED <<life, network, poller, first_eapol_retry_pending,
                 temporary_reject_retry_pending, lapsed>>

\* A temporary reject.  Without memory for the retry the call returns at once;
\* otherwise it also confirms a disconnect that is waited for.
FeedTemporaryReject(ok, ok_complete) ==
  /\ Input
  /\ temporary_reject_retry_pending' = TRUE
  /\ lapsed' = [lapsed EXCEPT !.reject = @ + One(temporary_reject_retry_pending)]
  /\ \E list \in HostapLists(timers) :
       /\ Disassociated(list)
       /\ LET kept  == Cancelled(list, TempRetry)
              armed == Registered(kept, TempRetry, 0)
          IN  \/ /\ ~ok
                 /\ timers' = kept
                 /\ refused' = refused \cup {TempRetry}
                 /\ count' = [count EXCEPT !.rejects = @ + 1]
                 /\ ReturnUnobserved
                 /\ UNCHANGED confirmed
              \/ /\ ok /\ ~first_eapol_retry_pending
                 /\ timers' = armed
                 /\ refused' = refused \ {TempRetry}
                 /\ count' = [count EXCEPT !.rejects = @ + 1]
                 /\ Observe
                 /\ UNCHANGED confirmed
              \/ /\ ok /\ first_eapol_retry_pending
                 /\ timers' = IF ok_complete
                              THEN Registered(Cancelled(armed, Fallback), Complete, 0)
                              ELSE Cancelled(armed, Fallback)
                 /\ refused' = (refused \ {TempRetry, Complete})
                                 \cup (IF ok_complete THEN {} ELSE {Complete})
                 /\ count' = [count EXCEPT !.rejects = @ + 1, !.disconnect_events = @ + 1]
                 /\ confirmed' = TRUE
                 /\ IF ok_complete THEN Observe ELSE ReturnUnobserved
  /\ UNCHANGED <<life, network, poller, first_eapol_retry_pending>>

--------------------------------------------------------------------------------
(* hisi_wpa_poll: due timers run one after the other, then observe_state *)

PollStarts(work) ==
  /\ life = "ready" /\ ~polling
  /\ polling' = TRUE /\ budget' = work
  /\ UNCHANGED <<life, network, outside, timers, recovery, report, inputs, refused,
                 quiet>>

Due == polling /\ budget # 0 /\ timers # <<>> /\ Head(timers).deadline = 0

PollReturns ==
  /\ polling /\ ~Due
  /\ polling' = FALSE /\ budget' = 0
  /\ UNCHANGED <<life, network, outside, timers, recovery, inputs, refused, quiet>>
  /\ Observe

\* The first timer comes off the list before its handler is called.
Runs(handler) ==
  /\ Due /\ Head(timers).handler = handler
  /\ budget' = budget - 1
  /\ UNCHANGED <<life, network, polling, report, inputs, quiet>>

RunHostap ==
  /\ Runs(Hostap)
  /\ HostapActs({wpa_state, "SCANNING", "AUTHENTICATING", "ASSOCIATING",
                 "DISCONNECTED"}, Tail(timers))
  /\ UNCHANGED <<eapol_received, recovery, refused>>

ArmFallbackThenCancel(list, ok) ==   \* faulty variant: in the wrong order
  /\ timers' = Cancelled(Cancelled(list, Fallback), Complete)
  /\ UNCHANGED refused

ArmFallback(list, ok) ==
  Register(Cancelled(Cancelled(list, Fallback), Complete), Fallback, FallbackDelay, ok)

\* The association brought no EAPOL frame: deauthenticate, and wait for the
\* disconnect event for a bounded time before the retry.
RunFirstEapol(ok) ==
  /\ Runs(FirstEapol)
  /\ IF wpa_state = "ASSOCIATED" /\ ~eapol_received
     THEN /\ count' = [count EXCEPT !.timeouts = @ + 1]
          /\ lapsed' = [lapsed EXCEPT !.first = @ + One(first_eapol_retry_pending)]
          /\ first_eapol_retry_pending' = TRUE
          /\ confirmed' = FALSE
          /\ wpa_state' = "DISCONNECTED"
          /\ associated' \in {associated, FALSE}
          /\ \E list \in HostapLists(Tail(timers)) : ArmFallback(list, ok)
     ELSE /\ timers' = Tail(timers)
          /\ UNCHANGED <<wpa_state, associated, count, lapsed, confirmed, refused,
                         first_eapol_retry_pending>>
  /\ UNCHANGED <<eapol_received, temporary_reject_retry_pending>>

AssumedGone(sure) == TRUE   \* faulty variant: trusts the deauthentication
Gone(sure)        == sure \/ ~associated

\* hisi_wpa_schedule_first_eapol_retry: the cached BSS when the disconnect is
\* certain and the cache still has it, a scan otherwise.
RetryFirstEapol(list, sure, counted) ==
  /\ IF first_eapol_retry_pending
     THEN LET local == [counted EXCEPT !.local_disconnects =
                                          @ + One(~sure /\ ~associated)]
          IN  /\ first_eapol_retry_pending' = FALSE
              /\ \/ /\ Gone(sure) /\ network = "bssid"
                    /\ count' = [local EXCEPT !.cached = @ + 1]
                    /\ HostapAssociates(list)
                 \/ /\ count' = [local EXCEPT !.scan = @ + 1]
                    /\ HostapScansLater(list)
     ELSE /\ timers' = list
          /\ count' = counted
          /\ UNCHANGED <<outside, first_eapol_retry_pending>>
  /\ UNCHANGED <<temporary_reject_retry_pending, lapsed, confirmed, refused>>

RunFallback ==
  /\ Runs(Fallback)
  /\ RetryFirstEapol(Tail(timers), FALSE, [count EXCEPT !.fallbacks = @ + 1])

RunCompleteStillPending ==   \* faulty variant: does not clear the flag
  /\ Runs(Complete)
  /\ count' = [count EXCEPT !.scan = @ + One(first_eapol_retry_pending)]
  /\ HostapScansLater(Tail(timers))
  /\ UNCHANGED <<first_eapol_retry_pending, temporary_reject_retry_pending, lapsed,
                 confirmed, refused>>

RunComplete ==
  /\ Runs(Complete)
  /\ RetryFirstEapol(Tail(timers), TRUE, count)

RunTempRetryStillPending ==   \* faulty variant: does not clear the flag
  /\ Runs(TempRetry)
  /\ count' = [count EXCEPT !.reject_scan = @ + One(temporary_reject_retry_pending)]
  /\ HostapScansLater(Tail(timers))
  /\ UNCHANGED <<first_eapol_retry_pending, temporary_reject_retry_pending, lapsed,
                 confirmed, refused>>

RunTempRetry ==
  /\ Runs(TempRetry)
  /\ IF temporary_reject_retry_pending
     THEN /\ temporary_reject_retry_pending' = FALSE
          /\ \/ /\ network = "bssid"
                /\ count' = [count EXCEPT !.reject_cached = @ + 1]
                /\ HostapAssociates(Tail(timers))
             \/ /\ count' = [count EXCEPT !.reject_scan = @ + 1]
                /\ HostapScansLater(Tail(timers))
     ELSE /\ timers' = Tail(timers)
          /\ UNCHANGED <<outside, count, temporary_reject_retry_pending>>
  /\ UNCHANGED <<first_eapol_retry_pending, lapsed, confirmed, refused>>

Tick ==
  /\ \E i \in 1 .. Len(timers) : timers[i].deadline > 0
  /\ timers' = [i \in 1 .. Len(timers) |->
                  [timers[i] EXCEPT !.deadline = IF @ = 0 THEN 0 ELSE @ - 1]]
  /\ UNCHANGED <<life, network, outside, poller, recovery, report, inputs, refused,
                 quiet>>

--------------------------------------------------------------------------------
Handler ==
  \/ RunHostap \/ RunFallback \/ RunComplete \/ RunTempRetry
  \/ \E ok \in Outcomes : RunFirstEapol(ok)

Client ==
  \/ Create \/ InitContext \/ Configure \/ Destroy \/ Connect \/ Disconnect
  \/ FeedEapol \/ FeedOther \/ FeedRejected
  \/ \E ok \in Outcomes : FeedAssociated(ok) \/ FeedDisconnect(ok)
  \/ \E ok, ok_complete \in Outcomes : FeedTemporaryReject(ok, ok_complete)

Next ==
  \/ Client \/ NextEvent \/ Handler \/ PollReturns \/ Tick
  \/ \E work \in Budgets : PollStarts(work)

Spec == Init /\ [][Next]_vars

\* Handlers return, time passes, and the runner polls again and again, not only
\* with an empty budget.
Fairness ==
  /\ WF_vars(Handler \/ PollReturns)
  /\ WF_vars(Tick)
  /\ SF_vars(\E work \in Budgets \ {0} : PollStarts(work))

FairSpec == Spec /\ Fairness

--------------------------------------------------------------------------------
(* Every variable keeps its range, and nothing but the eloop of a ready    *)
(* context holds timers that point to it.                                  *)
TypeOK ==
  /\ life \in {"none", "created", "ready"} /\ network \in {"none", "any", "bssid"}
  /\ wpa_state \in States /\ observed_state \in States
  /\ eapol_received \in BOOLEAN /\ associated \in BOOLEAN /\ polling \in BOOLEAN
  /\ \A i \in 1 .. Len(timers) :
       /\ timers[i].handler \in OwnTimers \cup {Hostap}
       /\ timers[i].deadline \in Nat
  /\ timers # <<>> => life = "ready"
  /\ Len(events) <= Room
  /\ dropped_events \in 0 .. CountMax
  /\ refused \subseteq OwnTimers

(* A pending retry is never stranded: some timer is registered that will   *)
(* make it, unless memory was refused for exactly that timer               *)
(* (supplicant_ws63.c:107-114, 692-713).                                   *)
RetryIsDriven ==
  /\ first_eapol_retry_pending =>
       Waiting(Fallback) \/ Waiting(Complete) \/ refused \cap {Fallback, Complete} # {}
  /\ temporary_reject_retry_pending => Waiting(TempRetry) \/ TempRetry \in refused

(* An explicit disconnect withdraws both recoveries with all their timers, *)
(* and they stay withdrawn until the driver reports an association or a    *)
(* disconnect again (supplicant_ws63.c:401-419).                           *)
QuietAfterDisconnect ==
  quiet => /\ ~first_eapol_retry_pending /\ ~temporary_reject_retry_pending
           /\ \A h \in OwnTimers : ~Waiting(h)

(* The first-EAPOL timeout, the fallback, the retry after a rejection and  *)
(* hostap's own work wait once at most. Complete may wait more often: each *)
(* disconnect during a recovery registers it and cancels only the fallback *)
(* (supplicant_ws63.c:696-710).                                            *)
TimersSingle ==
  \A h \in {FirstEapol, Fallback, TempRetry, Hostap} :
    \A i, j \in 1 .. Len(timers) :
      timers[i].handler = h /\ timers[j].handler = h => i = j

(* However many of them wait, a Complete that finds a retry pending belongs*)
(* to a disconnect that the driver told of since that retry was detected;  *)
(* none is left from a recovery before it (supplicant_ws63.c:98-126).      *)
CompletionConfirmed ==
  first_eapol_retry_pending /\ Waiting(Complete) => confirmed

(* Both recoveries are driven, each step by one timer, a completion by     *)
(* timers of its own recovery only (supplicant_ws63.c:98-126, 635-720).    *)
RecoveryDriven ==
  TypeOK /\ RetryIsDriven /\ TimersSingle /\ CompletionConfirmed

(* What the consumer believes is right once it has read everything: if the *)
(* last event read disagrees with hostap's state, a call has returned      *)
(* without looking at the state (EAPOL, or no memory) and no poll has      *)
(* followed, or the newest event was lost to a full queue                  *)
(* (supplicant_ws63.c:157-232, README.md:173-175).                         *)
ConsumerCurrent ==
  (life = "ready" /\ ~polling /\ ~lagging /\ events = <<>> /\ ~newest_lost
     /\ KindOf(wpa_state) # "none")
  => view = KindOf(wpa_state)

(* The cached BSS is used again only after the driver told of the          *)
(* disconnect, or when its own record says that the association is gone    *)
(* (supplicant_ws63.c:51-62, the comment at 98-104).                       *)
CachedRetryIsSafe ==
  [][count'.cached > count.cached => confirmed \/ ~associated]_vars

(* Both recoveries keep the discipline of RetryObligation: a retry answers *)
(* a detected failure, and answers it once.                                *)
FirstEapolObligation ==
  INSTANCE RetryObligation
    WITH owed <- first_eapol_retry_pending, detected <- count.timeouts,
         retried <- count.cached + count.scan, given_up <- lapsed.first
TempRejectObligation ==
  INSTANCE RetryObligation
    WITH owed <- temporary_reject_retry_pending, detected <- count.rejects,
         retried <- count.reject_cached + count.reject_scan,
         given_up <- lapsed.reject

ImplementsFirstEapolRetry == FirstEapolObligation!Spec
ImplementsTempRejectRetry == TempRejectObligation!Spec

(* With memory, time and a runner that polls, every owed retry is made or  *)
(* withdrawn, whether or not the firmware ever confirms the disconnect     *)
(* (the comment at supplicant_ws63.c:103-104).                             *)
RetriesResolve ==
  /\ first_eapol_retry_pending ~> ~first_eapol_retry_pending
  /\ temporary_reject_retry_pending ~> ~temporary_reject_retry_pending
================================================================================
