--------------------------------- MODULE Eloop ---------------------------------
(***************************************************************************)
(* The single-runner event loop of eloop_hisi_rtos.c: registration,        *)
(* cancellation and rescheduling of timeouts, hisi_wpa_eloop_run_once with *)
(* its work budget, and the two loops around it.  eloop_run blocks in the  *)
(* wait_for_work hook; hisi_wpa_poll and hisi_wpa_ap_poll return           *)
(* next_deadline_ms to the runner, which is outside the repository and     *)
(* sleeps until then or until wake_runner is called.                       *)
(*                                                                         *)
(* Time is in microseconds, PerMs of them to the millisecond.  Handlers    *)
(* run on the runner and may call any of the client operations; in between *)
(* polls the owner of the runner may call them too.                        *)
(***************************************************************************)
EXTENDS TimerList

CONSTANTS
  Handlers,       (* eloop_timeout_handler functions                       *)
  Contexts,       (* values of eloop_data and user_data                    *)
  Delays,         (* delays asked for                                      *)
  Budgets,        (* work budgets of hisi_wpa_poll                         *)
  Forever,        (* a wait without an end                                 *)
  PerMs,          (* microseconds per millisecond: 1000                    *)
  U64Max,         (* UINT64_MAX: saturated deadline, and "no deadline"     *)
  WaitMax,        (* UINT32_MAX milliseconds: what the hook takes for ever *)
  OsMayFail,      (* whether the clock and the wait hook may fail          *)
  MaxTime,        (* bound of the model on the clock                       *)
  MaxInsertions   (* bound of the model on list insertions                 *)

ASSUME EloopAssumption ==
  /\ PerMs \in Nat \ {0} /\ PerMs <= U64Max
  /\ U64Max \in Nat /\ MaxTime \in Nat /\ MaxInsertions \in Nat
  /\ WaitMax \in Nat \ {0}
  /\ MaxTime < U64Max
  /\ Delays \subseteq Nat
  /\ Budgets \subseteq Nat
  /\ Forever \notin Nat
  /\ OsMayFail \in BOOLEAN
  /\ AllContexts \notin Contexts

VARIABLES
  g_initialized, g_terminate,
  g_timeouts,         (* timers, each with the history field `stamp`       *)
  now,                (* the monotonic clock                               *)
  pc,                 (* where the runner is: "idle", "loop", "handler",   *)
                      (* "after" the run_once call, "waiting"              *)
  loop,               (* which loop it is in: "run" or "poll"              *)
  budget,             (* work budget left; Forever in eloop_run            *)
  wake_at,            (* end of the wait, or Forever                       *)
  woken,              (* wake_runner was called since the last wait        *)
  g_timeout_registrations, g_timeout_executions,
  withdrawn,          (* history: timers cancelled or destroyed            *)
  insertions          (* history: list insertions, the next stamp          *)

counters == <<g_timeout_registrations, g_timeout_executions>>
runner   == <<pc, loop, budget, wake_at>>
vars == <<g_initialized, g_terminate, g_timeouts, now, runner, woken, counters,
          withdrawn, insertions>>

Init ==
  /\ g_initialized = FALSE /\ g_terminate = FALSE
  /\ g_timeouts = <<>>
  /\ now = 0
  /\ pc = "idle" /\ loop = "poll" /\ budget = 0 /\ wake_at = Forever
  /\ woken = FALSE
  /\ g_timeout_registrations = 0 /\ g_timeout_executions = 0
  /\ withdrawn = 0 /\ insertions = 0

SaturatingAdd(left, right) == IF U64Max - left < right THEN U64Max ELSE left + right

FloorMs(us) == us \div PerMs    \* faulty variant of CeilingMs: rounds down

\* (us + 999u) / 1000u in uint64_t: for the last 999 values the sum wraps and
\* the quotient is 0.
SumWraps(us)  == us > U64Max - (PerMs - 1)
CeilingMs(us) == ((us + PerMs - 1) % (U64Max + 1)) \div PerMs

\* Handlers call in, and between polls the owner of the runner does.
ClientMayCall ==
  \/ pc \in {"idle", "handler"}
  \/ pc = "waiting" /\ loop = "poll"

WakesNobody(changed) == woken' = woken   \* faulty variant: no wake-up
Wakes(changed)       == woken' = (woken \/ changed)

--------------------------------------------------------------------------------
(* Client operations *)

EloopInit ==
  /\ ~g_initialized
  /\ pc \in {"idle", "waiting"} /\ ClientMayCall
  /\ g_initialized' = TRUE
  /\ g_terminate' = FALSE
  /\ g_timeouts' = <<>>
  /\ g_timeout_registrations' = 0 /\ g_timeout_executions' = 0
  /\ withdrawn' = 0
  /\ UNCHANGED <<now, runner, woken, insertions>>

Timer(h, c, d) ==
  [deadline |-> SaturatingAdd(now, d), handler |-> h, context |-> c,
   stamp |-> insertions]

\* Without memory or a clock nothing is registered and nothing else changes.
Register(h, c, d) ==
  /\ ClientMayCall /\ g_initialized
  /\ insertions < MaxInsertions
  /\ g_timeouts' = Insert(g_timeouts, Timer(h, c, d))
  /\ insertions' = insertions + 1
  /\ g_timeout_registrations' = g_timeout_registrations + 1
  /\ Wakes(TRUE)
  /\ UNCHANGED <<g_initialized, g_terminate, now, runner,
                 g_timeout_executions, withdrawn>>

Cancel(h, c) ==
  /\ ClientMayCall
  /\ g_timeouts' = RemoveAll(g_timeouts, h, c)
  /\ withdrawn' = withdrawn + Len(g_timeouts) - Len(g_timeouts')
  /\ Wakes(g_timeouts' # g_timeouts)
  /\ UNCHANGED <<g_initialized, g_terminate, now, runner, counters, insertions>>

CancelOne(h, c) ==
  /\ ClientMayCall
  /\ MatchesAt(g_timeouts, h, c) # {}
  /\ g_timeouts' = RemoveAt(g_timeouts, FirstMatch(g_timeouts, h, c))
  /\ withdrawn' = withdrawn + 1
  /\ Wakes(TRUE)
  /\ UNCHANGED <<g_initialized, g_terminate, now, runner, counters, insertions>>

\* eloop_deplete_timeout brings the first match forward, eloop_replenish_timeout
\* puts it off; a deadline that is good enough already stays, without a wake-up.
Update(h, c, d, deplete) ==
  /\ ClientMayCall
  /\ insertions < MaxInsertions
  /\ MatchesAt(g_timeouts, h, c) # {}
  /\ LET p         == FirstMatch(g_timeouts, h, c)
         requested == SaturatingAdd(now, d)
     IN  /\ IF deplete THEN g_timeouts[p].deadline > requested
                       ELSE g_timeouts[p].deadline < requested
         /\ g_timeouts' = Insert(RemoveAt(g_timeouts, p),
                            [g_timeouts[p] EXCEPT !.deadline = requested,
                                                  !.stamp = insertions])
  /\ insertions' = insertions + 1
  /\ Wakes(TRUE)
  /\ UNCHANGED <<g_initialized, g_terminate, now, runner, counters, withdrawn>>

Terminate ==
  /\ ClientMayCall
  /\ g_terminate' = TRUE
  /\ Wakes(TRUE)
  /\ UNCHANGED <<g_initialized, g_timeouts, now, runner, counters, withdrawn,
                 insertions>>

\* Called by wpa_supplicant_deinit and hisi_wpa_ap_stop, never by a handler.
Destroy ==
  /\ pc # "handler" /\ ClientMayCall
  /\ g_initialized
  /\ withdrawn' = withdrawn + Len(g_timeouts)
  /\ g_timeouts' = <<>>
  /\ g_initialized' = FALSE
  /\ g_terminate' = FALSE
  /\ UNCHANGED <<now, runner, woken, counters, insertions>>

EloopWake ==
  /\ ~woken
  /\ Wakes(TRUE)
  /\ UNCHANGED <<g_initialized, g_terminate, g_timeouts, now, runner, counters,
                 withdrawn, insertions>>

--------------------------------------------------------------------------------
(* The runner *)

Enter(which, work) ==
  /\ pc' = "loop"
  /\ loop' = which
  /\ budget' = work
  /\ UNCHANGED wake_at

\* eloop_run starts unless it has been told to terminate.
StartRun ==
  /\ pc = "idle" /\ ~g_terminate
  /\ Enter("run", Forever)
  /\ UNCHANGED <<g_initialized, g_terminate, g_timeouts, now, woken, counters,
                 withdrawn, insertions>>

\* The runner outside the repository polls again when it was woken or when
\* next_deadline_ms has come.
Poll(work) ==
  /\ \/ pc = "idle"
     \/ pc = "waiting" /\ loop = "poll"
        /\ (woken \/ (wake_at # Forever /\ now >= wake_at))
  /\ Enter("poll", work)
  /\ woken' = FALSE
  /\ UNCHANGED <<g_initialized, g_terminate, g_timeouts, now, counters,
                 withdrawn, insertions>>

Working == pc = "loop" /\ g_initialized /\ budget # 0 /\ g_timeouts # <<>>

StillLinked == g_timeouts   \* faulty variant: the timer stays on the list
Unlinked    == Tail(g_timeouts)

\* One iteration of run_once up to the call of the handler, whose timer is off
\* the list and freed by then.
RunOne ==
  /\ Working
  /\ Head(g_timeouts).deadline <= now
  /\ g_timeouts' = Unlinked
  /\ pc' = "handler"
  /\ UNCHANGED <<g_initialized, g_terminate, now, loop, budget, wake_at, woken,
                 counters, withdrawn, insertions>>

HandlerReturns ==
  /\ pc = "handler"
  /\ g_timeout_executions' = g_timeout_executions + 1
  /\ budget' = IF budget = Forever THEN budget ELSE budget - 1
  /\ pc' = "loop"
  /\ UNCHANGED <<g_initialized, g_terminate, g_timeouts, now, loop, wake_at,
                 woken, g_timeout_registrations, withdrawn, insertions>>

LeaveLoop ==
  /\ pc = "loop"
  /\ pc' = "after"
  /\ UNCHANGED <<g_initialized, g_terminate, g_timeouts, now, loop, budget,
                 wake_at, woken, counters, withdrawn, insertions>>

RunOnceEnds == (Working => Head(g_timeouts).deadline > now) /\ LeaveLoop

ClockFails  == OsMayFail /\ Working /\ LeaveLoop

NextDeadline == IF g_timeouts = <<>> THEN U64Max ELSE Head(g_timeouts).deadline

WaitUntil(t) ==
  /\ pc' = "waiting"
  /\ wake_at' = t
  /\ UNCHANGED <<g_initialized, g_terminate, g_timeouts, now, loop, budget,
                 woken, counters, withdrawn, insertions>>

\* What hisi_wpa_poll returns as next_deadline_ms, in microseconds.
PollReturns ==
  /\ pc = "after" /\ loop = "poll"
  /\ WaitUntil(IF NextDeadline = U64Max THEN Forever
               ELSE CeilingMs(NextDeadline) * PerMs)

\* eloop_run waits for the remaining milliseconds, at most WaitMax of them.
RunWaits ==
  /\ pc = "after" /\ loop = "run" /\ ~g_terminate
  /\ LET remaining == IF NextDeadline > now THEN NextDeadline - now ELSE 0
         ms        == CeilingMs(remaining)
     IN  WaitUntil(IF NextDeadline = U64Max \/ ms >= WaitMax THEN Forever
                   ELSE now + ms * PerMs)

Stop ==
  /\ pc' = "idle"
  /\ UNCHANGED <<g_initialized, g_terminate, g_timeouts, now, loop, budget,
                 wake_at, woken, counters, withdrawn, insertions>>

RunStops ==
  /\ loop = "run"
  /\ \/ pc = "after" /\ g_terminate
     \/ OsMayFail /\ pc \in {"after", "waiting"}
  /\ Stop

WaitReturns ==
  /\ pc = "waiting" /\ loop = "run"
  /\ woken \/ (wake_at # Forever /\ now >= wake_at)
  /\ woken' = FALSE
  /\ IF g_terminate
     THEN pc' = "idle" /\ UNCHANGED <<loop, budget, wake_at>>
     ELSE Enter("run", Forever)
  /\ UNCHANGED <<g_initialized, g_terminate, g_timeouts, now, counters,
                 withdrawn, insertions>>

Tick ==
  /\ now < MaxTime
  /\ now' = now + 1
  /\ UNCHANGED <<g_initialized, g_terminate, g_timeouts, runner, woken, counters,
                 withdrawn, insertions>>

--------------------------------------------------------------------------------
RunnerStep ==
  \/ RunOne \/ HandlerReturns \/ RunOnceEnds \/ ClockFails
  \/ PollReturns \/ RunWaits \/ RunStops \/ WaitReturns

Client ==
  \/ EloopInit \/ Terminate \/ Destroy \/ EloopWake
  \/ \E h \in Handlers, c \in Contexts, d \in Delays : Register(h, c, d)
  \/ \E h \in Handlers, c \in Contexts \cup {AllContexts} :
       Cancel(h, c) \/ CancelOne(h, c)
  \/ \E h \in Handlers, c \in Contexts, d \in Delays, deplete \in BOOLEAN :
       Update(h, c, d, deplete)

Next == RunnerStep \/ Client \/ StartRun \/ Tick \/ \E w \in Budgets : Poll(w)

Spec == Init /\ [][Next]_vars

\* Time passes, the runner takes its steps, handlers return, the wait hook
\* returns when it should, and the outside runner polls again with some work
\* to spend when it is woken or its deadline has come.
Fairness ==
  /\ WF_vars(RunnerStep)
  /\ WF_vars(Tick)
  /\ SF_vars(\E w \in Budgets \ {0} : Poll(w))

FairSpec == Spec /\ Fairness

--------------------------------------------------------------------------------
(* Every variable keeps its range; a deadline never exceeds UINT64_MAX.    *)
TypeOK ==
  /\ g_initialized \in BOOLEAN /\ g_terminate \in BOOLEAN /\ woken \in BOOLEAN
  /\ \A i \in 1 .. Len(g_timeouts) :
       /\ g_timeouts[i].deadline \in 0 .. U64Max
       /\ g_timeouts[i].handler \in Handlers
       /\ g_timeouts[i].context \in Contexts
  /\ now \in 0 .. MaxTime
  /\ pc \in {"idle", "loop", "handler", "after", "waiting"}
  /\ loop \in {"run", "poll"}
  /\ budget \in Nat \cup {Forever}
  /\ wake_at \in Nat \cup {Forever}

(* The list is ordered by deadline, and timers with equal deadlines are in *)
(* the order in which they were registered or rescheduled: a zero-delay    *)
(* timer never overtakes one that is due already                           *)
(* (eloop_hisi_rtos.c:55-62, 212-214).                                     *)
OldestFirst ==
  \A i, j \in 1 .. Len(g_timeouts) :
    i < j => \/ g_timeouts[i].deadline < g_timeouts[j].deadline
             \/ /\ g_timeouts[i].deadline = g_timeouts[j].deadline
                /\ g_timeouts[i].stamp < g_timeouts[j].stamp

(* The list is one of timers, in order (eloop_hisi_rtos.c:41-66).          *)
ListSound == TypeOK /\ OldestFirst

(* Every registered timer is pending, being run, run once, cancelled or    *)
(* destroyed, and never two of these: no handler runs twice or after its   *)
(* cancellation (eloop_hisi_rtos.c:133-151, 255-278, 332-341).             *)
EachTimerOnce ==
  g_timeout_registrations =
    Len(g_timeouts) + (IF pc = "handler" THEN 1 ELSE 0)
      + g_timeout_executions + withdrawn

(* A sleep that nothing has interrupted never ends a millisecond or more   *)
(* after the earliest deadline, nor before it, which would make the runner *)
(* spin.  The exception are deadlines of the last 998 microseconds before  *)
(* UINT64_MAX: the sum in CeilingMs wraps, the wait is over at once, and   *)
(* the runner does spin.  A wait without an end is started only when       *)
(* nothing is pending, when the earliest deadline is saturated, or, in     *)
(* eloop_run, when it is UINT32_MAX milliseconds away, which the hook      *)
(* takes for ever                                                          *)
(* (eloop_hisi_rtos.c:309-322, supplicant_ws63.c:728-730,                  *)
(* authenticator_ws63.c:230-232).                                          *)
SleepMeetsDeadline ==
  (pc = "waiting" /\ ~woken /\ g_timeouts # <<>>) =>
    LET due == Head(g_timeouts).deadline
    IN  IF wake_at # Forever
        THEN /\ due >= now => wake_at < due + PerMs
             /\ wake_at >= due \/ (SumWraps(due) /\ wake_at <= now)
        ELSE \/ due = U64Max
             \/ loop = "run" /\ due > (WaitMax - 1) * PerMs

(* When run_once comes back with work budget left and the clock working,   *)
(* no pending timer is due: none is hidden behind a later one.             *)
NothingDueLeftBehind ==
  [][(pc = "loop" /\ pc' = "after" /\ g_initialized /\ budget # 0
        /\ ~OsMayFail)
     => \A i \in 1 .. Len(g_timeouts) : g_timeouts[i].deadline > now]_vars

(* Under the outside runner's promise to poll again, and with eloop_run    *)
(* left to itself, every pending timer within the horizon is run or        *)
(* withdrawn: no registration is slept through and no timer is starved by  *)
(* newer ones.                                                             *)
Pending(s) ==
  \E i \in 1 .. Len(g_timeouts) :
    g_timeouts[i].stamp = s /\ g_timeouts[i].deadline + PerMs <= MaxTime

TimersResolve ==
  \A s \in 0 .. MaxInsertions - 1 :
    Pending(s) ~> (~Pending(s) \/ pc = "idle")
================================================================================
