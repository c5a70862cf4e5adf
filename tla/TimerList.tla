------------------------------- MODULE TimerList -------------------------------
(***************************************************************************)
(* The linked list of struct hisi_timeout as a sequence, earliest deadline *)
(* first, and the operations that eloop_hisi_rtos.c makes on it.  A timer  *)
(* is a record with at least the fields deadline, handler and context; the *)
(* two context pointers of the code are one value here, with one wildcard. *)
(***************************************************************************)
EXTENDS Lists

CONSTANT AllContexts  (* ELOOP_ALL_CTX *)

Matches(timer, handler, context) ==
  /\ timer.handler = handler
  /\ context = AllContexts \/ timer.context = context

\* The place after the last timer of the leading run with deadline <= d.
PlaceFor(list, d) ==
  CHOOSE p \in 1 .. Len(list) + 1 :
    /\ \A j \in 1 .. p - 1 : list[j].deadline <= d
    /\ p <= Len(list) => list[p].deadline > d

InsertBeforeEquals(list, timer) ==   \* faulty variant: compares with < only
  PutAt(list,
        CHOOSE p \in 1 .. Len(list) + 1 :
          /\ \A j \in 1 .. p - 1 : list[j].deadline < timer.deadline
          /\ p <= Len(list) => list[p].deadline >= timer.deadline,
        timer)

InsertAtEnd(list, timer) == Append(list, timer)   \* faulty variant: unsorted

Insert(list, timer) == PutAt(list, PlaceFor(list, timer.deadline), timer)

MatchesAt(list, handler, context) ==
  {p \in 1 .. Len(list) : Matches(list[p], handler, context)}

FirstMatch(list, handler, context) ==
  CHOOSE p \in MatchesAt(list, handler, context) :
    \A q \in MatchesAt(list, handler, context) : p <= q

RemoveAll(list, handler, context) ==
  Picked(list, (1 .. Len(list)) \ MatchesAt(list, handler, context))
================================================================================
