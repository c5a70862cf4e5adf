--------------------------------- MODULE Lists ---------------------------------
(***************************************************************************)
(* Sequences as lists that elements are put into and picked or removed     *)
(* from by their place.                                                    *)
(***************************************************************************)
EXTENDS Naturals, Sequences

PutAt(list, p, x) == SubSeq(list, 1, p - 1) \o <<x>> \o SubSeq(list, p, Len(list))

RemoveAt(list, p) == SubSeq(list, 1, p - 1) \o SubSeq(list, p + 1, Len(list))

\* The elements of a list at some of its places, in their order.
Picked(list, places) ==
  LET picked[n \in 0 .. Len(list)] ==
        IF n = 0 THEN <<>>
        ELSE IF n \in places THEN Append(picked[n - 1], list[n])
        ELSE picked[n - 1]
  IN  picked[Len(list)]

\* The sum of the first n values.
SumUpTo(f, n) ==
  LET sum[i \in 0 .. n] == IF i = 0 THEN 0 ELSE sum[i - 1] + f[i]
  IN  sum[n]
================================================================================
