------------------------------ MODULE Collections ------------------------------
(* What the proofs need to know of numbers, finite sets and lists: induction up  *)
(* to a number, the size of a set with one element more or less, and what is     *)
(* left of a list from which some places were picked, and what adds up to a sum. *)
EXTENDS Lists, Integers, FiniteSetTheorems, SequenceTheorems, WellFoundedInduction,
        TLAPS

\* A set of natural numbers that is not empty has a least element.
LEMMA LeastElement ==
  ASSUME NEW S \in SUBSET Nat, S # {}
  PROVE  \E m \in S : \A n \in S : m <= n
<1>1. \E m \in S : \A n \in S : ~(<<n, m>> \in OpToRel(<, Nat))
  BY NatLessThanWellFounded, WFMin, Zenon
<1>2. OpToRel(<, Nat) = {ss \in Nat \X Nat : ss[1] < ss[2]}
  BY Zenon DEF OpToRel
<1>3. PICK m \in S : \A n \in S : ~(<<n, m>> \in OpToRel(<, Nat))
  BY <1>1, Zenon
<1>4. ASSUME NEW n \in S PROVE m <= n
  <2>1. <<n, m>> \notin {ss \in Nat \X Nat : ss[1] < ss[2]}
    BY <1>2, <1>3, Zenon
  <2>2. n \in Nat /\ m \in Nat
    OBVIOUS
  <2>3. QED
    BY <2>1, <2>2
<1>5. QED
  BY <1>4

\* What holds of zero, and of a successor whenever it holds of the number before,
\* holds of every number up to a bound.
LEMMA InductionUpTo ==
  ASSUME NEW bound \in Nat, NEW Good, 0 \in Good,
         \A n \in 0 .. bound : n \in Good /\ n < bound => n + 1 \in Good
  PROVE  \A n \in 0 .. bound : n \in Good
<1> DEFINE Bad == {n \in 0 .. bound : n \notin Good}
<1>1. SUFFICES ASSUME Bad # {} PROVE FALSE
  OBVIOUS
<1>2. Bad \in SUBSET Nat
  OBVIOUS
<1>3. PICK m \in Bad : \A n \in Bad : m <= n
  BY <1>1, <1>2, LeastElement
<1>4. m # 0 /\ m \in 0 .. bound
  OBVIOUS
<1>5. m - 1 \in 0 .. bound /\ m - 1 < bound /\ m - 1 + 1 = m
  BY <1>4
<1>6. m - 1 \in Good
  BY <1>3, <1>5
<1>7. QED
  BY <1>3, <1>5, <1>6

\* A user that appears adds one to the size of a finite set of users.
LEMMA UserAdded ==
  ASSUME NEW S, NEW x, IsFiniteSet(S), x \notin S
  PROVE  /\ IsFiniteSet(S \cup {x})
         /\ Cardinality(S) \in Nat
         /\ Cardinality(S \cup {x}) = Cardinality(S) + 1
BY FS_AddElement, FS_CardinalityType

\* A user that goes away takes one, and there was at least one.
LEMMA UserRemoved ==
  ASSUME NEW S, NEW x, IsFiniteSet(S), x \in S
  PROVE  /\ IsFiniteSet(S \ {x})
         /\ Cardinality(S) \in Nat
         /\ Cardinality(S) # 0
         /\ Cardinality(S \ {x}) = Cardinality(S) - 1
BY FS_RemoveElement, FS_CardinalityType, FS_EmptySet

--------------------------------------------------------------------------------
\* What a list holds that is one element longer.
LEMMA AppendFacts ==
  ASSUME NEW S, NEW q \in Seq(S), NEW x \in S
  PROVE  /\ Append(q, x) \in Seq(S) /\ Len(Append(q, x)) = Len(q) + 1
         /\ \A i \in 1 .. Len(q) : Append(q, x)[i] = q[i]
         /\ Append(q, x)[Len(q) + 1] = x
OBVIOUS

\* What a list holds once an element was put at one of its places.
IsPut(S, q, p, x, more) ==
  /\ more \in Seq(S) /\ Len(more) = Len(q) + 1
  /\ \A i \in 1 .. p - 1 : more[i] = q[i]
  /\ more[p] = x
  /\ \A i \in p .. Len(q) : more[i + 1] = q[i]

LEMMA PutAtFacts ==
  ASSUME NEW S, NEW q \in Seq(S), NEW x \in S, NEW p \in 1 .. Len(q) + 1
  PROVE  IsPut(S, q, p, x, PutAt(q, p, x))
<1> DEFINE front == SubSeq(q, 1, p - 1)
           back  == SubSeq(q, p, Len(q))
           most  == front \o <<x>>
<1>1. Len(q) \in Nat /\ p \in Int /\ \A i \in 1 .. Len(q) : q[i] \in S
  OBVIOUS
<1>2. front \in Seq(S) /\ Len(front) = p - 1 /\ \A i \in 1 .. p - 1 : front[i] = q[i]
  OBVIOUS
<1>3. /\ back \in Seq(S) /\ Len(back) = Len(q) + 1 - p
      /\ \A i \in 1 .. Len(q) + 1 - p : back[i] = q[p + i - 1]
  OBVIOUS
<1>4. PutAt(q, p, x) = most \o back
  BY DEF PutAt
<1> HIDE DEF front, back
<1>5. /\ most \in Seq(S) /\ Len(most) = p /\ most[p] = x
      /\ \A i \in 1 .. p - 1 : most[i] = q[i]
  <2>1. <<x>> \in Seq(S) /\ Len(<<x>>) = 1 /\ <<x>>[1] = x
    OBVIOUS
  <2>2. /\ front \o <<x>> \in Seq(S) /\ Len(front \o <<x>>) = Len(front) + Len(<<x>>)
        /\ \A i \in 1 .. Len(front) + Len(<<x>>) : (front \o <<x>>)[i] =
             IF i <= Len(front) THEN front[i] ELSE <<x>>[i - Len(front)]
    BY <1>2, <2>1, ConcatProperties, Zenon
  <2>3. QED
    BY <1>1, <1>2, <2>1, <2>2
<1> HIDE DEF most
<1>6. /\ most \o back \in Seq(S) /\ Len(most \o back) = Len(q) + 1
      /\ \A i \in 1 .. Len(q) + 1 :
           (most \o back)[i] = IF i <= p THEN most[i] ELSE back[i - p]
  <2>1. /\ most \o back \in Seq(S) /\ Len(most \o back) = Len(most) + Len(back)
        /\ \A i \in 1 .. Len(most) + Len(back) :
             (most \o back)[i] = IF i <= Len(most) THEN most[i] ELSE back[i - Len(most)]
    BY <1>3, <1>5, ConcatProperties, Zenon
  <2>2. Len(most) + Len(back) = Len(q) + 1
    BY <1>1, <1>3, <1>5
  <2>3. QED
    BY <1>5, <2>1, <2>2, Zenon
<1>7. \A i \in p .. Len(q) : (most \o back)[i + 1] = q[i]
  <2> TAKE i \in p .. Len(q)
  <2>1. i + 1 - p \in 1 .. Len(q) + 1 - p /\ p + (i + 1 - p) - 1 = i
    BY <1>1
  <2>2. (most \o back)[i + 1] = back[i + 1 - p]
    BY <1>1, <1>6
  <2>3. QED
    BY <1>3, <2>1, <2>2
<1>8. QED
  BY <1>1, <1>4, <1>5, <1>6, <1>7 DEF IsPut

\* What it holds once one of its places was taken out.
LEMMA RemoveAtFacts ==
  ASSUME NEW S, NEW q \in Seq(S), NEW p \in 1 .. Len(q)
  PROVE  /\ RemoveAt(q, p) \in Seq(S) /\ Len(RemoveAt(q, p)) = Len(q) - 1
         /\ \A i \in 1 .. p - 1 : RemoveAt(q, p)[i] = q[i]
         /\ \A i \in p .. Len(q) - 1 : RemoveAt(q, p)[i] = q[i + 1]
<1> DEFINE front == SubSeq(q, 1, p - 1)
           back  == SubSeq(q, p + 1, Len(q))
<1>1. Len(q) \in Nat /\ p \in Int
  OBVIOUS
<1>2. front \in Seq(S) /\ Len(front) = p - 1 /\ \A i \in 1 .. p - 1 : front[i] = q[i]
  OBVIOUS
<1>3. /\ back \in Seq(S) /\ Len(back) = Len(q) - p
      /\ \A i \in 1 .. Len(q) - p : back[i] = q[p + i]
  OBVIOUS
<1>4. RemoveAt(q, p) = front \o back
  BY DEF RemoveAt
<1> HIDE DEF front, back
<1>5. /\ front \o back \in Seq(S) /\ Len(front \o back) = Len(q) - 1
      /\ \A i \in 1 .. Len(q) - 1 :
           (front \o back)[i] = IF i <= p - 1 THEN front[i] ELSE back[i - (p - 1)]
  <2>1. /\ front \o back \in Seq(S) /\ Len(front \o back) = Len(front) + Len(back)
        /\ \A i \in 1 .. Len(front) + Len(back) :
             (front \o back)[i] = IF i <= Len(front) THEN front[i]
                                  ELSE back[i - Len(front)]
    BY <1>2, <1>3, ConcatProperties, Zenon
  <2>2. Len(front) + Len(back) = Len(q) - 1
    BY <1>1, <1>2, <1>3
  <2>3. QED
    BY <1>2, <2>1, <2>2, Zenon
<1>6. \A i \in p .. Len(q) - 1 : (front \o back)[i] = q[i + 1]
  <2> TAKE i \in p .. Len(q) - 1
  <2>1. i + 1 - p \in 1 .. Len(q) - p /\ p + (i + 1 - p) = i + 1
    BY <1>1
  <2>2. (front \o back)[i] = back[i + 1 - p]
    <3>1. i \in 1 .. Len(q) - 1 /\ ~(i <= p - 1) /\ i - (p - 1) = i + 1 - p
      BY <1>1
    <3>2. QED
      BY <1>5, <3>1, Zenon
  <2>3. QED
    BY <1>3, <2>1, <2>2
<1>7. \A i \in 1 .. p - 1 : (front \o back)[i] = q[i]
  <2>1. \A i \in 1 .. p - 1 : i \in 1 .. Len(q) - 1 /\ i <= p - 1
    BY <1>1
  <2>2. QED
    BY <1>2, <1>5, <2>1, Zenon
<1>8. QED
  BY <1>4, <1>5, <1>6, <1>7, Zenon

\* The leading run of places that are in a set ends somewhere.
LEMMA LeadingRun ==
  ASSUME NEW n \in Nat, NEW S
  PROVE  \E p \in 1 .. n + 1 : (\A j \in 1 .. p - 1 : j \in S) /\ (p <= n => p \notin S)
<1> DEFINE Out == {p \in 1 .. n + 1 : p \in S => p = n + 1}
<1>1. Out # {} /\ Out \in SUBSET Nat
  <2>1. n + 1 \in Out
    OBVIOUS
  <2>2. QED
    BY <2>1
<1>2. PICK p \in Out : \A q \in Out : p <= q
  BY <1>1, LeastElement
<1>3. ASSUME NEW j \in 1 .. p - 1 PROVE j \in S
  <2>1. j \notin Out /\ j \in 1 .. n + 1
    BY <1>2
  <2>2. QED
    BY <2>1
<1>4. QED
  BY <1>2, <1>3

\* Places that rise are not more than there are.
LEMMA RisingLength ==
  ASSUME NEW k \in Nat, NEW n \in Nat, NEW from \in [1 .. k -> 1 .. n],
         \A i, j \in 1 .. k : i < j => from[i] < from[j]
  PROVE  k <= n
<1> DEFINE Good == {i \in 0 .. k : i # 0 => from[i] >= i}
<1>1. 0 \in Good
  OBVIOUS
<1>2. ASSUME NEW i \in 0 .. k, i \in Good, i < k PROVE i + 1 \in Good
  <2>1. i + 1 \in 1 .. k /\ from[i + 1] \in 1 .. n
    BY <1>2
  <2>2. CASE i = 0
    BY <2>1, <2>2
  <2>3. CASE i # 0
    <3>1. i \in 1 .. k /\ from[i] \in 1 .. n /\ from[i] < from[i + 1]
      BY <2>1, <2>3, <1>2
    <3>2. QED
      BY <1>2, <2>1, <2>3, <3>1
  <2>4. QED
    BY <2>2, <2>3
<1> HIDE DEF Good
<1>3. \A i \in 0 .. k : i \in Good
  BY <1>1, <1>2, InductionUpTo, Zenon
<1>4. k \in Good
  BY <1>3
<1>5. k # 0 => from[k] >= k /\ from[k] \in 1 .. n
  BY <1>4 DEF Good
<1>6. QED
  BY <1>5

\* What the first n places of a list leave, as a function of n.
Prefixes(list, places, f, bound) ==
  f = [n \in 0 .. bound |-> IF n = 0 THEN <<>>
                            ELSE IF n \in places THEN Append(f[n - 1], list[n])
                            ELSE f[n - 1]]

LEMMA PrefixesExist ==
  ASSUME NEW list, NEW places, NEW bound \in Nat
  PROVE  \E f : Prefixes(list, places, f, bound)
<1> DEFINE Good == {n \in 0 .. bound : \E f : Prefixes(list, places, f, n)}
<1>1. 0 \in Good
  <2> DEFINE g == [n \in 0 .. 0 |-> <<>>]
  <2>1. Prefixes(list, places, g, 0)
    BY DEF Prefixes
  <2>2. QED
    BY <2>1
<1>2. ASSUME NEW n \in 0 .. bound, n \in Good, n < bound PROVE n + 1 \in Good
  <2>1. PICK f : Prefixes(list, places, f, n)
    BY <1>2
  <2>2. \A i \in 0 .. n : f[i] = IF i = 0 THEN <<>>
                                 ELSE IF i \in places THEN Append(f[i - 1], list[i])
                                 ELSE f[i - 1]
    BY <2>1 DEF Prefixes
  <2> DEFINE g == [i \in 0 .. n + 1 |->
                     IF i <= n THEN f[i]
                     ELSE IF n + 1 \in places THEN Append(f[n], list[n + 1])
                     ELSE f[n]]
  <2>3. ASSUME NEW i \in 0 .. n + 1
        PROVE  g[i] = IF i = 0 THEN <<>>
                      ELSE IF i \in places THEN Append(g[i - 1], list[i])
                      ELSE g[i - 1]
    <3>1. CASE i <= n
      <4>1. i \in 0 .. n /\ (i # 0 => i - 1 \in 0 .. n)
        BY <3>1
      <4>2. QED
        BY <2>2, <3>1, <4>1
    <3>2. CASE i = n + 1
      BY <3>2
    <3>3. QED
      BY <3>1, <3>2
  <2>4. Prefixes(list, places, g, n + 1)
    <3>1. g = [i \in 0 .. n + 1 |-> g[i]]
      OBVIOUS
    <3> HIDE DEF g
    <3>2. QED
      BY <2>3, <3>1 DEF Prefixes
  <2>5. QED
    BY <1>2, <2>4
<1> HIDE DEF Good
<1>3. bound \in Good
  BY <1>1, <1>2, InductionUpTo
<1>4. QED
  BY <1>3 DEF Good

\* Picked is the value of such a function at the end of the list.
PickedBy(list, places, f) ==
  /\ Picked(list, places) = f[Len(list)]
  /\ f[0] = <<>>
  /\ \A n \in 1 .. Len(list) :
       f[n] = IF n \in places THEN Append(f[n - 1], list[n]) ELSE f[n - 1]

LEMMA PickedPrefixes ==
  ASSUME NEW S, NEW list \in Seq(S), NEW places
  PROVE  \E f : PickedBy(list, places, f)
<1> DEFINE F == CHOOSE f : Prefixes(list, places, f, Len(list))
<1>1. Len(list) \in Nat
  OBVIOUS
<1>2. Prefixes(list, places, F, Len(list))
  BY <1>1, PrefixesExist, Zenon
<1>3. Picked(list, places) = F[Len(list)]
  BY DEF Picked, Prefixes
<1> HIDE DEF F
<1>4. \A n \in 0 .. Len(list) :
        F[n] = IF n = 0 THEN <<>>
               ELSE IF n \in places THEN Append(F[n - 1], list[n])
               ELSE F[n - 1]
  BY <1>2 DEF Prefixes
<1>5. PickedBy(list, places, F)
  BY <1>1, <1>3, <1>4 DEF PickedBy
<1>6. QED
  BY <1>5, Zenon

\* What is left of the first n places of a list: the i-th element that is left
\* stood at the place from[i], and no place that is picked was skipped.
LeftOf(list, places, n, left, from) ==
  /\ from \in [1 .. Len(left) -> 1 .. n]
  /\ \A i \in 1 .. Len(left) : from[i] \in places /\ left[i] = list[from[i]]
  /\ \A i, j \in 1 .. Len(left) : i < j => from[i] < from[j]
  /\ \A p \in 1 .. n : p \in places => \E i \in 1 .. Len(left) : from[i] = p

LEMMA LeftOfNothing ==
  ASSUME NEW list, NEW places
  PROVE  \E from : LeftOf(list, places, 0, <<>>, from)
<1> DEFINE none == [i \in {} |-> i]
<1>1. 1 .. 0 = {} /\ Len(<<>>) = 0
  OBVIOUS
<1>2. none \in [1 .. Len(<<>>) -> 1 .. 0]
  BY <1>1, Zenon
<1> HIDE DEF none
<1>3. LeftOf(list, places, 0, <<>>, none)
  BY <1>1, <1>2 DEF LeftOf
<1>4. QED
  BY <1>3

\* A place that is not picked leaves what was left.
LEMMA LeftOfSkipped ==
  ASSUME NEW S, NEW list, NEW places, NEW n \in Nat, NEW left \in Seq(S), NEW from,
         LeftOf(list, places, n, left, from), n + 1 \notin places
  PROVE  LeftOf(list, places, n + 1, left, from)
<1>1. \A i \in 1 .. Len(left) : from[i] \in 1 .. n + 1
  BY DEF LeftOf
<1>2. from \in [1 .. Len(left) -> 1 .. n + 1]
  BY <1>1 DEF LeftOf
<1>3. \A p \in 1 .. n + 1 : p \in places => p \in 1 .. n
  OBVIOUS
<1>4. QED
  BY <1>2, <1>3 DEF LeftOf

\* A place that is picked adds its element at the end.
LEMMA LeftOfPicked ==
  ASSUME NEW S, NEW list, NEW places, NEW n \in Nat, NEW left \in Seq(S), NEW from,
         LeftOf(list, places, n, left, from), n + 1 \in places, list[n + 1] \in S
  PROVE  \E next : LeftOf(list, places, n + 1, Append(left, list[n + 1]), next)
<1> DEFINE k == Len(left)
           next == [i \in 1 .. k + 1 |-> IF i = k + 1 THEN n + 1 ELSE from[i]]
           longer == Append(left, list[n + 1])
<1>1. k \in Nat
  OBVIOUS
<1>2. /\ Len(longer) = k + 1 /\ longer[k + 1] = list[n + 1]
      /\ \A i \in 1 .. k : longer[i] = left[i]
  BY AppendFacts
<1>3. /\ \A i \in 1 .. k : from[i] \in 1 .. n /\ from[i] \in places /\ left[i] = list[from[i]]
      /\ \A i, j \in 1 .. k : i < j => from[i] < from[j]
      /\ \A p \in 1 .. n : p \in places => \E i \in 1 .. k : from[i] = p
  BY DEF LeftOf
<1> HIDE DEF k, longer
<1>4. /\ k + 1 \in 1 .. k + 1
      /\ \A i \in 1 .. k + 1 : i = k + 1 \/ (i \in 1 .. k /\ i < k + 1)
      /\ \A i \in 1 .. k : i \in 1 .. k + 1 /\ i # k + 1
  BY <1>1
<1>5. next[k + 1] = n + 1 /\ \A i \in 1 .. k : next[i] = from[i]
  BY <1>4
<1>6. next \in [1 .. k + 1 -> 1 .. n + 1]
  <2>1. n + 1 \in 1 .. n + 1 /\ \A i \in 1 .. k : from[i] \in 1 .. n + 1
    BY <1>3
  <2>2. \A i \in 1 .. k + 1 : (IF i = k + 1 THEN n + 1 ELSE from[i]) \in 1 .. n + 1
    BY <1>4, <2>1, Zenon
  <2>3. QED
    BY <2>2, Zenon
<1> HIDE DEF next
<1>7. \A i \in 1 .. k + 1 : next[i] \in places /\ longer[i] = list[next[i]]
  BY <1>2, <1>3, <1>4, <1>5, Zenon
<1>8. ASSUME NEW i \in 1 .. k + 1, NEW j \in 1 .. k + 1, i < j
      PROVE  next[i] < next[j]
  <2>1. i \in 1 .. k
    BY <1>1, <1>8
  <2>2. CASE j = k + 1
    BY <1>3, <1>5, <2>1, <2>2
  <2>3. CASE j \in 1 .. k
    BY <1>3, <1>5, <1>8, <2>1, <2>3
  <2>4. QED
    BY <1>4, <2>2, <2>3
<1>9. ASSUME NEW p \in 1 .. n + 1, p \in places
      PROVE  \E i \in 1 .. k + 1 : next[i] = p
  <2>1. CASE p = n + 1
    BY <1>4, <1>5, <2>1, Zenon
  <2>2. CASE p # n + 1
    <3>1. p \in 1 .. n
      BY <2>2
    <3>2. QED
      BY <1>3, <1>4, <1>5, <1>9, <3>1, Zenon
  <2>3. QED
    BY <2>1, <2>2
<1>10. LeftOf(list, places, n + 1, longer, next)
  BY <1>2, <1>6, <1>7, <1>8, <1>9, Zenon DEF LeftOf
<1>11. QED
  BY <1>10 DEF longer

\* What is picked from a list is left of the whole of it.
LEMMA PickedOrder ==
  ASSUME NEW S, NEW list \in Seq(S), NEW places
  PROVE  /\ Picked(list, places) \in Seq(S)
         /\ \E from : LeftOf(list, places, Len(list), Picked(list, places), from)
<1>0. PICK f : PickedBy(list, places, f)
  BY PickedPrefixes, Zenon
<1>1. /\ Picked(list, places) = f[Len(list)]
      /\ f[0] = <<>>
      /\ \A n \in 1 .. Len(list) :
           f[n] = IF n \in places THEN Append(f[n - 1], list[n]) ELSE f[n - 1]
  BY <1>0, Zenon DEF PickedBy
<1> DEFINE Good == {n \in 0 .. Len(list) :
                      f[n] \in Seq(S) /\ \E from : LeftOf(list, places, n, f[n], from)}
<1>2. Len(list) \in Nat /\ 0 \in 0 .. Len(list) /\ Len(list) \in 0 .. Len(list)
  OBVIOUS
<1>3. 0 \in Good
  <2>1. f[0] \in Seq(S)
    BY <1>1
  <2>2. QED
    BY <1>1, <1>2, <2>1, LeftOfNothing, Zenon
<1>4. ASSUME NEW n \in 0 .. Len(list), n \in Good, n < Len(list)
      PROVE  n + 1 \in Good
  <2>1. PICK from : LeftOf(list, places, n, f[n], from)
    BY <1>4, Zenon
  <2>2. /\ n \in Nat /\ n + 1 \in 1 .. Len(list) /\ n + 1 \in 0 .. Len(list)
        /\ n + 1 - 1 = n /\ list[n + 1] \in S
    BY <1>4
  <2>3. f[n] \in Seq(S)
    BY <1>4, Zenon
  <2>4. f[n + 1] = IF n + 1 \in places THEN Append(f[n], list[n + 1]) ELSE f[n]
    <3>1. PICK m \in 1 .. Len(list) : m = n + 1
      BY <2>2
    <3>2. m - 1 = n
      BY <2>2, <3>1
    <3>3. f[m] = IF m \in places THEN Append(f[m - 1], list[m]) ELSE f[m - 1]
      BY <1>1, Zenon
    <3>4. QED
      BY <3>1, <3>2, <3>3, Zenon
  <2>5. CASE n + 1 \notin places
    BY <2>1, <2>2, <2>3, <2>4, <2>5, LeftOfSkipped, Zenon
  <2>6. CASE n + 1 \in places
    <3>1. f[n + 1] \in Seq(S)
      <4>1. f[n + 1] = Append(f[n], list[n + 1])
        BY <2>4, <2>6, Zenon
      <4>2. Append(f[n], list[n + 1]) \in Seq(S)
        BY <2>2, <2>3, AppendFacts, Zenon
      <4>3. QED
        BY <4>1, <4>2, Zenon
    <3>2. \E next : LeftOf(list, places, n + 1, f[n + 1], next)
      <4>1. f[n + 1] = Append(f[n], list[n + 1])
        BY <2>4, <2>6, Zenon
      <4>2. \E next : LeftOf(list, places, n + 1, Append(f[n], list[n + 1]), next)
        BY <2>1, <2>2, <2>3, <2>6, LeftOfPicked, Zenon
      <4>3. QED
        BY <4>1, <4>2, Zenon
    <3>3. QED
      BY <2>2, <3>1, <3>2, Zenon
  <2>7. QED
    BY <2>5, <2>6, Zenon
<1> HIDE DEF Good
<1>5. \A n \in 0 .. Len(list) : n \in Good
  BY <1>2, <1>3, <1>4, InductionUpTo, Zenon
<1>6. QED
  BY <1>1, <1>2, <1>5, Zenon DEF Good

--------------------------------------------------------------------------------
\* What is picked from the beginning of a list does not depend on its end.
LEMMA PickedNothing ==
  ASSUME NEW S, NEW list \in Seq(S)
  PROVE  Picked(list, {}) = <<>>
<1>0. PICK f : PickedBy(list, {}, f)
  BY PickedPrefixes, Zenon
<1>1. /\ Picked(list, {}) = f[Len(list)] /\ f[0] = <<>>
      /\ \A n \in 1 .. Len(list) : f[n] = f[n - 1]
  BY <1>0, Zenon DEF PickedBy
<1> DEFINE Good == {n \in 0 .. Len(list) : f[n] = <<>>}
<1>2. Len(list) \in Nat /\ 0 \in 0 .. Len(list) /\ Len(list) \in 0 .. Len(list)
  OBVIOUS
<1>3. 0 \in Good
  BY <1>1, <1>2, Zenon
<1>4. ASSUME NEW n \in 0 .. Len(list), n \in Good, n < Len(list) PROVE n + 1 \in Good
  <2>1. PICK k \in 1 .. Len(list) : k = n + 1 /\ k - 1 = n
    <3>1. n + 1 \in 1 .. Len(list) /\ n + 1 - 1 = n
      BY <1>2, <1>4
    <3>2. QED
      BY <3>1
  <2>2. f[k] = f[k - 1]
    BY <1>1, Zenon
  <2>3. f[n] = <<>>
    BY <1>4, Zenon
  <2>4. k \in 0 .. Len(list)
    BY <1>2
  <2>5. QED
    BY <2>1, <2>2, <2>3, <2>4, Zenon
<1> HIDE DEF Good
<1>5. \A n \in 0 .. Len(list) : n \in Good
  BY <1>2, <1>3, <1>4, InductionUpTo, Zenon
<1>6. QED
  BY <1>1, <1>2, <1>5, Zenon DEF Good

\* One more place, behind all others, adds its element.
LEMMA PickedOneMore ==
  ASSUME NEW S, NEW list \in Seq(S), NEW n \in 1 .. Len(list),
         NEW places, places \in SUBSET (1 .. n - 1)
  PROVE  Picked(list, places \cup {n}) = Append(Picked(list, places), list[n])
<1> DEFINE more == places \cup {n}
<1>0. PICK f : PickedBy(list, places, f)
  BY PickedPrefixes, Zenon
<1>1. /\ Picked(list, places) = f[Len(list)] /\ f[0] = <<>>
      /\ \A i \in 1 .. Len(list) :
           f[i] = IF i \in places THEN Append(f[i - 1], list[i]) ELSE f[i - 1]
  BY <1>0, Zenon DEF PickedBy
<1>2a. PICK g : PickedBy(list, more, g)
  BY PickedPrefixes, Zenon
<1>2. /\ Picked(list, more) = g[Len(list)] /\ g[0] = <<>>
      /\ \A i \in 1 .. Len(list) :
           g[i] = IF i \in more THEN Append(g[i - 1], list[i]) ELSE g[i - 1]
  BY <1>2a, Zenon DEF PickedBy
<1> DEFINE Good == {i \in 0 .. Len(list) : IF i < n THEN g[i] = f[i]
                                           ELSE g[i] = Append(f[i], list[n])}
<1>3. /\ Len(list) \in Nat /\ n \in Nat /\ ~(Len(list) < n) /\ 0 < n
      /\ 0 \in 0 .. Len(list) /\ Len(list) \in 0 .. Len(list)
  OBVIOUS
<1>4. 0 \in Good
  BY <1>1, <1>2, <1>3, Zenon
<1>5. ASSUME NEW i \in 0 .. Len(list), i \in Good, i < Len(list) PROVE i + 1 \in Good
  <2>1. PICK k \in 1 .. Len(list) : k = i + 1 /\ k - 1 = i /\ i \in Nat
    <3>1. i + 1 \in 1 .. Len(list) /\ i + 1 - 1 = i /\ i \in Nat
      BY <1>3, <1>5
    <3>2. QED
      BY <3>1
  <2>2. /\ f[k] = IF k \in places THEN Append(f[k - 1], list[k]) ELSE f[k - 1]
        /\ g[k] = IF k \in more THEN Append(g[k - 1], list[k]) ELSE g[k - 1]
    BY <1>1, <1>2, Zenon
  <2>3. IF i < n THEN g[i] = f[i] ELSE g[i] = Append(f[i], list[n])
    BY <1>5, Zenon
  <2>4. k \in places => k < n
    BY <1>3, <2>1
  <2>5. IF k < n THEN g[k] = f[k] ELSE g[k] = Append(f[k], list[n])
    <3>1. CASE k < n
      <4>1. i < n /\ (k \in more <=> k \in places)
        BY <1>3, <2>1, <3>1
      <4>2. QED
        BY <2>1, <2>2, <2>3, <3>1, <4>1, Zenon
    <3>2. CASE k = n
      <4>1. i < n /\ k \in more /\ k \notin places /\ ~(k < n)
        BY <1>3, <2>1, <2>4, <3>2
      <4>2. g[k] = Append(g[i], list[k]) /\ f[k] = f[i] /\ g[i] = f[i]
        BY <2>1, <2>2, <2>3, <4>1, Zenon
      <4>3. g[k] = Append(f[k], list[n])
        BY <3>2, <4>2, Zenon
      <4>4. QED
        BY <4>1, <4>3, Zenon
    <3>3. CASE k > n
      <4>1. ~(i < n) /\ k \notin more /\ k \notin places /\ ~(k < n)
        BY <1>3, <2>1, <2>4, <3>3
      <4>2. QED
        BY <2>1, <2>2, <2>3, <4>1, Zenon
    <3>4. QED
      BY <1>3, <2>1, <3>1, <3>2, <3>3
  <2>6. k \in 0 .. Len(list)
    BY <1>3
  <2>7. k \in Good
    BY <2>5, <2>6, Zenon
  <2>8. QED
    BY <2>1, <2>7, Zenon
<1> HIDE DEF Good, more
<1>6. \A i \in 0 .. Len(list) : i \in Good
  BY <1>3, <1>4, <1>5, InductionUpTo, Zenon
<1>7. Len(list) \in Good
  BY <1>3, <1>6, Zenon
<1>8. g[Len(list)] = Append(f[Len(list)], list[n])
  BY <1>3, <1>7, Zenon DEF Good
<1>9. QED
  BY <1>1, <1>2, <1>8, Zenon DEF more

\* An element added at the end of the second of two lists is added at the end of
\* both.
AddsLast(p, q, x) == Append(p \o q, x) = p \o Append(q, x)

LEMMA BothLonger ==
  ASSUME NEW S, NEW p \in Seq(S), NEW q \in Seq(S), NEW x \in S
  PROVE  AddsLast(p, q, x)
BY DEF AddsLast

\* A run of places behind all others adds that part of the list.
LEMMA PickedRun ==
  ASSUME NEW S, NEW list \in Seq(S), NEW n \in 0 .. Len(list),
         NEW places \in SUBSET (1 .. n), NEW k \in 0 .. Len(list) - n
  PROVE  /\ Picked(list, places \cup (n + 1 .. n + k))
              = Picked(list, places) \o SubSeq(list, n + 1, n + k)
         /\ Len(SubSeq(list, n + 1, n + k)) = k
<1> DEFINE Run(i) == SubSeq(list, n + 1, n + i)
           picked == Picked(list, places)
           With(i) == Picked(list, places \cup (n + 1 .. n + i))
           Good == {i \in 0 .. k : With(i) = picked \o Run(i)}
<1>1. k \in Nat /\ n \in Nat /\ Len(list) \in Nat /\ n + k <= Len(list)
  OBVIOUS
<1>2. picked \in Seq(S)
  BY PickedOrder, Zenon
<1>3. ASSUME NEW i \in 0 .. k
      PROVE  /\ Run(i) \in Seq(S) /\ Len(Run(i)) = i
             /\ \A j \in 1 .. i : Run(i)[j] = list[n + j]
  <2>1. i \in Nat /\ n + i <= Len(list)
    BY <1>1
  <2>2. Run(i) \in Seq(S)
    BY <1>1, <2>1
  <2>3. Len(Run(i)) = i
    BY <1>1, <2>1
  <2>4. \A j \in 1 .. i : Run(i)[j] = list[n + j]
    BY <1>1, <2>1
  <2>5. QED
    BY <2>2, <2>3, <2>4, Zenon
<1>4. 0 \in Good
  <2>1. places \cup (n + 1 .. n + 0) = places
    BY <1>1
  <2>2. Run(0) = <<>>
    BY <1>1
  <2>3. With(0) = picked
    BY <2>1, Zenon
  <2> HIDE DEF picked, With, Run
  <2>4. picked \o <<>> = picked
    BY <1>2
  <2>5. With(0) = picked \o Run(0)
    BY <2>2, <2>3, <2>4, Zenon
  <2>6. 0 \in 0 .. k
    BY <1>1
  <2>7. QED
    BY <2>5, <2>6, Zenon
<1>5. ASSUME NEW i \in 0 .. k, i \in Good, i < k PROVE i + 1 \in Good
  <2>1. PICK m \in 1 .. Len(list) : m = n + i + 1 /\ m - 1 = n + i
    <3>1. n + i + 1 \in 1 .. Len(list) /\ n + i + 1 - 1 = n + i
      BY <1>1, <1>5
    <3>2. QED
      BY <3>1
  <2>2. i + 1 \in 0 .. k /\ n + (i + 1) = m /\ i \in Nat
    BY <1>1, <1>5, <2>1
  <2>3. places \cup (n + 1 .. n + i) \in SUBSET (1 .. m - 1)
    BY <1>1, <1>5, <2>1
  <2>4. places \cup (n + 1 .. m) = (places \cup (n + 1 .. n + i)) \cup {m}
    BY <1>1, <1>5, <2>1
  <2>5. With(i + 1) = Append(With(i), list[m])
    <3>1. Picked(list, (places \cup (n + 1 .. n + i)) \cup {m})
            = Append(Picked(list, places \cup (n + 1 .. n + i)), list[m])
      BY <2>3, PickedOneMore, Zenon
    <3>2. QED
      BY <2>2, <2>4, <3>1, Zenon
  <2>6. list[m] \in S
    OBVIOUS
  <2>7. /\ Run(i) \in Seq(S) /\ Len(Run(i)) = i
        /\ \A j \in 1 .. i : Run(i)[j] = list[n + j]
    BY <1>3, Zenon
  <2>8. /\ Run(i + 1) \in Seq(S) /\ Len(Run(i + 1)) = i + 1
        /\ \A j \in 1 .. i + 1 : Run(i + 1)[j] = list[n + j]
    BY <1>3, <2>2, Zenon
  <2> HIDE DEF Run, With, picked, Good
  <2>9. Run(i + 1) = Append(Run(i), list[m])
    <3> DEFINE r == Run(i)
               x == list[m]
               longer == Append(r, x)
               next == Run(i + 1)
    <3> HIDE DEF r, x
    <3>1. r \in Seq(S) /\ Len(r) = i /\ x \in S /\ \A j \in 1 .. i : r[j] = list[n + j]
      BY <2>6, <2>7, Zenon DEF r, x
    <3>2. /\ longer \in Seq(S) /\ Len(longer) = Len(r) + 1
          /\ \A j \in 1 .. Len(r) : longer[j] = r[j]
          /\ longer[Len(r) + 1] = x
      BY <3>1, AppendFacts, ZenonT(60)
    <3> HIDE DEF longer, next
    <3>3. longer[i + 1] = list[n + (i + 1)]
      BY <2>2, <3>1, <3>2, Zenon DEF x
    <3>4. \A j \in 1 .. i + 1 : j \in 1 .. i \/ j = i + 1
      BY <2>2
    <3>5. \A j \in 1 .. i + 1 : longer[j] = list[n + j]
      BY <3>1, <3>2, <3>3, <3>4, Zenon
    <3>6. /\ next \in Seq(S) /\ Len(next) = i + 1
          /\ \A j \in 1 .. i + 1 : next[j] = list[n + j]
      BY <2>8, Zenon DEF next
    <3>7. Len(longer) = Len(next) /\ \A j \in 1 .. Len(longer) : longer[j] = next[j]
      BY <3>1, <3>2, <3>5, <3>6, Zenon
    <3>8. longer = next
      BY <3>2, <3>6, <3>7, SeqEqual, Zenon
    <3>9. QED
      BY <3>8, Zenon DEF longer, next, r, x
  <2>10. With(i) = picked \o Run(i)
    BY <1>5, Zenon DEF Good
  <2>11. Append(picked \o Run(i), list[m]) = picked \o Append(Run(i), list[m])
    <3> DEFINE r == Run(i)
               x == list[m]
    <3>1. picked \in Seq(S) /\ r \in Seq(S) /\ x \in S
      BY <1>2, <2>6, <2>7, Zenon
    <3> HIDE DEF r, x
    <3>2. AddsLast(picked, r, x)
      BY <3>1, BothLonger, Zenon
    <3>3. QED
      BY <3>2, Zenon DEF r, x, AddsLast
  <2>12. With(i + 1) = picked \o Run(i + 1)
    BY <2>5, <2>9, <2>10, <2>11, Zenon
  <2>13. QED
    BY <2>2, <2>12, Zenon DEF Good
<1> HIDE DEF Good, With, Run
<1>6. \A i \in 0 .. k : i \in Good
  BY <1>1, <1>4, <1>5, InductionUpTo, Zenon
<1>7. k \in 0 .. k
  BY <1>1
<1>8. With(k) = picked \o Run(k)
  BY <1>6, <1>7, Zenon DEF Good
<1>9. Len(Run(k)) = k
  BY <1>3, <1>7, Zenon
<1>10. QED
  BY <1>8, <1>9, Zenon DEF With, Run

\* What a list leaves is not longer than the list, nor than what is left at more
\* of its places.
LEMMA PickedFewer ==
  ASSUME NEW S, NEW list \in Seq(S), NEW places, NEW more, places \subseteq more
  PROVE  /\ Picked(list, places) \in Seq(S)
         /\ Len(Picked(list, places)) <= Len(Picked(list, more))
         /\ Len(Picked(list, places)) <= Len(list)
<1> DEFINE few == Picked(list, places)
           many == Picked(list, more)
<1>1. few \in Seq(S) /\ many \in Seq(S)
  BY PickedOrder, Zenon
<1>2. PICK from : LeftOf(list, places, Len(list), few, from)
  BY PickedOrder, Zenon
<1>3. PICK back : LeftOf(list, more, Len(list), many, back)
  BY PickedOrder, Zenon
<1>4. Len(few) \in Nat /\ Len(many) \in Nat /\ Len(list) \in Nat
  BY <1>1
<1> HIDE DEF few, many
<1>5. Len(few) <= Len(list)
  <2>1. /\ from \in [1 .. Len(few) -> 1 .. Len(list)]
        /\ \A i, j \in 1 .. Len(few) : i < j => from[i] < from[j]
    BY <1>2, Zenon DEF LeftOf
  <2>2. QED
    BY <1>4, <2>1, RisingLength, Zenon
<1>6. Len(few) <= Len(many)
  <2> DEFINE at == [i \in 1 .. Len(few) |->
                      CHOOSE j \in 1 .. Len(many) : back[j] = from[i]]
  <2>1. ASSUME NEW i \in 1 .. Len(few)
        PROVE  at[i] \in 1 .. Len(many) /\ back[at[i]] = from[i]
    <3>1. from[i] \in 1 .. Len(list) /\ from[i] \in places
      BY <1>2, Zenon DEF LeftOf
    <3>2. from[i] \in more
      BY <3>1, Zenon
    <3>3. \E j \in 1 .. Len(many) : back[j] = from[i]
      BY <1>3, <3>1, <3>2, Zenon DEF LeftOf
    <3>4. QED
      BY <3>3, Zenon
  <2>2. at \in [1 .. Len(few) -> 1 .. Len(many)]
    BY <2>1, Zenon
  <2> HIDE DEF at
  <2>3. ASSUME NEW i \in 1 .. Len(few), NEW j \in 1 .. Len(few), i < j
        PROVE  at[i] < at[j]
    <3> DEFINE a == at[i]
               b == at[j]
               x == from[i]
               y == from[j]
    <3>1. a \in 1 .. Len(many) /\ b \in 1 .. Len(many) /\ back[a] = x /\ back[b] = y
      BY <2>1, Zenon
    <3>2. x \in 1 .. Len(list) /\ y \in 1 .. Len(list) /\ x < y
      BY <1>2, <2>3, Zenon DEF LeftOf
    <3>3. b < a => back[b] < back[a]
      BY <1>3, <3>1, Zenon DEF LeftOf
    <3> HIDE DEF a, b, x, y
    <3>4. ~(b < a) /\ a # b
      BY <3>1, <3>2, <3>3
    <3>5. a < b
      BY <1>4, <3>1, <3>4
    <3>6. QED
      BY <3>5, Zenon DEF a, b
  <2>4. QED
    BY <1>4, <2>2, <2>3, RisingLength, Zenon
<1>7. QED
  BY <1>1, <1>5, <1>6, Zenon DEF few, many

\* The first sums of a function, up to a number.
Sums(f, n, s) == s = [i \in 0 .. n |-> IF i = 0 THEN 0 ELSE s[i - 1] + f[i]]

\* Each is the one before with one more term.
LEMMA SumsStep ==
  ASSUME NEW f, NEW n, NEW s, Sums(f, n, s)
  PROVE  \A i \in 0 .. n : s[i] = IF i = 0 THEN 0 ELSE s[i - 1] + f[i]
BY DEF Sums

\* There is such a function.
LEMMA SumsExist ==
  ASSUME NEW f, NEW bound \in Nat
  PROVE  \E s : Sums(f, bound, s)
<1> DEFINE Good == {n \in 0 .. bound : \E s : Sums(f, n, s)}
<1>1. 0 \in Good
  <2> DEFINE g == [i \in 0 .. 0 |-> 0]
  <2>1. Sums(f, 0, g)
    BY DEF Sums
  <2>2. QED
    BY <2>1
<1>2. ASSUME NEW n \in 0 .. bound, n \in Good, n < bound PROVE n + 1 \in Good
  <2>1. PICK s : Sums(f, n, s)
    BY <1>2
  <2>2. \A i \in 0 .. n : s[i] = IF i = 0 THEN 0 ELSE s[i - 1] + f[i]
    BY <2>1, SumsStep
  <2> DEFINE g == [i \in 0 .. n + 1 |-> IF i <= n THEN s[i] ELSE s[n] + f[n + 1]]
  <2>3. ASSUME NEW i \in 0 .. n + 1
        PROVE  g[i] = IF i = 0 THEN 0 ELSE g[i - 1] + f[i]
    <3>1. CASE i <= n
      <4>1. i \in 0 .. n /\ (i # 0 => i - 1 \in 0 .. n)
        BY <3>1
      <4>2. QED
        BY <2>2, <3>1, <4>1
    <3>2. CASE i = n + 1
      BY <3>2
    <3>3. QED
      BY <3>1, <3>2
  <2>4. Sums(f, n + 1, g)
    <3>1. g = [i \in 0 .. n + 1 |-> g[i]]
      OBVIOUS
    <3> HIDE DEF g
    <3>2. QED
      BY <2>3, <3>1 DEF Sums
  <2>5. QED
    BY <1>2, <2>4
<1> HIDE DEF Good
<1>3. bound \in Good
  BY <1>1, <1>2, InductionUpTo
<1>4. QED
  BY <1>3 DEF Good

\* Any such function gives the sum.
LEMMA SumIs ==
  ASSUME NEW f, NEW n \in Nat, NEW s, Sums(f, n, s), NEW m \in 0 .. n
  PROVE  SumUpTo(f, m) = s[m]
<1> DEFINE F == CHOOSE sum : Sums(f, m, sum)
<1>1. Sums(f, m, F)
  <2>1. m \in Nat
    OBVIOUS
  <2>2. \E sum : Sums(f, m, sum)
    BY <2>1, SumsExist, Zenon
  <2> QED BY <2>2, Zenon
<1>2. SumUpTo(f, m) = F[m]
  BY Zenon DEF SumUpTo, Sums
<1> HIDE DEF F
<1> DEFINE Good == {i \in 0 .. m : F[i] = s[i]}
<1>3. /\ \A i \in 0 .. m : F[i] = IF i = 0 THEN 0 ELSE F[i - 1] + f[i]
      /\ \A i \in 0 .. n : s[i] = IF i = 0 THEN 0 ELSE s[i - 1] + f[i]
  BY <1>1, SumsStep
<1>4. 0 \in Good
  BY <1>3
<1>5. ASSUME NEW i \in 0 .. m, i \in Good, i < m PROVE i + 1 \in Good
  <2>1. i + 1 \in 0 .. m /\ i + 1 \in 0 .. n /\ i + 1 # 0 /\ i + 1 - 1 = i
    BY <1>5
  <2>2. F[i + 1] = F[i] + f[i + 1] /\ s[i + 1] = s[i] + f[i + 1]
    BY <1>3, <2>1
  <2>3. F[i] = s[i]
    BY <1>5
  <2> QED BY <2>1, <2>2, <2>3
<1> HIDE DEF Good
<1>6. m \in Nat /\ m \in 0 .. m
  OBVIOUS
<1>7. m \in Good
  BY <1>4, <1>5, <1>6, InductionUpTo
<1>8. F[m] = s[m]
  BY <1>7 DEF Good
<1> QED BY <1>2, <1>8

\* A sum of nothing is zero; one more term is added to the sum of the others.
LEMMA SumSteps ==
  ASSUME NEW f, NEW n \in Nat
  PROVE  /\ SumUpTo(f, 0) = 0
         /\ SumUpTo(f, n + 1) = SumUpTo(f, n) + f[n + 1]
<1>1. n + 1 \in Nat /\ n \in 0 .. n + 1 /\ n + 1 \in 0 .. n + 1 /\ 0 \in 0 .. n + 1
      /\ n + 1 # 0 /\ n + 1 - 1 = n
  OBVIOUS
<1>2. PICK s : Sums(f, n + 1, s)
  BY <1>1, SumsExist, Zenon
<1>3. /\ SumUpTo(f, 0) = s[0] /\ SumUpTo(f, n) = s[n]
      /\ SumUpTo(f, n + 1) = s[n + 1]
  BY <1>1, <1>2, SumIs, ZenonT(60)
<1>4. \A i \in 0 .. n + 1 : s[i] = IF i = 0 THEN 0 ELSE s[i - 1] + f[i]
  BY <1>2, SumsStep
<1>5. s[0] = 0 /\ s[n + 1] = s[n + 1 - 1] + f[n + 1]
  BY <1>1, <1>4
<1> QED BY <1>1, <1>3, <1>5

\* What is added up to a number of natural numbers is one.
LEMMA SumNat ==
  ASSUME NEW n \in Nat, NEW f, \A i \in 1 .. n : f[i] \in Nat
  PROVE  SumUpTo(f, n) \in Nat
<1> DEFINE Good == {i \in 0 .. n : SumUpTo(f, i) \in Nat}
<1>1. 0 \in Good
  BY SumSteps
<1>2. ASSUME NEW i \in 0 .. n, i \in Good, i < n PROVE i + 1 \in Good
  <2>1. SumUpTo(f, i + 1) = SumUpTo(f, i) + f[i + 1]
    BY SumSteps
  <2>2. f[i + 1] \in Nat /\ SumUpTo(f, i) \in Nat
    BY <1>2
  <2>3. SumUpTo(f, i + 1) \in Nat
    BY <2>1, <2>2
  <2> QED BY <1>2, <2>3
<1> HIDE DEF Good
<1>3. n \in Nat /\ n \in 0 .. n
  OBVIOUS
<1>4. n \in Good
  BY <1>1, <1>2, <1>3, InductionUpTo
<1> QED BY <1>4 DEF Good

\* A sum of natural numbers that is zero has no other terms, and the other way.
LEMMA SumZero ==
  ASSUME NEW n \in Nat, NEW f, \A i \in 1 .. n : f[i] \in Nat,
         SumUpTo(f, n) = 0
  PROVE  \A i \in 1 .. n : f[i] = 0
<1> DEFINE Good == {i \in 0 .. n : SumUpTo(f, n - i) = 0}
<1>1. 0 \in Good
  OBVIOUS
<1>2. ASSUME NEW i \in 0 .. n, i \in Good, i < n
      PROVE  i + 1 \in Good /\ f[n - i] = 0
  <2>1. PICK k \in Nat : k = n - (i + 1) /\ n - i = k + 1
    BY <1>2
  <2>2. SumUpTo(f, k + 1) = SumUpTo(f, k) + f[k + 1]
    BY SumSteps
  <2>3. k \in Nat /\ \A j \in 1 .. k : f[j] \in Nat
    BY <2>1
  <2>4. SumUpTo(f, k) \in Nat
    BY <2>3, SumNat
  <2>5. f[k + 1] \in Nat
    BY <2>1
  <2>6. SumUpTo(f, k + 1) = 0
    BY <1>2, <2>1
  <2>7. SumUpTo(f, k) = 0 /\ f[k + 1] = 0
    BY <2>2, <2>4, <2>5, <2>6
  <2> QED BY <1>2, <2>1, <2>7
<1> HIDE DEF Good
<1>3. \A i \in 0 .. n : i \in Good
  BY <1>1, <1>2, InductionUpTo
<1>4. ASSUME NEW j \in 1 .. n PROVE f[j] = 0
  <2>1. n - j \in 0 .. n /\ n - j < n /\ n - (n - j) = j
    OBVIOUS
  <2>2. f[n - (n - j)] = 0
    BY <1>2, <1>3, <2>1
  <2> QED BY <2>1, <2>2
<1> QED BY <1>4

\* Terms that are equal add up to the same.
LEMMA SumSame ==
  ASSUME NEW n \in Nat, NEW f, NEW g, \A i \in 1 .. n : f[i] = g[i]
  PROVE  SumUpTo(f, n) = SumUpTo(g, n)
<1> DEFINE Good == {i \in 0 .. n : SumUpTo(f, i) = SumUpTo(g, i)}
<1>1. 0 \in Good
  BY SumSteps
<1>2. ASSUME NEW i \in 0 .. n, i \in Good, i < n PROVE i + 1 \in Good
  <2>1. /\ SumUpTo(f, i + 1) = SumUpTo(f, i) + f[i + 1]
        /\ SumUpTo(g, i + 1) = SumUpTo(g, i) + g[i + 1]
    BY SumSteps
  <2>2. f[i + 1] = g[i + 1] /\ SumUpTo(f, i) = SumUpTo(g, i)
    BY <1>2
  <2>3. SumUpTo(f, i + 1) = SumUpTo(g, i + 1)
    BY <2>1, <2>2
  <2> QED BY <1>2, <2>3
<1> HIDE DEF Good
<1>3. n \in Nat /\ n \in 0 .. n
  OBVIOUS
<1>4. n \in Good
  BY <1>1, <1>2, <1>3, InductionUpTo
<1> QED BY <1>4 DEF Good

\* A total split in four is the total of the four.
LEMMA SumFour ==
  ASSUME NEW n \in Nat, NEW f, NEW a, NEW b, NEW c, NEW d,
         \A i \in 1 .. n : /\ a[i] \in Nat /\ b[i] \in Nat /\ c[i] \in Nat
                           /\ d[i] \in Nat /\ f[i] = a[i] + b[i] + c[i] + d[i]
  PROVE  SumUpTo(f, n) = SumUpTo(a, n) + SumUpTo(b, n) + SumUpTo(c, n)
                           + SumUpTo(d, n)
<1> DEFINE Split(i) == SumUpTo(f, i) = SumUpTo(a, i) + SumUpTo(b, i)
                                         + SumUpTo(c, i) + SumUpTo(d, i)
           Good == {i \in 0 .. n : Split(i)}
<1>1. 0 \in Good
  <2>1. /\ SumUpTo(f, 0) = 0 /\ SumUpTo(a, 0) = 0 /\ SumUpTo(b, 0) = 0
        /\ SumUpTo(c, 0) = 0 /\ SumUpTo(d, 0) = 0
    BY SumSteps
  <2> QED BY <2>1
<1>2. ASSUME NEW i \in 0 .. n, i \in Good, i < n PROVE i + 1 \in Good
  <2>1. /\ SumUpTo(f, i + 1) = SumUpTo(f, i) + f[i + 1]
        /\ SumUpTo(a, i + 1) = SumUpTo(a, i) + a[i + 1]
        /\ SumUpTo(b, i + 1) = SumUpTo(b, i) + b[i + 1]
        /\ SumUpTo(c, i + 1) = SumUpTo(c, i) + c[i + 1]
        /\ SumUpTo(d, i + 1) = SumUpTo(d, i) + d[i + 1]
    BY SumSteps
  <2>2. i \in Nat /\ i + 1 \in 1 .. n /\ i + 1 \in 0 .. n
        /\ \A j \in 1 .. i : j \in 1 .. n
    BY <1>2
  <2>3. /\ SumUpTo(a, i) \in Nat /\ SumUpTo(b, i) \in Nat
        /\ SumUpTo(c, i) \in Nat /\ SumUpTo(d, i) \in Nat
    BY <2>2, SumNat
  <2>4. /\ a[i + 1] \in Nat /\ b[i + 1] \in Nat /\ c[i + 1] \in Nat
        /\ d[i + 1] \in Nat
        /\ f[i + 1] = a[i + 1] + b[i + 1] + c[i + 1] + d[i + 1]
    BY <2>2
  <2>5. Split(i)
    BY <1>2
  <2>6. Split(i + 1)
    BY <2>1, <2>3, <2>4, <2>5
  <2> HIDE DEF Split
  <2> QED BY <2>2, <2>6
<1> HIDE DEF Good
<1>3. n \in Nat /\ n \in 0 .. n
  OBVIOUS
<1>4. n \in Good
  BY <1>1, <1>2, <1>3, InductionUpTo
<1>5. Split(n)
  BY <1>4 DEF Good
<1> QED BY <1>5
================================================================================
