--------------------------- MODULE HisiRfLinkProofs ---------------------------
(* Proofs about the subcommands of hisi-rf-link. ble-init-profile, for every    *)
(* profile and every set of archives: the queue alone does not carry Sufficient *)
(* through a step, it is needed as well that resolved symbols are defined by    *)
(* selected members, and the other way. normalize and verify-normalized, for    *)
(* any archives and any number of runs: what a run has listed so far it has     *)
(* also put there, and a manifest lists a run that came to its end.             *)
(* task-profile, for any log: what is known of a task number are the last line  *)
(* that described it and the measurements since. normalize-archive, for any     *)
(* archive and any number of runs over it: the rewritten bytes are, entry by    *)
(* entry, what the input says. verify-guarded-sites, for any ELF: what is read  *)
(* at an address is what the memory of the program holds there, so that a site  *)
(* is passed for what the program finds. ble-profile, for any archives and       *)
(* whatever is replaced: what has been read so far adds up to the pinned         *)
(* contents, unless a file was replaced.                                        *)
EXTENDS HisiRfLink, Collections

\* The first provider is a provider, and the first.
LEMMA ProviderProvides ==
  ASSUME WellFormed(input), NEW s, Providers(s) # {}
  PROVE  /\ Provider(s) \in DOMAIN input.members
         /\ s \in input.members[Provider(s)].defined
         /\ \A n \in Providers(s) : Provider(s) <= n
<1>1. DOMAIN input.members \subseteq Nat
  BY DEF WellFormed
<1>2. Providers(s) \in SUBSET Nat
  BY <1>1 DEF Providers
<1>3. \E m \in Providers(s) : \A n \in Providers(s) : m <= n
  BY <1>2, LeastElement
<1>4. Provider(s) \in Providers(s) /\ \A n \in Providers(s) : Provider(s) <= n
  BY <1>3 DEF Provider
<1>5. QED
  BY <1>4 DEF Providers

\* What a queue holds when another is put behind it, and without its head.
LEMMA AppendedQueue ==
  ASSUME NEW S, NEW q \in Seq(S), NEW r \in Seq(S)
  PROVE  /\ q \o r \in Seq(S)
         /\ Elements(q \o r) = Elements(q) \cup Elements(r)
<1>1. /\ q \o r \in Seq(S)
      /\ Len(q \o r) = Len(q) + Len(r)
      /\ \A i \in 1 .. Len(q) + Len(r) :
           (q \o r)[i] = IF i <= Len(q) THEN q[i] ELSE r[i - Len(q)]
  OBVIOUS
<1>2. Len(q) \in Nat /\ Len(r) \in Nat
  OBVIOUS
<1>3. ASSUME NEW x \in Elements(q \o r)
      PROVE  x \in Elements(q) \cup Elements(r)
  <2>1. PICK i \in 1 .. Len(q) + Len(r) : x = (q \o r)[i]
    BY <1>1 DEF Elements
  <2>2. CASE i <= Len(q)
    BY <1>1, <1>2, <2>1, <2>2 DEF Elements
  <2>3. CASE ~(i <= Len(q))
    <3>1. i - Len(q) \in 1 .. Len(r)
      BY <1>2, <2>3
    <3>2. x = r[i - Len(q)]
      BY <1>1, <2>1, <2>3
    <3>3. QED
      BY <3>1, <3>2 DEF Elements
  <2>4. QED
    BY <2>2, <2>3
<1>4. ASSUME NEW x \in Elements(q)
      PROVE  x \in Elements(q \o r)
  <2>1. PICK i \in 1 .. Len(q) : x = q[i]
    BY DEF Elements
  <2>2. i \in 1 .. Len(q) + Len(r) /\ (q \o r)[i] = x
    BY <1>1, <1>2, <2>1
  <2>3. QED
    BY <1>1, <2>2 DEF Elements
<1>5. ASSUME NEW x \in Elements(r)
      PROVE  x \in Elements(q \o r)
  <2>1. PICK i \in 1 .. Len(r) : x = r[i]
    BY DEF Elements
  <2>2. i + Len(q) \in 1 .. Len(q) + Len(r)
    BY <1>2
  <2>3. (q \o r)[i + Len(q)] = x
    BY <1>1, <1>2, <2>1, <2>2
  <2>4. QED
    BY <1>1, <2>2, <2>3 DEF Elements
<1>6. QED
  BY <1>1, <1>3, <1>4, <1>5

LEMMA PoppedQueue ==
  ASSUME NEW S, NEW q \in Seq(S), q # <<>>
  PROVE  /\ Tail(q) \in Seq(S) /\ Head(q) \in S
         /\ Elements(q) = {Head(q)} \cup Elements(Tail(q))
<1>1. Len(q) \in Nat \ {0} /\ Head(q) = q[1] /\ Head(q) \in S
  OBVIOUS
<1>2. /\ Tail(q) \in Seq(S) /\ Len(Tail(q)) = Len(q) - 1
      /\ \A i \in 1 .. Len(q) - 1 : Tail(q)[i] = q[i + 1]
  OBVIOUS
<1>3. ASSUME NEW x \in Elements(q)
      PROVE  x \in {Head(q)} \cup Elements(Tail(q))
  <2>1. PICK i \in 1 .. Len(q) : x = q[i]
    BY DEF Elements
  <2>2. CASE i = 1
    BY <1>1, <2>1, <2>2
  <2>3. CASE i # 1
    <3>1. i - 1 \in 1 .. Len(q) - 1
      BY <1>1, <2>3
    <3>2. Tail(q)[i - 1] = x
      BY <1>2, <2>1, <3>1
    <3>3. DOMAIN Tail(q) = 1 .. Len(q) - 1
      BY <1>2
    <3>4. x \in Elements(Tail(q))
      BY <3>1, <3>2, <3>3 DEF Elements
    <3>5. QED
      BY <3>4
  <2>4. QED
    BY <2>2, <2>3
<1>4. ASSUME NEW x \in {Head(q)} \cup Elements(Tail(q))
      PROVE  x \in Elements(q)
  <2>1. CASE x = Head(q)
    BY <1>1, <2>1 DEF Elements
  <2>2. CASE x \in Elements(Tail(q))
    <3>1. PICK i \in 1 .. Len(q) - 1 : x = Tail(q)[i]
      BY <1>2, <2>2 DEF Elements
    <3>2. i + 1 \in 1 .. Len(q) /\ q[i + 1] = x
      BY <1>1, <1>2, <3>1
    <3>3. QED
      BY <3>2 DEF Elements
  <2>3. QED
    BY <2>1, <2>2
<1>5. QED
  BY <1>1, <1>2, <1>3, <1>4

Wanted == Elements(input.roots) \cup Elements(input.callback_roots)

\* TypeOK without selected_members, which no step reads.
Typed ==
  /\ WellFormed(input)
  /\ pc \in {"load", "closure", "linked", "report", "failed", "checked"}
  /\ pending \in Seq(Symbols)
  /\ resolved \subseteq Symbols /\ unresolved \subseteq Symbols
  /\ selected \subseteq DOMAIN input.members

\* What the loop preserves, conjunct by conjunct.
NothingYet == pc = "load" => /\ resolved = {} /\ selected = {}
                             /\ pending = <<>> /\ unresolved = {}
QueueDone == pc \in {"linked", "report", "checked"} => pending = <<>>
SelectedResolved == \A m \in selected : input.members[m].defined \subseteq resolved
ResolvedSelected ==
  \A s \in resolved : \E m \in selected : s \in input.members[m].defined
RequiredUnprovided == \A s \in unresolved : Providers(s) = {}
CallbacksKnown ==
  Running => \A s \in Elements(input.callback_roots) : CallbackKnown(s)

IInv == /\ Typed /\ NothingYet /\ QueueDone
        /\ SelectedResolved /\ ResolvedSelected
        /\ RequiredUnprovided /\ CallbacksKnown
        /\ Sufficient

LEMMA InitInv == Init => IInv
<1> SUFFICES ASSUME Init PROVE IInv
  OBVIOUS
<1>1. WellFormed(input)
  BY InputsAssumption DEF Init
<1>2. Typed
  BY <1>1 DEF Init, Typed
<1>3. QED
  BY <1>2 DEF Init, IInv, NothingYet, QueueDone, SelectedResolved,
    ResolvedSelected, RequiredUnprovided, CallbacksKnown, Running, Sufficient

LEMMA LoadInv == IInv /\ Load => IInv'
<1> SUFFICES ASSUME IInv, Load PROVE IInv'
  OBVIOUS
<1>1. /\ pc = "load" /\ pc' = "closure" /\ Loadable
      /\ pending' = input.roots \o input.callback_roots
      /\ input' = input /\ resolved' = resolved /\ selected' = selected
      /\ unresolved' = unresolved
  BY DEF Load
<1>2. resolved = {} /\ selected = {} /\ unresolved = {}
  BY <1>1 DEF IInv, NothingYet
<1>3. input.roots \in Seq(Symbols) /\ input.callback_roots \in Seq(Symbols)
  BY DEF IInv, Typed, WellFormed
<1>4. pending' \in Seq(Symbols) /\ Elements(pending') = Wanted
  BY <1>1, <1>3, AppendedQueue DEF Wanted
<1>5. Typed'
  BY <1>1, <1>4 DEF IInv, Typed
<1>6. CallbacksKnown'
  BY <1>1 DEF Loadable, CallbacksKnown, CallbackKnown, Providers
<1>7. Sufficient'
  BY <1>1, <1>2, <1>4 DEF Sufficient, Accounted, Wanted
<1>8. QED
  BY <1>1, <1>2, <1>5, <1>6, <1>7 DEF IInv, NothingYet, QueueDone,
    SelectedResolved, ResolvedSelected, RequiredUnprovided

LEMMA SkipInv == IInv /\ Skip => IInv'
<1> SUFFICES ASSUME IInv, Skip PROVE IInv'
  OBVIOUS
<1>1. /\ pc = "closure" /\ pc' = pc /\ pending # <<>> /\ Settled(Head(pending))
      /\ pending' = Tail(pending)
      /\ input' = input /\ resolved' = resolved /\ selected' = selected
      /\ unresolved' = unresolved
  BY DEF Skip
<1>2. /\ pending' \in Seq(Symbols)
      /\ Elements(pending) = {Head(pending)} \cup Elements(pending')
  BY <1>1, PoppedQueue DEF IInv, Typed
<1>3. ASSUME NEW s, Accounted(s) PROVE Accounted(s)'
  <2>1. CASE s = Head(pending)
    BY <1>1, <2>1 DEF Settled, IInv, ResolvedSelected, Accounted
  <2>2. CASE s # Head(pending)
    BY <1>1, <1>2, <1>3, <2>2 DEF Accounted
  <2>3. QED
    BY <2>1, <2>2
<1>4. Sufficient'
  BY <1>1, <1>3 DEF IInv, Sufficient, Running
<1>5. QED
  BY <1>1, <1>2, <1>4 DEF IInv, Typed, NothingYet, QueueDone, SelectedResolved,
    ResolvedSelected, RequiredUnprovided, CallbacksKnown, Running,
    CallbackKnown, Providers

LEMMA NoProviderInv == IInv /\ NoProvider => IInv'
<1> SUFFICES ASSUME IInv, NoProvider PROVE IInv'
  OBVIOUS
<1>1. /\ pc = "closure" /\ pc' = pc /\ pending # <<>>
      /\ Providers(Head(pending)) = {}
      /\ pending' = Tail(pending)
      /\ unresolved' = unresolved \cup {Head(pending)}
      /\ input' = input /\ resolved' = resolved /\ selected' = selected
  BY DEF NoProvider
<1>2. /\ pending' \in Seq(Symbols) /\ Head(pending) \in Symbols
      /\ Elements(pending) = {Head(pending)} \cup Elements(pending')
  BY <1>1, PoppedQueue DEF IInv, Typed
<1>3. ASSUME NEW s, Accounted(s) PROVE Accounted(s)'
  BY <1>1, <1>2, <1>3 DEF Accounted
<1>4. Sufficient'
  BY <1>1, <1>3 DEF IInv, Sufficient, Running
<1>5. RequiredUnprovided'
  BY <1>1 DEF IInv, RequiredUnprovided, Providers
<1>6. QED
  BY <1>1, <1>2, <1>4, <1>5 DEF IInv, Typed, NothingYet, QueueDone,
    SelectedResolved, ResolvedSelected, CallbacksKnown, Running,
    CallbackKnown, Providers

\* A symbol that is not settled has its first provider among the members that
\* are not selected: the second test of the loop never decides.
LEMMA ProviderIsNew ==
  ASSUME IInv, NEW s, ~Settled(s), Providers(s) # {}
  PROVE  Provider(s) \notin selected
<1>1. s \in input.members[Provider(s)].defined
  BY ProviderProvides DEF IInv, Typed
<1>2. QED
  BY <1>1 DEF IInv, SelectedResolved, Settled

LEMMA ProvideInv == IInv /\ Provide => IInv'
<1> SUFFICES ASSUME IInv, Provide PROVE IInv'
  OBVIOUS
<1> DEFINE s0 == Head(pending)
           m0 == Provider(s0)
           added == input.members[m0]
           known == resolved \cup {s0} \cup added.defined
<1>1. /\ pc = "closure" /\ pc' = pc /\ pending # <<>>
      /\ ~Settled(s0) /\ Providers(s0) # {}
      /\ input' = input /\ unresolved' = unresolved
  BY DEF Provide
<1>2. m0 \notin selected
  BY <1>1, ProviderIsNew
<1>3. PICK more \in Ascending(Dependencies(added, known)) :
        pending' = Tail(pending) \o more
  BY <1>2 DEF Provide
<1>4. resolved' = known /\ selected' = selected \cup {m0}
  BY <1>2 DEF Provide
<1>5. m0 \in DOMAIN input.members /\ s0 \in added.defined
  BY <1>1, ProviderProvides DEF IInv, Typed
<1>6. added.defined \subseteq Symbols /\ added.undefined \subseteq Symbols
  <2>1. input.members \in Seq(Members)
    BY DEF IInv, Typed, WellFormed
  <2>2. added \in Members
    BY <1>5, <2>1
  <2>3. QED
    BY <2>2 DEF Members
<1>7. /\ more \in Seq(Symbols)
      /\ \A x \in Dependencies(added, known) : x \in Elements(more)
  <2> DEFINE missing == Dependencies(added, known)
  <2>1. missing \subseteq Symbols
    BY <1>6 DEF Dependencies
  <2>2. /\ more \in [1 .. Cardinality(missing) -> missing]
        /\ \A x \in missing : \E i \in DOMAIN more : more[i] = x
    BY <1>3 DEF Ascending
  <2>3. \A x \in missing : x \in Elements(more)
    BY <2>2 DEF Elements
  <2>4. more \in Seq(Symbols)
    <3>1. Cardinality(missing) \in Nat
      BY <2>1, SymbolsAssumption, FS_Subset, FS_CardinalityType
    <3> HIDE DEF missing
    <3>2. more \in [1 .. Cardinality(missing) -> Symbols]
      BY <2>1, <2>2
    <3>3. QED
      BY <3>1, <3>2
  <2>5. QED
    BY <2>3, <2>4
<1>8. /\ pending' \in Seq(Symbols)
      /\ Elements(pending') = Elements(Tail(pending)) \cup Elements(more)
      /\ Elements(pending) = {s0} \cup Elements(Tail(pending))
  <2>1. /\ Tail(pending) \in Seq(Symbols)
        /\ Elements(pending) = {s0} \cup Elements(Tail(pending))
    BY <1>1, PoppedQueue DEF IInv, Typed
  <2>2. /\ Tail(pending) \o more \in Seq(Symbols)
        /\ Elements(Tail(pending) \o more) = Elements(Tail(pending)) \cup Elements(more)
    <3>1. Tail(pending) \in Seq(Symbols) /\ more \in Seq(Symbols)
      BY <1>7, <2>1, Zenon
    <3>2. Elements(Tail(pending) \o more) = Elements(Tail(pending)) \cup Elements(more)
      BY <3>1, AppendedQueue, ZenonT(60)
    <3>3. Tail(pending) \o more \in Seq(Symbols)
      BY <3>1
    <3>4. QED
      BY <3>2, <3>3, Zenon
  <2>3. QED
    BY <1>3, <2>1, <2>2
<1>9. ResolvedSelected'
  BY <1>1, <1>4, <1>5 DEF IInv, ResolvedSelected
<1>10. SelectedResolved'
  BY <1>1, <1>4 DEF IInv, SelectedResolved
<1>11. ASSUME NEW s, Accounted(s) PROVE Accounted(s)'
  <2>1. CASE s = s0
    BY <1>1, <1>4, <1>5, <2>1 DEF Accounted
  <2>2. CASE s # s0
    BY <1>1, <1>4, <1>8, <1>11, <2>2 DEF Accounted
  <2>3. QED
    BY <2>1, <2>2
<1>12. ASSUME NEW s \in added.undefined PROVE Accounted(s)'
  <2>1. CASE s \in known
    BY <1>1, <1>4, <1>9, <2>1 DEF ResolvedSelected, Accounted
  <2>2. CASE s \in input.external_roots
    BY <1>1, <2>2 DEF Accounted
  <2>3. CASE s \notin known /\ s \notin input.external_roots
    <3>1. s \in Dependencies(added, known)
      BY <2>3 DEF Dependencies
    <3>2. s \in Elements(pending')
      BY <1>7, <1>8, <3>1
    <3>3. QED
      BY <3>2 DEF Accounted
  <2>4. QED
    BY <2>1, <2>2, <2>3
<1>13. Sufficient'
  <2>1. Running
    BY <1>1 DEF Running
  <2>2. ASSUME NEW s \in Elements(input.roots) \cup Elements(input.callback_roots)
        PROVE  Accounted(s)'
    BY <1>11, <2>1 DEF IInv, Sufficient
  <2>3. ASSUME NEW m \in selected', NEW s \in input.members[m].undefined
        PROVE  Accounted(s)'
    BY <1>4, <1>11, <1>12, <2>1 DEF IInv, Sufficient
  <2>4. QED
    BY <1>1, <2>2, <2>3 DEF Sufficient
<1>14. Typed'
  <2>1. known \subseteq Symbols
    BY <1>1, <1>6, PoppedQueue DEF IInv, Typed
  <2>2. QED
    BY <1>1, <1>4, <1>5, <1>8, <2>1 DEF IInv, Typed
<1>15. QED
  BY <1>1, <1>9, <1>10, <1>13, <1>14 DEF IInv, NothingYet, QueueDone,
    RequiredUnprovided, CallbacksKnown, Running, CallbackKnown, Providers

\* The steps that leave the worklist alone: to "linked", to a report, or out.
LEMMA EndInv ==
  ASSUME IInv, UNCHANGED <<input, worklist>>,
         \/ pc = "closure" /\ pending = <<>> /\ pc' \in {"linked", "failed"}
         \/ pc = "load" /\ pc' = "failed"
         \/ pc = "linked" /\ pc' \in {"report", "checked", "failed"}
         \/ pc' = pc
  PROVE  IInv'
<1>1. /\ input' = input /\ pending' = pending /\ resolved' = resolved
      /\ selected' = selected /\ unresolved' = unresolved
  BY DEF worklist
<1>2. Typed'
  BY <1>1 DEF IInv, Typed
<1>3. NothingYet' /\ QueueDone'
  BY <1>1 DEF IInv, NothingYet, QueueDone
<1>4. Running' => Running
  BY DEF Running
<1>5. Sufficient' /\ CallbacksKnown'
  BY <1>1, <1>4 DEF IInv, Sufficient, Accounted, CallbacksKnown, CallbackKnown,
    Providers
<1>6. QED
  BY <1>1, <1>2, <1>3, <1>5 DEF IInv, SelectedResolved, ResolvedSelected,
    RequiredUnprovided, Providers

LEMMA AgainInv == IInv /\ Again => IInv'
<1> SUFFICES ASSUME IInv, Again PROVE IInv'
  OBVIOUS
<1>1. /\ input' \in Rebuilt /\ pc' = "load" /\ pending' = <<>>
      /\ resolved' = {} /\ selected' = {} /\ unresolved' = {}
  BY DEF Again
<1>2. WellFormed(input')
  <2>1. WellFormed(input)
    BY DEF IInv, Typed
  <2>2. CASE input' = input
    BY <2>1, <2>2
  <2>3. ASSUME NEW m \in DOMAIN input.members, NEW needs \in RebuiltNeeds,
               input' = [input EXCEPT !.members[m].undefined = needs]
        PROVE  WellFormed(input')
    <3> DEFINE new == [input.members[m] EXCEPT !.undefined = needs]
               members == [input.members EXCEPT ![m] = new]
    <3>1. input' = [input EXCEPT !.members = members]
      BY <2>3
    <3>2. new \in Members
      <4>1. input.members \in Seq(Members)
        BY <2>1 DEF WellFormed
      <4>2. input.members[m] \in Members
        BY <4>1
      <4>3. needs \in SUBSET Symbols
        BY NeedsAssumption
      <4>4. QED
        BY <4>2, <4>3 DEF Members
    <3>3. members \in Seq(Members)
      <4> HIDE DEF new
      <4>1. /\ input.members \in [1 .. Len(input.members) -> Members]
            /\ Len(input.members) \in Nat
        BY <2>1 DEF WellFormed
      <4>2. members \in [1 .. Len(input.members) -> Members]
        BY <3>2, <4>1
      <4> HIDE DEF members
      <4>3. QED
        BY <4>1, <4>2
    <3>4. QED
      <4> HIDE DEF members
      <4>1. QED
        BY <2>1, <3>1, <3>3 DEF WellFormed
  <2>4. QED
    BY <1>1, <2>2, <2>3 DEF Rebuilt
<1>3. Typed'
  BY <1>1, <1>2 DEF Typed
<1>4. QED
  BY <1>1, <1>3 DEF IInv, NothingYet, QueueDone, SelectedResolved,
    ResolvedSelected, RequiredUnprovided, CallbacksKnown, Running, Sufficient

LEMMA NextInv == IInv /\ [Next]_vars => IInv'
<1> SUFFICES ASSUME IInv, [Next]_vars PROVE IInv'
  OBVIOUS
<1>1. CASE Load
  BY <1>1, LoadInv
<1>2. CASE Skip
  BY <1>2, SkipInv
<1>3. CASE NoProvider
  BY <1>3, NoProviderInv
<1>4. CASE Provide
  BY <1>4, ProvideInv
<1>5. CASE Finish
  BY <1>5, EndInv DEF Finish
<1>6. CASE Fail
  BY <1>6, EndInv DEF Fail
<1>7. CASE Write
  BY <1>7, EndInv DEF Write
<1>8. CASE Check
  BY <1>8, EndInv DEF Check
<1>9. CASE Again
  BY <1>9, AgainInv
<1>10. CASE Done \/ UNCHANGED vars
  BY <1>10, EndInv DEF Done, vars
<1>11. QED
  BY <1>1, <1>2, <1>3, <1>4, <1>5, <1>6, <1>7, <1>8, <1>9, <1>10 DEF Next, Step

\* The invariant holds in every state of every behaviour.
THEOREM Invariance == Spec => []IInv
<1>1. Init => IInv
  BY InitInv
<1>2. IInv /\ [Next]_vars => IInv'
  BY NextInv
<1>3. QED
  BY <1>1, <1>2, PTL DEF Spec

\* For all archives and profiles: the queue loses no symbol that a linked member
\* or the profile needs (ble_init_profile.rs:208-238).
THEOREM SufficientHolds == Spec => []Sufficient
<1>1. IInv => Sufficient
  BY DEF IInv
<1>2. QED
  BY <1>1, Invariance, PTL

\* A ROM callback that passed the check at the beginning is linked, or bound, at
\* the end: it cannot be among the required symbols, which nobody provides.
LEMMA LinkedCallbacks == IInv => CallbacksLinked
<1> SUFFICES ASSUME IInv, pc \in {"linked", "report", "checked"},
                    NEW s \in Elements(input.callback_roots)
             PROVE  \/ s \in input.external_roots
                    \/ \E m \in selected : s \in input.members[m].defined
  BY DEF CallbacksLinked
<1>1. Accounted(s) /\ CallbackKnown(s)
  BY DEF IInv, Sufficient, CallbacksKnown, Running
<1>2. s \notin Elements(pending)
  BY DEF IInv, QueueDone, Elements
<1>3. CASE s \in unresolved
  BY <1>1, <1>3 DEF IInv, RequiredUnprovided, CallbackKnown
<1>4. QED
  BY <1>1, <1>2, <1>3 DEF Accounted

-----------------------------------------------------------------------------
(* Nothing is linked without a reason. What the report lists is selected, and   *)
(* what waits in the queue is wanted by the profile or by a selected member;    *)
(* whatever is selected next has its reason among the members before it.        *)

Entries == [member : Nat, selected_by : Symbols]
Reasoned(symbol) ==
  symbol \in Wanted \/ \E m \in selected : symbol \in input.members[m].undefined

ListTyped == selected_members \in Seq(Entries)
SelectedListed ==
  selected = {selected_members[i].member : i \in DOMAIN selected_members}
PendingReasoned == \A s \in Elements(pending) : Reasoned(s)
LinkedAdmissible == pc \in {"linked", "report", "checked"} => Admissible
CheckedReported == pc = "checked" => committed = Report

JInv == /\ ListTyped /\ SelectedListed /\ PendingReasoned /\ Justified
        /\ LinkedAdmissible /\ CheckedReported

LEMMA InitListed == Init => JInv
BY DEF Init, JInv, ListTyped, SelectedListed, PendingReasoned, Justified,
  LinkedAdmissible, CheckedReported, Elements

\* A step that makes the queue no longer, or fills it with what the profile wants.
LEMMA QueueListed ==
  ASSUME JInv, pc' = "closure",
         UNCHANGED <<input, selected, selected_members>>,
         \A s \in Elements(pending') : s \in Elements(pending) \/ s \in Wanted
  PROVE  JInv'
<1>1. PendingReasoned'
  BY DEF JInv, PendingReasoned, Reasoned, Wanted
<1>2. ListTyped' /\ SelectedListed' /\ Justified'
  BY DEF JInv, ListTyped, SelectedListed, Justified
<1>3. QED
  BY <1>1, <1>2 DEF JInv, LinkedAdmissible, CheckedReported

LEMMA LoadListed == IInv /\ JInv /\ Load => JInv'
<1> SUFFICES ASSUME IInv, JInv, Load PROVE JInv'
  OBVIOUS
<1>1. /\ pc' = "closure" /\ pending' = input.roots \o input.callback_roots
      /\ UNCHANGED <<input, selected, selected_members>>
  BY DEF Load
<1>2. input.roots \in Seq(Symbols) /\ input.callback_roots \in Seq(Symbols)
  BY DEF IInv, Typed, WellFormed
<1>3. Elements(pending') = Wanted
  BY <1>1, <1>2, AppendedQueue DEF Wanted
<1>4. QED
  BY <1>1, <1>3, QueueListed

LEMMA PopListed == IInv /\ JInv /\ (Skip \/ NoProvider) => JInv'
<1> SUFFICES ASSUME IInv, JInv, Skip \/ NoProvider PROVE JInv'
  OBVIOUS
<1>1. /\ pc' = "closure" /\ pending # <<>> /\ pending' = Tail(pending)
      /\ UNCHANGED <<input, selected, selected_members>>
  BY DEF Skip, NoProvider
<1>2. Elements(pending) = {Head(pending)} \cup Elements(pending')
  BY <1>1, PoppedQueue DEF IInv, Typed
<1>3. QED
  BY <1>1, <1>2, QueueListed

LEMMA ProvideListed == IInv /\ JInv /\ Provide => JInv'
<1> SUFFICES ASSUME IInv, JInv, Provide PROVE JInv'
  OBVIOUS
<1> DEFINE s0 == Head(pending)
           m0 == Provider(s0)
           added == input.members[m0]
           known == resolved \cup {s0} \cup added.defined
           e0 == [member |-> m0, selected_by |-> s0]
           n0 == Len(selected_members)
<1>1. /\ pc = "closure" /\ pc' = pc /\ pending # <<>>
      /\ ~Settled(s0) /\ Providers(s0) # {} /\ input' = input
  BY DEF Provide
<1>2. m0 \notin selected
  BY <1>1, ProviderIsNew
<1>3. PICK more \in Ascending(Dependencies(added, known)) :
        pending' = Tail(pending) \o more
  BY <1>2 DEF Provide
<1>4. selected' = selected \cup {m0} /\ selected_members' = Append(selected_members, e0)
  BY <1>2 DEF Provide
<1>5. /\ m0 \in DOMAIN input.members /\ s0 \in added.defined
      /\ \A n \in Providers(s0) : m0 <= n
  BY <1>1, ProviderProvides DEF IInv, Typed
<1>6. DOMAIN input.members = 1 .. Len(input.members) /\ Len(input.members) \in Nat
  BY DEF IInv, Typed, WellFormed
<1>7. /\ Tail(pending) \in Seq(Symbols) /\ s0 \in Symbols
      /\ Elements(pending) = {s0} \cup Elements(Tail(pending))
  BY <1>1, PoppedQueue DEF IInv, Typed
<1>8. e0 \in Entries
  BY <1>5, <1>6, <1>7 DEF Entries
<1>9. /\ n0 \in Nat /\ DOMAIN selected_members = 1 .. n0
      /\ DOMAIN selected_members' = 1 .. n0 + 1
      /\ \A i \in 1 .. n0 : selected_members'[i] = selected_members[i]
      /\ selected_members'[n0 + 1] = e0
      /\ selected_members' \in Seq(Entries)
  <2> HIDE DEF e0
  <2>1. QED
    BY <1>4, <1>8 DEF JInv, ListTyped
<1>10. ListTyped'
  BY <1>9 DEF ListTyped
<1>11. SelectedListed'
  <2>1. selected = {selected_members[i].member : i \in 1 .. n0}
    BY <1>9 DEF JInv, SelectedListed
  <2>2. ASSUME NEW m \in selected'
        PROVE  \E i \in 1 .. n0 + 1 : selected_members'[i].member = m
    <3>1. CASE m = m0
      BY <1>9, <3>1
    <3>2. CASE m \in selected
      <4>1. PICK i \in 1 .. n0 : m = selected_members[i].member
        BY <2>1, <3>2
      <4>2. i \in 1 .. n0 + 1 /\ selected_members'[i] = selected_members[i]
        BY <1>9
      <4>3. QED
        BY <4>1, <4>2
    <3>3. QED
      BY <1>4, <3>1, <3>2
  <2>3. ASSUME NEW i \in 1 .. n0 + 1
        PROVE  selected_members'[i].member \in selected'
    <3>1. CASE i = n0 + 1
      BY <1>4, <1>9, <3>1
    <3>2. CASE i # n0 + 1
      <4>1. i \in 1 .. n0
        BY <1>9, <3>2
      <4>2. QED
        BY <1>4, <1>9, <2>1, <4>1
    <3>3. QED
      BY <3>1, <3>2
  <2>4. QED
    BY <1>9, <2>2, <2>3 DEF SelectedListed
<1>12. PendingReasoned'
  <2> DEFINE missing == Dependencies(added, known)
  <2>1. added.undefined \subseteq Symbols
    <3>1. input.members \in Seq(Members)
      BY DEF IInv, Typed, WellFormed
    <3>2. added \in Members
      BY <1>5, <3>1
    <3>3. QED
      BY <3>2 DEF Members
  <2>2. missing \subseteq added.undefined
    BY DEF Dependencies
  <2>3. more \in [1 .. Cardinality(missing) -> missing]
    BY <1>3 DEF Ascending
  <2>4. more \in Seq(Symbols) /\ \A x \in Elements(more) : x \in missing
    <3>1. Cardinality(missing) \in Nat
      BY <2>1, <2>2, SymbolsAssumption, FS_Subset, FS_CardinalityType
    <3> HIDE DEF missing
    <3>2. more \in [1 .. Cardinality(missing) -> Symbols]
      BY <2>1, <2>2, <2>3
    <3>3. QED
      BY <2>3, <3>1, <3>2 DEF Elements
  <2>5. Elements(pending') = Elements(Tail(pending)) \cup Elements(more)
    <3> HIDE DEF missing
    <3>1. Tail(pending) \in Seq(Symbols) /\ more \in Seq(Symbols)
      BY <1>7, <2>4
    <3>2. Elements(Tail(pending) \o more) = Elements(Tail(pending)) \cup Elements(more)
      BY <3>1, AppendedQueue, ZenonT(60)
    <3>3. QED
      BY <1>3, <3>2 DEF Elements
  <2>6. ASSUME NEW s, Reasoned(s) PROVE Reasoned(s)'
    BY <1>1, <1>4, <2>6 DEF Reasoned, Wanted
  <2>7. ASSUME NEW s \in Elements(more) PROVE Reasoned(s)'
    BY <1>1, <1>4, <2>2, <2>4 DEF Reasoned
  <2>8. ASSUME NEW s \in Elements(Tail(pending)) PROVE Reasoned(s)'
    BY <1>7, <2>6 DEF JInv, PendingReasoned
  <2>9. QED
    BY <2>5, <2>7, <2>8 DEF PendingReasoned
<1>13. Justified'
  <2> DEFINE Reason(i) ==
               LET m == selected_members'[i].member
                   s == selected_members'[i].selected_by
               IN  /\ \A n \in 1 .. m - 1 : s \notin input.members[n].defined
                   /\ s \in input.members[m].defined
                   /\ \A j \in DOMAIN selected_members' :
                        j # i => selected_members'[j].member # m
                   /\ \/ s \in Wanted
                      \/ \E j \in 1 .. i - 1 :
                           s \in input.members[selected_members'[j].member].undefined
  <2>1. \A i \in 1 .. n0 : selected_members[i].member # m0
    BY <1>2, <1>9 DEF JInv, SelectedListed
  <2>2. Reason(n0 + 1)
    <3>1. \A n \in 1 .. m0 - 1 : s0 \notin input.members[n].defined
      <4> SUFFICES ASSUME NEW n \in 1 .. m0 - 1, s0 \in input.members[n].defined
                   PROVE  FALSE
        OBVIOUS
      <4>1. n \in DOMAIN input.members /\ ~(m0 <= n)
        BY <1>5, <1>6
      <4>2. n \in Providers(s0)
        BY <4>1 DEF Providers
      <4>3. QED
        BY <1>5, <4>1, <4>2
    <3>2. \A j \in 1 .. n0 + 1 : j # n0 + 1 => selected_members'[j].member # m0
      BY <1>9, <2>1
    <3>3. \/ s0 \in Wanted
          \/ \E j \in 1 .. n0 :
               s0 \in input.members[selected_members'[j].member].undefined
      <4>1. Reasoned(s0)
        BY <1>7 DEF JInv, PendingReasoned
      <4>2. \A m \in selected : \E j \in 1 .. n0 : selected_members[j].member = m
        BY <1>9 DEF JInv, SelectedListed
      <4>3. QED
        BY <1>9, <4>1, <4>2, SMTT(40) DEF Reasoned
    <3>4. (n0 + 1) - 1 = n0
      BY <1>9
    <3>5. e0.member = m0 /\ e0.selected_by = s0
      OBVIOUS
    <3> HIDE DEF e0, m0, s0, n0
    <3>6. QED
      BY <1>5, <1>9, <3>1, <3>2, <3>3, <3>4, <3>5
  <2>3. ASSUME NEW i \in 1 .. n0 PROVE Reason(i)
    <3> DEFINE m == selected_members[i].member
               s == selected_members[i].selected_by
    <3>1. /\ \A n \in 1 .. m - 1 : s \notin input.members[n].defined
          /\ s \in input.members[m].defined
          /\ \A j \in 1 .. n0 : j # i => selected_members[j].member # m
          /\ \/ s \in Wanted
             \/ \E j \in 1 .. i - 1 :
                  s \in input.members[selected_members[j].member].undefined
      BY <1>9 DEF JInv, Justified, Wanted
    <3>2. selected_members'[i] = selected_members[i]
      BY <1>9
    <3>3. \A j \in 1 .. n0 + 1 : j # i => selected_members'[j].member # m
      <4> SUFFICES ASSUME NEW j \in 1 .. n0 + 1, j # i
                   PROVE  selected_members'[j].member # m
        OBVIOUS
      <4>1. CASE j = n0 + 1
        BY <1>9, <2>1, <4>1
      <4>2. CASE j # n0 + 1
        <5>1. j \in 1 .. n0
          BY <1>9, <4>2
        <5>2. QED
          BY <1>9, <3>1, <5>1
      <4>3. QED
        BY <4>1, <4>2
    <3>4. \A j \in 1 .. i - 1 : selected_members'[j] = selected_members[j]
      BY <1>9
    <3> HIDE DEF n0
    <3>5. QED
      BY <1>9, <3>1, <3>2, <3>3, <3>4
  <2>4. \A i \in 1 .. n0 + 1 : Reason(i)
    <3> SUFFICES ASSUME NEW i \in 1 .. n0 + 1 PROVE Reason(i)
      OBVIOUS
    <3> HIDE DEF Reason
    <3>1. i \in 1 .. n0 \/ i = n0 + 1
      BY <1>9
    <3>2. QED
      BY <2>2, <2>3, <3>1
  <2>5. QED
    BY <1>1, <1>9, <2>4 DEF Justified, Wanted
<1>14. QED
  BY <1>1, <1>10, <1>11, <1>12, <1>13 DEF JInv, LinkedAdmissible, CheckedReported

\* The steps that leave the worklist alone.
LEMMA EndListed ==
  ASSUME JInv, UNCHANGED <<input, worklist>>,
         pc' \in {"linked", "report", "checked"} =>
           pc \in {"linked", "report", "checked"} \/ Admissible,
         pc' = "checked" => committed' = Report
  PROVE  JInv'
<1>1. /\ input' = input /\ pending' = pending /\ selected' = selected
      /\ selected_members' = selected_members /\ unresolved' = unresolved
  BY DEF worklist
<1>2. ListTyped' /\ SelectedListed' /\ PendingReasoned'
  BY <1>1 DEF JInv, ListTyped, SelectedListed, PendingReasoned, Reasoned, Wanted
<1>3. Justified'
  BY <1>1 DEF JInv, Justified
<1>4. LinkedAdmissible'
  BY <1>1 DEF JInv, LinkedAdmissible, Admissible
<1>5. CheckedReported'
  BY <1>1 DEF CheckedReported, Report, Sizes
<1>6. QED
  BY <1>2, <1>3, <1>4, <1>5 DEF JInv

LEMMA AgainListed == JInv /\ Again => JInv'
BY DEF Again, JInv, ListTyped, SelectedListed, PendingReasoned, Justified,
  LinkedAdmissible, CheckedReported, Elements

LEMMA NextListed == IInv /\ JInv /\ [Next]_vars => JInv'
<1> SUFFICES ASSUME IInv, JInv, [Next]_vars PROVE JInv'
  OBVIOUS
<1>1. CASE Load
  BY <1>1, LoadListed
<1>2. CASE Skip \/ NoProvider
  BY <1>2, PopListed
<1>3. CASE Provide
  BY <1>3, ProvideListed
<1>4. CASE Finish
  BY <1>4, EndListed DEF Finish
<1>5. CASE Fail
  BY <1>5, EndListed DEF Fail
<1>6. CASE Write
  BY <1>6, EndListed DEF Write
<1>7. CASE Check
  BY <1>7, EndListed DEF Check, UpToDate
<1>8. CASE Again
  BY <1>8, AgainListed
<1>9. CASE Done \/ UNCHANGED vars
  <2>1. /\ UNCHANGED <<input, worklist>> /\ pc' = pc /\ committed' = committed
    BY <1>9 DEF Done, vars
  <2>2. pc' = "checked" => committed' = Report
    BY <2>1 DEF JInv, CheckedReported
  <2>3. QED
    BY <2>1, <2>2, EndListed
<1>10. QED
  BY <1>1, <1>2, <1>3, <1>4, <1>5, <1>6, <1>7, <1>8, <1>9 DEF Next, Step

\* Both invariants hold in every state of every behaviour.
THEOREM ListedInvariance == Spec => [](IInv /\ JInv)
<1>1. Init => IInv /\ JInv
  BY InitInv, InitListed
<1>2. IInv /\ JInv /\ [Next]_vars => (IInv /\ JInv)'
  BY NextInv, NextListed
<1>3. QED
  BY <1>1, <1>2, PTL DEF Spec

\* For all archives and profiles: each member is selected once, by a symbol that it
\* is the first to define and that a root or an earlier member needs, and no
\* symbol is resolved and required at once (ble_init_profile.rs:208-238).
THEOREM SelectionSoundHolds == Spec => []SelectionSound
<1>1. ASSUME IInv, JInv PROVE SelectionSound
  <2>1. unresolved \subseteq Symbols \ resolved
    <3>1. unresolved \subseteq Symbols
      BY <1>1 DEF IInv, Typed
    <3>2. ASSUME NEW s \in unresolved, s \in resolved PROVE FALSE
      <4>1. Providers(s) = {}
        BY <1>1 DEF IInv, RequiredUnprovided
      <4>2. PICK m \in selected : s \in input.members[m].defined
        BY <1>1, <3>2 DEF IInv, ResolvedSelected
      <4>3. m \in Providers(s)
        BY <1>1, <4>2 DEF IInv, Typed, Providers
      <4>4. QED
        BY <4>1, <4>3
    <3>3. QED
      BY <3>1, <3>2
  <2>2. \A i \in DOMAIN selected_members :
          /\ selected_members[i].member \in selected
          /\ selected_members[i].selected_by \in Symbols
    <3> SUFFICES ASSUME NEW i \in DOMAIN selected_members
                 PROVE  /\ selected_members[i].member \in selected
                        /\ selected_members[i].selected_by \in Symbols
      OBVIOUS
    <3>1. selected_members[i] \in Entries
      BY <1>1 DEF JInv, ListTyped
    <3>2. selected_members[i].member \in selected
      BY <1>1 DEF JInv, SelectedListed
    <3>3. QED
      BY <3>1, <3>2 DEF Entries
  <2>3. TypeOK
    BY <1>1, <2>1, <2>2 DEF IInv, Typed, TypeOK
  <2>4. QED
    BY <1>1, <2>3 DEF JInv, SelectionSound
<1>2. IInv /\ JInv => SelectionSound
  BY <1>1
<1>3. QED
  BY <1>2, ListedInvariance, PTL

\* For all archives and profiles: a report's callbacks and tasks have code or an
\* owner, and one that passes --check is about the archives that are there
\* (ble_init_profile.rs:186-197, 240-325).
THEOREM ReportHoldsAlways == Spec => []ReportHolds
<1>1. ASSUME IInv, JInv PROVE TasksStartable
  <2> SUFFICES ASSUME pc \in {"linked", "report", "checked"},
                      NEW i \in DOMAIN input.tasks
               PROVE  LET task_entry == input.tasks[i].entry
                      IN  \/ task_entry \in input.external_roots \cup input.owned
                          \/ \E m \in selected : task_entry \in input.members[m].defined
    BY DEF TasksStartable
  <2> DEFINE task_entry == input.tasks[i].entry
  <2>1. /\ unresolved \subseteq input.owned
        /\ task_entry \in Elements(input.roots) \cup input.external_roots
    BY <1>1 DEF JInv, LinkedAdmissible, Admissible
  <2>2. \A s : s \notin Elements(pending)
    BY <1>1 DEF IInv, QueueDone, Elements
  <2>3. task_entry \in Elements(input.roots) => Accounted(task_entry)
    BY <1>1 DEF IInv, Sufficient, Running
  <2>4. QED
    BY <2>1, <2>2, <2>3 DEF Accounted
<1>2. ASSUME IInv, JInv PROVE CheckedIsCurrent
  <2> SUFFICES ASSUME pc = "checked" PROVE CheckedIsCurrent
    BY DEF CheckedIsCurrent
  <2>1. committed.selected = selected_members /\ committed.required = unresolved
    BY <1>2 DEF JInv, CheckedReported, Report
  <2>2. {e.member : e \in Elements(committed.selected)} = selected
    BY <1>2, <2>1 DEF JInv, SelectedListed, Elements
  <2>3. \A s : s \notin Elements(pending)
    BY <1>2 DEF IInv, QueueDone, Elements
  <2>4. ASSUME NEW m \in selected, NEW s \in input.members[m].undefined
        PROVE  \/ \E n \in selected : s \in input.members[n].defined
               \/ s \in input.external_roots \cup committed.required
    <3>1. Accounted(s)
      BY <1>2 DEF IInv, Sufficient, Running
    <3>2. QED
      BY <2>1, <2>3, <3>1 DEF Accounted
  <2>5. ASSUME NEW e \in Elements(committed.selected)
        PROVE  \/ e.selected_by \in Elements(input.roots)
                                      \cup Elements(input.callback_roots)
               \/ \E m \in selected : e.selected_by \in input.members[m].undefined
    <3>1. PICK i \in DOMAIN selected_members : e = selected_members[i]
      BY <2>1 DEF Elements
    <3>2. \A j \in 1 .. i - 1 : selected_members[j].member \in selected
      <4>1. DOMAIN selected_members = 1 .. Len(selected_members)
        BY <1>2 DEF JInv, ListTyped
      <4>2. Len(selected_members) \in Nat
        BY <1>2 DEF JInv, ListTyped
      <4>3. \A j \in 1 .. i - 1 : j \in DOMAIN selected_members
        BY <3>1, <4>1, <4>2
      <4>4. QED
        BY <1>2, <4>3 DEF JInv, SelectedListed
    <3>3. \/ e.selected_by \in Elements(input.roots) \cup Elements(input.callback_roots)
          \/ \E j \in 1 .. i - 1 :
               e.selected_by \in input.members[selected_members[j].member].undefined
      BY <1>2, <3>1 DEF JInv, Justified
    <3>4. QED
      BY <3>2, <3>3
  <2>6. QED
    BY <2>2, <2>4, <2>5 DEF CheckedIsCurrent
<1>3. ASSUME IInv, JInv PROVE ReportHolds
  BY <1>1, <1>2, <1>3, LinkedCallbacks DEF ReportHolds
<1>4. IInv /\ JInv => ReportHolds
  BY <1>3
<1>5. QED
  BY <1>4, ListedInvariance, PTL

-----------------------------------------------------------------------------
(* normalize and verify-normalized.                                            *)

ARTIFACTS == [archive : Names, input : D!Files, output : D!Files]

\* A list says of the first of some archives what they were rewritten to.
Made(made, paths) ==
  /\ made \in Seq(ARTIFACTS) /\ paths \in Seq(D!Paths)
  /\ Len(made) <= Len(paths)
  /\ \A i \in 1 .. Len(made) :
       /\ made[i].archive = paths[i][2]
       /\ made[i].output = D!Normalized(made[i].input)
       /\ made[i].input.form \notin {"refused", "torn"}

\* A manifest lists a run that came to its end; a run knows what it has done.
RunsListed ==
  /\ files \in [D!Paths -> D!Files]
  /\ at \in D!Resting \cup {"normalize", "write", "hash", "inspect"}
  /\ arguments \in Seq(D!Paths) /\ index \in Nat \ {0}
  /\ replaced \in 0 .. MaxDirectoryReplaced /\ runs \in 0 .. MaxRuns
  /\ manifest # NO_MANIFEST =>
       /\ Made(manifest.artifacts, manifest.arguments)
       /\ Len(manifest.artifacts) = Len(manifest.arguments)
  /\ at \in {"normalize", "write", "finished"} => Made(artifacts, arguments)
  /\ at \in {"normalize", "write"} => Len(artifacts) = index - 1
  /\ at = "write" => /\ index <= Len(arguments) /\ data \in D!Files
                     /\ data.form \notin {"refused", "torn"}
  /\ at = "finished" => /\ Len(artifacts) = Len(arguments)
                        /\ manifest.artifacts = artifacts
  /\ at \in {"hash", "inspect", "accepted"} => manifest # NO_MANIFEST
  /\ at = "inspect" => index <= Len(manifest.artifacts)
  /\ at = "accepted" => index > Len(manifest.artifacts)

\* While nobody touches a file: what the run has listed is there, unless two of
\* its archives have one name; and what the verification has passed.
ThereAsListed ==
  ~touched =>
    /\ at \in {"normalize", "write", "finished"} /\ D!Distinct(arguments) =>
         \A i \in 1 .. Len(artifacts) :
           files[D!Out(artifacts[i].archive)] = artifacts[i].output
    /\ at \in {"hash", "inspect", "accepted"} =>
         \A i \in 1 .. Len(manifest.artifacts) : i < index =>
           /\ files[D!Out(manifest.artifacts[i].archive)]
                = manifest.artifacts[i].output
           /\ manifest.artifacts[i].output.form \in {"plain", "short"}
    /\ at = "inspect" =>
         files[D!Out(manifest.artifacts[index].archive)]
           = manifest.artifacts[index].output

DirectoryInv == RunsListed /\ ThereAsListed

\* What the normalizer makes of a file that it does not refuse.
LEMMA NormalizedForm ==
  ASSUME NEW f \in D!Files, f.form \notin {"refused", "torn"}
  PROVE  /\ D!Normalized(f) \in D!Files
         /\ D!Normalized(f).form \notin {"vendor", "refused", "torn"}
BY DEF D!Normalized, D!Files

\* A list becomes longer by the archive that comes next.
OneMore(made, paths, file) ==
  Append(made, D!Artifact(paths[Len(made) + 1][2], file))

LEMMA MadeLonger ==
  ASSUME NEW made, NEW paths, Made(made, paths), Len(made) < Len(paths),
         NEW f \in D!Files, f.form \notin {"refused", "torn"},
         NEW longer, longer = OneMore(made, paths, f)
  PROVE  /\ Made(longer, paths) /\ Len(longer) = Len(made) + 1
         /\ \A i \in 1 .. Len(made) : longer[i] = made[i]
         /\ longer[Len(made) + 1].archive = paths[Len(made) + 1][2]
         /\ longer[Len(made) + 1].output = D!Normalized(f)
<1>1. PICK n \in Nat : n = Len(made)
  BY DEF Made
<1>2. PICK a : a = D!Artifact(paths[n + 1][2], f) /\ longer = Append(made, a)
  BY <1>1 DEF OneMore
<1>3. n + 1 \in 1 .. Len(paths) /\ paths[n + 1] \in D!Paths
  BY <1>1 DEF Made
<1>4. /\ a \in ARTIFACTS /\ a.archive = paths[n + 1][2] /\ a.input = f
      /\ a.output = D!Normalized(f)
  BY <1>2, <1>3, NormalizedForm DEF D!Artifact, ARTIFACTS, D!Paths
<1>5. /\ longer \in Seq(ARTIFACTS) /\ Len(longer) = n + 1 /\ longer[n + 1] = a
      /\ \A i \in 1 .. n : longer[i] = made[i]
  BY <1>1, <1>2, <1>4 DEF Made
<1>6. Made(longer, paths)
  BY <1>1, <1>3, <1>4, <1>5 DEF Made
<1> QED BY <1>1, <1>4, <1>5, <1>6

LEMMA DirectoryBegins == D!Init => DirectoryInv
<1> SUFFICES ASSUME D!Init PROVE DirectoryInv
  OBVIOUS
<1>1. files \in [D!Paths -> D!Files]
  BY DEF D!Init, D!Files
<1>2. RunsListed
  BY <1>1, DirectoryAssumption DEF D!Init, RunsListed, D!Resting
<1>3. ThereAsListed
  BY DEF D!Init, ThereAsListed
<1> QED BY <1>2, <1>3 DEF DirectoryInv

LEMMA StartLists == DirectoryInv /\ D!Start => DirectoryInv'
<1> SUFFICES ASSUME DirectoryInv, D!Start PROVE DirectoryInv'
  OBVIOUS
<1>1. /\ arguments' \in Seq(D!Paths) /\ at' = "normalize" /\ index' = 1
      /\ artifacts' = <<>> /\ runs' \in 0 .. MaxRuns
  BY DirectoryAssumption DEF D!Start, DirectoryInv, RunsListed
<1>2. Made(artifacts', arguments') /\ Len(artifacts') = 0
  BY <1>1 DEF Made
<1>3. RunsListed'
  BY <1>1, <1>2 DEF D!Start, DirectoryInv, RunsListed, Made
<1>4. ThereAsListed'
  BY <1>1, <1>2 DEF ThereAsListed
<1> QED BY <1>3, <1>4 DEF DirectoryInv

LEMMA NormalizeLists == DirectoryInv /\ D!NormalizeArchive => DirectoryInv'
<1> SUFFICES ASSUME DirectoryInv, D!NormalizeArchive PROVE DirectoryInv'
  OBVIOUS
<1>1. /\ at = "normalize" /\ index <= Len(arguments)
      /\ UNCHANGED <<files, manifest, arguments, index, artifacts, touched,
                     replaced, runs>>
      /\ RunsListed /\ ThereAsListed
  BY DEF D!NormalizeArchive, DirectoryInv
<1>2. PICK file : file = files[arguments[index]]
  OBVIOUS
<1>3. file \in D!Files
  <2>1. arguments[index] \in D!Paths
    BY <1>1 DEF RunsListed
  <2> QED BY <1>1, <1>2, <2>1 DEF RunsListed
<1>4. \/ at' = "idle"
      \/ at' = "write" /\ data' = file /\ file.form \notin {"refused", "torn"}
  BY <1>2 DEF D!NormalizeArchive
<1>5. RunsListed'
  BY <1>1, <1>3, <1>4 DEF RunsListed, D!Resting, Made
<1>6. ThereAsListed'
  BY <1>1, <1>4 DEF ThereAsListed, D!Distinct
<1> QED BY <1>5, <1>6 DEF DirectoryInv

LEMMA WriteLists == DirectoryInv /\ D!WriteArchive => DirectoryInv'
<1> SUFFICES ASSUME DirectoryInv, D!WriteArchive PROVE DirectoryInv'
  OBVIOUS
<1>1. /\ at = "write" /\ at' = "normalize" /\ index' = index + 1
      /\ files' = [files EXCEPT ![D!Out(arguments[index][2])] = D!Normalized(data)]
      /\ artifacts' = Append(artifacts, D!Artifact(arguments[index][2], data))
      /\ UNCHANGED <<manifest, arguments, data, touched, replaced, runs>>
      /\ RunsListed /\ ThereAsListed
  BY DEF D!WriteArchive, DirectoryInv
<1>2. PICK n \in Nat : n = Len(artifacts) /\ index = n + 1 /\ n < Len(arguments)
  BY <1>1 DEF RunsListed, Made
<1>3. PICK name : name = arguments[index][2]
  OBVIOUS
<1>4. name \in Names /\ D!Out(name) \in D!Paths
  <2>1. arguments[index] \in D!Paths
    BY <1>1, <1>2 DEF RunsListed
  <2> QED BY <1>3, <2>1 DEF D!Paths, D!Out
<1>5. /\ Made(artifacts, arguments) /\ data \in D!Files
      /\ data.form \notin {"refused", "torn"}
  BY <1>1 DEF RunsListed
<1>6. /\ Made(artifacts', arguments) /\ Len(artifacts') = n + 1
      /\ \A i \in 1 .. n : artifacts'[i] = artifacts[i]
      /\ artifacts'[n + 1].archive = name
      /\ artifacts'[n + 1].output = D!Normalized(data)
  <2>1. artifacts' = OneMore(artifacts, arguments, data)
    BY <1>1, <1>2 DEF OneMore
  <2>2. Len(artifacts) < Len(arguments)
    BY <1>2
  <2>3. /\ Made(artifacts', arguments) /\ Len(artifacts') = Len(artifacts) + 1
        /\ \A i \in 1 .. Len(artifacts) : artifacts'[i] = artifacts[i]
        /\ artifacts'[Len(artifacts) + 1].archive = arguments[Len(artifacts) + 1][2]
        /\ artifacts'[Len(artifacts) + 1].output = D!Normalized(data)
    BY <1>5, <2>1, <2>2, MadeLonger
  <2> QED BY <1>2, <1>3, <2>3
<1>7. files' \in [D!Paths -> D!Files]
  BY <1>1, <1>3, <1>4, <1>5, NormalizedForm DEF RunsListed
<1>8. RunsListed'
  BY <1>1, <1>2, <1>6, <1>7 DEF RunsListed, Made
<1>9. ASSUME ~touched, D!Distinct(arguments), NEW i \in 1 .. n + 1
      PROVE  files'[D!Out(artifacts'[i].archive)] = artifacts'[i].output
  <2>1. files \in [D!Paths -> D!Files]
    BY <1>1 DEF RunsListed
  <2>2. CASE i = n + 1
    BY <1>1, <1>3, <1>4, <1>6, <2>1, <2>2
  <2>3. CASE i # n + 1
    <3>1. i \in 1 .. n /\ artifacts'[i] = artifacts[i]
      BY <1>6, <2>3
    <3>2. /\ artifacts[i].archive = arguments[i][2]
          /\ files[D!Out(artifacts[i].archive)] = artifacts[i].output
      BY <1>1, <1>2, <1>5, <1>9, <3>1 DEF Made, ThereAsListed
    <3>3. arguments[i][2] # name
      BY <1>2, <1>3, <1>5, <1>9, <3>1 DEF D!Distinct, Made
    <3>4. D!Out(artifacts[i].archive) # D!Out(name)
      BY <3>2, <3>3 DEF D!Out
    <3>5. arguments[i] \in D!Paths
      BY <1>2, <1>5, <3>1 DEF Made
    <3>6. D!Out(artifacts[i].archive) \in D!Paths
      BY <3>2, <3>5 DEF D!Out, D!Paths
    <3> QED BY <1>1, <1>3, <2>1, <3>1, <3>2, <3>4, <3>6
  <2> QED BY <2>2, <2>3
<1>10. ThereAsListed'
  BY <1>1, <1>6, <1>9 DEF ThereAsListed, D!Distinct
<1> QED BY <1>8, <1>10 DEF DirectoryInv

LEMMA ManifestLists == DirectoryInv /\ D!WriteManifest => DirectoryInv'
<1> SUFFICES ASSUME DirectoryInv, D!WriteManifest PROVE DirectoryInv'
  OBVIOUS
<1>1. /\ at = "normalize" /\ at' = "finished" /\ index > Len(arguments)
      /\ manifest' = [artifacts |-> artifacts, arguments |-> arguments]
      /\ UNCHANGED <<files, arguments, index, artifacts, data, touched, replaced,
                     runs>>
      /\ RunsListed /\ ThereAsListed
  BY DEF D!WriteManifest, D!ManifestIsDue, DirectoryInv
<1>2. /\ Made(artifacts, arguments) /\ Len(artifacts) = Len(arguments)
  BY <1>1 DEF RunsListed, Made
<1>3. RunsListed'
  BY <1>1, <1>2 DEF RunsListed, D!Resting, Made
<1>4. ThereAsListed'
  BY <1>1 DEF ThereAsListed, D!Distinct
<1> QED BY <1>3, <1>4 DEF DirectoryInv

\* A run that is killed leaves no manifest but a complete one, and a file that is
\* of some form.
LEMMA CrashLists == DirectoryInv /\ D!Crash => DirectoryInv'
<1> SUFFICES ASSUME DirectoryInv, D!Crash PROVE DirectoryInv'
  OBVIOUS
<1>1. /\ at' = "idle"
      /\ UNCHANGED <<arguments, index, artifacts, data, touched, replaced, runs>>
      /\ RunsListed
      /\ manifest' = manifest \/ manifest' = NO_MANIFEST
  BY DEF D!Crash, DirectoryInv
<1>2. files' \in [D!Paths -> D!Files]
  <2>1. CASE files' = files
    BY <1>1, <2>1 DEF RunsListed
  <2>2. ASSUME at = "write", NEW form \in {"short", "torn"},
               files' = [files EXCEPT ![D!Out(arguments[index][2])] =
                           [build |-> data.build, form |-> form]]
        PROVE  files' \in [D!Paths -> D!Files]
    <3>1. data \in D!Files
      BY <1>1, <2>2 DEF RunsListed
    <3>2. [build |-> data.build, form |-> form] \in D!Files
      BY <3>1 DEF D!Files
    <3> QED BY <1>1, <2>2, <3>2 DEF RunsListed
  <2> QED BY <2>1, <2>2 DEF D!Crash
<1>3. RunsListed'
  BY <1>1, <1>2 DEF RunsListed, D!Resting, Made
<1>4. ThereAsListed'
  BY <1>1 DEF ThereAsListed
<1> QED BY <1>3, <1>4 DEF DirectoryInv

LEMMA VerifyLists ==
  DirectoryInv /\ (D!StartVerify \/ D!CheckHash \/ D!CheckInspect \/ D!Accept)
    => DirectoryInv'
<1> SUFFICES ASSUME DirectoryInv,
                    D!StartVerify \/ D!CheckHash \/ D!CheckInspect \/ D!Accept
             PROVE  DirectoryInv'
  OBVIOUS
<1>1. /\ UNCHANGED <<files, manifest, arguments, artifacts, data, replaced>>
      /\ RunsListed /\ ThereAsListed
  BY DEF D!StartVerify, D!CheckHash, D!CheckInspect, D!Accept, DirectoryInv
<1>2. CASE D!StartVerify
  <2>1. /\ at' = "hash" /\ index' = 1 /\ manifest # NO_MANIFEST
        /\ runs' \in 0 .. MaxRuns
    BY <1>1, <1>2, DirectoryAssumption DEF D!StartVerify, RunsListed
  <2>2. RunsListed'
    BY <1>1, <2>1 DEF RunsListed, Made
  <2>3. ThereAsListed'
    BY <1>1, <2>1 DEF ThereAsListed
  <2> QED BY <2>2, <2>3 DEF DirectoryInv
<1>3. CASE D!CheckHash
  <2>1. /\ at = "hash" /\ index <= Len(manifest.artifacts)
        /\ UNCHANGED <<index, touched, runs>>
        /\ \/ at' = "idle"
           \/ /\ at' = "inspect"
              /\ files[D!Out(manifest.artifacts[index].archive)]
                   = manifest.artifacts[index].output
    BY <1>3 DEF D!CheckHash, D!Expected
  <2>2. RunsListed'
    BY <1>1, <2>1 DEF RunsListed, D!Resting, Made
  <2>3. ThereAsListed'
    BY <1>1, <2>1 DEF ThereAsListed
  <2> QED BY <2>2, <2>3 DEF DirectoryInv
<1>4. CASE D!CheckInspect
  <2>1. PICK n : n = index
    OBVIOUS
  <2>2. /\ at = "inspect" /\ UNCHANGED <<touched, runs>>
        /\ \/ at' = "idle" /\ index' = n
           \/ /\ at' = "hash" /\ index' = n + 1
              /\ files[D!Out(manifest.artifacts[n].archive)].form
                   \notin {"torn", "vendor", "unknown", "refused"}
    BY <1>4, <2>1 DEF D!CheckInspect, D!Expected, D!HasVendorRelocations
  <2>3. /\ n \in 1 .. Len(manifest.artifacts)
        /\ Made(manifest.artifacts, manifest.arguments)
    BY <1>1, <2>1, <2>2, SMTT(40) DEF RunsListed
  <2>4. RunsListed'
    BY <1>1, <2>1, <2>2, <2>3 DEF RunsListed, D!Resting, Made
  <2>5. ASSUME ~touched, at' = "hash", NEW i \in 1 .. Len(manifest.artifacts),
               i < n + 1
        PROVE  /\ files[D!Out(manifest.artifacts[i].archive)]
                    = manifest.artifacts[i].output
               /\ manifest.artifacts[i].output.form \in {"plain", "short"}
    <3>1. CASE i < n
      BY <1>1, <2>1, <2>2, <2>5, <3>1 DEF ThereAsListed
    <3>2. CASE i = n
      <4>1. PICK a \in ARTIFACTS : a = manifest.artifacts[n]
        BY <2>3 DEF Made
      <4>2. files[D!Out(a.archive)] = a.output
        BY <1>1, <2>1, <2>2, <2>5, <4>1 DEF ThereAsListed
      <4>3. a.output.form \notin {"torn", "vendor", "unknown", "refused"}
        BY <2>2, <2>5, <4>1, <4>2
      <4>4. a.output.form \in {"plain", "short"}
        BY <4>3 DEF ARTIFACTS, D!Files
      <4> QED BY <3>2, <4>1, <4>2, <4>4
    <3> QED BY <2>3, <2>5, <3>1, <3>2
  <2>6. ThereAsListed'
    BY <1>1, <2>2, <2>5 DEF ThereAsListed
  <2> QED BY <2>4, <2>6 DEF DirectoryInv
<1>5. CASE D!Accept
  <2>1. /\ at = "hash" /\ at' = "accepted" /\ index > Len(manifest.artifacts)
        /\ UNCHANGED <<index, touched, runs>>
    BY <1>5 DEF D!Accept
  <2>2. RunsListed'
    BY <1>1, <2>1 DEF RunsListed, D!Resting, Made
  <2>3. ThereAsListed'
    BY <1>1, <2>1 DEF ThereAsListed
  <2> QED BY <2>2, <2>3 DEF DirectoryInv
<1> QED BY <1>2, <1>3, <1>4, <1>5

LEMMA ReplaceLists == DirectoryInv /\ D!Replace => DirectoryInv'
<1> SUFFICES ASSUME DirectoryInv, D!Replace PROVE DirectoryInv'
  OBVIOUS
<1>1. /\ UNCHANGED <<manifest, at, arguments, index, artifacts, data, runs>>
      /\ touched' = TRUE /\ RunsListed
      /\ replaced < MaxDirectoryReplaced /\ replaced' = replaced + 1
  BY DEF D!Replace, DirectoryInv
<1>2. /\ files' \in [D!Paths -> D!Files]
  BY <1>1 DEF D!Replace, RunsListed
<1>3. replaced' \in 0 .. MaxDirectoryReplaced
  BY <1>1, DirectoryAssumption DEF RunsListed
<1>4. RunsListed'
  BY <1>1, <1>2, <1>3 DEF RunsListed, Made
<1>5. ThereAsListed'
  BY <1>1 DEF ThereAsListed
<1> QED BY <1>4, <1>5 DEF DirectoryInv

\* Another command leaves the directory to itself.
LEMMA DirectoryKept ==
  ASSUME command = "normalize" => DirectoryInv,
         [CommandNext]_<<command, vars, pool>>
  PROVE  (command = "normalize" => DirectoryInv)'
<1>1. SUFFICES ASSUME command' = "normalize" PROVE DirectoryInv'
  OBVIOUS
<1>2. CASE UNCHANGED <<command, vars, pool>>
  <2>1. DirectoryInv
    BY <1>1, <1>2
  <2>2. UNCHANGED <<files, manifest, at, arguments, index, artifacts, data,
                    touched, replaced, runs>>
    BY <1>2 DEF pool, directory
  <2> QED BY <2>1, <2>2
          DEF DirectoryInv, RunsListed, ThereAsListed, Made, D!Distinct
<1>3. CASE CommandNext
  <2>1. command = "normalize" /\ D!Next
    BY <1>1, <1>3 DEF CommandNext
  <2>2. DirectoryInv
    BY <2>1
  <2>3. CASE D!Done
    <3>1. UNCHANGED <<files, manifest, at, arguments, index, artifacts, data,
                      touched, replaced, runs>>
      BY <2>3 DEF D!Done, D!vars
    <3> QED BY <2>2, <3>1
            DEF DirectoryInv, RunsListed, ThereAsListed, Made, D!Distinct
  <2> QED BY <2>1, <2>2, <2>3, StartLists, NormalizeLists, WriteLists, ManifestLists,
             CrashLists, VerifyLists, ReplaceLists DEF D!Next
<1> QED BY <1>2, <1>3

\* A directory that verify-normalized accepts, and the manifest of a run that
\* finished, say what is there, for any archives, any number of runs, wherever they
\* were killed, and whatever was replaced (main.rs:73-143, normalize.rs:846-879).
THEOREM DirectoryAgreesHolds == CommandSpec => []DirectoryAgrees
<1>1. CommandInit => (command = "normalize" => DirectoryInv)
  BY DirectoryBegins DEF CommandInit
<1>2. CommandSpec => [](command = "normalize" => DirectoryInv)
  BY <1>1, DirectoryKept, PTL DEF CommandSpec
<1>3. ASSUME DirectoryInv
      PROVE  D!DirectoryAgrees
  <2>1. RunsListed /\ ThereAsListed
    BY <1>3 DEF DirectoryInv
  <2>2. D!TypeOK
    BY <2>1 DEF RunsListed, D!TypeOK
  <2>3. D!AcceptedIsWhole
    <3>1. ASSUME at = "accepted", ~touched
          PROVE  /\ Len(manifest.artifacts) = Len(manifest.arguments)
                 /\ \A i \in DOMAIN manifest.arguments :
                      /\ files[D!Out(manifest.arguments[i][2])]
                           = D!Normalized(manifest.artifacts[i].input)
                      /\ files[D!Out(manifest.arguments[i][2])].form
                           \in {"plain", "short"}
      <4>1. /\ Made(manifest.artifacts, manifest.arguments)
            /\ Len(manifest.artifacts) = Len(manifest.arguments)
            /\ index > Len(manifest.artifacts)
        BY <2>1, <3>1 DEF RunsListed
      <4>2. DOMAIN manifest.arguments = 1 .. Len(manifest.artifacts)
        BY <4>1 DEF Made
      <4>3. ASSUME NEW i \in 1 .. Len(manifest.artifacts)
            PROVE  /\ files[D!Out(manifest.artifacts[i].archive)]
                        = manifest.artifacts[i].output
                   /\ manifest.artifacts[i].output.form \in {"plain", "short"}
        <5>1. i < index
          <6>1. index \in Nat /\ Len(manifest.artifacts) \in Nat
            BY <2>1, <4>1 DEF RunsListed, Made
          <6> QED BY <4>1, <6>1
        <5> QED BY <2>1, <3>1, <4>3, <5>1 DEF ThereAsListed
      <4> QED BY <4>1, <4>2, <4>3 DEF Made
    <3> QED BY <3>1 DEF D!AcceptedIsWhole
  <2>4. D!FinishedAgrees
    <3>1. ASSUME at = "finished", ~touched, D!Distinct(arguments)
          PROVE  \A i \in DOMAIN manifest.artifacts :
                   files[D!Out(manifest.artifacts[i].archive)]
                     = manifest.artifacts[i].output
      <4>1. manifest.artifacts = artifacts /\ DOMAIN artifacts = 1 .. Len(artifacts)
        BY <2>1, <3>1 DEF RunsListed, Made
      <4> QED BY <2>1, <3>1, <4>1 DEF ThereAsListed
    <3> QED BY <3>1 DEF D!FinishedAgrees
  <2> QED BY <2>2, <2>3, <2>4 DEF D!DirectoryAgrees
<1>4. (command = "normalize" => DirectoryInv) => DirectoryAgrees
  BY <1>3 DEF DirectoryAgrees
<1> QED BY <1>2, <1>4, PTL

-----------------------------------------------------------------------------
(* task-profile.                                                               *)

\* The lines before the n-th that describe a task, and those that measure it later.
Describes(l, id) == /\ l.kind = "TASK" /\ l.id # ABSENT /\ l.entry # ABSENT
                    /\ l.id % IdLimit = id
Measures(l, id) == l.kind = "METRIC" /\ l.id # ABSENT /\ l.id % IdLimit = id

Described(n, id) == {i \in 1 .. n - 1 : Describes(given.log[i], id)}
Measured(n, id, from) == {i \in 1 .. n - 1 : i > from /\ Measures(given.log[i], id)}

\* A task that was described is known by its last description.
KnownByLast(id) ==
  IF Described(line, id) = {} THEN id \notin DOMAIN tasks
  ELSE \E last \in Described(line, id) :
         /\ \A j \in Described(line, id) : j <= last
         /\ id \in DOMAIN tasks
         /\ tasks[id].entry = given.log[last].entry
         /\ tasks[id].runtime = {given.log[i].serial :
                                   i \in {last} \cup Measured(line, id, last)}

\* A row has the default role or one that the profile says.
RoleGiven(row) ==
  /\ row.role # ABSENT
  /\ row.role # T!DEFAULT_ROLE =>
       \E i \in DOMAIN given.profile :
         LET task == given.profile[i]
         IN  /\ task.role = row.role
             /\ task.wpa \in {ABSENT, T!SelectedWpa}
             /\ \/ task.entry_address = row.entry
                \/ \E k \in DOMAIN given.symbols :
                     /\ given.symbols[k].name = task.entry_symbol
                     /\ given.symbols[k].address = row.entry

TasksInv ==
  /\ given \in TaskInputs /\ at \in {"log", "report", "refused"}
  /\ line \in 1 .. Len(given.log) + 1
  /\ DOMAIN tasks \subseteq 0 .. IdLimit - 1
  /\ tasks = [id \in DOMAIN tasks |-> tasks[id]]
  /\ \A id \in DOMAIN tasks :
       tasks[id] = [entry |-> tasks[id].entry, runtime |-> tasks[id].runtime]
  /\ \A id \in 0 .. IdLimit - 1 : KnownByLast(id)
  /\ \A row \in report : RoleGiven(row)

LEMMA InputTyped ==
  ASSUME given \in TaskInputs
  PROVE  /\ given.log \in Seq([kind : {"TASK", "METRIC", "other"},
                               id : Nat \cup {ABSENT}, entry : Nat \cup {ABSENT},
                               serial : Nat, task : Nat])
         /\ DOMAIN given.symbols = 1 .. Len(given.symbols)
         /\ DOMAIN given.profile = 1 .. Len(given.profile)
         /\ Len(given.symbols) \in Nat /\ Len(given.profile) \in Nat
         /\ IdLimit \in Nat \ {0}
<1>1. /\ given.log \in Seq([kind : {"TASK", "METRIC", "other"},
                            id : Nat \cup {ABSENT}, entry : Nat \cup {ABSENT},
                            serial : Nat, task : Nat])
      /\ IdLimit \in Nat \ {0}
  BY TaskAssumption, Zenon
<1>2. PICK N1, P1 : given.symbols \in Seq(N1) /\ given.profile \in Seq(P1)
  BY TaskAssumption, Zenon
<1>3. /\ DOMAIN given.symbols = 1 .. Len(given.symbols)
      /\ DOMAIN given.profile = 1 .. Len(given.profile)
      /\ Len(given.symbols) \in Nat /\ Len(given.profile) \in Nat
  BY <1>2
<1> QED BY <1>1, <1>3

\* Of some places of a list, one is the first and one is the last.
LEMMA FirstPlace ==
  ASSUME NEW n \in Nat, NEW places \in SUBSET (1 .. n), places # {}
  PROVE  T!First(places) \in places
<1>1. places \in SUBSET Nat
  OBVIOUS
<1>2. \E i \in places : \A j \in places : i <= j
  BY <1>1, LeastElement
<1> QED BY <1>2 DEF T!First

LEMMA LastPlace ==
  ASSUME NEW n \in Nat, NEW places \in SUBSET (1 .. n), places # {}
  PROVE  T!Last(places) \in places /\ \A j \in places : j <= T!Last(places)
<1> DEFINE S == {n - i : i \in places}
<1>1. S \in SUBSET Nat /\ S # {}
  <2>1. ASSUME NEW i \in places PROVE n - i \in Nat
    <3>1. i \in 1 .. n
      OBVIOUS
    <3> QED BY <3>1
  <2> QED BY <2>1
<1>2. PICK m \in S : \A k \in S : m <= k
  BY <1>1, LeastElement
<1>3. PICK i \in places : m = n - i
  OBVIOUS
<1>4. \A j \in places : j <= i
  <2>1. ASSUME NEW j \in places PROVE j <= i
    <3>1. n - j \in S
      OBVIOUS
    <3>2. n - i <= n - j
      BY <1>2, <1>3, <3>1
    <3> QED BY <3>2
  <2> QED BY <2>1
<1> QED BY <1>3, <1>4 DEF T!Last

\* One line more.
LEMMA NextLine ==
  ASSUME NEW n \in Nat \ {0}, NEW id
  PROVE  /\ Described(n + 1, id) = Described(n, id)
              \cup IF Describes(given.log[n], id) THEN {n} ELSE {}
         /\ \A from \in 0 .. n - 1 :
              Measured(n + 1, id, from) = Measured(n, id, from)
                \cup IF Measures(given.log[n], id) THEN {n} ELSE {}
<1>1. 1 .. (n + 1) - 1 = (1 .. n - 1) \cup {n} /\ n \notin 1 .. n - 1
  OBVIOUS
<1>2. ASSUME NEW from \in 0 .. n - 1
      PROVE Measured(n + 1, id, from) = Measured(n, id, from)
                \cup IF Measures(given.log[n], id) THEN {n} ELSE {}
  BY <1>1 DEF Measured
<1> QED BY <1>1, <1>2 DEF Described

\* A line that is about no task, or about one that nobody knows, changes nothing.
LEMMA LineOfOther ==
  ASSUME TasksInv, line <= Len(given.log), line' = line + 1, given' = given,
         NEW id \in 0 .. IdLimit - 1,
         ~Describes(given.log[line], id),
         Measures(given.log[line], id) => id \notin DOMAIN tasks,
         (id \in DOMAIN tasks') = (id \in DOMAIN tasks),
         id \in DOMAIN tasks => tasks'[id] = tasks[id]
  PROVE  KnownByLast(id)'
<1>1. PICK n \in Nat \ {0} : n = line
  BY InputTyped, SMTT(40) DEF TasksInv
<1>2. KnownByLast(id)
  BY DEF TasksInv
<1>3. Described(n + 1, id) = Described(n, id)
  <2>1. ~Describes(given.log[n], id)
    BY <1>1
  <2>2. Described(n + 1, id) = Described(n, id)
          \cup IF Describes(given.log[n], id) THEN {n} ELSE {}
    BY NextLine, Zenon
  <2> QED BY <2>1, <2>2
<1>4. Described(line, id)' = Described(n, id)
  BY <1>1, <1>3 DEF Described
<1>5. CASE Described(n, id) = {}
  BY <1>1, <1>2, <1>4, <1>5 DEF KnownByLast
<1>6. CASE Described(n, id) # {}
  <2>1. PICK last \in Described(n, id) :
          /\ \A j \in Described(n, id) : j <= last
          /\ id \in DOMAIN tasks
          /\ tasks[id].entry = given.log[last].entry
          /\ tasks[id].runtime = {given.log[i].serial :
                                    i \in {last} \cup Measured(n, id, last)}
    BY <1>1, <1>2, <1>6 DEF KnownByLast
  <2>2. last \in 1 .. n - 1
    BY DEF Described
  <2>3. Measured(n + 1, id, last) = Measured(n, id, last)
    <3>1. ~Measures(given.log[n], id) /\ last \in 0 .. n - 1
      BY <1>1, <2>1, <2>2
    <3>2. Measured(n + 1, id, last) = Measured(n, id, last)
            \cup IF Measures(given.log[n], id) THEN {n} ELSE {}
      BY <3>1, NextLine, Zenon
    <3> QED BY <3>1, <3>2
  <2>4. Measured(line, id, last)' = Measured(n, id, last)
    BY <1>1, <2>3 DEF Measured
  <2>5. id \in DOMAIN tasks' /\ tasks'[id] = tasks[id]
    BY <2>1
  <2>6. /\ tasks'[id].entry = given'.log[last].entry
        /\ tasks'[id].runtime = {given'.log[i].serial :
                                   i \in {last} \cup Measured(line, id, last)'}
    BY <2>1, <2>4, <2>5
  <2> QED BY <1>4, <2>1, <2>5, <2>6 DEF KnownByLast
<1> QED BY <1>5, <1>6

LEMMA TasksBegin == T!Init => TasksInv
<1> SUFFICES ASSUME T!Init PROVE TasksInv
  OBVIOUS
<1>1. given \in TaskInputs /\ at = "log" /\ line = 1 /\ report = {}
      /\ tasks = [id \in {} |-> {}]
  BY DEF T!Init
<1>2. Len(given.log) \in Nat
  BY <1>1, InputTyped
<1>3. \A id : KnownByLast(id)
  BY <1>1 DEF KnownByLast, Described
<1> QED BY <1>1, <1>2, <1>3 DEF TasksInv

LEMMA TaskLineKnown == TasksInv /\ T!TaskLine => TasksInv'
<1> SUFFICES ASSUME TasksInv, T!TaskLine PROVE TasksInv'
  OBVIOUS
<1>1. PICK l : l = given.log[line]
  OBVIOUS
<1>2. PICK id0 : id0 = l.id % IdLimit
  OBVIOUS
<1>3. /\ at = "log" /\ line <= Len(given.log) /\ line' = line + 1
      /\ given' = given /\ at' = at /\ report' = report
      /\ l.kind = "TASK" /\ l.id # ABSENT /\ l.entry # ABSENT
      /\ tasks' = [i \in DOMAIN tasks \cup {id0} |->
                     IF i = id0 THEN [entry |-> l.entry, runtime |-> {l.serial}]
                     ELSE tasks[i]]
  BY <1>1, <1>2 DEF T!TaskLine, T!Line, T!HasFields, T!TaskId, T!NewTask
<1>4. PICK n \in Nat \ {0} : n = line /\ n \in 1 .. Len(given.log)
  BY <1>3, InputTyped DEF TasksInv
<1>5. l.id \in Nat
  <2> DEFINE LINES == [kind : {"TASK", "METRIC", "other"}, id : Nat \cup {ABSENT},
                       entry : Nat \cup {ABSENT}, serial : Nat, task : Nat]
  <2>1. given.log \in Seq(LINES)
    BY InputTyped, Zenon DEF TasksInv
  <2>2. l \in LINES
    <3> HIDE DEF LINES
    <3> QED BY <1>1, <1>4, <2>1
  <2> QED BY <1>3, <2>2
<1>6. id0 \in 0 .. IdLimit - 1
  BY <1>2, <1>5, InputTyped, SMTT(40) DEF TasksInv
<1>7. DOMAIN tasks' = DOMAIN tasks \cup {id0}
  BY <1>3
<1>8. tasks'[id0] = [entry |-> l.entry, runtime |-> {l.serial}]
  BY <1>3
<1>9. KnownByLast(id0)'
  <2>1. Describes(l, id0)
    BY <1>2, <1>3 DEF Describes
  <2>2. Described(line, id0)' = Described(n, id0) \cup {n}
    BY <1>1, <1>3, <1>4, <2>1, NextLine DEF Described
  <2>3. \A j \in Described(n, id0) \cup {n} : j <= n
    BY DEF Described
  <2>4. Measured(line, id0, n)' = {}
    BY <1>3, <1>4 DEF Measured
  <2>5. {given'.log[i].serial : i \in {n} \cup Measured(line, id0, n)'} = {l.serial}
    BY <1>1, <1>3, <1>4, <2>4
  <2>6. /\ id0 \in DOMAIN tasks' /\ tasks'[id0].entry = given'.log[n].entry
        /\ tasks'[id0].runtime =
             {given'.log[i].serial : i \in {n} \cup Measured(line, id0, n)'}
    BY <1>1, <1>3, <1>4, <1>7, <1>8, <2>5
  <2> QED BY <2>2, <2>3, <2>6 DEF KnownByLast
<1>10. ASSUME NEW id \in 0 .. IdLimit - 1, id # id0
       PROVE  KnownByLast(id)'
  <2>1. ~Describes(given.log[line], id) /\ ~Measures(given.log[line], id)
    BY <1>1, <1>2, <1>3, <1>10 DEF Describes, Measures
  <2>2. (id \in DOMAIN tasks') = (id \in DOMAIN tasks)
    BY <1>7, <1>10
  <2>3. id \in DOMAIN tasks => tasks'[id] = tasks[id]
    BY <1>3, <1>10
  <2> QED BY <1>3, <2>1, <2>2, <2>3, LineOfOther
<1>11. \A id \in DOMAIN tasks' :
         tasks'[id] = [entry |-> tasks'[id].entry, runtime |-> tasks'[id].runtime]
  BY <1>3, <1>7, <1>8 DEF TasksInv
<1>12. /\ given' \in TaskInputs /\ line' \in 1 .. Len(given'.log) + 1
       /\ DOMAIN tasks' \subseteq 0 .. IdLimit - 1
       /\ tasks' = [id \in DOMAIN tasks' |-> tasks'[id]]
  BY <1>3, <1>4, <1>6, <1>7, InputTyped, SMTT(40) DEF TasksInv
<1>13. \A row \in report' : RoleGiven(row)'
  BY <1>3 DEF TasksInv, RoleGiven, T!SelectedWpa
<1> QED BY <1>3, <1>9, <1>10, <1>11, <1>12, <1>13 DEF TasksInv

LEMMA MetricLineKnown == TasksInv /\ T!MetricLine => TasksInv'
<1> SUFFICES ASSUME TasksInv, T!MetricLine PROVE TasksInv'
  OBVIOUS
<1>1. PICK l : l = given.log[line]
  OBVIOUS
<1>2. PICK id0 : id0 = l.id % IdLimit
  OBVIOUS
<1>3. /\ at = "log" /\ line <= Len(given.log) /\ line' = line + 1
      /\ given' = given /\ at' = at /\ report' = report
      /\ l.kind = "METRIC" /\ l.id # ABSENT /\ id0 \in DOMAIN tasks
      /\ tasks' = [tasks EXCEPT ![id0].runtime = @ \cup {l.serial}]
  BY <1>1, <1>2 DEF T!MetricLine, T!Line, T!HasFields, T!TaskId
<1>4. PICK n \in Nat \ {0} : n = line /\ n \in 1 .. Len(given.log)
  BY <1>3, InputTyped, SMTT(40) DEF TasksInv
<1>5. id0 \in 0 .. IdLimit - 1
  BY <1>3 DEF TasksInv
<1>6. PICK task : task = tasks[id0]
  OBVIOUS
<1>7. /\ tasks = [id \in DOMAIN tasks |-> tasks[id]]
      /\ task = [entry |-> task.entry, runtime |-> task.runtime]
  BY <1>3, <1>6 DEF TasksInv
<1>8. DOMAIN tasks' = DOMAIN tasks
  BY <1>3
<1>9. \A id \in DOMAIN tasks : id # id0 => tasks'[id] = tasks[id]
  BY <1>3, <1>7
<1>10. tasks'[id0] = [entry |-> task.entry, runtime |-> task.runtime \cup {l.serial}]
  <2>1. tasks'[id0] = [task EXCEPT !.runtime = @ \cup {l.serial}]
    BY <1>3, <1>6, <1>7
  <2>2. [[entry |-> task.entry, runtime |-> task.runtime]
           EXCEPT !.runtime = @ \cup {l.serial}]
          = [entry |-> task.entry, runtime |-> task.runtime \cup {l.serial}]
    OBVIOUS
  <2> QED BY <1>7, <2>1, <2>2, Zenon
<1>11. KnownByLast(id0)'
  <2>1. KnownByLast(id0)
    BY <1>5 DEF TasksInv
  <2>2. ~Describes(l, id0) /\ Measures(l, id0)
    BY <1>2, <1>3 DEF Describes, Measures
  <2>3. PICK last \in Described(n, id0) :
          /\ \A j \in Described(n, id0) : j <= last
          /\ task.entry = given.log[last].entry
          /\ task.runtime = {given.log[i].serial :
                               i \in {last} \cup Measured(n, id0, last)}
    BY <1>3, <1>4, <1>6, <2>1 DEF KnownByLast
  <2>4. last \in 0 .. n - 1
    BY DEF Described
  <2>5. /\ Described(n + 1, id0) = Described(n, id0)
        /\ Measured(n + 1, id0, last) = Measured(n, id0, last) \cup {n}
    <3>1. /\ Described(n + 1, id0) = Described(n, id0)
               \cup IF Describes(given.log[n], id0) THEN {n} ELSE {}
          /\ Measured(n + 1, id0, last) = Measured(n, id0, last)
               \cup IF Measures(given.log[n], id0) THEN {n} ELSE {}
      BY <2>4, NextLine, Zenon
    <3>2. ~Describes(given.log[n], id0) /\ Measures(given.log[n], id0)
      BY <1>1, <1>4, <2>2, Zenon
    <3> QED BY <3>1, <3>2
  <2>6. /\ Described(line, id0)' = Described(n, id0)
        /\ Measured(line, id0, last)' = Measured(n, id0, last) \cup {n}
    BY <1>3, <1>4, <2>5 DEF Described, Measured
  <2>7. {given.log[i].serial : i \in {last} \cup (Measured(n, id0, last) \cup {n})}
          = {given.log[i].serial : i \in {last} \cup Measured(n, id0, last)}
              \cup {given.log[n].serial}
    BY Zenon
  <2>8. /\ id0 \in DOMAIN tasks' /\ tasks'[id0].entry = given'.log[last].entry
        /\ tasks'[id0].runtime =
             {given'.log[i].serial : i \in {last} \cup Measured(line, id0, last)'}
    BY <1>1, <1>3, <1>4, <1>8, <1>10, <2>3, <2>6, <2>7
  <2> QED BY <2>3, <2>6, <2>8 DEF KnownByLast
<1>12. ASSUME NEW id \in 0 .. IdLimit - 1, id # id0
       PROVE  KnownByLast(id)'
  <2>1. ~Describes(given.log[line], id) /\ ~Measures(given.log[line], id)
    BY <1>1, <1>2, <1>3, <1>12 DEF Describes, Measures
  <2>2. (id \in DOMAIN tasks') = (id \in DOMAIN tasks)
    BY <1>8
  <2>3. id \in DOMAIN tasks => tasks'[id] = tasks[id]
    BY <1>9, <1>12
  <2> QED BY <1>3, <2>1, <2>2, <2>3, LineOfOther
<1>13. \A id \in DOMAIN tasks' :
         tasks'[id] = [entry |-> tasks'[id].entry, runtime |-> tasks'[id].runtime]
  BY <1>8, <1>9, <1>10 DEF TasksInv
<1>14. /\ given' \in TaskInputs /\ line' \in 1 .. Len(given'.log) + 1
       /\ DOMAIN tasks' \subseteq 0 .. IdLimit - 1
       /\ tasks' = [id \in DOMAIN tasks' |-> tasks'[id]]
  <2>1. tasks' = [id \in DOMAIN tasks' |-> tasks'[id]]
    BY <1>3, <1>8
  <2>2. line' \in 1 .. Len(given'.log) + 1
    BY <1>3, <1>4, InputTyped, SMTT(40) DEF TasksInv
  <2> QED BY <1>3, <1>8, <2>1, <2>2 DEF TasksInv
<1>15. \A row \in report' : RoleGiven(row)'
  BY <1>3 DEF TasksInv, RoleGiven, T!SelectedWpa
<1> QED BY <1>3, <1>11, <1>12, <1>13, <1>14, <1>15 DEF TasksInv

LEMMA SkipLineKnown == TasksInv /\ T!SkipLine => TasksInv'
<1> SUFFICES ASSUME TasksInv, T!SkipLine PROVE TasksInv'
  OBVIOUS
<1>1. PICK l : l = given.log[line]
  OBVIOUS
<1>2. /\ at = "log" /\ line <= Len(given.log) /\ line' = line + 1
      /\ given' = given /\ at' = at /\ report' = report /\ tasks' = tasks
      /\ l.kind # "other" /\ l.id # ABSENT /\ (l.kind = "TASK" => l.entry # ABSENT)
           => l.kind = "METRIC" /\ l.id % IdLimit \notin DOMAIN tasks
  BY <1>1 DEF T!SkipLine, T!Line, T!HasFields, T!TaskId
<1>3. PICK n \in Nat \ {0} : n = line /\ n \in 1 .. Len(given.log)
  BY <1>2, InputTyped DEF TasksInv
<1>4. ASSUME NEW id \in 0 .. IdLimit - 1
      PROVE  KnownByLast(id)'
  <2>1. /\ ~Describes(given.log[line], id)
        /\ Measures(given.log[line], id) => id \notin DOMAIN tasks
    BY <1>1, <1>2 DEF Describes, Measures
  <2> QED BY <1>2, <2>1, LineOfOther
<1>5. /\ given' \in TaskInputs /\ line' \in 1 .. Len(given'.log) + 1
  BY <1>2, <1>3, InputTyped DEF TasksInv
<1>6. \A row \in report' : RoleGiven(row)'
  BY <1>2 DEF TasksInv, RoleGiven, T!SelectedWpa
<1> QED BY <1>2, <1>4, <1>5, <1>6 DEF TasksInv

\* The name at an address is one that the ELF has there, or that a row has whose
\* task begins there.
LEMMA NameIsThere ==
  ASSUME given \in TaskInputs, NEW address, T!NameAt(address) # ABSENT
  PROVE  \/ \E k \in DOMAIN given.symbols :
              /\ given.symbols[k].name = T!NameAt(address)
              /\ given.symbols[k].address = address
         \/ \E i \in T!Rows :
              /\ given.profile[i].entry_symbol = T!NameAt(address)
              /\ given.profile[i].entry_address = address
<1> DEFINE there == {i \in DOMAIN given.symbols :
                       T!Usable(i) /\ given.symbols[i].address = address}
           rows == {i \in T!Rows : T!Address(i) = address}
<1>1. there \in SUBSET (1 .. Len(given.symbols)) /\ Len(given.symbols) \in Nat
      /\ rows \in SUBSET (1 .. Len(given.profile)) /\ Len(given.profile) \in Nat
  BY InputTyped DEF T!Rows
<1>2. CASE T!SymbolAt(address) # ABSENT
  <2>1. T!NameAt(address) = T!SymbolAt(address)
    BY <1>2 DEF T!NameAt
  <2>2. there # {} /\ T!SymbolAt(address) = given.symbols[T!First(there)].name
    BY <1>2 DEF T!SymbolAt
  <2>3. T!First(there) \in there
    <3> HIDE DEF there
    <3> QED BY <1>1, <2>2, FirstPlace
  <2> QED BY <2>1, <2>2, <2>3
<1>3. CASE T!SymbolAt(address) = ABSENT
  <2>1. rows # {} /\ T!NameAt(address) = given.profile[T!Last(rows)].entry_symbol
    BY <1>3 DEF T!NameAt
  <2>2. T!Last(rows) \in rows
    <3> HIDE DEF rows
    <3> QED BY <1>1, <2>1, LastPlace
  <2>3. PICK i \in T!Rows : /\ T!Address(i) = address
                            /\ T!NameAt(address) = given.profile[i].entry_symbol
    BY <2>1, <2>2
  <2>4. PICK name : name = given.profile[i].entry_symbol
    OBVIOUS
  <2>5. CASE T!AddressOf(name) = ABSENT
    BY <2>3, <2>4, <2>5 DEF T!Address
  <2>6. CASE T!AddressOf(name) # ABSENT
    <3> DEFINE named == {k \in DOMAIN given.symbols :
                           T!Usable(k) /\ given.symbols[k].name = name}
    <3>1. named # {} /\ T!AddressOf(name) = given.symbols[T!First(named)].address
      BY <2>6 DEF T!AddressOf
    <3>2. named \in SUBSET (1 .. Len(given.symbols))
      BY InputTyped
    <3>3. T!First(named) \in named
      <4> HIDE DEF named
      <4> QED BY <1>1, <3>1, <3>2, FirstPlace
    <3>4. T!AddressOf(name) = address
      BY <2>3, <2>4, <2>6 DEF T!Address
    <3> QED BY <2>3, <2>4, <3>1, <3>3, <3>4
  <2> QED BY <2>5, <2>6
<1> QED BY <1>2, <1>3

\* No role is given by guess, to any entry.
LEMMA RowGiven ==
  ASSUME given \in TaskInputs, NEW id, NEW address, NEW runtime,
         NEW row, row = T!Row(id, address, runtime)
  PROVE  RoleGiven(row)
<1> DEFINE rows == {i \in T!Rows : given.profile[i].entry_symbol = T!NameAt(address)}
<1>1. row.role = T!Role(address) /\ row.entry = address
  BY DEF T!Row
<1>2. CASE rows = {}
  BY <1>1, <1>2, TaskAssumption DEF T!Role, T!DEFAULT_ROLE, RoleGiven
<1>3. CASE rows # {}
  <2>1. rows \in SUBSET (1 .. Len(given.profile)) /\ Len(given.profile) \in Nat
    BY InputTyped DEF T!Rows
  <2>2. T!Last(rows) \in rows
    <3> HIDE DEF rows
    <3> QED BY <1>3, <2>1, LastPlace
  <2>3. PICK i \in T!Rows : /\ given.profile[i].entry_symbol = T!NameAt(address)
                            /\ T!Role(address) = given.profile[i].role
    BY <1>3, <2>2 DEF T!Role
  <2>4. i \in DOMAIN given.profile /\ given.profile[i].wpa \in {ABSENT, T!SelectedWpa}
    BY DEF T!Rows, T!Applies
  <2>5. given.profile[i].role # ABSENT /\ given.profile[i].entry_symbol # ABSENT
    BY <2>4, TaskAssumption
  <2>6. \/ \E k \in DOMAIN given.symbols :
              /\ given.symbols[k].name = given.profile[i].entry_symbol
              /\ given.symbols[k].address = address
        \/ \E j \in T!Rows :
              /\ given.profile[j].entry_symbol = given.profile[i].entry_symbol
              /\ given.profile[j].entry_address = address
    BY <2>3, <2>5, NameIsThere
  <2>7. \/ \E k \in DOMAIN given.symbols :
              /\ given.symbols[k].name = given.profile[i].entry_symbol
              /\ given.symbols[k].address = address
        \/ given.profile[i].entry_address = address
    BY <2>4, <2>6, TaskAssumption DEF T!Rows
  <2> QED BY <1>1, <2>3, <2>4, <2>5, <2>7 DEF RoleGiven
<1> QED BY <1>2, <1>3

LEMMA ReportGiven == TasksInv /\ T!BuildReport => TasksInv'
<1> SUFFICES ASSUME TasksInv, T!BuildReport PROVE TasksInv'
  OBVIOUS
<1>1. at' = "report" /\ given' = given /\ line' = line /\ tasks' = tasks
  BY DEF T!BuildReport
<1>2. ASSUME NEW row \in report' PROVE RoleGiven(row)'
  <2>1. PICK id, address, runtime : row = T!Row(id, address, runtime)
    BY DEF T!BuildReport
  <2>2. RoleGiven(row)
    BY <2>1, RowGiven DEF TasksInv
  <2> QED BY <1>1, <2>2 DEF RoleGiven, T!SelectedWpa
<1>3. \A id \in 0 .. IdLimit - 1 : KnownByLast(id)'
  BY <1>1 DEF TasksInv, KnownByLast, Described, Measured
<1> QED BY <1>1, <1>2, <1>3 DEF TasksInv

\* Nothing is joined by another command, or by one that refuses or is done.
LEMMA TasksStay ==
  ASSUME TasksInv, UNCHANGED <<given, line, tasks, report>>,
         at' \in {at, "refused"}
  PROVE  TasksInv'
<1>1. given' = given /\ line' = line /\ tasks' = tasks /\ report' = report
  OBVIOUS
<1>2. \A id \in 0 .. IdLimit - 1 : KnownByLast(id)'
  BY <1>1 DEF TasksInv, KnownByLast, Described, Measured
<1>3. \A row \in report' : RoleGiven(row)'
  BY <1>1 DEF TasksInv, RoleGiven, T!SelectedWpa
<1> QED BY <1>1, <1>2, <1>3 DEF TasksInv

LEMMA TasksKept ==
  ASSUME command = "task-profile" => TasksInv,
         [CommandNext]_<<command, vars, pool>>
  PROVE  (command = "task-profile" => TasksInv)'
<1>1. SUFFICES ASSUME command' = "task-profile" PROVE TasksInv'
  OBVIOUS
<1>2. CASE UNCHANGED <<command, vars, pool>>
  <2>1. TasksInv
    BY <1>1, <1>2
  <2>2. UNCHANGED <<given, line, tasks, report>> /\ at' = at
    BY <1>2 DEF pool, joiner
  <2> QED BY <2>1, <2>2, TasksStay
<1>3. CASE CommandNext
  <2>1. command = "task-profile" /\ T!Next
    BY <1>1, <1>3 DEF CommandNext
  <2>2. TasksInv
    BY <2>1
  <2>3. CASE T!Refuse \/ T!Done
    <3>1. UNCHANGED <<given, line, tasks, report>> /\ at' \in {at, "refused"}
      BY <2>3 DEF T!Refuse, T!Done, T!vars
    <3> QED BY <2>2, <3>1, TasksStay
  <2> QED BY <2>1, <2>2, <2>3, TaskLineKnown, MetricLineKnown, SkipLineKnown,
             ReportGiven DEF T!Next
<1> QED BY <1>2, <1>3

\* The places of the property are those of the invariant.
LEMMA RecordsDescribed ==
  ASSUME NEW id
  PROVE  /\ T!Records(id) = Described(line, id)
         /\ \A from : T!MeasuredAfter(from, id) = Measured(line, id, from)
BY DEF T!Records, T!MeasuredAfter, T!Numbered, Described, Describes, Measured, Measures

\* Of some records, one is the last.
LEMMA LastRecordIs ==
  ASSUME TasksInv, NEW id, NEW m \in T!Records(id),
         \A j \in T!Records(id) : j <= m
  PROVE  m = T!LastRecord(id)
<1>1. T!Records(id) \subseteq Int
  BY DEF T!Records
<1>2. /\ T!LastRecord(id) \in T!Records(id)
      /\ \A j \in T!Records(id) : j <= T!LastRecord(id)
  BY Zenon DEF T!LastRecord
<1> QED BY <1>1, <1>2

\* The lines of a number are of one task after the other, so a line after the last
\* record is of the task of that record, or of one that has no record.
LEMMA RowsOwnOrLost ==
  ASSUME TasksInv, T!LatestTask
  PROVE  T!OwnOrLost
<1> SUFFICES ASSUME NEW id \in DOMAIN tasks, NEW i \in 1 .. line - 1,
                    given.log[i].serial \in tasks[id].runtime
             PROVE  LET task == given.log[i].task
                        own == given.log[T!LastRecord(id)].task
                    IN  \/ task = own
                        \/ task > own /\ \A k \in T!Records(id) :
                                             given.log[k].task # task
  BY Zenon DEF T!OwnOrLost
<1> DEFINE last == T!LastRecord(id)
           L == given.log
<1>1. /\ id \in 0 .. IdLimit - 1 /\ given \in TaskInputs
      /\ line \in Nat /\ line - 1 <= Len(L) /\ Len(L) \in Nat
      /\ DOMAIN L = 1 .. Len(L)
      /\ \A j \in DOMAIN L : L[j].task \in Nat
  <2>1. /\ id \in 0 .. IdLimit - 1 /\ given \in TaskInputs
        /\ line \in 1 .. Len(L) + 1
    BY DEF TasksInv
  <2>2. L \in Seq([kind : {"TASK", "METRIC", "other"}, id : Nat \cup {ABSENT},
                   entry : Nat \cup {ABSENT}, serial : Nat, task : Nat])
    BY <2>1, InputTyped
  <2>3. Len(L) \in Nat /\ DOMAIN L = 1 .. Len(L)
    BY <2>2
  <2>4. ASSUME NEW j \in DOMAIN L PROVE L[j].task \in Nat
    <3> DEFINE LINES == [kind : {"TASK", "METRIC", "other"}, id : Nat \cup {ABSENT},
                         entry : Nat \cup {ABSENT}, serial : Nat, task : Nat]
    <3>1. \A e \in LINES : e.task \in Nat
      OBVIOUS
    <3>2. L \in Seq(LINES)
      BY <2>2
    <3> HIDE DEF LINES, L
    <3> QED BY <3>1, <3>2
  <2> QED BY <2>1, <2>3, <2>4
<1>2. KnownByLast(id) /\ T!Records(id) = Described(line, id)
  BY <1>1, RecordsDescribed DEF TasksInv
<1>3. PICK m \in T!Records(id) : \A j \in T!Records(id) : j <= m
  BY <1>2 DEF KnownByLast
<1>4. /\ last \in T!Records(id) /\ \A j \in T!Records(id) : j <= last
      /\ tasks[id].runtime = {L[j].serial :
                                j \in {last} \cup T!MeasuredAfter(last, id)}
  <2>1. last = m
    BY <1>3, LastRecordIs
  <2>2. T!Records(id) # {}
    BY <1>3
  <2>3. tasks[id].runtime = {L[j].serial :
                                j \in {last} \cup T!MeasuredAfter(last, id)}
    BY <1>1, <2>2, Zenon DEF T!LatestTask
  <2> HIDE DEF last
  <2> QED BY <1>3, <2>1, <2>3
<1> HIDE DEF last
<1>5. \A j, k \in 1 .. line - 1 :
        /\ L[j].serial = j
        /\ j < k /\ T!Numbered(L[j], id) /\ T!Numbered(L[k], id)
             => L[j].task <= L[k].task
  <2>1. /\ \A j \in DOMAIN L : L[j].serial = j
        /\ \A j, k \in DOMAIN L :
             /\ j < k /\ L[j].id # ABSENT /\ L[k].id # ABSENT
             /\ L[j].id % IdLimit = L[k].id % IdLimit
             => L[j].task <= L[k].task
    BY <1>1, TaskAssumption, Zenon
  <2>2. \A j \in 1 .. line - 1 : j \in DOMAIN L
    BY <1>1
  <2> QED BY <2>1, <2>2 DEF T!Numbered
<1>6. i = last \/ i \in T!MeasuredAfter(last, id)
  <2>1. PICK j \in {last} \cup T!MeasuredAfter(last, id) :
          L[j].serial = L[i].serial
    BY <1>4
  <2>2. j \in 1 .. line - 1
    BY <1>4, <2>1 DEF T!Records, T!MeasuredAfter
  <2> QED BY <1>5, <2>1, <2>2
<1>7. CASE i = last
  BY <1>7 DEF last
<1>8. ASSUME i \in T!MeasuredAfter(last, id)
      PROVE  L[last].task <= L[i].task
  <2>1. /\ i > last /\ T!Numbered(L[i], id) /\ T!Numbered(L[last], id)
        /\ last \in 1 .. line - 1
    BY <1>4, <1>8 DEF T!Records, T!MeasuredAfter
  <2> QED BY <1>5, <2>1
<1>9. ASSUME NEW k \in T!Records(id) PROVE L[k].task <= L[last].task
  <2>1. /\ T!Numbered(L[k], id) /\ T!Numbered(L[last], id)
        /\ k \in 1 .. line - 1 /\ last \in 1 .. line - 1 /\ k <= last
    BY <1>4 DEF T!Records
  <2>2. CASE k = last
    BY <1>1, <2>1, <2>2
  <2> QED BY <1>5, <2>1, <2>2
<1>10. /\ L[i].task \in Nat /\ L[last].task \in Nat
       /\ \A k \in T!Records(id) : L[k].task \in Nat
  <2>1. T!Records(id) \subseteq DOMAIN L /\ i \in DOMAIN L
    BY <1>1 DEF T!Records
  <2> QED BY <1>1, <1>4, <2>1
<1>11. CASE i \in T!MeasuredAfter(last, id)
  BY <1>8, <1>9, <1>10, <1>11 DEF last
<1> QED BY <1>6, <1>7, <1>11 DEF last

\* For any log, however many tasks it holds and however often a number was used
\* again: every row of a task report is the last complete record of its number with
\* the measurements after it; all of them are of the task of that record unless a
\* later task lost its record; and its role is one that the profile gives to its
\* entry (task_profile.rs:148-280).
THEOREM RowsRightHolds == CommandSpec => []RowsRight
<1>1. CommandInit => (command = "task-profile" => TasksInv)
  BY TasksBegin DEF CommandInit
<1>2. CommandSpec => [](command = "task-profile" => TasksInv)
  BY <1>1, TasksKept, PTL DEF CommandSpec
<1>3. ASSUME TasksInv
      PROVE  T!RowsRight
  <2>1. T!TypeOK
    BY <1>3 DEF TasksInv, T!TypeOK, RoleGiven
  <2>2. T!NeverGuessed
    BY <1>3 DEF TasksInv, T!NeverGuessed, RoleGiven
  <2>3. T!LatestTask
    <3>1. ASSUME NEW id \in 0 .. IdLimit - 1
          PROVE  LET last == T!LastRecord(id)
                 IN  IF T!Records(id) = {} THEN id \notin DOMAIN tasks
                     ELSE /\ id \in DOMAIN tasks
                          /\ tasks[id].entry = given.log[last].entry
                          /\ tasks[id].runtime =
                               {given.log[i].serial :
                                  i \in {last} \cup T!MeasuredAfter(last, id)}
      <4> DEFINE last == T!LastRecord(id)
      <4>1. KnownByLast(id)
        BY <1>3 DEF TasksInv
      <4>2. T!Records(id) = Described(line, id)
        BY RecordsDescribed
      <4>3. CASE T!Records(id) = {}
        BY <4>1, <4>2, <4>3 DEF KnownByLast
      <4>4. CASE T!Records(id) # {}
        <5>1. PICK m \in T!Records(id) :
                /\ \A j \in T!Records(id) : j <= m
                /\ id \in DOMAIN tasks
                /\ tasks[id].entry = given.log[m].entry
                /\ tasks[id].runtime = {given.log[i].serial :
                                          i \in {m} \cup Measured(line, id, m)}
          BY <4>1, <4>2, <4>4 DEF KnownByLast
        <5>2. m = last
          BY <1>3, <5>1, LastRecordIs
        <5>3. Measured(line, id, last) = T!MeasuredAfter(last, id)
          BY RecordsDescribed
        <5>4. /\ id \in DOMAIN tasks
              /\ tasks[id].entry = given.log[last].entry
              /\ tasks[id].runtime =
                   {given.log[i].serial :
                      i \in {last} \cup T!MeasuredAfter(last, id)}
          <6> HIDE DEF last
          <6> QED BY <5>1, <5>2, <5>3
        <5> QED BY <4>4, <5>4, Zenon
      <4> QED BY <4>3, <4>4
    <3> QED BY <3>1, Zenon DEF T!LatestTask
  <2>4. T!OwnOrLost
    BY <1>3, <2>3, RowsOwnOrLost
  <2> QED BY <2>1, <2>2, <2>3, <2>4 DEF T!RowsRight
<1>4. (command = "task-profile" => TasksInv) => RowsRight
  BY <1>3 DEF RowsRight
<1> QED BY <1>2, <1>4, PTL

-----------------------------------------------------------------------------
(* The normalizer of one archive (normalize.rs:374-614). The invariant relates  *)
(* the rewritten bytes to the input: each entry that was passed is converted    *)
(* and counted, each other one is as it was.                                    *)

\* What becomes of an entry that is not refused, and what it is counted as.
Fixed(A, p) == /\ N!At(A, p).type = "RELAX"
               /\ N!TableOf(A, p).info \in N!BranchiSections(A[p[1]])

NewEntry(A, p) ==
  IF N!At(A, p).type = "48_LLUI" THEN N!Llui48Entry(N!At(A, p))
  ELSE IF N!At(A, p).type \in {"BRANCHI", "LLUI_REP"} \/ Fixed(A, p)
    THEN [N!At(A, p) EXCEPT !.type = "NONE"]
  ELSE N!At(A, p)

CountedAs(A, p) ==
  IF N!At(A, p).type = "48_LLUI" THEN "llui48_to_riscv32"
  ELSE IF N!At(A, p).type = "BRANCHI" THEN "branchi_encoded"
  ELSE IF N!At(A, p).type = "LLUI_REP" THEN "llui_rep_removed"
  ELSE IF Fixed(A, p) THEN "relax_removed" ELSE "kept"

\* The entries that were passed.
Passed ==
  {p \in N!Places(archive) :
     \/ p[1] < member
     \/ /\ at \in {"table", "entry"} /\ p[1] = member
        /\ \/ p[2] < table
           \/ at = "entry" /\ p[2] = table /\ p[3] < entry}

\* The bytes that are rewritten keep the form of the file.
SameForm(a, x) ==
  /\ N!IsObject(x)
  /\ x.sections = a.sections /\ x.symbols = a.symbols
  /\ DOMAIN x.text = DOMAIN a.text
  /\ DOMAIN x.relas = DOMAIN a.relas
  /\ \A t \in DOMAIN a.relas :
       /\ x.relas[t].info = a.relas[t].info
       /\ x.relas[t].valid = a.relas[t].valid
       /\ DOMAIN x.relas[t].entries = DOMAIN a.relas[t].entries

FormKept(A, X) ==
  /\ DOMAIN X = DOMAIN A
  /\ \A m \in DOMAIN A : /\ X[m].elf = A[m].elf
                         /\ A[m].elf => SameForm(A[m], X[m])

\* Each entry that was passed is converted, the others are as they were.
EntriesDone(A, X, Q) ==
  /\ \A p \in Q : ~N!RefusedAt(A, p) /\ N!At(X, p) = NewEntry(A, p)
  /\ \A p \in N!Places(A) \ Q : N!At(X, p) = N!At(A, p)

\* So is each branch, and nothing else of the text is touched.
BranchesOf(A, Q, m) == {p \in Q : p[1] = m /\ N!At(A, p).type = "BRANCHI"}

BranchDone(A, X, p) ==
  /\ N!DecodeBranchi(N!WordAt(X[p[1]], N!SiteAt(A, p))) = N!GoalAt(A, p)
  /\ N!OtherBits(N!WordAt(X[p[1]], N!SiteAt(A, p)))
       = N!OtherBits(N!WordAt(A[p[1]], N!SiteAt(A, p)))

TextDone(A, X, Q, m) ==
  /\ \A h \in DOMAIN A[m].text :
       (\A p \in BranchesOf(A, Q, m) : h \notin N!HalvesAt(A, p))
         => X[m].text[h] = A[m].text[h]
  /\ \A p \in BranchesOf(A, Q, m) : BranchDone(A, X, p)

CountsDone(A, Q, c) ==
  \A k \in N!COUNTERS : c[k] = Cardinality({p \in Q : CountedAs(A, p) = k})

\* The tables that were begun have a section, those of an object that was begun
\* the size of entry that is expected.
ObjectBegun(m) == m < member \/ (at \in {"table", "entry"} /\ m = member)
TableBegun(m, t) ==
  \/ m < member
  \/ /\ at \in {"table", "entry"} /\ m = member
     /\ t < table \/ (at = "entry" /\ t = table)

TablesRead ==
  \A m \in DOMAIN archive : archive[m].elf =>
    \A t \in DOMAIN archive[m].relas :
      /\ ObjectBegun(m) => archive[m].relas[t].valid
      /\ TableBegun(m, t)
           => archive[m].relas[t].info \in DOMAIN archive[m].sections

Cursor ==
  /\ at \in {"member", "table", "entry", "written", "failed"}
  /\ member \in 1 .. Len(archive) + 1
  /\ at \in {"table", "entry"} =>
       /\ member \in DOMAIN archive /\ archive[member].elf
       /\ branchi_sections = N!BranchiSections(archive[member])
       /\ table \in 1 .. Len(archive[member].relas) + 1
  /\ at = "entry" =>
       /\ table \in DOMAIN archive[member].relas
       /\ entry \in 1 .. Len(archive[member].relas[table].entries) + 1
  /\ at = "written" => member = Len(archive) + 1 /\ output = data

Finished(A) ==
  \A p \in N!Places(A) :
    N!At(A, p).type \in {"STD", "NONE", "32", "RELAX", "TYPE62"}

\* The invariant.
NormalizerInv ==
  /\ Cursor /\ times \in 1 .. MaxRounds
  /\ N!IsFile(archive) /\ N!BranchesApart(archive)
  /\ FormKept(archive, data)
  /\ counts \in [N!COUNTERS -> Nat]
  /\ times > 1 => Finished(archive)
  /\ at # "failed" =>
       /\ IsFiniteSet(Passed) /\ TablesRead
       /\ EntriesDone(archive, data, Passed)
       /\ \A m \in DOMAIN archive :
            archive[m].elf => TextDone(archive, data, Passed, m)
       /\ CountsDone(archive, Passed, counts)

\* The low halfword: five bits at bit 7.
LEMMA LowHalf ==
  ASSUME NEW w \in N!HALFWORDS, NEW k \in Int, 0 <= k, k <= 31
  PROVE  LET v == (w % 128) + 128 * k + 4096 * (w \div 4096)
         IN  /\ v \in N!HALFWORDS
             /\ (v \div 128) % 32 = k
             /\ v % 128 = w % 128 /\ v \div 4096 = w \div 4096
<1> DEFINE b == w % 128
           c == w \div 4096
           v == b + 128 * k + 4096 * c
<1>1. w \in Int /\ 0 <= w /\ w < 65536
  BY DEF N!HALFWORDS
<1>2. b \in Int /\ 0 <= b /\ b <= 127
  BY <1>1
<1>3. c \in Int /\ 0 <= c /\ c <= 15
  BY <1>1
<1> HIDE DEF b, c
<1>4. v \in Int /\ 0 <= v /\ v < 65536
  BY <1>2, <1>3
<1>5. v % 128 = b
  <2>1. v = b + 128 * (k + 32 * c) /\ k + 32 * c \in Int
    BY <1>2, <1>3
  <2> QED BY <1>2, <2>1
<1>6. v \div 4096 = c
  <2>1. v = (b + 128 * k) + 4096 * c
    BY <1>2, <1>3
  <2>2. b + 128 * k \in Int /\ 0 <= b + 128 * k /\ b + 128 * k < 4096
    BY <1>2
  <2> HIDE DEF v
  <2> QED BY <1>3, <2>1, <2>2
<1>7. (v \div 128) % 32 = k
  <2>1. v = b + 128 * (k + 32 * c) /\ k + 32 * c \in Int
    BY <1>2, <1>3
  <2>2. v \div 128 = k + 32 * c
    BY <1>2, <2>1
  <2> QED BY <1>3, <2>2
<1>8. v \in N!HALFWORDS
  BY <1>4 DEF N!HALFWORDS
<1> QED BY <1>5, <1>6, <1>7, <1>8 DEF b, c

\* The high halfword: four bits at bit 4.
LEMMA HighHalf ==
  ASSUME NEW w \in N!HALFWORDS, NEW k \in Int, 0 <= k, k <= 15
  PROVE  LET v == (w % 16) + 16 * k + 256 * (w \div 256)
         IN  /\ v \in N!HALFWORDS
             /\ (v \div 16) % 16 = k
             /\ v % 16 = w % 16 /\ v \div 256 = w \div 256
<1> DEFINE b == w % 16
           c == w \div 256
           v == b + 16 * k + 256 * c
<1>1. w \in Int /\ 0 <= w /\ w < 65536
  BY DEF N!HALFWORDS
<1>2. b \in Int /\ 0 <= b /\ b <= 15
  BY <1>1
<1>3. c \in Int /\ 0 <= c /\ c <= 255
  BY <1>1
<1> HIDE DEF b, c
<1>4. v \in Int /\ 0 <= v /\ v < 65536
  BY <1>2, <1>3
<1>5. v % 16 = b
  <2>1. v = b + 16 * (k + 16 * c) /\ k + 16 * c \in Int
    BY <1>2, <1>3
  <2> QED BY <1>2, <2>1
<1>6. v \div 256 = c
  <2>1. v = (b + 16 * k) + 256 * c
    BY <1>2, <1>3
  <2>2. b + 16 * k \in Int /\ 0 <= b + 16 * k /\ b + 16 * k < 256
    BY <1>2
  <2> HIDE DEF v
  <2> QED BY <1>3, <2>1, <2>2
<1>7. (v \div 16) % 16 = k
  <2>1. v = b + 16 * (k + 16 * c) /\ k + 16 * c \in Int
    BY <1>2, <1>3
  <2> HIDE DEF v
  <2>2. v \div 16 = k + 16 * c
    BY <1>2, <2>1
  <2> QED BY <1>3, <2>2
<1>8. v \in N!HALFWORDS
  BY <1>4 DEF N!HALFWORDS
<1> QED BY <1>5, <1>6, <1>7, <1>8 DEF b, c

\* What encode_branchi writes is read back as the displacement, and the other
\* bits of the word stay (normalize.rs:568-577).
LEMMA BranchBits ==
  ASSUME NEW low \in N!HALFWORDS, NEW high \in N!HALFWORDS, NEW goal, N!Encodable(goal),
         NEW word, word = <<low, high>>, NEW new, new = N!EncodeBranchi(word, goal)
  PROVE  /\ new[1] \in N!HALFWORDS /\ new[2] \in N!HALFWORDS
         /\ N!DecodeBranchi(new) = goal
         /\ N!OtherBits(new) = N!OtherBits(word)
<1> DEFINE e == goal % 1024
           k == (e \div 2) % 32
           j == e \div 64
           v1 == (low % 128) + 128 * k + 4096 * (low \div 4096)
           v2 == (high % 16) + 16 * j + 256 * (high \div 256)
<1>1. /\ k \in Int /\ 0 <= k /\ k <= 31 /\ j \in Int /\ 0 <= j /\ j <= 15
      /\ 2 * k + 64 * j = e
      /\ (IF e < 512 THEN e ELSE e - 1024) = goal
  BY DEF N!Encodable
<1>2. new = <<v1, v2>>
  BY DEF N!EncodeBranchi
<1> HIDE DEF e, k, j
<1>8. k \in Int /\ 0 <= k /\ k <= 31 /\ j \in Int /\ 0 <= j /\ j <= 15
  BY <1>1
<1>3. /\ v1 \in N!HALFWORDS /\ (v1 \div 128) % 32 = k
      /\ v1 % 128 = low % 128 /\ v1 \div 4096 = low \div 4096
  BY <1>8, LowHalf
<1>4. /\ v2 \in N!HALFWORDS /\ (v2 \div 16) % 16 = j
      /\ v2 % 16 = high % 16 /\ v2 \div 256 = high \div 256
  BY <1>8, HighHalf
<1> HIDE DEF v1, v2
<1>5. N!DecodeBranchi(<<v1, v2>>) = goal
  BY <1>1, <1>3, <1>4 DEF N!DecodeBranchi
<1>6. N!OtherBits(<<v1, v2>>) = N!OtherBits(<<low, high>>)
  BY <1>3, <1>4 DEF N!OtherBits
<1>7. <<v1, v2>>[1] = v1 /\ <<v1, v2>>[2] = v2
  OBVIOUS
<1> QED BY <1>2, <1>3, <1>4, <1>5, <1>6, <1>7

\* A place names an entry of a table of an object.
LEMMA PlaceForm ==
  ASSUME NEW A
  PROVE  /\ \A p \in N!Places(A) :
              /\ p = <<p[1], p[2], p[3]>>
              /\ p[1] \in DOMAIN A /\ A[p[1]].elf
              /\ p[2] \in DOMAIN A[p[1]].relas
              /\ p[3] \in DOMAIN A[p[1]].relas[p[2]].entries
         /\ \A m \in DOMAIN A : A[m].elf =>
              \A t \in DOMAIN A[m].relas :
                \A i \in DOMAIN A[m].relas[t].entries : <<m, t, i>> \in N!Places(A)
<1>1. ASSUME NEW p \in N!Places(A)
      PROVE  /\ p = <<p[1], p[2], p[3]>>
             /\ p[1] \in DOMAIN A /\ A[p[1]].elf
             /\ p[2] \in DOMAIN A[p[1]].relas
             /\ p[3] \in DOMAIN A[p[1]].relas[p[2]].entries
  <2>1. PICK m \in {n \in DOMAIN A : A[n].elf} :
          p \in UNION {{<<m, t, i>> : i \in DOMAIN A[m].relas[t].entries} :
                         t \in DOMAIN A[m].relas}
    BY Zenon DEF N!Places
  <2>2. PICK t \in DOMAIN A[m].relas :
          p \in {<<m, t, i>> : i \in DOMAIN A[m].relas[t].entries}
    BY <2>1, Zenon
  <2>3. PICK i \in DOMAIN A[m].relas[t].entries : p = <<m, t, i>>
    BY <2>2, Zenon
  <2>4. p[1] = m /\ p[2] = t /\ p[3] = i
    BY <2>3
  <2> QED BY <2>1, <2>2, <2>3, <2>4, Zenon
<1>2. ASSUME NEW m \in DOMAIN A, A[m].elf, NEW t \in DOMAIN A[m].relas,
             NEW i \in DOMAIN A[m].relas[t].entries
      PROVE  <<m, t, i>> \in N!Places(A)
  <2> DEFINE ofTable(n, u) == {<<n, u, j>> : j \in DOMAIN A[n].relas[u].entries}
             ofMember(n) == UNION {ofTable(n, u) : u \in DOMAIN A[n].relas}
  <2>1. <<m, t, i>> \in ofTable(m, t)
    OBVIOUS
  <2>2. N!Places(A) = UNION {ofMember(n) : n \in {k \in DOMAIN A : A[k].elf}}
    BY Zenon DEF N!Places
  <2> HIDE DEF ofTable
  <2>3. <<m, t, i>> \in ofMember(m)
    BY <2>1, Zenon
  <2> HIDE DEF ofMember
  <2>4. m \in {k \in DOMAIN A : A[k].elf}
    BY <1>2, Zenon
  <2> QED BY <2>2, <2>3, <2>4, Zenon
<1> QED BY <1>1, <1>2, Zenon

\* What an object is made of.
LEMMA ObjectForm ==
  ASSUME NEW x, N!IsObject(x)
  PROVE  /\ x \in [elf : {TRUE}, sections : {x.sections}, symbols : {x.symbols},
                   relas : {x.relas}, text : {x.text}]
         /\ x.relas \in Seq(N!Tables)
         /\ x.text \in [DOMAIN x.text -> N!HALFWORDS]
         /\ x.sections \in Seq([name : STRING, offset : Nat, size : Nat])
         /\ \A t \in DOMAIN x.relas :
              /\ x.relas[t].info \in Nat /\ x.relas[t].valid \in BOOLEAN
              /\ x.relas[t].entries \in Seq(N!Relocations)
              /\ x.relas[t] = [info |-> x.relas[t].info, valid |-> x.relas[t].valid,
                               entries |-> x.relas[t].entries]
<1>1. x.relas \in Seq(N!Tables)
  BY DEF N!IsObject
<1>2. ASSUME NEW t \in DOMAIN x.relas
      PROVE  x.relas[t] \in N!Tables
  BY <1>1
<1>3. \A t \in DOMAIN x.relas :
              /\ x.relas[t].info \in Nat /\ x.relas[t].valid \in BOOLEAN
              /\ x.relas[t].entries \in Seq(N!Relocations)
              /\ x.relas[t] = [info |-> x.relas[t].info, valid |-> x.relas[t].valid,
                               entries |-> x.relas[t].entries]
  BY <1>2 DEF N!Tables
<1>4. x \in [elf : {TRUE}, sections : {x.sections}, symbols : {x.symbols},
                   relas : {x.relas}, text : {x.text}]
  BY DEF N!IsObject
<1>5. /\ x.text \in [DOMAIN x.text -> N!HALFWORDS]
      /\ x.sections \in Seq([name : STRING, offset : Nat, size : Nat])
  BY DEF N!IsObject
<1> QED BY <1>1, <1>3, <1>4, <1>5, Zenon

\* The fields of a record.
LEMMA FieldsOf ==
  ASSUME NEW e, NEW a, NEW b, NEW c, NEW d, NEW x,
         x = [elf |-> e, sections |-> a, symbols |-> b, relas |-> c, text |-> d]
  PROVE  /\ x.elf = e /\ x.sections = a /\ x.symbols = b
         /\ x.relas = c /\ x.text = d
         /\ x \in [elf : {e}, sections : {a}, symbols : {b}, relas : {c}, text : {d}]
OBVIOUS

\* An entry of an object is replaced, and its text.
Put(x, t, i, new, words) == [x EXCEPT !.relas[t].entries[i] = new, !.text = words]

\* An object in which one entry and the text are replaced.
LEMMA EntryPut ==
  ASSUME NEW x, N!IsObject(x),
         NEW t \in DOMAIN x.relas, NEW i \in DOMAIN x.relas[t].entries,
         NEW new \in N!Relocations, NEW words \in [DOMAIN x.text -> N!HALFWORDS],
         NEW y, y = Put(x, t, i, new, words)
  PROVE  /\ SameForm(x, y) /\ y.elf = x.elf /\ y.text = words
         /\ y.relas[t].entries[i] = new
         /\ \A u \in DOMAIN x.relas : \A j \in DOMAIN x.relas[u].entries :
              u # t \/ j # i => y.relas[u].entries[j] = x.relas[u].entries[j]
<1> DEFINE put == [x.relas[t].entries EXCEPT ![i] = new]
           row == [x.relas[t] EXCEPT !.entries = put]
           rows == [x.relas EXCEPT ![t] = row]
<1>0. /\ x \in [elf : {TRUE}, sections : {x.sections}, symbols : {x.symbols},
                relas : {x.relas}, text : {x.text}]
      /\ x.relas \in Seq(N!Tables)
      /\ x.relas[t].info \in Nat /\ x.relas[t].valid \in BOOLEAN
      /\ x.relas[t].entries \in Seq(N!Relocations)
      /\ x.relas[t] = [info |-> x.relas[t].info, valid |-> x.relas[t].valid,
                       entries |-> x.relas[t].entries]
  BY ObjectForm, Zenon
<1>1. put \in Seq(N!Relocations) /\ DOMAIN put = DOMAIN x.relas[t].entries
      /\ put[i] = new
      /\ \A j \in DOMAIN x.relas[t].entries : j # i => put[j] = x.relas[t].entries[j]
  <2> DEFINE old == x.relas[t].entries
             all == N!Relocations
  <2>1. old \in Seq(all) /\ new \in all /\ i \in DOMAIN old
    BY <1>0
  <2> HIDE DEF old, all
  <2>2. LET q == [old EXCEPT ![i] = new]
        IN  /\ q \in Seq(all) /\ DOMAIN q = DOMAIN old /\ q[i] = new
            /\ \A j \in DOMAIN old : j # i => q[j] = old[j]
    BY <2>1
  <2> QED BY <2>2 DEF old, all
<1>2. /\ row \in N!Tables /\ row.entries = put
      /\ row.info = x.relas[t].info /\ row.valid = x.relas[t].valid
  <2> HIDE DEF put
  <2>1. row = [info |-> x.relas[t].info, valid |-> x.relas[t].valid, entries |-> put]
    BY <1>0
  <2> HIDE DEF row
  <2> QED BY <1>0, <1>1, <2>1 DEF N!Tables
<1>3. /\ rows \in Seq(N!Tables) /\ DOMAIN rows = DOMAIN x.relas /\ rows[t] = row
      /\ \A u \in DOMAIN x.relas : u # t => rows[u] = x.relas[u]
  <2> DEFINE old == x.relas
             all == N!Tables
  <2>1. old \in Seq(all) /\ row \in all /\ t \in DOMAIN old
    BY <1>0, <1>2
  <2> HIDE DEF old, all, row
  <2>2. LET q == [old EXCEPT ![t] = row]
        IN  /\ q \in Seq(all) /\ DOMAIN q = DOMAIN old /\ q[t] = row
            /\ \A u \in DOMAIN old : u # t => q[u] = old[u]
    BY <2>1
  <2> QED BY <2>2 DEF old, all
<1>4. y = [[x EXCEPT !.relas = rows] EXCEPT !.text = words]
  BY <1>0 DEF Put
<1> HIDE DEF put, row, rows
<1>5. /\ y.elf = x.elf /\ y.sections = x.sections /\ y.symbols = x.symbols
      /\ y.relas = rows /\ y.text = words
      /\ y \in [elf : {TRUE}, sections : {x.sections}, symbols : {x.symbols},
                relas : {rows}, text : {words}]
  <2>1. PICK e, a, b, c, d :
          /\ x = [elf |-> e, sections |-> a, symbols |-> b, relas |-> c, text |-> d]
          /\ e = x.elf /\ a = x.sections /\ b = x.symbols
    BY <1>0
  <2>2. [x EXCEPT !.relas = rows] =
          [elf |-> e, sections |-> a, symbols |-> b, relas |-> rows, text |-> d]
    BY <2>1
  <2>3. y = [elf |-> e, sections |-> a, symbols |-> b, relas |-> rows,
             text |-> words]
    BY <1>4, <2>2, ZenonT(60)
  <2>4. /\ y.elf = e /\ y.sections = a /\ y.symbols = b
        /\ y.relas = rows /\ y.text = words
        /\ y \in [elf : {e}, sections : {a}, symbols : {b}, relas : {rows},
                  text : {words}]
    BY <2>3, FieldsOf, Zenon
  <2>5. x.elf = TRUE
    BY <1>0
  <2> QED BY <2>1, <2>4, <2>5, Zenon
<1>6. N!IsObject(y)
  <2>1. /\ x.sections \in Seq([name : STRING, offset : Nat, size : Nat])
        /\ x.symbols \in [DOMAIN x.symbols -> [section : Nat, value : Int]]
        /\ DOMAIN words = DOMAIN x.text
    BY DEF N!IsObject
  <2>2. y \in [elf : {TRUE}, sections : Seq([name : STRING, offset : Nat, size : Nat]),
               symbols : {y.symbols}, relas : Seq(N!Tables), text : {y.text}]
    BY <1>3, <1>5, <2>1
  <2>3. y.text \in [DOMAIN y.text -> N!HALFWORDS]
    BY <1>5, <2>1
  <2> QED BY <1>5, <2>1, <2>2, <2>3, Zenon DEF N!IsObject
<1>7. ASSUME NEW u \in DOMAIN x.relas
      PROVE  /\ rows[u].info = x.relas[u].info
             /\ rows[u].valid = x.relas[u].valid
             /\ DOMAIN rows[u].entries = DOMAIN x.relas[u].entries
             /\ \A j \in DOMAIN x.relas[u].entries :
                  u # t \/ j # i => rows[u].entries[j] = x.relas[u].entries[j]
  <2>1. CASE u = t
    BY <1>1, <1>2, <1>3, <2>1
  <2>2. CASE u # t
    BY <1>3, <2>2
  <2> QED BY <2>1, <2>2
<1>8. SameForm(x, y)
  <2>1. DOMAIN y.text = DOMAIN x.text
    BY <1>5
  <2> QED BY <1>3, <1>5, <1>6, <1>7, <2>1 DEF SameForm
<1>9. /\ y.elf = x.elf /\ y.text = words /\ y.relas[t].entries[i] = new
      /\ \A u \in DOMAIN x.relas : \A j \in DOMAIN x.relas[u].entries :
           u # t \/ j # i => y.relas[u].entries[j] = x.relas[u].entries[j]
  BY <1>1, <1>2, <1>3, <1>5, <1>7
<1> QED BY <1>8, <1>9, Zenon

\* The form is that of the file that is read, whatever is rewritten.
LEMMA FormTransitive ==
  ASSUME NEW A, NEW X, NEW Y, FormKept(A, X), FormKept(X, Y)
  PROVE  FormKept(A, Y)
<1>1. ASSUME NEW a, NEW x, NEW y, SameForm(a, x), SameForm(x, y)
      PROVE  SameForm(a, y)
  BY <1>1 DEF SameForm
<1> QED BY <1>1 DEF FormKept

\* A file has its own form.
LEMMA FormReflexive ==
  ASSUME NEW A, N!IsFile(A)
  PROVE  FormKept(A, A)
BY DEF FormKept, SameForm, N!IsFile

\* So the places are the same, and what the normaliser asks beside the entry.
LEMMA SameAnswers ==
  ASSUME NEW a, NEW x, SameForm(a, x), NEW t \in DOMAIN a.relas, NEW e
  PROVE  /\ N!Refused(x, x.relas[t], e) = N!Refused(a, a.relas[t], e)
         /\ N!Site(x, x.relas[t], e) = N!Site(a, a.relas[t], e)
         /\ N!Displacement(x, e) = N!Displacement(a, e)
<1>1. /\ x.sections = a.sections /\ x.symbols = a.symbols
      /\ DOMAIN x.text = DOMAIN a.text
      /\ x.relas[t].info = a.relas[t].info
  BY DEF SameForm
<1>2. /\ N!Site(x, x.relas[t], e) = N!Site(a, a.relas[t], e)
      /\ N!Displacement(x, e) = N!Displacement(a, e)
  BY <1>1, Zenon DEF N!Site, N!Displacement
<1>3. /\ N!Llui48Fits(x, x.relas[t], e) = N!Llui48Fits(a, a.relas[t], e)
      /\ N!IsRepMarker(x, x.relas[t], e) = N!IsRepMarker(a, a.relas[t], e)
  BY <1>1, Zenon DEF N!Llui48Fits, N!IsRepMarker
<1>4. N!BranchiConvertible(x, x.relas[t], e) = N!BranchiConvertible(a, a.relas[t], e)
  BY <1>1, <1>2, Zenon DEF N!BranchiConvertible, N!HasWord
<1> QED BY <1>2, <1>3, <1>4, Zenon DEF N!Refused

\* A rewritten file has the places and the tables of the file that was read.
LEMMA FormOfFile ==
  ASSUME NEW A, NEW X, N!IsFile(A), FormKept(A, X)
  PROVE  /\ N!IsFile(X) /\ Len(X) = Len(A)
         /\ N!Places(X) = N!Places(A)
         /\ \A p \in N!Places(A) :
              /\ SameForm(A[p[1]], X[p[1]])
              /\ N!TableOf(X, p).info = N!TableOf(A, p).info
<1>1. DOMAIN X = 1 .. Len(A) /\ Len(A) \in Nat
  BY DEF FormKept, N!IsFile
<1>2. Len(X) = Len(A)
  BY <1>1
<1>3. N!IsFile(X)
  BY <1>1, <1>2 DEF FormKept, SameForm, N!IsFile
<1>4. ASSUME NEW p \in N!Places(A)
      PROVE  /\ p \in N!Places(X)
             /\ SameForm(A[p[1]], X[p[1]])
             /\ N!TableOf(X, p).info = N!TableOf(A, p).info
  <2>1. /\ p = <<p[1], p[2], p[3]>>
        /\ p[1] \in DOMAIN A /\ A[p[1]].elf
        /\ p[2] \in DOMAIN A[p[1]].relas
        /\ p[3] \in DOMAIN A[p[1]].relas[p[2]].entries
    BY PlaceForm, Zenon
  <2>2. /\ SameForm(A[p[1]], X[p[1]]) /\ p[1] \in DOMAIN X /\ X[p[1]].elf
    BY <2>1, Zenon DEF FormKept
  <2>3. /\ p[2] \in DOMAIN X[p[1]].relas
        /\ p[3] \in DOMAIN X[p[1]].relas[p[2]].entries
        /\ X[p[1]].relas[p[2]].info = A[p[1]].relas[p[2]].info
    BY <2>1, <2>2, Zenon DEF SameForm
  <2>4. <<p[1], p[2], p[3]>> \in N!Places(X)
    BY <2>2, <2>3, PlaceForm, Zenon
  <2> QED BY <2>1, <2>2, <2>3, <2>4, Zenon DEF N!TableOf
<1>5. ASSUME NEW p \in N!Places(X)
      PROVE  p \in N!Places(A)
  <2>1. /\ p = <<p[1], p[2], p[3]>>
        /\ p[1] \in DOMAIN X /\ X[p[1]].elf
        /\ p[2] \in DOMAIN X[p[1]].relas
        /\ p[3] \in DOMAIN X[p[1]].relas[p[2]].entries
    BY PlaceForm, Zenon
  <2>2. /\ SameForm(A[p[1]], X[p[1]]) /\ p[1] \in DOMAIN A /\ A[p[1]].elf
    BY <2>1, Zenon DEF FormKept
  <2>3. /\ p[2] \in DOMAIN A[p[1]].relas
        /\ p[3] \in DOMAIN A[p[1]].relas[p[2]].entries
    BY <2>1, <2>2, Zenon DEF SameForm
  <2>4. <<p[1], p[2], p[3]>> \in N!Places(A)
    BY <2>2, <2>3, PlaceForm, Zenon
  <2> QED BY <2>1, <2>4, Zenon
<1> QED BY <1>2, <1>3, <1>4, <1>5

\* The same of a file: one entry of one object is replaced, and its text.
PutIn(X, m, t, i, new, words) ==
  [X EXCEPT ![m].relas[t].entries[i] = new, ![m].text = words]

\* The same, in a file.
LEMMA FilePut ==
  ASSUME NEW X, N!IsFile(X), NEW m \in DOMAIN X, X[m].elf,
         NEW t \in DOMAIN X[m].relas, NEW i \in DOMAIN X[m].relas[t].entries,
         NEW new \in N!Relocations, NEW words \in [DOMAIN X[m].text -> N!HALFWORDS],
         NEW Y, Y = PutIn(X, m, t, i, new, words)
  PROVE  /\ FormKept(X, Y) /\ Y[m].text = words
         /\ \A n \in DOMAIN X : n # m => Y[n] = X[n]
         /\ N!At(Y, <<m, t, i>>) = new
         /\ \A p \in N!Places(X) : p # <<m, t, i>> => N!At(Y, p) = N!At(X, p)
<1>1. N!IsObject(X[m])
  BY DEF N!IsFile
<1>2. PICK x, y : x = X[m] /\ y = Put(x, t, i, new, words)
  OBVIOUS
<1>3. /\ DOMAIN Y = DOMAIN X /\ Y[m] = y
      /\ \A n \in DOMAIN X : n # m => Y[n] = X[n]
  BY <1>2 DEF Put, PutIn
<1>4. /\ SameForm(x, y) /\ y.elf = x.elf /\ y.text = words
      /\ y.relas[t].entries[i] = new
      /\ \A u \in DOMAIN x.relas : \A j \in DOMAIN x.relas[u].entries :
           u # t \/ j # i => y.relas[u].entries[j] = x.relas[u].entries[j]
  <2>1. /\ N!IsObject(x) /\ t \in DOMAIN x.relas
        /\ i \in DOMAIN x.relas[t].entries
        /\ words \in [DOMAIN x.text -> N!HALFWORDS]
    BY <1>1, <1>2, Zenon
  <2> QED BY <1>2, <2>1, EntryPut
<1>5. FormKept(X, Y)
  <2>1. ASSUME NEW n \in DOMAIN X
        PROVE  Y[n].elf = X[n].elf /\ (X[n].elf => SameForm(X[n], Y[n]))
    <3>1. CASE n = m
      BY <1>2, <1>3, <1>4, <3>1, Zenon
    <3>2. CASE n # m
      BY <1>3, <3>2 DEF N!IsFile, SameForm
    <3> QED BY <3>1, <3>2
  <2> QED BY <1>3, <2>1 DEF FormKept
<1>6. ASSUME NEW p \in N!Places(X), p # <<m, t, i>>
      PROVE  N!At(Y, p) = N!At(X, p)
  <2>1. /\ p = <<p[1], p[2], p[3]>>
        /\ p[1] \in DOMAIN X
        /\ p[2] \in DOMAIN X[p[1]].relas
        /\ p[3] \in DOMAIN X[p[1]].relas[p[2]].entries
    BY PlaceForm, Zenon
  <2>2. CASE p[1] # m
    BY <1>3, <2>1, <2>2 DEF N!At
  <2>3. CASE p[1] = m
    <3>1. p[2] # t \/ p[3] # i
      BY <1>6, <2>1, <2>3, Zenon
    <3>2. /\ p[2] \in DOMAIN x.relas /\ p[3] \in DOMAIN x.relas[p[2]].entries
      BY <1>2, <2>1, <2>3, Zenon
    <3>3. y.relas[p[2]].entries[p[3]] = x.relas[p[2]].entries[p[3]]
      BY <1>4, <3>1, <3>2, Zenon
    <3>4. N!At(X, p) = x.relas[p[2]].entries[p[3]]
      BY <1>2, <2>3, Zenon DEF N!At
    <3>5. N!At(Y, p) = y.relas[p[2]].entries[p[3]]
      BY <1>3, <2>3, Zenon DEF N!At
    <3> QED BY <3>3, <3>4, <3>5, Zenon
  <2> QED BY <2>2, <2>3
<1>7. N!At(Y, <<m, t, i>>) = new
  BY <1>3, <1>4 DEF N!At
<1> QED BY <1>2, <1>3, <1>4, <1>5, <1>6, <1>7

\* One more entry is passed: it is converted, the others keep what they have.
LEMMA EntriesStep ==
  ASSUME NEW A, NEW X, NEW Q, Q \subseteq N!Places(A), EntriesDone(A, X, Q),
         NEW p \in N!Places(A), p \notin Q, ~N!RefusedAt(A, p),
         NEW Y, N!At(Y, p) = NewEntry(A, p),
         \A q \in N!Places(A) : q # p => N!At(Y, q) = N!At(X, q)
  PROVE  EntriesDone(A, Y, Q \cup {p})
<1>1. ASSUME NEW q \in Q
      PROVE  ~N!RefusedAt(A, q) /\ N!At(Y, q) = NewEntry(A, q)
  <2>1. q \in N!Places(A) /\ q # p
    OBVIOUS
  <2> QED BY <2>1, Zenon DEF EntriesDone
<1>2. ASSUME NEW q \in N!Places(A), q \notin Q, q # p
      PROVE  N!At(Y, q) = N!At(A, q)
  BY <1>2, Zenon DEF EntriesDone
<1> QED BY <1>1, <1>2, Zenon DEF EntriesDone

\* It is counted if it was converted.
LEMMA CountsStep ==
  ASSUME NEW A, NEW Q, IsFiniteSet(Q), NEW c \in [N!COUNTERS -> Nat],
         CountsDone(A, Q, c), NEW p, p \notin Q,
         NEW d, d = IF CountedAs(A, p) \in N!COUNTERS
                      THEN [c EXCEPT ![CountedAs(A, p)] = @ + 1] ELSE c
  PROVE  /\ IsFiniteSet(Q \cup {p})
         /\ d \in [N!COUNTERS -> Nat] /\ CountsDone(A, Q \cup {p}, d)
<1> DEFINE Some(R, k) == {q \in R : CountedAs(A, q) = k}
<1>1. IsFiniteSet(Q \cup {p})
  BY FS_AddElement
<1>2. ASSUME NEW k \in N!COUNTERS
      PROVE  d[k] = Cardinality(Some(Q \cup {p}, k))
  <2>1. c[k] = Cardinality(Some(Q, k)) /\ IsFiniteSet(Some(Q, k))
    BY FS_Subset DEF CountsDone
  <2>2. CASE CountedAs(A, p) = k
    <3>1. Some(Q \cup {p}, k) = Some(Q, k) \cup {p} /\ p \notin Some(Q, k)
      BY <2>2
    <3> HIDE DEF Some
    <3>2. Cardinality(Some(Q, k) \cup {p}) = Cardinality(Some(Q, k)) + 1
      BY <2>1, <3>1, UserAdded, Zenon
    <3>3. d[k] = c[k] + 1
      BY <2>2
    <3> QED BY <2>1, <3>1, <3>2, <3>3
  <2>3. CASE CountedAs(A, p) # k
    <3>1. Some(Q \cup {p}, k) = Some(Q, k)
      BY <2>3
    <3>2. d[k] = c[k]
      BY <2>3
    <3> QED BY <2>1, <3>1, <3>2
  <2> QED BY <2>2, <2>3
<1>3. d \in [N!COUNTERS -> Nat]
  OBVIOUS
<1> QED BY <1>1, <1>2, <1>3 DEF CountsDone

\* The text of an object stays as it is where no branch is encoded.
LEMMA TextStays ==
  ASSUME NEW A, NEW X, NEW Q, NEW m, TextDone(A, X, Q, m),
         NEW p, p[1] # m \/ N!At(A, p).type # "BRANCHI",
         NEW Y, Y[m].text = X[m].text
  PROVE  TextDone(A, Y, Q \cup {p}, m)
<1>1. BranchesOf(A, Q \cup {p}, m) = BranchesOf(A, Q, m)
  BY DEF BranchesOf
<1>2. \A s : N!WordAt(Y[m], s) = N!WordAt(X[m], s)
  BY DEF N!WordAt
<1>3. ASSUME NEW q \in BranchesOf(A, Q, m)
      PROVE  BranchDone(A, Y, q)
  <2>1. BranchDone(A, X, q) /\ q[1] = m
    BY DEF TextDone, BranchesOf
  <2> QED BY <1>2, <2>1, Zenon DEF BranchDone
<1>4. \A h \in DOMAIN A[m].text :
        (\A q \in BranchesOf(A, Q, m) : h \notin N!HalvesAt(A, q))
          => Y[m].text[h] = A[m].text[h]
  BY Zenon DEF TextDone
<1> QED BY <1>1, <1>3, <1>4, Zenon DEF TextDone

\* Where one is, its word jumps to where the relocation says, keeps its other
\* bits, and no other word is touched.
WordPut(text, site, word) ==
  [text EXCEPT ![site \div 2] = word[1], ![site \div 2 + 1] = word[2]]

\* A branch that is not refused has a displacement.
LEMMA BranchAccepted ==
  ASSUME NEW A, NEW p \in N!Places(A), N!At(A, p).type = "BRANCHI",
         ~N!RefusedAt(A, p)
  PROVE  p \in N!BranchesWithGoal(A)
<1>1. N!BranchiConvertible(A[p[1]], N!TableOf(A, p), N!At(A, p))
  BY DEF N!RefusedAt, N!Refused
<1> QED BY <1>1 DEF N!BranchiConvertible, N!BranchesWithGoal, N!OfType, N!GoalAt

\* A branch that is encoded: apart from the words of the others, so those stay done.
LEMMA TextEncoded ==
  ASSUME NEW A, N!BranchesApart(A), NEW X, NEW Q, Q \subseteq N!Places(A),
         EntriesDone(A, X, Q),
         NEW p \in N!Places(A), N!At(A, p).type = "BRANCHI", ~N!RefusedAt(A, p),
         NEW m, m = p[1], SameForm(A[m], X[m]), TextDone(A, X, Q, m),
         NEW site \in Int, site = N!SiteAt(A, p),
         NEW word, word = N!EncodeBranchi(N!WordAt(X[m], site), N!GoalAt(A, p)),
         NEW words, words = WordPut(X[m].text, site, word)
  PROVE  /\ words \in [DOMAIN X[m].text -> N!HALFWORDS]
         /\ \A Y : Y[m].text = words => TextDone(A, Y, Q \cup {p}, m)
<1> DEFINE before == X[m].text
           low == site \div 2
<1>1. /\ low \in DOMAIN before /\ low + 1 \in DOMAIN before
      /\ N!Encodable(N!GoalAt(A, p))
  <2>1. N!BranchiConvertible(A[m], N!TableOf(A, p), N!At(A, p))
    BY DEF N!RefusedAt, N!Refused
  <2>2. N!HasWord(A[m], site) /\ N!Encodable(N!GoalAt(A, p))
    BY <2>1, Zenon DEF N!BranchiConvertible, N!SiteAt, N!GoalAt
  <2>3. low \in DOMAIN A[m].text /\ low + 1 \in DOMAIN A[m].text
    BY <2>2, SMTT(40) DEF N!HasWord
  <2> QED BY <2>2, <2>3 DEF SameForm
<1>2. before \in [DOMAIN before -> N!HALFWORDS]
  BY DEF SameForm, N!IsObject
<1>3. low \in Int /\ low # low + 1
  OBVIOUS
<1>4. N!WordAt(X[m], site) = <<before[low], before[low + 1]>>
  BY DEF N!WordAt
<1>5. /\ word[1] \in N!HALFWORDS /\ word[2] \in N!HALFWORDS
      /\ N!DecodeBranchi(word) = N!GoalAt(A, p)
      /\ N!OtherBits(word) = N!OtherBits(N!WordAt(X[m], site))
  <2>1. before[low] \in N!HALFWORDS /\ before[low + 1] \in N!HALFWORDS
    BY <1>1, <1>2
  <2>2. word = N!EncodeBranchi(N!WordAt(X[m], site), N!GoalAt(A, p))
    OBVIOUS
  <2>3. PICK b, c, old, goal :
          /\ b = before[low] /\ c = before[low + 1] /\ old = N!WordAt(X[m], site)
          /\ goal = N!GoalAt(A, p)
    OBVIOUS
  <2>4. /\ b \in N!HALFWORDS /\ c \in N!HALFWORDS /\ N!Encodable(goal)
        /\ old = <<b, c>> /\ word = N!EncodeBranchi(old, goal)
    BY <1>1, <1>4, <2>1, <2>2, <2>3, Zenon
  <2>5. /\ word[1] \in N!HALFWORDS /\ word[2] \in N!HALFWORDS
        /\ N!DecodeBranchi(word) = goal /\ N!OtherBits(word) = N!OtherBits(old)
    BY <2>4, BranchBits
  <2> QED BY <2>3, <2>5, Zenon
<1>6. words = [before EXCEPT ![low] = word[1], ![low + 1] = word[2]]
  BY DEF WordPut
<1>7. word = <<word[1], word[2]>>
  BY DEF N!EncodeBranchi
<1>8. N!HalvesAt(A, p) = {low, low + 1}
  BY DEF N!HalvesAt
<1> HIDE DEF before, low
<1>9. /\ words \in [DOMAIN before -> N!HALFWORDS]
      /\ words[low] = word[1] /\ words[low + 1] = word[2]
      /\ \A h \in DOMAIN before : h \notin {low, low + 1} => words[h] = before[h]
  BY <1>1, <1>2, <1>3, <1>5, <1>6
<1> DEFINE Old == BranchesOf(A, Q, m)
<1>10. BranchesOf(A, Q \cup {p}, m) = Old \cup {p}
  BY DEF BranchesOf
<1>11. ASSUME NEW q \in Old
       PROVE  /\ BranchDone(A, X, q) /\ q[1] = m
              /\ \/ N!SiteAt(A, q) = site /\ N!GoalAt(A, q) = N!GoalAt(A, p)
                 \/ N!HalvesAt(A, q) \cap {low, low + 1} = {}
  <2>1. q \in Q /\ q[1] = m /\ N!At(A, q).type = "BRANCHI" /\ BranchDone(A, X, q)
    BY DEF TextDone, BranchesOf
  <2>2. q \in N!BranchesWithGoal(A)
    BY <2>1, BranchAccepted DEF EntriesDone
  <2>3. p \in N!BranchesWithGoal(A) /\ q[1] = p[1]
    BY <2>1, BranchAccepted
  <2> QED BY <1>8, <2>1, <2>2, <2>3, Zenon DEF N!BranchesApart
<1>12. ASSUME NEW Y, Y[m].text = words
       PROVE  TextDone(A, Y, Q \cup {p}, m)
  <2>1. N!WordAt(Y[m], site) = word
    BY <1>7, <1>9, <1>12 DEF N!WordAt, low
  <2>2. ASSUME NEW h \in DOMAIN A[m].text,
                \A q \in Old \cup {p} : h \notin N!HalvesAt(A, q)
         PROVE  words[h] = A[m].text[h]
    <3>1. h \notin {low, low + 1} /\ h \in DOMAIN before
      BY <1>8, <2>2 DEF SameForm, before
    <3>2. before[h] = A[m].text[h]
      BY <2>2, Zenon DEF TextDone, before
    <3> QED BY <1>9, <3>1, <3>2
  <2>3. ASSUME NEW q \in Old
         PROVE  BranchDone(A, Y, q)
    <3>1. CASE N!SiteAt(A, q) = site /\ N!GoalAt(A, q) = N!GoalAt(A, p)
      BY <1>5, <2>1, <1>11, <3>1, Zenon DEF BranchDone
    <3>2. CASE N!HalvesAt(A, q) \cap {low, low + 1} = {}
      <4>1. /\ N!SiteAt(A, q) \div 2 \in DOMAIN before
            /\ N!SiteAt(A, q) \div 2 + 1 \in DOMAIN before
        <5>1. q \in Q /\ N!At(A, q).type = "BRANCHI" /\ ~N!RefusedAt(A, q) /\ q[1] = m
          BY DEF BranchesOf, EntriesDone
        <5>2. N!BranchiConvertible(A[m], N!TableOf(A, q), N!At(A, q))
          BY <5>1 DEF N!RefusedAt, N!Refused
        <5>3. N!HasWord(A[m], N!SiteAt(A, q))
          BY <5>1, <5>2, Zenon DEF N!BranchiConvertible, N!SiteAt
        <5> QED BY <5>3 DEF N!HasWord, SameForm, before
      <4>2. N!WordAt(Y[m], N!SiteAt(A, q)) = N!WordAt(X[m], N!SiteAt(A, q))
        <5>1. /\ words[N!SiteAt(A, q) \div 2] = before[N!SiteAt(A, q) \div 2]
              /\ words[N!SiteAt(A, q) \div 2 + 1] = before[N!SiteAt(A, q) \div 2 + 1]
          BY <1>9, <3>2, <4>1, Zenon DEF N!HalvesAt
        <5> QED BY <1>12, <5>1, Zenon DEF N!WordAt, before
      <4> QED BY <1>11, <4>2, Zenon DEF BranchDone
    <3> QED BY <1>11, <3>1, <3>2, Zenon
  <2>4. BranchDone(A, Y, p)
    <3>1. N!OtherBits(N!WordAt(X[m], site)) = N!OtherBits(N!WordAt(A[m], site))
      <4>1. CASE \E q \in Old : N!SiteAt(A, q) = site
        BY <1>11, <4>1, Zenon DEF BranchDone
      <4>2. CASE \A q \in Old : N!SiteAt(A, q) # site
        <5>1. \A q \in Old : N!HalvesAt(A, q) \cap {low, low + 1} = {}
          BY <1>11, <4>2, Zenon
        <5>2. low \in DOMAIN A[m].text /\ low + 1 \in DOMAIN A[m].text
          BY <1>1 DEF SameForm, before
        <5>3. before[low] = A[m].text[low] /\ before[low + 1] = A[m].text[low + 1]
          BY <5>1, <5>2, Zenon DEF TextDone, before
        <5> QED BY <5>3, Zenon DEF N!WordAt, before, low
      <4> QED BY <4>1, <4>2, Zenon
    <3> QED BY <1>5, <2>1, <3>1, Zenon DEF BranchDone
  <2> QED BY <1>10, <1>12, <2>2, <2>3, <2>4, ZenonT(60) DEF TextDone
<1> QED BY <1>9, <1>12 DEF before

\* The numbers that name a place.
LEMMA PlaceNumbers ==
  ASSUME NEW A, N!IsFile(A), NEW p \in N!Places(A)
  PROVE  /\ p[1] \in 1 .. Len(A) /\ Len(A) \in Nat
         /\ N!IsObject(A[p[1]])
         /\ p[2] \in 1 .. Len(A[p[1]].relas) /\ Len(A[p[1]].relas) \in Nat
         /\ p[3] \in 1 .. Len(N!TableOf(A, p).entries)
         /\ Len(N!TableOf(A, p).entries) \in Nat
         /\ N!At(A, p) \in N!Relocations
<1>1. /\ p[1] \in DOMAIN A /\ A[p[1]].elf
      /\ p[2] \in DOMAIN A[p[1]].relas
      /\ p[3] \in DOMAIN A[p[1]].relas[p[2]].entries
  BY PlaceForm, Zenon
<1>2. N!IsObject(A[p[1]]) /\ p[1] \in 1 .. Len(A) /\ Len(A) \in Nat
  BY <1>1 DEF N!IsFile
<1>3. /\ A[p[1]].relas \in Seq(N!Tables)
      /\ A[p[1]].relas[p[2]].entries \in Seq(N!Relocations)
  BY <1>1, <1>2, ObjectForm, Zenon
<1>4. /\ p[2] \in 1 .. Len(A[p[1]].relas) /\ Len(A[p[1]].relas) \in Nat
      /\ p[3] \in 1 .. Len(A[p[1]].relas[p[2]].entries)
      /\ Len(A[p[1]].relas[p[2]].entries) \in Nat
      /\ A[p[1]].relas[p[2]].entries[p[3]] \in N!Relocations
  <2> DEFINE rows == A[p[1]].relas
             list == rows[p[2]].entries
             allRows == N!Tables
             all == N!Relocations
  <2>1. /\ rows \in Seq(allRows) /\ p[2] \in DOMAIN rows
        /\ list \in Seq(all) /\ p[3] \in DOMAIN list
    BY <1>1, <1>3, Zenon
  <2> HIDE DEF rows, list, allRows, all
  <2>2. /\ p[2] \in 1 .. Len(rows) /\ Len(rows) \in Nat
        /\ p[3] \in 1 .. Len(list) /\ Len(list) \in Nat /\ list[p[3]] \in all
    BY <2>1
  <2> QED BY <2>2, Zenon DEF rows, list, all
<1> QED BY <1>2, <1>4 DEF N!TableOf, N!At

\* The entry that is looked at: as the file that is read has it.
Here == <<member, table, entry>>

\* What the normalizer sees at the cursor is the entry as it was in the input.
LEMMA HereIs ==
  ASSUME NormalizerInv, at = "entry", entry <= Len(N!Rela.entries)
  PROVE  /\ Here \in N!Places(archive) /\ Here \notin Passed
         /\ Here \in N!Places(data) /\ N!IsFile(data)
         /\ SameForm(archive[member], N!Object)
         /\ N!Entry = N!At(archive, Here) /\ N!Entry \in N!Relocations
         /\ N!Refused(N!Object, N!Rela, N!Entry) = N!RefusedAt(archive, Here)
         /\ N!Site(N!Object, N!Rela, N!Entry) = N!SiteAt(archive, Here)
         /\ N!Displacement(N!Object, N!Entry) = N!GoalAt(archive, Here)
         /\ N!SiteAt(archive, Here) \in Int
         /\ N!Rela.info = N!TableOf(archive, Here).info
<1>1. /\ member \in DOMAIN archive /\ archive[member].elf
      /\ table \in DOMAIN archive[member].relas
      /\ entry \in 1 .. Len(archive[member].relas[table].entries) + 1
      /\ N!IsFile(archive) /\ FormKept(archive, data)
  BY DEF NormalizerInv, Cursor
<1>2. SameForm(archive[member], data[member]) /\ data[member].elf
  BY <1>1, Zenon DEF FormKept
<1>3. N!IsObject(archive[member]) /\ N!IsObject(data[member])
  BY <1>1, <1>2, Zenon DEF SameForm, N!IsFile
<1>4. /\ table \in DOMAIN data[member].relas
      /\ data[member].relas[table].info = archive[member].relas[table].info
      /\ DOMAIN data[member].relas[table].entries
           = DOMAIN archive[member].relas[table].entries
  BY <1>1, <1>2, Zenon DEF SameForm
<1>5. /\ archive[member].relas[table].entries \in Seq(N!Relocations)
      /\ data[member].relas[table].entries \in Seq(N!Relocations)
      /\ archive[member].relas[table].info \in Nat
  BY <1>1, <1>3, <1>4, ObjectForm, Zenon
<1>6. entry \in DOMAIN archive[member].relas[table].entries
  BY <1>1, <1>4, <1>5 DEF N!Rela, N!Object
<1>7. Here \in N!Places(archive)
  BY <1>1, <1>6, PlaceForm, Zenon DEF Here
<1>8. Here \notin Passed
  <2>1. member \in Int /\ table \in Int /\ entry \in Int
    BY <1>7, <1>1, PlaceNumbers DEF Here
  <2> QED BY <2>1 DEF Here, Passed
<1>9. N!IsFile(data) /\ N!Places(data) = N!Places(archive)
  BY <1>1, FormOfFile, Zenon
<1>10. N!At(data, Here) = N!At(archive, Here)
  BY <1>7, <1>8 DEF NormalizerInv, EntriesDone
<1>11. N!Entry = N!At(data, Here) /\ N!Object = data[member]
  BY DEF N!Entry, N!Rela, N!Object, N!At, Here
<1>12. N!Entry \in N!Relocations
  BY <1>5, <1>6, <1>10, <1>11 DEF N!At, Here
<1>13. /\ N!Rela = data[member].relas[table]
       /\ N!TableOf(archive, Here) = archive[member].relas[table]
  BY DEF N!Rela, N!Object, N!TableOf, Here
<1>14. /\ N!Refused(N!Object, N!Rela, N!Entry) = N!RefusedAt(archive, Here)
       /\ N!Site(N!Object, N!Rela, N!Entry) = N!SiteAt(archive, Here)
       /\ N!Displacement(N!Object, N!Entry) = N!GoalAt(archive, Here)
  <2>1. Here[1] = member
    BY DEF Here
  <2>2. /\ N!Refused(data[member], data[member].relas[table], N!Entry)
             = N!Refused(archive[member], archive[member].relas[table], N!Entry)
        /\ N!Site(data[member], data[member].relas[table], N!Entry)
             = N!Site(archive[member], archive[member].relas[table], N!Entry)
        /\ N!Displacement(data[member], N!Entry)
             = N!Displacement(archive[member], N!Entry)
    BY <1>1, <1>2, SameAnswers, Zenon
  <2> QED BY <1>10, <1>11, <1>13, <2>1, <2>2, Zenon
        DEF N!RefusedAt, N!SiteAt, N!GoalAt
<1>15. N!SiteAt(archive, Here) \in Int
  <2> DEFINE number == archive[member].relas[table].info
             list == archive[member].sections
             all == [name : STRING, offset : Nat, size : Nat]
  <2>1. number \in DOMAIN list
    <3>1. TablesRead
      BY DEF NormalizerInv
    <3>2. TableBegun(member, table)
      BY DEF TableBegun
    <3> QED BY <1>1, <3>1, <3>2, Zenon DEF TablesRead
  <2>2. list \in Seq(all)
    BY <1>3, ObjectForm, Zenon
  <2>4. list[number] \in all
    <3> HIDE DEF all, list, number
    <3> QED BY <2>1, <2>2
  <2>5. archive[member].sections[archive[member].relas[table].info].offset \in Nat
    <3> HIDE DEF list, number
    <3>1. list[number].offset \in Nat
      BY <2>4
    <3> QED BY <3>1 DEF list, number
  <2>3. N!Entry.offset \in Nat
    BY <1>12 DEF N!Relocations
  <2> QED BY <1>10, <1>11, <2>5, <2>3 DEF N!SiteAt, N!Site, N!TableOf, Here
<1> QED BY <1>2, <1>4, <1>7, <1>8, <1>9, <1>10, <1>11, <1>12, <1>13, <1>14, <1>15

\* It is passed next.
LEMMA PassedNext ==
  ASSUME NormalizerInv, at = "entry", entry <= Len(N!Rela.entries),
         archive' = archive, at' = at, member' = member, table' = table,
         entry' = entry + 1
  PROVE  Passed' = Passed \cup {Here}
<1>1. Here \in N!Places(archive)
  BY HereIs
<1>2. N!IsFile(archive)
  BY DEF NormalizerInv
<1>3. member \in Int /\ table \in Int /\ entry \in Int
  BY <1>1, <1>2, PlaceNumbers DEF Here
<1>4. ASSUME NEW p \in N!Places(archive)
      PROVE  p \in Passed' <=> p \in Passed \/ p = Here
  <2>1. p[1] \in Int /\ p[2] \in Int /\ p[3] \in Int /\ p = <<p[1], p[2], p[3]>>
    BY <1>2, PlaceNumbers, PlaceForm
  <2>2. p = Here <=> p[1] = member /\ p[2] = table /\ p[3] = entry
    BY <2>1 DEF Here
  <2> QED BY <1>3, <2>1, <2>2 DEF Passed
<1> QED BY <1>1, <1>4 DEF Passed

\* The cursor, and what was read of the tables, after an entry.
LEMMA CursorNext ==
  ASSUME NormalizerInv, at = "entry", entry <= Len(N!Rela.entries),
         UNCHANGED <<archive, at, member, table, branchi_sections, output>>,
         entry' = entry + 1
  PROVE  Cursor' /\ TablesRead'
<1>1. archive' = archive /\ at' = at /\ member' = member /\ table' = table
      /\ branchi_sections' = branchi_sections /\ output' = output
  OBVIOUS
<1>2. TablesRead'
  BY <1>1 DEF NormalizerInv, TablesRead, ObjectBegun, TableBegun
<1>3. Here \in N!Places(archive) /\ N!IsFile(archive)
  BY HereIs DEF NormalizerInv
<1>4. /\ entry \in 1 .. Len(archive[member].relas[table].entries)
      /\ Len(archive[member].relas[table].entries) \in Nat
  BY <1>3, PlaceNumbers, SMTT(40) DEF N!TableOf, Here
<1>5. entry' \in 1 .. Len(archive[member].relas[table].entries) + 1
  BY <1>4
<1>6. Cursor
  BY DEF NormalizerInv
<1>7. Cursor'
  BY <1>1, <1>5, <1>6 DEF Cursor
<1> QED BY <1>2, <1>7

\* An entry that is passed leaves the invariant, whatever becomes of it.
LEMMA EntryPassed ==
  ASSUME NormalizerInv, at = "entry", entry <= Len(N!Rela.entries),
         UNCHANGED <<archive, at, member, table, branchi_sections, output, times>>,
         entry' = entry + 1,
         ~N!RefusedAt(archive, Here),
         FormKept(data, data'),
         N!At(data', Here) = NewEntry(archive, Here),
         \A q \in N!Places(archive) : q # Here => N!At(data', q) = N!At(data, q),
         \A m \in DOMAIN archive :
            archive[m].elf => TextDone(archive, data', Passed \cup {Here}, m),
         counts' = IF CountedAs(archive, Here) \in N!COUNTERS
                     THEN [counts EXCEPT ![CountedAs(archive, Here)] = @ + 1]
                     ELSE counts
  PROVE  NormalizerInv'
<1>1. /\ archive' = archive /\ at' = at /\ member' = member /\ table' = table
      /\ branchi_sections' = branchi_sections /\ output' = output
      /\ times' = times
  OBVIOUS
<1>2. Passed' = Passed \cup {Here}
  BY <1>1, PassedNext
<1>3. Cursor' /\ TablesRead'
  BY CursorNext
<1>4. Here \in N!Places(archive) /\ Here \notin Passed
  BY HereIs
<1>5. FormKept(archive, data')
  BY FormTransitive DEF NormalizerInv
<1>6. EntriesDone(archive, data', Passed \cup {Here})
  <2>1. EntriesDone(archive, data, Passed) /\ Passed \subseteq N!Places(archive)
    BY DEF NormalizerInv, Passed
  <2> QED BY <1>4, <2>1, EntriesStep
<1>7. /\ IsFiniteSet(Passed \cup {Here}) /\ counts' \in [N!COUNTERS -> Nat]
      /\ CountsDone(archive, Passed \cup {Here}, counts')
  <2>1. /\ IsFiniteSet(Passed) /\ counts \in [N!COUNTERS -> Nat]
        /\ CountsDone(archive, Passed, counts)
    BY DEF NormalizerInv
  <2> QED BY <1>4, <2>1, CountsStep
<1> QED BY <1>1, <1>2, <1>3, <1>5, <1>6, <1>7 DEF NormalizerInv

\* An entry that is replaced: the text changes with a branch only.
RightText(words) ==
  IF N!Entry.type # "BRANCHI" THEN words = N!Object.text
  ELSE \E word :
         LET site == N!Site(N!Object, N!Rela, N!Entry)
         IN  /\ word = N!EncodeBranchi(N!WordAt(N!Object, site),
                         N!Displacement(N!Object, N!Entry))
             /\ words = WordPut(N!Object.text, site, word)

\* An entry that is replaced as NewEntry says, and counted as CountedAs says.
LEMMA EntryReplaced ==
  ASSUME NormalizerInv, at = "entry", entry <= Len(N!Rela.entries), times' = times,
         ~N!Refused(N!Object, N!Rela, N!Entry),
         NEW new \in N!Relocations, new = NewEntry(archive, Here),
         NEW counter \in N!COUNTERS, counter = CountedAs(archive, Here),
         NEW words, N!Replace(new, words, counter),
         RightText(words)
  PROVE  NormalizerInv'
<1>1. /\ data' = PutIn(data, member, table, entry, new, words)
      /\ counts' = [counts EXCEPT ![counter] = @ + 1]
      /\ entry' = entry + 1
      /\ UNCHANGED <<archive, at, member, table, branchi_sections, output>>
  BY DEF N!Replace, PutIn
<1>2. /\ Here \in N!Places(archive) /\ Here \notin Passed
      /\ Here \in N!Places(data) /\ N!IsFile(data)
      /\ SameForm(archive[member], N!Object)
      /\ N!Entry = N!At(archive, Here)
      /\ ~N!RefusedAt(archive, Here)
      /\ N!Site(N!Object, N!Rela, N!Entry) = N!SiteAt(archive, Here)
      /\ N!Displacement(N!Object, N!Entry) = N!GoalAt(archive, Here)
      /\ N!SiteAt(archive, Here) \in Int
  BY HereIs
<1>3. N!Object = data[member] /\ Here[1] = member
  BY DEF N!Object, Here
<1>4. /\ N!BranchesApart(archive) /\ FormKept(archive, data)
      /\ Passed \subseteq N!Places(archive)
      /\ EntriesDone(archive, data, Passed)
      /\ \A m \in DOMAIN archive :
           archive[m].elf => TextDone(archive, data, Passed, m)
      /\ member \in DOMAIN archive /\ archive[member].elf
  BY DEF NormalizerInv, Cursor, Passed
<1>5. PICK X, Y : X = data /\ Y = data'
  OBVIOUS
<1>6. /\ words \in [DOMAIN X[member].text -> N!HALFWORDS]
      /\ Y[member].text = words => TextDone(archive, Y, Passed \cup {Here}, member)
  <2>1. CASE N!Entry.type # "BRANCHI"
    <3>0. words = N!Object.text
      BY <2>1 DEF RightText
    <3>1. words \in [DOMAIN X[member].text -> N!HALFWORDS]
      BY <1>2, <1>3, <1>5, <3>0 DEF SameForm, N!IsObject
    <3>2. TextDone(archive, X, Passed, member)
      BY <1>4, <1>5, Zenon
    <3>3. /\ N!At(archive, Here).type # "BRANCHI" /\ words = X[member].text
      BY <1>2, <1>3, <1>5, <2>1, <3>0, Zenon
    <3> QED BY <3>1, <3>2, <3>3, TextStays, Zenon
  <2>2. CASE N!Entry.type = "BRANCHI"
    <3>1. PICK site, word :
            /\ site = N!SiteAt(archive, Here)
            /\ word = N!EncodeBranchi(N!WordAt(X[member], site),
                                      N!GoalAt(archive, Here))
            /\ words = WordPut(X[member].text, site, word)
      BY <1>2, <1>3, <1>5, <2>2 DEF RightText
    <3>2. site \in Int /\ N!At(archive, Here).type = "BRANCHI"
      BY <1>2, <2>2, <3>1, Zenon
    <3>3. TextDone(archive, X, Passed, member) /\ EntriesDone(archive, X, Passed)
      BY <1>4, <1>5, Zenon
    <3>4. SameForm(archive[member], X[member])
      BY <1>2, <1>3, <1>5, Zenon
    <3>5. /\ N!BranchesApart(archive) /\ Passed \subseteq N!Places(archive)
          /\ Here \in N!Places(archive) /\ ~N!RefusedAt(archive, Here)
          /\ member = Here[1]
      BY <1>2, <1>3, <1>4, Zenon
    <3>6. /\ words \in [DOMAIN X[member].text -> N!HALFWORDS]
          /\ \A Z : Z[member].text = words => TextDone(archive, Z, Passed \cup {Here}, member)
      BY <3>1, <3>2, <3>3, <3>4, <3>5, TextEncoded
    <3> QED BY <3>6, Zenon
  <2> QED BY <2>1, <2>2
<1>7. /\ FormKept(X, Y) /\ Y[member].text = words
      /\ \A n \in DOMAIN X : n # member => Y[n] = X[n]
      /\ N!At(Y, Here) = new
      /\ \A p \in N!Places(X) : p # Here => N!At(Y, p) = N!At(X, p)
  <2>1. /\ member \in DOMAIN X /\ X[member].elf
        /\ table \in DOMAIN X[member].relas
        /\ entry \in DOMAIN X[member].relas[table].entries
    BY <1>2, <1>5, PlaceForm DEF Here
  <2>2. Y = PutIn(X, member, table, entry, new, words) /\ N!IsFile(X)
    BY <1>1, <1>2, <1>5, Zenon
  <2>3. /\ FormKept(X, Y) /\ Y[member].text = words
        /\ \A n \in DOMAIN X : n # member => Y[n] = X[n]
        /\ N!At(Y, <<member, table, entry>>) = new
        /\ \A p \in N!Places(X) :
             p # <<member, table, entry>> => N!At(Y, p) = N!At(X, p)
    BY <1>6, <2>1, <2>2, FilePut
  <2> QED BY <2>3, Zenon DEF Here
<1>8. ASSUME NEW m \in DOMAIN archive, archive[m].elf
      PROVE  TextDone(archive, Y, Passed \cup {Here}, m)
  <2>1. CASE m = member
    BY <1>6, <1>7, <2>1, Zenon
  <2>2. CASE m # member
    <3>1. Y[m].text = X[m].text /\ Here[1] # m
      BY <1>3, <1>4, <1>5, <1>7, <1>8, <2>2 DEF FormKept
    <3>2. TextDone(archive, X, Passed, m)
      BY <1>4, <1>5, <1>8, Zenon
    <3> QED BY <3>1, <3>2, TextStays, Zenon
  <2> QED BY <2>1, <2>2
<1>9. N!Places(X) = N!Places(archive)
  BY <1>4, <1>5, FormOfFile DEF NormalizerInv
<1> QED
  <2>1. /\ FormKept(data, data')
        /\ N!At(data', Here) = NewEntry(archive, Here)
        /\ \A q \in N!Places(archive) : q # Here => N!At(data', q) = N!At(data, q)
        /\ \A m \in DOMAIN archive :
              archive[m].elf => TextDone(archive, data', Passed \cup {Here}, m)
    BY <1>5, <1>7, <1>8, <1>9, Zenon
  <2>2. counts' = IF CountedAs(archive, Here) \in N!COUNTERS
                    THEN [counts EXCEPT ![CountedAs(archive, Here)] = @ + 1]
                    ELSE counts
    BY <1>1
  <2> QED BY <1>1, <1>2, <2>1, <2>2, EntryPassed

\* What an entry can become is an entry, of another type.
LEMMA NewIsRelocation ==
  ASSUME NEW e \in N!Relocations
  PROVE  /\ [e EXCEPT !.type = "NONE"] \in N!Relocations
         /\ [e EXCEPT !.type = "NONE"].type = "NONE"
         /\ N!Llui48Entry(e) \in N!Relocations /\ N!Llui48Entry(e).type = "32"
<1>1. PICK a \in N!TYPES, b \in Nat, c \in Nat, d \in Int :
        e = [type |-> a, offset |-> b, symbol |-> c, addend |-> d]
  BY DEF N!Relocations
<1>2. [e EXCEPT !.type = "NONE"]
        = [type |-> "NONE", offset |-> b, symbol |-> c, addend |-> d]
  BY <1>1
<1>3. N!Llui48Entry(e) = [type |-> "32", offset |-> b + 2, symbol |-> c, addend |-> d]
  <2>1. PICK n, w : n = b + 2 /\ w = "32"
    OBVIOUS
  <2>2. PICK f : f = [e EXCEPT !.type = w]
    OBVIOUS
  <2>3. f = [type |-> w, offset |-> b, symbol |-> c, addend |-> d]
    BY <1>1, <2>2
  <2>4. f.offset = b
    BY <2>3
  <2>5. N!Llui48Entry(e) = [f EXCEPT !.offset = n]
    BY <2>1, <2>2, <2>4 DEF N!Llui48Entry
  <2>6. [f EXCEPT !.offset = n]
          = [type |-> w, offset |-> n, symbol |-> c, addend |-> d]
    BY <2>3
  <2> QED BY <2>1, <2>5, <2>6, Zenon
<1>4. "NONE" \in N!TYPES /\ "32" \in N!TYPES
  BY DEF N!TYPES
<1>5. \A t \in N!TYPES, o \in Nat :
        LET r == [type |-> t, offset |-> o, symbol |-> c, addend |-> d]
        IN  r \in N!Relocations /\ r.type = t
  BY DEF N!Relocations
<1>6. b + 2 \in Nat
  OBVIOUS
<1> QED BY <1>2, <1>3, <1>4, <1>5, <1>6

\* The conversions, each of which counts what it converts.
LEMMA ConvertLlui48Kept == NormalizerInv /\ N!ConvertLlui48 => NormalizerInv'
<1> SUFFICES ASSUME NormalizerInv, N!ConvertLlui48
             PROVE  NormalizerInv'
  OBVIOUS
<1>1. /\ at = "entry" /\ entry <= Len(N!Rela.entries) /\ N!Entry.type = "48_LLUI"
      /\ ~N!Refused(N!Object, N!Rela, N!Entry)
      /\ N!Replace(N!Llui48Entry(N!Entry), N!Object.text, "llui48_to_riscv32")
  BY DEF N!ConvertLlui48, N!AtEntry
<1>2. N!Entry = N!At(archive, Here) /\ N!Entry \in N!Relocations
  BY <1>1, HereIs
<1>3. PICK new : new = N!Llui48Entry(N!Entry)
  OBVIOUS
<1>4. new = NewEntry(archive, Here) /\ new \in N!Relocations
  BY <1>1, <1>2, <1>3, NewIsRelocation DEF NewEntry
<1>5. /\ "llui48_to_riscv32" = CountedAs(archive, Here)
      /\ "llui48_to_riscv32" \in N!COUNTERS
  BY <1>1, <1>2 DEF CountedAs, N!COUNTERS
<1>6. RightText(N!Object.text) /\ times' = times
  BY <1>1 DEF RightText, N!Replace
<1>7. N!Replace(new, N!Object.text, "llui48_to_riscv32")
  BY <1>1, <1>3
<1> QED BY <1>1, <1>4, <1>5, <1>6, <1>7, EntryReplaced

\* The four other steps at an entry.
LEMMA EncodeBranchKept == NormalizerInv /\ N!EncodeBranch => NormalizerInv'
<1> SUFFICES ASSUME NormalizerInv, N!EncodeBranch
             PROVE  NormalizerInv'
  OBVIOUS
<1>1. /\ at = "entry" /\ entry <= Len(N!Rela.entries) /\ N!Entry.type = "BRANCHI"
      /\ ~N!Refused(N!Object, N!Rela, N!Entry)
  BY DEF N!EncodeBranch, N!AtEntry
<1>2. N!Entry = N!At(archive, Here) /\ N!Entry \in N!Relocations
  BY <1>1, HereIs
<1>3. PICK new, site, word, words :
        /\ new = [N!Entry EXCEPT !.type = "NONE"]
        /\ site = N!Site(N!Object, N!Rela, N!Entry)
        /\ word = N!EncodeBranchi(N!WordAt(N!Object, site),
                                  N!Displacement(N!Object, N!Entry))
        /\ words = WordPut(N!Object.text, site, word)
        /\ N!Replace(new, words, "branchi_encoded")
  BY DEF N!EncodeBranch, WordPut
<1>4. new = NewEntry(archive, Here) /\ new \in N!Relocations
  BY <1>1, <1>2, <1>3, NewIsRelocation DEF NewEntry
<1>5. /\ "branchi_encoded" = CountedAs(archive, Here)
      /\ "branchi_encoded" \in N!COUNTERS
  BY <1>1, <1>2 DEF CountedAs, N!COUNTERS
<1>6. RightText(words)
  BY <1>1, <1>3 DEF RightText
<1>7. N!Replace(new, words, "branchi_encoded") /\ times' = times
  BY <1>3 DEF N!Replace
<1> QED BY <1>1, <1>4, <1>5, <1>6, <1>7, EntryReplaced

LEMMA RemoveRepKept == NormalizerInv /\ N!RemoveRep => NormalizerInv'
<1> SUFFICES ASSUME NormalizerInv, N!RemoveRep
             PROVE  NormalizerInv'
  OBVIOUS
<1>1. /\ at = "entry" /\ entry <= Len(N!Rela.entries) /\ N!Entry.type = "LLUI_REP"
      /\ ~N!Refused(N!Object, N!Rela, N!Entry)
  BY DEF N!RemoveRep, N!AtEntry
<1>2. N!Entry = N!At(archive, Here) /\ N!Entry \in N!Relocations
  BY <1>1, HereIs
<1>3. PICK new : /\ new = [N!Entry EXCEPT !.type = "NONE"]
                 /\ N!Replace(new, N!Object.text, "llui_rep_removed")
  BY DEF N!RemoveRep
<1>4. new = NewEntry(archive, Here) /\ new \in N!Relocations
  BY <1>1, <1>2, <1>3, NewIsRelocation DEF NewEntry
<1>5. /\ "llui_rep_removed" = CountedAs(archive, Here)
      /\ "llui_rep_removed" \in N!COUNTERS
  BY <1>1, <1>2 DEF CountedAs, N!COUNTERS
<1>6. RightText(N!Object.text) /\ times' = times
  BY <1>1, <1>3 DEF RightText, N!Replace
<1> QED BY <1>1, <1>3, <1>4, <1>5, <1>6, EntryReplaced

\* The first pass found the sections with a fixed branch.
LEMMA FixedHere ==
  ASSUME NormalizerInv, at = "entry", entry <= Len(N!Rela.entries)
  PROVE  Fixed(archive, Here) <=> /\ N!Entry.type = "RELAX"
                                  /\ N!Rela.info \in branchi_sections
<1>1. /\ N!Entry = N!At(archive, Here)
      /\ N!Rela.info = N!TableOf(archive, Here).info
  BY HereIs
<1>2. branchi_sections = N!BranchiSections(archive[Here[1]])
  BY DEF NormalizerInv, Cursor, Here
<1> QED BY <1>1, <1>2, Zenon DEF Fixed

LEMMA RemoveRelaxKept == NormalizerInv /\ N!RemoveRelax => NormalizerInv'
<1> SUFFICES ASSUME NormalizerInv, N!RemoveRelax
             PROVE  NormalizerInv'
  OBVIOUS
<1>1. /\ at = "entry" /\ entry <= Len(N!Rela.entries) /\ N!Entry.type = "RELAX"
      /\ N!Rela.info \in branchi_sections
      /\ ~N!Refused(N!Object, N!Rela, N!Entry)
  BY DEF N!RemoveRelax, N!AtEntry
<1>2. N!Entry = N!At(archive, Here) /\ N!Entry \in N!Relocations
  BY <1>1, HereIs
<1>3. PICK new : /\ new = [N!Entry EXCEPT !.type = "NONE"]
                 /\ N!Replace(new, N!Object.text, "relax_removed")
  BY DEF N!RemoveRelax
<1>4. Fixed(archive, Here)
  BY <1>1, FixedHere
<1>5. new = NewEntry(archive, Here) /\ new \in N!Relocations
  BY <1>1, <1>2, <1>3, <1>4, NewIsRelocation DEF NewEntry
<1>6. /\ "relax_removed" = CountedAs(archive, Here)
      /\ "relax_removed" \in N!COUNTERS
  BY <1>1, <1>2, <1>4 DEF CountedAs, N!COUNTERS
<1>7. RightText(N!Object.text) /\ times' = times
  BY <1>1, <1>3 DEF RightText, N!Replace
<1> QED BY <1>1, <1>3, <1>5, <1>6, <1>7, EntryReplaced

LEMMA KeepEntryKept == NormalizerInv /\ N!KeepEntry => NormalizerInv'
<1> SUFFICES ASSUME NormalizerInv, N!KeepEntry
             PROVE  NormalizerInv'
  OBVIOUS
<1>1. /\ at = "entry" /\ entry <= Len(N!Rela.entries)
      /\ N!Entry.type \in {"STD", "NONE", "32", "RELAX", "TYPE62"}
      /\ ~(N!Entry.type = "RELAX" /\ N!Rela.info \in branchi_sections)
      /\ ~N!Refused(N!Object, N!Rela, N!Entry)
      /\ entry' = entry + 1 /\ data' = data /\ counts' = counts
      /\ UNCHANGED <<archive, at, member, table, branchi_sections, output, times>>
  BY DEF N!KeepEntry, N!AtEntry
<1>2. /\ N!Entry = N!At(archive, Here) /\ N!IsFile(data)
      /\ Here \in N!Places(archive) /\ Here \notin Passed
      /\ ~N!RefusedAt(archive, Here)
  BY <1>1, HereIs
<1>3. ~Fixed(archive, Here)
  BY <1>1, FixedHere
<1>4. /\ NewEntry(archive, Here) = N!At(archive, Here)
      /\ CountedAs(archive, Here) \notin N!COUNTERS
      /\ N!At(archive, Here).type # "BRANCHI"
  BY <1>1, <1>2, <1>3 DEF NewEntry, CountedAs, N!COUNTERS
<1>5. FormKept(data, data')
  BY <1>1, <1>2, FormReflexive
<1>6. N!At(data', Here) = NewEntry(archive, Here)
  BY <1>1, <1>2, <1>4 DEF NormalizerInv, EntriesDone
<1>7. ASSUME NEW m \in DOMAIN archive, archive[m].elf
      PROVE  TextDone(archive, data', Passed \cup {Here}, m)
  <2>1. TextDone(archive, data, Passed, m)
    BY <1>1, <1>7 DEF NormalizerInv
  <2> QED BY <1>1, <1>4, <2>1, TextStays
<1> QED BY <1>1, <1>2, <1>4, <1>5, <1>6, <1>7, EntryPassed

\* A step between entries: the entries that were passed are the same.
LEMMA BetweenEntries ==
  ASSUME NormalizerInv, at # "failed",
         archive' = archive, data' = data, counts' = counts, times' = times,
         Passed' = Passed, Cursor', TablesRead'
  PROVE  NormalizerInv'
BY DEF NormalizerInv

\* What the guards see of an object.
LEMMA CursorFacts ==
  ASSUME NormalizerInv
  PROVE  /\ N!IsFile(archive) /\ Len(archive) \in Nat /\ member \in 1 .. Len(archive) + 1
         /\ Len(data) = Len(archive)
         /\ member <= Len(data) =>
              /\ member \in DOMAIN archive /\ N!Object.elf = archive[member].elf
              /\ archive[member].elf =>
                   /\ SameForm(archive[member], N!Object)
                   /\ N!IsObject(archive[member])
                   /\ Len(N!Object.relas) = Len(archive[member].relas)
                   /\ Len(archive[member].relas) \in Nat
                   /\ DOMAIN archive[member].relas = 1 .. Len(archive[member].relas)
<1>1. /\ N!IsFile(archive) /\ FormKept(archive, data)
      /\ member \in 1 .. Len(archive) + 1
  BY DEF NormalizerInv, Cursor
<1>2. Len(data) = Len(archive) /\ Len(archive) \in Nat
  BY <1>1, FormOfFile DEF N!IsFile
<1>3. ASSUME member <= Len(data)
      PROVE  member \in DOMAIN archive /\ N!Object.elf = archive[member].elf
  BY <1>1, <1>2, <1>3 DEF N!IsFile, FormKept, N!Object
<1>4. ASSUME member <= Len(data), archive[member].elf
      PROVE  /\ SameForm(archive[member], N!Object)
             /\ N!IsObject(archive[member])
             /\ Len(N!Object.relas) = Len(archive[member].relas)
             /\ Len(archive[member].relas) \in Nat
             /\ DOMAIN archive[member].relas = 1 .. Len(archive[member].relas)
  <2>1. SameForm(archive[member], N!Object) /\ N!IsObject(archive[member])
    BY <1>1, <1>3, <1>4 DEF N!IsFile, FormKept, N!Object
  <2>2. DOMAIN N!Object.relas = DOMAIN archive[member].relas
    BY <2>1 DEF SameForm
  <2>3. archive[member].relas \in Seq(N!Tables) /\ N!Object.relas \in Seq(N!Tables)
    BY <2>1, ObjectForm DEF SameForm
  <2> QED BY <2>1, <2>2, <2>3
<1> QED BY <1>1, <1>2, <1>3, <1>4

\* The steps between the entries.
LEMMA SkipMemberKept == NormalizerInv /\ N!SkipMember => NormalizerInv'
<1> SUFFICES ASSUME NormalizerInv, N!SkipMember
             PROVE  NormalizerInv'
  OBVIOUS
<1>1. /\ at = "member" /\ member <= Len(data) /\ ~N!Object.elf
      /\ member' = member + 1
      /\ archive' = archive /\ data' = data /\ at' = at /\ table' = table
      /\ entry' = entry /\ counts' = counts /\ times' = times /\ output' = output
  BY DEF N!SkipMember
<1>2. /\ N!IsFile(archive) /\ Len(archive) \in Nat /\ member \in 1 .. Len(archive)
      /\ member \in DOMAIN archive /\ ~archive[member].elf
  BY <1>1, CursorFacts
<1>3. Passed' = Passed
  <2>1. ASSUME NEW p \in N!Places(archive)
        PROVE  p[1] < member + 1 <=> p[1] < member
    <3>1. p[1] \in Int /\ p[1] # member
      BY <1>2, PlaceForm, PlaceNumbers
    <3> QED BY <1>2, <3>1
  <2> QED BY <1>1, <2>1 DEF Passed
<1>4. Cursor'
  BY <1>1, <1>2 DEF Cursor
<1>5. TablesRead'
  <2>1. ASSUME NEW m \in DOMAIN archive, archive[m].elf
        PROVE  m < member + 1 <=> m < member
    <3>1. m \in Int /\ m # member
      BY <1>2, <2>1 DEF N!IsFile
    <3> QED BY <1>2, <3>1
  <2>2. TablesRead
    BY <1>1 DEF NormalizerInv
  <2> QED BY <1>1, <2>1, <2>2 DEF TablesRead, ObjectBegun, TableBegun
<1> QED BY <1>1, <1>3, <1>4, <1>5, BetweenEntries

LEMMA FirstPassKept == NormalizerInv /\ N!FirstPass => NormalizerInv'
<1> SUFFICES ASSUME NormalizerInv, N!FirstPass
             PROVE  NormalizerInv'
  OBVIOUS
<1>1. /\ at = "member" /\ member <= Len(data) /\ N!Object.elf
      /\ \A t \in DOMAIN N!Object.relas : N!Object.relas[t].valid
      /\ branchi_sections' = N!BranchiSections(N!Object)
      /\ at' = "table" /\ table' = 1
      /\ archive' = archive /\ data' = data /\ member' = member /\ entry' = entry
      /\ counts' = counts /\ times' = times /\ output' = output
  BY DEF N!FirstPass
<1>2. /\ N!IsFile(archive) /\ Len(archive) \in Nat /\ member \in 1 .. Len(archive)
      /\ member \in DOMAIN archive /\ archive[member].elf
      /\ SameForm(archive[member], N!Object)
      /\ Len(archive[member].relas) \in Nat
      /\ DOMAIN archive[member].relas = 1 .. Len(archive[member].relas)
  <2>1. /\ N!IsFile(archive) /\ Len(archive) \in Nat
        /\ member \in DOMAIN archive /\ archive[member].elf
    BY <1>1, CursorFacts
  <2>2. member \in 1 .. Len(archive)
    BY <2>1 DEF N!IsFile
  <2> QED BY <1>1, <2>1, <2>2, CursorFacts
<1>3. Passed' = Passed
  <2>1. ASSUME NEW p \in N!Places(archive)
        PROVE  ~(p[1] = member /\ p[2] < 1)
    <3>1. p[1] = member => p[2] \in 1 .. Len(archive[member].relas)
      BY <1>2, PlaceNumbers
    <3> QED BY <1>2, <3>1
  <2> QED BY <1>1, <2>1 DEF Passed
<1>4. N!BranchiSections(N!Object) = N!BranchiSections(archive[member])
  <2>1. ASSUME NEW t \in DOMAIN archive[member].relas,
               NEW i \in DOMAIN archive[member].relas[t].entries
        PROVE  N!Object.relas[t].entries[i] = archive[member].relas[t].entries[i]
    <3>1. <<member, t, i>> \in N!Places(archive)
      BY <1>2, PlaceForm
    <3>2. <<member, t, i>> \notin Passed
      BY <1>1, <1>2 DEF Passed
    <3>3. EntriesDone(archive, data, Passed)
      BY <1>1 DEF NormalizerInv
    <3> QED BY <3>1, <3>2, <3>3, SMTT(40) DEF EntriesDone, N!At, N!Object
  <2> QED BY <1>2, <2>1, SMTT(40) DEF N!BranchiSections, SameForm
<1>5. Cursor'
  BY <1>1, <1>2, <1>4 DEF Cursor
<1>6. TablesRead'
  <2>1. TablesRead
    BY <1>1 DEF NormalizerInv
  <2>2. \A t \in DOMAIN archive[member].relas : archive[member].relas[t].valid
    BY <1>1, <1>2 DEF SameForm
  <2>3. \A m \in DOMAIN archive : m < member => m # member
    BY <1>2 DEF N!IsFile
  <2>4. \A t \in DOMAIN archive[member].relas : ~(t < 1)
    BY <1>2
  <2> QED BY <1>1, <2>1, <2>2, <2>3, <2>4 DEF TablesRead, ObjectBegun, TableBegun
<1> QED BY <1>1, <1>3, <1>5, <1>6, BetweenEntries

LEMMA BeginTableKept == NormalizerInv /\ N!BeginTable => NormalizerInv'
<1> SUFFICES ASSUME NormalizerInv, N!BeginTable
             PROVE  NormalizerInv'
  OBVIOUS
<1>1. /\ at = "table" /\ table <= Len(N!Object.relas)
      /\ N!Rela.info \in DOMAIN N!Object.sections
      /\ at' = "entry" /\ entry' = 1
      /\ archive' = archive /\ data' = data /\ member' = member /\ table' = table
      /\ branchi_sections' = branchi_sections
      /\ counts' = counts /\ times' = times /\ output' = output
  BY DEF N!BeginTable
<1>2. /\ member \in DOMAIN archive /\ archive[member].elf
      /\ table \in 1 .. Len(archive[member].relas) + 1 /\ N!IsFile(archive)
      /\ branchi_sections = N!BranchiSections(archive[member])
      /\ member \in 1 .. Len(archive) + 1
  BY <1>1 DEF NormalizerInv, Cursor
<1>3. member <= Len(data)
  BY <1>2, CursorFacts DEF N!IsFile
<1>4. /\ SameForm(archive[member], N!Object) /\ N!IsObject(archive[member])
      /\ Len(archive[member].relas) \in Nat
      /\ DOMAIN archive[member].relas = 1 .. Len(archive[member].relas)
      /\ Len(N!Object.relas) = Len(archive[member].relas)
  BY <1>2, <1>3, CursorFacts
<1>5. /\ table \in DOMAIN archive[member].relas
      /\ archive[member].relas[table].info \in DOMAIN archive[member].sections
  BY <1>1, <1>2, <1>4, SMTT(40) DEF SameForm, N!Rela
<1>6. Len(archive[member].relas[table].entries) \in Nat
  <2>1. archive[member].relas[table].entries \in Seq(N!Relocations)
    BY <1>4, <1>5, ObjectForm, Zenon
  <2> QED BY <2>1, SMTT(40)
<1>7. Passed' = Passed
  <2>1. ASSUME NEW p \in N!Places(archive)
        PROVE  ~(p[3] < 1)
    BY <1>2, PlaceNumbers
  <2> QED BY <1>1, <2>1 DEF Passed
<1>8. Cursor'
  BY <1>1, <1>2, <1>5, <1>6 DEF Cursor
<1>9. TablesRead'
  <2>1. TablesRead
    BY <1>1 DEF NormalizerInv
  <2> QED BY <1>1, <1>5, <2>1 DEF TablesRead, ObjectBegun, TableBegun
<1> QED BY <1>1, <1>7, <1>8, <1>9, BetweenEntries

LEMMA EndTableKept == NormalizerInv /\ N!EndTable => NormalizerInv'
<1> SUFFICES ASSUME NormalizerInv, N!EndTable
             PROVE  NormalizerInv'
  OBVIOUS
<1>1. /\ at = "entry" /\ entry > Len(N!Rela.entries)
      /\ at' = "table" /\ table' = table + 1
      /\ archive' = archive /\ data' = data /\ member' = member /\ entry' = entry
      /\ branchi_sections' = branchi_sections
      /\ counts' = counts /\ times' = times /\ output' = output
  BY DEF N!EndTable
<1>2. /\ member \in DOMAIN archive /\ archive[member].elf
      /\ table \in DOMAIN archive[member].relas /\ N!IsFile(archive)
      /\ branchi_sections = N!BranchiSections(archive[member])
      /\ member \in 1 .. Len(archive) + 1
      /\ entry \in 1 .. Len(archive[member].relas[table].entries) + 1
  BY <1>1 DEF NormalizerInv, Cursor
<1>3. member <= Len(data)
  BY <1>2, CursorFacts DEF N!IsFile
<1>4. /\ SameForm(archive[member], N!Object) /\ N!IsObject(archive[member])
      /\ Len(archive[member].relas) \in Nat
      /\ DOMAIN archive[member].relas = 1 .. Len(archive[member].relas)
  BY <1>2, <1>3, CursorFacts
<1>5. /\ Len(archive[member].relas[table].entries) \in Nat
      /\ Len(N!Rela.entries) = Len(archive[member].relas[table].entries)
  <2>1. /\ archive[member].relas[table].entries \in Seq(N!Relocations)
        /\ N!IsObject(N!Object) /\ table \in DOMAIN N!Object.relas
        /\ DOMAIN N!Rela.entries = DOMAIN archive[member].relas[table].entries
    BY <1>2, <1>4, ObjectForm DEF SameForm, N!Rela
  <2>2. N!Rela.entries \in Seq(N!Relocations)
    BY <2>1, ObjectForm DEF N!Rela
  <2>3. ASSUME NEW S, NEW s \in Seq(S), NEW u \in Seq(S), DOMAIN u = DOMAIN s
        PROVE  Len(s) \in Nat /\ Len(u) = Len(s)
    BY <2>3
  <2> QED BY <2>1, <2>2, <2>3, Zenon
<1>6. Passed' = Passed
  <2>1. ASSUME NEW p \in N!Places(archive)
        PROVE  /\ p[1] = member /\ p[2] = table => p[3] < entry
               /\ p[2] < table + 1 <=> p[2] < table \/ p[2] = table
    <3>1. p[1] = member /\ p[2] = table
            => p[3] \in 1 .. Len(archive[member].relas[table].entries)
      BY <1>2, PlaceNumbers, SMTT(40) DEF N!TableOf
    <3>2. p[2] \in Int /\ table \in Int
      BY <1>2, <1>4, PlaceNumbers
    <3> QED BY <1>1, <1>2, <1>5, <3>1, <3>2, SMTT(40)
  <2> QED BY <1>1, <2>1 DEF Passed
<1>7. Cursor'
  BY <1>1, <1>2, <1>4 DEF Cursor
<1>8. TablesRead'
  <2>1. TablesRead
    BY <1>1 DEF NormalizerInv
  <2>2. \A t \in DOMAIN archive[member].relas :
          t < table + 1 <=> t < table \/ t = table
    BY <1>2, <1>4
  <2> QED BY <1>1, <2>1, <2>2 DEF TablesRead, ObjectBegun, TableBegun
<1> QED BY <1>1, <1>6, <1>7, <1>8, BetweenEntries

LEMMA EndMemberKept == NormalizerInv /\ N!EndMember => NormalizerInv'
<1> SUFFICES ASSUME NormalizerInv, N!EndMember
             PROVE  NormalizerInv'
  OBVIOUS
<1>1. /\ at = "table" /\ table > Len(N!Object.relas)
      /\ at' = "member" /\ member' = member + 1
      /\ archive' = archive /\ data' = data /\ table' = table /\ entry' = entry
      /\ counts' = counts /\ times' = times /\ output' = output
  BY DEF N!EndMember
<1>2. /\ member \in DOMAIN archive /\ archive[member].elf /\ N!IsFile(archive)
      /\ table \in 1 .. Len(archive[member].relas) + 1
      /\ member \in 1 .. Len(archive) + 1
  BY <1>1 DEF NormalizerInv, Cursor
<1>3. member <= Len(data) /\ Len(archive) \in Nat /\ member \in 1 .. Len(archive)
  BY <1>2, CursorFacts DEF N!IsFile
<1>4. /\ Len(archive[member].relas) \in Nat
      /\ DOMAIN archive[member].relas = 1 .. Len(archive[member].relas)
      /\ Len(N!Object.relas) = Len(archive[member].relas)
  BY <1>2, <1>3, CursorFacts
<1>5. Passed' = Passed
  <2>1. ASSUME NEW p \in N!Places(archive)
        PROVE  /\ p[1] = member => p[2] < table
               /\ p[1] < member + 1 <=> p[1] < member \/ p[1] = member
    <3>1. p[1] = member => p[2] \in 1 .. Len(archive[member].relas)
      BY <1>2, PlaceNumbers
    <3>2. p[1] \in Int /\ member \in Int
      BY <1>2, PlaceNumbers
    <3> QED BY <1>1, <1>2, <1>4, <3>1, <3>2, SMTT(40)
  <2> QED BY <1>1, <2>1 DEF Passed
<1>6. Cursor'
  BY <1>1, <1>3 DEF Cursor
<1>7. TablesRead'
  <2>1. TablesRead
    BY <1>1 DEF NormalizerInv
  <2>2. \A t \in DOMAIN archive[member].relas : t < table
    BY <1>1, <1>2, <1>4
  <2>3. \A m \in DOMAIN archive : m < member + 1 <=> m < member \/ m = member
    BY <1>2 DEF N!IsFile
  <2> QED BY <1>1, <2>1, <2>2, <2>3 DEF TablesRead, ObjectBegun, TableBegun
<1> QED BY <1>1, <1>5, <1>6, <1>7, BetweenEntries

\* A refusal ends the run, whatever was converted.
LEMMA FailKept == NormalizerInv /\ N!Fail => NormalizerInv'
<1> SUFFICES ASSUME NormalizerInv, N!Fail
             PROVE  NormalizerInv'
  OBVIOUS
<1>1. /\ at' = "failed"
      /\ archive' = archive /\ data' = data /\ member' = member /\ table' = table
      /\ entry' = entry /\ counts' = counts /\ times' = times /\ output' = output
      /\ branchi_sections' = branchi_sections
  BY DEF N!Fail
<1>2. Cursor'
  BY <1>1 DEF NormalizerInv, Cursor
<1> QED BY <1>1, <1>2 DEF NormalizerInv

\* When everything was passed, the output is the data.
LEMMA WriteKept == NormalizerInv /\ N!Write => NormalizerInv'
<1> SUFFICES ASSUME NormalizerInv, N!Write
             PROVE  NormalizerInv'
  OBVIOUS
<1>1. /\ at = "member" /\ member > Len(data) /\ at' = "written" /\ output' = data
      /\ archive' = archive /\ data' = data /\ member' = member /\ table' = table
      /\ entry' = entry /\ counts' = counts /\ times' = times
      /\ branchi_sections' = branchi_sections
  BY DEF N!Write
<1>2. Passed' = Passed
  BY <1>1 DEF Passed
<1>3. member = Len(archive) + 1 /\ member \in 1 .. Len(archive) + 1
  BY <1>1, CursorFacts
<1>4. Cursor'
  BY <1>1, <1>3 DEF Cursor
<1>5. TablesRead'
  <2>1. TablesRead
    BY <1>1 DEF NormalizerInv
  <2> QED BY <1>1, <2>1 DEF TablesRead, ObjectBegun, TableBegun
<1> QED BY <1>1, <1>2, <1>4, <1>5, BetweenEntries

\* A file that was opened and not read yet.
Opened ==
  /\ at = "member" /\ member = 1 /\ data = archive /\ counts = N!NoCounts
  /\ N!IsFile(archive) /\ N!BranchesApart(archive)
  /\ times \in 1 .. MaxRounds /\ (times > 1 => Finished(archive))

\* Nothing was passed yet, so nothing is owed.
LEMMA OpenedFile == Opened => NormalizerInv
<1> SUFFICES ASSUME Opened
             PROVE  NormalizerInv
  OBVIOUS
<1>1. N!IsFile(archive) /\ at = "member" /\ member = 1 /\ data = archive
  BY DEF Opened
<1>2. Passed = {}
  <2>1. ASSUME NEW p \in N!Places(archive)
        PROVE  ~(p[1] < 1)
    BY <1>1, PlaceNumbers
  <2> QED BY <1>1, <2>1 DEF Passed
<1>3. Cursor
  BY <1>1 DEF Cursor, N!IsFile
<1>4. TablesRead
  BY <1>1 DEF TablesRead, ObjectBegun, TableBegun, N!IsFile
<1>5. FormKept(archive, data)
  BY <1>1, FormReflexive
<1>6. EntriesDone(archive, data, {})
  BY <1>1 DEF EntriesDone
<1>7. \A m \in DOMAIN archive : TextDone(archive, data, {}, m)
  BY <1>1 DEF TextDone, BranchesOf
<1>8. IsFiniteSet({}) /\ Cardinality({}) = 0
  BY FS_EmptySet
<1>9. CountsDone(archive, {}, counts)
  <2>1. ASSUME NEW k \in N!COUNTERS
        PROVE  counts[k] = Cardinality({p \in {} : CountedAs(archive, p) = k})
    <3>1. {p \in {} : CountedAs(archive, p) = k} = {}
      OBVIOUS
    <3>2. counts[k] = 0
      BY DEF Opened, N!NoCounts
    <3> QED BY <1>8, <3>1, <3>2
  <2> QED BY <2>1 DEF CountsDone
<1>10. counts \in [N!COUNTERS -> Nat]
  BY DEF Opened, N!NoCounts
<1> QED BY <1>2, <1>3, <1>4, <1>5, <1>6, <1>7, <1>8, <1>9, <1>10
        DEF Opened, NormalizerInv

\* The first run, of a file of the archives.
LEMMA NormalizerBegins == N!Init => NormalizerInv
<1>1. N!Init => Opened
  BY NormalizerAssumption DEF N!Init, Opened
<1> QED BY <1>1, OpenedFile

\* What holds of a file that was written.
LEMMA WrittenFile ==
  ASSUME NormalizerInv, at = "written"
  PROVE  /\ output = data /\ Passed = N!Places(archive)
         /\ N!IsFile(archive) /\ N!IsFile(data) /\ FormKept(archive, data)
         /\ N!Places(data) = N!Places(archive)
         /\ IsFiniteSet(N!Places(archive))
         /\ EntriesDone(archive, data, N!Places(archive))
         /\ CountsDone(archive, N!Places(archive), counts)
<1>1. /\ output = data /\ member = Len(archive) + 1
      /\ N!IsFile(archive) /\ FormKept(archive, data)
  BY DEF NormalizerInv, Cursor
<1>2. Passed = N!Places(archive)
  <2>1. ASSUME NEW p \in N!Places(archive)
        PROVE  p[1] < Len(archive) + 1
    BY <1>1, PlaceNumbers
  <2> QED BY <1>1, <2>1 DEF Passed
<1>3. N!IsFile(data) /\ N!Places(data) = N!Places(archive)
  BY <1>1, FormOfFile
<1> QED BY <1>1, <1>2, <1>3 DEF NormalizerInv

\* Of the vendor's types only those that are passed over are left.
LEMMA WrittenTypes ==
  ASSUME NormalizerInv, at = "written"
  PROVE  /\ Finished(data)
         /\ \A p \in N!Places(archive) :
              N!At(data, p).type = "TYPE62" <=> N!At(archive, p).type = "TYPE62"
<1>1. ASSUME NEW p \in N!Places(archive)
      PROVE  /\ N!At(data, p).type \in {"STD", "NONE", "32", "RELAX", "TYPE62"}
             /\ N!At(data, p).type = "TYPE62" <=> N!At(archive, p).type = "TYPE62"
  <2>1. /\ ~N!RefusedAt(archive, p) /\ N!At(data, p) = NewEntry(archive, p)
        /\ N!At(archive, p) \in N!Relocations
    BY WrittenFile, PlaceNumbers DEF EntriesDone
  <2>2. PICK e : e = N!At(archive, p)
    OBVIOUS
  <2>3. /\ e \in N!Relocations
        /\ e.type \in N!VENDOR \cup {"STD", "NONE", "32", "RELAX"}
    BY <2>1, <2>2 DEF N!Relocations, N!TYPES
  <2>4. e.type # "TYPE60"
    BY <2>1, <2>2 DEF N!RefusedAt, N!Refused
  <2>5. /\ [e EXCEPT !.type = "NONE"].type = "NONE"
        /\ N!Llui48Entry(e).type = "32"
    BY <2>3, NewIsRelocation
  <2>6. CASE e.type = "48_LLUI"
    BY <2>1, <2>2, <2>5, <2>6 DEF NewEntry
  <2>7. CASE e.type # "48_LLUI"
    <3>1. CASE e.type \in {"BRANCHI", "LLUI_REP"} \/ Fixed(archive, p)
      BY <2>1, <2>2, <2>5, <2>7, <3>1 DEF NewEntry, Fixed
    <3>2. CASE ~(e.type \in {"BRANCHI", "LLUI_REP"} \/ Fixed(archive, p))
      BY <2>1, <2>2, <2>3, <2>4, <2>7, <3>2 DEF NewEntry, N!VENDOR
    <3> QED BY <3>1, <3>2
  <2> QED BY <2>6, <2>7
<1> QED BY <1>1, WrittenFile DEF Finished

\* A second run, of the output: no branch is in it, so none can overlap.
LEMMA AgainKept == NormalizerInv /\ N!Again => NormalizerInv'
<1> SUFFICES ASSUME NormalizerInv, N!Again
             PROVE  NormalizerInv'
  OBVIOUS
<1>1. /\ at = "written" /\ times < MaxRounds /\ at' = "member" /\ member' = 1
      /\ archive' = data /\ data' = data /\ counts' = N!NoCounts
      /\ times' = times + 1
  <2>1. output = data
    BY WrittenFile DEF N!Again
  <2> QED BY <2>1 DEF N!Again
<1>2. N!IsFile(data) /\ Finished(data)
  BY <1>1, WrittenFile, WrittenTypes
<1>3. N!BranchesApart(data)
  <2>1. N!OfType(data, "BRANCHI") = {}
    BY <1>2 DEF Finished, N!OfType
  <2> QED BY <2>1 DEF N!BranchesApart, N!BranchesWithGoal
<1>4. times \in 1 .. MaxRounds /\ MaxRounds \in Nat
  BY NormalizerAssumption DEF NormalizerInv
<1>5. times' \in 1 .. MaxRounds
  BY <1>1, <1>4
<1>6. Opened'
  BY <1>1, <1>2, <1>3, <1>5 DEF Opened
<1> QED BY <1>6, OpenedFile, PTL

\* A step that changes none of its variables keeps the invariant.
LEMMA NormalizerStays ==
  ASSUME NormalizerInv, UNCHANGED <<archive, data, at, member, table, entry,
                                    branchi_sections, counts, output, times>>
  PROVE  NormalizerInv'
<1>1. Passed' = Passed
  BY DEF Passed
<1>2. Cursor'
  BY DEF NormalizerInv, Cursor
<1>3. at # "failed" => TablesRead'
  BY DEF NormalizerInv, TablesRead, ObjectBegun, TableBegun
<1> QED BY <1>1, <1>2, <1>3 DEF NormalizerInv

\* No command breaks the invariant.
LEMMA NormalizerKept ==
  ASSUME command = "normalize-archive" => NormalizerInv,
         [CommandNext]_<<command, vars, pool>>
  PROVE  (command = "normalize-archive" => NormalizerInv)'
<1>1. SUFFICES ASSUME command' = "normalize-archive" PROVE NormalizerInv'
  OBVIOUS
<1>2. CASE UNCHANGED <<command, vars, pool>>
  <2>1. NormalizerInv
    BY <1>1, <1>2
  <2>2. UNCHANGED <<archive, data, at, member, table, entry,
                    branchi_sections, counts, output, times>>
    BY <1>2 DEF pool, normalizer
  <2> QED BY <2>1, <2>2, NormalizerStays
<1>3. CASE CommandNext
  <2>1. command = "normalize-archive" /\ N!Next
    BY <1>1, <1>3 DEF CommandNext
  <2>2. NormalizerInv
    BY <2>1
  <2>3. CASE N!Done
    <3>1. UNCHANGED <<archive, data, at, member, table, entry,
                      branchi_sections, counts, output, times>>
      BY <2>3 DEF N!Done, N!vars
    <3> QED BY <2>2, <3>1, NormalizerStays
  <2> QED BY <2>1, <2>2, <2>3, SkipMemberKept, FirstPassKept, BeginTableKept,
             EndTableKept, EndMemberKept, ConvertLlui48Kept, EncodeBranchKept,
             RemoveRepKept, RemoveRelaxKept, KeepEntryKept, FailKept, WriteKept,
             AgainKept DEF N!Next
<1> QED BY <1>2, <1>3

\* So it holds while normalize-archive runs.
LEMMA NormalizerInvariance ==
  CommandSpec => [](command = "normalize-archive" => NormalizerInv)
<1>1. CommandInit => (command = "normalize-archive" => NormalizerInv)
  BY NormalizerBegins DEF CommandInit
<1> QED BY <1>1, NormalizerKept, PTL DEF CommandSpec

\* What was written is what the entries say, for every run of the command and
\* every number of rounds (normalize.rs:447-614).
THEOREM SameCodeHolds == CommandSpec => []SameCode
<1>1. ASSUME NormalizerInv
      PROVE  N!SameCode
  <2>1. N!TypeOK
    <3>1. /\ N!IsFile(archive) /\ FormKept(archive, data)
          /\ at \in {"member", "table", "entry", "written", "failed"}
          /\ times \in 1 .. MaxRounds /\ counts \in [N!COUNTERS -> Nat]
      BY <1>1 DEF NormalizerInv, Cursor
    <3>2. N!IsFile(data) /\ N!Places(data) = N!Places(archive)
      BY <3>1, FormOfFile
    <3>3. ASSUME NEW m \in DOMAIN data, data[m].elf, NEW h \in DOMAIN data[m].text
          PROVE  data[m].text[h] \in N!HALFWORDS
      <4>1. N!IsObject(data[m])
        BY <3>2, <3>3 DEF N!IsFile
      <4>2. data[m].text \in [DOMAIN data[m].text -> N!HALFWORDS]
        BY <4>1, ObjectForm
      <4> QED BY <3>3, <4>2, Zenon
    <3> QED BY <3>1, <3>2, <3>3 DEF N!TypeOK, FormKept
  <2>2. ASSUME at = "written"
        PROVE  \A m \in DOMAIN archive : archive[m].elf =>
                 TextDone(archive, output, N!Places(archive), m)
    <3>1. output = data /\ Passed = N!Places(archive)
      BY <1>1, <2>2, WrittenFile
    <3> QED BY <1>1, <2>2, <3>1 DEF NormalizerInv
  <2>3. ASSUME at = "written", NEW p \in N!OfType(archive, "BRANCHI")
        PROVE  BranchDone(archive, output, p)
    <3>1. /\ p \in N!Places(archive) /\ N!At(archive, p).type = "BRANCHI"
          /\ p[1] \in DOMAIN archive /\ archive[p[1]].elf
      BY <2>3, PlaceForm DEF N!OfType
    <3>2. TextDone(archive, output, N!Places(archive), p[1])
      BY <2>2, <2>3, <3>1
    <3> QED BY <3>1, <3>2 DEF TextDone, BranchesOf
  <2>4. N!BranchesReachTarget
    BY <2>3 DEF N!BranchesReachTarget, N!Written, BranchDone, N!SiteAt, N!GoalAt
  <2>5. N!TextPreserved
    <3>1. ASSUME at = "written", NEW m \in DOMAIN archive, archive[m].elf
          PROVE  LET sites == {N!SiteAt(archive, p) :
                                 p \in {q \in N!OfType(archive, "BRANCHI") : q[1] = m}}
                 IN  /\ \A h \in DOMAIN archive[m].text :
                          (\A s \in sites : h \notin {s \div 2, s \div 2 + 1})
                            => output[m].text[h] = archive[m].text[h]
                     /\ \A s \in sites : N!OtherBits(N!WordAt(output[m], s))
                                           = N!OtherBits(N!WordAt(archive[m], s))
      <4>1. TextDone(archive, output, N!Places(archive), m)
        BY <2>2, <3>1
      <4>2. BranchesOf(archive, N!Places(archive), m)
              = {q \in N!OfType(archive, "BRANCHI") : q[1] = m}
        BY SMTT(40) DEF BranchesOf, N!OfType
      <4> QED BY <4>1, <4>2 DEF TextDone, BranchDone, N!HalvesAt
    <3> QED BY <3>1 DEF N!TextPreserved, N!Written, N!SiteAt
  <2>6. N!ImmediatesRelocated
    <3>1. ASSUME at = "written", NEW p \in N!OfType(archive, "48_LLUI")
          PROVE  /\ N!At(output, p) = N!Llui48Entry(N!At(archive, p))
                 /\ N!At(output, p).offset + 4
                      <= archive[p[1]].sections[N!TableOf(archive, p).info].size
      <4>1. p \in N!Places(archive) /\ N!At(archive, p).type = "48_LLUI"
        BY DEF N!OfType
      <4>2. /\ output = data /\ ~N!RefusedAt(archive, p)
            /\ N!At(data, p) = NewEntry(archive, p)
            /\ N!At(archive, p) \in N!Relocations
        BY <1>1, <3>1, <4>1, WrittenFile, PlaceNumbers DEF EntriesDone
      <4>3. N!At(output, p) = N!Llui48Entry(N!At(archive, p))
        BY <4>1, <4>2 DEF NewEntry
      <4>4. N!Llui48Fits(archive[p[1]], N!TableOf(archive, p), N!At(archive, p))
        BY <4>1, <4>2 DEF N!RefusedAt, N!Refused
      <4>5. PICK e : e = N!At(archive, p)
        OBVIOUS
      <4>6. e \in N!Relocations /\ N!Llui48Entry(e).offset = e.offset + 2
            /\ e.offset \in Nat
        BY <4>2, <4>5 DEF N!Llui48Entry, N!Relocations
      <4>7. e.offset + 6 <= archive[p[1]].sections[N!TableOf(archive, p).info].size
        BY <4>4, <4>5 DEF N!Llui48Fits
      <4>8. archive[p[1]].sections[N!TableOf(archive, p).info].size \in Int
        <5>1. N!IsFile(archive)
          BY <1>1 DEF NormalizerInv
        <5>2. /\ p[1] \in DOMAIN archive /\ archive[p[1]].elf
              /\ p[2] \in DOMAIN archive[p[1]].relas
          BY <4>1, PlaceForm
        <5>3. N!TableOf(archive, p).info \in DOMAIN archive[p[1]].sections
          <6>1. TablesRead /\ member = Len(archive) + 1
            BY <1>1, <3>1 DEF NormalizerInv, Cursor
          <6>2. p[1] < member
            BY <4>1, <5>1, <6>1, PlaceNumbers
          <6> QED BY <5>2, <6>1, <6>2 DEF TablesRead, TableBegun, N!TableOf
        <5>4. archive[p[1]].sections
                \in Seq([name : STRING, offset : Nat, size : Nat])
          BY <5>1, <5>2, ObjectForm DEF N!IsFile
        <5> DEFINE known == [name : STRING, offset : Nat, size : Nat]
        <5>5. archive[p[1]].sections \in Seq(known)
          BY <5>4
        <5>6. \A s \in known : s.size \in Int
          OBVIOUS
        <5> HIDE DEF known
        <5>7. archive[p[1]].sections[N!TableOf(archive, p).info] \in known
          BY <5>3, <5>5
        <5> QED BY <5>6, <5>7
      <4> QED BY <4>3, <4>5, <4>6, <4>7, <4>8
    <3> QED BY <3>1 DEF N!ImmediatesRelocated, N!Written, N!Llui48Entry
  <2>7. N!NoRelaxOverFixedBranch
    <3>1. ASSUME at = "written", NEW p \in N!OfType(output, "RELAX"),
                 NEW q \in N!OfType(archive, "BRANCHI"), q[1] = p[1],
                 N!TableOf(archive, q).info = N!TableOf(output, p).info
          PROVE  FALSE
      <4>1. /\ output = data /\ p \in N!Places(archive)
            /\ N!At(data, p).type = "RELAX" /\ N!At(data, p) = NewEntry(archive, p)
            /\ N!At(archive, p) \in N!Relocations
            /\ N!TableOf(data, p).info = N!TableOf(archive, p).info
        BY <1>1, <3>1, WrittenFile, PlaceNumbers, FormOfFile
           DEF EntriesDone, N!OfType
      <4>2. N!At(archive, p).type = "RELAX" /\ ~Fixed(archive, p)
        BY <4>1, NewIsRelocation DEF NewEntry
      <4>3. /\ q \in N!Places(archive) /\ N!At(archive, q).type = "BRANCHI"
            /\ q[2] \in DOMAIN archive[q[1]].relas
            /\ q[3] \in DOMAIN archive[q[1]].relas[q[2]].entries
        BY PlaceForm DEF N!OfType
      <4>4. N!TableOf(archive, q).info \in N!BranchiSections(archive[q[1]])
        BY <4>3 DEF N!BranchiSections, N!TableOf, N!At
      <4> QED BY <3>1, <4>1, <4>2, <4>4 DEF Fixed
    <3> QED BY <3>1 DEF N!NoRelaxOverFixedBranch, N!Written
  <2> QED BY <2>1, <2>4, <2>5, <2>6, <2>7 DEF N!SameCode
<1>2. (command = "normalize-archive" => NormalizerInv) => SameCode
  BY <1>1 DEF SameCode
<1> QED BY <1>2, NormalizerInvariance, PTL

\* The cardinality that the modules of the instance take is the same.
LEMMA SameCardinality ==
  ASSUME NEW S
  PROVE  N!Cardinality(S) = Cardinality(S)
BY Zenon DEF N!Cardinality, Cardinality

\* The counts of the manifest are those of an inspection before and after, no
\* branch of the input was cross-section, and the verifier accepts the output
\* exactly if nothing of the vendor was passed over (normalize.rs:168-200,
\* 554-567, 813-879).
THEOREM ManifestAgreesHolds == CommandSpec => []ManifestAgrees
<1>1. ASSUME NormalizerInv, at = "written"
      PROVE  N!ManifestAgrees
  <2>1. /\ output = data /\ N!IsFile(archive) /\ FormKept(archive, data)
        /\ N!Places(data) = N!Places(archive) /\ IsFiniteSet(N!Places(archive))
        /\ EntriesDone(archive, data, N!Places(archive))
        /\ CountsDone(archive, N!Places(archive), counts)
    BY <1>1, WrittenFile
  <2>2. N!VerifyAccepts(output, data) <=> N!OfType(archive, "TYPE62") = {}
    <3>1. N!VendorRecords(data) = N!OfType(archive, "TYPE62")
      BY <1>1, <2>1, WrittenTypes
         DEF Finished, N!VendorRecords, N!OfType, N!VENDOR
    <3>2. ASSUME NEW m \in DOMAIN data, data[m].elf, NEW t \in DOMAIN data[m].relas
          PROVE  /\ data[m].relas[t].valid
                 /\ data[m].relas[t].info \in DOMAIN data[m].sections
      <4>1. /\ m \in DOMAIN archive /\ archive[m].elf
            /\ SameForm(archive[m], data[m]) /\ t \in DOMAIN archive[m].relas
        BY <2>1, <3>2 DEF FormKept, SameForm
      <4>2. TablesRead /\ member = Len(archive) + 1
        BY <1>1 DEF NormalizerInv, Cursor
      <4>3. m < member
        BY <2>1, <4>1, <4>2 DEF N!IsFile
      <4>4. /\ archive[m].relas[t].valid
            /\ archive[m].relas[t].info \in DOMAIN archive[m].sections
        BY <4>1, <4>2, <4>3 DEF TablesRead, ObjectBegun, TableBegun
      <4> QED BY <4>1, <4>4 DEF SameForm
    <3> QED BY <2>1, <3>1, <3>2 DEF N!VerifyAccepts, N!Inspectable
  <2>3. N!CrossBranches(archive) = {}
    <3>1. ASSUME NEW p \in N!OfType(archive, "BRANCHI")
          PROVE  N!SameSection(archive, p)
      <4>1. ~N!RefusedAt(archive, p) /\ N!At(archive, p).type = "BRANCHI"
        BY <2>1, <3>1 DEF EntriesDone, N!OfType
      <4>2. N!BranchiConvertible(archive[p[1]], N!TableOf(archive, p),
                                 N!At(archive, p))
        BY <4>1 DEF N!RefusedAt, N!Refused
      <4> QED BY <4>2 DEF N!BranchiConvertible, N!SameSection
    <3> QED BY <3>1 DEF N!CrossBranches
  <2>4. /\ counts["llui48_to_riscv32"] = Cardinality(N!OfType(archive, "48_LLUI"))
        /\ counts["branchi_encoded"] = Cardinality(N!OfType(archive, "BRANCHI"))
        /\ counts["llui_rep_removed"] = Cardinality(N!OfType(archive, "LLUI_REP"))
    <3> DEFINE of(k) == {p \in N!Places(archive) : CountedAs(archive, p) = k}
    <3>1. /\ of("llui48_to_riscv32") = N!OfType(archive, "48_LLUI")
          /\ of("branchi_encoded") = N!OfType(archive, "BRANCHI")
          /\ of("llui_rep_removed") = N!OfType(archive, "LLUI_REP")
      BY DEF CountedAs, N!OfType
    <3>2. \A k \in N!COUNTERS : counts[k] = Cardinality(of(k))
      BY <2>1 DEF CountsDone
    <3> HIDE DEF of
    <3> QED BY <3>1, <3>2 DEF N!COUNTERS
  <2>5. counts["relax_removed"] = Cardinality(N!OfType(archive, "RELAX"))
                                    - Cardinality(N!OfType(output, "RELAX"))
    <3> DEFINE before == N!OfType(archive, "RELAX")
               after == N!OfType(output, "RELAX")
               fixed == {p \in N!Places(archive) :
                           CountedAs(archive, p) = "relax_removed"}
    <3>1. ASSUME NEW p \in N!Places(archive)
          PROVE  /\ p \in fixed <=> p \in before /\ Fixed(archive, p)
                 /\ p \in after <=> p \in before /\ ~Fixed(archive, p)
      <4>1. /\ N!At(data, p) = NewEntry(archive, p)
            /\ N!At(archive, p) \in N!Relocations
        BY <2>1, PlaceNumbers DEF EntriesDone
      <4>2. N!At(data, p).type = "RELAX"
              <=> N!At(archive, p).type = "RELAX" /\ ~Fixed(archive, p)
        BY <4>1, NewIsRelocation DEF NewEntry
      <4>3. CountedAs(archive, p) = "relax_removed" <=> Fixed(archive, p)
        BY DEF CountedAs, Fixed
      <4> QED BY <2>1, <4>2, <4>3 DEF N!OfType, Fixed
    <3>2. /\ before \subseteq N!Places(archive) /\ after \subseteq N!Places(archive)
          /\ fixed \subseteq N!Places(archive)
      BY <2>1 DEF N!OfType
    <3>3. counts["relax_removed"] = Cardinality(fixed)
      BY <2>1 DEF CountsDone, N!COUNTERS
    <3> HIDE DEF before, after, fixed
    <3>4. fixed = before \ after /\ before \cap after = after
      BY <3>1, <3>2
    <3>5. IsFiniteSet(before)
      BY <2>1, <3>2, FS_Subset
    <3>6. Cardinality(before \ after)
            = Cardinality(before) - Cardinality(before \cap after)
      BY <3>5, FS_Difference
    <3> QED BY <3>3, <3>4, <3>6 DEF before, after
  <2> QED BY <2>2, <2>3, <2>4, <2>5, SameCardinality DEF N!ManifestAgrees
<1>2. ASSUME NormalizerInv
      PROVE  N!ManifestAgrees
  BY <1>1, <1>2 DEF N!ManifestAgrees, N!Written
<1>3. (command = "normalize-archive" => NormalizerInv) => ManifestAgrees
  BY <1>2 DEF ManifestAgrees
<1> QED BY <1>3, NormalizerInvariance, PTL

\* What is left: FailsClosed, the promise of crates/hisi-rf-link/README.md:21-22,
\* fails for exactly the archives with a vendor number that normalize passes over,
\* and the records left are those of the archive (normalize.rs:405-411, 603-609).
OnlyUndeclaredLeft ==
  command = "normalize-archive" /\ N!Written =>
    /\ N!VendorRecords(output) = N!OfType(archive, "TYPE62")
    /\ N!FailsClosed <=> N!OfType(archive, "TYPE62") = {}

\* So it is for every archive and every number of runs over it: nothing but the
\* undeclared numbers makes the tool leave a vendor record (normalize.rs:464-614).
THEOREM OnlyUndeclaredLeftHolds == CommandSpec => []OnlyUndeclaredLeft
<1>1. ASSUME NormalizerInv, at = "written"
      PROVE  N!VendorRecords(output) = N!OfType(archive, "TYPE62")
  BY <1>1, WrittenFile, WrittenTypes
     DEF Finished, N!VendorRecords, N!OfType, N!VENDOR
<1>2. ASSUME NormalizerInv, N!Written
      PROVE  /\ N!VendorRecords(output) = N!OfType(archive, "TYPE62")
             /\ N!FailsClosed <=> N!OfType(archive, "TYPE62") = {}
  <2>1. N!VendorRecords(output) = N!OfType(archive, "TYPE62")
    BY <1>1, <1>2, Zenon DEF N!Written
  <2> QED BY <1>2, <2>1, Zenon DEF N!FailsClosed
<1>3. (command = "normalize-archive" => NormalizerInv) => OnlyUndeclaredLeft
  BY <1>2, Zenon DEF OnlyUndeclaredLeft
<1> QED BY <1>3, NormalizerInvariance, PTL

\* No step of a second run rewrites an entry, for an archive of any size
\* (normalize.rs:464-614).
THEOREM SecondRunHolds == CommandSpec => SecondRunChangesNothing
<1>1. ASSUME NormalizerInv, times > 1, at = "entry", entry <= Len(N!Rela.entries)
      PROVE  /\ N!Entry.type \in {"STD", "NONE", "32", "RELAX", "TYPE62"}
             /\ branchi_sections = {}
  <2>1. Finished(archive)
    BY <1>1 DEF NormalizerInv
  <2>2. /\ member \in DOMAIN archive /\ archive[member].elf
        /\ branchi_sections = N!BranchiSections(archive[member])
    BY <1>1, SMTT(40) DEF NormalizerInv, Cursor
  <2>3. ASSUME NEW t \in DOMAIN archive[member].relas,
               NEW i \in DOMAIN archive[member].relas[t].entries
        PROVE  archive[member].relas[t].entries[i].type # "BRANCHI"
    <3>1. <<member, t, i>> \in N!Places(archive)
      BY <2>2, PlaceForm
    <3> QED BY <2>1, <3>1 DEF Finished, N!At
  <2>4. branchi_sections = {}
    BY <2>2, <2>3 DEF N!BranchiSections
  <2> QED BY <1>1, <2>1, <2>4, HereIs DEF Finished
<1>2. ASSUME command = "normalize-archive" => NormalizerInv,
             [CommandNext]_<<command, vars, pool>>,
             command = "normalize-archive", times > 1
      PROVE  data' = data
  <2>1. CASE UNCHANGED <<command, vars, pool>>
    BY <2>1 DEF pool
  <2>2. CASE CommandNext
    <3>1. N!Next /\ NormalizerInv
      BY <1>2, <2>2 DEF CommandNext
    <3>2. CASE N!ConvertLlui48 \/ N!EncodeBranch \/ N!RemoveRep \/ N!RemoveRelax
      <4>1. /\ at = "entry" /\ entry <= Len(N!Rela.entries)
            /\ \/ N!Entry.type \in {"48_LLUI", "BRANCHI", "LLUI_REP"}
               \/ N!Rela.info \in branchi_sections
        BY <3>2 DEF N!ConvertLlui48, N!EncodeBranch, N!RemoveRep, N!RemoveRelax,
                    N!AtEntry
      <4> QED BY <1>1, <1>2, <3>1, <4>1
    <3>3. CASE N!Again
      <4>1. output = data
        BY <3>1, <3>3, WrittenFile DEF N!Again
      <4> QED BY <3>3, <4>1 DEF N!Again
    <3>4. CASE N!SkipMember \/ N!FirstPass \/ N!BeginTable \/ N!EndTable
                 \/ N!EndMember \/ N!KeepEntry \/ N!Fail \/ N!Write \/ N!Done
      BY <3>4 DEF N!SkipMember, N!FirstPass, N!BeginTable, N!EndTable,
                  N!EndMember, N!KeepEntry, N!Fail, N!Write, N!Done, N!vars
    <3> QED BY <3>1, <3>2, <3>3, <3>4 DEF N!Next
  <2> QED BY <1>2, <2>1, <2>2
<1>3. (command = "normalize-archive" => NormalizerInv)
        /\ [CommandNext]_<<command, vars, pool>>
        => [command = "normalize-archive" => N!SecondRunStep]_<<command, pool>>
  BY <1>2 DEF N!SecondRunStep
<1> QED BY <1>3, NormalizerInvariance, PTL DEF CommandSpec, SecondRunChangesNothing

-----------------------------------------------------------------------------
(* verify-guarded-sites.                                                       *)

\* Where section i of the ELF is loaded.
Covers(i, address) ==
  /\ given.elf[i].alloc /\ address >= given.elf[i].address
  /\ address < given.elf[i].address + Len(given.elf[i].cells)

SectionsTyped ==
  /\ \A i \in DOMAIN given.elf :
       /\ given.elf[i].address \in Nat /\ given.elf[i].cells \in Seq(Nat)
       /\ Len(given.elf[i].cells) \in Nat
  /\ \A i, j \in DOMAIN given.elf : \A address \in Int :
       Covers(i, address) /\ Covers(j, address) => i = j

SiteTyped(site) ==
  /\ site.rel_vma \in Nat /\ site.imm32 \in Nat \cup {ABSENT}
  /\ site.instruction \in Nat /\ site.symbol_value \in Nat

LEMMA ParityTyped ==
  ASSUME given \in ParityInputs
  PROVE  /\ SectionsTyped /\ DOMAIN given.elf \subseteq Nat
         /\ DOMAIN given.sites = 1 .. Len(given.sites) /\ Len(given.sites) \in Nat
         /\ \A i \in DOMAIN given.sites : SiteTyped(given.sites[i])
         /\ \A i \in DOMAIN given.archives : given.archives[i].cells \in Seq(Nat)
<1> DEFINE Section == [alloc : BOOLEAN, address : Nat, cells : Seq(Nat)]
           SiteSet == [relocation : STRING, rel_vma : Nat,
                       imm32 : Nat \cup {ABSENT}, instruction : Nat,
                       section : Nat, symbol_value : Nat]
           Source == [mergeable : BOOLEAN, cells : Seq(Nat)]
<1>1. /\ given.elf \in Seq(Section)
      /\ given.sites \in Seq(SiteSet)
      /\ given.archives \in Seq(Source)
      /\ \A i, j \in DOMAIN given.elf :
           given.elf[i].alloc /\ given.elf[j].alloc /\ i # j =>
             \/ given.elf[i].address + Len(given.elf[i].cells)
                  <= given.elf[j].address
             \/ given.elf[j].address + Len(given.elf[j].cells)
                  <= given.elf[i].address
  BY ParityAssumption, Zenon
<1>2. /\ \A s \in Section : s.address \in Nat /\ s.cells \in Seq(Nat)
      /\ \A s \in SiteSet : SiteTyped(s)
      /\ \A s \in Source : s.cells \in Seq(Nat)
  BY DEF SiteTyped
<1> HIDE DEF Section, SiteSet, Source
<1>3. /\ DOMAIN given.elf \subseteq Nat
      /\ \A i \in DOMAIN given.elf : given.elf[i] \in Section
      /\ DOMAIN given.sites = 1 .. Len(given.sites) /\ Len(given.sites) \in Nat
      /\ \A i \in DOMAIN given.sites : given.sites[i] \in SiteSet
      /\ \A i \in DOMAIN given.archives : given.archives[i] \in Source
  BY <1>1
<1>4. \A i \in DOMAIN given.elf :
        /\ given.elf[i].address \in Nat /\ given.elf[i].cells \in Seq(Nat)
        /\ Len(given.elf[i].cells) \in Nat
  BY <1>2, <1>3
<1>5. ASSUME NEW i \in DOMAIN given.elf, NEW j \in DOMAIN given.elf,
             NEW address \in Int, Covers(i, address), Covers(j, address)
      PROVE  i = j
  <2> DEFINE b1 == given.elf[i].address
             e1 == b1 + Len(given.elf[i].cells)
             b2 == given.elf[j].address
             e2 == b2 + Len(given.elf[j].cells)
  <2>1. b1 \in Int /\ e1 \in Int /\ b2 \in Int /\ e2 \in Int
    BY <1>4
  <2>2. /\ given.elf[i].alloc /\ address >= b1 /\ address < e1
        /\ given.elf[j].alloc /\ address >= b2 /\ address < e2
    BY <1>5, Zenon DEF Covers
  <2>3. given.elf[i].alloc /\ given.elf[j].alloc /\ i # j => e1 <= b2 \/ e2 <= b1
    BY <1>1, Zenon
  <2> HIDE DEF b1, e1, b2, e2
  <2>4. ~(e1 <= b2) /\ ~(e2 <= b1)
    BY <2>1, <2>2
  <2> QED BY <2>2, <2>3, <2>4, Zenon
<1> QED BY <1>2, <1>3, <1>4, <1>5 DEF SectionsTyped

\* The memory is what the sections that are loaded hold.
LEMMA MemoryHolds ==
  ASSUME SectionsTyped
  PROVE  /\ \A address \in DOMAIN G!Memory :
              /\ address \in Nat
              /\ \E i \in DOMAIN given.elf : Covers(i, address)
         /\ \A i \in DOMAIN given.elf : \A address \in Int : Covers(i, address) =>
              /\ address \in DOMAIN G!Memory
              /\ G!Memory[address]
                   = given.elf[i].cells[address - given.elf[i].address + 1]
<1> DEFINE Loaded == {given.elf[i] : i \in {j \in DOMAIN given.elf :
                                              given.elf[j].alloc}}
           Places == UNION {section.address
                              .. section.address + Len(section.cells) - 1 :
                              section \in Loaded}
           Finds(address, j) == /\ given.elf[j].alloc
                                /\ address >= given.elf[j].address
                                /\ address < given.elf[j].address
                                             + Len(given.elf[j].cells)
           Found(address) == CHOOSE j \in DOMAIN given.elf : Finds(address, j)
<1>1. G!Memory = [address \in Places |->
                    given.elf[Found(address)].cells
                      [address - given.elf[Found(address)].address + 1]]
  BY DEF G!Memory
<1>2. ASSUME NEW address \in Places
      PROVE  address \in Nat /\ \E i \in DOMAIN given.elf : Covers(i, address)
  <2>1. PICK i \in DOMAIN given.elf :
          /\ given.elf[i].alloc
          /\ address \in given.elf[i].address
                           .. given.elf[i].address + Len(given.elf[i].cells) - 1
    OBVIOUS
  <2>2. given.elf[i].address \in Nat /\ Len(given.elf[i].cells) \in Nat
    BY DEF SectionsTyped
  <2> QED BY <2>1, <2>2 DEF Covers
<1>3. ASSUME NEW i \in DOMAIN given.elf, NEW address \in Int, Covers(i, address)
      PROVE  address \in Places /\ Found(address) = i
  <2>1. given.elf[i].address \in Nat /\ Len(given.elf[i].cells) \in Nat
    BY DEF SectionsTyped
  <2>2. address \in given.elf[i].address
                      .. given.elf[i].address + Len(given.elf[i].cells) - 1
    BY <1>3, <2>1 DEF Covers
  <2>3. given.elf[i] \in Loaded
    BY <1>3 DEF Covers
  <2>4. address \in Places
    <3> HIDE DEF Loaded
    <3> QED BY <2>2, <2>3
  <2>5. Finds(address, i)
    BY <1>3 DEF Covers
  <2>6. Found(address) \in DOMAIN given.elf /\ Finds(address, Found(address))
    <3> HIDE DEF Finds
    <3> QED BY <2>5, ZenonT(60)
  <2>7. Covers(Found(address), address)
    BY <2>6 DEF Covers
  <2> HIDE DEF Found, Places
  <2>8. Found(address) = i
    BY <1>3, <2>6, <2>7, Zenon DEF SectionsTyped
  <2> QED BY <2>4, <2>8
<1> HIDE DEF Places, Found
<1>4. DOMAIN G!Memory = Places
  BY <1>1
<1>5. ASSUME NEW i \in DOMAIN given.elf, NEW address \in Int, Covers(i, address)
      PROVE  G!Memory[address]
               = given.elf[i].cells[address - given.elf[i].address + 1]
  <2>1. address \in Places /\ Found(address) = i
    BY <1>3, <1>5, Zenon
  <2> QED BY <1>1, <2>1
<1>6. \A i \in DOMAIN given.elf : \A address \in Int :
        Covers(i, address) => address \in Places
  BY <1>3, Zenon
<1> QED BY <1>2, <1>4, <1>5, <1>6, Zenon

\* What is read is what the memory holds.
LEMMA BytesRead ==
  ASSUME given \in ParityInputs, NEW address \in Nat, NEW length \in Nat \ {0},
         NEW bytes, bytes = G!BytesAtVma(address, length), bytes # ABSENT
  PROVE  /\ bytes \in Seq(Nat) /\ Len(bytes) = length
         /\ \A k \in 1 .. length : /\ address + k - 1 \in DOMAIN G!Memory
                                   /\ bytes[k] = G!Memory[address + k - 1]
<1>1. SectionsTyped /\ DOMAIN given.elf \subseteq Nat
  BY ParityTyped
<1> DEFINE holding == G!Holding(address, length)
           first == CHOOSE i \in holding : \A j \in holding : i <= j
           relative == address - given.elf[first].address
<1>2. holding # {} /\ holding \in SUBSET Nat
  <2>1. holding # {}
    BY DEF G!BytesAtVma
  <2> QED BY <1>1, <2>1 DEF G!Holding
<1>3. bytes = SubSeq(given.elf[first].cells, relative + 1, relative + length)
  BY <1>2, Zenon DEF G!BytesAtVma
<1>4. first \in holding
  <2> HIDE DEF holding
  <2>1. \E i \in holding : \A j \in holding : i <= j
    BY <1>2, LeastElement
  <2> QED BY <2>1, Zenon
<1> HIDE DEF first
<1>5. /\ first \in DOMAIN given.elf /\ given.elf[first].alloc
      /\ address >= given.elf[first].address
      /\ relative + length <= Len(given.elf[first].cells)
  BY <1>4 DEF G!Holding, G!Allocated
<1>6. /\ given.elf[first].address \in Nat /\ given.elf[first].cells \in Seq(Nat)
      /\ Len(given.elf[first].cells) \in Nat
  BY <1>1, <1>5 DEF SectionsTyped
<1>7. relative \in Nat
  BY <1>5, <1>6
<1>8. ASSUME NEW k \in 1 .. length
      PROVE  /\ Covers(first, address + k - 1)
             /\ ((address + k - 1) - given.elf[first].address) + 1 = relative + k
             /\ bytes[k] = given.elf[first].cells[relative + k]
  <2> DEFINE begin == given.elf[first].address
             size == Len(given.elf[first].cells)
  <2>0. /\ begin \in Nat /\ size \in Nat /\ address >= begin
        /\ address - begin + length <= size /\ relative = address - begin
    BY <1>5, <1>6
  <2> HIDE DEF begin, size, relative
  <2>1. /\ address + k - 1 >= begin /\ address + k - 1 < begin + size
        /\ ((address + k - 1) - begin) + 1 = relative + k
    BY <2>0
  <2>2. bytes[k] = given.elf[first].cells[relative + k]
    <3> DEFINE cells == given.elf[first].cells
    <3>1. /\ cells \in Seq(Nat) /\ Len(cells) \in Nat /\ relative \in Nat
          /\ relative + length <= Len(cells)
          /\ bytes = SubSeq(cells, relative + 1, relative + length)
      BY <1>3, <1>5, <1>6, <1>7
    <3> HIDE DEF cells
    <3>2. bytes[k] = cells[relative + k]
      <4> DEFINE low == relative + 1
                 high == relative + length
      <4>1. /\ low \in 1 .. Len(cells) /\ high \in 1 .. Len(cells)
            /\ k \in 1 .. high - low + 1 /\ low + k - 1 = relative + k
        BY <3>1
      <4>2. bytes = SubSeq(cells, low, high)
        BY <3>1
      <4> HIDE DEF low, high
      <4>3. bytes[k] = cells[low + k - 1]
        BY <3>1, <4>1, <4>2
      <4> QED BY <4>1, <4>3
    <3> QED BY <3>2 DEF cells
  <2>3. Covers(first, address + k - 1)
    BY <1>5, <2>1, Zenon DEF Covers, begin, size
  <2> QED BY <2>1, <2>2, <2>3 DEF begin
<1>9. bytes \in Seq(Nat) /\ Len(bytes) = length
  <2> DEFINE cells == given.elf[first].cells
  <2> HIDE DEF relative
  <2>1. /\ cells \in Seq(Nat) /\ Len(cells) \in Nat /\ relative \in Nat
        /\ relative + length <= Len(cells)
        /\ bytes = SubSeq(cells, relative + 1, relative + length)
    BY <1>3, <1>5, <1>6, <1>7
  <2> HIDE DEF cells
  <2> QED BY <2>1, SMTT(40)
<1>10. ASSUME NEW k \in 1 .. length
       PROVE  /\ address + k - 1 \in DOMAIN G!Memory
              /\ bytes[k] = G!Memory[address + k - 1]
  <2>1. address + k - 1 \in Int
    OBVIOUS
  <2> HIDE DEF relative
  <2>2. /\ address + k - 1 \in DOMAIN G!Memory
        /\ G!Memory[address + k - 1]
             = given.elf[first].cells
                 [((address + k - 1) - given.elf[first].address) + 1]
    <3> DEFINE place == address + k - 1
    <3>1. first \in DOMAIN given.elf /\ place \in Int /\ Covers(first, place)
      BY <1>5, <1>8, <2>1
    <3> HIDE DEF place
    <3>2. /\ place \in DOMAIN G!Memory
          /\ G!Memory[place]
               = given.elf[first].cells[(place - given.elf[first].address) + 1]
      <4>1. \A i \in DOMAIN given.elf : \A x \in Int : Covers(i, x) =>
              /\ x \in DOMAIN G!Memory
              /\ G!Memory[x] = given.elf[i].cells[(x - given.elf[i].address) + 1]
        BY <1>1, MemoryHolds
      <4> QED BY <3>1, <4>1, Zenon
    <3> QED BY <3>2 DEF place
  <2> QED BY <1>8, <2>2
<1> QED BY <1>9, <1>10

\* It can be read if it lies in one section.
LEMMA BytesThere ==
  ASSUME given \in ParityInputs, NEW address \in Nat, NEW length \in Nat \ {0},
         G!InOneSection(address, length)
  PROVE  G!BytesAtVma(address, length) # ABSENT
<1>1. SectionsTyped /\ DOMAIN given.elf \subseteq Nat
  BY ParityTyped
<1> DEFINE holding == G!Holding(address, length)
           first == CHOOSE i \in holding : \A j \in holding : i <= j
           relative == address - given.elf[first].address
<1>2. holding # {}
  <2>1. PICK i \in DOMAIN given.elf :
          /\ given.elf[i].alloc
          /\ address .. address + length - 1
               \subseteq given.elf[i].address
                           .. given.elf[i].address + Len(given.elf[i].cells) - 1
    BY DEF G!InOneSection
  <2>2. given.elf[i].address \in Nat /\ Len(given.elf[i].cells) \in Nat
    BY <1>1 DEF SectionsTyped
  <2>3. address \in address .. address + length - 1
        /\ address + length - 1 \in address .. address + length - 1
    OBVIOUS
  <2> DEFINE begin == given.elf[i].address
             size == Len(given.elf[i].cells)
  <2>5. address \in begin .. begin + size - 1
        /\ address + length - 1 \in begin .. begin + size - 1
    BY <2>1, <2>3
  <2>6. begin \in Nat /\ size \in Nat
    BY <2>2
  <2> HIDE DEF begin, size
  <2>7. address >= begin /\ address - begin + length <= size
    BY <2>5, <2>6
  <2>4. /\ address >= given.elf[i].address
        /\ address - given.elf[i].address + length <= Len(given.elf[i].cells)
    BY <2>7 DEF begin, size
  <2> QED BY <2>1, <2>4 DEF G!Holding, G!Allocated
<1>3. G!BytesAtVma(address, length)
        = SubSeq(given.elf[first].cells, relative + 1, relative + length)
  BY <1>2, Zenon DEF G!BytesAtVma
<1>4. first \in holding
  <2>1. holding \in SUBSET Nat
    BY <1>1 DEF G!Holding
  <2> HIDE DEF holding
  <2>2. \E i \in holding : \A j \in holding : i <= j
    BY <1>2, <2>1, LeastElement
  <2> QED BY <2>2, Zenon
<1> HIDE DEF first
<1>5. /\ first \in DOMAIN given.elf
      /\ address >= given.elf[first].address
      /\ relative + length <= Len(given.elf[first].cells)
  BY <1>4 DEF G!Holding
<1>6. /\ given.elf[first].address \in Nat /\ given.elf[first].cells \in Seq(Nat)
      /\ Len(given.elf[first].cells) \in Nat
  BY <1>1, <1>5 DEF SectionsTyped
<1>7. relative \in Nat
  BY <1>5, <1>6
<1> HIDE DEF relative
<1>8. SubSeq(given.elf[first].cells, relative + 1, relative + length) \in Seq(Nat)
  BY <1>5, <1>6, <1>7, SMTT(40)
<1> QED BY <1>3, <1>8, ParityAssumption

\* A word is read exactly where the memory has one.
LEMMA WordRead ==
  ASSUME given \in ParityInputs, NEW address \in Nat
  PROVE  /\ address \in DOMAIN G!Memory =>
              G!Word(address) = <<G!Memory[address]>> /\ G!Memory[address] \in Nat
         /\ address \notin DOMAIN G!Memory => G!Word(address) = ABSENT
<1>1. ASSUME G!Word(address) # ABSENT
      PROVE  /\ address \in DOMAIN G!Memory
             /\ G!Word(address) = <<G!Memory[address]>> /\ G!Memory[address] \in Nat
  <2> DEFINE bytes == G!Word(address)
  <2>1. bytes = G!BytesAtVma(address, 1) /\ bytes # ABSENT
    BY <1>1, Zenon DEF G!Word
  <2> HIDE DEF bytes
  <2>2. /\ bytes \in Seq(Nat) /\ Len(bytes) = 1
        /\ \A k \in 1 .. 1 : /\ address + k - 1 \in DOMAIN G!Memory
                             /\ bytes[k] = G!Memory[address + k - 1]
    <3>1. 1 \in Nat \ {0}
      OBVIOUS
    <3> QED BY <2>1, <3>1, BytesRead, ZenonT(60)
  <2>3. address + 1 - 1 = address /\ 1 \in 1 .. 1
    OBVIOUS
  <2>4. address \in DOMAIN G!Memory /\ bytes[1] = G!Memory[address]
    BY <2>2, <2>3
  <2>5. bytes = <<bytes[1]>> /\ bytes[1] \in Nat
    <3>1. ASSUME NEW b \in Seq(Nat), Len(b) = 1
          PROVE  b = <<b[1]>> /\ b[1] \in Nat
      BY <3>1, SMTT(40)
    <3> QED BY <2>2, <3>1, Zenon
  <2>6. bytes = <<G!Memory[address]>> /\ G!Memory[address] \in Nat
    BY <2>4, <2>5, Zenon
  <2> QED BY <2>4, <2>6 DEF bytes
<1>2. ASSUME address \in DOMAIN G!Memory
      PROVE  G!Word(address) # ABSENT
  <2>1. SectionsTyped
    BY ParityTyped
  <2>2. PICK i \in DOMAIN given.elf : Covers(i, address)
    BY <1>2, <2>1, MemoryHolds
  <2>3. given.elf[i].address \in Nat /\ Len(given.elf[i].cells) \in Nat
    BY <2>1 DEF SectionsTyped
  <2>4. given.elf[i].alloc /\ address .. address + 1 - 1
          \subseteq given.elf[i].address
                      .. given.elf[i].address + Len(given.elf[i].cells) - 1
    BY <2>2, <2>3 DEF Covers
  <2>5. G!InOneSection(address, 1)
    BY <2>4 DEF G!InOneSection
  <2>6. G!BytesAtVma(address, 1) # ABSENT
    <3>1. 1 \in Nat \ {0}
      OBVIOUS
    <3> QED BY <2>5, <3>1, BytesThere, Zenon
  <2> QED BY <2>6, Zenon DEF G!Word
<1> QED BY <1>1, <1>2, Zenon

\* The bytes are those of a text.
BytesOf(text, cells, from, length) ==
  /\ G!IsText(cells, from, length)
  /\ text \in Seq(Nat) /\ Len(text) = length
  /\ \A k \in 1 .. length : text[k] = cells[(from + k) - 1]

\* A string of the archive is a text.
LEMMA StringIs ==
  ASSUME NEW cells \in Seq(Nat), NEW from \in Nat \ {0}, G!Nuls(cells, from) # {},
         NEW text, text = G!StringFrom(cells, from)
  PROVE  \E length \in 1 .. Len(cells) : BytesOf(text, cells, from, length)
<1> DEFINE nuls == G!Nuls(cells, from)
           end == CHOOSE i \in nuls : \A j \in nuls : i <= j
           length == (end - from) + 1
<1>1. nuls \in SUBSET Nat /\ nuls # {}
  BY DEF G!Nuls
<1>2. end \in nuls /\ \A j \in nuls : end <= j
  <2> HIDE DEF nuls
  <2>1. \E i \in nuls : \A j \in nuls : i <= j
    BY <1>1, LeastElement
  <2> QED BY <2>1, Zenon
<1>3. text = SubSeq(cells, from, end)
  BY Zenon DEF G!StringFrom
<1> HIDE DEF end
<1>4. /\ Len(cells) \in Nat /\ end \in Nat /\ from <= end /\ end <= Len(cells)
      /\ cells[end] = 0
      /\ \A i \in from .. end - 1 : cells[i] # 0
  <2>1. /\ Len(cells) \in Nat
        /\ end \in from .. Len(cells) /\ cells[end] = 0
    BY <1>2 DEF G!Nuls
  <2>2. end \in Nat /\ from <= end /\ end <= Len(cells)
    BY <2>1
  <2>3. ASSUME NEW i \in from .. end - 1, cells[i] = 0
        PROVE  FALSE
    <3>1. i \in from .. Len(cells) /\ ~(end <= i)
      BY <2>1, <2>2
    <3>2. i \in nuls
      BY <2>3, <3>1 DEF G!Nuls
    <3> QED BY <1>2, <3>1, <3>2
  <2> QED BY <2>1, <2>2, <2>3
<1>5. /\ length \in 1 .. Len(cells) /\ length \in 1 .. Len(cells) - from + 1
      /\ from + length - 1 = end /\ from + length - 1 \in Nat
  BY <1>4
<1>6. G!IsText(cells, from, length)
  <2>1. \A k \in 0 .. length - 2 : from + k \in from .. end - 1
    BY <1>4
  <2>2. \A k \in 0 .. length - 2 : cells[from + k] # 0
    BY <1>4, <2>1
  <2>3. cells[from + length - 1] = 0
    BY <1>4, <1>5
  <2> HIDE DEF length
  <2> QED BY <1>5, <2>2, <2>3 DEF G!IsText
<1>7. text \in Seq(Nat) /\ Len(text) = length
  BY <1>3, <1>4, SMTT(40)
<1>8. ASSUME NEW k \in 1 .. length
      PROVE  text[k] = cells[(from + k) - 1]
  BY <1>3, <1>4
<1> HIDE DEF length
<1> QED BY <1>5, <1>6, <1>7, <1>8 DEF BytesOf

\* A text has one length.
LEMMA OneLength ==
  ASSUME NEW cells \in Seq(Nat), NEW from \in Nat \ {0},
         NEW m, NEW n, G!IsText(cells, from, m), G!IsText(cells, from, n)
  PROVE  m = n /\ m \in 1 .. Len(cells)
<1>0. Len(cells) \in Nat
  OBVIOUS
<1>1. /\ m \in 1 .. Len(cells) - from + 1 /\ n \in 1 .. Len(cells) - from + 1
      /\ cells[from + m - 1] = 0 /\ cells[from + n - 1] = 0
      /\ \A k \in 0 .. m - 2 : cells[from + k] # 0
      /\ \A k \in 0 .. n - 2 : cells[from + k] # 0
  BY DEF G!IsText
<1>2. m \in Nat \ {0} /\ n \in Nat \ {0} /\ m <= Len(cells)
  BY <1>0, <1>1, SMTT(40)
<1>3. ASSUME m < n PROVE FALSE
  <2>1. m - 1 \in 0 .. n - 2 /\ from + (m - 1) = from + m - 1
    BY <1>2, <1>3
  <2> QED BY <1>1, <2>1
<1>4. ASSUME n < m PROVE FALSE
  <2>1. n - 1 \in 0 .. m - 2 /\ from + (n - 1) = from + n - 1
    BY <1>2, <1>4
  <2> QED BY <1>1, <2>1
<1> QED BY <1>0, <1>2, <1>3, <1>4

\* The text that a site's symbol names in the source archive.
SourceText(site, length) ==
  /\ site.section \in DOMAIN given.archives
  /\ given.archives[site.section].mergeable
  /\ G!IsText(given.archives[site.section].cells, site.symbol_value + 1, length)

LEMMA SourceRead ==
  ASSUME given \in ParityInputs, NEW site, SiteTyped(site),
         NEW source, source = G!SourceMergedString(site),
         NEW from, from = site.symbol_value + 1
  PROVE  /\ source # ABSENT => \E length \in Nat \ {0} :
              /\ SourceText(site, length)
              /\ BytesOf(source, given.archives[site.section].cells, from, length)
         /\ source = ABSENT => \A length : ~SourceText(site, length)
<1> DEFINE section == given.archives[site.section]
           Missing == \/ site.section \notin DOMAIN given.archives
                      \/ ~section.mergeable \/ from > Len(section.cells)
                      \/ G!Nuls(section.cells, from) = {}
<1>1. source = IF Missing THEN ABSENT ELSE G!StringFrom(section.cells, from)
  BY Zenon DEF G!SourceMergedString
<1>2. from \in Nat \ {0}
  BY DEF SiteTyped
<1>3. site.section \in DOMAIN given.archives => section.cells \in Seq(Nat)
  BY ParityTyped
<1>4. ASSUME ~Missing
      PROVE  /\ source # ABSENT
             /\ \E length \in Nat \ {0} :
                  /\ SourceText(site, length)
                  /\ BytesOf(source, section.cells, from, length)
  <2> DEFINE cells == section.cells
  <2>1. /\ cells \in Seq(Nat) /\ G!Nuls(cells, from) # {}
        /\ source = G!StringFrom(cells, from)
    BY <1>1, <1>3, <1>4
  <2>2. site.section \in DOMAIN given.archives /\ section.mergeable
    BY <1>4
  <2> HIDE DEF cells
  <2>3. PICK length \in 1 .. Len(cells) : BytesOf(source, cells, from, length)
    BY <1>2, <2>1, StringIs, Zenon
  <2>4. length \in Nat \ {0}
    BY <2>1
  <2>5. SourceText(site, length)
    BY <2>2, <2>3, Zenon DEF SourceText, cells, BytesOf
  <2>6. source # ABSENT
    BY <2>3, ParityAssumption DEF BytesOf
  <2> QED BY <2>3, <2>4, <2>5, <2>6 DEF cells
<1>5. ASSUME Missing, NEW length, SourceText(site, length)
      PROVE  FALSE
  <2> DEFINE cells == section.cells
  <2>1. /\ site.section \in DOMAIN given.archives /\ section.mergeable
        /\ G!IsText(cells, from, length)
    BY <1>5, Zenon DEF SourceText
  <2>2. cells \in Seq(Nat)
    BY <1>3, <2>1
  <2>3. from > Len(cells) \/ G!Nuls(cells, from) = {}
    BY <1>5, <2>1
  <2> HIDE DEF cells
  <2>4. Len(cells) \in Nat
    BY <2>2
  <2>5. length \in 1 .. Len(cells) - from + 1 /\ cells[from + length - 1] = 0
    BY <2>1 DEF G!IsText
  <2> DEFINE end == from + length - 1
  <2>6. end \in from .. Len(cells) /\ from <= Len(cells)
    BY <1>2, <2>4, <2>5, SMTT(40)
  <2>7. cells[end] = 0
    BY <2>5
  <2> HIDE DEF end
  <2>8. end \in G!Nuls(cells, from)
    BY <2>6, <2>7 DEF G!Nuls
  <2> QED BY <1>2, <2>3, <2>4, <2>6, <2>8
<1> HIDE DEF Missing
<1>6. source # ABSENT => ~Missing
  BY <1>1, Zenon
<1>7. source = ABSENT => Missing
  BY <1>4, Zenon
<1> QED BY <1>4, <1>5, <1>6, <1>7, Zenon

\* The whole text is read at an address exactly if the program finds it there.
LEMMA TextRead ==
  ASSUME given \in ParityInputs, NEW cells \in Seq(Nat), NEW from \in Nat \ {0},
         NEW length \in Nat \ {0}, NEW source, BytesOf(source, cells, from, length),
         NEW actual \in Nat
  PROVE  /\ G!BytesAtVma(actual, length) = source
              => G!SameText(actual, cells, from)
         /\ G!SameText(actual, cells, from) /\ G!InOneSection(actual, length)
              => G!BytesAtVma(actual, length) = source
<1> DEFINE bytes == G!BytesAtVma(actual, length)
<1>1. /\ G!IsText(cells, from, length)
      /\ source \in Seq(Nat) /\ Len(source) = length
      /\ \A k \in 1 .. length : source[k] = cells[(from + k) - 1]
  BY DEF BytesOf
<1>2. length \in 1 .. Len(cells)
  BY <1>1, OneLength
<1>3. ASSUME bytes # ABSENT
      PROVE  /\ bytes \in Seq(Nat) /\ Len(bytes) = length
             /\ \A k \in 1 .. length :
                  /\ actual + k - 1 \in DOMAIN G!Memory
                  /\ bytes[k] = G!Memory[actual + k - 1]
  <2>1. bytes = G!BytesAtVma(actual, length)
    OBVIOUS
  <2> HIDE DEF bytes
  <2> QED BY <1>3, <2>1, BytesRead
<1>4. source # ABSENT
  BY <1>1, ParityAssumption
<1>5. ASSUME bytes = source
      PROVE  G!SameText(actual, cells, from)
  <2> HIDE DEF bytes
  <2>1. \A k \in 1 .. length :
          /\ actual + k - 1 \in DOMAIN G!Memory
          /\ bytes[k] = G!Memory[actual + k - 1]
    BY <1>3, <1>4, <1>5
  <2>2. ASSUME NEW k \in 0 .. length - 1
        PROVE  /\ actual + k \in DOMAIN G!Memory
               /\ G!Memory[actual + k] = cells[from + k]
    <3>1. /\ k + 1 \in 1 .. length /\ actual + (k + 1) - 1 = actual + k
          /\ (from + (k + 1)) - 1 = from + k
      OBVIOUS
    <3>2. source[k + 1] = cells[from + k] /\ bytes[k + 1] = G!Memory[actual + k]
      BY <1>1, <2>1, <3>1
    <3> QED BY <1>5, <2>1, <3>1, <3>2
  <2>3. actual .. actual + length - 1 \subseteq DOMAIN G!Memory
    <3>1. ASSUME NEW a \in actual .. actual + length - 1
          PROVE  a \in DOMAIN G!Memory
      <4>1. a - actual \in 0 .. length - 1 /\ actual + (a - actual) = a
        OBVIOUS
      <4> QED BY <2>2, <4>1
    <3> QED BY <3>1
  <2> QED BY <1>1, <1>2, <2>2, <2>3, Zenon DEF G!SameText
<1>6. ASSUME G!SameText(actual, cells, from), G!InOneSection(actual, length)
      PROVE  bytes = source
  <2>1. PICK n \in 1 .. Len(cells) :
          /\ G!IsText(cells, from, n)
          /\ \A k \in 0 .. n - 1 : G!Memory[actual + k] = cells[from + k]
    BY <1>6, Zenon DEF G!SameText
  <2>2. n = length
    BY <1>1, <2>1, OneLength
  <2>3. bytes # ABSENT
    BY <1>6, BytesThere, Zenon
  <2>4. /\ bytes \in Seq(Nat) /\ Len(bytes) = length
        /\ \A k \in 1 .. length : bytes[k] = G!Memory[actual + k - 1]
    BY <1>3, <2>3
  <2> HIDE DEF bytes
  <2>5. ASSUME NEW k \in 1 .. length
        PROVE  bytes[k] = source[k]
    <3>1. /\ k - 1 \in 0 .. n - 1 /\ actual + (k - 1) = actual + k - 1
          /\ from + (k - 1) = (from + k) - 1
      BY <2>2
    <3>2. G!Memory[actual + (k - 1)] = cells[from + (k - 1)]
      BY <2>1, <3>1
    <3> QED BY <1>1, <2>4, <3>1, <3>2
  <2> QED BY <1>1, <2>4, <2>5
<1> QED BY <1>5, <1>6

MergedClasses == {"llui48_merged_string_equivalent",
                  "llui48_legacy_merged_string_corrections"}

\* A site with another address is passed only if the whole text is there; if it is
\* not, the string is not there or runs over the end of a section.
LEMMA MergedMeans ==
  ASSUME given \in ParityInputs, NEW site, SiteTyped(site), site.imm32 \in Nat,
         NEW actual \in Nat, NEW class, class = G!MergedClass(site, actual)
  PROVE  /\ class # ABSENT =>
              /\ class \in MergedClasses
              /\ site.section \in DOMAIN given.archives
              /\ given.archives[site.section].mergeable
              /\ G!SameText(actual, given.archives[site.section].cells,
                            site.symbol_value + 1)
         /\ class = ABSENT =>
              \/ ~(/\ site.section \in DOMAIN given.archives
                   /\ given.archives[site.section].mergeable
                   /\ G!SameText(actual, given.archives[site.section].cells,
                                 site.symbol_value + 1))
              \/ \E length :
                   /\ SourceText(site, length)
                   /\ \/ ~G!InOneSection(site.imm32, length)
                      \/ ~G!InOneSection(actual, length)
<1> DEFINE source == G!SourceMergedString(site)
           from == site.symbol_value + 1
           cells == given.archives[site.section].cells
           found == G!BytesAtVma(actual, Len(source))
           guarded == G!BytesAtVma(site.imm32, Len(source))
<1>1. class = IF source = ABSENT \/ found # source THEN ABSENT
              ELSE IF guarded = ABSENT THEN ABSENT
              ELSE IF guarded = source THEN "llui48_merged_string_equivalent"
              ELSE "llui48_legacy_merged_string_corrections"
  BY Zenon DEF G!MergedClass
<1>2. ABSENT \notin MergedClasses
  BY ParityAssumption DEF G!Classes, MergedClasses
<1>3. /\ source # ABSENT => \E length \in Nat \ {0} :
           SourceText(site, length) /\ BytesOf(source, cells, from, length)
      /\ source = ABSENT => \A length : ~SourceText(site, length)
  BY SourceRead
<1>4. from \in Nat \ {0}
  BY DEF SiteTyped
<1>5. site.section \in DOMAIN given.archives => cells \in Seq(Nat)
  BY ParityTyped
<1> HIDE DEF source, from, cells, found, guarded
<1>6. CASE source # ABSENT
  <2>1. PICK length \in Nat \ {0} :
          SourceText(site, length) /\ BytesOf(source, cells, from, length)
    BY <1>3, <1>6
  <2>2. /\ site.section \in DOMAIN given.archives
        /\ given.archives[site.section].mergeable
    BY <2>1 DEF SourceText
  <2>3. Len(source) = length
    BY <2>1 DEF BytesOf
  <2>4. /\ found = source => G!SameText(actual, cells, from)
        /\ G!SameText(actual, cells, from) /\ G!InOneSection(actual, length)
             => found = source
    BY <1>4, <1>5, <2>1, <2>2, <2>3, TextRead, Zenon DEF found
  <2>5. G!InOneSection(site.imm32, length) => guarded # ABSENT
    BY <2>3, BytesThere, Zenon DEF guarded
  <2>6. ASSUME class # ABSENT
        PROVE  class \in MergedClasses /\ G!SameText(actual, cells, from)
    BY <1>1, <2>4, <2>6 DEF MergedClasses
  <2>7. ASSUME class = ABSENT, G!SameText(actual, cells, from)
        PROVE  \/ ~G!InOneSection(site.imm32, length)
               \/ ~G!InOneSection(actual, length)
    BY <1>1, <1>2, <1>6, <2>4, <2>5, <2>7 DEF MergedClasses
  <2> QED BY <2>1, <2>2, <2>6, <2>7, Zenon DEF cells, from
<1>7. CASE source = ABSENT
  <2>1. class = ABSENT
    BY <1>1, <1>7
  <2>2. ~(/\ site.section \in DOMAIN given.archives
          /\ given.archives[site.section].mergeable
          /\ G!SameText(actual, cells, from))
    <3>1. ASSUME site.section \in DOMAIN given.archives,
                 given.archives[site.section].mergeable,
                 G!SameText(actual, cells, from)
          PROVE  FALSE
      <4>1. PICK n \in 1 .. Len(cells) : G!IsText(cells, from, n)
        BY <3>1, Zenon DEF G!SameText
      <4>2. SourceText(site, n)
        BY <3>1, <4>1, Zenon DEF SourceText, cells, from
      <4> QED BY <1>3, <1>7, <4>2
    <3> QED BY <3>1
  <2> QED BY <2>1, <2>2, Zenon DEF cells, from
<1> QED BY <1>6, <1>7

\* A site that is passed means the same as before; it is counted by its kind.
LEMMA ClassMeans ==
  ASSUME given \in ParityInputs, NEW site, SiteTyped(site),
         NEW class, class = G!Class(site)
  PROVE  /\ class # ABSENT =>
              /\ class \in G!Classes /\ G!SameSite(site)
              /\ IF class = "branchi_exact"
                   THEN site.relocation = "R_RISCV_BRANCHI"
                   ELSE site.relocation = "R_RISCV_48_LLUI"
         /\ class = ABSENT =>
              \/ site.relocation \notin {"R_RISCV_48_LLUI", "R_RISCV_BRANCHI"}
              \/ site.relocation = "R_RISCV_48_LLUI" /\ site.imm32 = ABSENT
              \/ G!WordAddress(site) \notin DOMAIN G!Memory
              \/ ~G!SameSite(site)
              \/ \E length :
                   /\ SourceText(site, length)
                   /\ \E address \in {site.imm32, G!Memory[G!WordAddress(site)]} :
                        ~G!InOneSection(address, length)
<1>1. site.rel_vma \in Nat /\ site.rel_vma + 2 \in Nat
  BY DEF SiteTyped
<1>2. ABSENT \notin G!Classes /\ ABSENT \notin Seq(Nat)
  BY ParityAssumption
<1>0. \A x \in Nat : <<x>> # ABSENT
  <2>1. \A x \in Nat : <<x>> \in Seq(Nat)
    OBVIOUS
  <2> QED BY <1>2, <2>1, Zenon
<1>3. CASE site.relocation = "R_RISCV_48_LLUI"
  <2> DEFINE w == site.rel_vma + 2
             word == G!Word(w)
             value == G!Memory[w]
  <2>1. class = IF ABSENT \in {site.imm32, word} THEN ABSENT
                ELSE IF word = <<site.imm32>> THEN "llui48_exact"
                ELSE G!MergedClass(site, word[1])
    BY <1>3, Zenon DEF G!Class
  <2>2. G!WordAddress(site) = w
    BY <1>3 DEF G!WordAddress
  <2>3. /\ w \in DOMAIN G!Memory => word = <<value>> /\ value \in Nat
        /\ w \notin DOMAIN G!Memory => word = ABSENT
    BY <1>1, WordRead
  <2>4. G!SameSite(site) <=>
          \/ value = site.imm32
          \/ /\ site.section \in DOMAIN given.archives
             /\ given.archives[site.section].mergeable
             /\ G!SameText(value, given.archives[site.section].cells,
                           site.symbol_value + 1)
    <3>1. site.relocation # "R_RISCV_BRANCHI"
      BY <1>3
    <3> QED BY <3>1, Zenon DEF G!SameSite
  <2> HIDE DEF w, word, value
  <2>5. CASE site.imm32 = ABSENT \/ w \notin DOMAIN G!Memory
    <3>1. class = ABSENT
      BY <2>1, <2>3, <2>5
    <3> QED BY <1>3, <2>2, <2>5, <3>1
  <2>6. CASE site.imm32 # ABSENT /\ w \in DOMAIN G!Memory
    <3>1. /\ site.imm32 \in Nat /\ value \in Nat
          /\ word = <<value>> /\ word[1] = value /\ word # ABSENT
      <4>1. value \in Nat /\ word = <<value>> /\ word # ABSENT
        BY <1>0, <2>3, <2>6, Zenon
      <4>2. site.imm32 \in Nat
        BY <2>6 DEF SiteTyped
      <4> QED BY <4>1, <4>2
    <3>2. CASE value = site.imm32
      <4>1. class = "llui48_exact"
        BY <2>1, <2>6, <3>1, <3>2
      <4> QED BY <1>2, <1>3, <2>4, <3>2, <4>1 DEF G!Classes
    <3>3. CASE value # site.imm32
      <4>1. class = G!MergedClass(site, value)
        BY <2>1, <2>6, <3>1, <3>3
      <4>2. /\ class # ABSENT =>
                 /\ class \in MergedClasses
                 /\ site.section \in DOMAIN given.archives
                 /\ given.archives[site.section].mergeable
                 /\ G!SameText(value, given.archives[site.section].cells,
                               site.symbol_value + 1)
            /\ class = ABSENT =>
                 \/ ~(/\ site.section \in DOMAIN given.archives
                      /\ given.archives[site.section].mergeable
                      /\ G!SameText(value, given.archives[site.section].cells,
                                    site.symbol_value + 1))
                 \/ \E length :
                      /\ SourceText(site, length)
                      /\ \/ ~G!InOneSection(site.imm32, length)
                         \/ ~G!InOneSection(value, length)
        BY <3>1, <4>1, MergedMeans, Zenon
      <4>3. ASSUME class # ABSENT
            PROVE  /\ class \in G!Classes /\ G!SameSite(site)
                   /\ class # "branchi_exact"
        <5>1. class \in MergedClasses /\ G!SameSite(site)
          BY <2>4, <4>2, <4>3, Zenon
        <5> QED BY <5>1 DEF MergedClasses, G!Classes
      <4>4. ASSUME class = ABSENT, G!SameSite(site)
            PROVE  \E length :
                     /\ SourceText(site, length)
                     /\ \E address \in {site.imm32, G!Memory[G!WordAddress(site)]} :
                          ~G!InOneSection(address, length)
        <5>1. value = G!Memory[G!WordAddress(site)]
          BY <2>2 DEF value
        <5>2. PICK length : /\ SourceText(site, length)
                            /\ \/ ~G!InOneSection(site.imm32, length)
                               \/ ~G!InOneSection(value, length)
          BY <2>4, <3>3, <4>2, <4>4, Zenon
        <5> QED BY <5>1, <5>2, Zenon
      <4> QED BY <1>3, <4>3, <4>4, Zenon
    <3> QED BY <3>2, <3>3
  <2> QED BY <2>5, <2>6
<1>4. CASE site.relocation = "R_RISCV_BRANCHI"
  <2> DEFINE w == site.rel_vma
             word == G!Word(w)
             value == G!Memory[w]
  <2>1. class = IF word = <<site.instruction>> THEN "branchi_exact" ELSE ABSENT
    <3>1. site.relocation # "R_RISCV_48_LLUI"
      BY <1>4
    <3> QED BY <1>4, <3>1, Zenon DEF G!Class
  <2>2. G!WordAddress(site) = w
    BY <1>4 DEF G!WordAddress
  <2>3. /\ w \in DOMAIN G!Memory => word = <<value>> /\ value \in Nat
        /\ w \notin DOMAIN G!Memory => word = ABSENT
    BY <1>1, WordRead
  <2>4. G!SameSite(site) <=> value = site.instruction
    BY <1>4, Zenon DEF G!SameSite
  <2>5. <<site.instruction>> # ABSENT
    BY <1>0 DEF SiteTyped
  <2> HIDE DEF w, word, value
  <2>6. CASE w \notin DOMAIN G!Memory
    <3>1. class = ABSENT
      BY <2>1, <2>3, <2>5, <2>6
    <3> QED BY <2>2, <2>6, <3>1
  <2>7. CASE w \in DOMAIN G!Memory
    <3>1. word = <<site.instruction>> <=> value = site.instruction
      BY <2>3, <2>7
    <3>2. CASE value = site.instruction
      <4>1. class = "branchi_exact"
        BY <2>1, <3>1, <3>2
      <4> QED BY <1>2, <1>4, <2>4, <3>2, <4>1 DEF G!Classes
    <3>3. CASE value # site.instruction
      <4>1. class = ABSENT
        BY <2>1, <3>1, <3>3
      <4> QED BY <2>4, <3>3, <4>1
    <3> QED BY <3>2, <3>3
  <2> QED BY <2>6, <2>7
<1>5. CASE site.relocation \notin {"R_RISCV_48_LLUI", "R_RISCV_BRANCHI"}
  <2>1. class = ABSENT
    BY <1>5 DEF G!Class
  <2> QED BY <1>5, <2>1
<1> QED BY <1>3, <1>4, <1>5

\* The sites that were passed are those before line; the classes they were counted
\* in say which kinds there were.
PassedSites == \A i \in 1 .. line - 1 : G!Class(given.sites[i]) # ABSENT

BranchSites(n) == {i \in 1 .. n : given.sites[i].relocation = "R_RISCV_BRANCHI"}

ParityInv ==
  /\ given \in ParityInputs /\ at \in {"sites", "accepted", "rejected"}
  /\ line \in 1 .. Len(given.sites) + 1
  /\ parity \in [G!Classes -> Nat]
  /\ parity["branchi_exact"] = Cardinality(BranchSites(line - 1))
  /\ \A class \in G!Classes \ {"branchi_exact"} : parity[class] > 0 =>
       \E i \in 1 .. line - 1 : given.sites[i].relocation = "R_RISCV_48_LLUI"
  /\ PassedSites
  /\ at = "accepted" => line > Len(given.sites) /\ G!BothKinds
  /\ at = "rejected" /\ line <= Len(given.sites) => G!Class(G!Site) = ABSENT

LEMMA ParityBegins == G!Init => ParityInv
<1> SUFFICES ASSUME G!Init PROVE ParityInv
  OBVIOUS
<1>1. /\ given \in ParityInputs /\ at = "sites" /\ line = 1
      /\ parity = [class \in G!Classes |-> 0]
  BY DEF G!Init
<1>2. Len(given.sites) \in Nat
  BY <1>1, ParityTyped
<1>3. 1 .. line - 1 = {}
  BY <1>1
<1>4. Cardinality(BranchSites(line - 1)) = 0
  <2>1. BranchSites(line - 1) = {}
    BY <1>3 DEF BranchSites
  <2> QED BY <2>1, FS_EmptySet
<1>5. parity["branchi_exact"] = 0
  BY <1>1, SMTT(40) DEF G!Classes
<1> QED BY <1>1, <1>2, <1>3, <1>4, <1>5 DEF ParityInv, PassedSites

\* What a site is compared with does not change.
LEMMA ClassStays ==
  ASSUME given' = given
  PROVE  \A site : G!Class(site)' = G!Class(site)
<1>1. \A address, length : G!Holding(address, length)' = G!Holding(address, length)
  BY DEF G!Holding, G!Allocated
<1>2. \A address, length : G!BytesAtVma(address, length)' = G!BytesAtVma(address, length)
  <2> TAKE address, length
  <2> DEFINE Lowest(s) == CHOOSE i \in s : \A j \in s : i <= j
  <2>1. G!BytesAtVma(address, length) =
          IF G!Holding(address, length) = {} THEN ABSENT
          ELSE LET first == Lowest(G!Holding(address, length))
                   relative == address - given.elf[first].address
               IN  SubSeq(given.elf[first].cells, relative + 1, relative + length)
    BY Zenon DEF G!BytesAtVma
  <2>2. G!BytesAtVma(address, length)' =
          IF G!Holding(address, length)' = {} THEN ABSENT
          ELSE LET first == Lowest(G!Holding(address, length)')
                   relative == address - given'.elf[first].address
               IN  SubSeq(given'.elf[first].cells, relative + 1, relative + length)
    BY Zenon DEF G!BytesAtVma
  <2> HIDE DEF Lowest
  <2>3. QED
    BY <1>1, <2>1, <2>2, Zenon
<1>3. \A site : G!SourceMergedString(site)' = G!SourceMergedString(site)
  BY DEF G!SourceMergedString
<1>4. \A site, actual : G!MergedClass(site, actual)' = G!MergedClass(site, actual)
  BY <1>2, <1>3, Zenon DEF G!MergedClass
<1>5. QED
  BY <1>2, <1>4, Zenon DEF G!Class, G!Word

LEMMA SiteStays ==
  ASSUME given' = given, NEW i
  PROVE  G!Class(given.sites[i])' = G!Class(given.sites[i])
BY ClassStays, Zenon

LEMMA ThisSiteStays ==
  ASSUME given' = given, line' = line
  PROVE  (G!Class(G!Site))' = G!Class(G!Site)
<1>1. (G!Site)' = G!Site
  BY Zenon DEF G!Site
<1>2. QED
  BY <1>1, ClassStays, Zenon

LEMMA CheckSiteKept == ParityInv /\ G!CheckSite => ParityInv'
<1> SUFFICES ASSUME ParityInv, G!CheckSite PROVE ParityInv'
  OBVIOUS
<1> DEFINE class == G!Class(given.sites[line])
           relocation == given.sites[line].relocation
<1>1. /\ given' = given /\ at' = at /\ at = "sites" /\ line' = line + 1
      /\ line <= Len(given.sites) /\ class # ABSENT
      /\ parity' = [parity EXCEPT ![class] = parity[class] + 1]
  BY DEF G!CheckSite, G!Site
<1>2. given \in ParityInputs /\ line \in 1 .. Len(given.sites) + 1
  BY DEF ParityInv
<1>3. /\ Len(given.sites) \in Nat /\ DOMAIN given.sites = 1 .. Len(given.sites)
      /\ line \in Nat \ {0} /\ line \in DOMAIN given.sites
      /\ SiteTyped(given.sites[line])
  <2>1. /\ Len(given.sites) \in Nat /\ DOMAIN given.sites = 1 .. Len(given.sites)
        /\ \A i \in DOMAIN given.sites : SiteTyped(given.sites[i])
    BY <1>2, ParityTyped
  <2>2. line \in Nat \ {0} /\ line \in 1 .. Len(given.sites)
    BY <1>1, <1>2, <2>1
  <2> QED BY <2>1, <2>2
<1>4. /\ class \in G!Classes
      /\ IF class = "branchi_exact" THEN relocation = "R_RISCV_BRANCHI"
                                    ELSE relocation = "R_RISCV_48_LLUI"
  BY <1>1, <1>2, <1>3, ClassMeans
<1> HIDE DEF class, relocation
<1>5. /\ line' \in 1 .. Len(given.sites) + 1 /\ line' - 1 = line
      /\ 1 .. line' - 1 = (1 .. line - 1) \cup {line} /\ line \notin 1 .. line - 1
  BY <1>1, <1>3
<1>6. /\ \A i \in 1 .. line' - 1 : G!Class(given.sites[i]) # ABSENT
      /\ \A i : G!Class(given.sites[i])' = G!Class(given.sites[i])
  <2>1. G!Class(given.sites[line]) # ABSENT
    BY <1>1 DEF class
  <2>2. \A i : G!Class(given.sites[i])' = G!Class(given.sites[i])
    BY <1>1, SiteStays, Zenon
  <2>3. \A i \in 1 .. line - 1 : G!Class(given.sites[i]) # ABSENT
    BY DEF ParityInv, PassedSites
  <2> QED BY <1>5, <2>1, <2>2, <2>3
<1>7. PassedSites'
  BY <1>6 DEF PassedSites
<1>8. parity \in [G!Classes -> Nat] /\ parity[class] \in Nat
  BY <1>4 DEF ParityInv
<1>9. /\ parity' \in [G!Classes -> Nat]
      /\ parity'[class] = parity[class] + 1
      /\ \A c \in G!Classes \ {class} : parity'[c] = parity[c]
  BY <1>1, <1>4, <1>8
<1>10. parity'["branchi_exact"] = Cardinality(BranchSites(line' - 1))
  <2> DEFINE before == BranchSites(line - 1)
  <2>1. IsFiniteSet(before)
    <3>1. IsFiniteSet(1 .. line - 1)
      BY <1>3, FS_Interval
    <3>2. before \subseteq 1 .. line - 1
      BY DEF BranchSites
    <3> QED BY <3>1, <3>2, FS_Subset
  <2>2. parity["branchi_exact"] = Cardinality(before)
    BY DEF ParityInv
  <2>3. relocation # "R_RISCV_BRANCHI" => BranchSites(line' - 1) = before
    BY <1>5 DEF BranchSites, relocation
  <2>4. relocation = "R_RISCV_BRANCHI"
          => BranchSites(line' - 1) = before \cup {line} /\ line \notin before
    BY <1>5 DEF BranchSites, relocation
  <2>5. "branchi_exact" \in G!Classes
    BY DEF G!Classes
  <2> HIDE DEF before
  <2>6. line \notin before => Cardinality(before \cup {line}) = Cardinality(before) + 1
    BY <2>1, UserAdded
  <2>7. CASE class = "branchi_exact"
    BY <1>4, <1>9, <2>2, <2>4, <2>6, <2>7
  <2>8. CASE class # "branchi_exact"
    BY <1>4, <1>9, <2>2, <2>3, <2>5, <2>8
  <2> QED BY <2>7, <2>8
<1>11. ASSUME NEW c \in G!Classes \ {"branchi_exact"}, parity'[c] > 0
       PROVE  \E i \in 1 .. line' - 1 :
                given.sites[i].relocation = "R_RISCV_48_LLUI"
  <2>1. CASE c = class
    <3>1. relocation = "R_RISCV_48_LLUI"
      BY <1>4, <1>11, <2>1
    <3> QED BY <1>5, <3>1 DEF relocation
  <2>2. CASE c # class
    <3>1. parity[c] > 0
      BY <1>9, <1>11, <2>2
    <3>2. \E i \in 1 .. line - 1 : given.sites[i].relocation = "R_RISCV_48_LLUI"
      BY <1>11, <3>1 DEF ParityInv
    <3> QED BY <1>5, <3>2
  <2> QED BY <2>1, <2>2
<1>12. (Cardinality(BranchSites(line - 1)))' = Cardinality(BranchSites(line' - 1))
  BY <1>1 DEF BranchSites
<1>13. (G!Classes)' = G!Classes
  BY DEF G!Classes
<1> QED BY <1>1, <1>2, <1>5, <1>7, <1>9, <1>10, <1>11, <1>12, <1>13 DEF ParityInv

\* Nothing is compared by another command, or when the comparison is over.
LEMMA ParityStays ==
  ASSUME ParityInv, UNCHANGED <<given, line, parity>>,
         \/ at' = at
         \/ at' = "accepted" /\ line > Len(given.sites) /\ G!BothKinds
         \/ at' = "rejected" /\ (line <= Len(given.sites) => G!Class(G!Site) = ABSENT)
  PROVE  ParityInv'
<1>1. given' = given /\ line' = line /\ parity' = parity
  OBVIOUS
<1>2. PassedSites' = PassedSites /\ (G!Class(G!Site))' = G!Class(G!Site)
  <2>1. \A i : G!Class(given.sites[i])' = G!Class(given.sites[i])
    BY <1>1, SiteStays, Zenon
  <2>2. PassedSites' = PassedSites
    BY <1>1, <2>1 DEF PassedSites
  <2>3. (G!Class(G!Site))' = G!Class(G!Site)
    <3>1. line' = line
      BY <1>1
    <3> QED BY <1>1, <3>1, ThisSiteStays
  <2> QED BY <2>2, <2>3
<1>3. /\ BranchSites(line - 1)' = BranchSites(line - 1)
      /\ G!BothKinds' = G!BothKinds /\ (G!Classes)' = G!Classes
  BY <1>1 DEF BranchSites, G!BothKinds, G!Classes
<1> QED BY <1>1, <1>2, <1>3 DEF ParityInv

LEMMA ParityKept ==
  ASSUME command = "verify-guarded-sites" => ParityInv,
         [CommandNext]_<<command, vars, pool>>
  PROVE  (command = "verify-guarded-sites" => ParityInv)'
<1>1. SUFFICES ASSUME command' = "verify-guarded-sites" PROVE ParityInv'
  OBVIOUS
<1>2. CASE UNCHANGED <<command, vars, pool>>
  <2>1. ParityInv
    BY <1>1, <1>2
  <2>2. UNCHANGED <<given, line, parity>> /\ at' = at
    BY <1>2 DEF pool
  <2> QED BY <2>1, <2>2, ParityStays
<1>3. CASE CommandNext
  <2>1. command = "verify-guarded-sites" /\ G!Next
    BY <1>1, <1>3 DEF CommandNext
  <2>2. ParityInv
    BY <2>1
  <2>3. CASE G!CheckSite
    BY <2>2, <2>3, CheckSiteKept
  <2>4. CASE G!Accept
    BY <2>2, <2>4, ParityStays DEF G!Accept
  <2>5. CASE G!Reject
    <3>1. Len(given.sites) \in Nat /\ line \in Nat
      <4>1. given \in ParityInputs /\ line \in 1 .. Len(given.sites) + 1
        BY <2>2 DEF ParityInv
      <4>2. Len(given.sites) \in Nat
        BY <4>1, ParityTyped
      <4> QED BY <4>1, <4>2
    <3> QED BY <2>2, <2>5, <3>1, ParityStays DEF G!Reject
  <2>6. CASE G!Done
    BY <2>2, <2>6, ParityStays DEF G!Done, G!vars
  <2> QED BY <2>1, <2>3, <2>4, <2>5, <2>6 DEF G!Next
<1> QED BY <1>2, <1>3

\* The comparison of an ELF accepts neither too much nor too little, for any
\* sections, sites and archives: what is accepted means the same at each site, and
\* merged strings are a reason to refuse only if a text runs over the end of a
\* section (normalize.rs:998-1068).
THEOREM ParityExactHolds == CommandSpec => []ParityExact
<1>1. CommandInit => (command = "verify-guarded-sites" => ParityInv)
  BY ParityBegins DEF CommandInit
<1>2. CommandSpec => [](command = "verify-guarded-sites" => ParityInv)
  BY <1>1, ParityKept, PTL DEF CommandSpec
<1>3. ASSUME ParityInv
      PROVE  G!ParityExact
  <2>1. /\ given \in ParityInputs /\ at \in {"sites", "accepted", "rejected"}
        /\ line \in 1 .. Len(given.sites) + 1
    BY <1>3 DEF ParityInv
  <2>2. /\ Len(given.sites) \in Nat /\ DOMAIN given.sites = 1 .. Len(given.sites)
        /\ \A i \in DOMAIN given.sites : SiteTyped(given.sites[i])
        /\ line \in Nat
    BY <2>1, ParityTyped
  <2>3. G!TypeOK
    <3>1. parity["branchi_exact"]
            = G!Cardinality({i \in 1 .. line - 1 :
                               given.sites[i].relocation = "R_RISCV_BRANCHI"})
      <4>1. G!Cardinality(BranchSites(line - 1)) = Cardinality(BranchSites(line - 1))
        BY Zenon DEF G!Cardinality, Cardinality
      <4> QED BY <1>3, <4>1 DEF ParityInv, BranchSites
    <3>2. ASSUME at = "accepted"
          PROVE  \E i, j \in DOMAIN given.sites :
                   given.sites[i].relocation # given.sites[j].relocation
      <4>1. G!BothKinds /\ line > Len(given.sites)
        BY <1>3, <3>2 DEF ParityInv
      <4>2. 1 .. line - 1 \subseteq DOMAIN given.sites
        BY <2>1, <2>2
      <4>3. PICK i \in 1 .. line - 1 : given.sites[i].relocation = "R_RISCV_48_LLUI"
        BY <1>3, <4>1 DEF G!BothKinds, ParityInv
      <4>4. BranchSites(line - 1) # {}
        <5>1. parity["branchi_exact"] > 0
          BY <4>1 DEF G!BothKinds
        <5>2. parity["branchi_exact"] = Cardinality(BranchSites(line - 1))
          BY <1>3 DEF ParityInv
        <5> QED BY <5>1, <5>2, FS_EmptySet
      <4>5. PICK j \in 1 .. line - 1 : given.sites[j].relocation = "R_RISCV_BRANCHI"
        BY <4>4 DEF BranchSites
      <4> QED BY <4>2, <4>3, <4>5
    <3> QED BY <2>1, <3>1, <3>2, Zenon DEF G!TypeOK
  <2>4. G!SameProgram
    <3>1. ASSUME at = "accepted", NEW i \in DOMAIN given.sites
          PROVE  G!SameSite(given.sites[i])
      <4>1. line > Len(given.sites)
        BY <1>3, <3>1 DEF ParityInv
      <4>2. i \in 1 .. line - 1
        BY <2>2, <4>1
      <4>3. G!Class(given.sites[i]) # ABSENT
        BY <1>3, <4>2 DEF ParityInv, PassedSites
      <4> QED BY <2>1, <2>2, <4>3, ClassMeans
    <3> QED BY <3>1 DEF G!SameProgram
  <2>5. G!MergingAccepted
    <3>1. SUFFICES ASSUME at = "rejected", line <= Len(given.sites)
          PROVE  \/ G!Site.relocation \notin {"R_RISCV_48_LLUI", "R_RISCV_BRANCHI"}
                 \/ G!Site.relocation = "R_RISCV_48_LLUI" /\ G!Site.imm32 = ABSENT
                 \/ G!WordAddress(G!Site) \notin DOMAIN G!Memory
                 \/ ~G!SameSite(G!Site)
                 \/ /\ G!Site.section \in DOMAIN given.archives
                    /\ \E length \in
                            1 .. Len(given.archives[G!Site.section].cells) :
                         /\ G!IsText(given.archives[G!Site.section].cells,
                                     G!Site.symbol_value + 1, length)
                         /\ \E address \in {G!Site.imm32,
                                            G!Memory[G!WordAddress(G!Site)]} :
                              ~G!InOneSection(address, length)
      BY Zenon DEF G!MergingAccepted
    <3> DEFINE site == G!Site
    <3>2. SiteTyped(site)
      <4>1. line \in DOMAIN given.sites
        BY <2>1, <2>2, <3>1
      <4> QED BY <2>2, <4>1 DEF G!Site
    <3>3. G!Class(site) = ABSENT
      BY <1>3, <3>1 DEF ParityInv
    <3> HIDE DEF site
    <3>4. \/ site.relocation \notin {"R_RISCV_48_LLUI", "R_RISCV_BRANCHI"}
          \/ site.relocation = "R_RISCV_48_LLUI" /\ site.imm32 = ABSENT
          \/ G!WordAddress(site) \notin DOMAIN G!Memory
          \/ ~G!SameSite(site)
          \/ \E length :
               /\ SourceText(site, length)
               /\ \E address \in {site.imm32, G!Memory[G!WordAddress(site)]} :
                    ~G!InOneSection(address, length)
      BY <2>1, <3>2, <3>3, ClassMeans, Zenon
    <3>5. ASSUME NEW length, SourceText(site, length)
          PROVE  /\ site.section \in DOMAIN given.archives
                 /\ length \in 1 .. Len(given.archives[site.section].cells)
                 /\ G!IsText(given.archives[site.section].cells,
                             site.symbol_value + 1, length)
      <4>1. /\ site.section \in DOMAIN given.archives
            /\ G!IsText(given.archives[site.section].cells,
                        site.symbol_value + 1, length)
        BY <3>5, Zenon DEF SourceText
      <4>2. given.archives[site.section].cells \in Seq(Nat)
        BY <2>1, <4>1, ParityTyped
      <4>3. site.symbol_value + 1 \in Nat \ {0}
        BY <3>2 DEF SiteTyped
      <4>4. length \in 1 .. Len(given.archives[site.section].cells)
        BY <4>1, <4>2, <4>3, OneLength
      <4> QED BY <4>1, <4>4
    <3> QED BY <3>4, <3>5, Zenon DEF site
  <2> QED BY <2>3, <2>4, <2>5 DEF G!ParityExact
<1>4. (command = "verify-guarded-sites" => ParityInv) => ParityExact
  BY <1>3 DEF ParityExact
<1> QED BY <1>2, <1>4, PTL

-----------------------------------------------------------------------------
(* The profiler of archives (ble_profile.rs:316-461). The invariant relates what *)
(* has been read so far to the pinned contents, as long as no file was replaced, *)
(* and the report in the output file to them if it was written in such a run.    *)

\* The sums of the profiler are those of Lists.
LEMMA ProfileSum ==
  ASSUME NEW f, NEW n
  PROVE  P!SumUpTo(f, n) = SumUpTo(f, n)
BY Zenon DEF P!SumUpTo, SumUpTo

\* So are the sizes of its sets.
LEMMA ProfileCardinality ==
  ASSUME NEW S
  PROVE  /\ P!Cardinality(S) = Cardinality(S)
         /\ P!IsFiniteSet(S) <=> IsFiniteSet(S)
BY Zenon DEF P!Cardinality, Cardinality, P!IsFiniteSet, IsFiniteSet

\* The kinds of section that a report adds up.
KINDS == {"text", "rodata", "data", "bss"}

\* The bytes of a section, if it is loaded, and if it is of a kind.
BytesLoaded(section) == IF section.alloc THEN section.size ELSE 0
BytesOfKind(section, kind) ==
  IF section.alloc /\ P!Kind(section) = kind THEN section.size ELSE 0

\* A section is of one of the four kinds.
LEMMA SectionKinds ==
  ASSUME NEW section \in P!Section
  PROVE  /\ \A kind : BytesOfKind(section, kind) \in Nat
         /\ BytesLoaded(section)
              = BytesOfKind(section, "text") + BytesOfKind(section, "rodata")
                  + BytesOfKind(section, "data") + BytesOfKind(section, "bss")
<1>1. /\ section.alloc \in BOOLEAN /\ section.exec \in BOOLEAN
      /\ section.write \in BOOLEAN /\ section.nobits \in BOOLEAN
      /\ section.size \in Nat
  BY DEF P!Section
<1>2. P!Kind(section) \in KINDS
  BY <1>1 DEF P!Kind, KINDS
<1>3. PICK size \in Nat : size = section.size
  BY <1>1
<1>4. \A kind : BytesOfKind(section, kind) \in {0, size}
  BY <1>3 DEF BytesOfKind
<1>5. CASE ~section.alloc
  BY <1>5 DEF BytesOfKind, BytesLoaded
<1>6. CASE section.alloc
  <2>1. BytesLoaded(section) = size
    BY <1>3, <1>6 DEF BytesLoaded
  <2>2. /\ BytesOfKind(section, "text") = IF P!Kind(section) = "text" THEN size ELSE 0
        /\ BytesOfKind(section, "rodata") = IF P!Kind(section) = "rodata" THEN size ELSE 0
        /\ BytesOfKind(section, "data") = IF P!Kind(section) = "data" THEN size ELSE 0
        /\ BytesOfKind(section, "bss") = IF P!Kind(section) = "bss" THEN size ELSE 0
    BY <1>3, <1>6 DEF BytesOfKind
  <2> QED BY <1>2, <1>3, <1>4, <2>1, <2>2 DEF KINDS
<1> QED BY <1>4, <1>5, <1>6

\* So are the bytes of a member.
LEMMA MemberKinds ==
  ASSUME NEW m, m.sections \in Seq(P!Section)
  PROVE  /\ \A kind : P!Occupies(m, kind) \in Nat
         /\ P!LoadedOf(m) = P!Occupies(m, "text") + P!Occupies(m, "rodata")
                              + P!Occupies(m, "data") + P!Occupies(m, "bss")
<1> DEFINE sections == m.sections
           n == Len(sections)
           of(kind) == [i \in DOMAIN sections |-> BytesOfKind(sections[i], kind)]
           all == [i \in DOMAIN sections |-> BytesLoaded(sections[i])]
<1>1. n \in Nat /\ DOMAIN sections = 1 .. n
  OBVIOUS
<1>2. /\ \A kind : P!Occupies(m, kind) = SumUpTo(of(kind), n)
      /\ P!LoadedOf(m) = SumUpTo(all, n)
  BY ProfileSum, Zenon DEF P!Occupies, P!LoadedOf, BytesOfKind, BytesLoaded
<1>3. ASSUME NEW i \in 1 .. n
      PROVE  /\ \A kind : of(kind)[i] \in Nat
             /\ all[i] = of("text")[i] + of("rodata")[i] + of("data")[i] + of("bss")[i]
  <2>1. sections[i] \in P!Section
    BY <1>1
  <2>2. /\ all[i] = BytesLoaded(sections[i])
        /\ \A kind : of(kind)[i] = BytesOfKind(sections[i], kind)
    BY <1>1
  <2> HIDE DEF sections, of, all
  <2> QED BY <2>1, <2>2, SectionKinds
<1> HIDE DEF sections, n, of, all
<1>4. ASSUME NEW kind PROVE SumUpTo(of(kind), n) \in Nat
  <2>1. \A i \in 1 .. n : of(kind)[i] \in Nat
    BY <1>3
  <2> QED BY <1>1, <2>1, SumNat
<1>5. SumUpTo(all, n) = SumUpTo(of("text"), n) + SumUpTo(of("rodata"), n)
                          + SumUpTo(of("data"), n) + SumUpTo(of("bss"), n)
  <2>1. PICK t, r, d, b : /\ t = of("text") /\ r = of("rodata")
                          /\ d = of("data") /\ b = of("bss")
    OBVIOUS
  <2>2. \A i \in 1 .. n : /\ t[i] \in Nat /\ r[i] \in Nat /\ d[i] \in Nat
                         /\ b[i] \in Nat /\ all[i] = t[i] + r[i] + d[i] + b[i]
    BY <1>3, <2>1
  <2>3. SumUpTo(all, n) = SumUpTo(t, n) + SumUpTo(r, n) + SumUpTo(d, n)
                            + SumUpTo(b, n)
    BY <1>1, <2>2, SumFour, SMTT(60)
  <2> QED BY <2>1, <2>3
<1> QED BY <1>2, <1>4, <1>5

\* And of an archive; its crossings are counted.
LEMMA ArchiveKinds ==
  ASSUME NEW a, P!IsArchive(a)
  PROVE  /\ DOMAIN P!Memory(a) = KINDS
         /\ \A kind \in KINDS : P!Memory(a)[kind] \in Nat
         /\ P!Loaded(a) = P!Memory(a)["text"] + P!Memory(a)["rodata"]
                            + P!Memory(a)["data"] + P!Memory(a)["bss"]
         /\ P!Crossings(a) \in Nat
<1> DEFINE n == Len(a)
           of(kind) == [m \in DOMAIN a |-> P!Occupies(a[m], kind)]
           all == [m \in DOMAIN a |-> P!LoadedOf(a[m])]
           counted == [m \in DOMAIN a |->
                         P!Cardinality({r \in a[m].branches : ~r.same_section})]
<1>1. n \in Nat /\ DOMAIN a = 1 .. n
  BY DEF P!IsArchive
<1>2. /\ DOMAIN P!Memory(a) = KINDS
      /\ \A kind \in KINDS : P!Memory(a)[kind] = SumUpTo(of(kind), n)
      /\ P!Loaded(a) = SumUpTo(all, n)
  <2>1. P!Memory(a) = [kind \in KINDS |-> P!SumUpTo(of(kind), n)]
    BY DEF P!Memory, KINDS
  <2>2. P!Loaded(a) = P!SumUpTo(all, n)
    BY DEF P!Loaded
  <2> HIDE DEF of, all, n
  <2> QED BY <2>1, <2>2, ProfileSum
<1>3. P!Crossings(a) = SumUpTo(counted, n)
  <2>1. P!Crossings(a) = P!SumUpTo(counted, n)
    BY Zenon DEF P!Crossings
  <2> QED BY <2>1, ProfileSum, Zenon
<1>4. ASSUME NEW m \in 1 .. n
      PROVE  /\ \A kind : of(kind)[m] \in Nat
             /\ all[m] = of("text")[m] + of("rodata")[m] + of("data")[m] + of("bss")[m]
             /\ counted[m] \in Nat
  <2>1. a[m].sections \in Seq(P!Section) /\ IsFiniteSet(a[m].branches)
    <3>1. a[m].sections \in Seq(P!Section) /\ P!IsFiniteSet(a[m].branches)
      BY <1>1 DEF P!IsArchive
    <3> QED BY <3>1, ProfileCardinality, Zenon
  <2>2. /\ all[m] = P!LoadedOf(a[m])
        /\ \A kind : of(kind)[m] = P!Occupies(a[m], kind)
        /\ counted[m] = P!Cardinality({r \in a[m].branches : ~r.same_section})
    BY <1>1
  <2>3. IsFiniteSet({r \in a[m].branches : ~r.same_section})
    BY <2>1, FS_Subset
  <2>4. counted[m] \in Nat
    BY <2>2, <2>3, ProfileCardinality, FS_CardinalityType
  <2> HIDE DEF of, all, counted
  <2> QED BY <2>1, <2>2, <2>4, MemberKinds, SMTT(40)
<1> HIDE DEF n, of, all, counted
<1>5. ASSUME NEW kind PROVE SumUpTo(of(kind), n) \in Nat
  <2>1. \A i \in 1 .. n : of(kind)[i] \in Nat
    BY <1>4
  <2> QED BY <1>1, <2>1, SumNat
<1>6. SumUpTo(all, n) = SumUpTo(of("text"), n) + SumUpTo(of("rodata"), n)
                          + SumUpTo(of("data"), n) + SumUpTo(of("bss"), n)
  <2>1. PICK t, r, d, b : /\ t = of("text") /\ r = of("rodata")
                          /\ d = of("data") /\ b = of("bss")
    OBVIOUS
  <2>2. \A i \in 1 .. n : /\ t[i] \in Nat /\ r[i] \in Nat /\ d[i] \in Nat
                         /\ b[i] \in Nat /\ all[i] = t[i] + r[i] + d[i] + b[i]
    BY <1>4, <2>1
  <2>3. SumUpTo(all, n) = SumUpTo(t, n) + SumUpTo(r, n) + SumUpTo(d, n)
                            + SumUpTo(b, n)
    BY <1>1, <2>2, SumFour, SMTT(60)
  <2> QED BY <2>1, <2>3
<1>7. SumUpTo(counted, n) \in Nat
  BY <1>1, <1>4, SumNat
<1>8. "text" \in KINDS /\ "rodata" \in KINDS /\ "data" \in KINDS /\ "bss" \in KINDS
  BY DEF KINDS
<1> QED BY <1>2, <1>3, <1>5, <1>6, <1>7, <1>8

\* What each archive of the profile adds to the sums, by its pinned content.
MemoryOf(kind) ==
  [i \in DOMAIN P!Listed |-> P!Memory(P!Content(P!Listed[i]))[kind]]
CrossingsOf == [i \in DOMAIN P!Listed |-> P!Crossings(P!Content(P!Listed[i]))]

\* How many archives have been read for each of the three.
SymbolsRead == IF at \in {"hash", "symbols"} THEN index - 1
               ELSE IF at \in {"memory", "relocations"} THEN index
               ELSE Len(P!Listed)
MemoryRead == IF at \in {"hash", "symbols", "memory"} THEN index - 1
              ELSE IF at = "relocations" THEN index
              ELSE Len(P!Listed)
CrossingsRead == IF at \in {"hash", "symbols", "memory", "relocations"}
                   THEN index - 1 ELSE Len(P!Listed)

\* An archive is being read; all of them have been.
Reading == {"symbols", "memory", "relocations"}
AllRead == {"admit", "ready", "written", "checked"}

\* The parts of the invariant: the files, the place in the run, what was read.
FilesTyped ==
  /\ profile \in Profiles /\ DOMAIN disk = DOMAIN profile.hash
  /\ \A a \in DOMAIN disk : P!IsArchive(disk[a])

ReaderPlace ==
  /\ at \in {"hash", "excluded", "failed"} \cup Reading \cup AllRead
  /\ index \in 1 .. Len(P!Listed) + Len(P!Excluded) + 1
  /\ at = "hash" => index <= Len(P!Listed) + 1
  /\ at \in Reading => index <= Len(P!Listed)
  /\ at = "excluded" => index <= Len(P!Excluded) + 1
  /\ at \in AllRead => index = Len(P!Excluded) + 1

SeenTyped ==
  /\ seen = [symbols |-> seen.symbols, crossings |-> seen.crossings,
             memory |-> seen.memory]
  /\ DOMAIN seen.memory = KINDS /\ \A kind \in KINDS : seen.memory[kind] \in Nat
  /\ seen.crossings \in Nat

SymbolsOfRead ==
  /\ DOMAIN seen.symbols \subseteq P!ARCHIVES
  /\ at # "failed" => DOMAIN seen.symbols = {P!Listed[i] : i \in 1 .. SymbolsRead}

\* While no file is replaced.
AsPinned ==
  /\ \A a \in DOMAIN seen.symbols :
       /\ seen.symbols[a].defined = P!Defined(P!Content(a))
       /\ seen.symbols[a].undefined = P!Undefined(P!Content(a))
  /\ \A kind \in KINDS : seen.memory[kind] = SumUpTo(MemoryOf(kind), MemoryRead)
  /\ seen.crossings = SumUpTo(CrossingsOf, CrossingsRead)
  /\ at \in Reading => P!Pinned(P!Listed[index])

\* What the run has found when it gets this far.
Confirmed ==
  /\ at \in AllRead \cup {"excluded"} => P!ContractKept
  /\ at \in {"ready", "written", "checked"} => P!Admitted
  /\ at = "checked" => stored = P!Report

\* The report of a run in which no file was replaced.
StoredPinned ==
  /\ {r.name : r \in stored.required} = P!AllUndefined \ P!AllDefined
  /\ \A r \in stored.required : r.owner # NO_OWNER
  /\ \A kind \in KINDS :
       stored.memory[kind] = SumUpTo(MemoryOf(kind), Len(P!Listed))
  /\ \A c \in profile.contract :
       c.archive \in P!ARCHIVES /\ c.name \in P!Defined(P!Content(c.archive))
  /\ SumUpTo(CrossingsOf, Len(P!Listed)) = 0

ProfilerInv ==
  /\ FilesTyped /\ ReaderPlace /\ SeenTyped /\ SymbolsOfRead /\ Confirmed
  /\ quiet /\ at # "failed" => AsPinned
  /\ faithful => StoredPinned

\* A profile lists archives that it pins.
LEMMA ListedTyped ==
  ASSUME profile \in Profiles
  PROVE  /\ Len(P!Listed) \in Nat /\ DOMAIN P!Listed = 1 .. Len(P!Listed)
         /\ Len(P!Excluded) \in Nat
         /\ \A i \in 1 .. Len(P!Listed) : P!Listed[i] \in DOMAIN profile.hash
         /\ \A a \in DOMAIN profile.hash : P!IsArchive(P!Content(a))
<1>1. /\ profile.archives \in Seq(DOMAIN profile.hash)
      /\ profile.excluded \in Seq(DOMAIN profile.hash)
      /\ \A a \in DOMAIN profile.hash : P!IsArchive(profile.hash[a])
  BY ProfileAssumption
<1>2. P!Listed = profile.archives /\ P!Excluded = profile.excluded
      /\ \A a : P!Content(a) = profile.hash[a]
  BY Zenon DEF P!Listed, P!Excluded, P!Content
<1>3. \A H : \A s \in Seq(H) : Len(s) \in Nat /\ DOMAIN s = 1 .. Len(s)
                              /\ \A i \in 1 .. Len(s) : s[i] \in H
  OBVIOUS
<1> QED BY <1>1, <1>2, <1>3

\* What depends on the profile alone stays.
LEMMA ProfileStays ==
  ASSUME profile' = profile
  PROVE  /\ P!Listed' = P!Listed /\ P!Excluded' = P!Excluded
         /\ P!ARCHIVES' = P!ARCHIVES
         /\ P!AllDefined' = P!AllDefined /\ P!AllUndefined' = P!AllUndefined
         /\ CrossingsOf' = CrossingsOf
         /\ \A kind : MemoryOf(kind)' = MemoryOf(kind)
         /\ \A a : P!Content(a)' = P!Content(a)
<1>1. /\ P!Listed' = P!Listed /\ P!Excluded' = P!Excluded
      /\ \A a : P!Content(a)' = P!Content(a)
  BY Zenon DEF P!Listed, P!Excluded, P!Content
<1>2. P!ARCHIVES' = P!ARCHIVES
  BY Zenon DEF P!Listed, P!ARCHIVES
<1>3. P!AllDefined' = P!AllDefined
  BY <1>2 DEF P!Content, P!AllDefined
<1>4. P!AllUndefined' = P!AllUndefined
  BY <1>2 DEF P!Content, P!AllUndefined
<1>5. CrossingsOf' = CrossingsOf
  BY Zenon DEF P!Listed, P!Content, CrossingsOf
<1>6. ASSUME NEW kind PROVE MemoryOf(kind)' = MemoryOf(kind)
  BY Zenon DEF P!Listed, P!Content, MemoryOf
<1> QED BY <1>1, <1>2, <1>3, <1>4, <1>5, <1>6

\* A report in the file stays what it was, while the profile does.
LEMMA StoredStays ==
  ASSUME profile' = profile, stored' = stored, StoredPinned
  PROVE  StoredPinned'
BY ProfileStays DEF StoredPinned

\* What a run is about, and what it has read, while it only moves on.
LEMMA FilesStay ==
  ASSUME FilesTyped, profile' = profile, disk' = disk
  PROVE  FilesTyped'
BY DEF FilesTyped

\* What was read is a record of three parts.
LEMMA SeenStays ==
  ASSUME seen' = seen, SeenTyped
  PROVE  SeenTyped'
BY DEF SeenTyped

\* What is found of it depends on it and on the profile alone.
LEMMA FoundStays ==
  ASSUME profile' = profile, seen' = seen
  PROVE  /\ P!ContractKept' = P!ContractKept
         /\ P!Admitted' = P!Admitted /\ P!Report' = P!Report
         /\ P!Required' = P!Required
<1>1. P!ContractKept' = P!ContractKept
  BY Zenon DEF P!ContractKept
<1>2. P!Required' = P!Required
  BY ZenonT(60) DEF P!Required, P!Owner, P!AllOf
<1>3. P!Admitted' = P!Admitted
  BY <1>2, Zenon DEF P!Admitted
<1>4. P!Report' = P!Report
  BY <1>2, Zenon DEF P!Report
<1>5. QED
  BY <1>1, <1>2, <1>3, <1>4, Zenon

\* The steps that read nothing of the contents: what was read stays.
LEMMA MovesOn ==
  ASSUME ProfilerInv, profile' = profile, disk' = disk, seen' = seen,
         stored' = stored, quiet' = quiet, faithful' = faithful,
         ReaderPlace', Confirmed', at # "failed",
         at' # "failed" => /\ SymbolsRead' = SymbolsRead
                           /\ MemoryRead' = MemoryRead
                           /\ CrossingsRead' = CrossingsRead
                           /\ at' \in Reading => P!Pinned(P!Listed[index])'
  PROVE  ProfilerInv'
<1>1. FilesTyped' /\ SeenTyped'
  BY FilesStay, SeenStays DEF ProfilerInv
<1>2. SymbolsOfRead'
  BY ProfileStays DEF ProfilerInv, SymbolsOfRead
<1>3. ASSUME quiet', at' # "failed" PROVE AsPinned'
  <2>1. AsPinned
    BY <1>3 DEF ProfilerInv
  <2>2. \A a : /\ P!Defined(P!Content(a))' = P!Defined(P!Content(a))
               /\ P!Undefined(P!Content(a))' = P!Undefined(P!Content(a))
    BY Zenon DEF P!Content
  <2>3. \A a \in DOMAIN seen'.symbols :
          /\ seen'.symbols[a].defined = P!Defined(P!Content(a))'
          /\ seen'.symbols[a].undefined = P!Undefined(P!Content(a))'
    BY <2>1, <2>2, Zenon DEF AsPinned
  <2>4. \A kind \in KINDS :
          seen'.memory[kind] = SumUpTo(MemoryOf(kind)', MemoryRead')
    BY <1>3, <2>1, ProfileStays DEF AsPinned
  <2>5. seen'.crossings = SumUpTo(CrossingsOf', CrossingsRead')
    BY <1>3, <2>1, ProfileStays DEF AsPinned
  <2> QED BY <1>3, <2>3, <2>4, <2>5 DEF AsPinned
<1>4. faithful' => StoredPinned'
  BY StoredStays DEF ProfilerInv
<1> QED BY <1>1, <1>2, <1>3, <1>4 DEF ProfilerInv

\* The hash of an archive is the pinned one, or the run ends.
LEMMA ReadHashMoves == ProfilerInv /\ P!ReadHash => ProfilerInv'
<1> SUFFICES ASSUME ProfilerInv, P!ReadHash PROVE ProfilerInv'
  OBVIOUS
<1>1. /\ at = "hash" /\ index <= Len(P!Listed) /\ index' = index
      /\ at' = IF P!Pinned(P!Listed[index]) THEN "symbols" ELSE "failed"
      /\ profile' = profile /\ disk' = disk /\ seen' = seen /\ stored' = stored
      /\ quiet' = quiet /\ faithful' = faithful
  BY DEF P!ReadHash, P!Keep
<1>2. P!Listed' = P!Listed /\ P!Excluded' = P!Excluded
  BY <1>1, ProfileStays
<1>3. ReaderPlace'
  BY <1>1, <1>2 DEF ProfilerInv, ReaderPlace, Reading, AllRead
<1>4. Confirmed'
  BY <1>1 DEF Confirmed, AllRead
<1>5. at' # "failed" => P!Pinned(P!Listed[index])'
  BY <1>1, <1>2 DEF P!Pinned
<1>6. at' # "failed" => /\ SymbolsRead' = SymbolsRead /\ MemoryRead' = MemoryRead
                        /\ CrossingsRead' = CrossingsRead
  BY <1>1 DEF SymbolsRead, MemoryRead, CrossingsRead
<1> QED BY <1>1, <1>3, <1>4, <1>5, <1>6, MovesOn

\* After the last archive, the contract.
LEMMA ContractMoves == ProfilerInv /\ P!Contract => ProfilerInv'
<1> SUFFICES ASSUME ProfilerInv, P!Contract PROVE ProfilerInv'
  OBVIOUS
<1>1. /\ at = "hash" /\ index > Len(P!Listed) /\ index' = 1
      /\ at' = IF P!ContractKept THEN "excluded" ELSE "failed"
      /\ profile' = profile /\ disk' = disk /\ seen' = seen /\ stored' = stored
      /\ quiet' = quiet /\ faithful' = faithful
  BY DEF P!Contract, P!Keep
<1>2. P!Listed' = P!Listed /\ P!Excluded' = P!Excluded
  BY <1>1, ProfileStays
<1>3. /\ Len(P!Listed) \in Nat /\ Len(P!Excluded) \in Nat
      /\ index = Len(P!Listed) + 1
  BY <1>1, ListedTyped DEF ProfilerInv, FilesTyped, ReaderPlace
<1>4. ReaderPlace'
  BY <1>1, <1>2, <1>3 DEF ReaderPlace, Reading, AllRead
<1>5. Confirmed'
  BY <1>1, FoundStays DEF Confirmed, AllRead
<1>6. at' # "failed" => /\ SymbolsRead' = SymbolsRead /\ MemoryRead' = MemoryRead
                        /\ CrossingsRead' = CrossingsRead
  BY <1>1, <1>2, <1>3 DEF SymbolsRead, MemoryRead, CrossingsRead
<1>7. at' \notin Reading
  BY <1>1 DEF Reading
<1> QED BY <1>1, <1>4, <1>5, <1>6, <1>7, MovesOn

\* The hashes of the siblings.
LEMMA ReadExcludedMoves == ProfilerInv /\ P!ReadExcluded => ProfilerInv'
<1> SUFFICES ASSUME ProfilerInv, P!ReadExcluded PROVE ProfilerInv'
  OBVIOUS
<1>1. /\ at = "excluded" /\ index <= Len(P!Excluded)
      /\ \/ at' = at /\ index' = index + 1
         \/ at' = "failed" /\ index' = index
      /\ profile' = profile /\ disk' = disk /\ seen' = seen /\ stored' = stored
      /\ quiet' = quiet /\ faithful' = faithful
  BY DEF P!ReadExcluded, P!Keep
<1>2. P!Listed' = P!Listed /\ P!Excluded' = P!Excluded
  BY <1>1, ProfileStays
<1>3. /\ Len(P!Listed) \in Nat /\ Len(P!Excluded) \in Nat
      /\ index \in 1 .. Len(P!Excluded)
  BY <1>1, ListedTyped DEF ProfilerInv, FilesTyped, ReaderPlace
<1>4. ReaderPlace'
  BY <1>1, <1>2, <1>3 DEF ReaderPlace, Reading, AllRead
<1>5. Confirmed'
  <2>1. P!ContractKept
    BY <1>1 DEF ProfilerInv, Confirmed
  <2> QED BY <1>1, <2>1, FoundStays DEF Confirmed, AllRead
<1>6. at' # "failed" => /\ SymbolsRead' = SymbolsRead /\ MemoryRead' = MemoryRead
                        /\ CrossingsRead' = CrossingsRead
  BY <1>1, <1>2 DEF SymbolsRead, MemoryRead, CrossingsRead
<1>7. at' \notin Reading
  BY <1>1 DEF Reading
<1> QED BY <1>1, <1>4, <1>5, <1>6, <1>7, MovesOn

\* The three steps after the siblings.
LEMMA LastMoves ==
  ASSUME ProfilerInv, P!ReadAll \/ P!Admit \/ P!Compare
  PROVE  ProfilerInv'
<1>1. /\ at \in {"excluded", "admit", "ready"}
      /\ at' \in {"admit", "ready", "checked", "failed"} /\ index' = index
      /\ at = "excluded" => index > Len(P!Excluded)
      /\ at' = "ready" => P!Admitted
      /\ at' = "checked" => at = "ready" /\ stored = P!Report
      /\ profile' = profile /\ disk' = disk /\ seen' = seen /\ stored' = stored
      /\ quiet' = quiet /\ faithful' = faithful
  BY DEF P!ReadAll, P!Admit, P!Compare, P!Matches, P!Keep
<1>2. P!Listed' = P!Listed /\ P!Excluded' = P!Excluded
  BY <1>1, ProfileStays
<1>3. /\ Len(P!Listed) \in Nat /\ Len(P!Excluded) \in Nat
      /\ index = Len(P!Excluded) + 1
  BY <1>1, ListedTyped DEF ProfilerInv, FilesTyped, ReaderPlace, AllRead
<1>4. ReaderPlace'
  BY <1>1, <1>2, <1>3 DEF ReaderPlace, Reading, AllRead
<1>5. Confirmed'
  <2>1. P!ContractKept /\ (at = "ready" => P!Admitted)
    BY <1>1 DEF ProfilerInv, Confirmed, AllRead
  <2> QED BY <1>1, <2>1, FoundStays DEF Confirmed
<1>6. at' # "failed" => /\ SymbolsRead' = SymbolsRead /\ MemoryRead' = MemoryRead
                        /\ CrossingsRead' = CrossingsRead
  BY <1>1, <1>2 DEF SymbolsRead, MemoryRead, CrossingsRead
<1>7. at' \notin Reading
  BY <1>1 DEF Reading
<1>8. at # "failed"
  BY <1>1
<1> QED BY <1>1, <1>4, <1>5, <1>6, <1>7, <1>8, MovesOn

\* The archive that is read, and the sums with it.
LEMMA ArchiveHere ==
  ASSUME ProfilerInv, at \in Reading
  PROVE  /\ index \in 1 .. Len(P!Listed) /\ P!Listed[index] \in P!ARCHIVES
         /\ P!IsArchive(disk[P!Listed[index]])
         /\ quiet => disk[P!Listed[index]] = P!Content(P!Listed[index])
         /\ \A kind : SumUpTo(MemoryOf(kind), index)
                        = SumUpTo(MemoryOf(kind), index - 1)
                            + P!Memory(P!Content(P!Listed[index]))[kind]
         /\ SumUpTo(CrossingsOf, index)
              = SumUpTo(CrossingsOf, index - 1)
                  + P!Crossings(P!Content(P!Listed[index]))
<1>1. /\ Len(P!Listed) \in Nat /\ DOMAIN P!Listed = 1 .. Len(P!Listed)
      /\ \A i \in 1 .. Len(P!Listed) : P!Listed[i] \in DOMAIN profile.hash
  BY ListedTyped DEF ProfilerInv, FilesTyped
<1>2. index \in 1 .. Len(P!Listed)
  BY <1>1, ListedTyped DEF ProfilerInv, FilesTyped, ReaderPlace
<1>3. P!Listed[index] \in P!ARCHIVES /\ P!IsArchive(disk[P!Listed[index]])
  BY <1>1, <1>2 DEF ProfilerInv, FilesTyped, P!ARCHIVES
<1>4. quiet => disk[P!Listed[index]] = P!Content(P!Listed[index])
  <2>1. at # "failed"
    BY DEF Reading
  <2> QED BY <2>1 DEF ProfilerInv, AsPinned, P!Pinned, P!Content
<1>5. PICK n \in Nat : n = index - 1 /\ index = n + 1
  BY <1>2
<1>6. ASSUME NEW f PROVE SumUpTo(f, index) = SumUpTo(f, index - 1) + f[index]
  BY <1>5, SumSteps
<1>7. /\ \A kind : MemoryOf(kind)[index] = P!Memory(P!Content(P!Listed[index]))[kind]
      /\ CrossingsOf[index] = P!Crossings(P!Content(P!Listed[index]))
  BY <1>1, <1>2 DEF MemoryOf, CrossingsOf
<1> QED BY <1>2, <1>3, <1>4, <1>6, <1>7

\* What one of the reads leaves as it was.
LEMMA ReadStays ==
  ASSUME ProfilerInv, profile' = profile, disk' = disk, stored' = stored,
         faithful' = faithful, at \in Reading, at' \in Reading \cup {"hash"}
  PROVE  FilesTyped' /\ Confirmed' /\ (faithful' => StoredPinned')
<1>1. FilesTyped' /\ (faithful' => StoredPinned')
  BY FilesStay, StoredStays DEF ProfilerInv
<1>2. Confirmed'
  BY DEF Confirmed, Reading, AllRead
<1> QED BY <1>1, <1>2

\* The symbols of a pinned content depend on the profile alone.
LEMMA PinnedSymbolsStay ==
  ASSUME profile' = profile
  PROVE  \A a : /\ P!Defined(P!Content(a))' = P!Defined(P!Content(a))
                /\ P!Undefined(P!Content(a))' = P!Undefined(P!Content(a))
BY Zenon DEF P!Content

\* The symbols of one more archive.
LEMMA ReadSymbolsKeeps == ProfilerInv /\ P!ReadSymbols => ProfilerInv'
<1> SUFFICES ASSUME ProfilerInv, P!ReadSymbols PROVE ProfilerInv'
  OBVIOUS
<1>1. PICK a0 : a0 = P!Listed[index]
  OBVIOUS
<1>2. PICK new : new = [defined |-> P!Defined(disk[a0]),
                        undefined |-> P!Undefined(disk[a0])]
  OBVIOUS
<1>3. /\ at = "symbols" /\ at' = "memory" /\ index' = index
      /\ seen' = [seen EXCEPT !.symbols =
                    [b \in DOMAIN @ \cup {a0} |-> IF b = a0 THEN new ELSE @[b]]]
      /\ profile' = profile /\ disk' = disk /\ stored' = stored
      /\ quiet' = quiet /\ faithful' = faithful
  BY <1>1, <1>2 DEF P!ReadSymbols, P!Keep
<1>4. /\ seen' = [symbols |-> seen'.symbols, crossings |-> seen'.crossings,
                  memory |-> seen'.memory]
      /\ seen'.symbols = [b \in DOMAIN seen.symbols \cup {a0} |->
                            IF b = a0 THEN new ELSE seen.symbols[b]]
      /\ seen'.memory = seen.memory /\ seen'.crossings = seen.crossings
  BY <1>3 DEF ProfilerInv, SeenTyped
<1>5. at \in Reading /\ at' \in Reading
  BY <1>3 DEF Reading
<1>6. index \in 1 .. Len(P!Listed) /\ a0 \in P!ARCHIVES
      /\ (quiet => disk[a0] = P!Content(a0))
  BY <1>1, <1>5, ArchiveHere
<1>7. ReaderPlace'
  BY <1>3, <1>5, ProfileStays DEF ProfilerInv, ReaderPlace, Reading, AllRead
<1>8. SeenTyped'
  BY <1>4 DEF ProfilerInv, SeenTyped
<1>9. SymbolsOfRead'
  <2>1. DOMAIN seen'.symbols = DOMAIN seen.symbols \cup {a0}
    BY <1>4
  <2>2. DOMAIN seen.symbols = {P!Listed[i] : i \in 1 .. index - 1}
    BY <1>3 DEF ProfilerInv, SymbolsOfRead, SymbolsRead
  <2>3. {P!Listed[i] : i \in 1 .. index - 1} \cup {a0} = {P!Listed[i] : i \in 1 .. index}
    <3>1. 1 .. index = (1 .. index - 1) \cup {index}
      BY <1>6
    <3> QED BY <1>1, <3>1
  <2>4. SymbolsRead' = index
    BY <1>3 DEF SymbolsRead
  <2>5. P!Listed' = P!Listed /\ P!ARCHIVES' = P!ARCHIVES
    BY <1>3, ProfileStays
  <2>6. DOMAIN seen'.symbols \subseteq P!ARCHIVES
    BY <1>6, <2>1, Zenon DEF ProfilerInv, SymbolsOfRead
  <2>7. DOMAIN seen'.symbols = {P!Listed[i] : i \in 1 .. index}
    BY <2>1, <2>2, <2>3, Zenon
  <2> QED BY <2>4, <2>5, <2>6, <2>7, Zenon DEF SymbolsOfRead
<1>10. ASSUME quiet' PROVE AsPinned'
  <2>1. AsPinned /\ disk[a0] = P!Content(a0)
    BY <1>3, <1>6, <1>10 DEF ProfilerInv
  <2>2. ASSUME NEW b \in DOMAIN seen'.symbols
        PROVE  /\ seen'.symbols[b].defined = P!Defined(P!Content(b))
               /\ seen'.symbols[b].undefined = P!Undefined(P!Content(b))
    <3>1. CASE b = a0
      <4>1. seen'.symbols[b] = new
        BY <1>4, <3>1
      <4> QED BY <1>2, <2>1, <3>1, <4>1
    <3>2. CASE b # a0
      <4>1. b \in DOMAIN seen.symbols /\ seen'.symbols[b] = seen.symbols[b]
        BY <1>4, <2>2, <3>2
      <4> QED BY <2>1, <4>1 DEF AsPinned
    <3> QED BY <3>1, <3>2
  <2>3. MemoryRead' = MemoryRead /\ CrossingsRead' = CrossingsRead
    BY <1>3 DEF MemoryRead, CrossingsRead
  <2>4. P!Pinned(P!Listed[index])'
    BY <1>1, <1>3, <2>1, ProfileStays DEF P!Pinned, P!Content
  <2>5. /\ \A kind \in KINDS : seen'.memory[kind] = SumUpTo(MemoryOf(kind)', MemoryRead')
        /\ seen'.crossings = SumUpTo(CrossingsOf', CrossingsRead')
    BY <1>3, <1>4, <2>1, <2>3, ProfileStays DEF AsPinned
  <2>6. \A b \in DOMAIN seen'.symbols :
          /\ seen'.symbols[b].defined = P!Defined(P!Content(b))'
          /\ seen'.symbols[b].undefined = P!Undefined(P!Content(b))'
    BY <1>3, <2>2, PinnedSymbolsStay
  <2> QED BY <2>4, <2>5, <2>6 DEF AsPinned
<1> QED BY <1>3, <1>5, <1>7, <1>8, <1>9, <1>10, ReadStays DEF ProfilerInv

\* The bytes of one more archive.
LEMMA ReadMemoryKeeps == ProfilerInv /\ P!ReadMemory => ProfilerInv'
<1> SUFFICES ASSUME ProfilerInv, P!ReadMemory PROVE ProfilerInv'
  OBVIOUS
<1>1. PICK a0 : a0 = P!Listed[index]
  OBVIOUS
<1>2. /\ at = "memory" /\ at' = "relocations" /\ index' = index
      /\ seen' = [seen EXCEPT !.memory = P!AddMemory(@, disk[a0])]
      /\ profile' = profile /\ disk' = disk /\ stored' = stored
      /\ quiet' = quiet /\ faithful' = faithful
  BY <1>1 DEF P!ReadMemory, P!Keep
<1>3. /\ seen' = [symbols |-> seen'.symbols, crossings |-> seen'.crossings,
                  memory |-> seen'.memory]
      /\ seen'.memory = P!AddMemory(seen.memory, disk[a0])
      /\ seen'.symbols = seen.symbols /\ seen'.crossings = seen.crossings
  BY <1>2 DEF ProfilerInv, SeenTyped
<1>4. at \in Reading /\ at' \in Reading
  BY <1>2 DEF Reading
<1>5. /\ index \in 1 .. Len(P!Listed) /\ P!IsArchive(disk[a0])
      /\ (quiet => disk[a0] = P!Content(a0))
  BY <1>1, <1>4, ArchiveHere
<1>6. /\ DOMAIN seen'.memory = KINDS
      /\ \A kind \in KINDS :
           seen'.memory[kind] = seen.memory[kind] + P!Memory(disk[a0])[kind]
  BY <1>3 DEF P!AddMemory, ProfilerInv, SeenTyped
<1>7. ReaderPlace'
  BY <1>2, <1>4, ProfileStays DEF ProfilerInv, ReaderPlace, Reading, AllRead
<1>8. SeenTyped'
  <2>1. \A kind \in KINDS : seen'.memory[kind] \in Nat
    BY <1>5, <1>6, ArchiveKinds DEF ProfilerInv, SeenTyped
  <2> QED BY <1>3, <1>6, <2>1 DEF ProfilerInv, SeenTyped
<1>9. SymbolsOfRead'
  <2>1. SymbolsRead' = SymbolsRead
    BY <1>2, <1>5 DEF SymbolsRead
  <2> QED BY <1>2, <1>3, <2>1, ProfileStays DEF ProfilerInv, SymbolsOfRead
<1>10. ASSUME quiet' PROVE AsPinned'
  <2>1. AsPinned /\ disk[a0] = P!Content(a0)
    BY <1>2, <1>5, <1>10 DEF ProfilerInv
  <2>2. MemoryRead = index - 1 /\ MemoryRead' = index /\ CrossingsRead' = CrossingsRead
    BY <1>2 DEF MemoryRead, CrossingsRead
  <2>3. \A kind \in KINDS : seen'.memory[kind] = SumUpTo(MemoryOf(kind), index)
    BY <1>1, <1>4, <1>6, <2>1, <2>2, ArchiveHere DEF AsPinned
  <2>4. P!Pinned(P!Listed[index])'
    BY <1>1, <1>2, <2>1, ProfileStays DEF P!Pinned, P!Content
  <2>5. /\ \A kind \in KINDS : seen'.memory[kind] = SumUpTo(MemoryOf(kind)', MemoryRead')
        /\ seen'.crossings = SumUpTo(CrossingsOf', CrossingsRead')
    BY <1>2, <1>3, <2>1, <2>2, <2>3, ProfileStays DEF AsPinned
  <2>6. \A b \in DOMAIN seen'.symbols :
          /\ seen'.symbols[b].defined = P!Defined(P!Content(b))'
          /\ seen'.symbols[b].undefined = P!Undefined(P!Content(b))'
    BY <1>2, <1>3, <2>1, PinnedSymbolsStay DEF AsPinned
  <2> QED BY <2>4, <2>5, <2>6 DEF AsPinned
<1> QED BY <1>2, <1>4, <1>7, <1>8, <1>9, <1>10, ReadStays DEF ProfilerInv

\* The relocations of one more archive.
LEMMA ReadRelocationsKeeps == ProfilerInv /\ P!ReadRelocations => ProfilerInv'
<1> SUFFICES ASSUME ProfilerInv, P!ReadRelocations PROVE ProfilerInv'
  OBVIOUS
<1>1. PICK a0 : a0 = P!Listed[index]
  OBVIOUS
<1>2. /\ at = "relocations" /\ at' = "hash" /\ index' = index + 1
      /\ seen' = [seen EXCEPT !.crossings = @ + P!Crossings(disk[a0])]
      /\ profile' = profile /\ disk' = disk /\ stored' = stored
      /\ quiet' = quiet /\ faithful' = faithful
  BY <1>1 DEF P!ReadRelocations, P!Keep
<1>3. /\ seen' = [symbols |-> seen'.symbols, crossings |-> seen'.crossings,
                  memory |-> seen'.memory]
      /\ seen'.crossings = seen.crossings + P!Crossings(disk[a0])
      /\ seen'.symbols = seen.symbols /\ seen'.memory = seen.memory
  BY <1>2 DEF ProfilerInv, SeenTyped
<1>4. at \in Reading
  BY <1>2 DEF Reading
<1>5. /\ index \in 1 .. Len(P!Listed) /\ P!IsArchive(disk[a0])
      /\ (quiet => disk[a0] = P!Content(a0))
  BY <1>1, <1>4, ArchiveHere
<1>6. Len(P!Listed) \in Nat /\ Len(P!Excluded) \in Nat
  BY ListedTyped DEF ProfilerInv, FilesTyped
<1>7. ReaderPlace'
  BY <1>2, <1>5, <1>6, ProfileStays DEF ReaderPlace, Reading, AllRead
<1>8. SeenTyped'
  <2>1. seen'.crossings \in Nat
    BY <1>3, <1>5, ArchiveKinds DEF ProfilerInv, SeenTyped
  <2> QED BY <1>3, <2>1 DEF ProfilerInv, SeenTyped
<1>9. SymbolsOfRead'
  <2>1. SymbolsRead' = SymbolsRead
    BY <1>2, <1>5 DEF SymbolsRead
  <2> QED BY <1>2, <1>3, <2>1, ProfileStays DEF ProfilerInv, SymbolsOfRead
<1>10. ASSUME quiet' PROVE AsPinned'
  <2>1. AsPinned /\ disk[a0] = P!Content(a0)
    BY <1>2, <1>5, <1>10 DEF ProfilerInv
  <2>2. /\ CrossingsRead = index - 1 /\ CrossingsRead' = index
        /\ MemoryRead' = MemoryRead
    BY <1>2, <1>5 DEF MemoryRead, CrossingsRead
  <2>3. seen'.crossings = SumUpTo(CrossingsOf, index)
    BY <1>1, <1>3, <1>4, <2>1, <2>2, ArchiveHere DEF AsPinned
  <2>4. /\ \A kind \in KINDS : seen'.memory[kind] = SumUpTo(MemoryOf(kind)', MemoryRead')
        /\ seen'.crossings = SumUpTo(CrossingsOf', CrossingsRead')
    BY <1>2, <1>3, <2>1, <2>2, <2>3, ProfileStays DEF AsPinned
  <2>5. \A b \in DOMAIN seen'.symbols :
          /\ seen'.symbols[b].defined = P!Defined(P!Content(b))'
          /\ seen'.symbols[b].undefined = P!Undefined(P!Content(b))'
    BY <1>2, <1>3, <2>1, PinnedSymbolsStay DEF AsPinned
  <2>6. at' \notin Reading
    BY <1>2 DEF Reading
  <2> QED BY <2>4, <2>5, <2>6 DEF AsPinned
<1>11. at' \in Reading \cup {"hash"}
  BY <1>2
<1> QED BY <1>2, <1>4, <1>7, <1>8, <1>9, <1>10, <1>11, ReadStays DEF ProfilerInv

\* A run begins, and has read nothing.
ProfileBegun == /\ at = "hash" /\ index = 1 /\ seen = P!Nothing
                /\ FilesTyped /\ (faithful => StoredPinned)

\* What was not read yet adds up to nothing.
LEMMA BegunProfile == ProfileBegun => ProfilerInv
<1> SUFFICES ASSUME ProfileBegun PROVE ProfilerInv
  OBVIOUS
<1>1. /\ at = "hash" /\ index = 1
      /\ seen = [symbols |-> [a \in {} |-> {}], crossings |-> 0,
                 memory |-> [k \in KINDS |-> 0]]
  BY DEF ProfileBegun, P!Nothing, KINDS
<1>2. Len(P!Listed) \in Nat /\ Len(P!Excluded) \in Nat
  BY ListedTyped DEF ProfileBegun, FilesTyped
<1>3. ReaderPlace
  BY <1>1, <1>2 DEF ReaderPlace, Reading, AllRead
<1>4. SeenTyped
  BY <1>1 DEF SeenTyped
<1>5. SymbolsRead = 0 /\ MemoryRead = 0 /\ CrossingsRead = 0
  BY <1>1 DEF SymbolsRead, MemoryRead, CrossingsRead
<1>6. SymbolsOfRead
  BY <1>1, <1>5 DEF SymbolsOfRead
<1>7. Confirmed
  BY <1>1 DEF Confirmed, AllRead
<1>8. AsPinned
  <2>1. \A f : SumUpTo(f, 0) = 0
    BY SumSteps
  <2>2. at \notin Reading
    BY <1>1 DEF Reading
  <2> QED BY <1>1, <1>5, <2>1, <2>2 DEF AsPinned
<1> QED BY <1>3, <1>4, <1>6, <1>7, <1>8 DEF ProfileBegun, ProfilerInv

\* The first run.
LEMMA ProfilerBegins == P!Init => ProfilerInv
<1> SUFFICES ASSUME P!Init PROVE ProfilerInv
  OBVIOUS
<1>1. /\ profile \in Profiles /\ disk \in profile.disks
      /\ at = "hash" /\ index = 1 /\ seen = P!Nothing /\ faithful = FALSE
  BY DEF P!Init
<1>2. FilesTyped
  BY <1>1, ProfileAssumption DEF FilesTyped
<1> QED BY <1>1, <1>2, BegunProfile DEF ProfileBegun

\* And every later one.
LEMMA ProfileAgain == ProfilerInv /\ P!Again => ProfilerInv'
<1> SUFFICES ASSUME ProfilerInv, P!Again PROVE ProfilerInv'
  OBVIOUS
<1>1. /\ at' = "hash" /\ index' = 1 /\ seen' = P!Nothing
      /\ profile' = profile /\ disk' = disk /\ stored' = stored
      /\ faithful' = faithful
  BY DEF P!Again
<1>2. FilesTyped' /\ (faithful' => StoredPinned')
  BY <1>1, FilesStay, StoredStays DEF ProfilerInv
<1>3. P!Nothing' = P!Nothing
  BY DEF P!Nothing
<1>4. ProfileBegun'
  BY <1>1, <1>2, <1>3 DEF ProfileBegun
<1> QED BY <1>4, BegunProfile, PTL

\* A file that is replaced ends the time in which none was.
LEMMA ReplaceKeeps ==
  ASSUME ProfilerInv, NEW a \in DOMAIN disk, NEW content \in Contents,
         P!Replace(a, content)
  PROVE  ProfilerInv'
<1>1. /\ disk' = [disk EXCEPT ![a] = content] /\ quiet' = FALSE
      /\ profile' = profile /\ at' = at /\ index' = index /\ seen' = seen
      /\ stored' = stored /\ faithful' = faithful
  BY DEF P!Replace
<1>2. FilesTyped'
  BY <1>1, ProfileAssumption DEF ProfilerInv, FilesTyped
<1>3. ReaderPlace' /\ SeenTyped' /\ SymbolsOfRead'
  <2>1. SymbolsRead' = SymbolsRead
    BY <1>1, ProfileStays DEF SymbolsRead
  <2> QED BY <1>1, <2>1, ProfileStays DEF ProfilerInv, ReaderPlace, SeenTyped,
                                          SymbolsOfRead
<1>4. Confirmed'
  BY <1>1, FoundStays DEF ProfilerInv, Confirmed
<1>5. faithful' => StoredPinned'
  BY <1>1, StoredStays DEF ProfilerInv
<1> QED BY <1>1, <1>2, <1>3, <1>4, <1>5 DEF ProfilerInv

\* The names that are required are those that no archive defines.
LEMMA RequiredNames ==
  {r.name : r \in P!Required} = P!AllOf("undefined") \ P!AllOf("defined")
<1> DEFINE S == P!AllOf("undefined") \ P!AllOf("defined")
           row(s) == [name |-> s, owner |-> P!Owner(s)]
<1>1. P!Required = {row(s) : s \in S}
  BY DEF P!Required
<1>2. \A s : row(s).name = s
  OBVIOUS
<1> HIDE DEF S, row
<1>3. {r.name : r \in P!Required} = S
  BY <1>1, <1>2
<1> QED BY <1>3 DEF S

\* When all was read while no file was replaced, it is what is pinned.
LEMMA AllPinned ==
  ASSUME ProfilerInv, AsPinned, at \in AllRead
  PROVE  /\ DOMAIN seen.symbols = P!ARCHIVES
         /\ P!AllOf("undefined") = P!AllUndefined
         /\ P!AllOf("defined") = P!AllDefined
<1>1. at # "failed" /\ SymbolsRead = Len(P!Listed)
  BY DEF AllRead, SymbolsRead
<1>2. DOMAIN P!Listed = 1 .. Len(P!Listed)
  BY ListedTyped DEF ProfilerInv, FilesTyped
<1>3. DOMAIN seen.symbols = P!ARCHIVES
  BY <1>1, <1>2 DEF ProfilerInv, SymbolsOfRead, P!ARCHIVES
<1>4. \A b \in P!ARCHIVES : /\ seen.symbols[b].defined = P!Defined(P!Content(b))
                            /\ seen.symbols[b].undefined = P!Undefined(P!Content(b))
  BY <1>3 DEF AsPinned
<1>5. P!AllOf("undefined") = P!AllUndefined
  BY <1>3, <1>4 DEF P!AllOf, P!AllUndefined
<1>6. P!AllOf("defined") = P!AllDefined
  BY <1>3, <1>4 DEF P!AllOf, P!AllDefined
<1> QED BY <1>3, <1>5, <1>6

\* The report that is written, if no file was replaced.
LEMMA ReportWritten == ProfilerInv /\ P!Write => ProfilerInv'
<1> SUFFICES ASSUME ProfilerInv, P!Write PROVE ProfilerInv'
  OBVIOUS
<1>1. /\ at = "ready" /\ at' = "written" /\ stored' = P!Report
      /\ faithful' = quiet /\ quiet' = quiet /\ index' = index
      /\ profile' = profile /\ disk' = disk /\ seen' = seen
  BY DEF P!Write
<1>2. /\ P!ContractKept /\ P!Admitted /\ index = Len(P!Excluded) + 1
      /\ at \in AllRead
  BY <1>1 DEF ProfilerInv, Confirmed, ReaderPlace, AllRead
<1>3. FilesTyped' /\ SeenTyped'
  BY <1>1, FilesStay, SeenStays DEF ProfilerInv
<1>4. ReaderPlace'
  BY <1>1, <1>2, ProfileStays DEF ProfilerInv, ReaderPlace, Reading, AllRead
<1>5. SymbolsOfRead'
  <2>1. SymbolsRead' = SymbolsRead
    BY <1>1, ProfileStays DEF SymbolsRead
  <2> QED BY <1>1, <2>1, ProfileStays DEF ProfilerInv, SymbolsOfRead
<1>6. Confirmed'
  BY <1>1, <1>2, FoundStays DEF Confirmed
<1>7. ASSUME quiet PROVE AsPinned' /\ StoredPinned'
  <2>1. AsPinned
    BY <1>1, <1>7 DEF ProfilerInv
  <2>2. /\ DOMAIN seen.symbols = P!ARCHIVES
        /\ P!AllOf("undefined") = P!AllUndefined /\ P!AllOf("defined") = P!AllDefined
    BY <1>2, <2>1, AllPinned
  <2>3. /\ MemoryRead = Len(P!Listed) /\ CrossingsRead = Len(P!Listed)
        /\ MemoryRead' = MemoryRead /\ CrossingsRead' = CrossingsRead
    BY <1>1, ProfileStays DEF MemoryRead, CrossingsRead
  <2>4. stored'.required = P!Required /\ stored'.memory = seen.memory
    BY <1>1 DEF P!Report
  <2>5. {r.name : r \in stored'.required} = P!AllUndefined' \ P!AllDefined'
    BY <1>1, <2>2, <2>4, RequiredNames, ProfileStays
  <2>6. (\A r \in stored'.required : r.owner # NO_OWNER) /\ seen.crossings = 0
    BY <1>2, <2>4 DEF P!Admitted
  <2>7. \A kind \in KINDS :
          stored'.memory[kind] = SumUpTo(MemoryOf(kind)', Len(P!Listed'))
    BY <1>1, <2>1, <2>3, <2>4, ProfileStays DEF AsPinned
  <2>8. \A c \in profile'.contract :
          c.archive \in P!ARCHIVES' /\ c.name \in P!Defined(P!Content(c.archive))'
    <3>1. \A c \in profile.contract :
            c.archive \in P!ARCHIVES /\ c.name \in P!Defined(P!Content(c.archive))
      BY <1>2, <2>1, <2>2 DEF P!ContractKept, AsPinned
    <3> QED BY <1>1, <3>1, ProfileStays, PinnedSymbolsStay
  <2>9. SumUpTo(CrossingsOf', Len(P!Listed')) = 0
    BY <1>1, <2>1, <2>3, <2>6, ProfileStays DEF AsPinned
  <2>10. StoredPinned'
    BY <2>5, <2>6, <2>7, <2>8, <2>9 DEF StoredPinned
  <2>11. AsPinned'
    <3>1. \A b \in DOMAIN seen'.symbols :
            /\ seen'.symbols[b].defined = P!Defined(P!Content(b))'
            /\ seen'.symbols[b].undefined = P!Undefined(P!Content(b))'
      BY <1>1, <2>1, PinnedSymbolsStay DEF AsPinned
    <3>2. /\ \A kind \in KINDS : seen'.memory[kind] = SumUpTo(MemoryOf(kind)', MemoryRead')
          /\ seen'.crossings = SumUpTo(CrossingsOf', CrossingsRead')
      BY <1>1, <2>1, <2>3, ProfileStays DEF AsPinned
    <3>3. at' \notin Reading
      BY <1>1 DEF Reading
    <3> QED BY <3>1, <3>2, <3>3 DEF AsPinned
  <2> QED BY <2>10, <2>11
<1> QED BY <1>1, <1>3, <1>4, <1>5, <1>6, <1>7 DEF ProfilerInv

\* A step that changes none of its variables keeps the invariant.
LEMMA ProfilerStays ==
  ASSUME ProfilerInv, UNCHANGED <<profile, disk, at, index, seen, stored, quiet,
                                  faithful>>
  PROVE  ProfilerInv'
<1>1. ReaderPlace'
  BY ProfileStays DEF ProfilerInv, ReaderPlace
<1>2. Confirmed'
  BY FoundStays DEF ProfilerInv, Confirmed
<1>3. /\ SymbolsRead' = SymbolsRead /\ MemoryRead' = MemoryRead
      /\ CrossingsRead' = CrossingsRead
  BY ProfileStays DEF SymbolsRead, MemoryRead, CrossingsRead
<1>4. CASE at = "failed"
  <2>1. FilesTyped' /\ SeenTyped' /\ (faithful' => StoredPinned')
    BY FilesStay, SeenStays, StoredStays DEF ProfilerInv
  <2>2. SymbolsOfRead'
    BY <1>4, ProfileStays DEF ProfilerInv, SymbolsOfRead
  <2> QED BY <1>1, <1>2, <1>4, <2>1, <2>2 DEF ProfilerInv
<1>5. CASE at # "failed"
  <2>1. at' # "failed" /\ at' \in Reading /\ quiet => P!Pinned(P!Listed[index])'
    BY <1>5, ProfileStays DEF ProfilerInv, AsPinned, P!Pinned
  <2>2. FilesTyped' /\ SeenTyped' /\ (faithful' => StoredPinned')
    BY FilesStay, SeenStays, StoredStays DEF ProfilerInv
  <2>3. SymbolsOfRead'
    BY <1>3, ProfileStays DEF ProfilerInv, SymbolsOfRead
  <2>4. ASSUME quiet' PROVE AsPinned'
    <3>1. AsPinned
      BY <1>5, <2>4 DEF ProfilerInv
    <3>2. \A b \in DOMAIN seen'.symbols :
            /\ seen'.symbols[b].defined = P!Defined(P!Content(b))'
            /\ seen'.symbols[b].undefined = P!Undefined(P!Content(b))'
      BY <3>1, PinnedSymbolsStay DEF AsPinned
    <3>3. /\ \A kind \in KINDS : seen'.memory[kind] = SumUpTo(MemoryOf(kind)', MemoryRead')
          /\ seen'.crossings = SumUpTo(CrossingsOf', CrossingsRead')
      BY <1>3, <3>1, ProfileStays DEF AsPinned
    <3> QED BY <1>5, <2>1, <2>4, <3>2, <3>3 DEF AsPinned
  <2> QED BY <1>1, <1>2, <2>2, <2>3, <2>4 DEF ProfilerInv
<1> QED BY <1>4, <1>5

\* No command breaks the invariant.
LEMMA ProfilerKept ==
  ASSUME command = "ble-profile" => ProfilerInv,
         [CommandNext]_<<command, vars, pool>>
  PROVE  (command = "ble-profile" => ProfilerInv)'
<1>1. SUFFICES ASSUME command' = "ble-profile" PROVE ProfilerInv'
  OBVIOUS
<1>2. CASE UNCHANGED <<command, vars, pool>>
  <2>1. ProfilerInv
    BY <1>1, <1>2
  <2>2. UNCHANGED <<profile, disk, at, index, seen, stored, quiet, faithful>>
    BY <1>2 DEF pool, profiler
  <2> QED BY <2>1, <2>2, ProfilerStays
<1>3. CASE CommandNext
  <2>1. command = "ble-profile" /\ P!Next
    BY <1>1, <1>3 DEF CommandNext
  <2>2. ProfilerInv
    BY <2>1
  <2>3. CASE P!Done
    <3>1. UNCHANGED <<profile, disk, at, index, seen, stored, quiet, faithful>>
      BY <2>3 DEF P!Done, P!vars
    <3> QED BY <2>2, <3>1, ProfilerStays
  <2> QED BY <2>1, <2>2, <2>3, ReadHashMoves, ReadSymbolsKeeps, ReadMemoryKeeps,
             ReadRelocationsKeeps, ContractMoves, ReadExcludedMoves, LastMoves,
             ReportWritten, ProfileAgain, ReplaceKeeps DEF P!Next
<1> QED BY <1>2, <1>3

\* A report that is made while the archives are left alone is about the pinned
\* ones, in what it requires and in every byte it counts, for any profile and any
\* archives; one that passes --check is confirmed by what was read, whenever files
\* are replaced (ble_profile.rs:316-461).
THEOREM ReportTrueHolds == CommandSpec => []ReportTrue
<1>1. CommandInit => (command = "ble-profile" => ProfilerInv)
  BY ProfilerBegins DEF CommandInit
<1>2. CommandSpec => [](command = "ble-profile" => ProfilerInv)
  BY <1>1, ProfilerKept, PTL DEF CommandSpec
<1>3. ASSUME ProfilerInv
      PROVE  P!ReportTrue
  <2>1. P!TypeOK
    <3>1. DOMAIN P!Listed = 1 .. Len(P!Listed)
      BY <1>3, ListedTyped DEF ProfilerInv, FilesTyped
    <3>2. at \in AllRead => DOMAIN seen.symbols = P!ARCHIVES
      BY <1>3, <3>1 DEF ProfilerInv, SymbolsOfRead, SymbolsRead, P!ARCHIVES, AllRead
    <3> QED BY <1>3, <3>2 DEF ProfilerInv, ReaderPlace, SeenTyped, SymbolsOfRead,
                              P!TypeOK, Reading, AllRead
  <2>2. Len(P!Listed) \in Nat /\ DOMAIN P!Listed = 1 .. Len(P!Listed)
        /\ \A i \in 1 .. Len(P!Listed) : P!IsArchive(P!Content(P!Listed[i]))
    BY <1>3, ListedTyped DEF ProfilerInv, FilesTyped
  <2>3. P!ReportComplete
    <3>1. SUFFICES ASSUME faithful PROVE P!ReportComplete
      BY DEF P!ReportComplete
    <3>2. StoredPinned
      BY <1>3, <3>1 DEF ProfilerInv
    <3> DEFINE n == Len(P!Listed)
               loaded == [i \in DOMAIN P!Listed |-> P!Loaded(P!Content(P!Listed[i]))]
    <3>3. PICK t, r, d, b : /\ t = MemoryOf("text") /\ r = MemoryOf("rodata")
                            /\ d = MemoryOf("data") /\ b = MemoryOf("bss")
      OBVIOUS
    <3>4. ASSUME NEW i \in 1 .. n
          PROVE  /\ t[i] \in Nat /\ r[i] \in Nat /\ d[i] \in Nat /\ b[i] \in Nat
                 /\ loaded[i] = t[i] + r[i] + d[i] + b[i]
      <4>1. PICK a : a = P!Content(P!Listed[i])
        OBVIOUS
      <4>2. /\ t[i] = P!Memory(a)["text"] /\ r[i] = P!Memory(a)["rodata"]
            /\ d[i] = P!Memory(a)["data"] /\ b[i] = P!Memory(a)["bss"]
            /\ loaded[i] = P!Loaded(a)
        BY <2>2, <3>3, <4>1 DEF MemoryOf
      <4>3. P!IsArchive(a)
        BY <2>2, <4>1
      <4> HIDE DEF loaded
      <4> QED BY <4>2, <4>3, ArchiveKinds DEF KINDS
    <3>5. SumUpTo(loaded, n) = SumUpTo(t, n) + SumUpTo(r, n) + SumUpTo(d, n)
                                 + SumUpTo(b, n)
      <4> HIDE DEF loaded, n
      <4>1. n \in Nat
        BY <2>2 DEF n
      <4> QED BY <3>4, <4>1, SumFour
    <3>6. /\ stored.memory["text"] = SumUpTo(t, n)
          /\ stored.memory["rodata"] = SumUpTo(r, n)
          /\ stored.memory["data"] = SumUpTo(d, n)
          /\ stored.memory["bss"] = SumUpTo(b, n)
      BY <3>2, <3>3 DEF StoredPinned, KINDS
    <3>7. P!SumUpTo(loaded, n) = SumUpTo(loaded, n)
      BY ProfileSum, Zenon
    <3>8. stored.memory["text"] + stored.memory["rodata"] + stored.memory["data"]
            + stored.memory["bss"] = P!SumUpTo(loaded, n)
      <4> HIDE DEF loaded, n
      <4> QED BY <3>5, <3>6, <3>7
    <3>9. /\ {x.name : x \in stored.required} = P!AllUndefined \ P!AllDefined
          /\ \A x \in stored.required : x.owner # NO_OWNER
      BY <3>2 DEF StoredPinned
    <3> QED BY <3>8, <3>9 DEF P!ReportComplete
  <2>4. P!PromisesKept
    <3>1. SUFFICES ASSUME faithful PROVE P!PromisesKept
      BY DEF P!PromisesKept
    <3>2. StoredPinned
      BY <1>3, <3>1 DEF ProfilerInv
    <3>3. \A i \in 1 .. Len(P!Listed) :
            CrossingsOf[i] = P!Crossings(P!Content(P!Listed[i])) /\ CrossingsOf[i] \in Nat
      BY <2>2, ArchiveKinds DEF CrossingsOf
    <3>4. \A i \in 1 .. Len(P!Listed) : CrossingsOf[i] = 0
      BY <2>2, <3>2, <3>3, SumZero DEF StoredPinned
    <3>5. \A a \in P!ARCHIVES : P!Crossings(P!Content(a)) = 0
      BY <2>2, <3>3, <3>4 DEF P!ARCHIVES
    <3> QED BY <3>2, <3>5 DEF P!PromisesKept, StoredPinned
  <2>5. P!CheckConfirms
    <3>1. SUFFICES ASSUME at = "checked", faithful PROVE P!CheckConfirms
      BY DEF P!CheckConfirms
    <3>2. StoredPinned /\ stored = P!Report /\ P!ContractKept
      BY <1>3, <3>1 DEF ProfilerInv, Confirmed, AllRead
    <3>3. stored.required = P!Required /\ stored.memory = seen.memory
      BY <3>2 DEF P!Report
    <3>4. P!AllOf("undefined") \ P!AllOf("defined") = P!AllUndefined \ P!AllDefined
      BY <3>2, <3>3, RequiredNames DEF StoredPinned
    <3>5. \A k \in DOMAIN seen.memory :
            seen.memory[k] = P!SumUpTo([i \in DOMAIN P!Listed |->
                                          P!Memory(P!Content(P!Listed[i]))[k]],
                                       Len(P!Listed))
      <4>1. \A k \in KINDS : seen.memory[k] = P!SumUpTo(MemoryOf(k), Len(P!Listed))
        BY <3>2, <3>3, ProfileSum DEF StoredPinned
      <4>2. DOMAIN seen.memory = KINDS
        BY <1>3 DEF ProfilerInv, SeenTyped
      <4> QED BY <4>1, <4>2, Zenon DEF MemoryOf
    <3> QED BY <3>2, <3>4, <3>5, Zenon DEF P!CheckConfirms
  <2> QED BY <2>1, <2>3, <2>4, <2>5 DEF P!ReportTrue
<1>4. (command = "ble-profile" => ProfilerInv) => ReportTrue
  BY <1>3 DEF ReportTrue
<1> QED BY <1>2, <1>4, PTL
=============================================================================
