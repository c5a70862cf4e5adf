----------------------------- MODULE InitClosure -----------------------------
(* The rooted closure of the BLE controller (crates/hisi-rf-link/src/           *)
(* ble_init_profile.rs): starting from the roots of a profile, which members of *)
(* the archives have to be linked, and which symbols the platform still has to  *)
(* provide. generate works a queue of symbols off; write_or_check commits the   *)
(* report, or compares it with the committed one.                               *)
(*                                                                              *)
(* An input is what the profile, the archives and the ROM files say. Symbols    *)
(* are numbers in the order of their names, in which a BTreeSet is iterated.    *)
EXTENDS Integers, Sequences, FiniteSets

CONSTANTS
  Symbols,
  Inputs,       \* what may be found on disk
  RebuiltNeeds, \* what a member may need after it was rebuilt
  MaxStack,     \* the largest u32
  MaxRounds,    \* how often the command is run
  NO_REPORT

ASSUME SymbolsAssumption == IsFiniteSet(Symbols)

\* A member is the sets of its defined and undefined global symbols.
Members == [defined : SUBSET Symbols, undefined : SUBSET Symbols]

WellFormed(in) ==
  in \in [current : BOOLEAN, members : Seq(Members), roots : Seq(Symbols),
         callback_roots : Seq(Symbols), rom_callbacks : SUBSET Symbols,
         external_roots : SUBSET Symbols, owned : SUBSET Symbols,
         tasks : Seq([entry : Symbols, stack : Nat])]

ASSUME InputsAssumption == \A in \in Inputs : WellFormed(in)

ASSUME NeedsAssumption == RebuiltNeeds \subseteq SUBSET Symbols

VARIABLES
  input,
  pc,           \* "load", "closure", "linked", "report", "failed", "checked"
  pending, resolved, selected, selected_members, unresolved,
  committed,    \* the report of the output file
  check,        \* --check
  round

worklist == <<pending, resolved, selected, selected_members, unresolved>>
vars == <<input, pc, worklist, committed, check, round>>

Elements(s) == {s[i] : i \in DOMAIN s}

\* The sequences without repetition that go through a set in ascending order:
\* there is exactly one.
Ascending(set) ==
  {s \in [1 .. Cardinality(set) -> set] :
     /\ \A x \in set : \E i \in DOMAIN s : s[i] = x
     /\ \A i, j \in DOMAIN s : i < j => s[i] < s[j]}

Providers(symbol) ==
  {m \in DOMAIN input.members : symbol \in input.members[m].defined}

\* faulty variant: the last definition wins.
LastProvider(symbol) ==
  CHOOSE m \in Providers(symbol) : \A n \in Providers(symbol) : n <= m

\* Archives and members in the order of the profile; the first definition wins.
Provider(symbol) ==
  CHOOSE m \in Providers(symbol) : \A n \in Providers(symbol) : m <= n

\* The report names what was selected, by which symbol and of which size; what is
\* required from outside; and the resources of the tasks.
Total(tasks) == LET sum[i \in 0 .. Len(tasks)] ==
                      IF i = 0 THEN 0 ELSE sum[i - 1] + tasks[i].stack
                IN  sum[Len(tasks)]

Sizes == [i \in DOMAIN selected_members |->
            LET member == input.members[selected_members[i].member]
            IN  <<Cardinality(member.defined), Cardinality(member.undefined)>>]

Report == [selected |-> selected_members, sizes |-> Sizes,
           required |-> unresolved, stack |-> Total(input.tasks)]

Init == /\ input \in Inputs
        /\ pc = "load"
        /\ pending = <<>> /\ resolved = {} /\ selected = {}
        /\ selected_members = <<>> /\ unresolved = {}
        /\ committed = NO_REPORT /\ check = FALSE
        /\ round = 1

-----------------------------------------------------------------------------
CallbackKnown(symbol) ==
  /\ symbol \in input.rom_callbacks
  /\ Providers(symbol) # {} \/ symbol \in input.external_roots

Loadable == /\ input.current    \* the revision of B0 and the archives' hashes
            /\ \A s \in Elements(input.callback_roots) : CallbackKnown(s)

Load == /\ pc = "load" /\ Loadable
        /\ pc' = "closure"
        /\ pending' = input.roots \o input.callback_roots
        /\ UNCHANGED <<input, resolved, selected, selected_members, unresolved,
                       committed, check, round>>

\* Nothing is left to do for a symbol.
Settled(symbol) == symbol \in resolved \/ symbol \in input.external_roots

Skip ==
  /\ pc = "closure" /\ pending # <<>> /\ Settled(Head(pending))
  /\ pending' = Tail(pending)
  /\ UNCHANGED <<input, pc, resolved, selected, selected_members, unresolved,
                 committed, check, round>>

NoProvider ==
  /\ pc = "closure" /\ pending # <<>> /\ ~Settled(Head(pending))
  /\ Providers(Head(pending)) = {}
  /\ unresolved' = unresolved \cup {Head(pending)}
  /\ pending' = Tail(pending)
  /\ UNCHANGED <<input, pc, resolved, selected, selected_members, committed,
                 check, round>>

\* faulty variant: only what some member can provide is looked at.
DependenciesProvided(member, known) ==
  {s \in member.undefined : s \notin known /\ Providers(s) # {}}

\* What a member needs and is not there yet.
Dependencies(member, known) ==
  {s \in member.undefined : s \notin known /\ s \notin input.external_roots}

\* The member that provides the symbol, with everything it defines, unless it
\* is selected; then only the symbol is noted.
Provide ==
  /\ pc = "closure" /\ pending # <<>> /\ ~Settled(Head(pending))
  /\ Providers(Head(pending)) # {}
  /\ LET symbol == Head(pending)
         provider == Provider(symbol)
         member == input.members[provider]
         known == resolved \cup {symbol} \cup member.defined
     IN  IF provider \in selected
           THEN /\ resolved' = resolved \cup {symbol}
                /\ pending' = Tail(pending)
                /\ UNCHANGED <<selected, selected_members>>
           ELSE /\ resolved' = known
                /\ selected' = selected \cup {provider}
                /\ selected_members' =
                     Append(selected_members,
                            [member |-> provider, selected_by |-> symbol])
                /\ \E more \in Ascending(Dependencies(member, known)) :
                     pending' = Tail(pending) \o more
  /\ UNCHANGED <<input, pc, unresolved, committed, check, round>>

\* Every symbol from outside has an owner, every task an entry that is a root,
\* and the stacks fit in 32 bits.
Admissible ==
  /\ unresolved \subseteq input.owned
  /\ \A i \in DOMAIN input.tasks :
       input.tasks[i].entry \in Elements(input.roots) \cup input.external_roots
  /\ Total(input.tasks) <= MaxStack

Finish ==
  /\ pc = "closure" /\ pending = <<>> /\ Admissible
  /\ pc' = "linked"
  /\ UNCHANGED <<input, worklist, committed, check, round>>

Fail ==
  /\ \/ pc = "load" /\ ~Loadable
     \/ pc = "closure" /\ pending = <<>> /\ ~Admissible
     \/ pc = "linked" /\ check /\ committed # Report
  /\ pc' = "failed"
  /\ UNCHANGED <<input, worklist, committed, check, round>>

\* faulty variant: only the required symbols are compared.
SameReport ==
  committed # NO_REPORT /\ committed.required = Report.required

UpToDate == committed = Report

Write ==
  /\ pc = "linked" /\ ~check
  /\ committed' = Report
  /\ pc' = "report"
  /\ UNCHANGED <<input, worklist, check, round>>

Check ==
  /\ pc = "linked" /\ check /\ UpToDate
  /\ pc' = "checked"
  /\ UNCHANGED <<input, worklist, committed, check, round>>

\* The command ends; a member may be rebuilt with other needs (external), and
\* the command is run again, now with --check.
Rebuilt == {input} \cup
  {[input EXCEPT !.members[m].undefined = needs] :
     m \in DOMAIN input.members, needs \in RebuiltNeeds}

Again ==
  /\ pc \in {"report", "checked", "failed"} /\ round < MaxRounds
  /\ input' \in Rebuilt
  /\ pc' = "load" /\ check' = TRUE /\ round' = round + 1
  /\ pending' = <<>> /\ resolved' = {} /\ selected' = {}
  /\ selected_members' = <<>> /\ unresolved' = {}
  /\ UNCHANGED committed

Done == /\ pc \in {"report", "checked", "failed"} /\ round = MaxRounds
        /\ UNCHANGED vars

Step == \/ Load \/ Skip \/ NoProvider \/ Provide \/ Finish \/ Fail
        \/ Write \/ Check

Next == Step \/ Again \/ Done

Spec == Init /\ [][Next]_vars

-----------------------------------------------------------------------------
\* Types; no symbol is both resolved and required from outside.
TypeOK ==
  /\ pc \in {"load", "closure", "linked", "report", "failed", "checked"}
  /\ pending \in Seq(Symbols)
  /\ resolved \subseteq Symbols /\ unresolved \subseteq Symbols \ resolved
  /\ selected \subseteq DOMAIN input.members
  /\ \A i \in DOMAIN selected_members :
       /\ selected_members[i].member \in selected
       /\ selected_members[i].selected_by \in Symbols

\* A symbol that the closure accounts for: defined by a member that is linked,
\* bound to an external root, on the list of the required ones, or in the queue.
Accounted(symbol) ==
  \/ \E m \in selected : symbol \in input.members[m].defined
  \/ symbol \in input.external_roots
  \/ symbol \in unresolved
  \/ symbol \in Elements(pending)

Running == pc \notin {"load", "failed"}

\* Whatever a linked member or the profile needs is accounted for, at every
\* moment: with the queue empty no undefined symbol is missed, in cyclic and in
\* multiply defined archives too (ble_init_profile.rs:208-238).
Sufficient ==
  Running =>
    /\ \A s \in Elements(input.roots) \cup Elements(input.callback_roots) :
         Accounted(s)
    /\ \A m \in selected : \A s \in input.members[m].undefined : Accounted(s)

\* Nothing is linked without a reason: each member is selected once, by a symbol
\* it is the first to define, and which is a root or needed by a member selected
\* before it (ble_init_profile.rs:212-237).
Justified ==
  \A i \in DOMAIN selected_members :
    LET m == selected_members[i].member
        s == selected_members[i].selected_by
    IN  /\ \A n \in 1 .. m - 1 : s \notin input.members[n].defined
        /\ s \in input.members[m].defined
        /\ \A j \in DOMAIN selected_members :
             j # i => selected_members[j].member # m
        /\ \/ s \in Elements(input.roots) \cup Elements(input.callback_roots)
           \/ \E j \in 1 .. i - 1 :
                s \in input.members[selected_members[j].member].undefined

\* The list of selected members is well-formed, and minimal in this sense
\* (ble_init_profile.rs:208-238).
SelectionSound == TypeOK /\ Justified

\* Every ROM callback of a report is in a linked member or bound to an external
\* root; it is never one of the symbols left to the platform
\* (ble_init_profile.rs:186-197).
CallbacksLinked ==
  pc \in {"linked", "report", "checked"} =>
    \A s \in Elements(input.callback_roots) :
      \/ s \in input.external_roots
      \/ \E m \in selected : s \in input.members[m].defined

\* The entry of every task the report budgets has code, or a named owner
\* (ble_init_profile.rs:240-273).
TasksStartable ==
  pc \in {"linked", "report", "checked"} =>
    \A i \in DOMAIN input.tasks :
      LET entry == input.tasks[i].entry
      IN  \/ entry \in input.external_roots \cup input.owned
          \/ \E m \in selected : entry \in input.members[m].defined

\* A report that passes --check describes the archives as they are now: each
\* member it names is needed, each need of those members is met by one of them or
\* is a required or external symbol (ble_init_profile.rs:316-325).
CheckedIsCurrent ==
  pc = "checked" =>
    LET listed == {e.member : e \in Elements(committed.selected)}
    IN  /\ \A m \in listed : \A s \in input.members[m].undefined :
             \/ \E n \in listed : s \in input.members[n].defined
             \/ s \in input.external_roots \cup committed.required
        /\ \A e \in Elements(committed.selected) :
             \/ e.selected_by \in Elements(input.roots)
                                    \cup Elements(input.callback_roots)
             \/ \E m \in listed : e.selected_by \in input.members[m].undefined

\* What a report promises holds when it is written or passes --check: its callbacks
\* and tasks have code, and it is about the archives that are there
\* (ble_init_profile.rs:186-197, 240-325).
ReportHolds == CallbacksLinked /\ TasksStartable /\ CheckedIsCurrent
=============================================================================
