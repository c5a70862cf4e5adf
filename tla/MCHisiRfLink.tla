----------------------------- MODULE MCHisiRfLink ----------------------------
(* The subcommands of hisi-rf-link, each checked on inputs of its own.          *)
EXTENDS HisiRfLink, TLC

-----------------------------------------------------------------------------
(* ble-init-profile: three members over five symbols. Members 1 and 2 may both  *)
(* define symbol 1, they may need each other and the third; 4 and 5 nobody      *)
(* defines, and only 4 has an owner. Stacks are counted in units of which five  *)
(* fit.                                                                         *)
MCSymbols == 1 .. 5

Defs == { << {1}, {2}, {3} >>, << {1}, {1, 2}, {3} >>, << {1, 3}, {2}, {3} >> }
Needs == SUBSET {1, 2, 3, 4} \cup {{5}, {3, 5}}
FewNeeds == SUBSET {1, 2, 4}

ClosureTask(root, stack) == [entry |-> root, stack |-> stack]

Closure(defs, needs, roots, callbacks, budget) ==
  [current |-> TRUE,
   members |-> [m \in 1 .. 3 |->
                  [defined |-> defs[m], undefined |-> needs[m] \ defs[m]]],
   roots |-> roots, callback_roots |-> callbacks,
   rom_callbacks |-> {2, 3}, external_roots |-> {}, owned |-> {4},
   tasks |-> budget]

\* The refusals of the profile, and symbol 3 as an external root.
MCProfiles ==
  LET base == Closure(<< {1}, {2}, {3} >>, << {2}, {1}, {} >>, <<2, 3>>, <<>>, <<>>)
      noThird == [base EXCEPT !.members = SubSeq(@, 1, 2)]
  IN  { base, noThird,
        [base EXCEPT !.current = FALSE],
        [base EXCEPT !.callback_roots = <<1>>],
        [noThird EXCEPT !.callback_roots = <<3>>, !.owned = {3, 4}],
        [noThird EXCEPT !.callback_roots = <<3>>, !.external_roots = {3}],
        [base EXCEPT !.tasks = <<ClosureTask(2, 3), ClosureTask(3, 3)>>],
        [base EXCEPT !.tasks = <<ClosureTask(2, 1), ClosureTask(5, 1)>>],
        [base EXCEPT !.tasks = <<ClosureTask(2, 1), ClosureTask(3, 4)>>] }

MCInputs ==
  {Closure(d, <<n1, n2, n3>>, <<2>>, c, <<ClosureTask(2, 3)>>) :
     d \in Defs, n1 \in Needs, n2 \in Needs, n3 \in FewNeeds,
     c \in {<<>>, <<3>>}} \cup MCProfiles

-----------------------------------------------------------------------------
(* normalize, one archive: objects of two sections, two relocation tables and   *)
(* the entries at which the checks of the normaliser decide. Symbol 9 does not  *)
(* exist, section 9 neither. The second object is converted, refused by its     *)
(* entry size, or without a section.                                            *)
Rel(type, offset, symbol, addend) ==
  [type |-> type, offset |-> offset, symbol |-> symbol, addend |-> addend]

MCEntries == { Rel("48_LLUI", 0, 1, 0), Rel("48_LLUI", 8, 2, 0),
               Rel("BRANCHI", 4, 1, 0), Rel("BRANCHI", 8, 1, -200),
               Rel("BRANCHI", 4, 2, 0), Rel("BRANCHI", 4, 3, 0),
               Rel("BRANCHI", 4, 1, 1), Rel("BRANCHI", 4, 9, 0),
               Rel("LLUI_REP", 0, 0, 0), Rel("LLUI_REP", 0, 1, 0),
               Rel("RELAX", 0, 0, 0), Rel("STD", 4, 1, 0),
               Rel("TYPE60", 0, 0, 0), Rel("TYPE62", 0, 0, 0) }

RelaTable(info, entries) == [info |-> info, valid |-> TRUE, entries |-> entries]

UpTo1 == {<<>>} \cup {<<e>> : e \in MCEntries}
UpTo2 == UpTo1 \cup {<<e, f>> : e, f \in MCEntries}

Halfwords == [h \in 0 .. 9 |-> IF h % 2 = 0 THEN 35259 ELSE 65525]

Elf(relas) ==
  [elf |-> TRUE,
   sections |-> << [name |-> ".text", offset |-> 0, size |-> 12],
                   [name |-> ".text.cold", offset |-> 12, size |-> 8] >>,
   symbols |-> (0 :> [section |-> 0, value |-> 0])
                 @@ (1 :> [section |-> 1, value |-> 8])
                 @@ (2 :> [section |-> 2, value |-> 6])
                 @@ (3 :> [section |-> 1, value |-> 520]),
   relas |-> relas, text |-> Halfwords]

NotElf == [elf |-> FALSE]

Others == { Elf(<< RelaTable(2, <<Rel("BRANCHI", 0, 2, -6)>>) >>),
            Elf(<< [RelaTable(1, <<Rel("RELAX", 0, 0, 0)>>) EXCEPT !.valid = FALSE] >>),
            Elf(<< RelaTable(9, <<>>) >>) }

MCArchives ==
  {<<NotElf, Elf(<< RelaTable(1, es), RelaTable(info, fs) >>), other>> :
     es \in UpTo2, fs \in UpTo1, info \in {1, 2}, other \in Others}


-----------------------------------------------------------------------------
(* normalize and verify-normalized, the directory: two names and two builds of  *)
(* each archive; both from the source directory, one in place, two of one name. *)
MCArgumentLists ==
  { << <<"source", "a">>, <<"source", "b">> >>,
    << <<"source", "a">>, <<"out", "b">> >>,
    << <<"source", "a">>, <<"out", "a">> >>,
    << <<"out", "a">>, <<"source", "a">> >> }


-----------------------------------------------------------------------------
(* verify-guarded-sites: text at 20 with a branch and a wide load; strings at 4 *)
(* in any order and sharing of "ab", "b", "a"; debug information that is not    *)
(* loaded at 0.                                                                 *)
Program(strings, branch, immediate) ==
  << [alloc |-> FALSE, address |-> 0, cells |-> <<1, 0, 1, 2, 1, 2, 0, 2, 0>>],
     [alloc |-> TRUE, address |-> 4, cells |-> strings],
     [alloc |-> TRUE, address |-> 20, cells |-> <<branch, 9, immediate>>] >>

\* A text that begins in one section and ends in the next.
SplitProgram(strings, branch, immediate) ==
  Program(SubSeq(strings, 1, 2), branch, immediate)
    \o << [alloc |-> TRUE, address |-> 6, cells |-> SubSeq(strings, 3, 5)] >>

Strings == { <<1, 2, 0, 1, 0>>, <<2, 0, 1, 2, 0>>, <<1, 0, 1, 2, 0>>,
             <<1, 2, 1, 0, 1>>, <<1, 2, 2, 0, 0>> }

Site0 == [relocation |-> "R_RISCV_48_LLUI", rel_vma |-> 20, imm32 |-> ABSENT,
          instruction |-> 7, section |-> 1, symbol_value |-> 0]

Loads == {[Site0 EXCEPT !.imm32 = imm, !.section = s, !.symbol_value = v] :
            imm \in {1, 4, 6, 8, ABSENT}, s \in 1 .. 4, v \in {0, 1, 3}}
Branches == {[Site0 EXCEPT !.relocation = "R_RISCV_BRANCHI", !.imm32 = 4],
             [Site0 EXCEPT !.relocation = "R_RISCV_RELAX", !.imm32 = 4]}

Sites == Loads \cup Branches
Manifests == {<<a>> : a \in Sites} \cup {<<a, b>> : a \in Loads, b \in Branches}
               \cup {<<a, b>> : a \in Branches, b \in Sites}

SourceSections == << [mergeable |-> TRUE, cells |-> <<1, 2, 0, 2, 0>>],
                     [mergeable |-> FALSE, cells |-> <<1, 2, 0>>],
                     [mergeable |-> TRUE, cells |-> <<1, 2>>] >>

MCParityInputs ==
  {[elf |-> Program(strings, branch, immediate), sites |-> sites,
    archives |-> SourceSections] :
     strings \in Strings, branch \in {7, 8}, immediate \in {0, 4, 5, 6, 7, 30},
     sites \in Manifests}
  \cup {[elf |-> SplitProgram(strings, 7, immediate), sites |-> sites,
          archives |-> SourceSections] :
           strings \in Strings, immediate \in {4, 6},
           sites \in {<<a>> : a \in Loads}}


-----------------------------------------------------------------------------
(* ble-profile and sle-profile: two archives of a profile and a sibling;        *)
(* contents in which a symbol, a section or a branch differs.                   *)
Sym(name, binding, section) ==
  [name |-> name, binding |-> binding, section |-> section]
Sec(alloc, exec, write, nobits, size) ==
  [alloc |-> alloc, exec |-> exec, write |-> write, nobits |-> nobits,
   size |-> size]

Undef == 0
Text == Sec(TRUE, TRUE, FALSE, FALSE, 16)
Rodata == Sec(TRUE, FALSE, FALSE, FALSE, 4)
Data == Sec(TRUE, FALSE, TRUE, FALSE, 2)
Bss == Sec(TRUE, FALSE, TRUE, TRUE, 1)
Comment == Sec(FALSE, FALSE, FALSE, FALSE, 32)

Member(symbols, sections, crossing) ==
  [symbols |-> symbols, sections |-> sections,
   branches |-> {[at |-> 0, same_section |-> TRUE]}
                  \cup IF crossing THEN {[at |-> 4, same_section |-> FALSE]}
                                   ELSE {}]

Host == << Member({Sym("init", 1, 1), Sym("memset", 1, Undef), Sym("", 0, 1)},
                  <<Text, Rodata, Comment>>, FALSE),
           Member({Sym("adv", 2, 2), Sym("send", 1, Undef), Sym("adv", 0, 2)},
                  <<Data, Bss>>, FALSE) >>
App == << Member({Sym("send", 1, 1), Sym("adv", 1, Undef)}, <<Text>>, FALSE) >>
AppOther == << Member({Sym("send", 1, 1), Sym("hook", 1, Undef)}, <<Text>>, FALSE) >>
AppLarger == << Member({Sym("send", 1, 1), Sym("adv", 1, Undef)},
                       <<Text, Bss>>, FALSE) >>
AppCross == << Member({Sym("send", 1, 1), Sym("adv", 1, Undef)}, <<Text>>, TRUE) >>
AppWithout == << Member({Sym("send", 0, 1), Sym("adv", 1, Undef)}, <<Text>>, FALSE) >>
Sibling == << Member({Sym("hook", 1, 1)}, <<Text>>, TRUE) >>

Pins(app, contract) ==
  [archives |-> <<"host", "app">>, excluded |-> <<"gle">>,
   hash |-> ("host" :> Host) @@ ("app" :> app) @@ ("gle" :> Sibling),
   contract |-> contract, rom |-> {"memset"},
   owners |-> ("memset" :> "compiler-builtins") @@ ("send" :> "application")
             @@ ("adv" :> "application"),
   disks |-> {("host" :> Host) @@ ("app" :> app) @@ ("gle" :> Sibling)}]

Promise(name, of) == [name |-> name, archive |-> of]

MCArchiveProfiles ==
  { Pins(app, {Promise("init", "host")}) :
      app \in {App, AppOther, AppCross, AppWithout, AppLarger} }
  \cup { Pins(App, {Promise("send", "host")}), Pins(App, {Promise("send", "gle")}),
         [Pins(App, {}) EXCEPT !.archives = <<"app">>],
         [Pins(App, {}) EXCEPT !.disks = {[a \in {"host", "app", "gle"} |-> App]}] }


-----------------------------------------------------------------------------
(* task-profile: logs of up to four lines about two numbers, one of them        *)
(* printed too wide, and ELF files in which a symbol is missing, doubled or has *)
(* an alias. A line is of the task of the last record with its number, complete *)
(* or not; a record without a number was one of number 2.                       *)
L(kind, id, begin) == [kind |-> kind, id |-> id, entry |-> begin]
Shapes == { L("TASK", 1, 16), L("TASK", 5, 32), L("TASK", 2, 48),
            L("TASK", ABSENT, 16), L("TASK", 2, ABSENT),
            L("METRIC", 1, ABSENT), L("METRIC", 2, ABSENT),
            L("METRIC", ABSENT, ABSENT), L("other", ABSENT, ABSENT) }

Logs == UNION {[1 .. n -> Shapes] : n \in 0 .. 4}
TaskOf(log, i) ==
  LET begun == {k \in 1 .. i : /\ log[k].kind = "TASK"
                               /\ IF log[k].id = ABSENT THEN log[i].id = 2
                                  ELSE log[i].id # ABSENT
                                       /\ (log[k].id - log[i].id) % 4 = 0}
  IN  IF begun = {} THEN 0 ELSE CHOOSE k \in begun : \A j \in begun : j <= k

Printed(log) == [i \in DOMAIN log |->
  [kind |-> log[i].kind, id |-> log[i].id, entry |-> log[i].entry, serial |-> i,
   task |-> TaskOf(log, i)]]

Name(name, address) == [name |-> name, address |-> address, defined |-> TRUE]
ElfNames == << [name |-> "process", address |-> 0, defined |-> FALSE],
            Name("process", 16), Name("supplicant", 32), Name("process", 64) >>
ElfNamesAlias == <<Name("alias", 16)>> \o ElfNames
ElfNamesWithout == << Name("process", 16), Name("other", 40) >>

Row(symbol, address, role, wpa) ==
  [entry_symbol |-> symbol, entry_address |-> address, role |-> role,
   wpa |-> wpa]
Rows == << Row("process", ABSENT, "worker", ABSENT),
           Row("thread", 48, "driver", ABSENT),
           Row("supplicant", ABSENT, "critical", "wpa2-personal"),
           Row("supplicant", ABSENT, "candidate", "wpa3-personal") >>

Run(log, names, wpa) ==
  [log |-> Printed(log), symbols |-> names, profile |-> Rows, wpa |-> wpa,
   entries |-> {16, 40, 64}]

FewLogs == {<<L("TASK", 1, 16), L("TASK", 5, 32), L("METRIC", 1, ABSENT)>>,
            <<L("TASK", 1, 32), L("TASK", 2, 48)>>}

MCRuns ==
  {Run(log, ElfNames, "wpa3-personal") : log \in Logs}
    \cup {Run(log, names, wpa) :
            log \in FewLogs, names \in {ElfNames, ElfNamesAlias, ElfNamesWithout},
            wpa \in {ABSENT, "wpa2-personal", "enterprise"}}

-----------------------------------------------------------------------------
MCNames == {"a", "b"}
MCContents == {Host, AppOther, AppLarger}

\* Earlier outputs of normalize are of build 1.
MCInit ==
  /\ CommandInit
  /\ command = "normalize" =>
       \A name \in MCNames : files[<<"out", name>>].build = 1

MCSpec == MCInit /\ [][CommandNext]_<<command, vars, pool>>
=============================================================================
