----------------------------- MODULE Normalizer -----------------------------
(* Normalisation of one vendor archive (crates/hisi-rf-link/src/normalize.rs): *)
(* normalize_archive goes through the members and, for each ELF object, through *)
(* its relocation tables, twice: first to find the sections that hold vendor    *)
(* branches, then to rewrite or refuse each entry. Only a run without a refusal *)
(* writes its output. inspect_object and verify_normalized_archive look at the  *)
(* result independently.                                                        *)
(*                                                                              *)
(* A member is [elf, sections, symbols, relas, text]: sections have a name,     *)
(* the offset of their bytes in the object and a size; symbol 0 is the null     *)
(* symbol and section 0 SHN_UNDEF; a relocation table has the index of its      *)
(* target section (info), whether its entry size is valid, and its entries;     *)
(* text is the object's bytes in halfwords.                                     *)
EXTENDS Integers, Sequences, FiniteSets, BranchImmediate

CONSTANTS
  Archives,    \* the inputs: sequences of members
  MaxRounds    \* how often an output is normalised again

VARIABLES
  archive,           \* the file that is read
  data,              \* its bytes, rewritten in place
  pc,                \* "member", "table", "entry", "written", "failed"
  member, table, entry,
  branchi_sections,  \* sections with a vendor branch, of this object
  counts,            \* TransformationCounts, over all members
  output,            \* the file that is written
  round

vars == <<archive, data, pc, member, table, entry, branchi_sections, counts,
          output, round>>

NoFile == "no file"

\* Relocation types: "TYPE60" and "TYPE62" stand for vendor numbers without a
\* declared conversion, "STD" for the standard types that stay.
VENDOR == {"48_LLUI", "BRANCHI", "LLUI_REP", "TYPE60", "TYPE62"}
COUNTERS == {"llui48_to_riscv32", "branchi_encoded", "relax_removed",
             "llui_rep_removed"}

Object == data[member]
Rela == Object.relas[table]
Target == Object.sections[Rela.info]
Entry == Rela.entries[entry]

\* The word at a byte of the object, and whether the object has it.
HasWord(object, at) == \A half \in {at \div 2, at \div 2 + 1} :
                         half \in DOMAIN object.text
WordAt(object, at) == << object.text[at \div 2], object.text[at \div 2 + 1] >>

Site(object, rela, e) == object.sections[rela.info].offset + e.offset
Displacement(object, e) == object.symbols[e.symbol].value + e.addend - e.offset

-----------------------------------------------------------------------------
\* What each conversion demands of an entry.

\* The 32-bit immediate follows the first halfword of the 48-bit instruction.
Llui48Fits(object, rela, e) == e.offset + 6 <= object.sections[rela.info].size

\* faulty variant: the section of the symbol is not compared.
BranchiConvertibleAnywhere(object, rela, e) ==
  /\ e.symbol \in DOMAIN object.symbols
  /\ HasWord(object, Site(object, rela, e))
  /\ Encodable(Displacement(object, e))

BranchiConvertible(object, rela, e) ==
  /\ e.symbol \in DOMAIN object.symbols
  /\ object.symbols[e.symbol].section = rela.info
  /\ HasWord(object, Site(object, rela, e))
  /\ Encodable(Displacement(object, e))

IsRepMarker(object, rela, e) ==
  /\ e.symbol = 0 /\ e.addend = 0
  /\ e.offset + 6 <= object.sections[rela.info].size

Refused(object, rela, e) ==
  CASE e.type = "48_LLUI"  -> ~Llui48Fits(object, rela, e)
    [] e.type = "BRANCHI"  -> ~BranchiConvertible(object, rela, e)
    [] e.type = "LLUI_REP" -> ~IsRepMarker(object, rela, e)
    [] OTHER               -> e.type = "TYPE60"

\* The sections that the first pass finds.
BranchiSections(object) ==
  {object.relas[t].info : t \in {u \in DOMAIN object.relas :
     \E i \in DOMAIN object.relas[u].entries :
        object.relas[u].entries[i].type = "BRANCHI"}}

-----------------------------------------------------------------------------
NoCounts == [c \in COUNTERS |-> 0]

Init == /\ archive \in Archives
        /\ data = archive
        /\ pc = "member" /\ member = 1 /\ table = 1 /\ entry = 1
        /\ branchi_sections = {}
        /\ counts = NoCounts
        /\ output = NoFile
        /\ round = 1

\* A member that is no ELF object is copied as it is.
SkipMember ==
  /\ pc = "member" /\ member <= Len(data) /\ ~Object.elf
  /\ member' = member + 1
  /\ UNCHANGED <<archive, data, pc, table, entry, branchi_sections, counts,
                 output, round>>

FirstPass ==
  /\ pc = "member" /\ member <= Len(data) /\ Object.elf
  /\ \A t \in DOMAIN Object.relas : Object.relas[t].valid
  /\ branchi_sections' = BranchiSections(Object)
  /\ pc' = "table" /\ table' = 1
  /\ UNCHANGED <<archive, data, member, entry, counts, output, round>>

BeginTable ==
  /\ pc = "table" /\ table <= Len(Object.relas)
  /\ Rela.info \in DOMAIN Object.sections
  /\ pc' = "entry" /\ entry' = 1
  /\ UNCHANGED <<archive, data, member, table, branchi_sections, counts,
                 output, round>>

EndTable ==
  /\ pc = "entry" /\ entry > Len(Rela.entries)
  /\ pc' = "table" /\ table' = table + 1
  /\ UNCHANGED <<archive, data, member, entry, branchi_sections, counts,
                 output, round>>

EndMember ==
  /\ pc = "table" /\ table > Len(Object.relas)
  /\ pc' = "member" /\ member' = member + 1
  /\ UNCHANGED <<archive, data, table, entry, branchi_sections, counts,
                 output, round>>

\* One entry is replaced, perhaps with the object's bytes, and counted.
Replace(new, text, counter) ==
  /\ data' = [data EXCEPT ![member].relas[table].entries[entry] = new,
                          ![member].text = text]
  /\ counts' = [counts EXCEPT ![counter] = @ + 1]
  /\ entry' = entry + 1
  /\ UNCHANGED <<archive, pc, member, table, branchi_sections, output, round>>

AtEntry(types) == /\ pc = "entry" /\ entry <= Len(Rela.entries)
                  /\ Entry.type \in types
                  /\ ~Refused(Object, Rela, Entry)

\* faulty variant: the type stays, only the offset moves.
Llui48EntryOldType(e) == [e EXCEPT !.offset = @ + 2]

Llui48Entry(e) == [e EXCEPT !.type = "32", !.offset = @ + 2]

ConvertLlui48 ==
  /\ AtEntry({"48_LLUI"})
  /\ Replace(Llui48Entry(Entry), Object.text, "llui48_to_riscv32")

EncodeBranch ==
  /\ AtEntry({"BRANCHI"})
  /\ LET at == Site(Object, Rela, Entry)
         word == EncodeBranchi(WordAt(Object, at), Displacement(Object, Entry))
     IN  Replace([Entry EXCEPT !.type = "NONE"],
                 [Object.text EXCEPT ![at \div 2] = word[1],
                                     ![at \div 2 + 1] = word[2]],
                 "branchi_encoded")

RemoveRep ==
  /\ AtEntry({"LLUI_REP"})
  /\ Replace([Entry EXCEPT !.type = "NONE"], Object.text, "llui_rep_removed")

RemoveRelax ==
  /\ AtEntry({"RELAX"}) /\ Rela.info \in branchi_sections
  /\ Replace([Entry EXCEPT !.type = "NONE"], Object.text, "relax_removed")

\* Everything else stays, RELAX elsewhere and numbers from 62 on included.
KeepEntry ==
  /\ AtEntry({"STD", "NONE", "32", "RELAX", "TYPE62"})
  /\ ~(Entry.type = "RELAX" /\ Rela.info \in branchi_sections)
  /\ entry' = entry + 1
  /\ UNCHANGED <<archive, data, pc, member, table, branchi_sections, counts,
                 output, round>>

\* An error on any path: nothing is written.
Fail ==
  /\ \/ /\ pc = "member" /\ member <= Len(data) /\ Object.elf
        /\ \E t \in DOMAIN Object.relas : ~Object.relas[t].valid
     \/ /\ pc = "table" /\ table <= Len(Object.relas)
        /\ Rela.info \notin DOMAIN Object.sections
     \/ /\ pc = "entry" /\ entry <= Len(Rela.entries)
        /\ Refused(Object, Rela, Entry)
  /\ pc' = "failed"
  /\ UNCHANGED <<archive, data, member, table, entry, branchi_sections,
                 counts, output, round>>

Write ==
  /\ pc = "member" /\ member > Len(data)
  /\ output' = data
  /\ pc' = "written"
  /\ UNCHANGED <<archive, data, member, table, entry, branchi_sections,
                 counts, round>>

\* The command is run on what it wrote.
Again ==
  /\ pc = "written" /\ round < MaxRounds
  /\ archive' = output /\ data' = output
  /\ pc' = "member" /\ member' = 1 /\ table' = 1 /\ entry' = 1
  /\ branchi_sections' = {} /\ counts' = NoCounts
  /\ round' = round + 1
  /\ UNCHANGED output

\* The command has ended.
Done == pc \in {"failed", "written"} /\ UNCHANGED vars

Next == \/ SkipMember \/ FirstPass \/ BeginTable \/ EndTable \/ EndMember
        \/ ConvertLlui48 \/ EncodeBranch \/ RemoveRep \/ RemoveRelax
        \/ KeepEntry \/ Fail \/ Write \/ Again \/ Done

Spec == Init /\ [][Next]_vars

-----------------------------------------------------------------------------
\* The inspector. An entry of a file is named by its place.
Places(file) ==
  UNION {UNION {{<<m, t, i>> : i \in DOMAIN file[m].relas[t].entries} :
                t \in DOMAIN file[m].relas} :
         m \in {n \in DOMAIN file : file[n].elf}}

At(file, p) == file[p[1]].relas[p[2]].entries[p[3]]
TableOf(file, p) == file[p[1]].relas[p[2]]

OfType(file, type) == {p \in Places(file) : At(file, p).type = type}
VendorRecords(file) == {p \in Places(file) : At(file, p).type \in VENDOR}

\* inspect_object returns an error otherwise.
Inspectable(file) ==
  /\ \A m \in DOMAIN file : file[m].elf =>
       \A t \in DOMAIN file[m].relas :
          file[m].relas[t].valid
            /\ file[m].relas[t].info \in DOMAIN file[m].sections
  /\ \A p \in VendorRecords(file) :
       At(file, p).symbol \in DOMAIN file[p[1]].symbols

\* It tells sections apart by their names.
SectionName(object, index) ==
  IF index = 0 THEN "UND" ELSE object.sections[index].name

SameSection(file, p) ==
  LET object == file[p[1]]
  IN  SectionName(object, object.symbols[At(file, p).symbol].section)
        = SectionName(object, TableOf(file, p).info)

CrossBranches(file) == {p \in OfType(file, "BRANCHI") : ~SameSection(file, p)}

\* verify_normalized_archive, for the hash and size in the manifest: they stand
\* for the bytes.
VerifyAccepts(file, expected) ==
  file = expected /\ Inspectable(file) /\ VendorRecords(file) = {}

-----------------------------------------------------------------------------
\* What the object reader makes of a file.
TYPES == VENDOR \cup {"STD", "NONE", "32", "RELAX"}
Relocations == [type : TYPES, offset : Nat, symbol : Nat, addend : Int]
Tables == [info : Nat, valid : BOOLEAN, entries : Seq(Relocations)]

IsObject(object) ==
  /\ object \in [elf : {TRUE},
                  sections : Seq([name : STRING, offset : Nat, size : Nat]),
                  symbols : {object.symbols}, relas : Seq(Tables),
                  text : {object.text}]
  /\ object.symbols \in [DOMAIN object.symbols -> [section : Nat, value : Int]]
  /\ object.text \in [DOMAIN object.text -> HALFWORDS]

IsFile(file) ==
  /\ DOMAIN file = 1 .. Len(file) /\ Len(file) \in Nat
  /\ \A m \in DOMAIN file : /\ file[m].elf \in BOOLEAN
                            /\ file[m].elf => IsObject(file[m])

SiteAt(file, p) == Site(file[p[1]], TableOf(file, p), At(file, p))
GoalAt(file, p) == Displacement(file[p[1]], At(file, p))
RefusedAt(file, p) == Refused(file[p[1]], TableOf(file, p), At(file, p))
HalvesAt(file, p) == {SiteAt(file, p) \div 2, SiteAt(file, p) \div 2 + 1}

\* The branches that have a displacement to encode.
BranchesWithGoal(file) ==
  {p \in OfType(file, "BRANCHI") :
     LET symbols == file[p[1]].symbols
         symbol == At(file, p).symbol
     IN  /\ symbol \in DOMAIN symbols
         /\ symbols[symbol].section = TableOf(file, p).info
         /\ Encodable(GoalAt(file, p))}

\* Two of them are of different words, or say the same.
BranchesApart(file) ==
  \A p, q \in BranchesWithGoal(file) :
    p[1] = q[1] =>
      \/ /\ SiteAt(file, p) = SiteAt(file, q)
         /\ GoalAt(file, p) = GoalAt(file, q)
      \/ HalvesAt(file, p) \cap HalvesAt(file, q) = {}

-----------------------------------------------------------------------------
\* Types and ranges; the input's shape is kept.
TypeOK ==
  /\ pc \in {"member", "table", "entry", "written", "failed"}
  /\ round \in 1 .. MaxRounds
  /\ DOMAIN data = DOMAIN archive
  /\ Places(data) = Places(archive)
  /\ \A m \in DOMAIN data : data[m].elf =>
       \A h \in DOMAIN data[m].text : data[m].text[h] \in HALFWORDS
  /\ counts \in [COUNTERS -> Nat]

Written == pc = "written"

\* Every vendor branch of an archive that was normalised jumps to where its
\* relocation said, symbol plus addend (normalize.rs:447-462, 568-577).
BranchesReachTarget ==
  Written => \A p \in OfType(archive, "BRANCHI") :
    LET e == At(archive, p)
    IN  DecodeBranchi(WordAt(output[p[1]],
                             Site(archive[p[1]], TableOf(archive, p), e)))
          = Displacement(archive[p[1]], e)

\* Of the code nothing changes but the immediates of those branches: neither
\* another instruction nor the other fields of the branch (normalize.rs:460-461).
TextPreserved ==
  Written => \A m \in {n \in DOMAIN archive : archive[n].elf} :
    LET sites == {Site(archive[m], TableOf(archive, p), At(archive, p)) :
                    p \in {q \in OfType(archive, "BRANCHI") : q[1] = m}}
    IN  /\ \A h \in DOMAIN archive[m].text :
             (\A s \in sites : h \notin {s \div 2, s \div 2 + 1})
               => output[m].text[h] = archive[m].text[h]
        /\ \A s \in sites : OtherBits(WordAt(output[m], s))
                              = OtherBits(WordAt(archive[m], s))

\* Every 48-bit load immediate becomes a standard 32-bit word for the same
\* symbol and addend, over the instruction's last four bytes, all of them inside
\* the section (normalize.rs:531-547).
ImmediatesRelocated ==
  Written => \A p \in OfType(archive, "48_LLUI") :
    LET e == At(archive, p)
        new == At(output, p)
        section == archive[p[1]].sections[TableOf(archive, p).info]
    IN  /\ new = [e EXCEPT !.type = "32", !.offset = e.offset + 2]
        /\ new.offset + 4 <= section.size

\* The linker must not shorten code under a branch whose displacement is already
\* fixed: no RELAX is left for such a section, in whatever table and in whatever
\* order the entries come (normalize.rs:471-493, 599-602).
NoRelaxOverFixedBranch ==
  Written => \A p \in OfType(output, "RELAX") :
    ~\E q \in OfType(archive, "BRANCHI") :
       q[1] = p[1] /\ TableOf(archive, q).info = TableOf(output, p).info

\* A standard linker makes of the output the code that the vendor's linker makes
\* of the input: branches and wide loads mean what their relocations said, nothing
\* else is changed, and no branch is moved afterwards (normalize.rs:447-614).
SameCode == /\ TypeOK /\ BranchesReachTarget /\ TextPreserved
            /\ ImmediatesRelocated /\ NoRelaxOverFixedBranch

\* The transformation counts in the manifest are what an inspection of the input
\* finds, and an archive with a branch that the summary calls cross-section is
\* never converted (normalize.rs:168-200, 554-567, 813-829). verify-normalized
\* accepts what was written, unless the archive had a vendor number that
\* normalize passes over (normalize.rs:609, 846-879).
ManifestAgrees ==
  Written =>
    /\ VerifyAccepts(output, data) <=> (OfType(archive, "TYPE62") = {})
    /\ CrossBranches(archive) = {}
    /\ counts.llui48_to_riscv32 = Cardinality(OfType(archive, "48_LLUI"))
    /\ counts.branchi_encoded = Cardinality(OfType(archive, "BRANCHI"))
    /\ counts.llui_rep_removed = Cardinality(OfType(archive, "LLUI_REP"))
    /\ counts.relax_removed = Cardinality(OfType(archive, "RELAX"))
                                - Cardinality(OfType(output, "RELAX"))

\* What was normalised is normalised: a second run changes no byte
\* (normalize.rs:464-614).
SecondRunStep == round > 1 => data' = data

\* crates/hisi-rf-link/README.md:21-22 promises that normalize "rewrites the
\* declared WS63 vendor relocations to standard ELF semantics, fails closed on
\* unknown forms". Only number 60 is refused; what the inspector counts as vendor
\* beyond 61 is passed over and the output written (normalize.rs:405-411, 603-609).
FailsClosed == Written => VendorRecords(output) = {}
=============================================================================
