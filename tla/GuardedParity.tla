---------------------------- MODULE GuardedParity ----------------------------
(* verify-guarded-sites (crates/hisi-rf-link/src/normalize.rs): the final ELF,  *)
(* linked from normalized archives, compared site by site with a manifest of    *)
(* the guarded lane, the ELF that a patched linker made from the originals. The *)
(* linkers may merge equal strings to different addresses.                      *)
(*                                                                              *)
(* Memory consists of cells: a word is one cell, a string is cells up to a 0.   *)
EXTENDS Integers, Sequences, FiniteSets

CONSTANTS Inputs, ABSENT

VARIABLES
  input,     \* [elf: sections, sites: manifest, archives: source sections]
  pc,        \* "sites", "accepted", "rejected"
  line,      \* the next site
  parity     \* sites of each class

vars == <<input, pc, line, parity>>

Classes == {"llui48_exact", "llui48_merged_string_equivalent",
            "llui48_legacy_merged_string_corrections", "branchi_exact"}

Init == /\ input \in Inputs
        /\ pc = "sites" /\ line = 1
        /\ parity = [class \in Classes |-> 0]

\* Only sections that are loaded have addresses.
Allocated(section) == section.alloc

\* bytes_at_vma: from the first section that has them all. The code does not skip
\* sections without bytes in the file (SHT_NOBITS); here all have their bytes.
Holding(address, length) ==
  {i \in DOMAIN input.elf :
     LET section == input.elf[i]
     IN  /\ Allocated(section) /\ address >= section.address
         /\ address - section.address + length <= Len(section.cells)}

BytesAtVma(address, length) ==
  IF Holding(address, length) = {} THEN ABSENT
  ELSE LET first == CHOOSE i \in Holding(address, length) :
                      \A j \in Holding(address, length) : i <= j
           relative == address - input.elf[first].address
       IN  SubSeq(input.elf[first].cells, relative + 1, relative + length)

Nuls(cells, from) == {i \in from .. Len(cells) : cells[i] = 0}

\* faulty variant: the string without its end.
UpToNul(cells, from) ==
  SubSeq(cells, from,
         (CHOOSE i \in Nuls(cells, from) : \A j \in Nuls(cells, from) : i <= j) - 1)

StringFrom(cells, from) ==
  SubSeq(cells, from,
         CHOOSE i \in Nuls(cells, from) : \A j \in Nuls(cells, from) : i <= j)

\* source_merged_string: the string that the site's symbol names, in the archive.
SourceMergedString(site) ==
  LET section == input.archives[site.section]
      from == site.symbol_value + 1
  IN  IF \/ site.section \notin DOMAIN input.archives
         \/ ~section.mergeable \/ from > Len(section.cells)
         \/ Nuls(section.cells, from) = {}
        THEN ABSENT ELSE StringFrom(section.cells, from)

Word(address) == BytesAtVma(address, 1)

\* The class of an address that another word gives; ABSENT refuses the site.
MergedClass(site, actual) ==
  LET source == SourceMergedString(site)
  IN  IF source = ABSENT \/ BytesAtVma(actual, Len(source)) # source
        THEN ABSENT
      ELSE LET guarded == BytesAtVma(site.imm32, Len(source))
           IN  IF guarded = ABSENT THEN ABSENT
               ELSE IF guarded = source THEN "llui48_merged_string_equivalent"
               ELSE "llui48_legacy_merged_string_corrections"

Class(site) ==
  IF site.relocation = "R_RISCV_48_LLUI" THEN
    LET word == Word(site.rel_vma + 2)
    IN  IF ABSENT \in {site.imm32, word} THEN ABSENT
        ELSE IF word = <<site.imm32>> THEN "llui48_exact"
        ELSE MergedClass(site, word[1])
  ELSE IF site.relocation = "R_RISCV_BRANCHI"
            /\ Word(site.rel_vma) = <<site.instruction>>
    THEN "branchi_exact"
  ELSE ABSENT

Site == input.sites[line]

CheckSite ==
  /\ pc = "sites" /\ line <= Len(input.sites) /\ Class(Site) # ABSENT
  /\ parity' = [parity EXCEPT ![Class(Site)] = @ + 1]
  /\ line' = line + 1
  /\ UNCHANGED <<input, pc>>

BothKinds ==
  /\ parity["branchi_exact"] > 0
  /\ \E class \in Classes \ {"branchi_exact"} : parity[class] > 0

Accept ==
  /\ pc = "sites" /\ line > Len(input.sites) /\ BothKinds
  /\ pc' = "accepted"
  /\ UNCHANGED <<input, line, parity>>

Reject ==
  /\ pc = "sites"
  /\ IF line > Len(input.sites) THEN ~BothKinds ELSE Class(Site) = ABSENT
  /\ pc' = "rejected"
  /\ UNCHANGED <<input, line, parity>>

Done == pc # "sites" /\ UNCHANGED vars

Next == CheckSite \/ Accept \/ Reject \/ Done

Spec == Init /\ [][Next]_vars

-----------------------------------------------------------------------------
\* Types; every site that was passed is counted once, and an accepted manifest
\* has sites of both kinds.
TypeOK ==
  /\ pc \in {"sites", "accepted", "rejected"}
  /\ line \in 1 .. Len(input.sites) + 1
  /\ LET Branches == {i \in 1 .. line - 1 :
                        input.sites[i].relocation = "R_RISCV_BRANCHI"}
     IN  parity["branchi_exact"] = Cardinality(Branches)
  /\ pc = "accepted" => \E i, j \in DOMAIN input.sites :
       input.sites[i].relocation # input.sites[j].relocation

\* What the program finds in memory: the sections that are loaded.
Memory ==
  [address \in UNION {section.address .. section.address + Len(section.cells) - 1 :
                        section \in {input.elf[i] : i \in {j \in DOMAIN input.elf :
                                                             input.elf[j].alloc}}} |->
     LET i == CHOOSE j \in DOMAIN input.elf :
                /\ input.elf[j].alloc /\ address >= input.elf[j].address
                /\ address < input.elf[j].address + Len(input.elf[j].cells)
     IN  input.elf[i].cells[address - input.elf[i].address + 1]]

\* A text, cell by cell up to its end.
IsText(cells, from, length) ==
  /\ length \in 1 .. Len(cells) - from + 1
  /\ cells[from + length - 1] = 0
  /\ \A k \in 0 .. length - 2 : cells[from + k] # 0

\* The program reads the same text from two places.
SameText(address, cells, from) ==
  \E length \in 1 .. Len(cells) :
    /\ IsText(cells, from, length)
    /\ address .. address + length - 1 \subseteq DOMAIN Memory
    /\ \A k \in 0 .. length - 1 : Memory[address + k] = cells[from + k]

SameSite(site) ==
  IF site.relocation = "R_RISCV_BRANCHI"
    THEN Memory[site.rel_vma] = site.instruction
  ELSE \/ Memory[site.rel_vma + 2] = site.imm32
       \/ /\ site.section \in DOMAIN input.archives
          /\ input.archives[site.section].mergeable
          /\ SameText(Memory[site.rel_vma + 2],
                      input.archives[site.section].cells, site.symbol_value + 1)

\* An ELF that is accepted means the same as the guarded one at each site: the
\* same instruction, the same address, or the address of the whole text that the
\* symbol names in the source archive (normalize.rs:998-1068).
SameProgram ==
  pc = "accepted" => \A i \in DOMAIN input.sites : SameSite(input.sites[i])

\* The cells lie in one section that is loaded.
InOneSection(address, length) ==
  \E i \in DOMAIN input.elf :
    LET section == input.elf[i]
    IN  /\ section.alloc
        /\ address .. address + length - 1
             \subseteq section.address .. section.address + Len(section.cells) - 1

\* The word that the linker left at a site.
WordAddress(site) ==
  IF site.relocation = "R_RISCV_48_LLUI" THEN site.rel_vma + 2 ELSE site.rel_vma

\* An ELF is not refused for where the linker merged the strings: if a site is
\* complete and means the same as before, and neither at its old address nor at
\* its new one the text runs over the end of a section, the site is accepted
\* (normalize.rs:1029-1046).
MergingAccepted ==
  pc = "rejected" /\ line <= Len(input.sites) =>
    \/ Site.relocation \notin {"R_RISCV_48_LLUI", "R_RISCV_BRANCHI"}
    \/ Site.relocation = "R_RISCV_48_LLUI" /\ Site.imm32 = ABSENT
    \/ WordAddress(Site) \notin DOMAIN Memory
    \/ ~SameSite(Site)
    \/ /\ Site.section \in DOMAIN input.archives
       /\ LET cells == input.archives[Site.section].cells
          IN  \E length \in 1 .. Len(cells) :
                /\ IsText(cells, Site.symbol_value + 1, length)
                /\ \E address \in {Site.imm32, Memory[WordAddress(Site)]} :
                     ~InOneSection(address, length)

\* The comparison accepts neither too much nor too little (normalize.rs:998-1068).
ParityExact == TypeOK /\ SameProgram /\ MergingAccepted
=============================================================================
