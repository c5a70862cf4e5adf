---------------------------- MODULE RomPatchTable ----------------------------
(* The table that redirects functions of the mask ROM to their replacements in  *)
(* flash, as ws63-radio-sys/build.rs writes it: an object file whose long jumps *)
(* are completed by the linker, once it has placed the replacements.            *)
(*                                                                              *)
(* Numbers are words of WordLimit values; a long jump adds a multiple of Page   *)
(* and a low part of -Page/2 .. Page/2-1 to the address it is executed at.      *)
EXTENDS Integers, Sequences, FiniteSets

CONSTANTS
  Inputs,          \* ROM symbol tables and patch lists
  Placements,      \* where the linker may put the replacement of each name
  WordLimit, Page,     \* a power of two; an even divisor of it
  ROM_START, ROM_END, PATCH_VMA,     \* in this order
  DATA_PATCH_ENTRY_COUNT, INSTRUCTION_COMPARE_COUNT, COMPARE_HEADER_WORDS

VARIABLES
  input,       \* [symbols, patches]: the lines of the two files
  pc,          \* "start", "object", "linked", "panic"
  object,      \* [compare, relocations]
  placement    \* the addresses of the replacements, by name

vars == <<input, pc, object, placement>>

Init == /\ input \in Inputs /\ pc = "start"
        /\ object = [compare |-> <<>>, relocations |-> {}]
        /\ placement = <<>>

Even(address) == address - (address % 2)

\* A line `name = 0x...;` of a function in the mask ROM; others are skipped.
InRom(l) == l.kind = "address" /\ Even(l.address) \in ROM_START .. ROM_END - 1

\* parse_rom_symbols: two functions of one name are refused.
SymbolLines == {i \in DOMAIN input.symbols : InRom(input.symbols[i])}
Named(name) == {i \in SymbolLines : input.symbols[i].name = name}
SymbolsParse == \A i \in SymbolLines : Named(input.symbols[i].name) = {i}

\* parse_patch_names: so is a name that is listed twice.
Listed == {input.patches[i] : i \in DOMAIN input.patches}
PatchesParse == Cardinality(Listed) = Len(input.patches)

\* The address of a function in the ROM.
Original(name) ==
  Even(input.symbols[CHOOSE i \in Named(name) : TRUE].address)

\* By address, and by name (names are numbers here, in their order).
SortedBefore(a, b) ==
  \/ Original(a) < Original(b)
  \/ Original(a) = Original(b) /\ a < b

Index(name) == Cardinality({n \in Listed : SortedBefore(n, name)})
Slot(name) == (DATA_PATCH_ENTRY_COUNT + Index(name)) * 8

\* faulty variant: the jump is computed for the place where the table lies.
AddendInPlace(name) == 0

\* The jump is executed at the original address, not in its slot.
Addend(name) == PATCH_VMA + Slot(name) - Original(name)

\* A header with the address and the length of the table, then the addresses.
CompareWords ==
  [i \in 0 .. COMPARE_HEADER_WORDS + Cardinality(Listed) - 1 |->
     IF i >= COMPARE_HEADER_WORDS
       THEN Original(CHOOSE n \in Listed :
                       Index(n) = i - COMPARE_HEADER_WORDS) + 1
     ELSE IF i = 1 THEN PATCH_VMA
     ELSE IF i = 2 THEN Cardinality(Listed) ELSE 0]

Accepted ==
  /\ SymbolsParse /\ PatchesParse
  /\ \A n \in Listed : Named(n) # {}
  /\ Cardinality(Listed) <= INSTRUCTION_COMPARE_COUNT

\* write_rom_patch_object
WriteObject ==
  /\ pc = "start" /\ Accepted
  /\ object' = [compare |-> CompareWords,
                relocations |-> {[offset |-> Slot(n), symbol |-> n,
                                  addend |-> Addend(n)] : n \in Listed}]
  /\ pc' = "object"
  /\ UNCHANGED <<input, placement>>

Panic ==
  /\ pc = "start" /\ ~Accepted
  /\ pc' = "panic"
  /\ UNCHANGED <<input, object, placement>>

-----------------------------------------------------------------------------
\* The linker (external) places the replacements, puts the table at PATCH_VMA
\* and completes each long jump, as R_RISCV_CALL_PLT asks for.
Link ==
  /\ pc = "object"
  /\ placement' \in Placements
  /\ pc' = "linked"
  /\ UNCHANGED <<input, object>>

\* auipc and jalr: the upper part is rounded so that the lower part fits.
CallPlt(value) ==
  LET v == value % WordLimit
      high == ((v + Page \div 2) \div Page) * Page
  IN  [high |-> high % WordLimit, low |-> v - high]

Linked(r) == CallPlt(placement[r.symbol] + r.addend - (PATCH_VMA + r.offset))

\* The controller (external): comparator i, if it is used and enabled, replaces
\* the instructions at its address by those of the long jump i + 2.
Enabled(i) == object.compare[COMPARE_HEADER_WORDS + i] % 2 = 1
Matches(address) ==
  {i \in 0 .. object.compare[2] - 1 :
     Enabled(i) /\ Even(object.compare[COMPARE_HEADER_WORDS + i]) = address}
Jumps(i) == {r \in object.relocations : r.offset = (i + 2) * 8}

\* Where a call of a function in the ROM ends up.
Targets(address) ==
  IF Matches(address) = {} THEN {address}
  ELSE {Even((address + Linked(r).high + Linked(r).low) % WordLimit) :
          r \in UNION {Jumps(i) : i \in Matches(address)}}

Done == pc \in {"linked", "panic"} /\ UNCHANGED vars

Next == WriteObject \/ Panic \/ Link \/ Done

Spec == Init /\ [][Next]_vars

-----------------------------------------------------------------------------
\* Types; the table fits the controller.
TypeOK ==
  /\ pc \in {"start", "object", "linked", "panic"}
  /\ pc \in {"object", "linked"} =>
       /\ object.compare[2] \in 0 .. INSTRUCTION_COMPARE_COUNT
       /\ Cardinality(object.relocations) = object.compare[2]
       /\ \A i \in DOMAIN object.compare : i >= COMPARE_HEADER_WORDS =>
            Even(object.compare[i]) \in ROM_START .. ROM_END - 1

\* Wherever the linker puts the replacements, a call of each function of the
\* patch list, and of no other function of the ROM, ends up in its replacement;
\* of several names of one function, in one of theirs (build.rs:188-257).
PatchReached ==
  pc = "linked" =>
    /\ \A n \in Listed :
         Targets(Original(n)) =
           {placement[m] : m \in {k \in Listed : Original(k) = Original(n)}}
    /\ \A address \in ROM_START .. ROM_END - 1 :
         address % 2 = 0 /\ address \notin {Original(n) : n \in Listed} =>
           Targets(address) = {address}

\* crates/hisi-rf-link/python/generate-rom-patch.py, which patched the finished
\* ELF, computed the jumps and the order like this (122-130, 148).
LegacyOrder(a, b) == \/ Original(a) < Original(b)
                     \/ Original(a) = Original(b) /\ a < b
LegacyJump(n) ==
  LET offset == (placement[n] - Original(n)) % WordLimit
      low == offset % Page
      high == offset - low
  IN  IF low > Page \div 2 - 1
        THEN [high |-> (high + Page) % WordLimit, low |-> low - Page]
        ELSE [high |-> high, low |-> low]

\* The linked table is, slot by slot, the one of the legacy tool, whatever the
\* order of the patch list (build.rs:188, 208-219, 233-257).
MatchesLegacyTable ==
  pc = "linked" =>
    \A n \in Listed :
      LET i == Cardinality({m \in Listed : LegacyOrder(m, n)})
      IN  /\ object.compare[3 + i] = Original(n) + 1
          /\ {Linked(r) : r \in Jumps(i)} = {LegacyJump(n)}

\* The table does what it is for, and is the one that the tool before it made
\* (build.rs:188-257).
TableRight == TypeOK /\ PatchReached /\ MatchesLegacyTable
=============================================================================
