------------------------------ MODULE CargoBuild ------------------------------
(* What goes into an image: the choice of what is linked (LinkContract), the    *)
(* table for the ROM that the script writes and the linker completes            *)
(* (RomPatchTable), and the archives in the blob crate, under the commands that *)
(* maintain them ("release") and beside a build of the crate ("crate":          *)
(* ArtifactRelease). Each part starts from initial states of its own; the       *)
(* variables of the others then stay in one of theirs.                          *)
EXTENDS LinkContract, ArtifactRelease

CONSTANTS
  UNUSED,
  NoWorld,                         \* where the world of LinkContract then stays
  RomTables, Placements,           \* of RomPatchTable
  WordLimit, Page, ROM_START, ROM_END, PATCH_VMA,
  DATA_PATCH_ENTRY_COUNT, INSTRUCTION_COMPARE_COUNT, COMPARE_HEADER_WORDS

VARIABLES
  part,
  input, pc, object, placement

T == INSTANCE RomPatchTable WITH Inputs <- RomTables

\* Names of symbols are numbers; functions have even addresses.
ASSUME TableAssumption ==
  /\ WordLimit \in Nat \ {0} /\ Page \in Nat \ {0} /\ Page % 2 = 0
  /\ {ROM_START, ROM_END, PATCH_VMA} \subseteq Nat /\ ROM_END <= WordLimit
  /\ DATA_PATCH_ENTRY_COUNT = 2 /\ COMPARE_HEADER_WORDS = 3
  /\ INSTRUCTION_COMPARE_COUNT \in Nat
  /\ \A in \in RomTables :
       /\ in.symbols \in Seq([kind : STRING, name : Nat, address : Nat])
       /\ in.patches \in Seq(Nat)
       /\ \A place \in Placements : \A i \in DOMAIN in.patches :
            /\ place[in.patches[i]] \in 0 .. WordLimit - 1
            /\ place[in.patches[i]] % 2 = 0

-----------------------------------------------------------------------------
romtable == <<input, pc, object, placement>>

NoTable == /\ input = UNUSED /\ pc = UNUSED
           /\ object = UNUSED /\ placement = UNUSED
NoContract == world = NoWorld /\ Init

BuildInit ==
  \/ part = "contract" /\ Init /\ NoTable /\ ReleaseInit
  \/ part = "table" /\ NoContract /\ T!Init /\ ReleaseInit
  \/ part \in {"release", "crate"} /\ NoContract /\ NoTable /\ ReleaseInit

BuildNext ==
  /\ UNCHANGED part
  /\ \/ part = "contract" /\ Next /\ UNCHANGED <<romtable, release_vars>>
     \/ part = "table" /\ T!Next /\ UNCHANGED <<vars, release_vars>>
     \/ /\ part \in {"release", "crate"}
        /\ ReleaseNext /\ UNCHANGED <<vars, romtable>>

BuildSpec == BuildInit /\ [][BuildNext]_<<part, vars, romtable, release_vars>>

-----------------------------------------------------------------------------
\* Wherever the linker puts the replacements, a call of a patched function of the
\* ROM ends up in its replacement, and the table is the one that the tool before
\* made (build.rs:188-257).
TableRight == part = "table" => T!TableRight
=============================================================================
