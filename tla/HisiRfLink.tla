------------------------------ MODULE HisiRfLink ------------------------------
(* The subcommands of hisi-rf-link: main.rs dispatches to one of them. The      *)
(* variables of InitClosure stay in an initial state while another command      *)
(* runs; the other modules share the rest.                                      *)
EXTENDS InitClosure

CONSTANTS
  Archives,                           \* of Normalizer
  Names, Builds, ArgumentLists,       \* of NormalizeCommand
  MaxDirectoryReplaced, MaxRuns,
  ParityInputs,                       \* of GuardedParity
  Profiles, Contents, MaxReplaced,    \* of ArchiveProfile
  TaskInputs, IdLimit,                \* of TaskProfile
  UNUSED, ABSENT, NO_MANIFEST, NO_OWNER

VARIABLES
  command,
  at, given, times, stored, checking,     \* pc, input, round, committed, check
  archive, data, member, table, entry, branchi_sections, counts, output,
  line, parity, tasks, report,
  profile, disk, index, seen, replaced, quiet, faithful,
  files, manifest, arguments, artifacts, touched, runs

N == INSTANCE Normalizer WITH pc <- at, round <- times

D == INSTANCE NormalizeCommand WITH MaxReplaced <- MaxDirectoryReplaced, pc <- at

G == INSTANCE GuardedParity WITH Inputs <- ParityInputs, pc <- at, input <- given

P == INSTANCE ArchiveProfile WITH pc <- at, committed <- stored,
                                  check <- checking, round <- times

T == INSTANCE TaskProfile WITH Inputs <- TaskInputs, pc <- at, input <- given

\* Vendor branches are instructions: they do not overlap.
ASSUME NormalizerAssumption ==
  /\ MaxRounds \in Nat \ {0}
  /\ \A file \in Archives : N!IsFile(file) /\ N!BranchesApart(file)

ASSUME DirectoryAssumption ==
  /\ ArgumentLists \subseteq Seq(D!Paths)
  /\ MaxDirectoryReplaced \in Nat /\ MaxRuns \in Nat

\* Sections that are loaded do not overlap.
ASSUME ParityAssumption ==
  /\ ABSENT \notin Nat \cup Seq(Nat) \cup G!Classes
  /\ \A in \in ParityInputs :
       /\ in.elf \in Seq([alloc : BOOLEAN, address : Nat, cells : Seq(Nat)])
       /\ \A i, j \in DOMAIN in.elf :
            in.elf[i].alloc /\ in.elf[j].alloc /\ i # j =>
              \/ in.elf[i].address + Len(in.elf[i].cells) <= in.elf[j].address
              \/ in.elf[j].address + Len(in.elf[j].cells) <= in.elf[i].address
       /\ in.sites \in Seq([relocation : STRING, rel_vma : Nat,
                            imm32 : Nat \cup {ABSENT}, instruction : Nat,
                            section : Nat, symbol_value : Nat])
       /\ in.archives \in Seq([mergeable : BOOLEAN, cells : Seq(Nat)])

\* The profile is about archives that are there.
ASSUME ProfileAssumption ==
  /\ \A content \in Contents : P!IsArchive(content)
  /\ \A p \in Profiles :
       /\ p.archives \in Seq(DOMAIN p.hash) /\ p.excluded \in Seq(DOMAIN p.hash)
       /\ \A a \in DOMAIN p.hash : P!IsArchive(p.hash[a])
       /\ \A d \in p.disks :
            DOMAIN d = DOMAIN p.hash /\ \A a \in DOMAIN d : P!IsArchive(d[a])

\* Lines of a number are printed by one task after the other. Rows of the profile
\* that are about one function agree where it begins.
ASSUME TaskAssumption ==
  /\ IdLimit \in Nat \ {0} /\ ABSENT # "unknown"
  /\ \A in \in TaskInputs :
       /\ in.log \in Seq([kind : {"TASK", "METRIC", "other"}, id : Nat \cup {ABSENT},
                          entry : Nat \cup {ABSENT}, serial : Nat, task : Nat])
       /\ \A i \in DOMAIN in.log : in.log[i].serial = i
       /\ \A i, j \in DOMAIN in.log :
            /\ i < j /\ in.log[i].id # ABSENT /\ in.log[j].id # ABSENT
            /\ in.log[i].id % IdLimit = in.log[j].id % IdLimit
            => in.log[i].task <= in.log[j].task
       /\ in.symbols \in Seq([name : STRING, address : Nat, defined : BOOLEAN])
       /\ in.profile \in Seq([entry_symbol : STRING, entry_address : Nat \cup {ABSENT},
                              role : STRING, wpa : STRING \cup {ABSENT}])
       /\ \A i \in DOMAIN in.profile : ABSENT \notin {in.profile[i].role,
                                                     in.profile[i].entry_symbol}
       /\ \A i, j \in DOMAIN in.profile :
            in.profile[i].entry_symbol = in.profile[j].entry_symbol
              => in.profile[i].entry_address = in.profile[j].entry_address

-----------------------------------------------------------------------------
normalizer == <<archive, member, table, entry, branchi_sections, counts, output>>
directory == <<files, manifest, arguments, artifacts, touched, runs>>
profiler == <<profile, disk, seen, quiet, faithful, stored, checking>>
joiner == <<tasks, report>>
pool == <<at, given, times, data, index, line, parity, replaced,
          normalizer, directory, profiler, joiner>>

NoNormalizer == /\ archive = UNUSED /\ member = UNUSED /\ table = UNUSED
                /\ entry = UNUSED /\ branchi_sections = UNUSED
                /\ counts = UNUSED /\ output = UNUSED
NoDirectory == /\ files = UNUSED /\ manifest = UNUSED /\ arguments = UNUSED
               /\ artifacts = UNUSED /\ touched = UNUSED /\ runs = UNUSED
NoProfiler == /\ profile = UNUSED /\ disk = UNUSED /\ seen = UNUSED
              /\ quiet = UNUSED /\ faithful = UNUSED
              /\ stored = UNUSED /\ checking = UNUSED
NoJoiner == tasks = UNUSED /\ report = UNUSED

NoClosure == input = (CHOOSE in \in Inputs : TRUE) /\ Init

CommandInit ==
  \/ /\ command = "ble-init-profile" /\ Init
     /\ NoNormalizer /\ NoDirectory /\ NoProfiler /\ NoJoiner
     /\ at = UNUSED /\ given = UNUSED /\ times = UNUSED /\ data = UNUSED
     /\ index = UNUSED /\ line = UNUSED /\ parity = UNUSED /\ replaced = UNUSED
  \/ /\ command = "normalize-archive" /\ NoClosure /\ N!Init
     /\ NoDirectory /\ NoProfiler /\ NoJoiner
     /\ given = UNUSED /\ index = UNUSED /\ line = UNUSED /\ parity = UNUSED
     /\ replaced = UNUSED
  \/ /\ command = "normalize" /\ NoClosure /\ D!Init
     /\ NoNormalizer /\ NoProfiler /\ NoJoiner
     /\ given = UNUSED /\ times = UNUSED /\ line = UNUSED /\ parity = UNUSED
  \/ /\ command = "verify-guarded-sites" /\ NoClosure /\ G!Init
     /\ NoNormalizer /\ NoDirectory /\ NoProfiler /\ NoJoiner
     /\ times = UNUSED /\ data = UNUSED /\ index = UNUSED /\ replaced = UNUSED
  \/ /\ command = "ble-profile" /\ NoClosure /\ P!Init
     /\ NoNormalizer /\ NoDirectory /\ NoJoiner
     /\ given = UNUSED /\ data = UNUSED /\ line = UNUSED /\ parity = UNUSED
  \/ /\ command = "task-profile" /\ NoClosure /\ T!Init
     /\ NoNormalizer /\ NoDirectory /\ NoProfiler
     /\ times = UNUSED /\ data = UNUSED /\ index = UNUSED /\ parity = UNUSED
     /\ replaced = UNUSED

CommandNext ==
  /\ UNCHANGED command
  /\ \/ /\ command = "ble-init-profile" /\ Next /\ UNCHANGED pool
     \/ /\ command = "normalize-archive" /\ N!Next
        /\ UNCHANGED <<vars, given, index, line, parity, replaced,
                       directory, profiler, joiner>>
     \/ /\ command = "normalize" /\ D!Next
        /\ UNCHANGED <<vars, given, times, line, parity,
                       normalizer, profiler, joiner>>
     \/ /\ command = "verify-guarded-sites" /\ G!Next
        /\ UNCHANGED <<vars, times, data, index, replaced,
                       normalizer, directory, profiler, joiner>>
     \/ /\ command = "ble-profile" /\ P!Next
        /\ UNCHANGED <<vars, given, data, line, parity,
                       normalizer, directory, joiner>>
     \/ /\ command = "task-profile" /\ T!Next
        /\ UNCHANGED <<vars, times, data, index, parity, replaced,
                       normalizer, directory, profiler>>

CommandSpec == CommandInit /\ [][CommandNext]_<<command, vars, pool>>

-----------------------------------------------------------------------------
\* A standard linker makes of an archive that was normalised the code that the
\* vendor's linker makes of the original (normalize.rs:447-614).
SameCode == command = "normalize-archive" => N!SameCode

\* The manifest of an archive counts what an inspection finds, and the verifier
\* accepts what was written (normalize.rs:168-200, 554-567, 813-879).
ManifestAgrees == command = "normalize-archive" => N!ManifestAgrees

\* What was normalised is normalised: a second run changes no byte
\* (normalize.rs:464-614).
SecondRunChangesNothing ==
  [][command = "normalize-archive" => N!SecondRunStep]_<<command, pool>>

\* An archive that is written holds no vendor relocation
\* (crates/hisi-rf-link/README.md:21-22, normalize.rs:405-411, 603-609).
FailsClosed == command = "normalize-archive" => N!FailsClosed

\* A directory that verify-normalized accepts, and the manifest of a run that
\* finished, say what is there (main.rs:73-143, normalize.rs:846-879).
DirectoryAgrees == command = "normalize" => D!DirectoryAgrees

\* An ELF is accepted exactly if it means the same as the guarded one at each
\* site, wherever strings were merged (normalize.rs:998-1068).
ParityExact == command = "verify-guarded-sites" => G!ParityExact

\* What a report says holds of the pinned archives, whenever files are replaced
\* (ble_profile.rs:316-461).
ReportTrue == command = "ble-profile" => P!ReportTrue

\* Every row of a task report is a record with the measurements after it, which are
\* those of one task unless the record of a later one is missing, and with a role
\* that the profile gives to the entry (task_profile.rs:148-280).
RowsRight == command = "task-profile" => T!RowsRight
=============================================================================
