--------------------------- MODULE ArchiveProfile ----------------------------
(* ble-profile and sle-profile (crates/hisi-rf-link/src/ble_profile.rs): the    *)
(* report on a set of archives whose hashes a profile pins - what they occupy,  *)
(* which symbols they need from outside, and who owns each. The command writes  *)
(* the report, or compares it with the committed one (--check).                 *)
(*                                                                              *)
(* Each archive is read four times: for its hash, its symbols, its memory and   *)
(* its relocations. Nothing keeps another command from replacing the file in    *)
(* between. A content stands for its hash.                                      *)
EXTENDS ArchiveContents

CONSTANTS
  Profiles,      \* what a profile and the files beside it may say
  Contents,      \* what an archive may be replaced by
  MaxReplaced, MaxRounds,
  NO_REPORT, NO_OWNER

VARIABLES
  profile,
  disk,          \* content of each archive
  pc,            \* "hash", "symbols", "memory", "relocations",
                 \* "excluded", "admit", "ready", "written", "checked", "failed"
  index,         \* of the archive that is read
  seen,          \* what has been read of the archives so far
  committed,     \* the report in the output file
  check, round,
  replaced,
  quiet,         \* history: no file was replaced during this run
  faithful       \* history: nor during the run that wrote the report

vars == <<profile, disk, pc, index, seen, committed, check, round, replaced,
          quiet, faithful>>

Nothing == [symbols |-> [a \in {} |-> {}], crossings |-> 0,
            memory |-> [k \in {"text", "rodata", "data", "bss"} |-> 0]]

Init == /\ profile \in Profiles
        /\ disk \in profile.disks
        /\ pc = "hash" /\ index = 1 /\ seen = Nothing
        /\ committed = NO_REPORT /\ check = FALSE /\ round = 1
        /\ replaced = 0 /\ quiet = TRUE /\ faithful = FALSE

Listed == profile.archives
Excluded == profile.excluded

\* Another command, or a person, replaces an archive (external).
Replace(a, content) ==
  /\ replaced < MaxReplaced /\ disk[a] # content
  /\ disk' = [disk EXCEPT ![a] = content]
  /\ replaced' = replaced + 1
  /\ quiet' = FALSE
  /\ UNCHANGED <<profile, pc, index, seen, committed, check, round, faithful>>

Keep == UNCHANGED <<profile, disk, committed, check, round, replaced, quiet,
                    faithful>>

-----------------------------------------------------------------------------
Pinned(a) == disk[a] = profile.hash[a]

ReadHash ==
  /\ pc = "hash" /\ index <= Len(Listed)
  /\ pc' = IF Pinned(Listed[index]) THEN "symbols" ELSE "failed"
  /\ UNCHANGED <<index, seen>> /\ Keep

ReadSymbols ==
  /\ pc = "symbols"
  /\ LET a == Listed[index]
         symbols == [defined |-> Defined(disk[a]), undefined |-> Undefined(disk[a])]
     IN  seen' = [seen EXCEPT !.symbols =
           [b \in DOMAIN @ \cup {a} |-> IF b = a THEN symbols ELSE @[b]]]
  /\ pc' = "memory"
  /\ UNCHANGED index /\ Keep

AddMemory(total, archive) == [k \in DOMAIN total |-> total[k] + Memory(archive)[k]]

ReadMemory ==
  /\ pc = "memory"
  /\ seen' = [seen EXCEPT !.memory = AddMemory(@, disk[Listed[index]])]
  /\ pc' = "relocations"
  /\ UNCHANGED index /\ Keep

ReadRelocations ==
  /\ pc = "relocations"
  /\ seen' = [seen EXCEPT !.crossings = @ + Crossings(disk[Listed[index]])]
  /\ pc' = "hash" /\ index' = index + 1
  /\ Keep

\* Each symbol of the contract is defined by the archive it is assigned to.
ContractKept ==
  \A c \in profile.contract :
    /\ c.archive \in DOMAIN seen.symbols
    /\ c.name \in seen.symbols[c.archive].defined

Contract ==
  /\ pc = "hash" /\ index > Len(Listed)
  /\ pc' = IF ContractKept THEN "excluded" ELSE "failed"
  /\ index' = 1
  /\ UNCHANGED seen /\ Keep

\* The siblings are not part of the profile: only their hash is compared, and
\* their relocations counted.
ReadExcluded ==
  /\ pc = "excluded" /\ index <= Len(Excluded)
  /\ IF Pinned(Excluded[index])
       THEN index' = index + 1 /\ UNCHANGED pc
       ELSE pc' = "failed" /\ UNCHANGED index
  /\ UNCHANGED seen /\ Keep

ReadAll == /\ pc = "excluded" /\ index > Len(Excluded)
           /\ pc' = "admit" /\ UNCHANGED <<index, seen>> /\ Keep

\* The ROM comes before the table of names and prefixes.
Owner(symbol) == IF symbol \in profile.rom THEN "hisi-rom-sys-ws63"
                 ELSE IF symbol \in DOMAIN profile.owners
                        THEN profile.owners[symbol] ELSE NO_OWNER

AllOf(field) == UNION {seen.symbols[a][field] : a \in DOMAIN seen.symbols}

\* What no archive of the profile defines, with its owner.
Required == {[name |-> s, owner |-> Owner(s)] :
               s \in AllOf("undefined") \ AllOf("defined")}

\* The report counts the symbols of an archive, and names the required ones.
Report ==
  [counts |-> [a \in DOMAIN seen.symbols |->
                 << Cardinality(seen.symbols[a].defined),
                    Cardinality(seen.symbols[a].undefined) >>],
   memory |-> seen.memory, required |-> Required]

Admitted == /\ \A r \in Required : r.owner # NO_OWNER
            /\ seen.crossings = 0

Admit ==
  /\ pc = "admit"
  /\ pc' = IF Admitted THEN "ready" ELSE "failed"
  /\ UNCHANGED <<index, seen>> /\ Keep

\* faulty variant: the report is only compared in what it requires.
MatchesRequired == committed # NO_REPORT /\ committed.required = Required

Matches == committed = Report

Write ==
  /\ pc = "ready" /\ ~check
  /\ committed' = Report /\ faithful' = quiet
  /\ pc' = "written"
  /\ UNCHANGED <<profile, disk, index, seen, check, round, replaced, quiet>>

Compare ==
  /\ pc = "ready" /\ check
  /\ pc' = IF Matches THEN "checked" ELSE "failed"
  /\ UNCHANGED <<index, seen>> /\ Keep

\* The command is run again, with or without --check.
Again ==
  /\ pc \in {"written", "checked", "failed"} /\ round < MaxRounds
  /\ pc' = "hash" /\ index' = 1 /\ seen' = Nothing
  /\ check' \in BOOLEAN /\ round' = round + 1 /\ quiet' = TRUE
  /\ UNCHANGED <<profile, disk, committed, replaced, faithful>>

Done == /\ pc \in {"written", "checked", "failed"} /\ round = MaxRounds
        /\ UNCHANGED vars

Next == \/ ReadHash \/ ReadSymbols \/ ReadMemory \/ ReadRelocations
        \/ Contract \/ ReadExcluded \/ ReadAll \/ Admit \/ Write \/ Compare
        \/ Again \/ Done
        \/ \E a \in DOMAIN disk, content \in Contents : Replace(a, content)

Spec == Init /\ [][Next]_vars

-----------------------------------------------------------------------------
\* The report the profile calls for, from the pinned contents at once.
Content(a) == profile.hash[a]
ARCHIVES == {Listed[i] : i \in DOMAIN Listed}
AllDefined == UNION {Defined(Content(a)) : a \in ARCHIVES}
AllUndefined == UNION {Undefined(Content(a)) : a \in ARCHIVES}

\* The bytes of the sections that are loaded, of a member and of an archive.
LoadedOf(member) ==
  SumUpTo([k \in DOMAIN member.sections |->
             IF member.sections[k].alloc THEN member.sections[k].size ELSE 0],
          Len(member.sections))
Loaded(archive) ==
  SumUpTo([m \in DOMAIN archive |-> LoadedOf(archive[m])], Len(archive))

\* Types; nothing but an archive of the profile is counted, and each of them, and
\* every sibling, has been looked at when the report is made.
TypeOK ==
  /\ pc \in {"hash", "symbols", "memory", "relocations", "excluded", "admit",
             "ready", "written", "checked", "failed"}
  /\ index \in 1 .. Len(Listed) + Len(Excluded) + 1
  /\ DOMAIN seen.symbols \subseteq ARCHIVES
  /\ seen.crossings \in Nat
  /\ pc \in {"admit", "ready", "written", "checked"} =>
       DOMAIN seen.symbols = ARCHIVES /\ index = Len(Excluded) + 1

\* A report made while the files were left alone is about the pinned archives:
\* all that any of them needs is defined among them or required of an owner,
\* nothing is required that one of them defines, and no byte of a section that
\* is loaded is counted twice or not at all (ble_profile.rs:316-415).
ReportComplete ==
  faithful =>
    LET names == {r.name : r \in committed.required}
    IN  /\ names = AllUndefined \ AllDefined
        /\ \A r \in committed.required : r.owner # NO_OWNER
        /\ committed.memory["text"] + committed.memory["rodata"]
             + committed.memory["data"] + committed.memory["bss"]
             = SumUpTo([i \in DOMAIN Listed |-> Loaded(Content(Listed[i]))],
                       Len(Listed))

\* What a faithful report promises the linker: the contract symbols are where the
\* profile says, and no branch goes to a section of another name. (Normalize looks at
\* the numbers of sections and at more: this does not say that it will refuse none.)
\* (ble_profile.rs:357-370, 416-422).
PromisesKept ==
  faithful =>
    /\ \A c \in profile.contract :
         c.archive \in ARCHIVES /\ c.name \in Defined(Content(c.archive))
    /\ \A a \in ARCHIVES : Crossings(Content(a)) = 0

\* A report that passes --check is confirmed by what was read in that run, even
\* if archives were replaced between the reads: what is required from outside and
\* what has to be reserved are those of the pinned archives, and the contract
\* holds (ble_profile.rs:323-370, 451-461).
CheckConfirms ==
  pc = "checked" /\ faithful =>
    /\ AllOf("undefined") \ AllOf("defined")
         = AllUndefined \ AllDefined
    /\ \A k \in DOMAIN seen.memory :
         seen.memory[k] = SumUpTo([i \in DOMAIN Listed |->
                                     Memory(Content(Listed[i]))[k]], Len(Listed))
    /\ ContractKept

\* What a report says holds of the pinned archives, whenever files are replaced
\* (ble_profile.rs:316-461).
ReportTrue == TypeOK /\ ReportComplete /\ PromisesKept /\ CheckConfirms
=============================================================================
