--------------------------- MODULE ArchiveContents ---------------------------
(* What crates/hisi-rf-link/src/normalize.rs reads out of one archive for the   *)
(* profiles: its global symbols, what its sections occupy, and its vendor       *)
(* branches. An archive is a sequence of members, each with a set of symbols    *)
(* [name, binding, section], a sequence of sections [alloc, exec, write,        *)
(* nobits, size], and its relocation records.                                   *)
EXTENDS Integers, FiniteSets, Lists

UNDEF == 0                  \* SHN_UNDEF
GLOBAL == {1, 2}            \* STB_GLOBAL and STB_WEAK

\* What an archive is, as far as its sums are concerned.
Section == [alloc : BOOLEAN, exec : BOOLEAN, write : BOOLEAN, nobits : BOOLEAN,
            size : Nat]
IsArchive(archive) ==
  /\ Len(archive) \in Nat /\ DOMAIN archive = 1 .. Len(archive)
  /\ \A m \in DOMAIN archive : /\ archive[m].sections \in Seq(Section)
                              /\ IsFiniteSet(archive[m].branches)

Of(archive, field) == UNION {archive[m][field] : m \in DOMAIN archive}

\* inspect_archive_member_symbols: local and nameless symbols do not count.
Global(archive) ==
  {s \in Of(archive, "symbols") : s.name # "" /\ s.binding \in GLOBAL}

Defined(archive) == {s.name : s \in {t \in Global(archive) : t.section # UNDEF}}
Undefined(archive) == {s.name : s \in {t \in Global(archive) : t.section = UNDEF}}

\* Where a section ends up.
Kind(section) ==
  CASE section.exec     -> "text"
    [] ~section.write   -> "rodata"
    [] section.nobits   -> "bss"
    [] OTHER            -> "data"

\* The bytes of a kind, in one member and in the archive.
Occupies(member, kind) ==
  SumUpTo([i \in DOMAIN member.sections |->
             IF member.sections[i].alloc /\ Kind(member.sections[i]) = kind
               THEN member.sections[i].size ELSE 0],
          Len(member.sections))

Memory(archive) ==
  [kind \in {"text", "rodata", "data", "bss"} |->
     SumUpTo([m \in DOMAIN archive |-> Occupies(archive[m], kind)], Len(archive))]

\* inspect_archive and summarize: vendor branches into another section.
Crossings(archive) ==
  SumUpTo([m \in DOMAIN archive |->
             Cardinality({r \in archive[m].branches : ~r.same_section})],
          Len(archive))
=============================================================================
