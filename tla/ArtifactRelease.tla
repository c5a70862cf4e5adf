--------------------------- MODULE ArtifactRelease ---------------------------
(* The packaged archives of crates/ws63-radio-blob/artifacts and the programs   *)
(* that meet there: rebuild-native-supplicant (hisi-rf-link/native_supplicant   *)
(* .rs), which either compares a rebuild with manifest and payloads or, with    *)
(* --update-artifacts, replaces them; and the build script of the blob crate,   *)
(* which expands the payloads for its users. Nothing locks the files: several   *)
(* commands may run at a time, each with an output directory of its own, and    *)
(* each may be killed. fs::write truncates a file before it fills it.           *)
(*                                                                              *)
(* What a compilation produces is the archive's name with the version of the    *)
(* sources and the compiler; it stands for its bytes, size and hash.            *)
EXTENDS Integers, Sequences, FiniteSets

CONSTANTS
  Process,       \* runs of rebuild-native-supplicant
  Supplicant,    \* the archives of each native group, in manifest order
  Authenticator,
  MaxSourceEdits,      \* changes of the source tree
  MaxCrashes,
  Cargo,         \* whether users build the blob crate meanwhile
  PARTIAL,       \* content of a file that is not written to the end
  NO_ARCHIVE         \* no file

VARIABLES
  tree,       \* version of the sources, revision in their profile
  manifest,   \* manifest.json: hash by archive, revision; or PARTIAL
  payload,    \* the .zst files: content by archive, or PARTIAL
  proc,       \* the commands, each with its output directory
  build,      \* the build script of the blob crate and its OUT_DIR/lib
  releases,   \* history: the artifact tables of all manifests so far
  crashes

release_vars == <<tree, manifest, payload, proc, build, releases, crashes>>

Members(s) == {s[i] : i \in DOMAIN s}
Listed == Supplicant \o Authenticator      \* the artifacts of the manifest
ARCHIVES == Members(Listed)
GROUPS == {"both", "supplicant", "authenticator"}
COMPILERS == {"pinned", "other"}

\* --group selects; the supplicant's profiles come first.
SelectedArchives(group) == CASE group = "supplicant"    -> Supplicant
                             [] group = "authenticator" -> Authenticator
                             [] OTHER                   -> Listed

\* A manifest names a content of its own for each archive; a file that was cut off
\* is none.
CONTENTS(a) == {a} \X (0 .. MaxSourceEdits) \X COMPILERS
MANIFESTS == [artifacts : [ARCHIVES -> UNION {CONTENTS(a) : a \in ARCHIVES}],
              revision : 0 .. MaxSourceEdits]

ASSUME ReleaseAssumption ==
  /\ Supplicant \in Seq(STRING) \ {<<>>}
  /\ Authenticator \in Seq(STRING) \ {<<>>}
  /\ MaxSourceEdits \in Nat /\ MaxCrashes \in Nat
  /\ PARTIAL \notin MANIFESTS

Compiled(archive, compiler) == <<archive, tree.version, compiler>>

Artifacts0 == [a \in ARCHIVES |-> <<a, 0, "pinned">>]
Manifest0 == [artifacts |-> Artifacts0, revision |-> 0]
Nothing == [a \in ARCHIVES |-> NO_ARCHIVE]

\* A command that has ended. What it leaves in its output directory is not kept:
\* the next one builds an archive there before it reads it.
Idle == [pc |-> "idle", update |-> FALSE, group |-> "both",
         compiler |-> "pinned", todo |-> <<>>, loaded |-> Manifest0,
         output |-> Nothing, disturbed |-> FALSE]

NotBuilding == [pc |-> "idle", loaded |-> Manifest0, todo |-> <<>>,
                lib |-> Nothing]

ReleaseInit ==
  /\ tree = [version |-> 0, revision |-> 0]
  /\ manifest = Manifest0
  /\ payload = Artifacts0
  /\ proc = [p \in Process |-> Idle]
  /\ build = NotBuilding
  /\ releases = {Artifacts0}
  /\ crashes = 0

Active(p) == proc[p].pc # "idle"

\* The files changed under the feet of the processes other than those in ps.
Disturbed(procs, ps) ==
  [p \in Process |-> IF p \notin ps /\ procs[p].pc # "idle"
                       THEN [procs[p] EXCEPT !.disturbed = TRUE]
                       ELSE procs[p]]

-----------------------------------------------------------------------------
\* The maintainer (external): edits of the sources, the revision in the
\* manifest, and git for a manifest that no longer parses.
EditSources(revised) ==
  /\ tree.version < MaxSourceEdits
  /\ tree' = [version |-> tree.version + 1,
              revision |-> IF revised THEN tree.revision + 1
                                      ELSE tree.revision]
  /\ proc' = Disturbed(proc, {})
  /\ UNCHANGED <<manifest, payload, build, releases, crashes>>

DeclareRevision ==
  /\ manifest # PARTIAL /\ manifest.revision # tree.revision
  /\ manifest' = [manifest EXCEPT !.revision = tree.revision]
  /\ proc' = Disturbed(proc, {})
  /\ UNCHANGED <<tree, payload, build, releases, crashes>>

Restore ==
  /\ manifest = PARTIAL /\ \A p \in Process : ~Active(p)
  /\ manifest' = Manifest0
  /\ UNCHANGED <<tree, payload, proc, build, releases, crashes>>

-----------------------------------------------------------------------------
\* rebuild: the manifest is read once, at the beginning.
Start(p, update, group, compiler) ==
  /\ ~Active(p) /\ manifest # PARTIAL
  /\ proc' = [proc EXCEPT ![p] =
       [pc |-> "build", update |-> update, group |-> group,
        compiler |-> compiler, todo |-> SelectedArchives(group),
        loaded |-> manifest, output |-> Nothing, disturbed |-> FALSE]]
  /\ UNCHANGED <<tree, manifest, payload, build, releases, crashes>>

\* faulty variant: the version of the compiler is not compared.
AdmittedAnyCompiler(p) == tree.revision = proc[p].loaded.revision

\* validate_native_group and the revision that build_profile compares.
Admitted(p) == /\ proc[p].compiler = "pinned"
               /\ tree.revision = proc[p].loaded.revision

BuildProfile(p) ==
  /\ proc[p].pc = "build" /\ proc[p].todo # <<>>
  /\ Admitted(p)
  /\ LET a == Head(proc[p].todo)
         built == [proc EXCEPT ![p].output[a] = Compiled(a, proc[p].compiler)]
     IN  proc' = IF proc[p].update
                   THEN [built EXCEPT ![p].todo = Tail(@)]
                   ELSE [built EXCEPT ![p].pc = "compare"]
  /\ UNCHANGED <<tree, manifest, payload, build, releases, crashes>>

\* faulty variant: only the manifest is compared, not the payload.
ReproducesManifest(p, a) == proc[p].output[a] = proc[p].loaded.artifacts[a]

\* Without --update-artifacts: manifest and payload, byte for byte.
Reproduces(p, a) == /\ proc[p].output[a] = proc[p].loaded.artifacts[a]
                    /\ proc[p].output[a] = payload[a]

Compare(p) ==
  /\ proc[p].pc = "compare"
  /\ Reproduces(p, Head(proc[p].todo))
  /\ proc' = [proc EXCEPT ![p].pc = "build", ![p].todo = Tail(@)]
  /\ UNCHANGED <<tree, manifest, payload, build, releases, crashes>>

Fail(p) ==
  /\ \/ proc[p].pc = "build" /\ proc[p].todo # <<>> /\ ~Admitted(p)
     \/ proc[p].pc = "compare" /\ ~Reproduces(p, Head(proc[p].todo))
  /\ proc' = [proc EXCEPT ![p] = Idle]
  /\ UNCHANGED <<tree, manifest, payload, build, releases, crashes>>

BuildsDone(p) ==
  /\ proc[p].pc = "build" /\ proc[p].todo = <<>>
  /\ proc' = IF proc[p].update
               THEN [proc EXCEPT ![p].pc = "publish",
                                 ![p].todo = SelectedArchives(proc[p].group)]
               ELSE [proc EXCEPT ![p].pc = "ok"]
  /\ UNCHANGED <<tree, manifest, payload, build, releases, crashes>>

\* fs::write, first and second half. If another process has written between the
\* two, its longer file may show behind this one's.
Filled(old, new) == IF old = PARTIAL THEN {new} ELSE {new, PARTIAL}

TruncatePayload(p) ==
  /\ proc[p].pc = "publish" /\ proc[p].todo # <<>>
  /\ payload' = [payload EXCEPT ![Head(proc[p].todo)] = PARTIAL]
  /\ proc' = Disturbed([proc EXCEPT ![p].pc = "payload"], {p})
  /\ UNCHANGED <<tree, manifest, build, releases, crashes>>

Recorded(loaded, a, content) == [loaded EXCEPT !.artifacts[a] = content]

WritePayload(p) ==
  /\ proc[p].pc = "payload"
  /\ LET a == Head(proc[p].todo)
         content == proc[p].output[a]
     IN  /\ \E c \in Filled(payload[a], content) :
              payload' = [payload EXCEPT ![a] = c]
         /\ proc' = Disturbed(
              [proc EXCEPT ![p].pc = "publish", ![p].todo = Tail(@),
                           ![p].loaded = Recorded(@, a, content)], {p})
  /\ UNCHANGED <<tree, manifest, build, releases, crashes>>

TruncateManifest(p) ==
  /\ proc[p].pc = "publish" /\ proc[p].todo = <<>>
  /\ manifest' = PARTIAL
  /\ proc' = Disturbed([proc EXCEPT ![p].pc = "manifest"], {p})
  /\ UNCHANGED <<tree, payload, build, releases, crashes>>

WriteManifest(p) ==
  /\ proc[p].pc = "manifest"
  /\ manifest' \in Filled(manifest, proc[p].loaded)
  /\ releases' = releases \cup {proc[p].loaded.artifacts}
  /\ proc' = Disturbed([proc EXCEPT ![p].pc = "ok"], {p})
  /\ UNCHANGED <<tree, payload, build, crashes>>

Exit(p) ==
  /\ proc[p].pc = "ok"
  /\ proc' = [proc EXCEPT ![p] = Idle]
  /\ UNCHANGED <<tree, manifest, payload, build, releases, crashes>>

\* The process is killed; the packaged files stay as they are.
Crash(p) ==
  /\ Active(p) /\ proc[p].pc # "ok"
  /\ crashes < MaxCrashes /\ crashes' = crashes + 1
  /\ proc' = [proc EXCEPT ![p] = Idle]
  /\ UNCHANGED <<tree, manifest, payload, build, releases>>

-----------------------------------------------------------------------------
\* The build script of ws63-radio-blob expands every artifact of the manifest in
\* turn; a panic ends it without exports.
CargoStart ==
  /\ Cargo /\ build.pc = "idle" /\ manifest # PARTIAL
  /\ build' = [pc |-> "expand", loaded |-> manifest, todo |-> Listed,
               lib |-> Nothing]
  /\ UNCHANGED <<tree, manifest, payload, proc, releases, crashes>>

\* The assertions on size and hash.
ExpandsAsListed(a) == payload[a] = build.loaded.artifacts[a]

CargoExpand ==
  /\ build.pc = "expand" /\ build.todo # <<>>
  /\ LET a == Head(build.todo)
     IN  build' = IF ExpandsAsListed(a)
                    THEN [build EXCEPT !.lib[a] = payload[a],
                                       !.todo = Tail(@)]
                    ELSE NotBuilding
  /\ UNCHANGED <<tree, manifest, payload, proc, releases, crashes>>

CargoExport ==
  /\ build.pc = "expand" /\ build.todo = <<>>
  /\ build' = [build EXCEPT !.pc = "ok"]
  /\ UNCHANGED <<tree, manifest, payload, proc, releases, crashes>>

CargoEnd ==
  /\ build.pc = "ok"
  /\ build' = NotBuilding
  /\ UNCHANGED <<tree, manifest, payload, proc, releases, crashes>>

-----------------------------------------------------------------------------
Step(p) == \/ BuildProfile(p) \/ Compare(p) \/ Fail(p) \/ BuildsDone(p)
           \/ TruncatePayload(p) \/ WritePayload(p)
           \/ TruncateManifest(p) \/ WriteManifest(p) \/ Exit(p)

ReleaseNext ==
  \/ \E revised \in BOOLEAN : EditSources(revised)
  \/ DeclareRevision \/ Restore
  \/ \E p \in Process :
       \/ \E update \in BOOLEAN, group \in GROUPS,
             compiler \in COMPILERS : Start(p, update, group, compiler)
       \/ Step(p) \/ Crash(p)
  \/ CargoStart \/ CargoExpand \/ CargoExport \/ CargoEnd

ReleaseSpec == ReleaseInit /\ [][ReleaseNext]_release_vars

-----------------------------------------------------------------------------
IsManifest(m) == /\ m.revision \in 0 .. MaxSourceEdits
                 /\ \A a \in ARCHIVES : m.artifacts[a] \in CONTENTS(a)

\* Types; every file, and every line of the manifest, is about its own archive.
ReleaseTypeOK ==
  /\ tree \in [version : 0 .. MaxSourceEdits, revision : 0 .. MaxSourceEdits]
  /\ manifest = PARTIAL \/ IsManifest(manifest)
  /\ \A a \in ARCHIVES :
       /\ payload[a] = PARTIAL \/ payload[a] \in CONTENTS(a)
       /\ build.lib[a] = NO_ARCHIVE \/ build.lib[a] \in CONTENTS(a)
       /\ \A p \in Process :
            proc[p].output[a] = NO_ARCHIVE \/ proc[p].output[a] \in CONTENTS(a)
  /\ \A p \in Process :
       /\ proc[p].pc \in {"idle", "build", "compare", "publish", "payload",
                          "manifest", "ok"}
       /\ Members(proc[p].todo) \subseteq ARCHIVES
       /\ IsManifest(proc[p].loaded)
  /\ build.pc \in {"idle", "expand", "ok"}
  /\ crashes \in 0 .. MaxCrashes

\* A build of the blob crate that succeeds exports the archives of one manifest,
\* all of them, whatever updates run or were killed beside it
\* (ws63-radio-blob/build.rs:97-119).
ExportsAreARelease == build.pc = "ok" => build.lib \in releases

\* Nothing that another compiler made ever reaches manifest, payloads or a
\* user (native_supplicant.rs:345-376).
OnlyPinnedReleased ==
  \A a \in ARCHIVES :
    /\ manifest # PARTIAL => manifest.artifacts[a][3] = "pinned"
    /\ payload[a] # PARTIAL => payload[a][3] = "pinned"
    /\ build.lib[a] # NO_ARCHIVE => build.lib[a][3] = "pinned"

Agrees(a) == /\ manifest # PARTIAL
             /\ payload[a] = manifest.artifacts[a]
             /\ payload[a] = <<a, tree.version, "pinned">>

\* A rebuild that reports a match, while nobody else touched the files, means
\* that sources, manifest and payloads of the group agree, revision included
\* (native_supplicant.rs:400-424).
VerifiedIsReproducible ==
  \A p \in Process :
    proc[p].pc = "ok" /\ ~proc[p].update /\ ~proc[p].disturbed =>
      /\ \A a \in Members(SelectedArchives(proc[p].group)) : Agrees(a)
      /\ manifest.revision = tree.revision

\* An update that completes undisturbed leaves the same agreement, also where a
\* killed one had left a mess (native_supplicant.rs:473-520).
UpdateRepairs ==
  \A p \in Process :
    proc[p].pc = "ok" /\ proc[p].update /\ ~proc[p].disturbed =>
      /\ \A a \in Members(SelectedArchives(proc[p].group)) : Agrees(a)
      /\ manifest.revision = tree.revision

\* A user of the blob crate, and whoever looks into the repository, gets archives of
\* the pinned compiler only, and the user those of one manifest
\* (ws63-radio-blob/build.rs:97-119, native_supplicant.rs:345-376).
OnlyReleased == ExportsAreARelease /\ OnlyPinnedReleased

\* A command that ends well and undisturbed, check or update, speaks of sources,
\* manifest and payloads as they are (native_supplicant.rs:400-520).
OkIsReproducible == ReleaseTypeOK /\ VerifiedIsReproducible /\ UpdateRepairs
=============================================================================
