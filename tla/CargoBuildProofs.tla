--------------------------- MODULE CargoBuildProofs ---------------------------
(* Proofs about what goes into an image. LinkContract: for any worlds and edits, *)
(* however many, what is linked is what the script would print now, and of the  *)
(* pinned revisions; what the script prints, and all but two of its checks,     *)
(* depend on what Cargo watches only.                                           *)
(* ArtifactRelease: for any archives, and any number of commands, edits and     *)
(* crashes, what is released is of the pinned compiler and of one manifest, and *)
(* what a command reports is true; each content is traced to its compilation.   *)
(* RomPatchTable: for any symbols, patches and placements, a patched function   *)
(* of the ROM is replaced, and the table is the one of the tool before.         *)
EXTENDS CargoBuild, Collections

\* The groups of a world that are of the expected revisions.
AllPinned(w) == \A group \in Selected(w) : w.revisions[group] = Expected(w, group)

\* The world is as good as the script can still know of it: see OutputIsFresh.
Fits(w) == Consistent(w) /\ (LibDir(w) = "packaged" => ArchivesPresent(w))

\* What was printed is what any world would print that looks the same to Cargo,
\* and such a world is as good; after a build this one is.
IInv ==
  /\ output # NO_OUTPUT =>
       \A w : Watched(w) = watched => output = Printed(w) /\ Fits(w)
  /\ built /\ output # NO_OUTPUT => watched = Watched(world)

-----------------------------------------------------------------------------
\* Two worlds that look the same to Cargo agree in what it watches.
LEMMA WatchedFields ==
  ASSUME NEW v, NEW w, Watched(v) = Watched(w)
  PROVE  /\ v.features = w.features /\ v.profile = w.profile
         /\ v.lib_dir = w.lib_dir /\ v.revisions = w.revisions
         /\ v.rom_symbols = w.rom_symbols /\ v.rom_patches = w.rom_patches
         /\ Lib(v) = Lib(w)
<1>1. /\ Watched(v).features = Watched(w).features
      /\ Watched(v).profile = Watched(w).profile
      /\ Watched(v).lib_dir = Watched(w).lib_dir
      /\ Watched(v).revisions = Watched(w).revisions
      /\ Watched(v).rom_symbols = Watched(w).rom_symbols
      /\ Watched(v).rom_patches = Watched(w).rom_patches
      /\ Watched(v).lib = Watched(w).lib
  OBVIOUS
<1>2. ASSUME NEW x
      PROVE  /\ Watched(x).features = x.features
             /\ Watched(x).profile = x.profile
             /\ Watched(x).lib_dir = x.lib_dir
             /\ Watched(x).revisions = x.revisions
             /\ Watched(x).rom_symbols = x.rom_symbols
             /\ Watched(x).rom_patches = x.rom_patches
             /\ Watched(x).lib = Lib(x)
  BY DEF Watched
<1> QED BY <1>1, <1>2

\* The script selects the same groups and prints the same for both.
LEMMA SamePrinted ==
  ASSUME NEW v, NEW w, Watched(v) = Watched(w)
  PROVE  /\ Selected(v) = Selected(w)
         /\ LibDir(v) = LibDir(w)
         /\ Printed(v) = Printed(w)
<1>1. /\ v.features = w.features /\ v.profile = w.profile
      /\ v.lib_dir = w.lib_dir /\ v.revisions = w.revisions
      /\ v.rom_symbols = w.rom_symbols /\ v.rom_patches = w.rom_patches
  BY WatchedFields
<1>2. Selected(v) = Selected(w)
  BY <1>1 DEF Selected
<1>3. LibDir(v) = LibDir(w)
  BY <1>1 DEF LibDir
<1>4. WpaArchives(v) = WpaArchives(w)
  BY <1>1 DEF WpaArchives, SelectedWpa
<1>5. [group \in Selected(v) |-> v.revisions[group]]
        = [group \in Selected(w) |-> w.revisions[group]]
  BY <1>1, <1>2
<1> QED BY <1>1, <1>2, <1>3, <1>4, <1>5 DEF Printed

\* If one of them is consistent, the other is.
LEMMA SameConsistent ==
  ASSUME NEW v, NEW w, Watched(v) = Watched(w), Consistent(v)
  PROVE  Consistent(w)
<1>1. /\ v.features = w.features /\ v.profile = w.profile
      /\ v.revisions = w.revisions /\ v.rom_patches = w.rom_patches
      /\ Lib(v) = Lib(w) /\ Selected(v) = Selected(w)
  BY WatchedFields, SamePrinted
<1>2. ProfileAccepted(w)
  BY <1>1 DEF Consistent, ProfileAccepted, Artifacts
<1>3. ASSUME NEW group \in Selected(w)
      PROVE  GroupAccepted(w, group)
  <2>1. GroupAccepted(v, group)
    BY <1>1, <1>3 DEF Consistent
  <2> QED BY <1>1, <2>1 DEF GroupAccepted, Expected
<1>4. ~ (WpaProfiles \subseteq w.features) /\ Lib(w) # <<>> /\ AllPatches(w)
  BY <1>1 DEF Consistent, AllPatches
<1> QED BY <1>2, <1>3, <1>4 DEF Consistent

\* The directory of the blob crate is watched when it is the one asked for.
LEMMA SameArchives ==
  ASSUME NEW v, NEW w, Watched(v) = Watched(w), LibDir(v) = "packaged",
         Lib(v) # <<>>, ArchivesPresent(v)
  PROVE  ArchivesPresent(w)
<1>1. Lib(v) = Lib(w) /\ Selected(v) = Selected(w) /\ LibDir(w) = "packaged"
  BY WatchedFields, SamePrinted
<1>2. Lib(v) = <<v.libs["packaged"]>> /\ Lib(w) = <<w.libs["packaged"]>>
  BY <1>1 DEF Lib
<1>3. Lib(v)[1] = v.libs["packaged"] /\ Lib(w)[1] = w.libs["packaged"]
  BY <1>2
<1>4. v.libs["packaged"] = w.libs["packaged"]
  BY <1>1, <1>3
<1> QED BY <1>1, <1>4 DEF ArchivesPresent

LEMMA SameFits ==
  ASSUME NEW v, NEW w, Watched(v) = Watched(w), Fits(v)
  PROVE  Fits(w)
<1>1. Consistent(w) /\ LibDir(v) = LibDir(w) /\ Lib(v) # <<>>
  BY SameConsistent, SamePrinted DEF Fits, Consistent
<1>2. LibDir(w) = "packaged" => ArchivesPresent(w)
  BY <1>1, SameArchives DEF Fits
<1> QED BY <1>1, <1>2 DEF Fits

\* A consistent world has every selected group at its expected revision.
LEMMA ConsistentIsPinned ==
  ASSUME NEW w, Consistent(w)
  PROVE  AllPinned(w)
BY DEF Consistent, GroupAccepted, ChecksRevisionOf, AllPinned

LEMMA InitIInv == Init => IInv
BY DEF Init, IInv

\* The script is run: the worlds that look like this one print the same.
LEMMA RunScriptIInv == IInv /\ RunScript => IInv'
<1> SUFFICES ASSUME IInv, RunScript PROVE IInv'
  OBVIOUS
<1>1. watched' = Watched(world) /\ world' = world
  BY DEF RunScript
<1>2. ASSUME output' # NO_OUTPUT, NEW w, Watched(w) = watched'
      PROVE  output' = Printed(w) /\ Fits(w)
  <2>1. Accepted(world) /\ output' = Printed(world)
    BY <1>2 DEF RunScript
  <2>2. Watched(w) = Watched(world)
    BY <1>1, <1>2
  <2>3. Printed(w) = Printed(world)
    BY <2>2, SamePrinted
  <2>4. Fits(world)
    BY <2>1 DEF Accepted, Fits
  <2>5. Fits(w)
    BY <2>2, <2>4, SameFits
  <2> QED BY <2>1, <2>3, <2>5
<1>3. watched' = Watched(world')
  BY <1>1
<1>4. output' # NO_OUTPUT =>
        \A w : Watched(w) = watched' => output' = Printed(w) /\ Fits(w)
  BY <1>2
<1> QED BY <1>3, <1>4 DEF IInv

LEMMA StepIInv == IInv /\ [Next]_vars => IInv'
<1> SUFFICES ASSUME IInv, [Next]_vars PROVE IInv'
  OBVIOUS
<1>1. CASE RunScript
  BY <1>1, RunScriptIInv
<1>2. CASE KeepOutput
  BY <1>2 DEF KeepOutput, UpToDate, IInv
<1>3. CASE Edit
  BY <1>3 DEF Edit, IInv
<1>4. CASE UNCHANGED vars
  BY <1>4 DEF vars, IInv
<1>5. CASE Done
  BY <1>5 DEF Done, vars, IInv
<1> QED BY <1>1, <1>2, <1>3, <1>4, <1>5 DEF Next

\* The invariant holds in every state of every behaviour.
THEOREM Invariance == Spec => []IInv
BY InitIInv, StepIInv, PTL DEF Spec

\* What is linked is what the script would print now, and no edit makes the world
\* inconsistent, or takes away an archive of the directory asked for, without a new
\* run of the script; the originals, and archives elsewhere, are not watched
\* (build.rs:295-303, 437-463, 518-521, 543, 574).
THEOREM OutputIsFreshHolds == Spec => []OutputIsFresh
<1>1. IInv => OutputIsFresh
  BY DEF IInv, OutputIsFresh, Linked, Fits
<1> QED BY <1>1, Invariance, PTL

\* What is linked is of the revisions the script and the profile know, as they are
\* now
\* (build.rs:394-399, 526-561, 584-587, 610-646, 721-744, 767-791).
THEOREM LinkedIsPinnedHolds == Spec => []LinkedIsPinned
<1>1. ASSUME IInv, Linked
      PROVE  LinkedIsPinned
  <2>1. output = Printed(world) /\ AllPinned(world)
    BY <1>1, ConsistentIsPinned DEF IInv, Linked, Fits
  <2>2. output.groups = [group \in Selected(world) |-> world.revisions[group]]
    BY <2>1 DEF Printed
  <2> QED BY <2>1, <2>2 DEF LinkedIsPinned, AllPinned
<1>2. IInv => LinkedIsPinned
  BY <1>1 DEF LinkedIsPinned
<1> QED BY <1>2, Invariance, PTL

\* The groups of hostap that a world selects, if the crate compiles with it.
LEMMA SelectedHostap ==
  ASSUME NEW w, ~CrateRefuses(w.features)
  PROVE  \E group : Selected(w) \cap {"supplicant-wpa2", "supplicant-wpa3",
                                      "authenticator-wpa2", "authenticator-wpa3"}
                      \subseteq {group}
<1>1. CASE "upstream-supplicant-port" \in w.features
  <2>1. w.features \cap Authenticators = {}
    BY <1>1 DEF CrateRefuses
  <2>2. /\ "upstream-authenticator-wpa2" \notin w.features
        /\ "upstream-authenticator-wpa3" \notin w.features
    BY <2>1 DEF Authenticators
  <2>3. CASE "upstream-supplicant-wpa3" \in w.features
    <3>1. Selected(w) \cap {"supplicant-wpa2", "supplicant-wpa3",
                            "authenticator-wpa2", "authenticator-wpa3"}
            \subseteq {"supplicant-wpa3"}
      BY <1>1, <2>2, <2>3 DEF Selected
    <3> QED BY <3>1
  <2>4. CASE "upstream-supplicant-wpa3" \notin w.features
    <3>1. Selected(w) \cap {"supplicant-wpa2", "supplicant-wpa3",
                            "authenticator-wpa2", "authenticator-wpa3"}
            \subseteq {"supplicant-wpa2"}
      BY <1>1, <2>2, <2>4 DEF Selected
    <3> QED BY <3>1
  <2> QED BY <2>3, <2>4
<1>2. CASE "upstream-supplicant-port" \notin w.features
  <2>1. CASE "upstream-authenticator-wpa3" \in w.features
    <3>1. Selected(w) \cap {"supplicant-wpa2", "supplicant-wpa3",
                            "authenticator-wpa2", "authenticator-wpa3"}
            \subseteq {"authenticator-wpa3"}
      BY <1>2, <2>1 DEF Selected
    <3> QED BY <3>1
  <2>2. CASE "upstream-authenticator-wpa3" \notin w.features
    <3>1. Selected(w) \cap {"supplicant-wpa2", "supplicant-wpa3",
                            "authenticator-wpa2", "authenticator-wpa3"}
            \subseteq {"authenticator-wpa2"}
      BY <1>2, <2>2 DEF Selected
    <3> QED BY <3>1
  <2> QED BY <2>1, <2>2
<1> QED BY <1>1, <1>2

\* Archives of the vendor's WPA are only selected without the port of hostap.
LEMMA SelectedVendor ==
  ASSUME NEW w, ~CrateRefuses(w.features), WpaArchives(w) # {}
  PROVE  /\ "supplicant-wpa2" \notin Selected(w)
         /\ "supplicant-wpa3" \notin Selected(w)
<1>1. w.features \cap WpaProfiles # {}
  BY DEF WpaArchives, SelectedWpa
<1>2. "upstream-supplicant-port" \notin w.features
  BY <1>1 DEF CrateRefuses
<1> QED BY <1>2 DEF Selected

\* There is at most one hostap in an image, and none as a station beside the WPA
\* archives of the vendor, whatever was edited since the script ran
\* (build.rs:402-420, lib.rs:12-31).
THEOREM OneHostapHolds == Spec => []OneHostap
<1>1. ASSUME IInv, Linked
      PROVE  OneHostap
  <2> DEFINE hostap == {"supplicant-wpa2", "supplicant-wpa3",
                        "authenticator-wpa2", "authenticator-wpa3"}
             linked == DOMAIN output.groups \cap hostap
  <2>1. output = Printed(world) /\ ~CrateRefuses(world.features)
    BY <1>1 DEF IInv, Linked
  <2>2. /\ DOMAIN output.groups = Selected(world)
        /\ output.wpa = WpaArchives(world)
    BY <2>1 DEF Printed
  <2>3. Cardinality(linked) <= 1
    <3>1. PICK group : linked \subseteq {group}
      BY <2>1, <2>2, SelectedHostap
    <3>2. CASE linked = {}
      <4>1. Cardinality(linked) = 0
        BY <3>2, FS_EmptySet
      <4> QED BY <4>1
    <3>3. CASE linked = {group}
      <4>1. Cardinality(linked) = 1
        BY <3>3, FS_Singleton
      <4> QED BY <4>1
    <3>4. linked = {} \/ linked = {group}
      BY <3>1
    <3> QED BY <3>2, <3>3, <3>4
  <2>4. output.wpa # {} => ~ (\E group \in DOMAIN output.groups :
                                group \in {"supplicant-wpa2", "supplicant-wpa3"})
    BY <2>1, <2>2, SelectedVendor
  <2> QED BY <2>3, <2>4 DEF OneHostap
<1>2. IInv => OneHostap
  BY <1>1 DEF OneHostap
<1> QED BY <1>2, Invariance, PTL

-----------------------------------------------------------------------------
\* What the pinned compiler made of an archive, of any version; and of this one.
Genuine(a) == {a} \X (0 .. MaxSourceEdits) \X {"pinned"}
Current(a) == <<a, tree.version, "pinned">>

\* Tables with such a content for each archive; and with one for some.
ALL == UNION {CONTENTS(a) : a \in ARCHIVES}
TABLES == {t \in [ARCHIVES -> ALL] : \A a \in ARCHIVES : t[a] \in Genuine(a)}
PARTS == {t \in [ARCHIVES -> ALL \cup {NO_ARCHIVE}] :
            \A a \in ARCHIVES : t[a] = NO_ARCHIVE \/ t[a] \in Genuine(a)}
PAYLOADS == {t \in [ARCHIVES -> ALL \cup {PARTIAL}] :
               \A a \in ARCHIVES : t[a] = PARTIAL \/ t[a] \in Genuine(a)}
RELEASES == [artifacts : TABLES, revision : 0 .. MaxSourceEdits]

COMMANDS ==
  [pc : {"idle", "build", "compare", "publish", "payload", "manifest", "ok"},
   update : BOOLEAN, group : GROUPS, compiler : COMPILERS,
   todo : Seq(ARCHIVES), loaded : RELEASES, output : PARTS, disturbed : BOOLEAN]
BUILDS == [pc : {"idle", "expand", "ok"}, loaded : RELEASES,
           todo : Seq(ARCHIVES), lib : PARTS]

\* Every content of every archive is of the pinned compiler, wherever it is kept.
Typed ==
  /\ tree \in [version : 0 .. MaxSourceEdits, revision : 0 .. MaxSourceEdits]
  /\ tree.revision <= tree.version
  /\ manifest \in RELEASES \cup {PARTIAL}
  /\ payload \in PAYLOADS
  /\ proc \in [Process -> COMMANDS]
  /\ build \in BUILDS
  /\ crashes \in 0 .. MaxCrashes

\* The manifest is in the history, and so is the one that a build of the blob
\* crate read; what the build has expanded is of that one.
Remembered ==
  /\ Artifacts0 \in releases
  /\ manifest # PARTIAL => manifest.artifacts \in releases
  /\ build.pc # "idle" =>
       /\ build.loaded.artifacts \in releases
       /\ \A a \in ARCHIVES : \/ a \in Members(build.todo)
                              \/ build.lib[a] = build.loaded.artifacts[a]
  /\ build.pc = "ok" => build.todo = <<>>

\* A command writes only with --update-artifacts, and only what it has built.
Supplied(c) ==
  /\ c.pc \in {"publish", "payload", "manifest"} => c.update
  /\ c.pc = "compare" => ~c.update
  /\ c.pc \in {"compare", "payload"} => c.todo # <<>>
  /\ c.pc \in {"manifest", "ok"} => c.todo = <<>>
  /\ c.pc = "build" /\ c.update =>
       \A a \in Members(SelectedArchives(c.group)) :
         a \in Members(c.todo) \/ c.output[a] \in Genuine(a)
  /\ c.pc \in {"publish", "payload"} =>
       \A a \in Members(c.todo) : c.output[a] \in Genuine(a)

\* Done with an archive: the payload and the manifest that the command holds have
\* what the sources give now.
Settled(c, a) == payload[a] = Current(a) /\ c.loaded.artifacts[a] = Current(a)

\* What a command knows while nobody else has touched the files.
Knows(c) ==
  /\ \/ c.pc = "build" /\ c.todo = SelectedArchives(c.group)
     \/ c.loaded.revision = tree.revision
  /\ ~c.update \/ c.pc = "ok" => manifest = c.loaded
  /\ c.pc = "manifest" => manifest = PARTIAL
  /\ c.pc = "payload" => payload[Head(c.todo)] = PARTIAL
  /\ c.pc = "compare" => c.output[Head(c.todo)] = Current(Head(c.todo))
  /\ c.pc \in {"publish", "payload"} =>
       \A a \in Members(c.todo) : c.output[a] = Current(a)
  /\ \A a \in Members(SelectedArchives(c.group)) :
       \/ a \in Members(c.todo)
       \/ IF c.update /\ c.pc = "build" THEN c.output[a] = Current(a)
                                        ELSE Settled(c, a)

Honest(c) == c.pc = "idle" \/ c.disturbed \/ Knows(c)

ReleaseIInv ==
  /\ Typed
  /\ Remembered
  /\ \A p \in Process : Supplied(proc[p]) /\ Honest(proc[p])


-----------------------------------------------------------------------------
\* The head of a list of archives, and what is left to do behind it.
LEMMA Behind ==
  ASSUME NEW s \in Seq(ARCHIVES), s # <<>>
  PROVE  /\ Head(s) \in ARCHIVES /\ Tail(s) \in Seq(ARCHIVES)
         /\ Head(s) \in Members(s)
         /\ \A a \in Members(s) : a = Head(s) \/ a \in Members(Tail(s))
         /\ Members(Tail(s)) \subseteq Members(s)
<1>1. Len(s) \in Nat \ {0} /\ Head(s) = s[1] /\ DOMAIN s = 1 .. Len(s)
  OBVIOUS
<1>2. /\ Tail(s) \in Seq(ARCHIVES) /\ DOMAIN Tail(s) = 1 .. Len(s) - 1
      /\ \A i \in 1 .. Len(s) - 1 : Tail(s)[i] = s[i + 1]
  BY <1>1
<1>3. \A i \in 1 .. Len(s) : i = 1 \/ i - 1 \in 1 .. Len(s) - 1
  BY <1>1
<1>4. ASSUME NEW a \in Members(s)
      PROVE  a = Head(s) \/ a \in Members(Tail(s))
  <2>1. PICK i \in 1 .. Len(s) : a = s[i]
    BY <1>1 DEF Members
  <2>2. CASE i = 1
    BY <1>1, <2>1, <2>2
  <2>3. CASE i # 1
    <3>1. i - 1 \in DOMAIN Tail(s) /\ Tail(s)[i - 1] = a
      BY <1>2, <1>3, <2>1, <2>3
    <3> QED BY <3>1 DEF Members
  <2> QED BY <2>2, <2>3
<1>5. ASSUME NEW a \in Members(Tail(s))
      PROVE  a \in Members(s)
  <2>1. PICK i \in 1 .. Len(s) - 1 : a = s[i + 1]
    BY <1>2, <1>5 DEF Members
  <2>2. i + 1 \in DOMAIN s
    BY <1>1, <2>1
  <2> QED BY <2>1, <2>2 DEF Members
<1>6. Head(s) \in Members(s) /\ Head(s) \in ARCHIVES
  <2>1. 1 \in DOMAIN s
    BY <1>1
  <2> QED BY <1>1, <2>1 DEF Members
<1> QED BY <1>2, <1>4, <1>5, <1>6

\* Every group has archives, and they are listed.
LEMMA GroupLists ==
  ASSUME NEW group
  PROVE  /\ SelectedArchives(group) \in Seq(ARCHIVES)
         /\ SelectedArchives(group) # <<>>
         /\ Members(SelectedArchives(group)) \subseteq ARCHIVES
         /\ Listed \in Seq(ARCHIVES)
<1>1. /\ Supplicant \in Seq(STRING) /\ Supplicant # <<>>
      /\ Authenticator \in Seq(STRING) /\ Authenticator # <<>>
  BY ReleaseAssumption
<1>2. /\ Listed \in Seq(STRING) /\ Listed # <<>>
      /\ \A i \in DOMAIN Supplicant : i \in DOMAIN Listed /\ Supplicant[i] = Listed[i]
      /\ \A i \in DOMAIN Authenticator :
           /\ Len(Supplicant) + i \in DOMAIN Listed
           /\ Authenticator[i] = Listed[Len(Supplicant) + i]
  BY <1>1 DEF Listed
<1>3. ASSUME NEW s \in Seq(STRING), Members(s) \subseteq ARCHIVES
      PROVE  s \in Seq(ARCHIVES)
  <2>1. \A i \in 1 .. Len(s) : s[i] \in ARCHIVES
    BY <1>3 DEF Members
  <2> QED BY <2>1
<1>4. /\ Members(Supplicant) \subseteq ARCHIVES
      /\ Members(Authenticator) \subseteq ARCHIVES
      /\ Members(Listed) \subseteq ARCHIVES
  BY <1>2 DEF ARCHIVES, Members
<1>5. SelectedArchives(group) \in {Supplicant, Authenticator, Listed}
  BY DEF SelectedArchives
<1> QED BY <1>1, <1>2, <1>3, <1>4, <1>5

\* What the pinned compiler makes is a content of the archive.
LEMMA GenuineContent ==
  ASSUME NEW a \in ARCHIVES
  PROVE  /\ Genuine(a) \subseteq CONTENTS(a)
         /\ CONTENTS(a) \subseteq ALL
         /\ \A x \in Genuine(a) : x[3] = "pinned"
BY DEF Genuine, CONTENTS, COMPILERS, ALL

\* One entry of a table is replaced.
LEMMA EntryReplaced ==
  ASSUME NEW a \in ARCHIVES, NEW x \in Genuine(a)
  PROVE  /\ \A t \in TABLES : [t EXCEPT ![a] = x] \in TABLES
         /\ \A t \in PARTS : [t EXCEPT ![a] = x] \in PARTS
         /\ \A t \in PAYLOADS : /\ [t EXCEPT ![a] = x] \in PAYLOADS
                                /\ [t EXCEPT ![a] = PARTIAL] \in PAYLOADS
<1>1. x \in ALL
  BY GenuineContent
<1> QED BY <1>1 DEF TABLES, PARTS, PAYLOADS

\* The tables at the beginning, and that of a killed command.
LEMMA FirstTables ==
  /\ Artifacts0 \in TABLES /\ Artifacts0 \in PAYLOADS /\ Nothing \in PARTS
  /\ Manifest0 \in RELEASES /\ Idle \in COMMANDS /\ NotBuilding \in BUILDS
  /\ Idle.pc = "idle" /\ NotBuilding.pc = "idle"
<1>1. ASSUME NEW a \in ARCHIVES
      PROVE  Artifacts0[a] \in Genuine(a) /\ Artifacts0[a] \in ALL
  <2>1. Artifacts0[a] \in Genuine(a)
    BY ReleaseAssumption DEF Artifacts0, Genuine
  <2> QED BY <2>1, GenuineContent
<1>2. Artifacts0 \in TABLES /\ Artifacts0 \in PAYLOADS /\ Nothing \in PARTS
  BY <1>1 DEF Artifacts0, Nothing, TABLES, PAYLOADS, PARTS
<1>3. Manifest0 \in RELEASES
  BY <1>2, ReleaseAssumption DEF Manifest0, RELEASES
<1>4. <<>> \in Seq(ARCHIVES)
  OBVIOUS
<1> QED BY <1>2, <1>3, <1>4 DEF Idle, NotBuilding, COMMANDS, BUILDS, GROUPS, COMPILERS

\* A manifest that is written to the end is not one that was cut off.
LEMMA WholeManifest == PARTIAL \notin RELEASES
<1>1. RELEASES \subseteq MANIFESTS
  BY DEF RELEASES, MANIFESTS, TABLES, ALL
<1> QED BY <1>1, ReleaseAssumption

\* A step of one command: the others do not notice if no file changes, and are
\* disturbed otherwise.
LEMMA CommandStep ==
  ASSUME Typed, NEW p \in Process, NEW d \in COMMANDS,
         \A q \in Process : Supplied(proc[q]) /\ Honest(proc[q]),
         \/ /\ proc' = [proc EXCEPT ![p] = d]
            /\ UNCHANGED tree /\ UNCHANGED manifest /\ UNCHANGED payload
         \/ proc' = Disturbed([proc EXCEPT ![p] = d], {p}),
         Supplied(d), Honest(d)'
  PROVE  /\ proc' \in [Process -> COMMANDS]
         /\ \A q \in Process : Supplied(proc[q])' /\ Honest(proc[q])'
<1>1. proc \in [Process -> COMMANDS]
  BY DEF Typed
<1>2. CASE /\ proc' = [proc EXCEPT ![p] = d]
           /\ UNCHANGED tree /\ UNCHANGED manifest /\ UNCHANGED payload
  <2>1. proc' \in [Process -> COMMANDS]
    BY <1>1, <1>2
  <2>2. proc'[p] = d /\ \A q \in Process : q # p => proc'[q] = proc[q]
    BY <1>1, <1>2
  <2>3. ASSUME NEW q \in Process, q # p
        PROVE  Supplied(proc[q])' /\ Honest(proc[q])'
    <3>1. Supplied(proc[q]) /\ Honest(proc[q])
      OBVIOUS
    <3>2. Supplied(proc[q])'
      BY <2>2, <2>3, <3>1 DEF Supplied, Genuine
    <3>3. /\ proc'[q] = proc[q] /\ tree' = tree
          /\ manifest' = manifest /\ payload' = payload
      BY <1>2, <2>2, <2>3
    <3>4. Knows(proc[q])' <=> Knows(proc[q])
      <4>1. ASSUME NEW a
            PROVE  /\ Current(a)' = Current(a)
                   /\ Settled(proc[q], a)' <=> Settled(proc[q], a)
        BY <3>3 DEF Current, Settled
      <4> QED BY <3>3, <4>1, ZenonT(60) DEF Knows
    <3>5. Honest(proc[q])'
      BY <3>1, <3>3, <3>4 DEF Honest
    <3> QED BY <3>2, <3>5
  <2>4. Supplied(proc[p])' /\ Honest(proc[p])'
    <3>1. Supplied(proc[p])'
      BY <2>2, Zenon DEF Supplied
    <3>2. Honest(proc[p])'
      BY <2>2 DEF Honest, Knows, Settled, Current
    <3> QED BY <3>1, <3>2
  <2> QED BY <2>1, <2>3, <2>4
<1>3. CASE proc' = Disturbed([proc EXCEPT ![p] = d], {p})
  <2> DEFINE procs == [proc EXCEPT ![p] = d]
  <2>1. procs \in [Process -> COMMANDS] /\ procs[p] = d
        /\ \A q \in Process : q # p => procs[q] = proc[q]
    BY <1>1
  <2>2. /\ proc'[p] = d
        /\ \A q \in Process : q # p =>
             proc'[q] = IF proc[q].pc # "idle"
                          THEN [proc[q] EXCEPT !.disturbed = TRUE] ELSE proc[q]
    BY <1>3, <2>1 DEF Disturbed
  <2>3. ASSUME NEW c \in COMMANDS
        PROVE  /\ [c EXCEPT !.disturbed = TRUE] \in COMMANDS
               /\ Supplied(c) => Supplied([c EXCEPT !.disturbed = TRUE])
               /\ [c EXCEPT !.disturbed = TRUE].disturbed
    BY DEF COMMANDS, Supplied
  <2>4. ASSUME NEW q \in Process, q # p
        PROVE  proc'[q] \in COMMANDS /\ Supplied(proc[q])' /\ Honest(proc[q])'
    <3>1. proc[q] \in COMMANDS /\ Supplied(proc[q])
      BY <1>1
    <3>2. CASE proc[q].pc # "idle"
      <4>1. proc'[q] = [proc[q] EXCEPT !.disturbed = TRUE]
        BY <2>2, <2>4, <3>2
      <4>2. proc'[q] \in COMMANDS /\ Supplied(proc'[q]) /\ proc'[q].disturbed
        BY <2>3, <3>1, <4>1
      <4> QED BY <4>2 DEF Supplied, Genuine, Honest
    <3>3. CASE proc[q].pc = "idle"
      <4>1. proc'[q] = proc[q]
        BY <2>2, <2>4, <3>3
      <4> QED BY <3>1, <3>3, <4>1 DEF Supplied, Genuine, Honest
    <3> QED BY <3>2, <3>3
  <2>5. Supplied(proc[p])' /\ Honest(proc[p])'
    <3>1. Supplied(proc[p])'
      BY <2>2, Zenon DEF Supplied
    <3>2. Honest(proc[p])'
      BY <2>2 DEF Honest, Knows, Settled, Current
    <3> QED BY <3>1, <3>2
  <2>6. proc' \in [Process -> COMMANDS]
    <3>1. proc' = [q \in Process |-> proc'[q]]
      BY <1>3 DEF Disturbed
    <3>2. \A q \in Process : proc'[q] \in COMMANDS
      BY <2>2, <2>4
    <3> QED BY <3>1, <3>2
  <2> QED BY <2>4, <2>5, <2>6
<1> QED BY <1>2, <1>3

\* Someone else has changed the files: a command that runs is disturbed.
LEMMA Bystanders ==
  ASSUME Typed, proc' = Disturbed(proc, {}),
         \A q \in Process : Supplied(proc[q])
  PROVE  /\ proc' \in [Process -> COMMANDS]
         /\ \A q \in Process : Supplied(proc[q])' /\ Honest(proc[q])'
<1>1. \A q \in Process : proc[q] \in COMMANDS
  BY DEF Typed
<1>2. ASSUME NEW q \in Process
      PROVE  proc'[q] \in COMMANDS /\ Supplied(proc[q])' /\ Honest(proc[q])'
  <2>1. proc'[q] = IF proc[q].pc # "idle"
                     THEN [proc[q] EXCEPT !.disturbed = TRUE] ELSE proc[q]
    BY DEF Disturbed
  <2>2. CASE proc[q].pc # "idle"
    <3>1. ASSUME NEW c \in COMMANDS
          PROVE  /\ [c EXCEPT !.disturbed = TRUE] \in COMMANDS
                 /\ Supplied(c) => Supplied([c EXCEPT !.disturbed = TRUE])
                 /\ [c EXCEPT !.disturbed = TRUE].disturbed
      BY DEF COMMANDS, Supplied
    <3>2. /\ proc'[q] \in COMMANDS /\ proc'[q].disturbed
          /\ Supplied(proc'[q])
      BY <1>1, <2>1, <2>2, <3>1
    <3> QED BY <3>2 DEF Supplied, Genuine, Honest
  <2>3. CASE proc[q].pc = "idle"
    BY <1>1, <2>1, <2>3 DEF Supplied, Genuine, Honest
  <2> QED BY <2>2, <2>3
<1>3. proc' = [q \in Process |-> proc'[q]]
  BY DEF Disturbed
<1> QED BY <1>2, <1>3

LEMMA InitReleaseIInv == ReleaseInit => ReleaseIInv
<1> SUFFICES ASSUME ReleaseInit PROVE ReleaseIInv
  OBVIOUS
<1>1. Typed
  BY FirstTables, ReleaseAssumption DEF ReleaseInit, Typed
<1>2. Remembered
  BY FirstTables DEF ReleaseInit, Remembered, Manifest0
<1>3. \A p \in Process : Supplied(proc[p]) /\ Honest(proc[p])
  BY FirstTables DEF ReleaseInit, Supplied, Honest, Idle
<1> QED BY <1>1, <1>2, <1>3 DEF ReleaseIInv

\* The maintainer edits the sources, declares a revision or restores a manifest.
LEMMA MaintainerKeeps ==
  ASSUME ReleaseIInv,
         (\E revised \in BOOLEAN : EditSources(revised)) \/ DeclareRevision \/ Restore
  PROVE  ReleaseIInv'
<1> USE DEF ReleaseIInv
<1>1. ASSUME NEW revised \in BOOLEAN, EditSources(revised)
      PROVE  ReleaseIInv'
  <2>1. /\ proc' \in [Process -> COMMANDS]
        /\ \A q \in Process : Supplied(proc[q])' /\ Honest(proc[q])'
    BY <1>1, Bystanders DEF EditSources
  <2>2. /\ tree' \in [version : 0 .. MaxSourceEdits, revision : 0 .. MaxSourceEdits]
        /\ tree'.revision <= tree'.version
    BY <1>1, ReleaseAssumption DEF EditSources, Typed
  <2>3. Typed'
    BY <1>1, <2>1, <2>2 DEF EditSources, Typed
  <2>4. Remembered'
    BY <1>1 DEF EditSources, Remembered
  <2> QED BY <2>1, <2>3, <2>4
<1>2. ASSUME DeclareRevision
      PROVE  ReleaseIInv'
  <2>1. /\ proc' \in [Process -> COMMANDS]
        /\ \A q \in Process : Supplied(proc[q])' /\ Honest(proc[q])'
    BY <1>2, Bystanders DEF DeclareRevision
  <2>2. /\ manifest' \in RELEASES /\ manifest \in RELEASES
        /\ manifest'.artifacts = manifest.artifacts
    BY <1>2 DEF DeclareRevision, Typed, RELEASES
  <2>3. Typed'
    BY <1>2, <2>1, <2>2 DEF DeclareRevision, Typed
  <2>4. Remembered'
    BY <1>2, <2>2 DEF DeclareRevision, Remembered
  <2> QED BY <2>1, <2>3, <2>4
<1>3. ASSUME Restore
      PROVE  ReleaseIInv'
  <2>1. \A q \in Process : proc'[q] = proc[q] /\ proc[q].pc = "idle"
    BY <1>3 DEF Restore, Active
  <2>2. \A q \in Process : Supplied(proc[q])' /\ Honest(proc[q])'
    BY <2>1 DEF Supplied, Genuine, Honest
  <2>3. Typed'
    BY <1>3, FirstTables DEF Restore, Typed
  <2>4. Remembered'
    BY <1>3 DEF Restore, Remembered, Manifest0
  <2> QED BY <2>2, <2>3, <2>4
<1> QED BY <1>1, <1>2, <1>3

\* A step that leaves the history alone: what a command must keep.
LEMMA FilesAndCommand ==
  ASSUME ReleaseIInv, NEW p \in Process, NEW d \in COMMANDS,
         \/ /\ proc' = [proc EXCEPT ![p] = d]
            /\ UNCHANGED tree /\ UNCHANGED manifest /\ UNCHANGED payload
         \/ proc' = Disturbed([proc EXCEPT ![p] = d], {p}),
         Supplied(d), Honest(d)',
         UNCHANGED tree, UNCHANGED build,
         manifest' \in RELEASES \cup {PARTIAL}, payload' \in PAYLOADS,
         crashes' \in 0 .. MaxCrashes,
         releases \subseteq releases',
         manifest' # PARTIAL => manifest'.artifacts \in releases'
  PROVE  ReleaseIInv'
<1>1. /\ proc' \in [Process -> COMMANDS]
      /\ \A q \in Process : Supplied(proc[q])' /\ Honest(proc[q])'
  BY CommandStep DEF ReleaseIInv
<1>2. Typed'
  BY <1>1 DEF ReleaseIInv, Typed
<1>3. Remembered'
  BY DEF ReleaseIInv, Remembered
<1> QED BY <1>1, <1>2, <1>3 DEF ReleaseIInv

\* A command starts, ends or is killed; or finds that something does not match.
LEMMA StartKeeps ==
  ASSUME ReleaseIInv, NEW p \in Process, NEW update \in BOOLEAN,
         NEW group \in GROUPS, NEW compiler \in COMPILERS,
         Start(p, update, group, compiler)
  PROVE  ReleaseIInv'
<1>1. PICK d : d = [pc |-> "build", update |-> update, group |-> group,
                    compiler |-> compiler, todo |-> SelectedArchives(group),
                    loaded |-> manifest, output |-> Nothing, disturbed |-> FALSE]
  OBVIOUS
<1>2. proc' = [proc EXCEPT ![p] = d] /\ manifest \in RELEASES
  BY <1>1 DEF Start, ReleaseIInv, Typed
<1>3. d \in COMMANDS
  BY <1>1, <1>2, GroupLists, FirstTables DEF COMMANDS
<1>4. Supplied(d)
  BY <1>1 DEF Supplied
<1>5. Honest(d)'
  BY <1>1, <1>2 DEF Honest, Knows, Start
<1>6. /\ UNCHANGED tree /\ UNCHANGED build /\ UNCHANGED manifest
      /\ UNCHANGED payload /\ UNCHANGED crashes /\ UNCHANGED releases
  BY DEF Start
<1>7. /\ manifest \in RELEASES \cup {PARTIAL} /\ payload \in PAYLOADS
      /\ crashes \in 0 .. MaxCrashes
      /\ manifest # PARTIAL => manifest.artifacts \in releases
  BY DEF ReleaseIInv, Typed, Remembered
<1> QED BY <1>2, <1>3, <1>4, <1>5, <1>6, <1>7, FilesAndCommand

LEMMA EndKeeps ==
  ASSUME ReleaseIInv, NEW p \in Process, Fail(p) \/ Exit(p) \/ Crash(p)
  PROVE  ReleaseIInv'
<1>1. proc' = [proc EXCEPT ![p] = Idle]
  BY DEF Fail, Exit, Crash
<1>2. Idle \in COMMANDS /\ Supplied(Idle) /\ Honest(Idle)'
  BY FirstTables DEF Supplied, Honest, Idle
<1>3. /\ UNCHANGED tree /\ UNCHANGED build /\ UNCHANGED manifest
      /\ UNCHANGED payload /\ UNCHANGED releases
  BY DEF Fail, Exit, Crash
<1>4. crashes' \in 0 .. MaxCrashes
  BY ReleaseAssumption DEF Fail, Exit, Crash, ReleaseIInv, Typed
<1>5. /\ manifest \in RELEASES \cup {PARTIAL} /\ payload \in PAYLOADS
      /\ manifest # PARTIAL => manifest.artifacts \in releases
  BY DEF ReleaseIInv, Typed, Remembered
<1> QED BY <1>1, <1>2, <1>3, <1>4, <1>5, FilesAndCommand

\* An archive is built, and looked at later or at once.
LEMMA BuildKeeps ==
  ASSUME ReleaseIInv, NEW p \in Process, BuildProfile(p)
  PROVE  ReleaseIInv'
<1>1. PICK c \in COMMANDS : c = proc[p]
  BY DEF ReleaseIInv, Typed
<1>2. /\ c.pc = "build" /\ c.todo # <<>> /\ c.todo \in Seq(ARCHIVES)
      /\ tree.revision = c.loaded.revision /\ c.compiler = "pinned"
      /\ c.output \in PARTS /\ Supplied(c) /\ Honest(c)
  BY <1>1 DEF BuildProfile, Admitted, COMMANDS, ReleaseIInv
<1>3. PICK a \in ARCHIVES : a = Head(c.todo)
  BY <1>2, Behind
<1>4. /\ Tail(c.todo) \in Seq(ARCHIVES)
      /\ \A b \in Members(c.todo) : b = a \/ b \in Members(Tail(c.todo))
      /\ Members(Tail(c.todo)) \subseteq Members(c.todo)
  BY <1>2, <1>3, Behind
<1>5. Current(a) \in Genuine(a) /\ Current(a) = Compiled(a, c.compiler)
  BY <1>2 DEF Current, Genuine, Compiled, ReleaseIInv, Typed
<1>6. PICK out \in PARTS : out = [c.output EXCEPT ![a] = Current(a)]
  BY <1>2, <1>5, EntryReplaced
<1>7. out[a] = Current(a) /\ \A b \in ARCHIVES : b # a => out[b] = c.output[b]
  BY <1>2, <1>6 DEF PARTS
<1>8. PICK d : d = IF c.update
                     THEN [c EXCEPT !.output = out, !.todo = Tail(c.todo)]
                     ELSE [c EXCEPT !.output = out, !.pc = "compare"]
  OBVIOUS
<1>9. proc' = [proc EXCEPT ![p] = d]
  <2>1. proc' = IF c.update
                  THEN [proc EXCEPT ![p] = [c EXCEPT !.output = out, !.todo = Tail(c.todo)]]
                  ELSE [proc EXCEPT ![p] = [c EXCEPT !.output = out, !.pc = "compare"]]
    BY <1>1, <1>3, <1>5, <1>6 DEF BuildProfile, ReleaseIInv, Typed
  <2> QED BY <1>8, <2>1
<1>10. /\ d \in COMMANDS /\ d.output = out /\ d.group = c.group
       /\ d.update = c.update /\ d.loaded = c.loaded /\ d.disturbed = c.disturbed
       /\ d.pc = IF c.update THEN "build" ELSE "compare"
       /\ d.todo = IF c.update THEN Tail(c.todo) ELSE c.todo
  BY <1>2, <1>4, <1>6, <1>8 DEF COMMANDS
<1>11. Members(SelectedArchives(c.group)) \subseteq ARCHIVES
  BY GroupLists
<1>12. Supplied(d)
  BY <1>2, <1>4, <1>5, <1>7, <1>10, <1>11 DEF Supplied
<1>13. /\ UNCHANGED tree /\ UNCHANGED build /\ UNCHANGED manifest
       /\ UNCHANGED payload /\ UNCHANGED crashes /\ UNCHANGED releases
  BY DEF BuildProfile
<1>14. Honest(d)
  <2>1. SUFFICES ASSUME ~c.disturbed PROVE Knows(d)
    BY <1>10 DEF Honest
  <2>2. Knows(c)
    BY <1>2, <2>1 DEF Honest
  <2>3. \A b : Settled(c, b) <=> Settled(d, b)
    BY <1>10 DEF Settled
  <2>4. \A b \in Members(SelectedArchives(d.group)) :
          \/ b \in Members(d.todo)
          \/ IF d.update /\ d.pc = "build" THEN d.output[b] = Current(b)
                                           ELSE Settled(d, b)
    BY <1>2, <1>4, <1>7, <1>10, <1>11, <2>2, <2>3 DEF Knows
  <2> QED BY <1>2, <1>3, <1>7, <1>10, <2>2, <2>4 DEF Knows
<1>15. Honest(d)'
  BY <1>13, <1>14 DEF Honest, Knows, Settled, Current
<1>16. /\ manifest \in RELEASES \cup {PARTIAL} /\ payload \in PAYLOADS
       /\ crashes \in 0 .. MaxCrashes
       /\ manifest # PARTIAL => manifest.artifacts \in releases
  BY DEF ReleaseIInv, Typed, Remembered
<1> QED BY <1>9, <1>10, <1>12, <1>13, <1>15, <1>16, FilesAndCommand

\* A rebuilt archive is the one in the manifest and the payload; so these are
\* what the sources give.
LEMMA CompareKeeps ==
  ASSUME ReleaseIInv, NEW p \in Process, Compare(p)
  PROVE  ReleaseIInv'
<1>1. PICK c \in COMMANDS : c = proc[p]
  BY DEF ReleaseIInv, Typed
<1>2. /\ c.pc = "compare" /\ c.todo \in Seq(ARCHIVES) /\ ~c.update
      /\ c.todo # <<>> /\ Supplied(c) /\ Honest(c)
  BY <1>1 DEF Compare, COMMANDS, ReleaseIInv, Supplied
<1>3. PICK a \in ARCHIVES : a = Head(c.todo)
  BY <1>2, Behind
<1>4. /\ Tail(c.todo) \in Seq(ARCHIVES)
      /\ \A b \in Members(c.todo) : b = a \/ b \in Members(Tail(c.todo))
      /\ Members(Tail(c.todo)) \subseteq Members(c.todo)
  BY <1>2, <1>3, Behind
<1>5. c.output[a] = c.loaded.artifacts[a] /\ c.output[a] = payload[a]
  BY <1>1, <1>3 DEF Compare, Reproduces
<1>6. PICK d : d = [c EXCEPT !.pc = "build", !.todo = Tail(c.todo)]
  OBVIOUS
<1>7. proc' = [proc EXCEPT ![p] = d]
  BY <1>1, <1>6 DEF Compare, ReleaseIInv, Typed
<1>8. /\ d \in COMMANDS /\ d.output = c.output /\ d.group = c.group
      /\ d.update = c.update /\ d.loaded = c.loaded /\ d.disturbed = c.disturbed
      /\ d.pc = "build" /\ d.todo = Tail(c.todo)
  BY <1>2, <1>4, <1>6 DEF COMMANDS
<1>9. Supplied(d)
  BY <1>2, <1>8 DEF Supplied
<1>10. /\ UNCHANGED tree /\ UNCHANGED build /\ UNCHANGED manifest
       /\ UNCHANGED payload /\ UNCHANGED crashes /\ UNCHANGED releases
  BY DEF Compare
<1>11. Honest(d)
  <2>1. SUFFICES ASSUME ~c.disturbed PROVE Knows(d)
    BY <1>8 DEF Honest
  <2>2. Knows(c)
    BY <1>2, <2>1 DEF Honest
  <2>3. Settled(d, a) /\ \A b : Settled(c, b) <=> Settled(d, b)
    BY <1>2, <1>3, <1>5, <1>8, <2>2 DEF Settled, Knows
  <2> QED BY <1>2, <1>4, <1>8, <2>2, <2>3 DEF Knows
<1>12. Honest(d)'
  BY <1>10, <1>11 DEF Honest, Knows, Settled, Current
<1>13. /\ manifest \in RELEASES \cup {PARTIAL} /\ payload \in PAYLOADS
       /\ crashes \in 0 .. MaxCrashes
       /\ manifest # PARTIAL => manifest.artifacts \in releases
  BY DEF ReleaseIInv, Typed, Remembered
<1> QED BY <1>7, <1>8, <1>9, <1>10, <1>12, <1>13, FilesAndCommand

\* All archives are built: a check ends well, an update begins to write.
LEMMA BuildsDoneKeeps ==
  ASSUME ReleaseIInv, NEW p \in Process, BuildsDone(p)
  PROVE  ReleaseIInv'
<1>1. PICK c \in COMMANDS : c = proc[p]
  BY DEF ReleaseIInv, Typed
<1>2. /\ c.pc = "build" /\ c.todo = <<>> /\ Supplied(c) /\ Honest(c)
  BY <1>1 DEF BuildsDone, ReleaseIInv
<1>3. /\ SelectedArchives(c.group) \in Seq(ARCHIVES)
      /\ SelectedArchives(c.group) # <<>>
      /\ Members(<<>>) = {}
  BY GroupLists DEF Members
<1>4. PICK d : d = IF c.update
                     THEN [c EXCEPT !.pc = "publish",
                                    !.todo = SelectedArchives(c.group)]
                     ELSE [c EXCEPT !.pc = "ok"]
  OBVIOUS
<1>5. proc' = [proc EXCEPT ![p] = d]
  BY <1>1, <1>4 DEF BuildsDone, ReleaseIInv, Typed
<1>6. /\ d \in COMMANDS /\ d.output = c.output /\ d.group = c.group
      /\ d.update = c.update /\ d.loaded = c.loaded /\ d.disturbed = c.disturbed
      /\ d.pc = IF c.update THEN "publish" ELSE "ok"
      /\ d.todo = IF c.update THEN SelectedArchives(c.group) ELSE <<>>
  BY <1>2, <1>3, <1>4 DEF COMMANDS
<1>7. Supplied(d)
  BY <1>2, <1>3, <1>6 DEF Supplied
<1>8. /\ UNCHANGED tree /\ UNCHANGED build /\ UNCHANGED manifest
      /\ UNCHANGED payload /\ UNCHANGED crashes /\ UNCHANGED releases
  BY DEF BuildsDone
<1>9. Honest(d)
  <2>1. SUFFICES ASSUME ~c.disturbed PROVE Knows(d)
    BY <1>6 DEF Honest
  <2>2. Knows(c)
    BY <1>2, <2>1 DEF Honest
  <2>3. \A b : Settled(c, b) <=> Settled(d, b)
    BY <1>6, SMTT(40) DEF Settled
  <2> QED BY <1>2, <1>3, <1>6, <2>2, <2>3 DEF Knows
<1>10. Honest(d)'
  BY <1>8, <1>9 DEF Honest, Knows, Settled, Current
<1>11. /\ manifest \in RELEASES \cup {PARTIAL} /\ payload \in PAYLOADS
       /\ crashes \in 0 .. MaxCrashes
       /\ manifest # PARTIAL => manifest.artifacts \in releases
  BY DEF ReleaseIInv, Typed, Remembered
<1> QED BY <1>5, <1>6, <1>7, <1>8, <1>10, <1>11, FilesAndCommand

\* The payload is truncated.
LEMMA TruncatePayloadKeeps ==
  ASSUME ReleaseIInv, NEW p \in Process, TruncatePayload(p)
  PROVE  ReleaseIInv'
<1>1. PICK c \in COMMANDS : c = proc[p]
  BY DEF ReleaseIInv, Typed
<1>2. /\ c.pc = "publish" /\ c.todo \in Seq(ARCHIVES) /\ c.todo # <<>>
      /\ c.update /\ Supplied(c) /\ Honest(c)
  BY <1>1 DEF TruncatePayload, COMMANDS, ReleaseIInv, Supplied
<1>3. PICK a \in ARCHIVES : a = Head(c.todo) /\ a \in Members(c.todo)
  BY <1>2, Behind
<1>4. PICK d : d = [c EXCEPT !.pc = "payload"]
  OBVIOUS
<1>5. proc' = Disturbed([proc EXCEPT ![p] = d], {p})
  BY <1>1, <1>4 DEF TruncatePayload, ReleaseIInv, Typed
<1>6. /\ d \in COMMANDS /\ d.output = c.output /\ d.group = c.group
      /\ d.update = c.update /\ d.loaded = c.loaded /\ d.disturbed = c.disturbed
      /\ d.pc = "payload" /\ d.todo = c.todo
  BY <1>4 DEF COMMANDS
<1>7. Supplied(d)
  BY <1>2, <1>6 DEF Supplied
<1>8. /\ UNCHANGED tree /\ UNCHANGED build /\ UNCHANGED manifest
      /\ UNCHANGED crashes /\ UNCHANGED releases
      /\ payload' = [payload EXCEPT ![a] = PARTIAL]
  BY <1>1, <1>3 DEF TruncatePayload
<1>9. /\ payload \in PAYLOADS /\ manifest \in RELEASES \cup {PARTIAL}
      /\ crashes \in 0 .. MaxCrashes
      /\ manifest # PARTIAL => manifest.artifacts \in releases
  BY DEF ReleaseIInv, Typed, Remembered
<1>10. /\ payload' \in PAYLOADS /\ payload'[a] = PARTIAL
       /\ \A b \in ARCHIVES : b # a => payload'[b] = payload[b]
  BY <1>8, <1>9 DEF PAYLOADS
<1>11. Honest(d)'
  <2>1. SUFFICES ASSUME ~c.disturbed PROVE Knows(d)'
    BY <1>6 DEF Honest
  <2>2. Knows(c)
    BY <1>2, <2>1 DEF Honest
  <2>3. Members(SelectedArchives(c.group)) \subseteq ARCHIVES
    BY GroupLists
  <2>4. \A b \in Members(SelectedArchives(c.group)) :
          b \in Members(d.todo) \/ Settled(d, b)'
    BY <1>2, <1>3, <1>6, <1>8, <1>10, <2>2, <2>3 DEF Knows, Settled, Current
  <2> QED BY <1>2, <1>3, <1>6, <1>8, <1>10, <2>2, <2>4 DEF Knows, Current
<1> QED BY <1>5, <1>6, <1>7, <1>8, <1>9, <1>10, <1>11, FilesAndCommand

\* The payload is filled, and the manifest that the command holds is corrected.
LEMMA WritePayloadKeeps ==
  ASSUME ReleaseIInv, NEW p \in Process, WritePayload(p)
  PROVE  ReleaseIInv'
<1>1. PICK c \in COMMANDS : c = proc[p]
  BY DEF ReleaseIInv, Typed
<1>2. /\ c.pc = "payload" /\ c.todo \in Seq(ARCHIVES) /\ c.todo # <<>>
      /\ c.update /\ Supplied(c) /\ Honest(c) /\ c.loaded \in RELEASES
  BY <1>1 DEF WritePayload, COMMANDS, ReleaseIInv, Supplied
<1>3. PICK a \in ARCHIVES : a = Head(c.todo) /\ a \in Members(c.todo)
  BY <1>2, Behind
<1>4. /\ Tail(c.todo) \in Seq(ARCHIVES)
      /\ \A b \in Members(c.todo) : b = a \/ b \in Members(Tail(c.todo))
      /\ Members(Tail(c.todo)) \subseteq Members(c.todo)
  BY <1>2, <1>3, Behind
<1>5. PICK x : x = c.output[a]
  OBVIOUS
<1>6. x \in Genuine(a)
  BY <1>2, <1>3, <1>5 DEF Supplied
<1>7. PICK corrected : corrected = Recorded(c.loaded, a, x)
  OBVIOUS
<1>8. /\ corrected \in RELEASES /\ corrected.revision = c.loaded.revision
      /\ corrected.artifacts[a] = x
      /\ \A b \in ARCHIVES : b # a => corrected.artifacts[b] = c.loaded.artifacts[b]
  <2>1. /\ c.loaded.artifacts \in TABLES
        /\ corrected = [c.loaded EXCEPT
             !.artifacts = [c.loaded.artifacts EXCEPT ![a] = x]]
    BY <1>2, <1>7 DEF Recorded, RELEASES
  <2>2. [c.loaded.artifacts EXCEPT ![a] = x] \in TABLES
    BY <1>6, <2>1, EntryReplaced
  <2>3. /\ [c.loaded.artifacts EXCEPT ![a] = x][a] = x
        /\ \A b \in ARCHIVES : b # a =>
             [c.loaded.artifacts EXCEPT ![a] = x][b] = c.loaded.artifacts[b]
    BY <2>1 DEF TABLES
  <2> QED BY <1>2, <2>1, <2>2, <2>3, SMTT(40) DEF RELEASES
<1>9. PICK d : d = [c EXCEPT !.pc = "publish", !.todo = Tail(c.todo),
                             !.loaded = corrected]
  OBVIOUS
<1>10. proc' = Disturbed([proc EXCEPT ![p] = d], {p})
  BY <1>1, <1>3, <1>5, <1>7, <1>9 DEF WritePayload, ReleaseIInv, Typed
<1>11. /\ d \in COMMANDS /\ d.output = c.output /\ d.group = c.group
       /\ d.update = c.update /\ d.loaded = corrected /\ d.disturbed = c.disturbed
       /\ d.pc = "publish" /\ d.todo = Tail(c.todo)
  BY <1>4, <1>8, <1>9 DEF COMMANDS
<1>12. Supplied(d)
  BY <1>2, <1>4, <1>11, SMTT(40) DEF Supplied
<1>13. /\ UNCHANGED tree /\ UNCHANGED build /\ UNCHANGED manifest
       /\ UNCHANGED crashes /\ UNCHANGED releases
       /\ \E y \in Filled(payload[a], x) : payload' = [payload EXCEPT ![a] = y]
  BY <1>1, <1>3, <1>5 DEF WritePayload
<1>14. /\ payload \in PAYLOADS /\ manifest \in RELEASES \cup {PARTIAL}
       /\ crashes \in 0 .. MaxCrashes
       /\ manifest # PARTIAL => manifest.artifacts \in releases
  BY DEF ReleaseIInv, Typed, Remembered
<1>15. PICK y \in Filled(payload[a], x) : payload' = [payload EXCEPT ![a] = y]
  BY <1>13
<1>16. /\ payload' \in PAYLOADS
       /\ payload'[a] = y
       /\ \A b \in ARCHIVES : b # a => payload'[b] = payload[b]
  <2>1. y = x \/ y = PARTIAL
    BY <1>15 DEF Filled
  <2>2. payload' \in PAYLOADS
    BY <1>6, <1>14, <1>15, <2>1, EntryReplaced
  <2> QED BY <1>14, <1>15, <2>2 DEF PAYLOADS
<1>17. Honest(d)'
  <2>1. SUFFICES ASSUME ~c.disturbed PROVE Knows(d)'
    BY <1>11 DEF Honest
  <2>2. Knows(c)
    BY <1>2, <2>1 DEF Honest
  <2>3. Members(SelectedArchives(c.group)) \subseteq ARCHIVES
    BY GroupLists
  <2>4. x = Current(a) /\ y = x
    BY <1>2, <1>3, <1>5, <1>15, <2>2 DEF Knows, Filled
  <2>5. Settled(d, a)' /\ \A b \in ARCHIVES : Settled(c, b) => Settled(d, b)'
    BY <1>8, <1>11, <1>13, <1>16, <2>4 DEF Settled, Current
  <2>6. \A b \in Members(SelectedArchives(c.group)) :
          b \in Members(d.todo) \/ Settled(d, b)'
    BY <1>2, <1>4, <1>11, <2>2, <2>3, <2>5 DEF Knows
  <2>7. \A b \in Members(d.todo) : d.output[b] = Current(b)'
    BY <1>2, <1>4, <1>11, <1>13, <2>2 DEF Knows, Current
  <2>8. d.loaded.revision = tree'.revision
    BY <1>2, <1>8, <1>11, <1>13, <2>2 DEF Knows
  <2> QED BY <1>2, <1>11, <2>6, <2>7, <2>8 DEF Knows
<1> QED BY <1>10, <1>11, <1>12, <1>13, <1>14, <1>16, <1>17, FilesAndCommand

\* All payloads are written; the manifest is truncated.
LEMMA TruncateManifestKeeps ==
  ASSUME ReleaseIInv, NEW p \in Process, TruncateManifest(p)
  PROVE  ReleaseIInv'
<1>1. PICK c \in COMMANDS : c = proc[p]
  BY DEF ReleaseIInv, Typed
<1>2. /\ c.pc = "publish" /\ c.todo = <<>> /\ c.update
      /\ Supplied(c) /\ Honest(c)
  BY <1>1 DEF TruncateManifest, ReleaseIInv, Supplied
<1>3. PICK d : d = [c EXCEPT !.pc = "manifest"]
  OBVIOUS
<1>4. proc' = Disturbed([proc EXCEPT ![p] = d], {p})
  BY <1>1, <1>3 DEF TruncateManifest, ReleaseIInv, Typed
<1>5. /\ d \in COMMANDS /\ d.output = c.output /\ d.group = c.group
      /\ d.update = c.update /\ d.loaded = c.loaded /\ d.disturbed = c.disturbed
      /\ d.pc = "manifest" /\ d.todo = <<>>
  BY <1>2, <1>3 DEF COMMANDS
<1>6. Supplied(d)
  BY <1>2, <1>5 DEF Supplied
<1>7. /\ UNCHANGED tree /\ UNCHANGED build /\ UNCHANGED payload
      /\ UNCHANGED crashes /\ UNCHANGED releases /\ manifest' = PARTIAL
  BY DEF TruncateManifest
<1>8. Honest(d)'
  <2>1. SUFFICES ASSUME ~c.disturbed PROVE Knows(d)'
    BY <1>5 DEF Honest
  <2>2. Knows(c)
    BY <1>2, <2>1 DEF Honest
  <2>3. \A b : Settled(d, b)' <=> Settled(c, b)
    BY <1>5, <1>7 DEF Settled, Current
  <2> QED BY <1>2, <1>5, <1>7, <2>2, <2>3 DEF Knows
<1>9. /\ payload \in PAYLOADS /\ crashes \in 0 .. MaxCrashes
  BY DEF ReleaseIInv, Typed
<1> QED BY <1>4, <1>5, <1>6, <1>7, <1>8, <1>9, FilesAndCommand

\* The manifest is filled; the update ends well.
LEMMA WriteManifestKeeps ==
  ASSUME ReleaseIInv, NEW p \in Process, WriteManifest(p)
  PROVE  ReleaseIInv'
<1>1. PICK c \in COMMANDS : c = proc[p]
  BY DEF ReleaseIInv, Typed
<1>2. /\ c.pc = "manifest" /\ c.update /\ c.todo = <<>>
      /\ Supplied(c) /\ Honest(c) /\ c.loaded \in RELEASES
  BY <1>1 DEF WriteManifest, COMMANDS, ReleaseIInv, Supplied
<1>3. PICK d : d = [c EXCEPT !.pc = "ok"]
  OBVIOUS
<1>4. proc' = Disturbed([proc EXCEPT ![p] = d], {p})
  BY <1>1, <1>3 DEF WriteManifest, ReleaseIInv, Typed
<1>5. /\ d \in COMMANDS /\ d.output = c.output /\ d.group = c.group
      /\ d.update = c.update /\ d.loaded = c.loaded /\ d.disturbed = c.disturbed
      /\ d.pc = "ok" /\ d.todo = <<>>
  BY <1>2, <1>3 DEF COMMANDS
<1>6. Supplied(d)
  BY <1>2, <1>5 DEF Supplied
<1>7. /\ UNCHANGED tree /\ UNCHANGED build /\ UNCHANGED payload
      /\ UNCHANGED crashes
      /\ manifest' \in Filled(manifest, c.loaded)
      /\ releases' = releases \cup {c.loaded.artifacts}
  BY <1>1 DEF WriteManifest
<1>8. manifest' = c.loaded \/ manifest' = PARTIAL
  BY <1>7 DEF Filled
<1>9. Honest(d)'
  <2>1. SUFFICES ASSUME ~c.disturbed PROVE Knows(d)'
    BY <1>5 DEF Honest
  <2>2. Knows(c)
    BY <1>2, <2>1 DEF Honest
  <2>3. manifest' = c.loaded
    BY <1>2, <1>7, <2>2 DEF Knows, Filled
  <2>4. \A b : Settled(d, b)' <=> Settled(c, b)
    BY <1>5, <1>7 DEF Settled, Current
  <2> QED BY <1>2, <1>5, <1>7, <2>2, <2>3, <2>4 DEF Knows
<1>10. /\ payload \in PAYLOADS /\ crashes \in 0 .. MaxCrashes
       /\ manifest' \in RELEASES \cup {PARTIAL}
       /\ manifest' # PARTIAL => manifest'.artifacts \in releases'
  BY <1>2, <1>7, <1>8 DEF ReleaseIInv, Typed
<1> QED BY <1>4, <1>5, <1>6, <1>7, <1>9, <1>10, FilesAndCommand

\* The build script of the blob crate touches nothing of the commands.
LEMMA CargoKeeps ==
  ASSUME ReleaseIInv, CargoStart \/ CargoExpand \/ CargoExport \/ CargoEnd
  PROVE  ReleaseIInv'
<1>1. /\ UNCHANGED tree /\ UNCHANGED manifest /\ UNCHANGED payload
      /\ UNCHANGED proc /\ UNCHANGED crashes /\ UNCHANGED releases
  BY DEF CargoStart, CargoExpand, CargoExport, CargoEnd
<1>2. \A q \in Process : Supplied(proc[q])' /\ Honest(proc[q])'
  <2>1. ASSUME NEW q \in Process
        PROVE  /\ Supplied(proc[q])' <=> Supplied(proc[q])
               /\ Honest(proc[q])' <=> Honest(proc[q])
    <3>1. ASSUME NEW a
          PROVE  /\ Current(a)' = Current(a) /\ Genuine(a)' = Genuine(a)
                 /\ Settled(proc[q], a)' <=> Settled(proc[q], a)
      BY <1>1 DEF Current, Genuine, Settled
    <3>2. Knows(proc[q])' <=> Knows(proc[q])
      BY <1>1, <3>1, Zenon DEF Knows
    <3>3. Supplied(proc[q])' <=> Supplied(proc[q])
      BY <1>1, <3>1, Zenon DEF Supplied
    <3> QED BY <1>1, <3>2, <3>3 DEF Honest
  <2> QED BY <2>1 DEF ReleaseIInv
<1>3. build \in BUILDS /\ Typed /\ Remembered
  BY DEF ReleaseIInv, Typed
<1>4. ASSUME build' \in BUILDS,
             build'.pc # "idle" =>
               /\ build'.loaded.artifacts \in releases
               /\ \A a \in ARCHIVES : \/ a \in Members(build'.todo)
                                      \/ build'.lib[a] = build'.loaded.artifacts[a],
             build'.pc = "ok" => build'.todo = <<>>
      PROVE  ReleaseIInv'
  <2>1. Typed'
    BY <1>1, <1>3, <1>4 DEF Typed
  <2>2. Remembered'
    BY <1>1, <1>3, <1>4 DEF Remembered
  <2> QED BY <1>2, <2>1, <2>2 DEF ReleaseIInv
<1>5. CASE CargoStart
  <2>1. /\ manifest \in RELEASES /\ manifest.artifacts \in releases
    BY <1>3, <1>5 DEF CargoStart, Typed, Remembered
  <2>2. /\ Listed \in Seq(ARCHIVES) /\ Nothing \in PARTS
        /\ \A a \in ARCHIVES : a \in Members(Listed)
    BY GroupLists, FirstTables DEF ARCHIVES
  <2>3. build' = [pc |-> "expand", loaded |-> manifest, todo |-> Listed,
                  lib |-> Nothing]
    BY <1>5 DEF CargoStart
  <2> QED BY <1>4, <2>1, <2>2, <2>3 DEF BUILDS
<1>6. CASE CargoExpand
  <2>1. PICK b \in BUILDS : b = build
    BY <1>3
  <2>2. /\ b.pc = "expand" /\ b.todo \in Seq(ARCHIVES) /\ b.todo # <<>>
        /\ b.lib \in PARTS /\ b.loaded \in RELEASES /\ b.loaded.artifacts \in releases
        /\ \A a \in ARCHIVES : \/ a \in Members(b.todo)
                               \/ b.lib[a] = b.loaded.artifacts[a]
    BY <1>3, <1>6, <2>1 DEF CargoExpand, BUILDS, Remembered
  <2>3. PICK h \in ARCHIVES : h = Head(b.todo)
    BY <2>2, Behind
  <2>4. /\ Tail(b.todo) \in Seq(ARCHIVES)
        /\ \A a \in Members(b.todo) : a = h \/ a \in Members(Tail(b.todo))
    BY <2>2, <2>3, Behind
  <2>5. CASE ~ExpandsAsListed(h)
    <3>1. build' = NotBuilding
      BY <1>6, <2>1, <2>3, <2>5 DEF CargoExpand
    <3> QED BY <1>4, <3>1, FirstTables DEF NotBuilding
  <2>6. CASE ExpandsAsListed(h)
    <3>1. payload[h] = b.loaded.artifacts[h] /\ payload[h] \in Genuine(h)
      BY <2>1, <2>2, <2>6 DEF ExpandsAsListed, RELEASES, TABLES
    <3>2. PICK lib \in PARTS : lib = [b.lib EXCEPT ![h] = payload[h]]
      BY <2>2, <3>1, EntryReplaced
    <3>3. lib[h] = payload[h] /\ \A a \in ARCHIVES : a # h => lib[a] = b.lib[a]
      BY <2>2, <3>2 DEF PARTS
    <3>4. build' = [b EXCEPT !.lib = lib, !.todo = Tail(b.todo)]
      BY <1>6, <2>1, <2>3, <2>6, <3>2 DEF CargoExpand, BUILDS
    <3>5. /\ build' \in BUILDS /\ build'.pc = "expand" /\ build'.lib = lib
          /\ build'.loaded = b.loaded /\ build'.todo = Tail(b.todo)
      BY <2>2, <2>4, <3>2, <3>4 DEF BUILDS
    <3> QED BY <1>4, <2>2, <2>4, <3>1, <3>3, <3>5
  <2> QED BY <2>5, <2>6
<1>7. CASE CargoExport
  <2>1. PICK b \in BUILDS : b = build
    BY <1>3
  <2>2. b.pc = "expand" /\ b.todo = <<>> /\ build' = [b EXCEPT !.pc = "ok"]
    BY <1>7, <2>1 DEF CargoExport
  <2>3. /\ build' \in BUILDS /\ build'.pc = "ok" /\ build'.lib = b.lib
        /\ build'.loaded = b.loaded /\ build'.todo = <<>>
    BY <2>1, <2>2 DEF BUILDS
  <2> QED BY <1>3, <1>4, <2>1, <2>2, <2>3 DEF Remembered
<1>8. CASE CargoEnd
  <2>1. build' = NotBuilding
    BY <1>8 DEF CargoEnd
  <2> QED BY <1>4, <2>1, FirstTables DEF NotBuilding
<1> QED BY <1>5, <1>6, <1>7, <1>8

LEMMA StepReleaseIInv == ReleaseIInv /\ [ReleaseNext]_release_vars => ReleaseIInv'
<1> SUFFICES ASSUME ReleaseIInv, [ReleaseNext]_release_vars PROVE ReleaseIInv'
  OBVIOUS
<1>1. CASE (\E revised \in BOOLEAN : EditSources(revised)) \/ DeclareRevision \/ Restore
  BY <1>1, MaintainerKeeps
<1>2. ASSUME NEW p \in Process, NEW update \in BOOLEAN, NEW group \in GROUPS,
             NEW compiler \in COMPILERS, Start(p, update, group, compiler)
      PROVE  ReleaseIInv'
  BY <1>2, StartKeeps
<1>3. ASSUME NEW p \in Process, Step(p) \/ Crash(p)
      PROVE  ReleaseIInv'
  <2>1. CASE BuildProfile(p)
    BY <2>1, BuildKeeps
  <2>2. CASE Compare(p)
    BY <2>2, CompareKeeps
  <2>3. CASE BuildsDone(p)
    BY <2>3, BuildsDoneKeeps
  <2>4. CASE TruncatePayload(p)
    BY <2>4, TruncatePayloadKeeps
  <2>5. CASE WritePayload(p)
    BY <2>5, WritePayloadKeeps
  <2>6. CASE TruncateManifest(p)
    BY <2>6, TruncateManifestKeeps
  <2>7. CASE WriteManifest(p)
    BY <2>7, WriteManifestKeeps
  <2>8. CASE Fail(p) \/ Exit(p) \/ Crash(p)
    BY <2>8, EndKeeps
  <2> QED BY <1>3, <2>1, <2>2, <2>3, <2>4, <2>5, <2>6, <2>7, <2>8 DEF Step
<1>4. CASE CargoStart \/ CargoExpand \/ CargoExport \/ CargoEnd
  BY <1>4, CargoKeeps
<1>5. CASE UNCHANGED release_vars
  <2>1. /\ tree' = tree /\ manifest' = manifest /\ payload' = payload /\ proc' = proc
        /\ build' = build /\ releases' = releases /\ crashes' = crashes
    BY <1>5 DEF release_vars
  <2>2. Typed' /\ Remembered'
    BY <2>1 DEF ReleaseIInv, Typed, Remembered
  <2>3. ASSUME NEW q \in Process
        PROVE  Supplied(proc[q])' /\ Honest(proc[q])'
    <3>1. ASSUME NEW a
          PROVE  /\ Current(a)' = Current(a) /\ Genuine(a)' = Genuine(a)
                 /\ Settled(proc[q], a)' <=> Settled(proc[q], a)
      BY <2>1 DEF Current, Genuine, Settled
    <3>2. Knows(proc[q])' <=> Knows(proc[q])
      BY <2>1, <3>1, Zenon DEF Knows
    <3>3. Supplied(proc[q])' <=> Supplied(proc[q])
      BY <2>1, <3>1, Zenon DEF Supplied
    <3> QED BY <2>1, <3>2, <3>3 DEF Honest, ReleaseIInv
  <2> QED BY <2>2, <2>3 DEF ReleaseIInv
<1> QED BY <1>1, <1>2, <1>3, <1>4, <1>5 DEF ReleaseNext

\* The invariant holds in every state of every behaviour.
THEOREM ReleaseInvariance == ReleaseSpec => []ReleaseIInv
BY InitReleaseIInv, StepReleaseIInv, PTL DEF ReleaseSpec

\* Whoever builds with the blob crate gets the archives of one manifest, and nobody
\* ever sees those of another compiler, whatever updates run, are killed or write
\* into each other (ws63-radio-blob/build.rs:97-119, native_supplicant.rs:345-376).
THEOREM OnlyReleasedHolds == ReleaseSpec => []OnlyReleased
<1>1. ASSUME ReleaseIInv
      PROVE  OnlyReleased
  <2>1. Typed /\ Remembered
    BY <1>1 DEF ReleaseIInv
  <2>2. ExportsAreARelease
    <3>1. ASSUME build.pc = "ok"
          PROVE  build.lib \in releases
      <4>1. /\ build.lib \in PARTS /\ build.loaded.artifacts \in TABLES
            /\ build.loaded.artifacts \in releases
        BY <2>1, <3>1 DEF Typed, BUILDS, RELEASES, Remembered
      <4>2. \A a \in ARCHIVES : build.lib[a] = build.loaded.artifacts[a]
        BY <2>1, <3>1 DEF Remembered, Members
      <4>3. build.lib = build.loaded.artifacts
        BY <4>1, <4>2 DEF PARTS, TABLES
      <4> QED BY <4>1, <4>3
    <3> QED BY <3>1 DEF ExportsAreARelease
  <2>3. ASSUME NEW a \in ARCHIVES
        PROVE  /\ manifest # PARTIAL => manifest.artifacts[a] \in Genuine(a)
               /\ payload[a] # PARTIAL => payload[a] \in Genuine(a)
               /\ build.lib[a] # NO_ARCHIVE => build.lib[a] \in Genuine(a)
    BY <2>1 DEF Typed, RELEASES, TABLES, PAYLOADS, BUILDS, PARTS
  <2>4. OnlyPinnedReleased
    BY <2>3, GenuineContent DEF OnlyPinnedReleased
  <2> QED BY <2>2, <2>4 DEF OnlyReleased
<1> QED BY <1>1, ReleaseInvariance, PTL

\* A check that reports a match, and an update that ends, speak of the sources, the
\* manifest and the payloads as they are, unless others touched them meanwhile; a
\* mess that killed commands had left does not matter
\* (native_supplicant.rs:400-520).
THEOREM OkIsReproducibleHolds == ReleaseSpec => []OkIsReproducible
<1>1. ASSUME ReleaseIInv
      PROVE  OkIsReproducible
  <2>1. Typed
    BY <1>1 DEF ReleaseIInv
  <2>2. ASSUME NEW r \in RELEASES
        PROVE  IsManifest(r)
    BY GenuineContent DEF RELEASES, TABLES, IsManifest
  <2>3. ReleaseTypeOK
    <3>1. ASSUME NEW a \in ARCHIVES
          PROVE  /\ payload[a] = PARTIAL \/ payload[a] \in CONTENTS(a)
                 /\ build.lib[a] = NO_ARCHIVE \/ build.lib[a] \in CONTENTS(a)
                 /\ \A p \in Process : \/ proc[p].output[a] = NO_ARCHIVE
                                       \/ proc[p].output[a] \in CONTENTS(a)
      <4>1. payload[a] = PARTIAL \/ payload[a] \in CONTENTS(a)
        BY <2>1, GenuineContent DEF Typed, PAYLOADS
      <4>2. \A t \in PARTS : t[a] = NO_ARCHIVE \/ t[a] \in CONTENTS(a)
        BY GenuineContent DEF PARTS
      <4>3. build.lib \in PARTS /\ \A p \in Process : proc[p].output \in PARTS
        BY <2>1 DEF Typed, BUILDS, COMMANDS
      <4> QED BY <4>1, <4>2, <4>3
    <3>2. ASSUME NEW p \in Process
          PROVE  /\ proc[p].pc \in {"idle", "build", "compare", "publish",
                                    "payload", "manifest", "ok"}
                 /\ Members(proc[p].todo) \subseteq ARCHIVES
                 /\ IsManifest(proc[p].loaded)
      <4>1. proc[p] \in COMMANDS
        BY <2>1 DEF Typed
      <4> QED BY <4>1, <2>2 DEF COMMANDS, Members
    <3>3. manifest = PARTIAL \/ IsManifest(manifest)
      BY <2>1, <2>2 DEF Typed
    <3> QED BY <2>1, <3>1, <3>2, <3>3 DEF Typed, BUILDS, ReleaseTypeOK
  <2>4. ASSUME NEW p \in Process, proc[p].pc = "ok", ~proc[p].disturbed
        PROVE  /\ \A a \in Members(SelectedArchives(proc[p].group)) : Agrees(a)
               /\ manifest.revision = tree.revision
    <3>1. PICK c \in COMMANDS : c = proc[p]
      BY <2>1 DEF Typed
    <3>2. /\ c.pc = "ok" /\ ~c.disturbed /\ Supplied(c) /\ Honest(c)
      BY <1>1, <2>4, <3>1 DEF ReleaseIInv
    <3>3. /\ manifest = c.loaded /\ c.loaded.revision = tree.revision
          /\ c.todo = <<>>
      BY <3>2 DEF Honest, Knows, Supplied
    <3>4. \A a \in Members(SelectedArchives(c.group)) : Settled(c, a)
      BY <3>2, <3>3 DEF Honest, Knows, Members
    <3>5. manifest # PARTIAL
      BY <3>3, WholeManifest DEF COMMANDS
    <3> QED BY <3>1, <3>3, <3>4, <3>5 DEF Settled, Current, Agrees
  <2> QED BY <2>3, <2>4 DEF OkIsReproducible, VerifiedIsReproducible, UpdateRepairs
<1> QED BY <1>1, ReleaseInvariance, PTL

-----------------------------------------------------------------------------
\* Division with remainder, for a divisor that is not a literal.
LEMMA DivMod ==
  ASSUME NEW v \in Int, NEW p \in Nat \ {0}
  PROVE  /\ v \div p \in Int /\ v % p \in Int
         /\ v = p * (v \div p) + (v % p)
         /\ 0 <= v % p /\ v % p < p
OBVIOUS

LEMMA OneRemainder ==
  ASSUME NEW p \in Nat \ {0}, NEW q \in Int, NEW r \in Int, 0 <= r, r < p
  PROVE  (p * q + r) % p = r /\ (p * q + r) \div p = q
OBVIOUS

\* A remainder may be added instead of the number.
LEMMA AddRemainder ==
  ASSUME NEW p \in Nat \ {0}, NEW x \in Int, NEW y \in Int
  PROVE  (x + (y % p)) % p = (x + y) % p
<1>1. PICK q \in Int, r \in Int : y = p * q + r /\ r = y % p /\ q = y \div p
  BY DivMod
<1>2. PICK q2 \in Int, r2 \in Int :
        x + r = p * q2 + r2 /\ 0 <= r2 /\ r2 < p /\ r2 = (x + r) % p
  BY DivMod
<1> DEFINE q3 == q + q2
<1>3. x + y = p * q3 + r2
  <2>1. p * (q + q2) = p * q + p * q2 /\ p * q \in Int /\ p * q2 \in Int
    OBVIOUS
  <2>2. x + y = (x + r) + p * q
    BY <1>1, <2>1
  <2>3. p * (q + q2) + r2 = (x + r) + p * q
    BY <1>2, <2>1
  <2> QED BY <2>2, <2>3
<1> q3 \in Int
  OBVIOUS
<1> HIDE DEF q3
<1>4. (x + y) % p = r2
  <2>1. (p * q3 + r2) % p = r2
    BY <1>2, OneRemainder
  <2> QED BY <1>3, <2>1, Zenon
<1> QED BY <1>1, <1>2, <1>4

StrictOrder(S, Before) ==
  /\ \A a \in S : <<a, a>> \notin Before
  /\ \A a, b \in S : a # b => <<a, b>> \in Before \/ <<b, a>> \in Before
  /\ \A a, b, c \in S : <<a, b>> \in Before /\ <<b, c>> \in Before
                          => <<a, c>> \in Before

Ranks(S, Before) == [a \in S |-> Cardinality({b \in S : <<b, a>> \in Before})]

Numbers(rank, S) ==
  /\ Cardinality(S) \in Nat
  /\ \A a \in S : rank[a] \in 0 .. Cardinality(S) - 1
  /\ \A a, b \in S : rank[a] = rank[b] => a = b
  /\ \A i \in 0 .. Cardinality(S) - 1 : \E a \in S : rank[a] = i

\* In a strict order of a finite set, counting what comes before numbers it.
LEMMA RankFacts ==
  ASSUME NEW S, IsFiniteSet(S), NEW Before, StrictOrder(S, Before),
         NEW rank, rank = Ranks(S, Before)
  PROVE  Numbers(rank, S)
<1> USE DEF StrictOrder, Ranks
<1> DEFINE below(a) == {b \in S : <<b, a>> \in Before}
<1>1. Cardinality(S) \in Nat
  BY FS_CardinalityType
<1>2. ASSUME NEW a \in S, NEW B, IsFiniteSet(B), below(a) \subseteq B \ {a}, a \in B
      PROVE  /\ rank[a] \in Nat /\ rank[a] < Cardinality(B) /\ Cardinality(B) \in Nat
  <2>1. /\ IsFiniteSet(B \ {a}) /\ Cardinality(B) \in Nat /\ Cardinality(B) # 0
        /\ Cardinality(B \ {a}) = Cardinality(B) - 1
    BY <1>2, UserRemoved
  <2>2. below(a) \in SUBSET (B \ {a})
    BY <1>2
  <2>3. IsFiniteSet(below(a)) /\ Cardinality(below(a)) <= Cardinality(B \ {a})
    <3> HIDE DEF below
    <3> QED BY <2>1, <2>2, FS_Subset
  <2>4. Cardinality(below(a)) \in Nat
    BY <2>3, FS_CardinalityType
  <2>5. rank[a] = Cardinality(below(a))
    OBVIOUS
  <2> HIDE DEF below
  <2> QED BY <2>1, <2>3, <2>4, <2>5
<1>3. ASSUME NEW a \in S
      PROVE  rank[a] \in 0 .. Cardinality(S) - 1
  <2>1. below(a) \subseteq S \ {a}
    OBVIOUS
  <2>2. rank[a] \in Nat /\ rank[a] < Cardinality(S)
    <3> HIDE DEF below
    <3> QED BY <1>2, <2>1
  <2> QED BY <1>1, <2>2
<1>4. ASSUME NEW a \in S, NEW b \in S, <<a, b>> \in Before
      PROVE  rank[a] < rank[b]
  <2>1. IsFiniteSet(below(b))
    BY FS_Subset
  <2>2. below(a) \subseteq below(b) \ {a} /\ a \in below(b)
    BY <1>4
  <2>3. rank[b] = Cardinality(below(b))
    OBVIOUS
  <2> HIDE DEF below
  <2> QED BY <1>2, <2>1, <2>2, <2>3
<1>5. ASSUME NEW a \in S, NEW b \in S, rank[a] = rank[b]
      PROVE  a = b
  <2>1. rank[a] \in Int /\ rank[b] \in Int
    BY <1>1, <1>3
  <2>2. ~(rank[a] < rank[b]) /\ ~(rank[b] < rank[a])
    BY <1>5, <2>1
  <2> QED BY <1>4, <2>2
<1>6. ASSUME NEW i \in 0 .. Cardinality(S) - 1
      PROVE  \E a \in S : rank[a] = i
  <2> DEFINE numbers == 0 .. Cardinality(S) - 1
  <2>1. IsFiniteSet(numbers) /\ Cardinality(numbers) = Cardinality(S)
    <3>1. /\ IsFiniteSet(numbers)
          /\ Cardinality(numbers) = IF 0 > Cardinality(S) - 1 THEN 0
                                    ELSE Cardinality(S) - 1 - 0 + 1
      <4>1. 0 \in Int /\ Cardinality(S) - 1 \in Int
        BY <1>1
      <4> QED BY <4>1, FS_Interval, Zenon
    <3> QED BY <1>1, <3>1
  <2>2. rank \in Injection(S, numbers)
    BY <1>3, <1>5 DEF Injection, IsInjective
  <2> HIDE DEF numbers
  <2>3. rank \in Surjection(S, numbers)
    BY <2>1, <2>2, FS_Injection
  <2>4. i \in numbers
    BY DEF numbers
  <2> QED BY <2>3, <2>4 DEF Surjection
<1> HIDE DEF below
<1> QED BY <1>1, <1>3, <1>5, <1>6 DEF Numbers

\* The cardinality that the modules of the instance take is the same.
LEMMA SameCardinality ==
  ASSUME NEW S
  PROVE  T!Cardinality(S) = Cardinality(S)
BY Zenon DEF T!Cardinality, Cardinality

Jump(n) == [offset |-> T!Slot(n), symbol |-> n, addend |-> T!Addend(n)]

\* What was written is what the two files say.
RomInv ==
  /\ input \in RomTables /\ pc \in {"start", "object", "linked", "panic"}
  /\ pc \in {"object", "linked"} =>
       /\ T!Accepted
       /\ object = [compare |-> T!CompareWords,
                    relocations |-> {Jump(n) : n \in T!Listed}]
  /\ pc = "linked" => placement \in Placements

LEMMA RomKept ==
  ASSUME part = "table" => RomInv, [BuildNext]_<<part, vars, romtable, release_vars>>
  PROVE  (part = "table" => RomInv)'
<1>1. SUFFICES ASSUME part' = "table" PROVE RomInv'
  OBVIOUS
<1>2. /\ part = "table" /\ RomInv
      /\ T!Next \/ UNCHANGED <<input, pc, object, placement>>
  <2>1. CASE BuildNext
    BY <1>1, <2>1 DEF BuildNext
  <2>2. CASE UNCHANGED <<part, vars, romtable, release_vars>>
    BY <1>1, <2>2 DEF romtable
  <2> QED BY <2>1, <2>2
<1>3. input' = input
  BY <1>2 DEF T!Next, T!WriteObject, T!Panic, T!Link, T!Done, T!vars
<1>4. /\ T!Accepted' = T!Accepted /\ T!CompareWords' = T!CompareWords
      /\ {Jump(n) : n \in T!Listed}' = {Jump(n) : n \in T!Listed}
  BY <1>3 DEF T!Accepted, T!SymbolsParse, T!PatchesParse, T!Listed, T!Named,
     T!SymbolLines, T!CompareWords, T!Original, T!Index, T!SortedBefore,
     Jump, T!Slot, T!Addend
<1>5. CASE UNCHANGED <<input, pc, object, placement>>
  BY <1>2, <1>4, <1>5 DEF RomInv
<1>6. CASE T!WriteObject
  BY <1>2, <1>4, <1>6 DEF T!WriteObject, RomInv, Jump
<1>7. CASE T!Panic
  BY <1>2, <1>7 DEF T!Panic, RomInv
<1>8. CASE T!Link
  BY <1>2, <1>4, <1>8 DEF T!Link, RomInv
<1>9. CASE T!Done
  BY <1>2, <1>5, <1>9 DEF T!Done, T!vars
<1> QED BY <1>2, <1>5, <1>6, <1>7, <1>8, <1>9 DEF T!Next

\* A name of the list is that of a function in the ROM, and has a place of its own
\* in the order.
LEMMA ListedNames ==
  ASSUME input \in RomTables, T!Accepted
  PROVE  /\ IsFiniteSet(T!Listed)
         /\ T!Listed \subseteq Nat
         /\ \A n \in T!Listed : /\ T!Original(n) \in ROM_START .. ROM_END - 1
                                /\ T!Original(n) \in Nat /\ T!Original(n) % 2 = 0
<1>1. /\ input.symbols \in Seq([kind : STRING, name : Nat, address : Nat])
      /\ input.patches \in Seq(Nat)
  BY TableAssumption
<1>2. T!Listed \subseteq Nat
  BY <1>1 DEF T!Listed
<1>3. IsFiniteSet(T!Listed)
  <2>1. input.patches \in Surjection(1 .. Len(input.patches), T!Listed)
    BY <1>1 DEF Surjection, T!Listed
  <2>2. IsFiniteSet(1 .. Len(input.patches))
    BY <1>1, FS_Interval
  <2> QED BY <2>1, <2>2, FS_Surjection
<1>4. ASSUME NEW n \in T!Listed
      PROVE  /\ T!Original(n) \in ROM_START .. ROM_END - 1
             /\ T!Original(n) \in Nat /\ T!Original(n) % 2 = 0
  <2> DEFINE i == CHOOSE k \in T!Named(n) : TRUE
             a == input.symbols[i].address
  <2>1. i \in T!Named(n)
    BY DEF T!Accepted
  <2>2. T!Original(n) = T!Even(a)
    BY DEF T!Original
  <2> HIDE DEF i
  <2>3. i \in DOMAIN input.symbols /\ T!InRom(input.symbols[i])
    BY <2>1 DEF T!Named, T!SymbolLines
  <2>4. a \in Nat
    <3> DEFINE known == [kind : STRING, name : Nat, address : Nat]
    <3>1. \A l \in known : l.address \in Nat
      OBVIOUS
    <3>2. input.symbols \in Seq(known)
      BY <1>1
    <3> HIDE DEF known
    <3>3. input.symbols[i] \in known
      BY <2>3, <3>2
    <3> QED BY <3>1, <3>3
  <2>5. T!Even(a) \in ROM_START .. ROM_END - 1
    BY <2>3 DEF T!InRom
  <2> HIDE DEF a
  <2>6. T!Even(a) \in Nat /\ T!Even(a) % 2 = 0
    BY <2>4 DEF T!Even
  <2> QED BY <2>2, <2>5, <2>6
<1> QED BY <1>2, <1>3, <1>4

LEMMA ListedRanks ==
  ASSUME input \in RomTables, T!Accepted, NEW count, count = Cardinality(T!Listed)
  PROVE  /\ count \in Nat
         /\ \A n \in T!Listed : T!Index(n) \in 0 .. count - 1
         /\ \A m, n \in T!Listed : T!Index(m) = T!Index(n) => m = n
         /\ \A i \in 0 .. count - 1 : \E n \in T!Listed : T!Index(n) = i
<1> DEFINE S == T!Listed
           before == {p \in S \X S : T!SortedBefore(p[1], p[2])}
           rank == [a \in S |-> Cardinality({b \in S : <<b, a>> \in before})]
<1>1. /\ IsFiniteSet(S) /\ S \subseteq Nat
      /\ \A n \in S : T!Original(n) \in Nat
  BY ListedNames
<1>2. \A a, b \in S : <<a, b>> \in before <=> T!SortedBefore(a, b)
  OBVIOUS
<1>3. \A n \in S : rank[n] = T!Index(n)
  <2>1. ASSUME NEW n \in S
        PROVE  rank[n] = T!Index(n)
    <3>1. {b \in S : <<b, n>> \in before} = {b \in S : T!SortedBefore(b, n)}
      BY <1>2
    <3> QED BY <3>1, SameCardinality DEF T!Index
  <2> QED BY <2>1
<1> HIDE DEF S, before
<1>4. StrictOrder(S, before)
  <2>1. \A a \in S : <<a, a>> \notin before
    BY <1>1, <1>2 DEF T!SortedBefore
  <2>2. \A a, b \in S : a # b => <<a, b>> \in before \/ <<b, a>> \in before
    BY <1>1, <1>2 DEF T!SortedBefore
  <2>3. \A a, b, c \in S : <<a, b>> \in before /\ <<b, c>> \in before
                             => <<a, c>> \in before
    BY <1>1, <1>2 DEF T!SortedBefore
  <2> QED BY <2>1, <2>2, <2>3 DEF StrictOrder
<1>5. rank = Ranks(S, before)
  BY DEF Ranks
<1> HIDE DEF rank
<1>7. Numbers(rank, S)
  BY <1>1, <1>4, <1>5, RankFacts, Zenon
<1>8. count = Cardinality(S)
  BY DEF S
<1> QED BY <1>3, <1>7, <1>8 DEF S, Numbers

\* The object, name by name.
LEMMA WrittenTable ==
  ASSUME RomInv, pc \in {"object", "linked"},
         NEW count, count = Cardinality(T!Listed)
  PROVE  /\ count \in Nat /\ count <= INSTRUCTION_COMPARE_COUNT
         /\ object.compare[2] = count
         /\ DOMAIN object.compare = 0 .. count + 2
         /\ object.relocations = {Jump(n) : n \in T!Listed}
         /\ \A n \in T!Listed : /\ object.compare[3 + T!Index(n)] = T!Original(n) + 1
                                /\ T!Jumps(T!Index(n)) = {Jump(n)}
<1>1. /\ input \in RomTables /\ T!Accepted
      /\ object.compare = T!CompareWords
      /\ object.relocations = {Jump(n) : n \in T!Listed}
  BY DEF RomInv
<1>2. /\ count \in Nat
      /\ \A n \in T!Listed : T!Index(n) \in 0 .. count - 1
      /\ \A m, n \in T!Listed : T!Index(m) = T!Index(n) => m = n
  BY <1>1, ListedRanks
<1>3. T!Cardinality(T!Listed) = count
  BY SameCardinality
<1>4. count <= INSTRUCTION_COMPARE_COUNT
  BY <1>1, <1>3 DEF T!Accepted
<1>5. /\ DOMAIN object.compare = 0 .. count + 2
      /\ object.compare[2] = count
      /\ \A i \in 0 .. count - 1 :
           object.compare[3 + i]
             = T!Original(CHOOSE n \in T!Listed : T!Index(n) = i) + 1
  <2>1. T!CompareWords =
          [i \in 0 .. 3 + count - 1 |->
             IF i >= 3 THEN T!Original(CHOOSE n \in T!Listed :
                                         T!Index(n) = i - 3) + 1
             ELSE IF i = 1 THEN PATCH_VMA ELSE IF i = 2 THEN count ELSE 0]
    <3>1. COMPARE_HEADER_WORDS = 3
      BY TableAssumption
    <3> QED BY <1>3, <3>1 DEF T!CompareWords
  <2>2. 0 .. 3 + count - 1 = 0 .. count + 2
    BY <1>2
  <2>3. ASSUME NEW i \in 0 .. count - 1
        PROVE  3 + i \in 0 .. 3 + count - 1 /\ 3 + i >= 3 /\ 3 + i - 3 = i
    BY <1>2
  <2>4. 2 \in 0 .. 3 + count - 1
    BY <1>2
  <2> QED BY <1>1, <2>1, <2>2, <2>3, <2>4
<1>6. ASSUME NEW n \in T!Listed
      PROVE  object.compare[3 + T!Index(n)] = T!Original(n) + 1
  <2> DEFINE m == CHOOSE k \in T!Listed : T!Index(k) = T!Index(n)
  <2>1. m \in T!Listed /\ T!Index(m) = T!Index(n)
    OBVIOUS
  <2>2. m = n
    BY <1>2, <2>1
  <2> QED BY <1>2, <1>5, <2>2
<1>7. ASSUME NEW n \in T!Listed
      PROVE  T!Jumps(T!Index(n)) = {Jump(n)}
  <2>1. ASSUME NEW m \in T!Listed
        PROVE  Jump(m).offset = (T!Index(n) + 2) * 8 <=> m = n
    <3>1. Jump(m).offset = (2 + T!Index(m)) * 8
      BY TableAssumption DEF Jump, T!Slot
    <3>2. T!Index(m) \in Int /\ T!Index(n) \in Int
      BY <1>2
    <3>3. (2 + T!Index(m)) * 8 = (T!Index(n) + 2) * 8 <=> T!Index(m) = T!Index(n)
      BY <3>2
    <3> QED BY <1>2, <3>1, <3>3
  <2> HIDE DEF Jump
  <2> QED BY <1>1, <2>1 DEF T!Jumps
<1> QED BY <1>1, <1>2, <1>4, <1>5, <1>6, <1>7

\* Executed at a place, a long jump goes as far as was asked for.
LEMMA LongJump ==
  ASSUME NEW value \in Int, NEW a \in Int
  PROVE  (a + T!CallPlt(value).high + T!CallPlt(value).low) % WordLimit
           = (a + value) % WordLimit
<1> DEFINE v == value % WordLimit
           h == ((v + Page \div 2) \div Page) * Page
<1>1. T!CallPlt(value) = [high |-> h % WordLimit, low |-> v - h]
  BY DEF T!CallPlt
<1>2. WordLimit \in Nat \ {0} /\ Page \in Nat \ {0}
  BY TableAssumption
<1>3. v \in Int
  BY <1>2, DivMod
<1>4. h \in Int
  <2>1. Page \div 2 \in Int
    BY <1>2
  <2>2. (v + Page \div 2) \div Page \in Int
    BY <1>2, <1>3, <2>1, DivMod
  <2> QED BY <1>2, <2>2
<1>5. h % WordLimit \in Int
  BY <1>2, <1>4, DivMod
<1>6. (a + value) % WordLimit = (a + v) % WordLimit
  BY <1>2, AddRemainder
<1> HIDE DEF v, h
<1>7. (a + (h % WordLimit)) + (v - h) = (a + v - h) + (h % WordLimit)
  BY <1>3, <1>4, <1>5
<1>8. ((a + v - h) + (h % WordLimit)) % WordLimit = ((a + v - h) + h) % WordLimit
  <2> DEFINE x == a + v - h
  <2>1. x \in Int
    BY <1>3, <1>4
  <2> HIDE DEF x
  <2>2. (x + (h % WordLimit)) % WordLimit = (x + h) % WordLimit
    BY <1>2, <1>4, <2>1, AddRemainder
  <2> QED BY <2>2 DEF x
<1>9. (a + v - h) + h = a + v
  BY <1>3, <1>4
<1> QED BY <1>1, <1>6, <1>7, <1>8, <1>9

\* The linker completes the jump of a name to reach its replacement from the
\* place where the jump is executed.
LEMMA LinkedJump ==
  ASSUME RomInv, pc = "linked", NEW n \in T!Listed
  PROVE  /\ placement[n] \in 0 .. WordLimit - 1 /\ placement[n] % 2 = 0
         /\ T!Linked(Jump(n)) = T!CallPlt(placement[n] - T!Original(n))
<1>1. /\ input \in RomTables /\ T!Accepted /\ placement \in Placements
  BY DEF RomInv
<1>2. placement[n] \in 0 .. WordLimit - 1 /\ placement[n] % 2 = 0
  <2>1. PICK i \in DOMAIN input.patches : n = input.patches[i]
    BY DEF T!Listed
  <2> QED BY <1>1, <2>1, TableAssumption
<1>3. T!Original(n) \in Int
  BY <1>1, ListedNames
<1>4. T!Slot(n) \in Int
  <2>1. T!Index(n) \in Int
    BY <1>1, ListedRanks
  <2> QED BY <2>1, TableAssumption DEF T!Slot
<1>5. placement[n] + T!Addend(n) - (PATCH_VMA + T!Slot(n))
        = placement[n] - T!Original(n)
  <2>1. placement[n] \in Int /\ PATCH_VMA \in Int /\ WordLimit \in Int
    BY <1>2, TableAssumption
  <2> QED BY <1>3, <1>4, <2>1 DEF T!Addend
<1>6. T!Linked(Jump(n))
        = T!CallPlt(placement[n] + T!Addend(n) - (PATCH_VMA + T!Slot(n)))
  BY DEF T!Linked, Jump
<1> QED BY <1>2, <1>5, <1>6

\* The comparators that match an address are those of the names that have it.
LEMMA MatchingNames ==
  ASSUME RomInv, pc = "linked", NEW address
  PROVE  T!Matches(address)
           = {T!Index(n) : n \in {k \in T!Listed : T!Original(k) = address}}
<1> DEFINE count == Cardinality(T!Listed)
<1>1. input \in RomTables /\ T!Accepted
  BY DEF RomInv
<1>2. /\ count \in Nat
      /\ \A n \in T!Listed : T!Index(n) \in 0 .. count - 1
      /\ \A i \in 0 .. count - 1 : \E n \in T!Listed : T!Index(n) = i
  BY <1>1, ListedRanks
<1>3. /\ object.compare[2] = count
      /\ \A n \in T!Listed : object.compare[3 + T!Index(n)] = T!Original(n) + 1
  BY WrittenTable
<1>4. \A n \in T!Listed : T!Original(n) \in Nat /\ T!Original(n) % 2 = 0
  BY <1>1, ListedNames
<1> HIDE DEF count
<1>5. ASSUME NEW n \in T!Listed
      PROVE  /\ T!Enabled(T!Index(n))
             /\ T!Even(object.compare[COMPARE_HEADER_WORDS + T!Index(n)])
                  = T!Original(n)
  <2>1. COMPARE_HEADER_WORDS = 3
    BY TableAssumption
  <2>2. object.compare[COMPARE_HEADER_WORDS + T!Index(n)] = T!Original(n) + 1
    BY <1>3, <2>1
  <2>3. (T!Original(n) + 1) % 2 = 1
    BY <1>4
  <2>4. T!Even(T!Original(n) + 1) = T!Original(n)
    BY <1>4, <2>3 DEF T!Even
  <2> QED BY <2>2, <2>3, <2>4 DEF T!Enabled
<1>6. ASSUME NEW i
      PROVE  i \in T!Matches(address)
               <=> \E n \in T!Listed : T!Original(n) = address /\ T!Index(n) = i
  <2>1. i \in T!Matches(address)
          <=> /\ i \in 0 .. count - 1 /\ T!Enabled(i)
              /\ T!Even(object.compare[COMPARE_HEADER_WORDS + i]) = address
    BY <1>3 DEF T!Matches
  <2>2. ASSUME i \in 0 .. count - 1, T!Enabled(i),
               T!Even(object.compare[COMPARE_HEADER_WORDS + i]) = address
        PROVE  \E n \in T!Listed : T!Original(n) = address /\ T!Index(n) = i
    <3>1. PICK n \in T!Listed : T!Index(n) = i
      BY <1>2, <2>2
    <3>2. T!Original(n) = address
      BY <1>5, <2>2, <3>1, Zenon
    <3> QED BY <3>1, <3>2
  <2>3. ASSUME NEW n \in T!Listed, T!Original(n) = address, T!Index(n) = i
        PROVE  /\ i \in 0 .. count - 1 /\ T!Enabled(i)
               /\ T!Even(object.compare[COMPARE_HEADER_WORDS + i]) = address
    BY <1>2, <1>5, <2>3, Zenon
  <2> QED BY <2>1, <2>2, <2>3, Zenon
<1> QED BY <1>6

\* A call of a function in the ROM ends up in the replacements of its names.
LEMMA CallsEndUp ==
  ASSUME RomInv, pc = "linked", NEW address,
         NEW K, K = {k \in T!Listed : T!Original(k) = address}
  PROVE  T!Targets(address) = IF K = {} THEN {address}
                              ELSE {placement[k] : k \in K}
<1>1. T!Matches(address) = {T!Index(n) : n \in K}
  BY MatchingNames
<1>2. CASE K = {}
  <2>1. T!Matches(address) = {}
    BY <1>1, <1>2
  <2> QED BY <1>2, <2>1 DEF T!Targets
<1>3. CASE K # {}
  <2>1. T!Matches(address) # {}
    BY <1>1, <1>3
  <2> DEFINE place(r) == T!Even((address + T!Linked(r).high + T!Linked(r).low)
                                   % WordLimit)
             jumps == UNION {T!Jumps(i) : i \in T!Matches(address)}
  <2>2. T!Targets(address) = {place(r) : r \in jumps}
    BY <2>1, Zenon DEF T!Targets
  <2>3. jumps = {Jump(k) : k \in K}
    <3>1. \A k \in K : T!Jumps(T!Index(k)) = {Jump(k)}
      BY WrittenTable
    <3> HIDE DEF Jump
    <3> QED BY <1>1, <3>1
  <2>4. ASSUME NEW k \in K
        PROVE  place(Jump(k)) = placement[k]
    <3>1. k \in T!Listed /\ address = T!Original(k)
      OBVIOUS
    <3> DEFINE value == placement[k] - address
               sum == address + T!CallPlt(value).high + T!CallPlt(value).low
    <3>2. /\ placement[k] \in 0 .. WordLimit - 1 /\ placement[k] % 2 = 0
          /\ T!Linked(Jump(k)) = T!CallPlt(value)
      BY <3>1, LinkedJump, Zenon
    <3>3. /\ address \in Int /\ WordLimit \in Nat \ {0}
      <4>1. input \in RomTables /\ T!Accepted
        BY DEF RomInv
      <4> QED BY <3>1, <4>1, ListedNames, TableAssumption
    <3>4. value \in Int /\ address + value = placement[k]
      BY <3>2, <3>3
    <3>5. sum % WordLimit = (address + value) % WordLimit
      <4> HIDE DEF value
      <4> QED BY <3>3, <3>4, LongJump, Zenon
    <3>6. placement[k] % WordLimit = placement[k]
      BY <3>2, <3>3
    <3>7. T!Even(placement[k]) = placement[k]
      BY <3>2, <3>3 DEF T!Even
    <3>8. place(Jump(k)) = T!Even(sum % WordLimit)
      <4> HIDE DEF value
      <4> QED BY <3>2, Zenon
    <3> HIDE DEF sum, value, place
    <3> QED BY <3>4, <3>5, <3>6, <3>7, <3>8, Zenon
  <2> HIDE DEF place, jumps
  <2>5. {place(r) : r \in jumps} = {placement[k] : k \in K}
    BY <2>3, <2>4
  <2> QED BY <1>3, <2>2, <2>5
<1> QED BY <1>2, <1>3

\* The tool before rounded by looking at the low part; it split a distance in the
\* same two parts.
LEMMA SameSplit ==
  ASSUME NEW n, placement[n] - T!Original(n) \in Int
  PROVE  T!CallPlt(placement[n] - T!Original(n)) = T!LegacyJump(n)
<1> DEFINE d == placement[n] - T!Original(n)
           v == d % WordLimit
           half == Page \div 2
           q == v \div Page
           low == v % Page
           h == ((v + half) \div Page) * Page
<1>1. /\ T!CallPlt(d) = [high |-> h % WordLimit, low |-> v - h]
      /\ T!LegacyJump(n) = IF low > half - 1
                           THEN [high |-> ((v - low) + Page) % WordLimit,
                                 low |-> low - Page]
                           ELSE [high |-> v - low, low |-> low]
  BY DEF T!CallPlt, T!LegacyJump
<1>2. /\ WordLimit \in Nat \ {0} /\ Page \in Nat \ {0} /\ Page % 2 = 0 /\ d \in Int
  BY TableAssumption
<1>3. half \in Nat /\ Page = half + half
  <2>1. Page = 2 * (Page \div 2) + (Page % 2)
    BY <1>2
  <2> QED BY <1>2, <2>1
<1> HIDE DEF half, d
<1>4. v \in Int /\ 0 <= v /\ v < WordLimit
  BY <1>2, DivMod
<1> HIDE DEF v
<1>5. /\ q \in Int /\ low \in Int /\ v = Page * q + low
      /\ 0 <= low /\ low < Page
  BY <1>2, <1>4, DivMod
<1> HIDE DEF q, low
<1>6. Page * q \in Int /\ Page * q = q * Page
  BY <1>2, <1>5
<1>7. CASE low > half - 1
  <2> DEFINE r == low - half
             q1 == q + 1
  <2>1. r \in Int /\ 0 <= r /\ r < Page /\ q1 \in Int
    BY <1>2, <1>3, <1>5, <1>7
  <2>2. Page * (q + 1) = Page * q + Page /\ (q + 1) * Page = Page * q + Page
    BY <1>2, <1>5
  <2>3. v + half = Page * q1 + r
    BY <1>2, <1>3, <1>5, <1>6, <2>2
  <2>4. (v + half) \div Page = q1
    <3> HIDE DEF r, q1
    <3>1. (Page * q1 + r) \div Page = q1
      BY <1>2, <2>1, OneRemainder
    <3> QED BY <2>3, <3>1, Zenon
  <2>5. h = Page * q + Page
    BY <2>2, <2>4
  <2> HIDE DEF h
  <2>6. v - h = low - Page /\ (v - low) + Page = h
    BY <1>2, <1>4, <1>5, <1>6, <2>5
  <2> QED BY <1>1, <1>7, <2>6 DEF d
<1>8. CASE ~(low > half - 1)
  <2> DEFINE r == low + half
  <2>1. r \in Int /\ 0 <= r /\ r < Page
    BY <1>2, <1>3, <1>5, <1>8
  <2>2. v + half = Page * q + r
    BY <1>2, <1>3, <1>5, <1>6
  <2>3. (v + half) \div Page = q
    <3> HIDE DEF r
    <3>1. (Page * q + r) \div Page = q
      BY <1>2, <1>5, <2>1, OneRemainder
    <3> QED BY <2>2, <3>1, Zenon
  <2>4. h = Page * q
    BY <1>6, <2>3
  <2> HIDE DEF h
  <2>5. v - h = low /\ v - low = h /\ h \in Int
    BY <1>4, <1>5, <1>6, <2>4
  <2>6. 0 <= h /\ h < WordLimit
    <3>1. 0 <= q
      <4>1. SUFFICES ASSUME q < 0 PROVE FALSE
        BY <1>5
      <4>2. Page * q <= Page * (0 - 1)
        BY <1>2, <1>5, <4>1
      <4>3. Page * (0 - 1) = 0 - Page
        BY <1>2
      <4> QED BY <1>2, <1>4, <1>5, <1>6, <4>2, <4>3
    <3>2. 0 <= Page * q
      BY <1>2, <1>5, <3>1
    <3>3. Page * q <= v
      BY <1>4, <1>5, <1>6
    <3>4. h <= v
      BY <2>4, <3>3
    <3> QED BY <1>2, <1>4, <2>4, <2>5, <3>2, <3>4
  <2>7. h % WordLimit = h
    BY <1>2, <2>5, <2>6
  <2> QED BY <1>1, <1>8, <2>5, <2>7 DEF d
<1> QED BY <1>7, <1>8 DEF d

\* The numbers of the table.
LEMMA TableTypes ==
  ASSUME RomInv
  PROVE  T!TypeOK
<1>1. pc \in {"start", "object", "linked", "panic"}
  BY DEF RomInv
<1>2. SUFFICES ASSUME pc \in {"object", "linked"}
      PROVE  /\ object.compare[2] \in 0 .. INSTRUCTION_COMPARE_COUNT
             /\ T!Cardinality(object.relocations) = object.compare[2]
             /\ \A i \in DOMAIN object.compare : i >= COMPARE_HEADER_WORDS =>
                  T!Even(object.compare[i]) \in ROM_START .. ROM_END - 1
  BY <1>1, Zenon DEF T!TypeOK
<1> DEFINE count == Cardinality(T!Listed)
<1>3. input \in RomTables /\ T!Accepted
  BY <1>2 DEF RomInv
<1>4. /\ count \in Nat /\ count <= INSTRUCTION_COMPARE_COUNT
      /\ object.compare[2] = count
      /\ DOMAIN object.compare = 0 .. count + 2
      /\ object.relocations = {Jump(n) : n \in T!Listed}
      /\ \A n \in T!Listed : object.compare[3 + T!Index(n)] = T!Original(n) + 1
  BY <1>2, WrittenTable
<1>5. \A i \in 0 .. count - 1 : \E n \in T!Listed : T!Index(n) = i
  BY <1>3, ListedRanks
<1>6. IsFiniteSet(T!Listed)
  BY <1>3, ListedNames
<1>7. T!Cardinality(object.relocations) = object.compare[2]
  <2> DEFINE jump == [n \in T!Listed |-> Jump(n)]
             jumps == {Jump(n) : n \in T!Listed}
  <2>1. jump \in Surjection(T!Listed, jumps)
    BY DEF Surjection
  <2>2. jump \in Injection(T!Listed, jumps)
    <3>1. jump \in [T!Listed -> jumps]
      OBVIOUS
    <3>2. \A m, n \in T!Listed : jump[m] = jump[n] => m = n
      BY DEF Jump
    <3> HIDE DEF jump, jumps
    <3> QED BY <3>1, <3>2 DEF Injection, IsInjective
  <2> HIDE DEF jump, jumps
  <2>3. jump \in Bijection(T!Listed, jumps)
    BY <2>1, <2>2 DEF Bijection
  <2>4. Cardinality(jumps) = count
    BY <1>6, <2>3, FS_Bijection DEF ExistsBijection
  <2> QED BY <1>4, <2>4, SameCardinality DEF jumps
<1>8. ASSUME NEW i \in DOMAIN object.compare, i >= COMPARE_HEADER_WORDS
      PROVE  T!Even(object.compare[i]) \in ROM_START .. ROM_END - 1
  <2> HIDE DEF count
  <2>1. i \in 0 .. count + 2 /\ i >= 3
    BY <1>4, <1>8, TableAssumption
  <2>2. i - 3 \in 0 .. count - 1 /\ 3 + (i - 3) = i
    BY <1>4, <2>1
  <2>3. PICK n \in T!Listed : T!Index(n) = i - 3
    BY <1>5, <2>2
  <2>4. object.compare[i] = T!Original(n) + 1
    BY <1>4, <2>2, <2>3
  <2>5. /\ T!Original(n) \in ROM_START .. ROM_END - 1
        /\ T!Original(n) \in Nat /\ T!Original(n) % 2 = 0
    BY <1>3, ListedNames
  <2>6. T!Even(T!Original(n) + 1) = T!Original(n)
    BY <2>5 DEF T!Even
  <2> QED BY <2>4, <2>5, <2>6
<1> HIDE DEF count
<1>9. object.compare[2] \in 0 .. INSTRUCTION_COMPARE_COUNT
  BY <1>4, TableAssumption
<1> QED BY <1>7, <1>8, <1>9

\* A call of each function of the list, and of no other, is redirected.
LEMMA CallsRedirected ==
  ASSUME RomInv
  PROVE  T!PatchReached
<1>1. SUFFICES ASSUME pc = "linked"
      PROVE  /\ \A n \in T!Listed :
                  T!Targets(T!Original(n)) =
                    {placement[m] :
                       m \in {k \in T!Listed : T!Original(k) = T!Original(n)}}
             /\ \A address \in ROM_START .. ROM_END - 1 :
                  address % 2 = 0 /\ address \notin {T!Original(n) : n \in T!Listed}
                    => T!Targets(address) = {address}
  BY Zenon DEF T!PatchReached
<1> DEFINE K(address) == {k \in T!Listed : T!Original(k) = address}
<1>2. ASSUME NEW address
      PROVE  T!Targets(address) = IF K(address) = {} THEN {address}
                                  ELSE {placement[k] : k \in K(address)}
  <2> DEFINE names == {k \in T!Listed : T!Original(k) = address}
  <2>1. names = {k \in T!Listed : T!Original(k) = address}
    OBVIOUS
  <2> HIDE DEF names
  <2>2. T!Targets(address) = IF names = {} THEN {address}
                             ELSE {placement[k] : k \in names}
    BY <1>1, <2>1, CallsEndUp
  <2>3. K(address) = names
    BY <2>1
  <2> HIDE DEF K
  <2> QED BY <2>2, <2>3
<1>3. ASSUME NEW n \in T!Listed
      PROVE  T!Targets(T!Original(n)) = {placement[m] : m \in K(T!Original(n))}
  <2>1. K(T!Original(n)) # {}
    OBVIOUS
  <2> HIDE DEF K
  <2> QED BY <1>2, <2>1, Zenon
<1>4. ASSUME NEW address, address \notin {T!Original(n) : n \in T!Listed}
      PROVE  T!Targets(address) = {address}
  <2>1. K(address) = {}
    BY <1>4
  <2> HIDE DEF K
  <2> QED BY <1>2, <2>1, Zenon
<1> QED BY <1>3, <1>4

\* Slot by slot it is the table of the tool before.
LEMMA SameTable ==
  ASSUME RomInv
  PROVE  T!MatchesLegacyTable
<1>1. SUFFICES ASSUME pc = "linked", NEW n \in T!Listed,
                      NEW i, i = T!Cardinality({m \in T!Listed : T!LegacyOrder(m, n)})
      PROVE  /\ object.compare[3 + i] = T!Original(n) + 1
             /\ {T!Linked(r) : r \in T!Jumps(i)} = {T!LegacyJump(n)}
  BY Zenon DEF T!MatchesLegacyTable
<1>2. i = T!Index(n)
  BY <1>1 DEF T!LegacyOrder, T!Index, T!SortedBefore
<1>3. object.compare[3 + i] = T!Original(n) + 1 /\ T!Jumps(i) = {Jump(n)}
  BY <1>1, <1>2, WrittenTable
<1>4. /\ T!Linked(Jump(n)) = T!CallPlt(placement[n] - T!Original(n))
      /\ placement[n] \in 0 .. WordLimit - 1
  BY <1>1, LinkedJump
<1>5. placement[n] - T!Original(n) \in Int
  <2>1. input \in RomTables /\ T!Accepted
    BY <1>1 DEF RomInv
  <2>2. T!Original(n) \in Int
    BY <2>1, ListedNames
  <2> QED BY <1>4, <2>2, TableAssumption
<1>6. T!Linked(Jump(n)) = T!LegacyJump(n)
  BY <1>4, <1>5, SameSplit
<1> HIDE DEF Jump
<1> QED BY <1>3, <1>6

\* Whatever the two files list, wherever the linker places the replacements: a
\* call of each patched function of the ROM, and of no other, ends up in its
\* replacement, and the table is the one of the tool before it
\* (build.rs:188-257).
THEOREM TableRightHolds == BuildSpec => []TableRight
<1>1. BuildInit => (part = "table" => RomInv)
  <2>1. SUFFICES ASSUME BuildInit, part = "table" PROVE RomInv
    OBVIOUS
  <2>2. T!Init
    BY <2>1 DEF BuildInit
  <2> QED BY <2>2 DEF T!Init, RomInv
<1>2. (part = "table" => RomInv) /\ [BuildNext]_<<part, vars, romtable, release_vars>>
        => (part = "table" => RomInv)'
  BY RomKept
<1>3. (part = "table" => RomInv) => TableRight
  BY TableTypes, CallsRedirected, SameTable DEF TableRight, T!TableRight
<1> QED BY <1>1, <1>2, <1>3, PTL DEF BuildSpec
=============================================================================
