---------------------------- MODULE LinkContract ----------------------------
(* How ws63-radio-sys chooses what is linked: its build script (build.rs) reads *)
(* the features, what ws63-radio-blob exports and the profiles of hisi-rf-link, *)
(* and exports archives, revisions and the ROM patch table; lib.rs then refuses *)
(* combinations of features. Cargo keeps what the script printed until one of   *)
(* the things changes that the script asked it to watch.                        *)
EXTENDS Integers, Sequences, FiniteSets

CONSTANTS
  Worlds, Edited(_),   \* what a build may find; what an edit may make of it
  Pinned,              \* the revision that the script knows, of each group
  PatchCount,          \* 37
  MaxEdits,
  ABSENT

Features == {"wpa2-personal", "wpa3-personal", "upstream-supplicant-port",
             "upstream-supplicant-wpa3", "upstream-authenticator-wpa2",
             "upstream-authenticator-wpa3", "ble", "sle"}
Groups == {"wifi", "ble", "ble-init", "sle", "sle-init", "supplicant-wpa2",
           "supplicant-wpa3", "authenticator-wpa2", "authenticator-wpa3"}
Roles == {"critical", "worker", "background", "unknown"}
WpaProfiles == {"wpa2-personal", "wpa3-personal"}
NO_OUTPUT == [status |-> "failed"]

VARIABLES
  world,     \* features, environment, exports and files; see MCCargoBuild
  output,    \* what the script printed last
  watched,   \* the world it saw, as far as Cargo watches it
  built,     \* Cargo has built since the last edit
  edits

vars == <<world, output, watched, built, edits>>

Init == /\ world \in Worlds
        /\ output = NO_OUTPUT /\ watched = ABSENT
        /\ built = FALSE /\ edits = 0

-----------------------------------------------------------------------------
\* validate_scheduling_profile, but for the originals.
Artifacts(w) == {w.profile.artifacts[i] : i \in DOMAIN w.profile.artifacts}
Unique(s) == \A i, j \in DOMAIN s : s[i] = s[j] => i = j

ProfileAccepted(w) ==
  LET artifacts == w.profile.artifacts
      tasks == w.profile.tasks
      ids == [i \in DOMAIN artifacts |-> artifacts[i].id]
      keys == [i \in DOMAIN tasks |->
                 <<tasks[i].entry_symbol, tasks[i].wpa_profile>>]
  IN  /\ w.profile.default_role = "unknown"
      /\ Unique(ids) /\ Unique(keys)
      /\ \A i \in DOMAIN tasks :
           /\ \E a \in Artifacts(w) : a.id = tasks[i].source
           /\ tasks[i].role \in Roles
           /\ tasks[i].wpa_profile \in WpaProfiles \cup {ABSENT}

\* If the environment says where the originals are, their hashes are compared.
OriginalsMatch(w) ==
  w.oracle_root # ABSENT =>
    \A a \in Artifacts(w) : a.path => w.originals[a.id] = a.sha256

\* The legacy WPA archives: at most one profile.
SelectedWpa(w) == w.features \cap WpaProfiles

WpaArchives(w) ==
  {archive \in w.profile.wpa_archives : archive.profiles \cap SelectedWpa(w) # {}}

\* The groups of archives that the features ask for; WPA3 before WPA2.
Selected(w) ==
  LET Has(feature) == feature \in w.features
  IN  {"wifi"}
        \cup (IF Has("ble") THEN {"ble", "ble-init"} ELSE {})
        \cup (IF Has("sle") THEN {"sle", "sle-init"} ELSE {})
        \cup (IF ~Has("upstream-supplicant-port") THEN {}
              ELSE IF Has("upstream-supplicant-wpa3")
                THEN {"supplicant-wpa3"} ELSE {"supplicant-wpa2"})
        \cup (IF Has("upstream-authenticator-wpa3") THEN {"authenticator-wpa3"}
              ELSE IF Has("upstream-authenticator-wpa2")
                THEN {"authenticator-wpa2"} ELSE {})

\* faulty variant: the revision of a profile that is not linked is looked at.
ChecksRevisionOfWpa2(group) ==
  IF group = "supplicant-wpa3" THEN "supplicant-wpa2" ELSE group

ChecksRevisionOf(group) == group

\* The revision that the script asks for: for the archives of Wi-Fi the profile
\* names it, for the others the script itself.
Expected(w, group) ==
  IF group = "wifi" THEN w.profile.normalized_artifact_revision ELSE Pinned[group]

\* The profile that hisi-rf-link contains for the start of BLE has one, too.
GroupAccepted(w, group) ==
  LET checked == ChecksRevisionOf(group)
  IN  /\ w.revisions[checked] = Expected(w, checked)
      /\ group = "ble-init" => w.profile.ble_init_revision = Pinned[group]

\* Archives of the controllers must be there, in the directory of the blob crate;
\* those of hostap are not looked at.
MustExist(group) == group \in {"ble", "ble-init", "sle", "sle-init"}

ArchivesPresent(w) ==
  \A group \in Selected(w) : MustExist(group) => group \in w.libs["packaged"]

LibDir(w) == IF w.lib_dir # ABSENT THEN w.lib_dir ELSE "packaged"

\* The directory, if there is one, and what is in it.
Lib(w) == IF LibDir(w) \in DOMAIN w.libs THEN <<w.libs[LibDir(w)]>> ELSE <<>>

AllPatches(w) == Cardinality(w.rom_patches) = PatchCount

\* main: everything that it asserts; write_rom_patch_object (RomPatchTable) makes
\* one entry for each name of the list.
Consistent(w) ==
  /\ ~ (WpaProfiles \subseteq w.features)
  /\ ProfileAccepted(w)
  /\ Lib(w) # <<>>
  /\ AllPatches(w)
  /\ \A group \in Selected(w) : GroupAccepted(w, group)

Accepted(w) == Consistent(w) /\ OriginalsMatch(w) /\ ArchivesPresent(w)

Printed(w) ==
  [status |-> "built", lib |-> LibDir(w), wpa |-> WpaArchives(w),
   groups |-> [group \in Selected(w) |-> w.revisions[group]],
   patch_object |-> <<w.rom_symbols, w.rom_patches>>]

\* faulty variant: the patch list is not watched.
WatchedWithoutPatches(w) ==
  [features |-> w.features, oracle_root |-> w.oracle_root, profile |-> w.profile,
   lib_dir |-> w.lib_dir, lib |-> Lib(w), revisions |-> w.revisions,
   rom_symbols |-> w.rom_symbols]

\* rerun-if-env-changed and rerun-if-changed, of a directory with all that is in
\* it; what other crates export and the profiles they contain are watched by
\* Cargo itself. Not watched: the originals, and the archives of the blob crate
\* when another directory is asked for.
Watched(w) ==
  [features |-> w.features, oracle_root |-> w.oracle_root, profile |-> w.profile,
   lib_dir |-> w.lib_dir, lib |-> Lib(w), revisions |-> w.revisions,
   rom_symbols |-> w.rom_symbols, rom_patches |-> w.rom_patches]

-----------------------------------------------------------------------------
\* lib.rs: which features the crate refuses, however the script ended.
Authenticators == {"upstream-authenticator-wpa2", "upstream-authenticator-wpa3"}

\* faulty variant: the station and the access point may be selected together.
CrateRefusesTwoOfAKind(features) ==
  \/ features \cap WpaProfiles # {} /\ "upstream-supplicant-port" \in features
  \/ Authenticators \subseteq features

CrateRefuses(features) ==
  \/ features \cap WpaProfiles # {} /\ "upstream-supplicant-port" \in features
  \/ features \cap Authenticators # {} /\ "upstream-supplicant-port" \in features
  \/ Authenticators \subseteq features

\* cargo build (external): the script is run unless it succeeded and nothing
\* that is watched has changed.
UpToDate == output # NO_OUTPUT /\ watched = Watched(world)

RunScript ==
  /\ ~built /\ ~UpToDate
  /\ output' = IF Accepted(world) THEN Printed(world) ELSE NO_OUTPUT
  /\ watched' = Watched(world)
  /\ built' = TRUE
  /\ UNCHANGED <<world, edits>>

KeepOutput ==
  /\ ~built /\ UpToDate
  /\ built' = TRUE
  /\ UNCHANGED <<world, output, watched, edits>>

\* Someone edits a file, updates a crate or changes the environment (external).
Edit ==
  /\ edits < MaxEdits
  /\ world' \in Edited(world)
  /\ built' = FALSE /\ edits' = edits + 1
  /\ UNCHANGED <<output, watched>>

Done == built /\ edits = MaxEdits /\ UNCHANGED vars

Next == RunScript \/ KeepOutput \/ Edit \/ Done

Spec == Init /\ [][Next]_vars

-----------------------------------------------------------------------------
\* A crate that compiles.
Linked == built /\ output # NO_OUTPUT /\ ~CrateRefuses(world.features)

\* What is linked is of the revisions that this crate and the profile were written
\* for, as they are now: also after an update of a crate, and with any combination
\* of features (build.rs:394-399, 526-561, 584-587, 610-646, 721-744, 767-791).
LinkedIsPinned ==
  Linked =>
    /\ DOMAIN output.groups = Selected(world)
    /\ \A group \in Selected(world) :
         /\ output.groups[group] = Expected(world, group)
         /\ world.revisions[group] = Expected(world, group)

\* What is linked is what the script would print now, and it would print it: no
\* edit, of the features, the environment, a profile, a ROM file or the directory
\* of archives, is missed by Cargo. Two checks may fail by now without a new run of
\* the script, as Cargo is not asked to watch what they look at: that of the
\* originals (build.rs:295-303), and that of the controllers' archives if they are
\* not in the directory asked for (build.rs:543, 574); the crate then links where
\* the script would panic (build.rs:437-463, 518-521).
OutputIsFresh ==
  Linked =>
    /\ output = Printed(world)
    /\ Consistent(world)
    /\ LibDir(world) = "packaged" => ArchivesPresent(world)

\* At most one implementation of WPA is linked as a station next to another or to
\* an access point of hostap, whatever features the crates that depend on this
\* one ask for together (build.rs:402-420, lib.rs:12-31).
OneHostap ==
  Linked =>
    /\ Cardinality(DOMAIN output.groups
                     \cap {"supplicant-wpa2", "supplicant-wpa3",
                           "authenticator-wpa2", "authenticator-wpa3"}) <= 1
    /\ output.wpa # {} => ~ (\E group \in DOMAIN output.groups :
                               group \in {"supplicant-wpa2", "supplicant-wpa3"})
=============================================================================
