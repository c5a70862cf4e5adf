----------------------------- MODULE MCCargoBuild -----------------------------
(* CargoBuild on small worlds, tables and archives; these are under two commands *)
(* at once ("release"), or under one and a build of the crate ("crate").        *)
EXTENDS CargoBuild, TLC

CONSTANTS first, second

-----------------------------------------------------------------------------
(* All combinations of features on a world in order, and two where the archives *)
(* and the originals are elsewhere; then up to two edits.                       *)
CurrentRevisions == [group \in Groups |-> <<group, 1>>]
MCPinned == CurrentRevisions

Artifact(id, path) == [id |-> id, path |-> path, sha256 |-> <<id, 1>>]
Task(symbol, source, wpa) ==
  [entry_symbol |-> symbol, source |-> source, role |-> "worker",
   wpa_profile |-> wpa]
Profile ==
  [default_role |-> "unknown", normalized_artifact_revision |-> <<"wifi", 1>>,
   ble_init_revision |-> <<"ble-init", 1>>,
   wpa_archives |-> {[name |-> "supplicant", profiles |-> WpaProfiles],
                     [name |-> "sae", profiles |-> {"wpa3-personal"}]},
   artifacts |-> <<Artifact("driver", TRUE), Artifact("wpa2", FALSE)>>,
   tasks |-> <<Task("frw", "driver", ABSENT),
               Task("wpa", "wpa2", "wpa2-personal")>>]

Profiles == { Profile,
  [Profile EXCEPT !.artifacts[2] = Artifact("driver", FALSE)],
  [Profile EXCEPT !.tasks[2] = Task("frw", "driver", ABSENT)],
  [Profile EXCEPT !.tasks[2].role = "fast"],
  [Profile EXCEPT !.normalized_artifact_revision = <<"wifi", 2>>],
  [Profile EXCEPT !.ble_init_revision = <<"ble-init", 2>>] }

World(features) ==
  [features |-> features, oracle_root |-> ABSENT, lib_dir |-> ABSENT,
   libs |-> [dir \in {"packaged"} |->
               {"wifi", "ble", "ble-init", "sle", "sle-init"}],
   profile |-> Profile, originals |-> [id \in {"driver", "wpa2"} |-> <<id, 1>>],
   revisions |-> CurrentRevisions,
   rom_symbols |-> 1, rom_patches |-> {1, 2}]

\* Cargo.toml: the WPA3 supplicant asks for the port.
Combinations == {features \in SUBSET Features :
                   "upstream-supplicant-wpa3" \in features =>
                     "upstream-supplicant-port" \in features}

Elsewhere(w) ==
  [w EXCEPT !.lib_dir = "other", !.oracle_root = "root",
            !.libs = [dir \in {"other"} |-> {"wifi"}] @@ @]

MCWorlds ==
  {World(features) : features \in Combinations}
    \cup {Elsewhere(World(features)) :
            features \in {{"ble"}, {"wpa3-personal", "sle"}}}

MCEdited(w) ==
  {[w EXCEPT !.features = x] :
     x \in {features \in Combinations :
              Cardinality((features \ w.features)
                            \cup (w.features \ features)) = 1}}
    \cup {[w EXCEPT !.oracle_root = x] : x \in {ABSENT, "root"}}
    \cup {[w EXCEPT !.lib_dir = x] : x \in {ABSENT, "other"}}
    \cup {[w EXCEPT !.libs = [dir \in {"other"} |-> {"wifi"}] @@ @]}
    \cup {[w EXCEPT !.libs["packaged"] = @ \ {g}] :
            g \in {"wifi", "ble", "sle-init"}}
    \cup {[w EXCEPT !.profile = x] : x \in Profiles}
    \cup {[w EXCEPT !.originals["driver"] = <<"driver", 2>>]}
    \cup {[w EXCEPT !.revisions[g] = <<g, 2>>] : g \in Groups}
    \cup {[w EXCEPT !.rom_symbols = 2]}
    \cup {[w EXCEPT !.rom_patches = x] : x \in {{1, 3}, {1}}}

-----------------------------------------------------------------------------
(* Words of 256 values and pages of 16: replacements of every even address of a *)
(* page, before and after the ROM; three names, two of them of one function,    *)
(* one with an odd address, one outside the ROM, one given twice.               *)
RomLine(name, address) == [kind |-> "address", name |-> name, address |-> address]
BLANK == [kind |-> "other", name |-> 0, address |-> 0]

SymbolFiles ==
  { <<RomLine(1, 44), BLANK, RomLine(2, 37), RomLine(3, 54), RomLine(4, 60)>>,
    <<RomLine(2, 40), RomLine(1, 40), RomLine(3, 33), RomLine(4, 20)>>,
    <<RomLine(1, 50), RomLine(4, 20), RomLine(4, 66)>>,
    <<RomLine(1, 50), RomLine(2, 34), RomLine(1, 50), RomLine(3, 46)>> }

Lists == UNION {[1 .. n -> 1 .. 4] : n \in 0 .. 4}

MCTables == [symbols : SymbolFiles, patches : Lists]

Code == {2 * i : i \in 40 .. 47} \cup {0, 128, 254}
MCPlacements == {[n \in 1 .. 4 |-> f[n % 3]] : f \in [0 .. 2 -> Code]}

-----------------------------------------------------------------------------
(* Two commands with a crash; or one at a time, with two crashes and beside a   *)
(* build of the blob crate.                                                     *)
Commands == {first, second}
MCSupplicant == <<"wpa2">>
MCAuthenticator == <<"ap">>

TwoCommands == crashes' <= 1 /\ build' = build
OneBesideCargo == \E p \in Commands : ~Active(p)'

\* The commands differ by name only.
MCSymmetry == Permutations(Commands)

-----------------------------------------------------------------------------
MCNoWorld == World({})

MCNext == /\ BuildNext
          /\ part = "release" => TwoCommands
          /\ part = "crate" => OneBesideCargo

MCSpec == BuildInit /\ [][MCNext]_<<part, vars, romtable, release_vars>>
=============================================================================
