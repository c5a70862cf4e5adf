-------------------------- MODULE NormalizeCommand --------------------------
(* The commands normalize and verify-normalized (crates/hisi-rf-link/src/       *)
(* main.rs): archives are normalized one by one into a directory, a manifest of *)
(* their hashes is written last; a later run verifies the directory against it. *)
(* Between any two accesses an archive may be replaced, and a run may be killed *)
(* or find the disk full, which leaves the file that it writes incomplete.      *)
(*                                                                              *)
(* A file is [build, form]; its hash is the file itself. "vendor" has declared  *)
(* vendor relocations, "unknown" others that are passed over, "refused" some    *)
(* that are not, "short" ends after a member, "torn" within one.                *)
EXTENDS Integers, Sequences

CONSTANTS
  Names, Builds,
  ArgumentLists,   \* the archives that a run may be given: sequences of paths
  MaxReplaced, MaxRuns,
  NO_MANIFEST

Paths == {"source", "out"} \X Names
Files == [build : Builds,
          form : {"vendor", "plain", "unknown", "refused", "short", "torn"}]

VARIABLES
  files,        \* the archives, by path
  manifest,     \* [artifacts, arguments], the second for the properties only
  pc,           \* "idle", "normalize", "write", "manifest", "finished",
                \* "hash", "inspect", "accepted"
  arguments, index, artifacts,
  data,         \* what was read
  touched,      \* a file was replaced since the run began
  replaced, runs

vars == <<files, manifest, pc, arguments, index, artifacts, data, touched,
          replaced, runs>>

Init == /\ files \in [Paths -> {f \in Files : f.form \in {"vendor", "plain"}}]
        /\ \A p \in Paths : p[1] = "out" => files[p].form = "plain"
        /\ manifest = NO_MANIFEST
        /\ pc = "idle" /\ arguments = <<>> /\ index = 1 /\ artifacts = <<>>
        /\ data = <<>> /\ touched = FALSE /\ replaced = 0 /\ runs = 0

Out(name) == <<"out", name>>
Resting == {"idle", "finished", "accepted"}

-----------------------------------------------------------------------------
Start ==
  /\ pc \in Resting /\ runs < MaxRuns
  /\ arguments' \in ArgumentLists
  /\ pc' = "normalize" /\ index' = 1 /\ artifacts' = <<>>
  /\ touched' = FALSE /\ runs' = runs + 1
  /\ UNCHANGED <<files, manifest, data, replaced>>

Normalized(file) ==
  IF file.form = "vendor" THEN [file EXCEPT !.form = "plain"] ELSE file

\* normalize_archive reads the whole archive and works in memory; an error ends
\* the command.
NormalizeArchive ==
  /\ pc = "normalize" /\ index <= Len(arguments)
  /\ LET file == files[arguments[index]]
     IN  IF file.form \in {"refused", "torn"}
           THEN pc' = "idle" /\ UNCHANGED data
           ELSE pc' = "write" /\ data' = file
  /\ UNCHANGED <<files, manifest, arguments, index, artifacts, touched,
                 replaced, runs>>

Artifact(name, file) ==
  [archive |-> name, input |-> file, output |-> Normalized(file)]

WriteArchive ==
  /\ pc = "write"
  /\ LET name == arguments[index][2]
     IN  /\ files' = [files EXCEPT ![Out(name)] = Normalized(data)]
         /\ artifacts' = Append(artifacts, Artifact(name, data))
  /\ pc' = "normalize" /\ index' = index + 1
  /\ UNCHANGED <<manifest, arguments, data, touched, replaced, runs>>

ManifestIsDue == index > Len(arguments)

WriteManifest ==
  /\ pc = "normalize" /\ ManifestIsDue
  /\ manifest' = [artifacts |-> artifacts, arguments |-> arguments]
  /\ pc' = "finished"
  /\ UNCHANGED <<files, arguments, index, artifacts, data, touched, replaced,
                 runs>>

\* The run ends early; what it was writing may be incomplete.
Crash ==
  /\ pc \notin Resting
  /\ pc' = "idle"
  /\ \/ UNCHANGED <<files, manifest>>
     \/ /\ pc = "write"
        /\ \E form \in {"short", "torn"} :
             files' = [files EXCEPT ![Out(arguments[index][2])] =
                         [build |-> data.build, form |-> form]]
        /\ UNCHANGED manifest
     \/ /\ pc = "normalize" /\ ManifestIsDue
        /\ manifest' = NO_MANIFEST
        /\ UNCHANGED files
  /\ UNCHANGED <<arguments, index, artifacts, data, touched, replaced, runs>>

-----------------------------------------------------------------------------
\* verify-normalized, with a manifest that can be read.
StartVerify ==
  /\ pc \in Resting /\ manifest # NO_MANIFEST /\ runs < MaxRuns
  /\ pc' = "hash" /\ index' = 1 /\ touched' = FALSE /\ runs' = runs + 1
  /\ UNCHANGED <<files, manifest, arguments, artifacts, data, replaced>>

Expected == manifest.artifacts[index]

CheckHash ==
  /\ pc = "hash" /\ index <= Len(manifest.artifacts)
  /\ pc' = IF files[Out(Expected.archive)] = Expected.output
             THEN "inspect" ELSE "idle"
  /\ UNCHANGED <<files, manifest, arguments, index, artifacts, data, touched,
                 replaced, runs>>

\* faulty variant: only the declared relocations are looked for.
HasDeclared(file) == file.form = "vendor"

HasVendorRelocations(file) == file.form \in {"vendor", "unknown", "refused"}

\* inspect_archive reads the file again.
CheckInspect ==
  /\ pc = "inspect"
  /\ LET file == files[Out(Expected.archive)]
     IN  IF file.form = "torn" \/ HasVendorRelocations(file)
           THEN pc' = "idle" /\ UNCHANGED index
           ELSE pc' = "hash" /\ index' = index + 1
  /\ UNCHANGED <<files, manifest, arguments, artifacts, data, touched,
                 replaced, runs>>

Accept ==
  /\ pc = "hash" /\ index > Len(manifest.artifacts)
  /\ pc' = "accepted"
  /\ UNCHANGED <<files, manifest, arguments, index, artifacts, data, touched,
                 replaced, runs>>

\* Another program (external) puts an archive in place.
Replace ==
  /\ replaced < MaxReplaced
  /\ \E p \in Paths, f \in Files :
       f.form \notin {"short", "torn"} /\ files' = [files EXCEPT ![p] = f]
  /\ touched' = TRUE /\ replaced' = replaced + 1
  /\ UNCHANGED <<manifest, pc, arguments, index, artifacts, data, runs>>

\* No run is left.
Done == pc \in Resting /\ runs = MaxRuns /\ UNCHANGED vars

Next == \/ Start \/ NormalizeArchive \/ WriteArchive \/ WriteManifest
        \/ StartVerify \/ CheckHash \/ CheckInspect \/ Accept
        \/ Crash \/ Replace \/ Done

Spec == Init /\ [][Next]_vars

-----------------------------------------------------------------------------
\* Types; a run that writes its manifest has worked all of its archives off.
TypeOK ==
  /\ files \in [Paths -> Files]
  /\ pc \in Resting \cup {"normalize", "write", "hash", "inspect"}
  /\ pc \in {"normalize", "write"} => Len(artifacts) = index - 1
  /\ pc = "finished" => Len(artifacts) = Len(arguments)
  /\ replaced \in 0 .. MaxReplaced /\ runs \in 0 .. MaxRuns

\* A directory that is accepted, and not touched meanwhile, holds what each
\* archive of the finished run was rewritten to, and no vendor relocation, of
\* whatever type: a run that was killed, two archives of one name or an archive
\* in the place of another do not pass (main.rs:73-143, normalize.rs:846-879).
AcceptedIsWhole ==
  pc = "accepted" /\ ~touched =>
    /\ Len(manifest.artifacts) = Len(manifest.arguments)
    /\ \A i \in DOMAIN manifest.arguments :
         /\ files[Out(manifest.arguments[i][2])] =
              Normalized(manifest.artifacts[i].input)
         /\ files[Out(manifest.arguments[i][2])].form \in {"plain", "short"}

Distinct(paths) == \A i, j \in DOMAIN paths : paths[i][2] = paths[j][2] => i = j

\* After a run that came to its end, whatever was left by those before, the
\* directory agrees with the manifest, if the archives have names of their own
\* and none was touched (normalize.rs:830-843, main.rs:73-111).
FinishedAgrees ==
  pc = "finished" /\ ~touched /\ Distinct(arguments) =>
    \A i \in DOMAIN manifest.artifacts :
      files[Out(manifest.artifacts[i].archive)] = manifest.artifacts[i].output

\* Whatever ended or changed in between, an accepted directory and the manifest of
\* a finished run say what is there (main.rs:73-143).
DirectoryAgrees == TypeOK /\ AcceptedIsWhole /\ FinishedAgrees
=============================================================================
