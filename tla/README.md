# A TLA+ model of the WS63 radio system

The repository builds the native radio stack of the WS63: a port of hostap's
supplicant and access point to a single-runner RTOS (`port/hostap`, C), its
Rust interface and build script (`crates/ws63-radio-sys`), the packaged archives
(`crates/ws63-radio-blob`) and the tool that normalises, checks and profiles
them (`crates/hisi-rf-link`). Two halves are modelled: what runs on the device
and is driven from outside in orders nobody can list, and what happens to
archives on their way into an image, where files change under the programs that
read them and a wrong byte is found on the device. hostap itself and `ws63-RF`
are git submodules without source here; the `RadioRunner` that drives the port
lives in another repository; Cargo, the linker and the processor stand behind
the build. All of them are *external*: what they do is a choice among the
outcomes that the code around the calls allows for.

## 1. Inventory

### On the device (`port/hostap/`)

| Component | Source | State | Operations |
|---|---|---|---|
| Station driver registration | `hisi_wpa_driver_port.c` | `g_hooks`, `g_installed`, `g_users` | install, uninstall, acquire, release |
| EAPOL endpoints | `l2_packet_ws63.c` | endpoints, `g_receive_endpoint` | init, deinit, send, feed |
| Station driver instance | `driver_ws63.c` | copied hooks, `associated`, scan results | init, deinit, scan, associate, deauthenticate, keys, five feeds |
| Event loop | `eloop_hisi_rtos.c` | timer list, `g_initialized`, `g_terminate`, counters | register, cancel, cancel one, deplete, replenish, `run_once`, `eloop_run`, terminate, destroy |
| Supplicant context | `supplicant_ws63.c` | network, two recoveries, event ring, observed state, counters | create, init, configure, connect, disconnect, seven feeds, poll, next_event, destroy, diagnostic words |
| OS hooks | `hisi_wpa_port.c`, `os_hisi_rtos.c` | hook table | install, uninstall, wrappers |
| Access point | `authenticator_ws63.c`, `driver_ws63_ap.c`, `hisi_wpa_ap_driver_port.c`, `l2_packet_ws63_ap.c` | context, `g_config_context`, hook table, users, network device | create, configure, start, four feeds, poll, stop, destroy |
| C library subset | `freestanding_hisi.c` | none | formatter, numbers, sorting |

The owner of the runner calls the context; `hisi_wpa_poll` runs due timers of the
eloop, whose handlers call hostap and the context again. hostap calls down into
the driver instance and the endpoints, which call the hooks of the registration.
Vendor events come up as feeds: into the driver instance, from there into hostap,
and only then does the context look at hostap's state, queue an event for the
consumer and decide on a recovery. Registering or cancelling a timer wakes the
runner.

Everything runs on one runner, so there are no data races; the difficulty is
order. A disconnect event, the fallback that stands in for it, an explicit
disconnect and a second timeout meet in any order. Several calls of a function can
fail in the middle (memory, clock, driver) after earlier ones took effect. The
event queue is full while the state changes. Indices and counters wrap or
saturate. A budget ends a poll in the middle of the due timers.

### On the way into the image (`crates/`)

| Component | Source | State | Operations |
|---|---|---|---|
| Normaliser | `hisi-rf-link/src/normalize.rs` | members, tables and entries of one archive; counts | rewrite, inspect, verify, compare with a guarded image |
| Its commands | `hisi-rf-link/src/main.rs` | the output directory with its manifest | normalize, verify-normalized, and the dispatch to the others |
| Packaged hostap archives | `hisi-rf-link/src/native_supplicant.rs`, `ws63-radio-blob/build.rs` | payloads and `manifest.json` in the repository | check, update, export |
| Init closure | `hisi-rf-link/src/ble_init_profile.rs` | worklist, selected members, committed report | generate, `--check` |
| Archive profiles | `hisi-rf-link/src/ble_profile.rs` | what was read so far, committed report | generate, `--check` |
| Task profile | `hisi-rf-link/src/task_profile.rs` | tasks by number | read the log, join, report |
| Build script, features | `ws63-radio-sys/build.rs`, `src/lib.rs` | what it printed last (kept by Cargo) | select and check archives, print, write the ROM patch table |
| Interface declarations | `ws63-radio-sys/src/*.rs` | none | none |
| Python tools | `scripts/`, `hisi-rf-link/python/` | none | checks; predecessors of the Rust tools |

These programs meet in files. None of them locks anything: a command reads an
archive or a manifest several times, another one replaces it in between, a third
is killed half way through a write. What one program decides (what a vendor
relocation is, whether a branch leaves its section, which revision is the pinned
one) another decides again, and both must agree. Cargo decides from a list that
the build script printed whether the script is run at all.

### What makes each component correct

- *Registration*: nobody calls through a table that is no longer installed; the
  anonymous count is the number of live users, on all failure paths.
- *Endpoints*: frames have one destination, never a freed one.
- *Scan capture*: each block has one owner; a batch is what came in since the
  capture was emptied; the copying loop stays inside what was measured.
- *Event queue*: first in, first out; no loss without a report; the report first.
- *Event loop*: earliest first, ties in order of registration; every timer runs at
  most once and, within the horizon, runs or is withdrawn; sleeps are neither
  short (spinning) nor long.
- *Recoveries*: one retry for each detected failure, and always a timer that will
  make it; an explicit disconnect ends both; the cached BSS only after the
  association is gone.
- *Reports to the consumer*: its picture is right once it has read everything.
- *Access point*: a failed start and a stop leave nothing behind, on any of the
  failure labels; what runs is what was configured, over a registration that
  stays; the network device is on only while a driver instance uses it.
- *Normaliser*: a standard linker makes of the output what the vendor's makes of
  the input; a second run changes nothing; the counts are those of an inspection.
- *Its commands*: a directory that is accepted is what one run made, whole.
- *Guarded comparison*: it accepts an image exactly if that means the same.
- *Packaged archives*: only the pinned compiler's; a check that passes, and an
  update that ends, speak of the sources as they are; users get one release.
- *Closure*: nothing needed is missed, nothing is linked without a reason; a
  report that passes `--check` is about the archives that are there.
- *Profiles*: a report accounts for every symbol of the pinned archives; a task's
  row has no samples of a task that had its number before.
- *Build script*: linked is what was selected and of the pinned revisions, and what
  the script would print again; the ROM table reaches each replacement; never two
  hostaps.

`PROJECT.json` lists the hazards behind these at their lines.

## 2. Modules

| Module | Models | How state and actions correspond |
|---|---|---|
| `DriverLease` | abstract | one registration, the set of leases under it |
| `DriverPort` | registration, instances, endpoints | `g_hooks = NoHooks` stands for `g_installed = 0`; one action per function, its failure paths an action of their own. `copied_hooks` is the field `hooks` of `struct ws63_driver_data`. |
| `LossyQueue` | abstract | a bounded queue whose losses are counted and reported first |
| `EventRing` | `push_event`, `hisi_wpa_next_event` | the array with both indices, never cleared; `Store` and `Drop` are the two outcomes of `push_event`, `ReportOverflow`, `Pop` and `Empty` those of `next_event` |
| `Lists` | lists | elements put at a place, removed from one, picked by their places, and sums; written as recursive functions, so that they can be proved about |
| `TimerList` | the linked list of the eloop | pure operators on sequences |
| `Eloop` | `eloop_hisi_rtos.c` | `pc` is the place of the runner: a step of `run_once` up to the handler, the handler's return, the end of the pass, the wait. While it is `"handler"` the client operations may be called. |
| `RetryObligation` | abstract | failures detected = retries + obligations given up + the one owed |
| `Supplicant` | `supplicant_ws63.c` on its timers | one action per API call, feed and timer handler; `PollStarts` .. `PollReturns` bracket the handlers of one poll. Deadlines count down, so that the model has no clock. The queue is `LossyQueue`'s, the list `TimerList`'s. |
| `Authenticator` | `authenticator_ws63.c`, registration, instances and endpoints of the access point | `pc` is the next call of `hisi_wpa_ap_start` or the failure label it jumped to, so that each call may fail with what came before in place; a failing call and a label are steps. `interface` holds the configuration that `memory_config_read` saw. `hisi_wpa_ap_destroy` is two steps, because it stops and then uninstalls. |
| `ScanBatch` | abstract | a batch of the results since the last emptying, handed over once |
| `ScanCapture` | scan results of `driver_ws63.c` | the array with its count; `heap` is what is allocated, `fetched` the batch hostap holds. Scan, begin, feed, fetch, deinit are actions; a request or result that is refused changes nothing. |
| `ScanIes` | the filter of information elements | one step is one turn of the measuring or the copying loop; results and beacon elements are two parts of one buffer. `Boundary`, `WellFormed`, `Wanted` are the reference, without loops and checks. |
| `RecoveryDiagnostics` | `hisi_wpa_recovery_diagnostic_word` | six counters and the word packed from them; `Weight` are the shifts |
| `BranchImmediate` | `encode_branchi` | the bit fields of a branch word, as arithmetic on two halfwords, with the processor's decoding as the reference |
| `Normalizer` | `normalize_archive`, `normalize_object`, `inspect_object`, `verify_normalized_archive` | `pc`, `member`, `table` and `entry` are the three nested loops; each form of entry is an action of its own, each refusal is `Fail`, and only `Write` touches the file. An ELF object is sections, symbols, tables and halfwords; parsing is left out. |
| `NormalizeCommand` | `normalize`, `verify-normalized` | a file is its build and its form; one step per archive that is read, written or hashed; `Crash` and `Replace` may come between any two |
| `GuardedParity` | `verify-guarded-sites` | one step per site; memory is cells, a string is cells up to a zero. `Memory` and `SameText` are the reference: what the program finds, whatever sections it lies in |
| `ArtifactRelease` | `rebuild-native-supplicant`, the blob crate's build script | each command has a place, the manifest it read, and its group; each `fs::write` is two steps, truncated and filled, and a kill may come between |
| `InitClosure` | `ble-init-profile` | one step per turn of the worklist loop; a member is its defined and its undefined symbols |
| `ArchiveContents`, `ArchiveProfile` | `ble-profile`, `sle-profile` | what is read of one archive, as pure operators; the four passes over the archives, one step per file that is opened |
| `TaskProfile` | `task-profile` | one step per line of the log, one for the report; a line carries the task that printed it (`task`), which the command cannot see and the properties can |
| `RomPatchTable` | `write_rom_patch_object` | the object that the script writes and the linker completes, in an arithmetic with a small word and page |
| `LinkContract` | `main` of `build.rs`, Cargo's decision, `lib.rs` | `RunScript` is the whole script, accepted or not; `KeepOutput` is a build without it; `Watched` is what its `rerun-if` lines and Cargo itself compare |
| `CargoBuild` | what goes into an image | `LinkContract`, `RomPatchTable` and `ArtifactRelease` side by side: which of them runs is chosen once, the variables of the others stay in an initial state |
| `HisiRfLink` | the dispatch in `main.rs` | one variable for each role that several commands have (`at`, `given`, `data`, ...); an instance of the module of each command over them; a command is chosen once, and leaves alone what it does not use. The properties of the commands are stated here, of the command they speak of |
| `Collections` | | lemmas on numbers, finite sets and lists that several proofs need |
| `*Proofs` | | the theorems; `StationDriverProofs` is about `DriverPort`, `ScanCapture` and `ScanIes`, `CargoBuildProofs` about `CargoBuild` and its parts, `HisiRfLinkProofs` about `HisiRfLink` and the commands it instantiates |
| `MC*` | | instances for TLC |

An operator marked "faulty variant" is a plausible bug; no action uses it.
Replacing the operator named after it by the variant must make the property that
it is paired with in `PROJECT.json` fail.

Station and access point are separate archives, and an image holds one of them:
no module composes the two. The access point uses of the eloop only that it is
initialised and destroyed, and that timers of an interface disappear with it.

What hostap may do is in five operators of `Supplicant` (`HostapActs`,
`HostapLists`, `HostapAssociates`, `HostapScansLater`, `Disassociated`): it
goes to one of the states its caller's context admits, may deauthenticate through
the driver, and starts, restarts or leaves its own timer. It may deauthenticate
with success or with a hook that refuses, so `associated` can stay set while the
state is `DISCONNECTED`; that is the case the guarded retry is for.

Modules that share nothing are put side by side: `MCScan` runs the capture or the
filter, `CargoBuild` one part of a build. The part is chosen in the initial state
and never changes, and the variables of the others stay in an initial state of
theirs, so that the invariants are the modules' own. The commands of the tool are
chosen in the same way, in `HisiRfLink`. `MCCargoBuild` and `MCHisiRfLink` give
these two their inputs.

## 3. Runs

All runs finish; the numbers are for two workers.

| Run | Asks | Bounds, and why they are enough |
|---|---|---|
| `driver_port` | `UsersCounted`, `HooksCurrent`, `ImplementsLease` | three tables of two drivers (two share a driver pointer, so that an uninstall by pointer can meet either), two instances, three endpoints: a send-only one beside two that compete for the receiver |
| `event_ring` | `LossesReported`, `ImplementsQueue` | three usable slots (7 in the code): both indices wrap at every fill; counters saturate at 2, four losses go beyond that |
| `eloop` | `ListSound`, `EachTimerOnce`, `SleepMeetsDeadline` | three insertions, two handlers, three microseconds to the millisecond, a longest wait of three milliseconds with delays on both sides of it, one delay whose deadline wraps when it is rounded up and saturates once time has passed; the clock and the wait hook may fail. 4.1 million states, a good minute |
| `eloop_timely` | `NothingDueLeftBehind`, `TimersResolve` | one handler, two insertions, five microseconds, fairness. A timer counts when its deadline plus one rounding step is inside the clock's range |
| `supplicant` | `RecoveryDriven`, `QuietAfterDisconnect`, `CachedRetryIsSafe`, both `Implements...` | four inputs, any number of polls with budget 0 or 2; memory may be refused for any timer. An association, a second event, a disconnect and a connect fit, and two disconnects that leave two completions in the list; 2.3 million states |
| `supplicant_live` | `ConsumerCurrent`, `RetriesResolve` | three inputs, one queue place, a consumer that reads at any time, budgets 0 and 1, fairness; memory is not refused |
| `authenticator` | `NothingLeftBehind`, `RunsFaithful`, `ImplementsLease` | two contexts, of which the second can be created, configured and destroyed while the first runs; three tables of two drivers, one endpoint that can outlive a context, two configurations to tell apart; every call may fail and the driver may refuse to disable its device. Nothing is bounded: 15 252 states are all of them |
| `scan` | `BlocksSound`, `ImplementsBatch`; `InBounds`, `FilterExact` | three slots (32 in the code), seven blocks: hostap can hold a full batch while the next capture is full and one more result comes in. All byte sequences up to four over identifiers that double as lengths; elements with, next to and cut off within the WPA selector, between others; lengths 254 and 255; five beacons, one of them malformed. Longer inputs repeat elements |
| `hisi_rf_link` | `SameCode`, `ManifestAgrees`, `SecondRunChangesNothing`; `DirectoryAgrees`; `ParityExact`; `Sufficient`, `SelectionSound`, `ReportHolds`; `ReportTrue`; `RowsRight` | see below; 2.5 million states, a good minute |
| `cargo_build` | `LinkedIsPinned`, `OutputIsFresh`, `OneHostap`; `TableRight`; `OkIsReproducible`, `OnlyReleased` | see below; 2.7 million states, two to three minutes; the two commands are symmetric |
| `recovery_diagnostics` | `NibblesSaturated` (violated) | the real widths; sixteen increments |
| `fails_closed` | `FailsClosed` (violated) | the archives of `hisi_rf_link` |

`hisi_rf_link`, command by command:

- *normalize-archive*: three members (not an object; an object of two sections with
  two tables of up to two and one entries, over every form of relocation; one that
  is converted, refused or has no section). Entries lie at the start, in the middle
  and at the last place that fits; branches at their two ends, across sections,
  past the range, odd, without a symbol. The output is normalised a second time.
- *normalize*: two names, two builds, four argument lists (one in place, two of one
  name, in both orders), three runs, one replacement; any step may be the last.
- *verify-guarded-sites*: up to two sites over five layouts of strings that share
  their ends, six values of the immediate; and a program in which a text begins in
  one section and ends in the next.
- *ble-init-profile*: three members over five symbols, with every dependency
  between the first two, doubled definitions and cycles; a rebuild before `--check`.
- *ble-profile*: two archives and a sibling, seven contents, two replacements
  between any two reads.
- *task-profile*: all logs of up to four lines over nine shapes of line; a record
  that is cut off, with or without its number, begins a task all the same.

`cargo_build`: every combination of features that `Cargo.toml` admits, and two worlds
with the archives in another directory and the originals to compare with; two edits of
any input, the removal of an archive and the change of an original among them; four
symbol files and all patch lists of up to four names, with each of
three replacements at every even address of one page, and at both ends and in the
middle of the address space; over two archives, one for each group, two commands at
once with an edit and a crash, and one command with two crashes beside a build of
the blob crate. (A group of several archives adds turns of the same two loops.)

Deadlock is checked in every run. The bounds are `MaxLost` (losses), `MaxTime`
(clock), `MaxInsertions` (list insertions), `MaxInputs` (inputs from outside),
`MaxSteps` (increments), `MaxRounds`, `MaxRuns` (commands in a row), `MaxReplaced`,
`MaxDirectoryReplaced`, `MaxEdits`, `MaxSourceEdits` (changes from outside) and
`MaxCrashes`; each stands in a guard.

**Findings.** Two runs show that code and documentation differ:

- `recovery_diagnostics`: `include/hisi_wpa_supplicant.h:283-285` calls the six
  nibbles of the recovery word saturated; `supplicant_ws63.c:522-527` masks counters
  that saturate at 255 with `0x0f`, so a reader sees 0 after sixteen recoveries.
- `fails_closed`: `crates/hisi-rf-link/README.md:21-22` says that the tool "fails
  closed on unknown forms"; `normalize.rs:609` passes over every number it has no
  rule for, although `inspect_object` (405-411) counts it as a vendor relocation,
  and the archive that is written still holds it. `verify-normalized` would refuse
  that archive, which is why `ManifestAgrees` excepts it.

A third was met and is in no run: `profiles/ws63-scheduling.toml:5-7` says that the
canonical payloads are verified by the build script. They are only if
`WS63_RF_ORACLE_ROOT` is set (`build.rs:295-303`), and Cargo does not watch them
(437-463, 518), so that an edit after the first build goes unseen. `Watched` of
`LinkContract` leaves them out as the code does, and `OutputIsFresh` says of every
check of the script but this one and one other that it would pass again: the assertions
that the controllers' archives exist (543, 574, 628, 657) are about files of the blob
crate, which nobody watches if `WS63_RF_LIB_DIR` points to another directory. In these
two cases a crate is linked although the script would panic if it were run.

## 4. Fairness

Two specifications state fairness, `FairSpec` of `Eloop` and of `Supplicant`.

- Weak fairness of the runner's own steps: handlers return, `run_once` goes on,
  the wait hook returns when woken or when its time is over.
- Weak fairness of time.
- Strong fairness of a poll *with a budget above zero*. This is a promise of the
  runner outside the repository and cannot be derived from the code: it polls
  again when it was woken or at `next_deadline_ms` (the contract documented for
  `next_deadline_ms` and the wake hook), and not only with a budget of zero, for
  which `run_once` returns at once. It is strong because a poll is disabled
  while another one is in progress.

`eloop_timely` and `supplicant_live` assume a clock that works and memory that is
not refused. Without them the code itself gives up: `run_once` breaks off, and
`(void) eloop_register_timeout(...)` ignores that the fallback was not armed
(`supplicant_ws63.c:113`). `RecoveryDriven` says exactly when that happens.

The programs of `crates/` run to their end or are killed; nothing promises that
anyone starts them again, and no fairness is stated for them.

## 5. Theorems

`tlapm` checks every proof. Constants are arbitrary under the named assumptions
of the modules, and nothing is assumed finite but what the assumptions name. All
bounds that the runs need are constants too, so that the theorems hold for any
number of inputs, losses, edits, crashes and runs.

- **The registration** (`StationDriverProofs`). `PortInv` joins the invariants with
  "whoever is live finds a registration"; without this a release could meet an
  empty port, and neither `CopiesCurrent` nor the exact count would survive an
  uninstall. An action adds or removes one user, and cardinality follows
  (`UserAdded`, `UserRemoved`); with the count exact, `g_users = 0` means that
  nobody is left (`NoUsers`). `CountExact`, `NoStaleHooks` are its consequences;
  `LeaseRefined` maps each step to one of `DriverLease`, and
  `RegistrationAlwaysHeld` reads off it what `README.md:162-165` of the repository
  promises: while an instance or an endpoint is alive, no step touches the
  registration.
- **The scan capture** (`StationDriverProofs`). `OwnedOnce` counts, and
  cardinalities do not go through a step. `CaptureInv` says that no two owners have
  the same block (`ArrayDistinct`, `BatchDistinct`, `Apart`) and that an instance
  that is gone left nothing in the array, which the next init overwrites unread
  (`Idle`); the numbers follow from the two bijections between owners and blocks
  (`OwnersCounted`). `BatchRefined` maps an append at the count to an append to the
  captured sequence. For every capacity and any number of blocks.
- **The filter of elements** (`StationDriverProofs`). The loop that copies checks
  nothing; all it relies on must be handed over by the loop that measured.
  `AllFit(ies, n)` says that up to the boundary `n` the elements stand one behind
  the other, `Taken(ies, n)` are the wanted bytes before it, and `Measured` is what
  remains of the two when the first loop has gone: a malformed part, or an exact
  count. That the reference (`Boundary`, `Wanted`, recursive functions without
  loops) and the loops agree at the next boundary is `BoundaryFacts`,
  `NoneBetween` and the lemmas on `Picked`. `CopyStaysInside` and `FilterIsExact`
  hold for byte sequences of every length, which testing cannot reach.
- **The event ring** (`EventRingProofs`). `IInv` joins the ring's invariants.
  `x % Capacity` is reduced to a case split on wrapping (`Lap`, `Successor`,
  `DepthValue`), from which each step's effect on the depth follows.
  `NoSilentLoss` covers every capacity and counter width; `QueueRefined` shows that
  a push appends and a pop takes the head of the window, whatever the slots outside
  it hold.
- **The event loop** (`EloopProofs`). For every set of handlers and contexts, any
  delays, budgets, roundings and clock widths. `Sorted` orders the list by deadline
  and then by the stamp of the insertion, and all stamps are below the next one;
  inserting, cancelling, updating, replenishing, destroying and popping keep it
  (`ListAlwaysSound`). Every registration is pending, running, run, cancelled or
  destroyed, and a length of a list with picked places removed counts exactly those
  (`TimersBalance`). `SleepAlwaysMeets` bounds the sleep from both sides by the
  arithmetic of rounding up to milliseconds and saturating, in the width of the clock
  (`CeilingMs`): the addition of 999 wraps for the last 998 deadlines below
  `UINT64_MAX`, and there the theorem says that the loop does not sleep at all
  (`SumWraps`). A delay is seconds and microseconds in `unsigned int`, so that only a
  clock within some 0.02 per cent of its end comes there. `RunOnceComplete` is a
  step away from the sorted list: if the head is not due, none is.
- **The recoveries** (`SupplicantProofs`). Every action is first reduced to its
  `Effect` on the two flags, their counters and the history of what was given up
  (`EveryStep`); `RecoveryTyped` and the two refinements `FirstEapolRefined` and
  `TempRejectRefined` then need eight cases instead of twenty-odd actions.
  `RetriesBalance` adds up what the obligations allow: each failure detected is
  owed a retry, was retried once, or was given up; so the diagnostics never show
  more retries than failures (`RetriesAnswerFailures`).
  `RecoveryAlwaysDriven`, `AlwaysQuiet` and `CachedAlwaysSafe` come from `TimersInv`:
  a flag that is set has a timer, or one whose registration was refused; the
  first-EAPOL timeout, the fallback, the retry after a rejection and hostap's timer are
  in the list once at most (`TimersSingle`). The completion may be in it several times:
  a disconnect during a recovery registers it and cancels only the fallback
  (`supplicant_ws63.c:700-709`). What holds of all of these is that, while a retry is
  pending, the driver has told of its disconnect (`CompletionConfirmed`), because a
  newly detected timeout withdraws the older ones; the first to run makes the retry, and
  the others find no flag. After an explicit
  disconnect there is neither flag nor timer. The invariant is stated of an
  arbitrary list (`Safe`), because handlers take the list apart in several stages
  of one action. `ConsumerAlwaysCurrent` comes from `QueueInv`: the newest event
  read or queued is the one of the state last observed, unless it was dropped.
- **The recovery word** (`SupplicantProofs`). `NibblesShown` says how far the
  promise reaches that the run `recovery_diagnostics` refutes: in every state each
  nibble is its counter modulo 16, so the six are "saturated" exactly while each
  counter is at most 15 or ends in fifteen again. `Digits` shows that the six fields
  do not disturb each other, digit by digit (`Quotient`, `Remainder`). The counters
  are those of `Supplicant`, cut off at 255 as `increment_diagnostic` does.
- **The access point** (`AuthenticatorProofs`). What the runs check is not
  inductive: a failure label undoes what it assumes was done. `IInv` adds what
  exists at each call and label of the start (`StartPhase`), that only
  `g_config_context` has anything (`OnlyOne`), that live instances hold the
  registered table on an enabled device (`Current`), and that no interface differs
  from its context's configuration (`Faithful`). What a step does to the users is
  classified once (`UserEffects`: nothing, registers, unregisters, takes, returns);
  the count and the refinement of the lease both follow from these five cases.
  `NothingIsLeft`, `RunsFaithfully`, `CountExact`, `LeaseRefined` are the results,
  for any number of contexts, tables, endpoints and configurations.
- **The closure** (`HisiRfLinkProofs`). For all archives and profiles. The worklist
  alone does not carry `Sufficient` through a step: a symbol that is skipped must
  be defined somewhere, so `IInv` adds that the resolved symbols are exactly the
  definitions of the selected members (`SelectedResolved`, `ResolvedSelected`);
  from it follows as well that the loop never finds the provider already selected
  (`ProviderIsNew`). `SelectionSoundHolds` and `ReportHoldsAlways` need a second
  invariant, `JInv`, about reasons: the list is exactly what is selected
  (`SelectedListed`), and what waits in the queue is wanted by the profile or by a
  selected member (`PendingReasoned`), so that the next member selected finds its
  reason among those before it; a report is written or accepted only about the
  closure that was just computed (`CheckedReported`). That its callbacks are
  linked follows because required symbols have no provider and the callbacks were
  checked for one (`LinkedCallbacks`).
- **The normaliser** (`HisiRfLinkProofs`). For archives of any size and any number of
  runs over them. The properties speak of a finished file; `NormalizerInv` says of
  each moment what the entries passed so far (`Passed`) have become: each is
  converted and none was refused, the others are as they were (`EntriesDone`); each
  word under a passed branch decodes to its goal, and every other halfword is
  untouched (`TextDone`); each counter is the number of passed entries of its kind
  (`CountsDone`); the shape of the file never changes (`FormKept`), so that what a
  guard reads of the rewritten object is what it would read of the input
  (`SameAnswers`, `HereIs`). `BranchBits` is the arithmetic of the twenty bits, for
  every instruction word and displacement. A later run reads a file in which only
  types are left that are not converted (`Finished`), from which
  `SecondRunHolds` follows, and `OnlyUndeclaredLeftHolds`: the promise to fail
  closed, which the run `fails_closed` refutes, breaks for exactly the archives
  with a vendor number that is passed over, and those records are all that is left. `NormalizerAssumption` says what the object reader
  delivers (`IsFile`) and that no two convertible branches of one object share a
  halfword unless they say the same (`BranchesApart`): the code rewrites each site
  from what is there and does not compare sites, so the second of two overlapping
  branches would break the first. Instructions do not overlap; an archive that is
  refused may have anything.
- **The directory** (`HisiRfLinkProofs`). `DirectoryAgreesHolds` needs to know of a
  run in its middle what it will claim at its end. `RunsListed` says that the list
  of a run, and every manifest, name the first archives of its arguments with what
  these were rewritten to; `ThereAsListed` says that while nobody touches a file
  what is listed is there, unless two archives have one name, and that a
  verification has confirmed all before its index. A crash keeps the first for the
  manifest and ends the second.
- **The task report** (`HisiRfLinkProofs`). `TasksInv` says that what is known of a
  number is its last complete description and the measurements since (`KnownByLast`),
  of the lines read so far (`NextLine` adds one). `RowsRightHolds` adds whose these
  lines are (`RowsOwnOrLost`): tasks of one number print one after the other, so that
  none is of a task before the record; a measurement of a later task is among them only
  if the log lost the record of that one, and then nothing in the log could tell
  (`task_profile.rs:155-172`). It also adds that a name
  found at an address is the ELF's there or a row's that begins there
  (`NameIsThere`). It assumes that rows of one function agree on the address they
  give (`TaskAssumption`), which holds of `profiles/ws63-scheduling.toml`: the code
  looks a row up by address and then takes the *last* of its name, so two rows of
  one name with different addresses would lend each other their roles.
- **The guarded sites** (`HisiRfLinkProofs`). `ParityExactHolds`, for all sections,
  sites and source archives. The code reads bytes from the first section that has
  them all, and strings up to the first zero; the program has one memory.
  `BytesRead` and `BytesThere` relate the two: what is read is what the memory
  holds, and it can be read exactly if it lies in one section. `StringIs`,
  `OneLength` and `TextRead` do the same for texts, so that `ClassMeans` says of any
  site why it is passed and why it is refused. `ParityInv` counts the sites that
  were passed. That sections which are loaded do not overlap is an assumption
  (`ParityAssumption`): of overlapping ones the code would read the first in the
  file. The theorem names the one case in which an ELF that means the same is
  refused: a text that begins in one section and ends in the next, which
  `bytes_at_vma` does not find. The run has such an input.
- **The archive report** (`HisiRfLinkProofs`). `ReportTrueHolds`, for any profile and
  archives, any number of runs and replacements. `AsPinned` says that, while no file
  is replaced, the symbols read so far are those of the pinned contents, and that
  each total is the sum over the archives that this one of the four reads has passed
  (`SymbolsRead`, `MemoryRead`, `CrossingsRead`: they are not equally far);
  `StoredPinned` says it of the report in the file, `Confirmed` what a run must have
  found to get where it is. A sum over members and archives is a recursive function
  (`SumUpTo`); the lemmas about it come from induction up to a number (`SumFour`: a
  total split in four kinds is the total of the four, with `ArchiveKinds` for the
  sections; `SumZero`: a sum of crossings that is zero has none). It assumes that a
  profile lists archives which are there (`ProfileAssumption`).
- **The build script** (`CargoBuildProofs`). For all worlds, edits and revisions. An
  invariant about the world alone cannot speak of the world before the edit; `IInv`
  says instead that the output is what *every* world would print that Cargo cannot
  tell from the one the script saw, and that such a world passes the same checks, but
  for the two whose files Cargo does not watch. `OutputIsFreshHolds` and
  `LinkedIsPinnedHolds` follow. `OneHostapHolds` joins two files: what `lib.rs` refuses to compile leaves
  at most one of the four hostap groups that `build.rs` can select
  (`SelectedHostap`), and no upstream station beside the WPA archives of the vendor
  (`SelectedVendor`).
- **The ROM table** (`CargoBuildProofs`). `TableRightHolds`, for every symbol table,
  patch list and placement of the replacements, any word and any even page. The
  invariant only says that the object is the one for these inputs (`RomInv`); the
  work is in what it means. Counting what comes before a name numbers the names
  (`RankFacts`, for any strict order of a finite set), so each has a comparator and
  a slot of its own (`WrittenTable`); a comparator matches exactly the addresses of
  its name (`MatchingNames`); a long jump goes where it was asked to, whatever its
  rounding did (`LongJump`, from `AddRemainder`), and the rounding of the linker is
  the one of the tool before (`SameSplit`). Z3 does not decide division by a
  symbolic number; the four facts on remainders that are needed are lemmas
  (`DivMod` .. `AddRemainder`), and the leaves above them see no `%`.
- **The packaged archives** (`CargoBuildProofs`). `OnlyReleasedHolds` needs that a
  content is of the pinned compiler wherever it is kept, in the middle of a command
  too (`Supplied`: a command writes only what it has compiled itself, and only with
  `--update-artifacts`), and that every manifest ever there is in the history
  (`Remembered`), the one a build of the blob crate is expanding included.
  `OkIsReproducibleHolds` follows the knowledge of an undisturbed command from place
  to place (`Knows`): what it has compiled is what the sources give now, what it
  has compared or written agrees with it, and the files it has truncated are the
  ones it is about to fill. Any step of another command, an edit or a crash
  disturbs it, and then it claims nothing.

The theorems about the counters of the recoveries speak of unbounded ones where the
code has `uint8_t` that saturate: the accounting (`RetriesBalance`,
`RetriesAnswerFailures`, the two refinements) is exact up to 255 events of a kind.

Assumptions: `DriverPortAssumption`, `AuthenticatorAssumption`,
`ScanCaptureAssumption`, `EventRingAssumption`, `EloopAssumption` and
`SupplicantAssumption` say that sizes, widths and delays are numbers, positive where
the code divides by them or stores into them, and that the special values (no hooks,
no context) are not ordinary ones. `ScanIesAssumption` says that inputs are bytes;
`SymbolsAssumption`, `InputsAssumption`, `NeedsAssumption`, `DirectoryAssumption`,
`NormalizerAssumption`, `ParityAssumption`, `ProfileAssumption`, `TaskAssumption`,
`TableAssumption` and `ReleaseAssumption` give the shapes of inputs, lists and manifests; `TableAssumption`
as well that the replacements have even addresses that fit a word, and the two
numbers of the controller's table that the layout relies on (two data entries, three
header words). TLC evaluates each of them on the instance of a run.

Induction over numbers is drawn from the well-foundedness of `<` on `Nat`
(`LeastElement`, `InductionUpTo` in `Collections`); that is how facts about recursive
functions (`Picked`, `SumUpTo`, `Boundary`) are proved.

**Model-checked only.**

- The liveness properties `TimersResolve` and `RetriesResolve`, which are beyond the
  prover.
- The two violated properties, of course.

## 6. What is not modelled

- Contents: frames, keys, information elements, SSIDs, time stamps, the failure
  status of an event. The control around them is kept.
- hostap, the firmware and the runner, except as sources of choices. What should
  become of a recovery when the user connects elsewhere, of a late reason 8030
  after an explicit disconnect, or of two recoveries at once is decided there
  (`supplicant_ws63.c:126, 325, 391, 682`).
- Key installation and the requests that `driver_ws63.c` builds. A late result of
  an earlier scan counts as one of the next (`driver_ws63.c:215`): nothing in it
  says which scan it belongs to.
- Installation of OS hooks (`hisi_wpa_port.c:44` has no user count),
  `os_hisi_rtos.c`, `freestanding_hisi.c`.
- Beacons, keys, frames and hardware features of the access point: its driver
  passes them on to the hooks and keeps nothing. A second context of one driver
  pointer (`authenticator_ws63.c:320`) may lose its registration before it is
  started; the interface is documented for one context.
- Sections without bytes in the file (`SHT_NOBITS`): `bytes_at_vma`
  (`normalize.rs:903-930`) does not skip them and would read file bytes that are no
  memory. `GuardedParity` has sections with contents only; the strings that sites name
  are never in such a section.
- The parsing of ELF files, `ar` headers, TOML, JSON and log lines: a file is what
  the code reads out of it. Numbers nobody can reach (offsets beyond a file) are
  among the inputs where the code has a check for them.
- The Rust declarations of vendor and hostap interfaces (`supplicant.rs`,
  `authenticator.rs`, `ble.rs`, `sle.rs`, `ssap.rs`, `frw.rs`): constants and layout
  assertions, no behaviour.
- Two ROM names of one address: the table has both, the first that the controller
  compares wins; and the archives of an override directory, whose revisions the
  build script does not look at. Both are modelled as they are and no property
  forbids them.
- The end of the closure's loop, and that an interrupted update is repeated at
  some time: both are liveness, and neither is checked.
- The Python tools, except what `generate-rom-patch.py` computes, which is the
  reference for the ROM table.

## 7. Plan

Done, in the order of importance: registration and endpoints; event ring; eloop;
supplicant with both recoveries; access point; scan capture; normaliser and its
commands; packaged archives; closure and profiles; build script; the theorems of
section 5.

Open:

1. `OsPort`: the hook table without user count, what its uninstall does to a
   sleeping runner and to pending frees.
2. `Lifecycle`: create, init and destroy over `DriverPort` and `Eloop`, two
   contexts over one registration.
3. Pure operators: the formatter and number parser of `freestanding_hisi.c`, the
   key-flag and cipher maps.
4. Theorems: all that the provers reach of what the runs check is proved; the
   modules of points 1 to 3 will need their own.
