--------------------------- MODULE StationDriverProofs -------------------------
(***************************************************************************)
(* The station driver of driver_ws63.c and l2_packet_ws63.c, for every set *)
(* of hook tables, instances, endpoints and blocks, every capacity, and    *)
(* every scan result.                                                      *)
(*                                                                         *)
(* The registration: the reference count alone does not make the argument. *)
(* Uninstall looks at a number, so the proof needs that the number is the  *)
(* size of the set of live users (UsersCounted) and that a live user       *)
(* implies a registration (UsersRegistered).  Together they are inductive. *)
(*                                                                         *)
(* The capture: the cardinalities of OwnedOnce do not go through a step;   *)
(* CaptureInv says instead that no two owners have the same block, from    *)
(* which they follow at the end.                                           *)
(*                                                                         *)
(* The filter: its two loops never meet, so what the second one relies on  *)
(* must be handed over by the first.  AllFit says what the elements before *)
(* a position look like, Taken which of their bytes are kept, and Measured *)
(* what is left of the two once the measuring loop has gone.               *)
(***************************************************************************)
EXTENDS DriverPort, ScanCapture, ScanIes, Collections

--------------------------------------------------------------------------------
(* The registration *)

UsersRegistered == LiveUsers # {} => g_hooks # NoHooks

PortInv ==
  /\ TypeOK
  /\ IsFiniteSet(LiveUsers)
  /\ UsersCounted
  /\ UsersRegistered
  /\ CopiesCurrent
  /\ OneReceiver

(* The count of users is zero only when nobody is live. *)
LEMMA NoUsers ==
  ASSUME IsFiniteSet(LiveUsers), UsersCounted, g_users = 0
  PROVE  LiveUsers = {}
BY FS_EmptySet DEF UsersCounted

(* How each operation changes the set of live users. *)
LEMMA Ws63InitUsers ==
  ASSUME TypeOK, NEW i \in Instances, Ws63Init(i)
  PROVE  LiveUsers' = LiveUsers \cup {i} /\ i \notin LiveUsers
<1>1. LiveInstances' = LiveInstances \cup {i}
  BY DriverPortAssumption DEF LiveInstances, Ws63Init, TypeOK
<1>2. LiveEndpoints' = LiveEndpoints
  BY DEF LiveEndpoints, Ws63Init
<1>3. i \notin LiveUsers
  BY DriverPortAssumption DEF LiveUsers, LiveInstances, LiveEndpoints, Ws63Init
<1>. QED  BY <1>1, <1>2, <1>3 DEF LiveUsers

LEMMA Ws63DeinitUsers ==
  ASSUME TypeOK, NEW i \in Instances, Ws63Deinit(i)
  PROVE  LiveUsers' = LiveUsers \ {i} /\ i \in LiveUsers
<1>1. LiveInstances' = LiveInstances \ {i} /\ i \in LiveInstances
  BY DEF LiveInstances, Ws63Deinit, TypeOK
<1>2. LiveEndpoints' = LiveEndpoints /\ i \notin LiveEndpoints
  BY DriverPortAssumption DEF LiveEndpoints, Ws63Deinit
<1>. QED  BY <1>1, <1>2 DEF LiveUsers

LEMMA L2InitUsers ==
  ASSUME TypeOK, NEW e \in Endpoints, NEW kind \in {"send", "receive"},
         L2Init(e, kind)
  PROVE  LiveUsers' = LiveUsers \cup {e} /\ e \notin LiveUsers
<1>1. LiveEndpoints' = LiveEndpoints \cup {e}
  BY DEF LiveEndpoints, L2Init, TypeOK
<1>2. LiveInstances' = LiveInstances
  BY DEF LiveInstances, L2Init
<1>3. e \notin LiveUsers
  BY DriverPortAssumption DEF LiveUsers, LiveInstances, LiveEndpoints, L2Init
<1>. QED  BY <1>1, <1>2, <1>3 DEF LiveUsers

LEMMA L2DeinitUsers ==
  ASSUME TypeOK, NEW e \in Endpoints, L2Deinit(e)
  PROVE  LiveUsers' = LiveUsers \ {e} /\ e \in LiveUsers
<1>1. LiveEndpoints' = LiveEndpoints \ {e} /\ e \in LiveEndpoints
  BY DEF LiveEndpoints, L2Deinit, TypeOK
<1>2. LiveInstances' = LiveInstances /\ e \notin LiveInstances
  BY DriverPortAssumption DEF LiveInstances, L2Deinit
<1>. QED  BY <1>1, <1>2 DEF LiveUsers

--------------------------------------------------------------------------------
(* The invariant holds initially and every operation of the port keeps it. *)
LEMMA PortInit == Init => PortInv
<1>. SUFFICES ASSUME Init PROVE PortInv
  OBVIOUS
<1>1. LiveUsers = {}
  BY DEF Init, LiveUsers, LiveInstances, LiveEndpoints
<1>2. TypeOK
  BY DEF Init, TypeOK
<1>3. UsersCounted /\ IsFiniteSet(LiveUsers)
  BY <1>1, FS_EmptySet DEF UsersCounted, Init
<1>4. CopiesCurrent
  BY <1>1 DEF CopiesCurrent, LiveUsers
<1>5. OneReceiver
  BY DEF Init, OneReceiver
<1>. QED  BY <1>1, <1>2, <1>3, <1>4, <1>5 DEF PortInv, UsersRegistered

LEMMA PortStep == PortInv /\ [Next]_vars => PortInv'
<1>. SUFFICES ASSUME PortInv, [Next]_vars PROVE PortInv'
  OBVIOUS
<1>. USE DEF PortInv
<1>1. ASSUME NEW h \in Hooks, Install(h) PROVE PortInv'
  <2>1. LiveUsers' = LiveUsers /\ LiveInstances' = LiveInstances
    BY <1>1 DEF Install, LiveUsers, LiveInstances, LiveEndpoints
  <2>2. TypeOK'
    BY <1>1 DEF Install, TypeOK
  <2>3. LiveUsers = {}
    BY <1>1 DEF Install, UsersRegistered
  <2>4. UsersCounted' /\ UsersRegistered' /\ IsFiniteSet(LiveUsers)'
    BY <1>1, <2>1, <2>3 DEF Install, UsersCounted, UsersRegistered
  <2>5. CopiesCurrent'
    BY <1>1, <2>1, <2>3 DEF Install, CopiesCurrent, LiveUsers
  <2>6. OneReceiver'
    BY <1>1 DEF Install, OneReceiver
  <2>. QED  BY <2>2, <2>4, <2>5, <2>6
<1>2. ASSUME NEW d \in Drivers, Uninstall(d) PROVE PortInv'
  <2>1. LiveUsers' = LiveUsers /\ LiveInstances' = LiveInstances
    BY <1>2 DEF Uninstall, LiveUsers, LiveInstances, LiveEndpoints
  <2>2. TypeOK'
    BY <1>2 DEF Uninstall, TypeOK
  <2>3. LiveUsers = {}
    BY <1>2, NoUsers DEF Uninstall
  <2>4. UsersCounted' /\ UsersRegistered' /\ IsFiniteSet(LiveUsers)'
    BY <1>2, <2>1, <2>3 DEF Uninstall, UsersCounted, UsersRegistered
  <2>5. CopiesCurrent'
    BY <2>1, <2>3 DEF CopiesCurrent, LiveUsers
  <2>6. OneReceiver'
    BY <1>2 DEF Uninstall, OneReceiver
  <2>. QED  BY <2>2, <2>4, <2>5, <2>6
<1>3. ASSUME NEW i \in Instances, Ws63Init(i) PROVE PortInv'
  <2>1. LiveUsers' = LiveUsers \cup {i} /\ i \notin LiveUsers
    BY <1>3, Ws63InitUsers
  <2>2. TypeOK'
    BY <1>3 DEF Ws63Init, TypeOK
  <2>3. UsersCounted' /\ IsFiniteSet(LiveUsers)'
    BY <1>3, <2>1, UserAdded DEF Ws63Init, UsersCounted
  <2>4. UsersRegistered'
    BY <1>3 DEF Ws63Init, UsersRegistered
  <2>5. CopiesCurrent'
    BY <1>3 DEF Ws63Init, CopiesCurrent, LiveInstances, TypeOK
  <2>6. OneReceiver'
    BY <1>3 DEF Ws63Init, OneReceiver
  <2>. QED  BY <2>2, <2>3, <2>4, <2>5, <2>6
<1>4. ASSUME NEW i \in Instances, Ws63Deinit(i) PROVE PortInv'
  <2>1. LiveUsers' = LiveUsers \ {i} /\ i \in LiveUsers
    BY <1>4, Ws63DeinitUsers
  <2>2. g_users # 0 /\ g_users' = g_users - 1
    BY <1>4, <2>1, UserRemoved DEF Ws63Deinit, Released, UsersCounted
  <2>3. TypeOK'
    BY <1>4, <2>2 DEF Ws63Deinit, TypeOK
  <2>4. UsersCounted' /\ IsFiniteSet(LiveUsers)'
    BY <2>1, <2>2, UserRemoved DEF UsersCounted
  <2>5. UsersRegistered'
    BY <1>4, <2>1 DEF Ws63Deinit, UsersRegistered
  <2>6. CopiesCurrent'
    BY <1>4 DEF Ws63Deinit, CopiesCurrent, LiveInstances, TypeOK
  <2>7. OneReceiver'
    BY <1>4 DEF Ws63Deinit, OneReceiver
  <2>. QED  BY <2>3, <2>4, <2>5, <2>6, <2>7
<1>5. ASSUME NEW e \in Endpoints, NEW kind \in {"send", "receive"},
             L2Init(e, kind)
      PROVE  PortInv'
  <2>1. LiveUsers' = LiveUsers \cup {e} /\ e \notin LiveUsers
    BY <1>5, L2InitUsers
  <2>2. TypeOK'
    BY <1>5 DEF L2Init, TypeOK
  <2>3. UsersCounted' /\ IsFiniteSet(LiveUsers)'
    BY <1>5, <2>1, UserAdded DEF L2Init, UsersCounted
  <2>4. UsersRegistered'
    BY <1>5 DEF L2Init, UsersRegistered
  <2>5. CopiesCurrent'
    BY <1>5 DEF L2Init, CopiesCurrent, LiveInstances
  <2>6. OneReceiver'
    BY <1>5, DriverPortAssumption DEF L2Init, OneReceiver, TypeOK
  <2>. QED  BY <2>2, <2>3, <2>4, <2>5, <2>6
<1>6. ASSUME NEW e \in Endpoints, L2Deinit(e) PROVE PortInv'
  <2>1. LiveUsers' = LiveUsers \ {e} /\ e \in LiveUsers
    BY <1>6, L2DeinitUsers
  <2>2. g_users # 0 /\ g_users' = g_users - 1
    BY <1>6, <2>1, UserRemoved DEF L2Deinit, Released, UsersCounted
  <2>3. TypeOK'
    BY <1>6, <2>2 DEF L2Deinit, TypeOK
  <2>4. UsersCounted' /\ IsFiniteSet(LiveUsers)'
    BY <2>1, <2>2, UserRemoved DEF UsersCounted
  <2>5. UsersRegistered'
    BY <1>6, <2>1 DEF L2Deinit, UsersRegistered
  <2>6. CopiesCurrent'
    BY <1>6 DEF L2Deinit, CopiesCurrent, LiveInstances
  <2>7. OneReceiver'
    BY <1>6, DriverPortAssumption DEF L2Deinit, OneReceiver, TypeOK
  <2>. QED  BY <2>3, <2>4, <2>5, <2>6, <2>7
<1>7. ASSUME Ws63InitFails \/ L2InitFails PROVE UNCHANGED vars
  BY <1>7 DEF Ws63InitFails, L2InitFails, Released, TypeOK, vars
<1>8. ASSUME UNCHANGED vars PROVE PortInv'
  BY <1>8 DEF vars, TypeOK, UsersCounted, UsersRegistered, CopiesCurrent,
     OneReceiver, LiveUsers, LiveInstances, LiveEndpoints
<1>. QED
  BY <1>1, <1>2, <1>3, <1>4, <1>5, <1>6, <1>7, <1>8 DEF Next

(* The port's invariant: the count is exact, copies are current, there is  *)
(* one receiver, and whoever is live finds a registration.                 *)
THEOREM PortInvariance == Spec => []PortInv
BY PortInit, PortStep, PTL DEF Spec

(* The reference count of hisi_wpa_driver_port.c is the number of live     *)
(* driver instances and EAPOL endpoints, whatever sequence of successful   *)
(* and failing calls was made.                                             *)
THEOREM CountExact == Spec => [](TypeOK /\ UsersCounted)
<1>1. PortInv => TypeOK /\ UsersCounted
  BY DEF PortInv
<1>. QED  BY <1>1, PortInvariance, PTL

(* No live driver instance ever holds a stale copy of the hook table, and  *)
(* frames have exactly one destination.                                    *)
THEOREM NoStaleHooks == Spec => []HooksCurrent
<1>1. PortInv => HooksCurrent
  BY DEF PortInv, HooksCurrent
<1>. QED  BY <1>1, PortInvariance, PTL

--------------------------------------------------------------------------------
(* Every step of the counted port is a step of the lease, or a stutter. *)
LEMMA LeaseStep == PortInv /\ [Next]_vars => [Lease!Next]_(Lease!vars)
<1>. SUFFICES ASSUME PortInv, [Next]_vars PROVE [Lease!Next]_(Lease!vars)
  OBVIOUS
<1>. USE DEF PortInv, Lease!Next, Lease!vars
<1>1. ASSUME NEW h \in Hooks, Install(h) PROVE Lease!Next
  <2>1. LiveUsers' = LiveUsers
    BY <1>1 DEF Install, LiveUsers, LiveInstances, LiveEndpoints
  <2>. QED  BY <1>1, <2>1 DEF Install, Lease!Register
<1>2. ASSUME NEW d \in Drivers, Uninstall(d) PROVE Lease!Next
  <2>1. LiveUsers' = LiveUsers /\ LiveUsers = {}
    BY <1>2, NoUsers DEF Uninstall, LiveUsers, LiveInstances, LiveEndpoints
  <2>. QED  BY <1>2, <2>1 DEF Uninstall, Lease!Unregister
<1>3. ASSUME NEW i \in Instances, Ws63Init(i) PROVE Lease!Next
  <2>1. Lease!Take(i)
    BY <1>3, Ws63InitUsers DEF Ws63Init, Lease!Take
  <2>. QED  BY <2>1
<1>4. ASSUME NEW i \in Instances, Ws63Deinit(i) PROVE Lease!Next
  <2>1. Lease!Return(i)
    BY <1>4, Ws63DeinitUsers DEF Ws63Deinit, Lease!Return
  <2>. QED  BY <2>1
<1>5. ASSUME NEW e \in Endpoints, NEW kind \in {"send", "receive"},
             L2Init(e, kind)
      PROVE  Lease!Next
  <2>1. Lease!Take(e)
    BY <1>5, L2InitUsers DEF L2Init, Lease!Take
  <2>. QED  BY <2>1
<1>6. ASSUME NEW e \in Endpoints, L2Deinit(e) PROVE Lease!Next
  <2>1. Lease!Return(e)
    BY <1>6, L2DeinitUsers DEF L2Deinit, Lease!Return
  <2>. QED  BY <2>1
<1>7. ASSUME Ws63InitFails \/ L2InitFails \/ UNCHANGED vars
      PROVE  UNCHANGED Lease!vars
  BY <1>7 DEF Ws63InitFails, L2InitFails, vars, LiveUsers, LiveInstances,
     LiveEndpoints
<1>. QED  BY <1>1, <1>2, <1>3, <1>4, <1>5, <1>6, <1>7 DEF Next

(* The registration cannot be removed or replaced while an instance or an  *)
(* endpoint is alive: the counted port implements the lease.               *)
THEOREM LeaseRefined == Spec => ImplementsLease
<1>1. Init => Lease!Init
  BY DEF Init, Lease!Init, LiveUsers, LiveInstances, LiveEndpoints
<1>. QED  BY <1>1, LeaseStep, PortInvariance, PTL DEF Spec, ImplementsLease, Lease!Spec

(* In the words of README.md:162-165 of the repository: "the driver        *)
(* registration cannot be removed while an RX endpoint is alive", nor      *)
(* replaced, nor while a driver instance is alive                          *)
(* (hisi_wpa_driver_port.c:38-58).                                         *)
RegistrationHeld == [][LiveUsers # {} => g_hooks' = g_hooks]_vars

THEOREM RegistrationAlwaysHeld == Spec => RegistrationHeld
<1>1. ASSUME PortInv, [Next]_vars, LiveUsers # {}
      PROVE  g_hooks' = g_hooks
  <2>1. [Lease!Next]_(Lease!vars)
    BY <1>1, LeaseStep, Zenon
  <2>2. g_hooks # NoHooks
    BY <1>1, Zenon DEF PortInv, UsersRegistered
  <2>3. QED
    BY <1>1, <2>1, <2>2
       DEF Lease!Next, Lease!vars, Lease!Register, Lease!Unregister, Lease!Take,
           Lease!Return
<1>. QED  BY <1>1, PortInvariance, PTL DEF Spec, RegistrationHeld

--------------------------------------------------------------------------------
(* The capture *)

\* A function that maps one to one and onto keeps the number of elements.
LEMMA SameNumber ==
  ASSUME NEW S, NEW T, IsFiniteSet(S), NEW f \in [S -> T],
         \A x, y \in S : f[x] = f[y] => x = y,
         \A t \in T : \E x \in S : f[x] = t
  PROVE  IsFiniteSet(T) /\ Cardinality(T) = Cardinality(S)
<1>1. f \in Bijection(S, T)
  BY DEF Bijection, Injection, Surjection, IsInjective
<1>2. ExistsBijection(S, T)
  BY <1>1 DEF ExistsBijection
<1>3. QED
  BY <1>2, FS_Bijection

--------------------------------------------------------------------------------
InArray == {scan_results[s] : s \in Filled}
InBatch == UNION {{batch[i] : i \in DOMAIN batch} : batch \in fetched}

\* There is one batch at most, and no block has two owners.
OneBatch == \A a, b \in fetched : a = b
ArrayDistinct ==
  \A s, t \in Filled : scan_results[s] = scan_results[t] => s = t
BatchDistinct ==
  \A batch \in fetched : \A i, j \in DOMAIN batch : batch[i] = batch[j] => i = j
Apart == InArray \cap InBatch = {}
Contained ==
  containers = IF fetched = {} THEN 0 ELSE IF fetched = {<<>>} THEN 1 ELSE 2

\* CaptureInit leaves the array of an old instance unread: there must be nothing in it.
Idle == ~alive => scan_result_count = 0

CaptureInv == /\ CaptureTypeOK /\ heap = InArray \cup InBatch
              /\ OneBatch /\ ArrayDistinct /\ BatchDistinct /\ Apart /\ Contained /\ Idle

\* The filled part of the array is a sequence of blocks.
LEMMA CapturedSeq ==
  ASSUME CaptureInv
  PROVE  /\ Captured \in Seq(Blocks) /\ Len(Captured) = scan_result_count
         /\ DOMAIN Captured = 1 .. scan_result_count
         /\ \A i \in 1 .. scan_result_count : Captured[i] = scan_results[i - 1]
         /\ \A i \in 1 .. scan_result_count : i - 1 \in Filled
         /\ scan_result_count \in Nat
<1>1. scan_result_count \in Nat
  BY ScanCaptureAssumption DEF CaptureInv, CaptureTypeOK
<1>2. \A i \in 1 .. scan_result_count : i - 1 \in Filled
  BY <1>1 DEF Filled
<1>3. \A i \in 1 .. scan_result_count : scan_results[i - 1] \in Blocks
  BY <1>2 DEF CaptureInv, CaptureTypeOK, InArray
<1>4. Captured \in [1 .. scan_result_count -> Blocks]
  BY <1>3 DEF Captured
<1>5. Captured \in Seq(Blocks) /\ Len(Captured) = scan_result_count
  BY <1>1, <1>4
<1>6. QED
  BY <1>1, <1>2, <1>4, <1>5 DEF Captured

\* An array that is cleared owns nothing.
LEMMA Cleared ==
  ASSUME scan_results' = Empty, scan_result_count' = 0
  PROVE  /\ Filled' = {} /\ InArray' = {} /\ Captured' = <<>>
         /\ ArrayDistinct' /\ Apart'
         /\ scan_results' \in [Slots -> Blocks \cup {NULL}]
         /\ \A s \in Slots \ Filled' : scan_results'[s] = NULL
<1>1. Filled' = {}
  BY DEF Filled
<1>2. InArray' = {}
  BY <1>1 DEF InArray
<1>3. Captured' = <<>>
  BY DEF Captured
<1>4. ArrayDistinct' /\ Apart'
  BY <1>1, <1>2 DEF ArrayDistinct, Apart
<1>5. QED
  BY <1>1, <1>2, <1>3, <1>4 DEF Empty

LEMMA InitOwned == CaptureInit => CaptureInv
<1> SUFFICES ASSUME CaptureInit PROVE CaptureInv
  OBVIOUS
<1>1. Filled = {} /\ InArray = {} /\ InBatch = {}
  BY DEF CaptureInit, Filled, InArray, InBatch
<1>2. CaptureTypeOK
  <2>1. <<>> \in Seq(Blocks)
    OBVIOUS
  <2>2. scan_results \in [Slots -> Blocks \cup {NULL}]
    BY DEF CaptureInit, Empty
  <2>3. \A s \in Slots \ Filled : scan_results[s] = NULL
    BY DEF CaptureInit, Empty
  <2>4. scan_result_count \in 0 .. Capacity /\ containers \in Nat
    BY ScanCaptureAssumption DEF CaptureInit
  <2>5. QED
    BY <2>1, <2>2, <2>3, <2>4 DEF CaptureInit, CaptureTypeOK
<1>3. QED
  BY <1>1, <1>2 DEF CaptureInit, CaptureInv, OneBatch, ArrayDistinct, BatchDistinct, Apart, Contained,
    Idle

\* Emptying the array frees what it owns and nothing that hostap holds.
LEMMA ClearOwned ==
  ASSUME CaptureInv, ClearScanResults, alive' \in BOOLEAN,
         UNCHANGED <<fetched, containers, last_batch>>
  PROVE  CaptureInv'
<1>1. /\ Filled' = {} /\ InArray' = {} /\ ArrayDistinct' /\ Apart'
      /\ scan_results' \in [Slots -> Blocks \cup {NULL}]
      /\ \A s \in Slots \ Filled' : scan_results'[s] = NULL
  BY Cleared DEF ClearScanResults
<1>2. InBatch' = InBatch
  BY DEF InBatch
<1>3. heap' = heap \ InArray
  BY DEF ClearScanResults, InArray
<1>4. heap' = InArray' \cup InBatch'
  BY <1>1, <1>2, <1>3 DEF CaptureInv, Apart
<1>5. CaptureTypeOK'
  BY <1>1, <1>3, ScanCaptureAssumption DEF CaptureInv, CaptureTypeOK, ClearScanResults, Slots
<1>6. OneBatch' /\ BatchDistinct' /\ Contained' /\ Idle'
  BY DEF CaptureInv, OneBatch, BatchDistinct, Contained, Idle, ClearScanResults
<1>7. QED
  BY <1>1, <1>4, <1>5, <1>6 DEF CaptureInv

LEMMA OpenCaptureOwned == CaptureInv /\ OpenCapture => CaptureInv'
<1> SUFFICES ASSUME CaptureInv, OpenCapture PROVE CaptureInv'
  OBVIOUS
<1>1. scan_result_count = 0
  BY DEF CaptureInv, Idle, OpenCapture
<1>2. Filled = {}
  BY <1>1 DEF Filled
<1>3. ClearScanResults
  BY <1>2 DEF ClearScanResults, OpenCapture
<1>4. QED
  BY <1>3, ClearOwned DEF OpenCapture

\* A new result goes into the first free element.
LEMMA FeedOwned == ASSUME CaptureInv, NEW b \in Blocks, FeedScanResult(b) PROVE CaptureInv'
<1> DEFINE n == scan_result_count
<1>1. /\ n \in Slots /\ n' = n + 1 /\ n \in Nat
      /\ scan_results' = [scan_results EXCEPT ![n] = b]
  BY ScanCaptureAssumption DEF CaptureInv, CaptureTypeOK, FeedScanResult, HasRoom, Slots
<1>2. Filled' = Filled \cup {n} /\ n \notin Filled /\ Filled \subseteq Slots
  BY <1>1, ScanCaptureAssumption DEF Filled, Slots
<1>3. scan_results'[n] = b /\ \A s \in Slots \ {n} : scan_results'[s] = scan_results[s]
  BY <1>1 DEF CaptureInv, CaptureTypeOK
<1>4. InArray' = InArray \cup {b}
  BY <1>2, <1>3 DEF InArray
<1>5. InBatch' = InBatch /\ heap' = heap \cup {b} /\ b \notin heap
  BY DEF FeedScanResult, InBatch
<1>6. ArrayDistinct'
  <2>1. \A s \in Filled : scan_results'[s] # b
    BY <1>2, <1>3, <1>5 DEF CaptureInv, InArray
  <2>2. \A s, t \in Filled : scan_results'[s] = scan_results'[t] => s = t
    BY <1>2, <1>3 DEF CaptureInv, ArrayDistinct
  <2>3. QED
    BY <1>2, <1>3, <2>1, <2>2 DEF ArrayDistinct
<1>7. Apart' /\ heap' = InArray' \cup InBatch'
  BY <1>4, <1>5 DEF CaptureInv, Apart
<1>8. CaptureTypeOK'
  <2>1. scan_results' \in [Slots -> Blocks \cup {NULL}]
    BY <1>1 DEF CaptureInv, CaptureTypeOK
  <2>2. \A s \in Slots \ Filled' : scan_results'[s] = NULL
    BY <1>2, <1>3 DEF CaptureInv, CaptureTypeOK
  <2>3. scan_result_count' \in 0 .. Capacity
    BY <1>1, ScanCaptureAssumption DEF Slots
  <2>4. QED
    BY <2>1, <2>2, <2>3 DEF CaptureInv, CaptureTypeOK, FeedScanResult
<1>9. OneBatch' /\ BatchDistinct' /\ Contained' /\ Idle'
  BY DEF CaptureInv, OneBatch, BatchDistinct, Contained, Idle, FeedScanResult
<1>10. QED
  BY <1>6, <1>7, <1>8, <1>9 DEF CaptureInv

\* What was the array's is hostap's, block by block.
LEMMA GetOwned == ASSUME CaptureInv, Ws63GetScanResults PROVE CaptureInv'
<1>1. /\ Filled' = {} /\ InArray' = {} /\ ArrayDistinct' /\ Apart'
      /\ scan_results' \in [Slots -> Blocks \cup {NULL}]
      /\ \A s \in Slots \ Filled' : scan_results'[s] = NULL
  BY Cleared DEF Ws63GetScanResults, GivenAway
<1>2. fetched' = {Captured} /\ last_batch' = Captured /\ heap' = heap /\ InBatch = {}
  BY DEF Ws63GetScanResults, InBatch
<1>3. InBatch' = InArray
  <2>1. InBatch' = {Captured[i] : i \in 1 .. scan_result_count}
    BY <1>2, CapturedSeq, SMTT(40) DEF InBatch
  <2>2. ASSUME NEW i \in 1 .. scan_result_count PROVE Captured[i] \in InArray
    BY CapturedSeq DEF InArray
  <2>3. ASSUME NEW s \in Filled
        PROVE  \E i \in 1 .. scan_result_count : Captured[i] = scan_results[s]
    <3>1. scan_result_count \in Nat
      BY CapturedSeq
    <3>2. PICK i \in 1 .. scan_result_count : i - 1 = s
      BY <3>1 DEF Filled
    <3>3. Captured[i] = scan_results[i - 1]
      BY CapturedSeq
    <3>4. QED
      BY <3>2, <3>3
  <2>4. QED
    BY <2>1, <2>2, <2>3 DEF InArray
<1>4. heap' = InArray' \cup InBatch'
  BY <1>1, <1>2, <1>3 DEF CaptureInv
<1>5. Captured = <<>> <=> scan_result_count = 0
  BY CapturedSeq
<1>6. Contained'
  BY <1>2, <1>5 DEF CaptureInv, Contained, Ws63GetScanResults
<1>7. BatchDistinct'
  <2>1. ASSUME NEW i \in 1 .. scan_result_count, NEW j \in 1 .. scan_result_count,
               Captured[i] = Captured[j]
        PROVE  i = j
    <3>1. i - 1 = j - 1
      BY <2>1, CapturedSeq DEF CaptureInv, ArrayDistinct
    <3>2. QED
      BY <3>1, CapturedSeq
  <2>2. QED
    BY <1>2, <2>1, CapturedSeq DEF BatchDistinct
<1>8. CaptureTypeOK'
  <2>1. Capacity \in Nat /\ scan_result_count' = 0 /\ alive' = alive
    BY ScanCaptureAssumption DEF Ws63GetScanResults, GivenAway
  <2>2. containers' \in Nat
    BY DEF CaptureInv, CaptureTypeOK, Ws63GetScanResults
  <2>3. QED
    BY <1>1, <1>2, <2>1, <2>2, CapturedSeq DEF CaptureInv, CaptureTypeOK
<1>9. OneBatch' /\ Idle'
  BY <1>2 DEF OneBatch, Idle, Ws63GetScanResults, GivenAway
<1>10. QED
  BY <1>1, <1>4, <1>6, <1>7, <1>8, <1>9 DEF CaptureInv

LEMMA FreeOwned == ASSUME CaptureInv, ScanResultsFree PROVE CaptureInv'
<1>1. PICK batch \in fetched :
        /\ heap' = heap \ {batch[i] : i \in DOMAIN batch}
        /\ containers' = containers - (IF batch = <<>> THEN 1 ELSE 2)
        /\ fetched' = {}
        /\ UNCHANGED <<alive, scan_results, scan_result_count, last_batch>>
  BY DEF ScanResultsFree
<1>2. fetched = {batch}
  BY DEF CaptureInv, OneBatch
<1>3. InBatch = {batch[i] : i \in DOMAIN batch}
  BY <1>2 DEF InBatch
<1>4. Filled' = Filled /\ InArray' = InArray /\ InBatch' = {}
  BY <1>1 DEF Filled, InArray, InBatch
<1>5. heap' = InArray' \cup InBatch'
  BY <1>1, <1>3, <1>4 DEF CaptureInv, Apart
<1>6. containers' = 0
  <2>1. fetched = {<<>>} <=> batch = <<>>
    BY <1>2
  <2>2. QED
    BY <1>1, <1>2, <2>1 DEF CaptureInv, Contained
<1>7. CaptureTypeOK'
  BY <1>1, <1>4, <1>6 DEF CaptureInv, CaptureTypeOK
<1>8. ArrayDistinct' /\ Apart' /\ OneBatch' /\ BatchDistinct' /\ Contained' /\ Idle'
  BY <1>1, <1>4, <1>6
     DEF CaptureInv, ArrayDistinct, Apart, OneBatch, BatchDistinct, Contained, Idle
<1>9. QED
  BY <1>5, <1>7, <1>8 DEF CaptureInv

LEMMA StaysOwned == CaptureInv /\ UNCHANGED capture_vars => CaptureInv'
<1> SUFFICES ASSUME CaptureInv, UNCHANGED capture_vars PROVE CaptureInv'
  OBVIOUS
<1>1. Filled' = Filled /\ InArray' = InArray /\ InBatch' = InBatch
  BY DEF Filled, InArray, InBatch, capture_vars
<1>2. CaptureTypeOK'
  BY <1>1 DEF CaptureInv, CaptureTypeOK, capture_vars
<1>3. ArrayDistinct' /\ Apart'
  BY <1>1 DEF CaptureInv, ArrayDistinct, Apart, capture_vars
<1>4. OneBatch' /\ BatchDistinct' /\ Contained' /\ Idle'
  BY DEF CaptureInv, OneBatch, BatchDistinct, Contained, Idle, capture_vars
<1>5. QED
  BY <1>1, <1>2, <1>3, <1>4 DEF CaptureInv, capture_vars

LEMMA NextOwned == CaptureInv /\ [CaptureNext]_capture_vars => CaptureInv'
<1> SUFFICES ASSUME CaptureInv, [CaptureNext]_capture_vars PROVE CaptureInv'
  OBVIOUS
<1>1. CASE OpenCapture
  BY <1>1, OpenCaptureOwned
<1>2. CASE CloseCapture \/ Ws63Scan \/ BeginScanCapture
  <2>1. /\ ClearScanResults /\ alive' \in BOOLEAN
        /\ UNCHANGED <<fetched, containers, last_batch>>
    BY <1>2 DEF CloseCapture, Ws63Scan, BeginScanCapture
  <2>2. QED
    BY <2>1, ClearOwned
<1>3. CASE Ws63GetScanResults
  BY <1>3, GetOwned
<1>4. CASE ScanResultsFree
  BY <1>4, FreeOwned
<1>5. CASE \E b \in Blocks : FeedScanResult(b)
  BY <1>5, FeedOwned
<1>6. CASE GetFails \/ UNCHANGED capture_vars
  BY <1>6, StaysOwned DEF GetFails
<1>7. QED
  BY <1>1, <1>2, <1>3, <1>4, <1>5, <1>6 DEF CaptureNext

\* The invariant holds in every state of every behaviour.
THEOREM CaptureInvariance == CaptureSpec => []CaptureInv
<1>1. QED
  BY InitOwned, NextOwned, PTL DEF CaptureSpec

--------------------------------------------------------------------------------
\* Blocks and their owners are one to one, so their numbers agree.
LEMMA OwnersCounted ==
  ASSUME CaptureInv
  PROVE  OwnedOnce
<1> DEFINE Held == UNION {{<<batch, i>> : i \in DOMAIN batch} : batch \in fetched}
           Given == {h[1][h[2]] : h \in Held}
<1>1. Given = InBatch
  <2>1. ASSUME NEW h \in Held PROVE h[1][h[2]] \in InBatch
    BY DEF InBatch
  <2>2. ASSUME NEW b \in InBatch PROVE b \in Given
    <3>1. PICK batch \in fetched : \E i \in DOMAIN batch : b = batch[i]
      BY DEF InBatch
    <3>2. PICK i \in DOMAIN batch : b = batch[i]
      BY <3>1
    <3>3. <<batch, i>> \in Held
      OBVIOUS
    <3>4. b = <<batch, i>>[1][<<batch, i>>[2]]
      BY <3>2
    <3> HIDE DEF Held
    <3>5. QED
      BY <3>3, <3>4
  <2>3. QED
    BY <2>1, <2>2
<1>2. Cardinality(InArray) = scan_result_count
  <2> DEFINE f == [s \in Filled |-> scan_results[s]]
  <2>1. IsFiniteSet(Filled) /\ Cardinality(Filled) = scan_result_count
    <3>1. scan_result_count \in Nat
      BY CapturedSeq
    <3>2. QED
      BY <3>1, FS_Interval DEF Filled
  <2>2. /\ f \in [Filled -> InArray]
        /\ \A s, t \in Filled : f[s] = f[t] => s = t
        /\ \A b \in InArray : \E s \in Filled : f[s] = b
    BY DEF InArray, CaptureInv, ArrayDistinct
  <2> HIDE DEF f
  <2>3. QED
    BY <2>1, <2>2, SameNumber
<1>3. Cardinality(Given) = Cardinality(Held) /\ (Held = {} <=> fetched \subseteq {<<>>})
  <2>1. CASE fetched = {}
    <3>1. Held = {} /\ Given = {}
      BY <2>1
    <3>2. QED
      BY <2>1, <3>1
  <2>2. CASE fetched # {}
    <3>1. PICK batch \in fetched : TRUE
      BY <2>2
    <3>2. fetched = {batch} /\ batch \in Seq(Blocks)
      BY DEF CaptureInv, OneBatch, CaptureTypeOK
    <3>3. /\ DOMAIN batch = 1 .. Len(batch) /\ Len(batch) \in Nat
          /\ (batch = <<>> <=> Len(batch) = 0)
      BY <3>2
    <3>4. Held = {<<batch, i>> : i \in DOMAIN batch}
      <4>1. \A h : h \in Held <=> \E a \in fetched : h \in {<<a, i>> : i \in DOMAIN a}
        BY Zenon
      <4>2. \A h : h \in Held <=> h \in {<<batch, i>> : i \in DOMAIN batch}
        BY <3>2, <4>1, Zenon
      <4> HIDE DEF Held
      <4>3. QED
        BY <4>2
    <3>5. Given = {batch[i] : i \in DOMAIN batch}
      <4>1. InBatch = {batch[i] : i \in DOMAIN batch}
        BY <3>2 DEF InBatch
      <4> HIDE DEF Given
      <4>2. QED
        BY <1>1, <4>1
    <3>6. IsFiniteSet(DOMAIN batch)
      BY <3>3, FS_Interval
    <3>7. Cardinality(Held) = Cardinality(DOMAIN batch)
      <4> DEFINE f == [i \in DOMAIN batch |-> <<batch, i>>]
      <4>1. /\ f \in [DOMAIN batch -> Held]
            /\ \A i, j \in DOMAIN batch : f[i] = f[j] => i = j
            /\ \A h \in Held : \E i \in DOMAIN batch : f[i] = h
        BY <3>4
      <4> HIDE DEF f, Held
      <4>2. QED
        BY <3>6, <4>1, SameNumber
    <3>8. Cardinality(Given) = Cardinality(DOMAIN batch)
      <4> DEFINE f == [i \in DOMAIN batch |-> batch[i]]
      <4>1. /\ f \in [DOMAIN batch -> Given]
            /\ \A i, j \in DOMAIN batch : f[i] = f[j] => i = j
            /\ \A g \in Given : \E i \in DOMAIN batch : f[i] = g
        BY <3>2, <3>5 DEF CaptureInv, BatchDistinct
      <4> HIDE DEF f, Given
      <4>2. QED
        BY <3>6, <4>1, SameNumber
    <3>9. Held = {} <=> fetched \subseteq {<<>>}
      <4> HIDE DEF Held
      <4>1. Held = {} <=> DOMAIN batch = {}
        BY <3>4
      <4>2. DOMAIN batch = {} <=> Len(batch) = 0
        BY <3>3
      <4>3. QED
        BY <3>2, <3>3, <4>1, <4>2
    <3>10. QED
      BY <3>7, <3>8, <3>9
  <2>3. QED
    BY <2>1, <2>2
<1>4. containers = IF fetched = {} THEN 0 ELSE IF Held = {} THEN 1 ELSE 2
  BY <1>3 DEF CaptureInv, Contained
<1>5. QED
  BY <1>1, <1>2, <1>3, <1>4 DEF CaptureInv, Apart, OwnedOnce, InArray

\* For every capacity and any number of blocks: a block is an element's, or
\* hostap's, or free, and never two of them (driver_ws63.c:27-34, 178, 225-240).
THEOREM BlocksSoundHolds == CaptureSpec => []BlocksSound
<1>1. CaptureInv => BlocksSound
  BY OwnersCounted DEF CaptureInv, BlocksSound
<1>2. QED
  BY <1>1, CaptureInvariance, PTL

--------------------------------------------------------------------------------
\* Each step is one of the batch's, or changes neither capture nor batch.
LEMMA BatchStep == CaptureInv /\ CaptureInv' /\ [CaptureNext]_capture_vars => [Batch!Next]_(Batch!vars)
<1> SUFFICES ASSUME CaptureInv, CaptureInv', [CaptureNext]_capture_vars PROVE [Batch!Next]_(Batch!vars)
  OBVIOUS
<1>1. ASSUME scan_results' = Empty, scan_result_count' = 0
      PROVE  Captured' = <<>>
  BY <1>1, Cleared
<1>2. CASE OpenCapture \/ CloseCapture \/ Ws63Scan \/ BeginScanCapture
  <2>1. Batch!Discard
    BY <1>1, <1>2 DEF OpenCapture, CloseCapture, Ws63Scan, BeginScanCapture,
      ClearScanResults, Batch!Discard
  <2>2. QED
    BY <2>1 DEF Batch!Next
<1>3. CASE Ws63GetScanResults
  <2>1. Batch!HandOver
    BY <1>1, <1>3 DEF Ws63GetScanResults, GivenAway, Batch!HandOver
  <2>2. QED
    BY <2>1 DEF Batch!Next
<1>4. ASSUME NEW b \in Blocks, FeedScanResult(b)
      PROVE  Batch!Add(b)
  <2> DEFINE n == scan_result_count
  <2>1. /\ n \in Nat /\ n < Capacity /\ n' = n + 1 /\ n \in Slots
        /\ scan_results' = [scan_results EXCEPT ![n] = b] /\ last_batch' = last_batch
    BY <1>4, ScanCaptureAssumption DEF CaptureInv, CaptureTypeOK, FeedScanResult, HasRoom, Slots
  <2>2. scan_results'[n] = b /\ \A s \in Slots \ {n} : scan_results'[s] = scan_results[s]
    BY <2>1 DEF CaptureInv, CaptureTypeOK
  <2>3. Captured' = [i \in 1 .. n + 1 |-> scan_results'[i - 1]]
    BY <2>1 DEF Captured
  <2>4. /\ Captured \in Seq(Blocks) /\ Len(Captured) = n
        /\ \A i \in 1 .. n : Captured[i] = scan_results[i - 1] /\ i - 1 \in Slots \ {n}
    <3>1. /\ Captured \in Seq(Blocks) /\ Len(Captured) = n
          /\ \A i \in 1 .. n : Captured[i] = scan_results[i - 1]
      BY CapturedSeq
    <3>2. \A i \in 1 .. n : i - 1 \in Slots \ {n}
      <4> HIDE DEF n
      <4>1. QED
        BY <2>1, ScanCaptureAssumption DEF Slots
    <3>3. QED
      BY <3>1, <3>2
  <2>5. /\ Append(Captured, b) \in [1 .. n + 1 -> Blocks]
        /\ \A i \in 1 .. n : Append(Captured, b)[i] = Captured[i]
        /\ Append(Captured, b)[n + 1] = b
    <3> DEFINE longer == Append(Captured, b)
    <3>1. /\ longer \in Seq(Blocks) /\ Len(longer) = Len(Captured) + 1
          /\ \A i \in 1 .. Len(Captured) : longer[i] = Captured[i]
          /\ longer[Len(Captured) + 1] = b
      <4>1. Captured \in Seq(Blocks) /\ b \in Blocks
        BY <2>4
      <4> HIDE DEF n
      <4>2. QED
        BY <4>1, AppendFacts, Zenon
    <3> HIDE DEF n, longer
    <3>2. longer \in [1 .. Len(longer) -> Blocks]
      BY <3>1
    <3>3. QED
      BY <2>4, <3>1, <3>2 DEF longer
  <2>6. ASSUME NEW i \in 1 .. n + 1
        PROVE  scan_results'[i - 1] = Append(Captured, b)[i]
    <3>1. CASE i = n + 1
      BY <2>1, <2>2, <2>5, <3>1
    <3>2. CASE i # n + 1
      <4>1. i \in 1 .. n
        BY <2>1, <3>2
      <4>2. QED
        BY <2>2, <2>4, <2>5, <4>1
    <3>3. QED
      BY <3>1, <3>2
  <2>7. Captured' = Append(Captured, b)
    <3> HIDE DEF n
    <3>1. QED
      BY <2>3, <2>5, <2>6
  <2>8. QED
    BY <2>1, <2>4, <2>7 DEF Batch!Add
<1>5. CASE ScanResultsFree \/ GetFails \/ UNCHANGED capture_vars
  <2>1. UNCHANGED <<scan_results, scan_result_count, last_batch>>
    BY <1>5 DEF ScanResultsFree, GetFails, capture_vars
  <2>2. QED
    BY <2>1 DEF Batch!vars, Captured
<1>6. QED
  BY <1>2, <1>3, <1>4, <1>5 DEF CaptureNext, Batch!Next

\* For every capacity: hostap is handed what came in since the capture was last
\* emptied, in that order, and each batch once (driver_ws63.c:218-242).
THEOREM BatchRefined == CaptureSpec => ImplementsBatch
<1>1. CaptureInit => Batch!Init
  BY Cleared DEF CaptureInit, Batch!Init, Captured
<1>2. QED
  BY <1>1, BatchStep, CaptureInvariance, PTL DEF CaptureSpec, ImplementsBatch, Batch!Spec

--------------------------------------------------------------------------------
(* The filter of the information elements *)

\* The boundaries up to each position, as a function of the position.
Starts(ies, f, bound) ==
  f = [n \in 0 .. bound |->
         IF n = 0 THEN {0}
         ELSE IF \E m \in f[n - 1] : Whole(ies, m) /\ n = EndOf(ies, m)
              THEN f[n - 1] \cup {n} ELSE f[n - 1]]

LEMMA StartsExist ==
  ASSUME NEW ies, NEW bound \in Nat
  PROVE  \E f : Starts(ies, f, bound)
<1> DEFINE Good == {n \in 0 .. bound : \E f : Starts(ies, f, n)}
<1>1. 0 \in Good
  <2> DEFINE g == [n \in 0 .. 0 |-> {0}]
  <2>1. Starts(ies, g, 0)
    BY DEF Starts
  <2>2. QED
    BY <2>1
<1>2. ASSUME NEW n \in 0 .. bound, n \in Good, n < bound PROVE n + 1 \in Good
  <2>1. PICK f : Starts(ies, f, n)
    BY <1>2
  <2> DEFINE Next0(before, i) ==
               IF \E m \in before : Whole(ies, m) /\ i = EndOf(ies, m)
               THEN before \cup {i} ELSE before
  <2>2. \A i \in 0 .. n : f[i] = IF i = 0 THEN {0} ELSE Next0(f[i - 1], i)
    BY <2>1 DEF Starts
  <2> HIDE DEF Next0
  <2> DEFINE g == [i \in 0 .. n + 1 |-> IF i <= n THEN f[i] ELSE Next0(f[n], n + 1)]
  <2>3. ASSUME NEW i \in 0 .. n + 1
        PROVE  g[i] = IF i = 0 THEN {0} ELSE Next0(g[i - 1], i)
    <3>1. CASE i <= n
      <4>1. i \in 0 .. n /\ (i # 0 => i - 1 \in 0 .. n)
        BY <3>1
      <4>2. QED
        BY <2>2, <3>1, <4>1
    <3>2. CASE i = n + 1
      BY <3>2
    <3>3. QED
      BY <3>1, <3>2
  <2>4. Starts(ies, g, n + 1)
    <3>1. g = [i \in 0 .. n + 1 |-> g[i]]
      OBVIOUS
    <3> HIDE DEF g
    <3>2. g = [i \in 0 .. n + 1 |-> IF i = 0 THEN {0} ELSE Next0(g[i - 1], i)]
      BY <2>3, <3>1
    <3>3. QED
      BY <3>2 DEF Starts, Next0
  <2>5. QED
    BY <1>2, <2>4
<1> HIDE DEF Good
<1>3. bound \in Good
  BY <1>1, <1>2, InductionUpTo
<1>4. QED
  BY <1>3 DEF Good

\* Boundary is the value of such a function at the end of the bytes.
LEMMA BoundaryStarts ==
  ASSUME NEW ies \in Seq(0 .. 255)
  PROVE  \E f : /\ Boundary(ies) = f[Len(ies)]
                /\ f[0] = {0}
                /\ \A n \in 1 .. Len(ies) :
                     f[n] = IF \E m \in f[n - 1] : Whole(ies, m) /\ n = EndOf(ies, m)
                            THEN f[n - 1] \cup {n} ELSE f[n - 1]
<1> DEFINE F == CHOOSE f : Starts(ies, f, Len(ies))
<1>1. Len(ies) \in Nat
  OBVIOUS
<1>2. Starts(ies, F, Len(ies))
  BY <1>1, StartsExist, Zenon
<1>3. Boundary(ies) = F[Len(ies)]
  BY DEF Boundary, Starts
<1> HIDE DEF F
<1>4. \A n \in 0 .. Len(ies) :
        F[n] = IF n = 0 THEN {0}
               ELSE IF \E m \in F[n - 1] : Whole(ies, m) /\ n = EndOf(ies, m)
                    THEN F[n - 1] \cup {n} ELSE F[n - 1]
  <2> DEFINE Next0(before, i) ==
               IF \E m \in before : Whole(ies, m) /\ i = EndOf(ies, m)
               THEN before \cup {i} ELSE before
  <2>1. F = [n \in 0 .. Len(ies) |-> IF n = 0 THEN {0} ELSE Next0(F[n - 1], n)]
    BY <1>2 DEF Starts
  <2> HIDE DEF Next0
  <2>2. \A n \in 0 .. Len(ies) : F[n] = IF n = 0 THEN {0} ELSE Next0(F[n - 1], n)
    BY <2>1
  <2>3. QED
    BY <2>2, Zenon DEF Next0
<1>5. F[0] = {0}
  <2>1. 0 \in 0 .. Len(ies)
    BY <1>1
  <2>2. QED
    BY <1>4, <2>1, Zenon
<1>6. ASSUME NEW n \in 1 .. Len(ies)
      PROVE  F[n] = IF \E m \in F[n - 1] : Whole(ies, m) /\ n = EndOf(ies, m)
                    THEN F[n - 1] \cup {n} ELSE F[n - 1]
  <2>1. n \in 0 .. Len(ies) /\ n # 0
    OBVIOUS
  <2>2. QED
    BY <1>4, <2>1, Zenon
<1>7. QED
  BY <1>3, <1>5, <1>6, Zenon

\* What the elements of a result begin and end with.
LEMMA EndOfFacts ==
  ASSUME NEW ies \in Seq(0 .. 255), NEW m \in 0 .. Len(ies), m + 2 <= Len(ies)
  PROVE  EndOf(ies, m) \in Nat /\ m + 2 <= EndOf(ies, m)
<1>1. Len(ies) \in Nat /\ m \in Nat
  OBVIOUS
<1>2. m + 2 \in 1 .. Len(ies)
  BY <1>1
<1> DEFINE Byte == 0 .. 255
           length == ies[m + 2]
<1>3. length \in Byte
  <2>1. ies \in Seq(Byte)
    OBVIOUS
  <2> HIDE DEF Byte
  <2>2. \A i \in 1 .. Len(ies) : ies[i] \in Byte
    BY <2>1, ElementOfSeq, Zenon
  <2>3. QED
    BY <1>2, <2>2, Zenon
<1>4. EndOf(ies, m) = m + 2 + length
  BY Zenon DEF EndOf
<1> HIDE DEF length
<1>5. QED
  BY <1>1, <1>3, <1>4

\* A boundary is the beginning, or the end of a whole element at another one; and
\* the end of each whole element is one.
LEMMA BoundaryFacts ==
  ASSUME NEW ies \in Seq(0 .. 255)
  PROVE  /\ Boundary(ies) \subseteq 0 .. Len(ies)
         /\ 0 \in Boundary(ies)
         /\ \A m \in Boundary(ies) : Whole(ies, m) => EndOf(ies, m) \in Boundary(ies)
         /\ \A n \in Boundary(ies) :
              n = 0 \/ \E m \in Boundary(ies) : Whole(ies, m) /\ n = EndOf(ies, m)
<1>1. PICK f : /\ Boundary(ies) = f[Len(ies)]
               /\ f[0] = {0}
               /\ \A n \in 1 .. Len(ies) :
                    f[n] = IF \E m \in f[n - 1] : Whole(ies, m) /\ n = EndOf(ies, m)
                           THEN f[n - 1] \cup {n} ELSE f[n - 1]
  BY BoundaryStarts
<1> DEFINE Within(n) == f[n] \subseteq 0 .. n /\ 0 \in f[n]
           From(n) == \A k \in f[n] :
                        k = 0 \/ \E m \in f[n] : Whole(ies, m) /\ k = EndOf(ies, m)
           To(n) == \A m \in f[n] :
                      Whole(ies, m) /\ EndOf(ies, m) <= n => EndOf(ies, m) \in f[n]
           Good == {n \in 0 .. Len(ies) : Within(n) /\ From(n) /\ To(n)}
<1>2. Len(ies) \in Nat /\ 0 \in 0 .. Len(ies) /\ Len(ies) \in 0 .. Len(ies)
  OBVIOUS
<1>3. ASSUME NEW m \in 0 .. Len(ies), Whole(ies, m)
      PROVE  EndOf(ies, m) \in Nat /\ m < EndOf(ies, m) /\ EndOf(ies, m) <= Len(ies)
  BY <1>3, EndOfFacts DEF Whole
<1> HIDE DEF Within, From, To
<1>4. 0 \in Good
  <2>1. Within(0) /\ From(0)
    BY <1>1 DEF Within, From
  <2>2. To(0)
    <3> SUFFICES ASSUME NEW m \in f[0], Whole(ies, m), EndOf(ies, m) <= 0 PROVE FALSE
      BY DEF To
    <3>1. m \in 0 .. Len(ies) /\ m = 0
      BY <1>1, <1>2
    <3>2. QED
      BY <1>3, <3>1
  <2>3. QED
    BY <1>2, <2>1, <2>2, Zenon
<1>5. ASSUME NEW n \in 0 .. Len(ies), n \in Good, n < Len(ies) PROVE n + 1 \in Good
  <2>1. PICK k \in 1 .. Len(ies) : k = n + 1 /\ k - 1 = n /\ n \in Nat
    <3>1. n + 1 \in 1 .. Len(ies) /\ n + 1 - 1 = n /\ n \in Nat
      BY <1>2, <1>5
    <3>2. QED
      BY <3>1
  <2>2. f[k] = IF \E m \in f[n] : Whole(ies, m) /\ k = EndOf(ies, m)
               THEN f[n] \cup {k} ELSE f[n]
    BY <1>1, <2>1, Zenon
  <2>3. Within(n) /\ From(n) /\ To(n)
    BY <1>5, Zenon
  <2>4. f[n] \subseteq 0 .. n /\ 0 \in f[n]
    BY <2>3, Zenon DEF Within
  <2>5. f[n] \subseteq f[k] /\ f[k] \subseteq f[n] \cup {k}
    BY <2>2, Zenon
  <2>6. Within(k)
    <3>1. \A i \in f[k] : i \in 0 .. n \/ i = k
      BY <2>4, <2>5, Zenon
    <3>2. f[k] \subseteq 0 .. k
      BY <2>1, <3>1
    <3>3. QED
      BY <2>4, <2>5, <3>2, Zenon DEF Within
  <2>7. From(k)
    <3> SUFFICES ASSUME NEW i \in f[k], i # 0
                 PROVE  \E m \in f[k] : Whole(ies, m) /\ i = EndOf(ies, m)
      BY Zenon DEF From
    <3>1. CASE i \in f[n]
      BY <2>3, <2>5, <3>1, Zenon DEF From
    <3>2. CASE i \notin f[n]
      <4>1. i = k /\ \E m \in f[n] : Whole(ies, m) /\ k = EndOf(ies, m)
        BY <2>2, <2>5, <3>2, Zenon
      <4>2. QED
        BY <2>5, <4>1, Zenon
    <3>3. QED
      BY <3>1, <3>2, Zenon
  <2>8. To(k)
    <3> SUFFICES ASSUME NEW m \in f[k], Whole(ies, m), EndOf(ies, m) <= k
                 PROVE  EndOf(ies, m) \in f[k]
      BY Zenon DEF To
    <3>1. m \in 0 .. Len(ies)
      <4>1. m \in 0 .. k
        BY <2>6, Zenon DEF Within
      <4>2. QED
        BY <1>2, <2>1, <4>1
    <3>2. EndOf(ies, m) \in Nat /\ m < EndOf(ies, m)
      BY <1>3, <3>1, Zenon
    <3>3. m # k
      BY <2>1, <3>1, <3>2
    <3>4. m \in f[n]
      BY <2>5, <3>3, Zenon
    <3>5. CASE EndOf(ies, m) = k
      <4>1. k \in f[k]
        BY <2>2, <3>4, <3>5, Zenon
      <4>2. QED
        BY <3>5, <4>1, Zenon
    <3>6. CASE EndOf(ies, m) # k
      <4>1. EndOf(ies, m) <= n
        BY <2>1, <3>2, <3>6
      <4>2. QED
        BY <2>3, <2>5, <3>4, <4>1, Zenon DEF To
    <3>7. QED
      BY <3>5, <3>6, Zenon
  <2>9. k \in 0 .. Len(ies)
    BY <1>2
  <2>10. k \in Good
    BY <2>6, <2>7, <2>8, <2>9, Zenon
  <2>11. QED
    BY <2>1, <2>10, Zenon
<1> HIDE DEF Good
<1>6. \A n \in 0 .. Len(ies) : n \in Good
  BY <1>2, <1>4, <1>5, InductionUpTo, Zenon
<1>7. Len(ies) \in Good
  BY <1>2, <1>6, Zenon
<1>8. Within(Len(ies)) /\ From(Len(ies)) /\ To(Len(ies))
  BY <1>7, Zenon DEF Good
<1>9. Boundary(ies) \subseteq 0 .. Len(ies) /\ 0 \in Boundary(ies)
  BY <1>1, <1>8, Zenon DEF Within
<1>10. \A m \in Boundary(ies) : Whole(ies, m) => EndOf(ies, m) \in Boundary(ies)
  BY <1>1, <1>8, ZenonT(60) DEF To, Whole
<1>11. \A n \in Boundary(ies) :
         n = 0 \/ \E m \in Boundary(ies) : Whole(ies, m) /\ n = EndOf(ies, m)
  BY <1>1, <1>8, Zenon DEF From
<1>12. QED
  BY <1>9, <1>10, <1>11, Zenon

\* Up to the boundary n the elements stand one behind the other, none cut off.
AllFit(ies, n) ==
  /\ n \in Boundary(ies)
  /\ \A m \in Boundary(ies) : m < n => Whole(ies, m) /\ EndOf(ies, m) <= n

LEMMA FirstFits ==
  ASSUME NEW ies \in Seq(0 .. 255)
  PROVE  AllFit(ies, 0)
<1>1. 0 \in Boundary(ies) /\ Boundary(ies) \subseteq 0 .. Len(ies)
  BY BoundaryFacts, Zenon
<1>2. \A m \in 0 .. Len(ies) : ~(m < 0)
  OBVIOUS
<1>3. QED
  BY <1>1, <1>2, Zenon DEF AllFit

\* The next boundary is the end of the element that begins here.
LEMMA NoneBetween ==
  ASSUME NEW ies \in Seq(0 .. 255), NEW m, AllFit(ies, m), NEW n \in Boundary(ies)
  PROVE  n <= m \/ (Whole(ies, m) /\ EndOf(ies, m) <= n)
<1> DEFINE Beyond(i) == i <= m \/ (Whole(ies, m) /\ EndOf(ies, m) <= i)
           Bad == {i \in Boundary(ies) : ~Beyond(i)}
<1>1. /\ Boundary(ies) \subseteq 0 .. Len(ies)
      /\ \A k \in Boundary(ies) :
           k = 0 \/ \E i \in Boundary(ies) : Whole(ies, i) /\ k = EndOf(ies, i)
  BY BoundaryFacts, Zenon
<1>2. m \in 0 .. Len(ies) /\ Len(ies) \in Nat
  BY <1>1 DEF AllFit
<1>3. SUFFICES ASSUME Bad # {} PROVE FALSE
  BY Zenon
<1>4. Bad \in SUBSET Nat
  BY <1>1
<1> HIDE DEF Bad
<1>5. PICK k \in Bad : \A i \in Bad : k <= i
  BY <1>3, <1>4, LeastElement, Zenon
<1>6. k \in Boundary(ies) /\ ~Beyond(k)
  BY <1>5, Zenon DEF Bad
<1>7. k \in 0 .. Len(ies) /\ ~(k <= m)
  BY <1>1, <1>6
<1>8. k # 0
  BY <1>2, <1>7
<1>9. PICK i \in Boundary(ies) : Whole(ies, i) /\ k = EndOf(ies, i)
  BY <1>1, <1>6, <1>8, Zenon
<1>10. i \in 0 .. Len(ies) /\ i < k
  <2>1. i \in 0 .. Len(ies)
    BY <1>1, <1>9, Zenon
  <2>2. EndOf(ies, i) \in Nat /\ i + 2 <= EndOf(ies, i)
    BY <1>9, <2>1, EndOfFacts, Zenon DEF Whole
  <2>3. QED
    BY <1>9, <2>1, <2>2
<1>11. i \notin Bad
  BY <1>5, <1>7, <1>10
<1>12. Beyond(i)
  BY <1>9, <1>11, Zenon DEF Bad
<1>13. CASE i < m
  <2>1. EndOf(ies, i) <= m
    BY <1>9, <1>13, Zenon DEF AllFit
  <2>2. QED
    BY <1>7, <1>9, <2>1
<1>14. CASE i = m
  <2>1. Whole(ies, m) /\ EndOf(ies, m) = k /\ k <= k
    BY <1>7, <1>9, <1>14
  <2>2. QED
    BY <1>6, <2>1, Zenon
<1>15. CASE i > m
  <2>1. Whole(ies, m) /\ EndOf(ies, m) <= i
    BY <1>2, <1>10, <1>12, <1>15
  <2>2. EndOf(ies, m) \in Nat
    BY <1>2, <2>1, EndOfFacts, Zenon DEF Whole
  <2>3. EndOf(ies, m) <= k
    BY <1>7, <1>10, <2>1, <2>2
  <2>4. QED
    BY <1>6, <2>1, <2>3, Zenon
<1>16. QED
  BY <1>2, <1>10, <1>13, <1>14, <1>15

LEMMA NextFits ==
  ASSUME NEW ies \in Seq(0 .. 255), NEW m, AllFit(ies, m), Whole(ies, m)
  PROVE  AllFit(ies, EndOf(ies, m))
<1>1. /\ Boundary(ies) \subseteq 0 .. Len(ies) /\ EndOf(ies, m) \in Boundary(ies)
      /\ m \in Boundary(ies)
  BY BoundaryFacts, Zenon DEF AllFit
<1>2. m \in 0 .. Len(ies) /\ Len(ies) \in Nat /\ EndOf(ies, m) \in 0 .. Len(ies)
  BY <1>1
<1>3. m + 2 <= EndOf(ies, m)
  BY <1>2, EndOfFacts, Zenon DEF Whole
<1>4. ASSUME NEW k \in Boundary(ies), k < EndOf(ies, m)
      PROVE  Whole(ies, k) /\ EndOf(ies, k) <= EndOf(ies, m)
  <2>1. k \in 0 .. Len(ies)
    BY <1>1
  <2>2. k <= m \/ EndOf(ies, m) <= k
    BY NoneBetween, Zenon
  <2>3. k < m \/ k = m
    BY <1>2, <1>4, <2>1, <2>2
  <2>4. CASE k = m
    BY <1>2, <2>4
  <2>5. CASE k < m
    <3>1. Whole(ies, k) /\ EndOf(ies, k) <= m
      BY <2>5, Zenon DEF AllFit
    <3>2. EndOf(ies, k) \in Nat
      BY <2>1, <3>1, EndOfFacts, Zenon DEF Whole
    <3>3. QED
      BY <1>2, <1>3, <3>1, <3>2
  <2>6. QED
    BY <2>3, <2>4, <2>5, Zenon
<1>5. QED
  BY <1>1, <1>4, Zenon DEF AllFit

\* Bytes with an element that is cut off do not end at a boundary.
LEMMA CutOff ==
  ASSUME NEW ies \in Seq(0 .. 255), NEW m, AllFit(ies, m), m < Len(ies), ~Whole(ies, m)
  PROVE  ~WellFormed(ies)
<1>1. m \in 0 .. Len(ies) /\ Len(ies) \in Nat
  BY BoundaryFacts DEF AllFit
<1>2. ~(Len(ies) <= m)
  BY <1>1
<1>3. QED
  BY <1>2, NoneBetween, Zenon DEF WellFormed

\* The wanted bytes before the boundary n.
Taken(ies, n) == Picked(ies, WantedPlaces(ies) \cap (1 .. n))

LEMMA TakenBounds ==
  ASSUME NEW ies \in Seq(0 .. 255), NEW n
  PROVE  /\ Taken(ies, n) \in Seq(0 .. 255)
         /\ Len(Taken(ies, n)) <= Len(Wanted(ies))
         /\ Len(Taken(ies, n)) <= Len(ies)
<1>1. WantedPlaces(ies) \cap (1 .. n) \subseteq WantedPlaces(ies)
  BY Zenon
<1>2. QED
  BY <1>1, PickedFewer, Zenon DEF Taken, Wanted

LEMMA TakenNothing ==
  ASSUME NEW ies \in Seq(0 .. 255)
  PROVE  Taken(ies, 0) = <<>>
<1>1. WantedPlaces(ies) \cap (1 .. 0) = {}
  OBVIOUS
<1>2. QED
  BY <1>1, PickedNothing DEF Taken

LEMMA TakenAll ==
  ASSUME NEW ies \in Seq(0 .. 255)
  PROVE  Taken(ies, Len(ies)) = Wanted(ies)
<1>1. Boundary(ies) \subseteq 0 .. Len(ies) /\ Len(ies) \in Nat
  BY BoundaryFacts
<1>2. ASSUME NEW n \in WantedPlaces(ies) PROVE n \in 1 .. Len(ies)
  <2>1. PICK m \in Boundary(ies) : Whole(ies, m) /\ n \in m + 1 .. EndOf(ies, m)
    BY Zenon DEF WantedPlaces
  <2>2. m \in 0 .. Len(ies)
    BY <1>1, <2>1, Zenon
  <2>3. EndOf(ies, m) \in Nat
    BY <2>1, <2>2, EndOfFacts, Zenon DEF Whole
  <2>4. EndOf(ies, m) <= Len(ies)
    BY <2>1, Zenon DEF Whole
  <2>5. QED
    BY <1>1, <2>1, <2>2, <2>3, <2>4
<1>3. WantedPlaces(ies) \cap (1 .. Len(ies)) = WantedPlaces(ies)
  BY <1>2, Zenon
<1>4. QED
  BY <1>3, Zenon DEF Taken, Wanted

\* One element more adds its bytes when it is kept, and nothing when it is not.
LEMMA TakenNext ==
  ASSUME NEW ies \in Seq(0 .. 255), NEW m, AllFit(ies, m), Whole(ies, m)
  PROVE  LET element == SubSeq(ies, m + 1, EndOf(ies, m))
         IN /\ Len(element) = EndOf(ies, m) - m
            /\ Taken(ies, EndOf(ies, m)) =
                 IF KeepScanIe(ies, m) THEN Taken(ies, m) \o element
                 ELSE Taken(ies, m)
<1> DEFINE end == EndOf(ies, m)
           k == end - m
           old == WantedPlaces(ies) \cap (1 .. m)
           new == WantedPlaces(ies) \cap (1 .. end)
<1>1. m \in Boundary(ies) /\ Boundary(ies) \subseteq 0 .. Len(ies) /\ end \in Boundary(ies)
  BY BoundaryFacts, Zenon DEF AllFit
<1>2. /\ m \in 0 .. Len(ies) /\ Len(ies) \in Nat /\ end \in 0 .. Len(ies)
  BY <1>1
<1>3. m + 2 <= end
  BY <1>2, EndOfFacts, Zenon DEF Whole
<1> HIDE DEF end
<1>4. k \in 0 .. Len(ies) - m /\ m + k = end
  BY <1>2, <1>3
<1>5. old \in SUBSET (1 .. m)
  BY Zenon
<1> HIDE DEF k, old, new
<1>6. /\ Picked(ies, old \cup (m + 1 .. m + k)) = Picked(ies, old) \o SubSeq(ies, m + 1, m + k)
      /\ Len(SubSeq(ies, m + 1, m + k)) = k
  BY <1>2, <1>4, <1>5, PickedRun, Zenon
<1>7. ASSUME NEW n \in new, n \notin old
      PROVE  KeepScanIe(ies, m) /\ n \in m + 1 .. end
  <2>1. n \in WantedPlaces(ies) /\ n \in 1 .. end /\ n \notin 1 .. m
    BY <1>7, Zenon DEF new, old
  <2>2. PICK i \in Boundary(ies) : /\ Whole(ies, i) /\ KeepScanIe(ies, i)
                                   /\ n \in i + 1 .. EndOf(ies, i)
    BY <2>1, Zenon DEF WantedPlaces
  <2>3. i \in 0 .. Len(ies)
    BY <1>1, <2>2, Zenon
  <2>4. EndOf(ies, i) \in Nat
    BY <2>2, <2>3, EndOfFacts, Zenon DEF Whole
  <2>5. n \in m + 1 .. end /\ i < n /\ n <= EndOf(ies, i)
    BY <1>2, <2>1, <2>2, <2>3, <2>4
  <2>6. i <= m \/ end <= i
    BY NoneBetween, Zenon DEF end
  <2>7. i < m => EndOf(ies, i) <= m
    BY Zenon DEF AllFit
  <2>8. i = m
    BY <1>2, <2>3, <2>4, <2>5, <2>6, <2>7
  <2>9. QED
    BY <2>2, <2>5, <2>8, Zenon
<1>8. old \subseteq new
  <2>1. \A n \in 1 .. m : n \in 1 .. end
    BY <1>2, <1>3
  <2>2. QED
    BY <2>1, Zenon DEF old, new
<1>9. CASE KeepScanIe(ies, m)
  <2>1. m + 1 .. end \subseteq WantedPlaces(ies)
    BY <1>1, <1>9, Zenon DEF WantedPlaces, end
  <2>2. \A n \in m + 1 .. end : n \in 1 .. end
    BY <1>2
  <2>3. new = old \cup (m + 1 .. end)
    BY <1>7, <1>8, <2>1, <2>2, Zenon DEF new
  <2>4. QED
    BY <1>4, <1>6, <1>9, <2>3, Zenon DEF Taken, old, new, end, k
<1>10. CASE ~KeepScanIe(ies, m)
  <2>1. new = old
    BY <1>7, <1>8, <1>10, Zenon
  <2>2. QED
    BY <1>4, <1>6, <1>10, <2>1, Zenon DEF Taken, old, new, end, k
<1>11. QED
  BY <1>9, <1>10, Zenon

\* What the loops check before they go on is that the element is whole.
LEMMA FitsIsWhole ==
  ASSUME NEW ies \in Seq(0 .. 255), NEW at \in 0 .. Len(ies)
  PROVE  /\ Fits(ies, at) <=> Whole(ies, at)
         /\ Whole(ies, at) => /\ at + ElementLen(ies, at) = EndOf(ies, at)
                              /\ ElementLen(ies, at) \in Nat
<1>1. Len(ies) \in Nat /\ at \in Nat
  OBVIOUS
<1>2. CASE at + 2 <= Len(ies)
  <2> DEFINE length == ies[at + 2]
  <2>1. EndOf(ies, at) = at + 2 + length /\ ElementLen(ies, at) = length + 2
    BY Zenon DEF EndOf, ElementLen
  <2>2. length \in Nat
    <3>1. at + 2 \in 1 .. Len(ies)
      BY <1>1, <1>2
    <3>2. length \in 0 .. 255
      BY <3>1, ElementOfSeq, Zenon
    <3> HIDE DEF length
    <3>3. QED
      BY <3>2
  <2> HIDE DEF length
  <2>3. QED
    BY <1>1, <1>2, <2>1, <2>2 DEF Fits, Whole
<1>3. CASE ~(at + 2 <= Len(ies))
  BY <1>1, <1>3 DEF Fits, Whole
<1>4. QED
  BY <1>2, <1>3, Zenon

\* What the loop that measures has found out about a part: it is malformed, or its
\* elements stand one behind the other up to the end, and the wanted ones are
\* counted.
Measured(p) ==
  IF p \in malformed THEN ~WellFormed(input[p])
  ELSE AllFit(input[p], Len(input[p])) /\ kept[p] = Len(Wanted(input[p]))

Measuring ==
  /\ AllFit(input[part], offset)
  /\ kept[part] = Len(Taken(input[part], offset))
  /\ part \notin malformed
  /\ part = 1 => kept[2] = 0 /\ 2 \notin malformed
  /\ part = 2 => Measured(1)
  /\ \A p \in Parts : stored[p] = <<>>

Copying ==
  /\ AllFit(input[part], offset)
  /\ stored[part] = Taken(input[part], offset)
  /\ part = 1 => stored[2] = <<>>
  /\ part = 2 => stored[1] = Wanted(input[1])

FilterInv ==
  /\ FilterTypeOK
  /\ \A p \in Parts : kept[p] <= Len(input[p])
  /\ pc = "measure" => Measuring
  /\ pc # "measure" => \A p \in Parts : Measured(p)
  /\ pc = "allocate" => part = 1 /\ offset = 0 /\ \A p \in Parts : stored[p] = <<>>
  /\ pc \in {"copy", "ok", "allocation"} => malformed = {}
  /\ pc = "invalid" => malformed # {}
  /\ pc = "copy" => Copying
  /\ pc = "ok" => \A p \in Parts : stored[p] = Wanted(input[p])

LEMMA InputBytes ==
  ASSUME FilterTypeOK
  PROVE  /\ \A p \in Parts : input[p] \in Seq(0 .. 255) /\ Len(input[p]) \in Nat
         /\ part \in Parts /\ input[part] \in Seq(0 .. 255)
         /\ offset \in 0 .. Len(input[part]) /\ Len(input[part]) \in Nat
<1>1. input \in [Parts -> Seq(0 .. 255)]
  BY ScanIesAssumption, Zenon DEF FilterTypeOK
<1>2. \A p \in Parts : input[p] \in Seq(0 .. 255)
  BY <1>1, Zenon
<1>3. ASSUME NEW p \in Parts PROVE Len(input[p]) \in Nat
  <2>1. input[p] \in Seq(0 .. 255)
    BY <1>2, Zenon
  <2>2. QED
    BY <2>1, LenProperties, Zenon
<1>4. part \in Parts /\ offset \in 0 .. Len(input[part])
  BY Zenon DEF FilterTypeOK
<1>5. QED
  BY <1>2, <1>3, <1>4, Zenon

LEMMA TakenFirst ==
  ASSUME NEW ies \in Seq(0 .. 255)
  PROVE  AllFit(ies, 0) /\ Taken(ies, 0) = <<>> /\ Len(Taken(ies, 0)) = 0
<1>1. Taken(ies, 0) = <<>>
  BY TakenNothing, Zenon
<1>2. Len(Taken(ies, 0)) = 0
  BY <1>1
<1>3. QED
  BY <1>1, <1>2, FirstFits, Zenon

LEMMA FilterStart == FilterInit => FilterInv
<1> SUFFICES ASSUME FilterInit PROVE FilterInv
  OBVIOUS
<1>1. /\ input \in Inputs /\ pc = "measure" /\ part = 1 /\ offset = 0 /\ malformed = {}
      /\ kept = [p \in Parts |-> 0] /\ stored = [p \in Parts |-> <<>>]
  BY Zenon DEF FilterInit
<1>2. input \in [Parts -> Seq(0 .. 255)]
  BY <1>1, ScanIesAssumption, Zenon
<1>3. 1 \in Parts /\ 2 \in Parts
  BY DEF Parts
<1>4. /\ \A p \in Parts : kept[p] = 0 /\ stored[p] = <<>>
      /\ <<>> \in Seq(0 .. 255)
  <2>1. \A p \in Parts : kept[p] = 0 /\ stored[p] = <<>>
    BY <1>1, Zenon
  <2>2. <<>> \in Seq(0 .. 255)
    OBVIOUS
  <2>3. QED
    BY <2>1, <2>2, Zenon
<1>5. \A p \in Parts : input[p] \in Seq(0 .. 255)
  BY <1>2, Zenon
<1>6. \A p \in Parts : Len(input[p]) \in Nat
  BY <1>5, LenProperties, Zenon
<1>7. FilterTypeOK
  <2>1. 0 \in 0 .. Len(input[part]) /\ 0 \in 0 .. Len(input[1]) + Len(input[2])
    <3> DEFINE one == Len(input[1])
               two == Len(input[2])
               here == Len(input[part])
    <3>1. one \in Nat /\ two \in Nat /\ here \in Nat
      BY <1>1, <1>3, <1>6, Zenon
    <3> HIDE DEF one, two, here
    <3>2. 0 \in 0 .. here /\ 0 \in 0 .. one + two
      BY <3>1
    <3>3. QED
      BY <3>2, Zenon DEF one, two, here
  <2>2. kept \in [Parts -> 0 .. Len(input[1]) + Len(input[2])]
    BY <1>1, <2>1, Zenon
  <2>3. stored \in [Parts -> Seq(0 .. 255)]
    BY <1>1, <1>4, Zenon
  <2>4. QED
    BY <1>1, <1>3, <2>1, <2>2, <2>3, Zenon DEF FilterTypeOK
<1>8. \A p \in Parts : kept[p] <= Len(input[p])
  BY <1>4, <1>6
<1>9. Measuring
  <2>1. AllFit(input[part], 0) /\ Len(Taken(input[part], 0)) = 0
    BY <1>1, <1>3, <1>5, TakenFirst, Zenon
  <2>2. part \notin malformed /\ 2 \notin malformed /\ part # 2
    BY <1>1
  <2>3. QED
    BY <1>1, <1>3, <1>4, <2>1, <2>2, Zenon DEF Measuring
<1>10. QED
  BY <1>1, <1>7, <1>8, <1>9, Zenon DEF FilterInv

\* One element more is measured.
LEMMA MeasureElementKeeps == FilterInv /\ MeasureElement => FilterInv'
<1> SUFFICES ASSUME FilterInv, MeasureElement PROVE FilterInv'
  OBVIOUS
<1> DEFINE ies == input[part]
           end == EndOf(ies, offset)
           keep == KeepScanIe(ies, offset)
           taken == Taken(ies, offset)
           next == Taken(ies, end)
<1>1. FilterTypeOK /\ pc = "measure" /\ Measuring /\ (\A p \in Parts : kept[p] <= Len(input[p]))
  BY Zenon DEF FilterInv, MeasureElement, AtElement
<1>2. /\ \A p \in Parts : input[p] \in Seq(0 .. 255) /\ Len(input[p]) \in Nat
      /\ part \in Parts /\ ies \in Seq(0 .. 255)
      /\ offset \in 0 .. Len(ies) /\ Len(ies) \in Nat
  BY <1>1, InputBytes, Zenon
<1>3. /\ Fits(ies, offset) /\ offset' = offset + ElementLen(ies, offset)
      /\ kept' = IF keep THEN [kept EXCEPT ![part] = @ + ElementLen(ies, offset)] ELSE kept
      /\ input' = input /\ pc' = pc /\ part' = part /\ malformed' = malformed
      /\ stored' = stored
  BY Zenon DEF MeasureElement
<1>4. Whole(ies, offset) /\ offset' = end
  BY <1>2, <1>3, FitsIsWhole, Zenon
<1>5. AllFit(ies, offset) /\ kept[part] = Len(taken) /\ AllFit(ies, end)
  <2>1. AllFit(ies, offset) /\ kept[part] = Len(taken)
    BY <1>1, Zenon DEF Measuring
  <2>2. QED
    BY <1>2, <1>4, <2>1, NextFits, Zenon
<1>6. end \in 0 .. Len(ies) /\ offset + ElementLen(ies, offset) = end
  <2>1. end \in Boundary(ies) /\ Boundary(ies) \subseteq 0 .. Len(ies)
    BY <1>2, <1>5, BoundaryFacts, Zenon DEF AllFit
  <2>2. QED
    BY <1>2, <1>4, <2>1, FitsIsWhole, Zenon
<1>7. /\ taken \in Seq(0 .. 255) /\ next \in Seq(0 .. 255)
      /\ Len(next) <= Len(ies)
  BY <1>2, TakenBounds, Zenon
<1>8. Len(next) = IF keep THEN kept[part] + ElementLen(ies, offset) ELSE kept[part]
  <2> DEFINE element == SubSeq(ies, offset + 1, end)
             len == ElementLen(ies, offset)
  <2>1. Len(element) = end - offset /\ next = IF keep THEN taken \o element ELSE taken
    BY <1>2, <1>4, <1>5, TakenNext, Zenon
  <2>2. element \in Seq(0 .. 255)
    <3>1. \A i \in offset + 1 .. end : i \in 1 .. Len(ies)
      BY <1>2, <1>6
    <3>2. \A i \in offset + 1 .. end : ies[i] \in 0 .. 255
      BY <1>2, <3>1, ElementOfSeq, Zenon
    <3>3. offset + 1 \in Int /\ end \in Int
      BY <1>2, <1>6
    <3> HIDE DEF ies, end
    <3>4. QED
      BY <3>2, <3>3
  <2> HIDE DEF element, end, next, taken, keep, len
  <2>3. CASE keep
    <3>1. Len(next) = Len(taken) + Len(element)
      <4>1. taken \in Seq(0 .. 255) /\ element \in Seq(0 .. 255)
        BY <1>7, <2>2, Zenon
      <4>2. Len(taken \o element) = Len(taken) + Len(element)
        BY <4>1
      <4>3. QED
        BY <2>1, <2>3, <4>2, Zenon
    <3>2. end - offset = len
      <4>1. len \in Nat /\ offset + len = end
        BY <1>2, <1>4, <1>6, FitsIsWhole, Zenon DEF len
      <4>2. QED
        BY <1>2, <4>1
    <3>3. QED
      BY <1>5, <2>1, <2>3, <3>1, <3>2, Zenon DEF len
  <2>4. CASE ~keep
    BY <1>5, <2>1, <2>4, Zenon
  <2>5. QED
    BY <2>3, <2>4, Zenon
<1> HIDE DEF keep, taken, next, end
<1>9. /\ kept \in [Parts -> 0 .. Len(input[1]) + Len(input[2])]
      /\ kept'[part] = Len(next)
      /\ \A p \in Parts : p # part => kept'[p] = kept[p]
  <2>1. kept \in [Parts -> 0 .. Len(input[1]) + Len(input[2])]
    BY <1>1, Zenon DEF FilterTypeOK
  <2>2. kept'[part] = IF keep THEN kept[part] + ElementLen(ies, offset) ELSE kept[part]
    BY <1>2, <1>3, <2>1, Zenon
  <2>3. \A p \in Parts : p # part => kept'[p] = kept[p]
    BY <1>3, <2>1, Zenon
  <2>4. QED
    BY <1>8, <2>1, <2>2, <2>3, Zenon
<1>10. \A p \in Parts : kept'[p] <= Len(input[p])
  BY <1>1, <1>7, <1>9, Zenon
<1>11. FilterTypeOK'
  <2>1. \A p \in Parts : kept'[p] \in 0 .. Len(input[1]) + Len(input[2])
    <3> TAKE p \in Parts
    <3>1. kept'[p] \in Nat
      <4>1. CASE p = part
        <5>1. Len(next) \in Nat
          BY <1>7, LenProperties, Zenon
        <5>2. QED
          BY <1>9, <4>1, <5>1, Zenon
      <4>2. CASE p # part
        <5>1. kept[p] \in 0 .. Len(input[1]) + Len(input[2]) /\ kept'[p] = kept[p]
          BY <1>9, <4>2, Zenon
        <5>2. QED
          BY <5>1
      <4>3. QED
        BY <4>1, <4>2, Zenon
    <3>2. PICK q \in Parts : p = q /\ kept'[p] <= Len(input[q])
      BY <1>10, Zenon
    <3>3. Len(input[1]) \in Nat /\ Len(input[2]) \in Nat /\ (p = 1 \/ p = 2)
      BY <1>2 DEF Parts
    <3> DEFINE one == Len(input[1])
               two == Len(input[2])
               x == kept'[p]
    <3>4. x \in Nat /\ one \in Nat /\ two \in Nat /\ (x <= one \/ x <= two)
      BY <3>1, <3>2, <3>3, Zenon
    <3> HIDE DEF one, two, x
    <3>5. x \in 0 .. one + two
      BY <3>4
    <3>6. QED
      BY <3>5, Zenon DEF one, two, x
  <2>2. kept' \in [Parts -> 0 .. Len(input[1]) + Len(input[2])]
    <3>1. kept' = [p \in Parts |-> kept'[p]]
      BY <1>3, <1>9, Zenon
    <3>2. QED
      BY <2>1, <3>1, Zenon
  <2>3. QED
    BY <1>1, <1>3, <1>4, <1>6, <2>2, Zenon DEF FilterTypeOK
<1>12. Measuring'
  <2>1. AllFit(ies, end)
    BY <1>5, Zenon
  <2>2. input'[part'] = ies /\ kept'[part'] = Len(Taken(ies, offset'))
    BY <1>3, <1>4, <1>9, Zenon DEF next
  <2>3. part = 1 => kept'[2] = 0 /\ 2 \notin malformed
    <3>1. part = 1 => 2 # part /\ 2 \in Parts
      BY DEF Parts
    <3>2. QED
      BY <1>1, <1>9, <3>1, Zenon DEF Measuring
  <2>4. part = 2 => Measured(1)'
    <3>1. part = 2 => 1 # part /\ 1 \in Parts
      BY DEF Parts
    <3>2. QED
      BY <1>1, <1>3, <1>9, <3>1, Zenon DEF Measuring, Measured
  <2>5. part \notin malformed /\ \A p \in Parts : stored[p] = <<>>
    BY <1>1, Zenon DEF Measuring
  <2>6. QED
    BY <1>3, <1>4, <2>1, <2>2, <2>3, <2>4, <2>5, Zenon DEF Measuring
<1>13. pc' = "measure"
  BY <1>1, <1>3, Zenon
<1>14. QED
  BY <1>3, <1>10, <1>11, <1>12, <1>13, Zenon DEF FilterInv

\* The loop that measures goes on to the other part, or the next step.
LEMMA MeasureLeaves ==
  ASSUME FilterInv, pc = "measure", PartEnds("allocate"),
         UNCHANGED <<input, kept, stored>>, malformed' \subseteq Parts,
         NEW q \in Parts, q = part, Measured(q)',
         \A p \in Parts : p # q => (p \in malformed' <=> p \in malformed)
  PROVE  FilterInv'
<1>1. FilterTypeOK /\ Measuring /\ (\A p \in Parts : kept[p] <= Len(input[p]))
  BY Zenon DEF FilterInv
<1>2. \A p \in Parts : input[p] \in Seq(0 .. 255) /\ Len(input[p]) \in Nat
  BY <1>1, InputBytes, Zenon
<1>3. input' = input /\ kept' = kept /\ stored' = stored /\ offset' = 0
  BY Zenon DEF PartEnds
<1>4. \A p \in Parts : stored[p] = <<>>
  BY <1>1, Zenon DEF Measuring
<1>5. 1 \in Parts /\ 2 \in Parts /\ 1 # 2 /\ \A p \in Parts : p = 1 \/ p = 2
  BY DEF Parts
<1>6. 0 \in 0 .. Len(input[1]) /\ 0 \in 0 .. Len(input[2])
  <2> DEFINE one == Len(input[1])
             two == Len(input[2])
  <2>1. one \in Nat /\ two \in Nat
    BY <1>2, <1>5, Zenon
  <2> HIDE DEF one, two
  <2>2. 0 \in 0 .. one /\ 0 \in 0 .. two
    BY <2>1
  <2>3. QED
    BY <2>2, Zenon DEF one, two
<1>7. CASE part = 1
  <2>1. part' = 2 /\ pc' = "measure"
    BY <1>7, Zenon DEF PartEnds
  <2>2. kept[2] = 0 /\ 2 \notin malformed'
    BY <1>1, <1>5, <1>7, Zenon DEF Measuring
  <2>3. AllFit(input[2], 0) /\ Len(Taken(input[2], 0)) = 0
    BY <1>2, <1>5, TakenFirst, Zenon
  <2>4. Measured(1)'
    <3>1. q = 1
      BY <1>7, Zenon
    <3>2. QED
      BY <3>1, Zenon
  <2>5. part' # 1
    BY <2>1
  <2>6. Measuring'
    BY <1>3, <1>4, <2>1, <2>2, <2>3, <2>4, <2>5, Zenon DEF Measuring
  <2>7. FilterTypeOK'
    BY <1>1, <1>3, <1>5, <1>6, <2>1, Zenon DEF FilterTypeOK
  <2>8. QED
    BY <1>1, <1>3, <2>1, <2>6, <2>7, Zenon DEF FilterInv
<1>8. CASE part = 2
  <2>1. part' = 1 /\ pc' = "allocate"
    BY <1>5, <1>8, Zenon DEF PartEnds
  <2>2. Measured(1) /\ (1 \in malformed' <=> 1 \in malformed)
    BY <1>1, <1>5, <1>8, Zenon DEF Measuring
  <2>3. Measured(1)'
    BY <1>3, <2>2, Zenon DEF Measured
  <2>4. Measured(2)'
    <3>1. q = 2
      BY <1>8, Zenon
    <3>2. QED
      BY <3>1, Zenon
  <2>5. \A p \in Parts : Measured(p)'
    BY <1>5, <2>3, <2>4, Zenon
  <2>6. FilterTypeOK'
    BY <1>1, <1>3, <1>5, <1>6, <2>1, Zenon DEF FilterTypeOK
  <2>7. QED
    BY <1>1, <1>3, <1>4, <2>1, <2>5, <2>6, Zenon DEF FilterInv
<1>9. QED
  BY <1>1, <1>5, <1>7, <1>8, Zenon DEF FilterTypeOK

LEMMA MeasureFailsKeeps == FilterInv /\ MeasureFails => FilterInv'
<1> SUFFICES ASSUME FilterInv, MeasureFails PROVE FilterInv'
  OBVIOUS
<1>1. FilterTypeOK /\ pc = "measure" /\ Measuring
  BY Zenon DEF FilterInv, MeasureFails, AtElement
<1>2. /\ part \in Parts /\ input[part] \in Seq(0 .. 255)
      /\ offset \in 0 .. Len(input[part])
  BY <1>1, InputBytes, Zenon
<1>3. offset < Len(input[part]) /\ ~Whole(input[part], offset)
  BY <1>2, FitsIsWhole, Zenon DEF MeasureFails, AtElement
<1>4. ~WellFormed(input[part])
  BY <1>1, <1>2, <1>3, CutOff, Zenon DEF Measuring
<1>5. /\ input' = input /\ kept' = kept /\ stored' = stored
      /\ malformed' = malformed \cup {part} /\ PartEnds("allocate")
  BY Zenon DEF MeasureFails
<1>6. malformed' \subseteq Parts /\ part \in malformed'
  BY <1>1, <1>2, <1>5, Zenon DEF FilterTypeOK
<1>7. PICK q \in Parts : q = part
  BY <1>2, Zenon
<1>8. \A p \in Parts : p # q => (p \in malformed' <=> p \in malformed)
  BY <1>5, <1>7, Zenon
<1>9. Measured(q)'
  BY <1>4, <1>5, <1>6, <1>7, Zenon DEF Measured
<1>10. QED
  BY <1>1, <1>5, <1>6, <1>7, <1>8, <1>9, MeasureLeaves, Zenon

LEMMA MeasureEndsKeeps == FilterInv /\ MeasureEnds => FilterInv'
<1> SUFFICES ASSUME FilterInv, MeasureEnds PROVE FilterInv'
  OBVIOUS
<1>1. FilterTypeOK /\ pc = "measure" /\ Measuring
  BY Zenon DEF FilterInv, MeasureEnds
<1>2. /\ part \in Parts /\ input[part] \in Seq(0 .. 255) /\ Len(input[part]) \in Nat
      /\ offset \in 0 .. Len(input[part])
  BY <1>1, InputBytes, Zenon
<1>3. offset = Len(input[part])
  <2>1. offset >= Len(input[part])
    BY Zenon DEF MeasureEnds
  <2>2. QED
    BY <1>2, <2>1
<1>4. /\ input' = input /\ kept' = kept /\ stored' = stored
      /\ malformed' = malformed /\ PartEnds("allocate")
  BY Zenon DEF MeasureEnds
<1>5. PICK q \in Parts : q = part
  BY <1>2, Zenon
<1>6. Measured(q)'
  <2>1. /\ AllFit(input[part], Len(input[part])) /\ part \notin malformed
        /\ kept[part] = Len(Taken(input[part], Len(input[part])))
    BY <1>1, <1>3, Zenon DEF Measuring
  <2>2. kept[part] = Len(Wanted(input[part]))
    BY <1>2, <2>1, TakenAll, Zenon
  <2>3. QED
    BY <1>4, <1>5, <2>1, <2>2, Zenon DEF Measured
<1>7. malformed' \subseteq Parts /\ \A p \in Parts : p # q => (p \in malformed' <=> p \in malformed)
  BY <1>1, <1>4, Zenon DEF FilterTypeOK
<1>8. QED
  BY <1>1, <1>4, <1>5, <1>6, <1>7, MeasureLeaves, Zenon

LEMMA AllocateKeeps == FilterInv /\ Allocate => FilterInv'
<1> SUFFICES ASSUME FilterInv, Allocate PROVE FilterInv'
  OBVIOUS
<1>1. /\ FilterTypeOK /\ (\A p \in Parts : kept[p] <= Len(input[p]))
      /\ pc = "allocate" /\ part = 1 /\ offset = 0 /\ \A p \in Parts : stored[p] = <<>>
  BY Zenon DEF FilterInv, Allocate
<1>2. \A p \in Parts : Measured(p)
  <2>1. pc # "measure"
    BY <1>1
  <2>2. QED
    BY <2>1, Zenon DEF FilterInv
<1>3. /\ input' = input /\ part' = part /\ offset' = offset /\ kept' = kept
      /\ malformed' = malformed /\ stored' = stored
  BY Zenon DEF Allocate
<1>4. \/ malformed # {} /\ pc' = "invalid"
      \/ malformed = {} /\ (pc' = "copy" \/ pc' = "allocation")
  BY DEF Allocate
<1>5. FilterTypeOK'
  BY <1>1, <1>3, <1>4, Zenon DEF FilterTypeOK
<1>6. \A p \in Parts : Measured(p)'
  BY <1>2, <1>3, Zenon DEF Measured
<1>7. Copying'
  <2>1. 1 \in Parts /\ 2 \in Parts /\ 1 # 2
    BY DEF Parts
  <2>2. AllFit(input[1], 0) /\ Taken(input[1], 0) = <<>>
    BY <1>1, <2>1, InputBytes, TakenFirst, Zenon
  <2>3. QED
    BY <1>1, <1>3, <2>1, <2>2, Zenon DEF Copying
<1>8. /\ pc' # "measure" /\ pc' # "allocate" /\ pc' # "ok"
      /\ pc' \in {"copy", "ok", "allocation"} => malformed = {}
      /\ pc' = "invalid" => malformed # {}
  BY <1>4
<1>9. QED
  BY <1>1, <1>3, <1>5, <1>6, <1>7, <1>8, Zenon DEF FilterInv

\* While the elements are copied, they are known to be whole.
LEMMA CopyFacts ==
  ASSUME FilterInv, pc = "copy"
  PROVE  /\ FilterTypeOK /\ (\A p \in Parts : kept[p] <= Len(input[p]))
         /\ malformed = {} /\ Copying /\ (\A p \in Parts : Measured(p))
         /\ \A p \in Parts : /\ input[p] \in Seq(0 .. 255)
                             /\ AllFit(input[p], Len(input[p]))
                             /\ kept[p] = Len(Wanted(input[p]))
         /\ part \in Parts /\ offset \in 0 .. Len(input[part])
         /\ Len(input[part]) \in Nat
         /\ offset < Len(input[part]) => Whole(input[part], offset)
<1>1. /\ FilterTypeOK /\ (\A p \in Parts : kept[p] <= Len(input[p]))
      /\ malformed = {} /\ Copying
  BY Zenon DEF FilterInv
<1>2. \A p \in Parts : Measured(p)
  <2>1. pc # "measure"
    OBVIOUS
  <2>2. QED
    BY <2>1, Zenon DEF FilterInv
<1>3. /\ \A p \in Parts : input[p] \in Seq(0 .. 255)
      /\ part \in Parts /\ offset \in 0 .. Len(input[part])
      /\ Len(input[part]) \in Nat
  BY <1>1, InputBytes, Zenon
<1>4. \A p \in Parts : AllFit(input[p], Len(input[p])) /\ kept[p] = Len(Wanted(input[p]))
  BY <1>1, <1>2, Zenon DEF Measured
<1>5. offset < Len(input[part]) => Whole(input[part], offset)
  BY <1>1, <1>3, <1>4, Zenon DEF Copying, AllFit
<1>6. QED
  BY <1>1, <1>2, <1>3, <1>4, <1>5, Zenon

LEMMA CopyElementKeeps == FilterInv /\ CopyElement => FilterInv'
<1> SUFFICES ASSUME FilterInv, CopyElement PROVE FilterInv'
  OBVIOUS
<1> DEFINE ies == input[part]
           end == EndOf(ies, offset)
<1>1. pc = "copy" /\ offset < Len(ies) /\ CopyKept
  BY Zenon DEF CopyElement, AtElement
<1>2. /\ FilterTypeOK /\ (\A p \in Parts : kept[p] <= Len(input[p]))
      /\ malformed = {} /\ Copying /\ (\A p \in Parts : Measured(p))
      /\ part \in Parts /\ offset \in 0 .. Len(ies) /\ ies \in Seq(0 .. 255)
      /\ Whole(ies, offset)
  BY <1>1, CopyFacts, Zenon
<1>3. /\ input' = input /\ pc' = pc /\ part' = part /\ kept' = kept
      /\ malformed' = malformed /\ offset' = offset + ElementLen(ies, offset)
  BY Zenon DEF CopyElement
<1>4. offset' = end /\ Element = SubSeq(ies, offset + 1, end)
  BY <1>2, <1>3, FitsIsWhole, Zenon DEF Element
<1>5. AllFit(ies, offset) /\ stored[part] = Taken(ies, offset)
  BY <1>2, Zenon DEF Copying
<1>6. AllFit(ies, end)
  BY <1>2, <1>5, NextFits, Zenon
<1>7. stored'[part] = Taken(ies, end) /\ \A p \in Parts : p # part => stored'[p] = stored[p]
  <2>1. stored \in [Parts -> Seq(0 .. 255)]
    BY <1>2, Zenon DEF FilterTypeOK
  <2>2. Taken(ies, end) = IF KeepScanIe(ies, offset)
                          THEN Taken(ies, offset) \o SubSeq(ies, offset + 1, end)
                          ELSE Taken(ies, offset)
    BY <1>2, <1>5, TakenNext, Zenon
  <2>3. stored' = IF KeepScanIe(ies, offset)
                  THEN [stored EXCEPT ![part] = stored[part] \o Element] ELSE stored
    BY <1>1, Zenon DEF CopyKept
  <2>4. QED
    BY <1>2, <1>4, <1>5, <2>1, <2>2, <2>3, Zenon
<1>8. FilterTypeOK'
  <2>1. end \in 0 .. Len(ies)
    BY <1>2, <1>6, BoundaryFacts, Zenon DEF AllFit
  <2>2. \A p \in Parts : stored'[p] \in Seq(0 .. 255)
    BY <1>2, <1>7, TakenBounds, ZenonT(60) DEF FilterTypeOK
  <2>3. stored' = [p \in Parts |-> stored'[p]]
    BY <1>1, <1>2, Zenon DEF CopyKept, FilterTypeOK
  <2>4. stored' \in [Parts -> Seq(0 .. 255)]
    BY <2>2, <2>3, Zenon
  <2>5. QED
    BY <1>2, <1>3, <1>4, <2>1, <2>4, Zenon DEF FilterTypeOK
<1>9. Copying'
  <2>1. part = 1 => stored'[2] = <<>>
    <3>1. part = 1 => 2 # part /\ 2 \in Parts
      BY DEF Parts
    <3>2. QED
      BY <1>2, <1>7, <3>1, Zenon DEF Copying
  <2>2. part = 2 => stored'[1] = Wanted(input[1])
    <3>1. part = 2 => 1 # part /\ 1 \in Parts
      BY DEF Parts
    <3>2. QED
      BY <1>2, <1>7, <3>1, Zenon DEF Copying
  <2>3. QED
    BY <1>3, <1>4, <1>6, <1>7, <2>1, <2>2, Zenon DEF Copying
<1>10. \A p \in Parts : Measured(p)'
  BY <1>2, <1>3, Zenon DEF Measured
<1>11. pc' = "copy"
  BY <1>1, <1>3, Zenon
<1>12. QED
  BY <1>2, <1>3, <1>8, <1>9, <1>10, <1>11, Zenon DEF FilterInv

LEMMA CopyEndsKeeps == FilterInv /\ CopyEnds => FilterInv'
<1> SUFFICES ASSUME FilterInv, CopyEnds PROVE FilterInv'
  OBVIOUS
<1>1. pc = "copy"
  BY Zenon DEF CopyEnds
<1>2. /\ FilterTypeOK /\ (\A p \in Parts : kept[p] <= Len(input[p]))
      /\ malformed = {} /\ Copying /\ (\A p \in Parts : Measured(p))
      /\ \A p \in Parts : input[p] \in Seq(0 .. 255) /\ kept[p] = Len(Wanted(input[p]))
      /\ part \in Parts /\ offset \in 0 .. Len(input[part]) /\ Len(input[part]) \in Nat
  BY <1>1, CopyFacts, Zenon
<1>3. /\ input' = input /\ kept' = kept /\ malformed' = malformed /\ stored' = stored
      /\ PartEnds("ok") /\ offset' = 0
  BY Zenon DEF CopyEnds, PartEnds
<1>4. stored[part] = Wanted(input[part])
  <2> DEFINE ies == input[part]
             taken == Taken(ies, offset)
             wanted == Wanted(ies)
  <2>1. stored[part] = taken /\ ies \in Seq(0 .. 255) /\ kept[part] = Len(wanted)
    BY <1>2, Zenon DEF Copying
  <2>2. CASE offset >= Len(ies)
    <3>1. offset = Len(ies)
      BY <1>2, <2>2
    <3>2. QED
      BY <2>1, <3>1, TakenAll, Zenon
  <2>3. CASE kept[part] = 0
    <3>1. /\ taken \in Seq(0 .. 255) /\ Len(taken) <= Len(wanted)
          /\ wanted \in Seq(0 .. 255)
      BY <2>1, TakenBounds, TakenAll, ZenonT(60)
    <3>2. Len(wanted) = 0
      BY <2>1, <2>3, Zenon
    <3> HIDE DEF taken, wanted
    <3>3. Len(taken) = 0
      BY <3>1, <3>2
    <3>4. taken = <<>>
      BY <3>1, <3>3
    <3>5. wanted = <<>>
      BY <3>1, <3>2
    <3>6. QED
      BY <2>1, <3>4, <3>5, Zenon DEF wanted
  <2>4. QED
    BY <2>2, <2>3, Zenon DEF CopyEnds
<1>5. 1 \in Parts /\ 2 \in Parts /\ 1 # 2 /\ \A p \in Parts : p = 1 \/ p = 2
  BY DEF Parts
<1>6. 0 \in 0 .. Len(input[1]) /\ 0 \in 0 .. Len(input[2])
  <2> DEFINE one == Len(input[1])
             two == Len(input[2])
  <2>1. one \in Nat /\ two \in Nat
    BY <1>2, <1>5, InputBytes, Zenon
  <2> HIDE DEF one, two
  <2>2. 0 \in 0 .. one /\ 0 \in 0 .. two
    BY <2>1
  <2>3. QED
    BY <2>2, Zenon DEF one, two
<1>7. \A p \in Parts : Measured(p)'
  BY <1>2, <1>3, Zenon DEF Measured
<1>8. CASE part = 1
  <2>1. part' = 2 /\ pc' = pc
    BY <1>3, <1>8, Zenon DEF PartEnds
  <2>2. FilterTypeOK'
    BY <1>2, <1>3, <1>5, <1>6, <2>1, Zenon DEF FilterTypeOK
  <2>3. AllFit(input[2], 0) /\ Taken(input[2], 0) = <<>>
    BY <1>2, <1>5, TakenFirst, Zenon
  <2>4. stored[2] = <<>>
    BY <1>2, <1>8, Zenon DEF Copying
  <2>5. part' # 1
    BY <2>1
  <2>6. Copying'
    BY <1>3, <1>4, <1>8, <2>1, <2>3, <2>4, <2>5, Zenon DEF Copying
  <2>7. pc' = "copy"
    BY <1>1, <2>1, Zenon
  <2>8. QED
    BY <1>2, <1>3, <1>7, <2>2, <2>6, <2>7, Zenon DEF FilterInv
<1>9. CASE part = 2
  <2>1. part' = 1 /\ pc' = "ok"
    BY <1>3, <1>5, <1>9, Zenon DEF PartEnds
  <2>2. FilterTypeOK'
    BY <1>2, <1>3, <1>5, <1>6, <2>1, Zenon DEF FilterTypeOK
  <2>3. stored[1] = Wanted(input[1])
    BY <1>2, <1>9, Zenon DEF Copying
  <2>4. \A p \in Parts : stored[p] = Wanted(input[p])
    BY <1>4, <1>5, <1>9, <2>3, Zenon
  <2>5. QED
    BY <1>2, <1>3, <1>7, <2>1, <2>2, <2>4, Zenon DEF FilterInv
<1>10. QED
  BY <1>2, <1>5, <1>8, <1>9, Zenon

LEMMA FilterStep == FilterInv /\ [FilterNext]_filter_vars => FilterInv'
<1> SUFFICES ASSUME FilterInv, [FilterNext]_filter_vars PROVE FilterInv'
  OBVIOUS
<1>1. CASE UNCHANGED filter_vars
  <2>1. /\ input' = input /\ pc' = pc /\ part' = part /\ offset' = offset
        /\ kept' = kept /\ malformed' = malformed /\ stored' = stored
    BY <1>1 DEF filter_vars
  <2>2. FilterTypeOK' /\ (Measuring <=> Measuring') /\ (Copying <=> Copying')
        /\ \A p \in Parts : Measured(p) <=> Measured(p)'
    BY <2>1, Zenon DEF FilterTypeOK, Measuring, Copying, Measured, FilterInv
  <2>3. QED
    BY <2>1, <2>2, Zenon DEF FilterInv
<1>2. CASE FilterNext
  <2>1. CASE FilterDone
    BY <1>1, <2>1, Zenon DEF FilterDone
  <2>2. QED
    BY <1>2, <2>1, MeasureElementKeeps, MeasureFailsKeeps, MeasureEndsKeeps,
       AllocateKeeps, CopyElementKeeps, CopyEndsKeeps, Zenon DEF FilterNext
<1>3. QED
  BY <1>1, <1>2, Zenon

(* The inductive invariant of the filter, for byte sequences of any length. *)
THEOREM FilterInvariance == FilterSpec => []FilterInv
<1>1. FilterInit => FilterInv
  BY FilterStart
<1>2. FilterInv /\ [FilterNext]_filter_vars => FilterInv'
  BY FilterStep
<1>3. QED
  BY <1>1, <1>2, PTL DEF FilterSpec

(* The loop that copies checks nothing, and reads and writes only where the  *)
(* loop that measures has been: driver_ws63.c:73-85, 424.                    *)
THEOREM CopyStaysInside == FilterSpec => []InBounds
<1>1. FilterInv => InBounds
  <2> SUFFICES ASSUME FilterInv PROVE InBounds
    OBVIOUS
  <2>1. FilterTypeOK
    BY Zenon DEF FilterInv
  <2>2. CASE pc = "copy"
    <3>1. /\ part \in Parts /\ offset \in 0 .. Len(input[part])
          /\ offset < Len(input[part]) => Whole(input[part], offset)
          /\ \A p \in Parts : input[p] \in Seq(0 .. 255) /\ kept[p] = Len(Wanted(input[p]))
          /\ Copying
      BY <2>2, CopyFacts, Zenon
    <3>2. offset < Len(input[part]) => Fits(input[part], offset)
      BY <3>1, FitsIsWhole, Zenon
    <3>3. ASSUME NEW p \in Parts PROVE Len(stored[p]) <= kept[p]
      <4> DEFINE wanted == Wanted(input[p])
      <4>1. wanted \in Seq(0 .. 255) /\ kept[p] = Len(wanted)
        BY <3>1, TakenBounds, TakenAll, ZenonT(60)
      <4> HIDE DEF wanted
      <4>2. Len(wanted) \in Nat
        BY <4>1
      <4>3. CASE p = part
        <5>1. stored[p] = Taken(input[p], offset)
          BY <3>1, <4>3, Zenon DEF Copying
        <5>2. Len(Taken(input[p], offset)) <= Len(wanted)
          BY <3>1, TakenBounds, Zenon DEF wanted
        <5>3. QED
          BY <4>1, <5>1, <5>2, Zenon
      <4>4. CASE part = 2 /\ p = 1
        <5>1. stored[p] = wanted
          BY <3>1, <4>4, Zenon DEF Copying, wanted
        <5>2. QED
          BY <4>1, <4>2, <5>1
      <4>5. CASE part = 1 /\ p = 2
        <5>1. stored[p] = <<>>
          BY <3>1, <4>5, Zenon DEF Copying
        <5>2. Len(stored[p]) = 0
          BY <5>1
        <5>3. QED
          BY <4>1, <4>2, <5>2
      <4>6. QED
        BY <3>1, <4>3, <4>4, <4>5 DEF Parts
    <3>4. QED
      BY <2>1, <3>2, <3>3, Zenon DEF InBounds, CopyInBounds
  <2>3. CASE pc # "copy"
    BY <2>1, <2>3, Zenon DEF InBounds, CopyInBounds
  <2>4. QED
    BY <2>2, <2>3, Zenon
<1>2. QED
  BY <1>1, FilterInvariance, PTL

(* A result is refused exactly when one of its parts is cut off, and what is *)
(* stored for any other is its wanted elements: driver_ws63.c:56-71, 421-442.*)
THEOREM FilterIsExact == FilterSpec => []FilterExact
<1>1. FilterInv => FilterExact
  <2> SUFFICES ASSUME FilterInv PROVE FilterExact
    OBVIOUS
  <2>1. ASSUME Answered PROVE pc = "invalid" <=> \E p \in Parts : ~WellFormed(input[p])
    <3>1. pc # "measure" /\ pc \in {"ok", "invalid", "allocation"}
      BY <2>1 DEF Answered
    <3>2. \A p \in Parts : Measured(p)
      BY <3>1, Zenon DEF FilterInv
    <3>3. \A p \in Parts : p \in malformed <=> ~WellFormed(input[p])
      BY <3>2, Zenon DEF Measured, AllFit, WellFormed
    <3>4. pc = "invalid" <=> malformed # {}
      <4>1. pc = "invalid" => malformed # {}
        BY Zenon DEF FilterInv
      <4>2. pc # "invalid" => pc \in {"copy", "ok", "allocation"}
        BY <3>1
      <4>3. QED
        BY <4>1, <4>2, Zenon DEF FilterInv
    <3>5. malformed \subseteq Parts
      BY Zenon DEF FilterInv, FilterTypeOK
    <3>6. QED
      BY <3>3, <3>4, <3>5, Zenon
  <2>2. ASSUME pc = "ok", NEW p \in Parts
        PROVE  stored[p] = Wanted(input[p]) /\ kept[p] = Len(stored[p])
    <3>1. pc # "measure" /\ pc \in {"copy", "ok", "allocation"}
      BY <2>2
    <3>2. Measured(p) /\ malformed = {} /\ stored[p] = Wanted(input[p])
      BY <2>2, <3>1, Zenon DEF FilterInv
    <3>3. QED
      BY <3>2, Zenon DEF Measured
  <2>3. QED
    BY <2>1, <2>2, Zenon DEF FilterExact, RefusesMalformed, StoresWanted
<1>2. QED
  BY <1>1, FilterInvariance, PTL
================================================================================
