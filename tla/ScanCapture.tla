------------------------------ MODULE ScanCapture ------------------------------
(***************************************************************************)
(* The scan results of a station driver instance, driver_ws63.c: an array  *)
(* of pointers with a count, filled by the driver's callbacks, emptied by  *)
(* every new scan, and given away to hostap with the memory behind it.     *)
(* What is hard is the ownership: a block is in the array, or hostap's, or *)
(* free, through refused allocations and a deinit at any time.             *)
(*                                                                         *)
(* The information elements inside a block are the subject of ScanIes.     *)
(* hostap is external: it fetches a batch when told that a scan is done,   *)
(* or whenever it wants one, and frees it before it fetches the next.      *)
(***************************************************************************)
EXTENDS Naturals, Sequences, FiniteSets

CONSTANTS
  Blocks,      (* blocks os_zalloc can return for a scan result  *)
  Capacity,    (* WS63_MAX_SCAN_RESULTS                          *)
  NULL         (* a cleared array element                        *)

ASSUME ScanCaptureAssumption ==
  /\ Capacity \in Nat \ {0}
  /\ NULL \notin Blocks

VARIABLES
  alive,               (* whether there is an instance                        *)
  scan_results,        (* its array                                           *)
  scan_result_count,
  heap,                (* the blocks that are allocated                       *)
  fetched,             (* what hostap holds: no batch, or one                 *)
  containers,          (* allocated blocks for struct wpa_scan_results and    *)
                       (* for its array                                       *)
  last_batch           (* history: the batch that was handed over last        *)

capture_vars == <<alive, scan_results, scan_result_count, heap, fetched, containers,
          last_batch>>

Slots == 0 .. Capacity - 1
Empty == [s \in Slots |-> NULL]
Filled == 0 .. scan_result_count - 1

\* The filled part of the array, as a sequence.
Captured == [i \in 1 .. scan_result_count |-> scan_results[i - 1]]

CaptureInit ==
  /\ alive = FALSE
  /\ scan_results = Empty /\ scan_result_count = 0
  /\ heap = {} /\ fetched = {} /\ containers = 0 /\ last_batch = <<>>

--------------------------------------------------------------------------------
ClearKeepingLast ==   \* faulty variant: the loop ends one too early
  /\ heap' = heap \ {scan_results[s] : s \in Filled \ {scan_result_count - 1}}
  /\ scan_results' = Empty
  /\ scan_result_count' = 0

ClearScanResults ==
  /\ heap' = heap \ {scan_results[s] : s \in Filled}
  /\ scan_results' = Empty
  /\ scan_result_count' = 0

\* ws63_init, when it succeeds; the instance is new, and zeroed.
OpenCapture ==
  /\ ~alive /\ alive' = TRUE
  /\ scan_results' = Empty /\ scan_result_count' = 0
  /\ UNCHANGED <<heap, fetched, containers, last_batch>>

\* ws63_deinit.
CloseCapture ==
  /\ alive /\ alive' = FALSE
  /\ ClearScanResults
  /\ UNCHANGED <<fetched, containers, last_batch>>

\* The capture is emptied before the driver is asked, also when the driver
\* then refuses; a request that is malformed changes nothing.
Ws63Scan ==
  /\ alive
  /\ ClearScanResults
  /\ UNCHANGED <<alive, fetched, containers, last_batch>>

BeginScanCapture ==
  /\ alive
  /\ ClearScanResults
  /\ UNCHANGED <<alive, fetched, containers, last_batch>>

HasRoom == scan_result_count # Capacity

\* Without room, without memory, or malformed, it answers and changes nothing.
FeedScanResult(b) ==
  /\ alive
  /\ HasRoom
  /\ b \notin heap
  /\ heap' = heap \cup {b}
  /\ scan_results' = [scan_results EXCEPT ![scan_result_count] = b]
  /\ scan_result_count' = scan_result_count + 1
  /\ UNCHANGED <<alive, fetched, containers, last_batch>>

GivenAwayAndKept ==   \* faulty variant: the array is not cleared
  UNCHANGED <<scan_results, scan_result_count>>

GivenAway == scan_results' = Empty /\ scan_result_count' = 0

Ws63GetScanResults ==
  /\ alive
  /\ fetched = {}
  /\ containers' = containers + (IF scan_result_count = 0 THEN 1 ELSE 2)
  /\ fetched' = {Captured}
  /\ last_batch' = Captured
  /\ GivenAway
  /\ UNCHANGED <<alive, heap>>

\* Memory for the array is refused after the structure was allocated; the
\* capture stays as it is and may be fetched again.
GetFails ==
  /\ alive /\ fetched = {} /\ scan_result_count # 0
  /\ UNCHANGED capture_vars

\* hostap, wpa_scan_results_free.
ScanResultsFree ==
  \E batch \in fetched :
    /\ heap' = heap \ {batch[i] : i \in DOMAIN batch}
    /\ containers' = containers - (IF batch = <<>> THEN 1 ELSE 2)
    /\ fetched' = {}
    /\ UNCHANGED <<alive, scan_results, scan_result_count, last_batch>>

CaptureNext ==
  \/ OpenCapture \/ CloseCapture \/ Ws63Scan \/ BeginScanCapture
  \/ Ws63GetScanResults \/ GetFails \/ ScanResultsFree
  \/ \E b \in Blocks : FeedScanResult(b)

CaptureSpec == CaptureInit /\ [][CaptureNext]_capture_vars

--------------------------------------------------------------------------------
(* Every variable keeps its range; the count never passes the array, whose *)
(* elements beyond it are cleared (driver_ws63.c:412, 443).                *)
CaptureTypeOK ==
  /\ alive \in BOOLEAN
  /\ scan_results \in [Slots -> Blocks \cup {NULL}]
  /\ scan_result_count \in 0 .. Capacity
  /\ heap \subseteq Blocks /\ containers \in Nat
  /\ fetched \subseteq Seq(Blocks) /\ last_batch \in Seq(Blocks)
  /\ \A s \in Slots \ Filled : scan_results[s] = NULL

(* Every block that is allocated has one owner, an element of the array or *)
(* of hostap's batch, and every owner's block is allocated: nothing is     *)
(* freed twice, used after it was freed, or lost, whichever of scan, begin,*)
(* fetch, refused fetch and deinit comes next; and the structures around a *)
(* batch live as long as that (driver_ws63.c:27-34, 178, 225-240).         *)
OwnedOnce ==
  LET Held == UNION {{<<batch, i>> : i \in DOMAIN batch} : batch \in fetched}
      InBatch == {h[1][h[2]] : h \in Held}
      InArray == {scan_results[s] : s \in Filled}
  IN /\ heap = InArray \cup InBatch
     /\ InArray \cap InBatch = {}
     /\ Cardinality(InArray) = scan_result_count
     /\ Cardinality(InBatch) = Cardinality(Held)
     /\ containers = IF fetched = {} THEN 0 ELSE IF Held = {} THEN 1 ELSE 2

(* Types, and every block has exactly one owner (driver_ws63.c:27-34).     *)
BlocksSound == CaptureTypeOK /\ OwnedOnce

(* hostap is handed what came in since the capture was last emptied, in    *)
(* that order, and never the same batch twice (driver_ws63.c:218-242).     *)
Batch == INSTANCE ScanBatch
           WITH Results <- Blocks, capture <- Captured, delivered <- last_batch

ImplementsBatch == Batch!Spec
================================================================================
