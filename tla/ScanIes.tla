-------------------------------- MODULE ScanIes --------------------------------
(***************************************************************************)
(* The information elements of a scan result on their way into a block,    *)
(* hisi_wpa_driver_feed_scan_result of driver_ws63.c: one loop measures    *)
(* what will be kept and checks the bounds, the block is allocated to that *)
(* measure, and a second loop copies without checking anything.  The two   *)
(* loops run over the elements of the result and then over those of its    *)
(* beacon, and write to two parts of the block.  One step is one turn of a *)
(* loop.  Bytes are numbers, positions count from 0 as in the code.        *)
(***************************************************************************)
EXTENDS Lists

CONSTANTS Inputs   (* pairs of byte sequences: elements, beacon elements *)

Parts == {1, 2}

ASSUME ScanIesAssumption == Inputs \subseteq [Parts -> Seq(0 .. 255)]

VARIABLES
  input,       (* the pair                                           *)
  pc,          (* "measure", "allocate", "copy", or the answer:      *)
               (* "ok", "invalid", "allocation"                      *)
  part,        (* the part that the loop is in                       *)
  offset,      (* its position there                                 *)
  kept,        (* per part: bytes to be kept                         *)
  malformed,   (* the parts whose measure is SIZE_MAX                *)
  stored       (* per part: bytes written to the block               *)

filter_vars == <<input, pc, part, offset, kept, malformed, stored>>

FilterInit ==
  /\ input \in Inputs
  /\ pc = "measure" /\ part = 1 /\ offset = 0
  /\ kept = [p \in Parts |-> 0] /\ malformed = {}
  /\ stored = [p \in Parts |-> <<>>]

--------------------------------------------------------------------------------
SSID == 0
RSN == 48
RSNX == 244
VENDOR_SPECIFIC == 221
WpaSelector == <<0, 80, 242, 1>>

\* An element of the bytes ies: identifier, length, contents.
KeepScanIe(ies, at) ==
  \/ ies[at + 1] \in {SSID, RSN, RSNX}
  \/ /\ ies[at + 1] = VENDOR_SPECIFIC
     /\ ies[at + 2] >= 4
     /\ SubSeq(ies, at + 3, at + 6) = WpaSelector

ElementLen(ies, at) == ies[at + 2] + 2

Fits(ies, at) ==
  /\ Len(ies) - at >= 2
  /\ ElementLen(ies, at) <= Len(ies) - at

AtElement(loop) == pc = loop /\ offset < Len(input[part])

\* The end of a loop over one part leads to the other part, or on.
PartEnds(next) ==
  /\ offset' = 0
  /\ IF part = 1 THEN part' = 2 /\ UNCHANGED pc ELSE part' = 1 /\ pc' = next

MeasureElement ==
  /\ AtElement("measure")
  /\ Fits(input[part], offset)
  /\ kept' = IF KeepScanIe(input[part], offset)
             THEN [kept EXCEPT ![part] = @ + ElementLen(input[part], offset)]
             ELSE kept
  /\ offset' = offset + ElementLen(input[part], offset)
  /\ UNCHANGED <<input, pc, part, malformed, stored>>

MeasureFails ==
  /\ AtElement("measure")
  /\ ~Fits(input[part], offset)
  /\ malformed' = malformed \cup {part}
  /\ PartEnds("allocate")
  /\ UNCHANGED <<input, kept, stored>>

MeasureEnds ==
  /\ pc = "measure" /\ offset >= Len(input[part])
  /\ PartEnds("allocate")
  /\ UNCHANGED <<input, kept, malformed, stored>>

Allocate ==
  /\ pc = "allocate"
  /\ pc' \in IF malformed # {} THEN {"invalid"} ELSE {"copy", "allocation"}
  /\ UNCHANGED <<input, part, offset, kept, malformed, stored>>

Element == SubSeq(input[part], offset + 1,
                  offset + ElementLen(input[part], offset))

CopyAllElements ==   \* faulty variant: does not ask keep_scan_ie
  stored' = [stored EXCEPT ![part] = @ \o Element]

CopyToTheStart ==    \* faulty variant: does not advance the output
  stored' = IF KeepScanIe(input[part], offset)
            THEN [stored EXCEPT ![part] =
                    Element \o SubSeq(@, Len(Element) + 1, Len(@))]
            ELSE stored

CopyKept ==
  stored' = IF KeepScanIe(input[part], offset)
            THEN [stored EXCEPT ![part] = @ \o Element]
            ELSE stored

\* A part of which nothing is kept is not copied.
CopyElement ==
  /\ AtElement("copy") /\ kept[part] # 0
  /\ CopyKept
  /\ offset' = offset + ElementLen(input[part], offset)
  /\ UNCHANGED <<input, pc, part, kept, malformed>>

CopyEnds ==
  /\ pc = "copy"
  /\ offset >= Len(input[part]) \/ kept[part] = 0
  /\ PartEnds("ok")
  /\ UNCHANGED <<input, kept, malformed, stored>>

Answered == pc \in {"ok", "invalid", "allocation"}

\* The call has returned.
FilterDone == Answered /\ UNCHANGED filter_vars

FilterNext ==
  \/ MeasureElement \/ MeasureFails \/ MeasureEnds
  \/ Allocate
  \/ CopyElement \/ CopyEnds
  \/ FilterDone

FilterSpec == FilterInit /\ [][FilterNext]_filter_vars

--------------------------------------------------------------------------------
(* The reference: what the positions of the elements are, without a loop   *)
(* and without a check.                                                    *)

\* An element that begins at m, ends before EndOf(ies, m), and is not cut off.
EndOf(ies, m) == m + 2 + ies[m + 2]
Whole(ies, m) == m + 2 <= Len(ies) /\ EndOf(ies, m) <= Len(ies)

\* The positions that are the first byte of an element, or the end of the
\* elements: the first one, and those one whole element behind another.
Boundary(ies) ==
  LET boundary[n \in 0 .. Len(ies)] ==
        IF n = 0 THEN {0}
        ELSE LET before == boundary[n - 1]
             IN IF \E m \in before : Whole(ies, m) /\ n = EndOf(ies, m)
                THEN before \cup {n} ELSE before
  IN boundary[Len(ies)]

WellFormed(ies) == Len(ies) \in Boundary(ies)

\* The bytes of all whole elements worth keeping, in their order.
WantedPlaces(ies) ==
  UNION {m + 1 .. EndOf(ies, m) :
           m \in {b \in Boundary(ies) : Whole(ies, b) /\ KeepScanIe(ies, b)}}

Wanted(ies) == Picked(ies, WantedPlaces(ies))

(* Every variable keeps its range; the position stays inside the bytes.    *)
FilterTypeOK ==
  /\ input \in Inputs /\ part \in Parts
  /\ pc \in {"measure", "allocate", "copy", "ok", "invalid", "allocation"}
  /\ offset \in 0 .. Len(input[part])
  /\ kept \in [Parts -> 0 .. Len(input[1]) + Len(input[2])]
  /\ malformed \subseteq Parts
  /\ stored \in [Parts -> Seq(0 .. 255)]

(* The loop that copies reads and writes without a check: each element it  *)
(* stands at lies in the input, and what it writes fits the part of the    *)
(* block that the other loop measured (driver_ws63.c:73-85, 424).          *)
CopyInBounds ==
  pc = "copy" =>
    /\ offset < Len(input[part]) => Fits(input[part], offset)
    /\ \A p \in Parts : Len(stored[p]) <= kept[p]

(* Exactly the results with an element that is cut off are refused, in     *)
(* either part, and nothing is stored for them (driver_ws63.c:56-71, 421). *)
RefusesMalformed ==
  Answered => (pc = "invalid" <=> \E p \in Parts : ~WellFormed(input[p]))

(* An accepted result holds its wanted elements, whole, once and in order, *)
(* those of the beacon behind the others, where the two lengths say        *)
(* (driver_ws63.c:435-442).                                                *)
StoresWanted ==
  pc = "ok" => \A p \in Parts : /\ stored[p] = Wanted(input[p])
                                /\ kept[p] = Len(stored[p])

(* Types, and the copy stays inside what it reads and what was allocated   *)
(* (driver_ws63.c:73-85, 424).                                             *)
InBounds == FilterTypeOK /\ CopyInBounds

(* The filter refuses what is cut off and stores exactly what is wanted of *)
(* the rest (driver_ws63.c:56-71, 421-442).                                *)
FilterExact == RefusesMalformed /\ StoresWanted
================================================================================
