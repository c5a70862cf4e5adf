-------------------------------- MODULE MCScan --------------------------------
(* The two halves of a scan result's way into hostap, each from its own initial *)
(* states: the capture (which = "capture"), and the filter of the information   *)
(* elements (which = "elements"), a function that nothing interrupts.           *)
(*                                                                              *)
(* A capture of three, and enough blocks for hostap to hold a batch while the   *)
(* next capture fills up and one more result comes in.                          *)
(*                                                                              *)
(* All byte sequences up to length four over two identifiers that double as     *)
(* lengths and two that do not, and elements around the WPA selector: whole,    *)
(* one contents byte short, another selector, cut off at each byte; and lengths *)
(* near the end of the byte, all with five kinds of beacon.                     *)
EXTENDS ScanCapture, ScanIes, TLC

CONSTANTS b1, b2, b3, b4, b5, b6, b7

MCBlocks == {b1, b2, b3, b4, b5, b6, b7}

VARIABLES which

Bytes == {SSID, 1, 3, RSN}
Plain == UNION {[1 .. n -> Bytes] : n \in 0 .. 4}
Vendor == {
  <<221, 4, 0, 80, 242, 1>>,
  <<221, 5, 0, 80, 242, 1, 9>>,
  <<221, 4, 0, 80, 242, 2>>,
  <<221, 4, 18, 52, 86, 120>>,
  <<221, 3, 0, 80, 242>>,
  <<221, 0>>,
  <<0, 254>>}
Around == {<<>>, <<0, 1, 7>>, <<244, 0>>, <<1, 2, 8, 9>>}
Mixed == {a \o v \o b : a \in Around, v \in Vendor, b \in Around}
Cut == UNION {{SubSeq(s, 1, n) : n \in 1 .. Len(s)} : s \in Vendor}
Beacons == {<<>>, <<48, 1>>, <<244, 255>>, <<48, 1, 5>>, <<3, 0, 0, 2, 6, 6>>}
MCInputs == {<<s, b>> : s \in Plain \cup Mixed \cup Cut, b \in Beacons}

\* The half that is not looked at stays in one of its initial states.
MCInit ==
  /\ CaptureInit /\ FilterInit
  /\ \/ which = "capture" /\ input = <<<<>>, <<>>>>
     \/ which = "elements"

MCNext ==
  \/ which = "capture" /\ CaptureNext /\ UNCHANGED <<which, filter_vars>>
  \/ which = "elements" /\ FilterNext /\ UNCHANGED <<which, capture_vars>>

MCSpec == MCInit /\ [][MCNext]_<<which, capture_vars, filter_vars>>
================================================================================
