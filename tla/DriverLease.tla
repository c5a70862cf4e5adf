------------------------------ MODULE DriverLease ------------------------------
(***************************************************************************)
(* What the driver registration of the hostap port promises, independent   *)
(* of reference counts: one hook table is registered at a time, leases are *)
(* taken only under a registration, and the registration neither changes   *)
(* nor disappears while a lease is out (README.md of the repository: "the  *)
(* driver registration cannot be removed while an RX endpoint is alive").  *)
(***************************************************************************)

CONSTANTS
  Hooks,    (* hook tables that can be registered    *)
  Holders,  (* objects that take and return leases   *)
  NoHooks   (* the absence of a registration         *)

VARIABLES
  registration,  (* the registered hook table, or NoHooks *)
  leases         (* the holders with a lease out          *)

vars == <<registration, leases>>

Init ==
  /\ registration = NoHooks
  /\ leases = {}

Register(h) ==
  /\ registration = NoHooks
  /\ registration' = h
  /\ UNCHANGED leases

Unregister ==
  /\ registration # NoHooks
  /\ leases = {}
  /\ registration' = NoHooks
  /\ UNCHANGED leases

Take(x) ==
  /\ registration # NoHooks
  /\ x \notin leases
  /\ leases' = leases \cup {x}
  /\ UNCHANGED registration

Return(x) ==
  /\ x \in leases
  /\ leases' = leases \ {x}
  /\ UNCHANGED registration

Next ==
  \/ \E h \in Hooks : Register(h)
  \/ Unregister
  \/ \E x \in Holders : Take(x) \/ Return(x)

Spec == Init /\ [][Next]_vars
================================================================================
