------------------------------- MODULE DriverPort ------------------------------
(***************************************************************************)
(* The lifetime of the station driver registration: the hook table of      *)
(* hisi_wpa_driver_port.c, the driver instances of driver_ws63.c that copy *)
(* it and the EAPOL endpoints of l2_packet_ws63.c that look it up again on *)
(* every frame.  The code counts users in one size_t; nothing in it knows  *)
(* who they are.  Here the users are known, so that the count can be       *)
(* compared with them.                                                     *)
(*                                                                         *)
(* A hook table that hooks_valid() refuses never changes any state and is  *)
(* not an element of Hooks.                                                *)
(***************************************************************************)
EXTENDS Naturals, FiniteSets

CONSTANTS
  Hooks,      (* valid tables, distinct when hooks_equal() says so     *)
  Drivers,    (* values of the `driver` pointer                        *)
  DriverOf,   (* the `driver` field of each table                      *)
  Instances,  (* blocks ws63_init can return (struct ws63_driver_data) *)
  Endpoints,  (* blocks l2_packet_init can return                      *)
  NoHooks,    (* the zeroed g_hooks of an uninstalled port             *)
  NoEndpoint  (* a NULL g_receive_endpoint                             *)

ASSUME DriverPortAssumption ==
  /\ DriverOf \in [Hooks -> Drivers]
  /\ NoHooks \notin Hooks
  /\ NoEndpoint \notin Endpoints
  /\ Instances \cap Endpoints = {}

VARIABLES
  g_hooks,             (* installed table; NoHooks stands for g_installed = 0 *)
  g_users,             (* the reference count                                 *)
  copied_hooks,        (* per instance: its copy of the table, NoHooks = free *)
  l2_state,            (* per endpoint: "free", "send" (no receive callback)  *)
                       (* or "receive"                                        *)
  g_receive_endpoint   (* the endpoint hisi_wpa_l2_feed delivers to           *)

vars == <<g_hooks, g_users, copied_hooks, l2_state, g_receive_endpoint>>

LiveInstances == {i \in Instances : copied_hooks[i] # NoHooks}
LiveEndpoints == {e \in Endpoints : l2_state[e] # "free"}
LiveUsers     == LiveInstances \cup LiveEndpoints

Init ==
  /\ g_hooks = NoHooks
  /\ g_users = 0
  /\ copied_hooks = [i \in Instances |-> NoHooks]
  /\ l2_state = [e \in Endpoints |-> "free"]
  /\ g_receive_endpoint = NoEndpoint

--------------------------------------------------------------------------------
(* The registration, hisi_wpa_driver_port.c *)

Released(users) == IF users # 0 THEN users - 1 ELSE users

\* A second install answers 0 or -2 and changes nothing.
Install(h) ==
  /\ g_hooks = NoHooks
  /\ g_hooks' = h
  /\ UNCHANGED <<g_users, copied_hooks, l2_state, g_receive_endpoint>>

UninstallIgnoringUsers(d) ==   \* faulty variant: only the RX endpoint counts
  /\ g_hooks # NoHooks
  /\ DriverOf[g_hooks] = d
  /\ g_receive_endpoint = NoEndpoint
  /\ g_hooks' = NoHooks
  /\ UNCHANGED <<g_users, copied_hooks, l2_state, g_receive_endpoint>>

Uninstall(d) ==
  /\ g_hooks # NoHooks
  /\ DriverOf[g_hooks] = d
  /\ g_users = 0
  /\ g_receive_endpoint = NoEndpoint
  /\ g_hooks' = NoHooks
  /\ UNCHANGED <<g_users, copied_hooks, l2_state, g_receive_endpoint>>

--------------------------------------------------------------------------------
(* Driver instances, driver_ws63.c *)

Ws63Init(i) ==
  /\ g_hooks # NoHooks
  /\ copied_hooks[i] = NoHooks
  /\ g_users' = g_users + 1
  /\ copied_hooks' = [copied_hooks EXCEPT ![i] = g_hooks]
  /\ UNCHANGED <<g_hooks, l2_state, g_receive_endpoint>>

\* No context, no memory or no MAC address: the user acquired on entry is
\* released again; without a registration there is none to release.
Ws63InitFails ==
  /\ g_users' = IF g_hooks # NoHooks THEN Released(g_users + 1) ELSE g_users
  /\ UNCHANGED <<g_hooks, copied_hooks, l2_state, g_receive_endpoint>>

Ws63Deinit(i) ==
  /\ copied_hooks[i] # NoHooks
  /\ copied_hooks' = [copied_hooks EXCEPT ![i] = NoHooks]
  /\ g_users' = Released(g_users)
  /\ UNCHANGED <<g_hooks, l2_state, g_receive_endpoint>>

--------------------------------------------------------------------------------
(* EAPOL endpoints, l2_packet_ws63.c *)

L2InitLastReceiverWins(e, kind) ==   \* faulty variant: no check for a receiver
  /\ g_hooks # NoHooks
  /\ l2_state[e] = "free"
  /\ l2_state' = [l2_state EXCEPT ![e] = kind]
  /\ g_receive_endpoint' = IF kind = "receive" THEN e ELSE g_receive_endpoint
  /\ g_users' = g_users + 1
  /\ UNCHANGED <<g_hooks, copied_hooks>>

L2Init(e, kind) ==
  /\ g_hooks # NoHooks
  /\ l2_state[e] = "free"
  /\ kind = "receive" => g_receive_endpoint = NoEndpoint
  /\ l2_state' = [l2_state EXCEPT ![e] = kind]
  /\ g_receive_endpoint' = IF kind = "receive" THEN e ELSE g_receive_endpoint
  /\ g_users' = g_users + 1
  /\ UNCHANGED <<g_hooks, copied_hooks>>

L2InitFailsWithoutRelease ==   \* faulty variant: the error path keeps its user
  /\ g_hooks # NoHooks
  /\ g_users' = g_users + 1
  /\ UNCHANGED <<g_hooks, copied_hooks, l2_state, g_receive_endpoint>>

\* Not the EAPOL ethertype, a second receiver, no memory or no MAC address.
L2InitFails ==
  /\ g_hooks # NoHooks
  /\ g_users' = Released(g_users + 1)
  /\ UNCHANGED <<g_hooks, copied_hooks, l2_state, g_receive_endpoint>>

L2Deinit(e) ==
  /\ l2_state[e] # "free"
  /\ l2_state' = [l2_state EXCEPT ![e] = "free"]
  /\ g_receive_endpoint' =
       IF g_receive_endpoint = e THEN NoEndpoint ELSE g_receive_endpoint
  /\ g_users' = Released(g_users)
  /\ UNCHANGED <<g_hooks, copied_hooks>>

--------------------------------------------------------------------------------
Next ==
  \/ \E h \in Hooks : Install(h)
  \/ \E d \in Drivers : Uninstall(d)
  \/ \E i \in Instances : Ws63Init(i) \/ Ws63Deinit(i)
  \/ Ws63InitFails
  \/ \E e \in Endpoints, kind \in {"send", "receive"} : L2Init(e, kind)
  \/ \E e \in Endpoints : L2Deinit(e)
  \/ L2InitFails

Spec == Init /\ [][Next]_vars

--------------------------------------------------------------------------------
(* Every variable keeps its C type's range; in particular the unsigned     *)
(* count g_users never wraps below zero (hisi_wpa_driver_port.c:75).       *)
TypeOK ==
  /\ g_hooks \in Hooks \cup {NoHooks}
  /\ g_users \in Nat
  /\ copied_hooks \in [Instances -> Hooks \cup {NoHooks}]
  /\ l2_state \in [Endpoints -> {"free", "send", "receive"}]
  /\ g_receive_endpoint \in Endpoints \cup {NoEndpoint}

(* g_users counts exactly the live driver instances and endpoints: no      *)
(* error path of ws63_init or l2_packet_init leaks or over-releases a user *)
(* (driver_ws63.c:167-170, l2_packet_ws63.c:36-49).                        *)
UsersCounted == g_users = Cardinality(LiveUsers)

(* Every live driver instance calls through the table that is installed    *)
(* now: its private copy never outlives or diverges from g_hooks, which    *)
(* l2_packet_send reads afresh (driver_ws63.c:159, l2_packet_ws63.c:94).   *)
CopiesCurrent == \A i \in LiveInstances : copied_hooks[i] = g_hooks

(* Frames are delivered to the only endpoint that has a receive callback:  *)
(* there is never a second receiver shadowed by the first, and the pointer *)
(* hisi_wpa_l2_feed dereferences is never a freed endpoint                 *)
(* (l2_packet_ws63.c:35-39, 76-77, 119).                                   *)
OneReceiver ==
  {e \in Endpoints : l2_state[e] = "receive"} = {g_receive_endpoint} \ {NoEndpoint}

(* Nothing that lives points to a registration or an endpoint that is gone *)
(* (driver_ws63.c, l2_packet_ws63.c:35-39).                                *)
HooksCurrent == CopiesCurrent /\ OneReceiver

(* The counted registration implements the lease discipline: it cannot be  *)
(* removed or replaced while an instance or an endpoint is alive.          *)
Lease == INSTANCE DriverLease
           WITH Holders <- Instances \cup Endpoints,
                registration <- g_hooks, leases <- LiveUsers

ImplementsLease == Lease!Spec
================================================================================
