----------------------------- MODULE Authenticator -----------------------------
(***************************************************************************)
(* The access point: contexts of authenticator_ws63.c over the counted     *)
(* registration of hisi_wpa_ap_driver_port.c, the driver instance that     *)
(* driver_ws63_ap.c makes for a starting interface, and the endpoints of   *)
(* l2_packet_ws63_ap.c, which copy the hook table too.                     *)
(*                                                                         *)
(* hisi_wpa_ap_start goes through four calls that may fail, each with a    *)
(* label of its own that undoes what came before; every call and every     *)
(* label is a step here (pc).  hostapd is external: it holds one interface *)
(* with the configuration read at its creation, and may set timers that    *)
(* point to the interface as long as that exists.                          *)
(***************************************************************************)
EXTENDS Naturals, FiniteSets

CONSTANTS
  Contexts,    (* storage for struct hisi_wpa_ap_context               *)
  Hooks,       (* valid hook tables                                    *)
  Drivers,     (* values of the `driver` pointer                       *)
  DriverOf,    (* the `driver` field of each table                     *)
  Endpoints,   (* blocks l2_packet_init can return                     *)
  Configs,     (* configurations that hisi_wpa_ap_configure accepts    *)
  None         (* a NULL pointer, a cleared table, no configuration    *)

ASSUME AuthenticatorAssumption ==
  /\ DriverOf \in [Hooks -> Drivers]
  /\ None \notin Hooks \cup Drivers \cup Contexts \cup Configs
  /\ Contexts \cap Endpoints = {}

VARIABLES
  g_hooks, g_users,    (* the registration                                 *)
  l2_hooks,            (* per endpoint: its copy of the table, None = free *)
  netdev,              (* drivers whose network device is enabled          *)
  g_config_context,    (* the context that has the event loop and hostapd  *)
  g_initialized,       (* of the event loop                                *)
  timers,              (* contexts whose interface a timer points to       *)
  driver_owner,        (* per context; None = no context in the storage    *)
  config, started,     (* per context                                      *)
  interface,           (* per context: the configuration its hostapd       *)
                       (* interface was made with, None = no interface     *)
  drv_priv,            (* per context: the copy of the table in the driver *)
                       (* instance of that interface, None = no instance   *)
  leaving,             (* driver_owner of the context being destroyed      *)
  pc,                  (* "idle", or the next call or label of ap_start,   *)
                       (* or "uninstall" within ap_destroy                 *)
  stuck                (* history: drivers that refused to disable theirs  *)

port     == <<g_hooks, g_users, l2_hooks, netdev, stuck>>
loop     == <<g_initialized, timers>>
contexts == <<driver_owner, config, started, interface, drv_priv, leaving>>
vars == <<port, loop, contexts, g_config_context, pc>>

LiveInstances == {c \in Contexts : drv_priv[c] # None}
LiveEndpoints == {e \in Endpoints : l2_hooks[e] # None}
LiveUsers     == LiveInstances \cup LiveEndpoints

Init ==
  /\ g_hooks = None /\ g_users = 0
  /\ l2_hooks = [e \in Endpoints |-> None]
  /\ netdev = {} /\ stuck = {}
  /\ g_config_context = None
  /\ g_initialized = FALSE /\ timers = {}
  /\ driver_owner = [c \in Contexts |-> None]
  /\ config = [c \in Contexts |-> None]
  /\ started = [c \in Contexts |-> FALSE]
  /\ interface = [c \in Contexts |-> None]
  /\ drv_priv = [c \in Contexts |-> None]
  /\ leaving = None /\ pc = "idle"

--------------------------------------------------------------------------------
(* Registration and endpoints *)

Released(users) == IF users # 0 THEN users - 1 ELSE users

InstallIdle(h) ==
  /\ g_hooks = None
  /\ g_hooks' = h

Install(h) ==
  /\ pc = "idle"
  /\ InstallIdle(h)
  /\ UNCHANGED <<g_users, l2_hooks, netdev, stuck, loop, contexts,
                 g_config_context, pc>>

UninstallableInUse(d) ==   \* faulty variant: does not look at g_users
  /\ g_hooks # None
  /\ DriverOf[g_hooks] = d

Uninstallable(d) ==
  /\ g_hooks # None
  /\ DriverOf[g_hooks] = d
  /\ g_users = 0

Uninstall(d) ==
  /\ pc = "idle"
  /\ Uninstallable(d)
  /\ g_hooks' = None
  /\ UNCHANGED <<g_users, l2_hooks, netdev, stuck, loop, contexts,
                 g_config_context, pc>>

L2Init(e) ==
  /\ pc = "idle" /\ g_hooks # None /\ l2_hooks[e] = None
  /\ l2_hooks' = [l2_hooks EXCEPT ![e] = g_hooks]
  /\ g_users' = g_users + 1
  /\ UNCHANGED <<g_hooks, netdev, stuck, loop, contexts, g_config_context, pc>>

\* Not the EAPOL ethertype, no memory or no MAC address; without a
\* registration nothing was acquired.
L2InitFails ==
  /\ pc = "idle"
  /\ g_users' = IF g_hooks # None THEN Released(g_users + 1) ELSE g_users
  /\ UNCHANGED <<g_hooks, l2_hooks, netdev, stuck, loop, contexts,
                 g_config_context, pc>>

L2Deinit(e) ==
  /\ pc = "idle" /\ l2_hooks[e] # None
  /\ l2_hooks' = [l2_hooks EXCEPT ![e] = None]
  /\ g_users' = Released(g_users)
  /\ UNCHANGED <<g_hooks, netdev, stuck, loop, contexts, g_config_context, pc>>

--------------------------------------------------------------------------------
(* Contexts *)

\* An equal table that is installed already is as good as installing it.
Create(c, h) ==
  /\ pc = "idle" /\ driver_owner[c] = None
  /\ InstallIdle(h) \/ (g_hooks = h /\ UNCHANGED g_hooks)
  /\ driver_owner' = [driver_owner EXCEPT ![c] = DriverOf[h]]
  /\ UNCHANGED <<g_users, l2_hooks, netdev, stuck, loop, config, started,
                 interface, drv_priv, leaving, g_config_context, pc>>

ConfigureAnyTime(c, f) ==   \* faulty variant: also while the interface runs
  /\ pc = "idle" /\ driver_owner[c] # None
  /\ config' = [config EXCEPT ![c] = f]
  /\ UNCHANGED <<port, loop, driver_owner, started, interface, drv_priv,
                 leaving, g_config_context, pc>>

Configure(c, f) ==
  /\ pc = "idle" /\ driver_owner[c] # None
  /\ ~started[c]
  /\ config' = [config EXCEPT ![c] = f]
  /\ UNCHANGED <<port, loop, driver_owner, started, interface, drv_priv,
                 leaving, g_config_context, pc>>

--------------------------------------------------------------------------------
(* hisi_wpa_ap_start *)

c0 == g_config_context   \* the context that is starting

StartBegins(c) ==
  /\ pc = "idle"
  /\ config[c] # None /\ ~started[c] /\ g_config_context = None
  /\ g_config_context' = c
  /\ pc' = "eloop_init"
  /\ UNCHANGED <<port, loop, contexts>>

Goto(from, to) == pc = from /\ pc' = to

\* It fails without OS hooks, or when the loop is in use.
StartEloop ==
  \/ /\ Goto("eloop_init", "hostapd_init")
     /\ ~g_initialized
     /\ g_initialized' = TRUE /\ timers' = {}
     /\ UNCHANGED <<port, contexts, g_config_context>>
  \/ /\ Goto("eloop_init", "failed_eloop_init")
     /\ UNCHANGED <<port, loop, contexts, g_config_context>>

\* hostapd reads the configuration through memory_config_read.
StartHostapd ==
  \/ /\ Goto("hostapd_init", "driver_init")
     /\ interface' = [interface EXCEPT ![c0] = config[c0]]
     /\ UNCHANGED <<port, loop, driver_owner, config, started, drv_priv,
                    leaving, g_config_context>>
  \/ /\ Goto("hostapd_init", "failed_hostapd_init")
     /\ UNCHANGED <<port, loop, contexts, g_config_context>>

HostapdSetsTimers(c) == timers' \in {timers, timers \cup {c}}

\* ws63_ap_init: the network device is enabled last.
StartDriver ==
  /\ Goto("driver_init", "setup_interface")
  /\ g_hooks # None
  /\ g_users' = g_users + 1
  /\ drv_priv' = [drv_priv EXCEPT ![c0] = g_hooks]
  /\ netdev' = netdev \cup {DriverOf[g_hooks]}
  /\ stuck' = stuck \ {DriverOf[g_hooks]}
  /\ UNCHANGED <<g_hooks, l2_hooks, loop, driver_owner, config, started,
                 interface, leaving, g_config_context>>

StartDriverFails ==
  /\ Goto("driver_init", "failed_driver_init")
  /\ g_users' = IF g_hooks # None THEN Released(g_users + 1) ELSE g_users
  /\ UNCHANGED <<g_hooks, l2_hooks, netdev, stuck, loop, contexts,
                 g_config_context>>

StartSetup ==
  /\ HostapdSetsTimers(c0)
  /\ \/ /\ Goto("setup_interface", "idle")
        /\ started' = [started EXCEPT ![c0] = TRUE]
     \/ /\ Goto("setup_interface", "failed_setup_interface")
        /\ UNCHANGED started
  /\ UNCHANGED <<port, g_initialized, driver_owner, config, interface, drv_priv,
                 leaving, g_config_context>>

\* ws63_ap_deinit does not look at the answer of the hook.
DisableNetdev(d) ==
  \/ netdev' = netdev \ {d} /\ stuck' = stuck \ {d}
  \/ netdev' = netdev /\ stuck' = stuck \cup {d}

\* hostapd_interface_deinit_free, which ends in ws63_ap_deinit when the
\* interface has a driver instance.
InterfaceFreed(c) ==
  /\ interface' = [interface EXCEPT ![c] = None]
  /\ drv_priv' = [drv_priv EXCEPT ![c] = None]
  /\ IF drv_priv[c] = None
     THEN UNCHANGED <<g_users, netdev, stuck>>
     ELSE g_users' = Released(g_users) /\ DisableNetdev(DriverOf[drv_priv[c]])

EloopDestroyed == g_initialized' = FALSE /\ timers' = {}

\* Two labels with the same statements.
FailedWithInterface ==
  /\ \/ Goto("failed_setup_interface", "idle")
     \/ Goto("failed_driver_init", "idle")
  /\ InterfaceFreed(c0)
  /\ EloopDestroyed
  /\ g_config_context' = None
  /\ UNCHANGED <<g_hooks, l2_hooks, driver_owner, config, started, leaving>>

FailedHostapdInitKeepingEloop ==   \* faulty variant: no eloop_destroy
  /\ Goto("failed_hostapd_init", "idle")
  /\ g_config_context' = None
  /\ UNCHANGED <<port, loop, contexts>>

FailedHostapdInit ==
  /\ Goto("failed_hostapd_init", "idle")
  /\ EloopDestroyed
  /\ g_config_context' = None
  /\ UNCHANGED <<port, contexts>>

FailedEloopInit ==
  /\ Goto("failed_eloop_init", "idle")
  /\ g_config_context' = None
  /\ UNCHANGED <<port, loop, contexts>>

--------------------------------------------------------------------------------
(* A running access point *)

\* A poll or a feed: hostapd runs, and its timers come and go.
HostapdRuns(c) ==
  /\ pc = "idle" /\ started[c]
  /\ timers' \in {timers \cup {c}, timers \ {c}}
  /\ UNCHANGED <<port, g_initialized, contexts, g_config_context, pc>>

Stopped(c) ==
  /\ InterfaceFreed(c)
  /\ EloopDestroyed
  /\ g_config_context' = None

Stop(c) ==
  /\ pc = "idle" /\ started[c] /\ g_config_context = c
  /\ Stopped(c)
  /\ started' = [started EXCEPT ![c] = FALSE]
  /\ UNCHANGED <<g_hooks, l2_hooks, driver_owner, config, leaving, pc>>

Zeroed(c) ==
  /\ driver_owner' = [driver_owner EXCEPT ![c] = None]
  /\ started' = [started EXCEPT ![c] = FALSE]
  /\ config' = [config EXCEPT ![c] = None]

\* It stops what runs, zeroes the storage, and then tries to uninstall.
Destroy(c) ==
  /\ driver_owner[c] # None
  /\ Goto("idle", "uninstall")
  /\ IF started[c] /\ g_config_context = c
     THEN Stopped(c)
     ELSE /\ UNCHANGED <<g_users, netdev, stuck, loop, g_config_context,
                         drv_priv>>
          /\ interface' = [interface EXCEPT ![c] = None]
  /\ Zeroed(c)
  /\ leaving' = driver_owner[c]
  /\ UNCHANGED <<g_hooks, l2_hooks>>

DestroyUninstalls ==
  /\ Goto("uninstall", "idle")
  /\ g_hooks' = IF Uninstallable(leaving) THEN None ELSE g_hooks
  /\ leaving' = None
  /\ UNCHANGED <<g_users, l2_hooks, netdev, stuck, loop, driver_owner, config,
                 started, interface, drv_priv, g_config_context>>

--------------------------------------------------------------------------------
Start ==
  \/ StartEloop \/ StartHostapd \/ StartDriver \/ StartDriverFails \/ StartSetup
  \/ FailedWithInterface \/ FailedHostapdInit \/ FailedEloopInit

Next ==
  \/ Start
  \/ L2InitFails \/ DestroyUninstalls
  \/ \E h \in Hooks : Install(h)
  \/ \E d \in Drivers : Uninstall(d)
  \/ \E e \in Endpoints : L2Init(e) \/ L2Deinit(e)
  \/ \E c \in Contexts :
       \/ StartBegins(c) \/ HostapdRuns(c) \/ Stop(c) \/ Destroy(c)
       \/ \E h \in Hooks : Create(c, h)
       \/ \E f \in Configs : Configure(c, f)

Spec == Init /\ [][Next]_vars

--------------------------------------------------------------------------------
(* Every variable keeps its range; only storage that holds a context is    *)
(* configured or started.                                                  *)
TypeOK ==
  /\ g_hooks \in Hooks \cup {None} /\ g_users \in Nat
  /\ l2_hooks \in [Endpoints -> Hooks \cup {None}]
  /\ netdev \subseteq Drivers /\ stuck \subseteq Drivers
  /\ g_config_context \in Contexts \cup {None}
  /\ g_initialized \in BOOLEAN /\ timers \subseteq Contexts
  /\ driver_owner \in [Contexts -> Drivers \cup {None}]
  /\ config \in [Contexts -> Configs \cup {None}]
  /\ started \in [Contexts -> BOOLEAN]
  /\ interface \in [Contexts -> Configs \cup {None}]
  /\ drv_priv \in [Contexts -> Hooks \cup {None}]
  /\ leaving \in Drivers \cup {None}
  /\ pc \in {"idle", "uninstall", "eloop_init", "hostapd_init", "driver_init",
             "setup_interface", "failed_eloop_init", "failed_hostapd_init",
             "failed_driver_init", "failed_setup_interface"}
  /\ \A c \in Contexts : config[c] # None => driver_owner[c] # None

(* g_users counts the live driver instances and endpoints, although the    *)
(* failure paths of ws63_ap_init and l2_packet_init share their label with *)
(* the path that acquired nothing, and the instance is freed from three    *)
(* places (driver_ws63_ap.c:92-95, 98-107, l2_packet_ws63_ap.c:44-46).     *)
UsersCounted == g_users = Cardinality(LiveUsers)

(* Between calls the event loop, the interface, the driver instance and    *)
(* the timers all belong to the one started context or do not exist: every *)
(* failure label and every stop undoes all of the start                    *)
(* (authenticator_ws63.c:197-215, 295-307).                                *)
NothingLeftBehind ==
  pc = "idle" =>
    \A c \in Contexts :
      IF c = g_config_context
      THEN started[c] /\ g_initialized /\ interface[c] # None /\ drv_priv[c] # None
      ELSE /\ ~started[c] /\ interface[c] = None /\ drv_priv[c] = None
           /\ c \notin timers
           /\ g_config_context = None => ~g_initialized

(* A started context runs with the configuration it still shows, through a *)
(* table that is installed, on a network device that is enabled: it can be *)
(* neither configured nor robbed of its registration                       *)
(* (authenticator_ws63.c:142, hisi_wpa_ap_driver_port.c:51).               *)
RunsAsConfigured ==
  \A c \in Contexts :
    started[c] => /\ interface[c] = config[c]
                  /\ drv_priv[c] = g_hooks
                  /\ DriverOf[g_hooks] \in netdev

(* A network device is enabled only while a driver instance uses it, or    *)
(* since its driver refused to disable it                                  *)
(* (driver_ws63_ap.c:84, 103).                                             *)
NetdevFollows ==
  netdev \subseteq stuck \cup {DriverOf[drv_priv[c]] : c \in LiveInstances}

(* What runs is what was configured, and what does not run is switched off *)
(* (authenticator_ws63.c:142, driver_ws63_ap.c:84-103).                    *)
RunsFaithful == RunsAsConfigured /\ NetdevFollows

(* The counted registration of the access point implements the same lease  *)
(* as the station's: never removed or replaced while it is in use.         *)
Lease == INSTANCE DriverLease
           WITH Holders <- Contexts \cup Endpoints, NoHooks <- None,
                registration <- g_hooks, leases <- LiveUsers

ImplementsLease == Lease!Spec
================================================================================
