-------------------------- MODULE AuthenticatorProofs --------------------------
(***************************************************************************)
(* The access point is safe for every set of contexts, tables, endpoints   *)
(* and configurations.  The invariants the runs check are not inductive:   *)
(* a failure label undoes what it assumes was done, so the proof needs     *)
(* what exists at every label of hisi_wpa_ap_start (OnlyOne, StartPhase).  *)
(***************************************************************************)
EXTENDS Authenticator, Collections

Resting == {"idle", "uninstall"}

\* Everything an access point needs belongs to g_config_context.
OnlyOne ==
  /\ g_config_context = None => pc \in Resting /\ ~g_initialized
  /\ timers \subseteq IF g_initialized THEN {g_config_context} ELSE {}
  /\ \A c \in Contexts \ {g_config_context} :
       ~started[c] /\ interface[c] = None /\ drv_priv[c] = None

\* What has been acquired at each call and label of hisi_wpa_ap_start.
StartPhase ==
  \A c \in Contexts : c = g_config_context =>
    /\ config[c] # None
    /\ started[c] <=> pc \in Resting
    /\ ~g_initialized <=> pc \in {"eloop_init", "failed_eloop_init"}
    /\ interface[c] = None <=>
         pc \in {"eloop_init", "failed_eloop_init", "hostapd_init",
                 "failed_hostapd_init"}
    /\ drv_priv[c] # None <=>
         pc \in Resting \cup {"setup_interface", "failed_setup_interface"}

Counted ==
  /\ IsFiniteSet(LiveUsers)
  /\ UsersCounted
  /\ LiveUsers # {} => g_hooks # None

Current ==
  \A c \in LiveInstances : /\ drv_priv[c] = g_hooks
                           /\ DriverOf[drv_priv[c]] \in netdev

Faithful == \A c \in Contexts : interface[c] \in {None, config[c]}

IInv ==
  /\ TypeOK
  /\ OnlyOne
  /\ StartPhase
  /\ Counted
  /\ Current
  /\ Faithful
  /\ NetdevFollows

USE DEF Goto, c0, port, loop, contexts, vars

--------------------------------------------------------------------------------
(* What a step does to the users of the registration. *)

SameUsers == UNCHANGED <<g_hooks, g_users, LiveUsers>>

Registers ==
  /\ g_hooks = None /\ g_hooks' \in Hooks
  /\ UNCHANGED <<g_users, LiveUsers>>

Unregisters ==
  /\ g_hooks # None /\ g_users = 0 /\ g_hooks' = None
  /\ UNCHANGED <<g_users, LiveUsers>>

Takes(x) ==
  /\ g_hooks # None /\ UNCHANGED g_hooks
  /\ x \notin LiveUsers /\ LiveUsers' = LiveUsers \cup {x}
  /\ g_users' = g_users + 1

Returns(x) ==
  /\ UNCHANGED g_hooks
  /\ x \in LiveUsers /\ LiveUsers' = LiveUsers \ {x}
  /\ g_users' = Released(g_users)

(* The steps that leave driver instances and endpoints alone. *)
LEMMA SameLiveUsers ==
  ASSUME UNCHANGED <<l2_hooks, drv_priv>> PROVE UNCHANGED LiveUsers
BY DEF LiveUsers, LiveInstances, LiveEndpoints

(* Freeing the interface of a context returns its driver instance. *)
LEMMA InterfaceFreedUsers ==
  ASSUME TypeOK, NEW c \in Contexts, InterfaceFreed(c),
         UNCHANGED <<g_hooks, l2_hooks>>
  PROVE  SameUsers \/ Returns(c)
<1>1. LiveEndpoints' = LiveEndpoints /\ c \notin LiveEndpoints
  BY AuthenticatorAssumption DEF LiveEndpoints
<1>2. LiveInstances' = LiveInstances \ {c}
  BY DEF InterfaceFreed, LiveInstances, TypeOK
<1>3. CASE drv_priv[c] = None
  <2>1. c \notin LiveInstances
    BY <1>3 DEF LiveInstances
  <2>. QED  BY <1>1, <1>2, <1>3, <2>1 DEF InterfaceFreed, SameUsers, LiveUsers
<1>4. CASE drv_priv[c] # None
  <2>1. c \in LiveInstances
    BY <1>4 DEF LiveInstances
  <2>. QED  BY <1>1, <1>2, <1>4, <2>1 DEF InterfaceFreed, Returns, LiveUsers
<1>. QED  BY <1>3, <1>4

(* Between StartBegins and the end of the start there is a context. *)
LEMMA Starting ==
  ASSUME TypeOK, OnlyOne, pc \notin Resting
  PROVE  c0 \in Contexts
BY DEF TypeOK, OnlyOne

LEMMA UserEffects ==
  ASSUME IInv, [Next]_vars
  PROVE  \/ SameUsers \/ Registers \/ Unregisters
         \/ \E x \in Contexts \cup Endpoints : Takes(x) \/ Returns(x)
<1>. USE DEF IInv
<1>1. ASSUME NEW h \in Hooks, Install(h) PROVE Registers
  BY <1>1, SameLiveUsers DEF Install, InstallIdle, Registers
<1>2. ASSUME NEW d \in Drivers, Uninstall(d) PROVE Unregisters
  BY <1>2, SameLiveUsers DEF Uninstall, Uninstallable, Unregisters
<1>3. ASSUME NEW e \in Endpoints, L2Init(e) PROVE Takes(e)
  <2>1. LiveEndpoints' = LiveEndpoints \cup {e} /\ e \notin LiveEndpoints
    BY <1>3 DEF L2Init, LiveEndpoints, TypeOK
  <2>2. LiveInstances' = LiveInstances /\ e \notin LiveInstances
    BY <1>3, AuthenticatorAssumption DEF L2Init, LiveInstances
  <2>. QED  BY <1>3, <2>1, <2>2 DEF L2Init, Takes, LiveUsers
<1>4. ASSUME NEW e \in Endpoints, L2Deinit(e) PROVE Returns(e)
  <2>1. LiveEndpoints' = LiveEndpoints \ {e} /\ e \in LiveEndpoints
    BY <1>4 DEF L2Deinit, LiveEndpoints, TypeOK
  <2>2. LiveInstances' = LiveInstances /\ e \notin LiveInstances
    BY <1>4, AuthenticatorAssumption DEF L2Deinit, LiveInstances
  <2>. QED  BY <1>4, <2>1, <2>2 DEF L2Deinit, Returns, LiveUsers
<1>5. ASSUME L2InitFails \/ StartDriverFails PROVE SameUsers
  <2>1. g_users' = g_users
    BY <1>5 DEF L2InitFails, StartDriverFails, Released, TypeOK
  <2>. QED
    BY <1>5, <2>1, SameLiveUsers DEF L2InitFails, StartDriverFails, SameUsers
<1>6. ASSUME NEW c \in Contexts, NEW h \in Hooks, Create(c, h)
      PROVE  SameUsers \/ Registers
  BY <1>6, SameLiveUsers DEF Create, InstallIdle, SameUsers, Registers
<1>7. ASSUME StartDriver PROVE Takes(c0) /\ c0 \in Contexts
  <2>1. c0 \in Contexts /\ c0 \notin LiveInstances
    BY <1>7, Starting DEF StartDriver, StartPhase, LiveInstances, Resting
  <2>2. LiveInstances' = LiveInstances \cup {c0}
    BY <1>7, <2>1, AuthenticatorAssumption DEF StartDriver, LiveInstances, TypeOK
  <2>3. LiveEndpoints' = LiveEndpoints /\ c0 \notin LiveEndpoints
    BY <1>7, <2>1, AuthenticatorAssumption DEF StartDriver, LiveEndpoints
  <2>. QED  BY <1>7, <2>1, <2>2, <2>3 DEF StartDriver, Takes, LiveUsers
<1>8. ASSUME FailedWithInterface
      PROVE  SameUsers \/ (Returns(c0) /\ c0 \in Contexts)
  <2>1. c0 \in Contexts
    BY <1>8, Starting DEF FailedWithInterface, Resting
  <2>. QED  BY <1>8, <2>1, InterfaceFreedUsers DEF FailedWithInterface
<1>9. ASSUME NEW c \in Contexts, Stop(c) PROVE SameUsers \/ Returns(c)
  BY <1>9, InterfaceFreedUsers DEF Stop, Stopped
<1>10. ASSUME NEW c \in Contexts, Destroy(c) PROVE SameUsers \/ Returns(c)
  <2>1. CASE started[c] /\ g_config_context = c
    BY <1>10, <2>1, InterfaceFreedUsers DEF Destroy, Stopped
  <2>2. CASE ~(started[c] /\ g_config_context = c)
    BY <1>10, <2>2, SameLiveUsers DEF Destroy, SameUsers
  <2>. QED  BY <2>1, <2>2
<1>11. ASSUME DestroyUninstalls PROVE SameUsers \/ Unregisters
  BY <1>11, SameLiveUsers
     DEF DestroyUninstalls, Uninstallable, SameUsers, Unregisters
<1>12. ASSUME \/ StartEloop \/ StartHostapd \/ StartSetup
              \/ FailedHostapdInit \/ FailedEloopInit \/ UNCHANGED vars
              \/ \E c \in Contexts : \/ StartBegins(c) \/ HostapdRuns(c)
                                     \/ \E f \in Configs : Configure(c, f)
       PROVE  SameUsers
  BY <1>12, SameLiveUsers
     DEF StartEloop, StartHostapd, StartSetup, FailedHostapdInit, FailedEloopInit,
         StartBegins, HostapdRuns, Configure, SameUsers
<1>. QED
  BY <1>1, <1>2, <1>3, <1>4, <1>5, <1>6, <1>7, <1>8, <1>9, <1>10, <1>11, <1>12
     DEF Next, Start

--------------------------------------------------------------------------------
(* Each part of the invariant, one step at a time. *)

LEMMA CountedStep ==
  ASSUME IInv, [Next]_vars, TypeOK' PROVE Counted'
<1>. USE DEF IInv, Counted
<1>1. ASSUME SameUsers PROVE Counted'
  BY <1>1 DEF SameUsers, UsersCounted
<1>2. ASSUME Registers PROVE Counted'
  BY <1>2, AuthenticatorAssumption DEF Registers, UsersCounted
<1>3. ASSUME Unregisters PROVE Counted'
  <2>1. LiveUsers = {}
    BY <1>3, FS_EmptySet DEF Unregisters, UsersCounted
  <2>. QED  BY <1>3, <2>1 DEF Unregisters, UsersCounted
<1>4. ASSUME NEW x \in Contexts \cup Endpoints, Takes(x) PROVE Counted'
  BY <1>4, UserAdded DEF Takes, UsersCounted
<1>5. ASSUME NEW x \in Contexts \cup Endpoints, Returns(x) PROVE Counted'
  BY <1>5, UserRemoved DEF Returns, Released, UsersCounted
<1>. QED  BY <1>1, <1>2, <1>3, <1>4, <1>5, UserEffects

LEMMA TypeStep ==
  ASSUME IInv, [Next]_vars PROVE TypeOK'
<1>. USE DEF IInv, TypeOK
<1>1. ASSUME NEW h \in Hooks, Install(h) PROVE TypeOK'
  BY <1>1 DEF Install, InstallIdle
<1>2. ASSUME NEW d \in Drivers, Uninstall(d) PROVE TypeOK'
  BY <1>2 DEF Uninstall
<1>3. ASSUME NEW e \in Endpoints, L2Init(e) \/ L2Deinit(e) PROVE TypeOK'
  BY <1>3 DEF L2Init, L2Deinit, Released
<1>4. ASSUME L2InitFails \/ StartDriverFails PROVE TypeOK'
  BY <1>4 DEF L2InitFails, StartDriverFails, Released
<1>5. ASSUME NEW c \in Contexts, NEW h \in Hooks, Create(c, h) PROVE TypeOK'
  BY <1>5, AuthenticatorAssumption DEF Create, InstallIdle
<1>6. ASSUME NEW c \in Contexts, NEW f \in Configs, Configure(c, f) PROVE TypeOK'
  BY <1>6 DEF Configure
<1>7. ASSUME NEW c \in Contexts, StartBegins(c) \/ HostapdRuns(c) PROVE TypeOK'
  BY <1>7 DEF StartBegins, HostapdRuns
<1>8. ASSUME StartEloop \/ FailedHostapdInit \/ FailedEloopInit PROVE TypeOK'
  BY <1>8 DEF StartEloop, FailedHostapdInit, FailedEloopInit, EloopDestroyed
<1>9. ASSUME StartHostapd \/ StartDriver \/ StartSetup PROVE TypeOK'
  <2>1. c0 \in Contexts
    BY <1>9, Starting DEF StartHostapd, StartDriver, StartSetup, Resting
  <2>2. CASE StartHostapd
    BY <2>1, <2>2 DEF StartHostapd
  <2>3. CASE StartDriver
    BY <2>1, <2>3, AuthenticatorAssumption DEF StartDriver
  <2>4. CASE StartSetup
    BY <2>1, <2>4 DEF StartSetup, HostapdSetsTimers
  <2>. QED  BY <1>9, <2>2, <2>3, <2>4
<1>10. ASSUME NEW c \in Contexts, InterfaceFreed(c)
       PROVE  /\ interface' \in [Contexts -> Configs \cup {None}]
              /\ drv_priv' \in [Contexts -> Hooks \cup {None}]
              /\ g_users' \in Nat
              /\ netdev' \subseteq Drivers /\ stuck' \subseteq Drivers
  <2>1. CASE drv_priv[c] = None
    BY <1>10, <2>1 DEF InterfaceFreed
  <2>2. CASE drv_priv[c] # None
    BY <1>10, <2>2, AuthenticatorAssumption
       DEF InterfaceFreed, Released, DisableNetdev
  <2>. QED  BY <2>1, <2>2
<1>11. ASSUME FailedWithInterface PROVE TypeOK'
  <2>1. c0 \in Contexts
    BY <1>11, Starting DEF FailedWithInterface, Resting
  <2>. QED  BY <1>10, <1>11, <2>1 DEF FailedWithInterface, EloopDestroyed
<1>12. ASSUME NEW c \in Contexts, Stop(c) PROVE TypeOK'
  BY <1>10, <1>12 DEF Stop, Stopped, EloopDestroyed
<1>13. ASSUME NEW c \in Contexts, Destroy(c) PROVE TypeOK'
  <2>1. CASE started[c] /\ g_config_context = c
    BY <1>10, <1>13, <2>1 DEF Destroy, Stopped, EloopDestroyed, Zeroed
  <2>2. CASE ~(started[c] /\ g_config_context = c)
    BY <1>13, <2>2 DEF Destroy, Zeroed
  <2>. QED  BY <2>1, <2>2
<1>14. ASSUME DestroyUninstalls PROVE TypeOK'
  BY <1>14 DEF DestroyUninstalls
<1>15. ASSUME UNCHANGED vars PROVE TypeOK'
  BY <1>15
<1>. QED
  BY <1>1, <1>2, <1>3, <1>4, <1>5, <1>6, <1>7, <1>8, <1>9, <1>11, <1>12, <1>13,
     <1>14, <1>15 DEF Next, Start

LEMMA OwnerStep ==
  ASSUME IInv, [Next]_vars PROVE OnlyOne' /\ StartPhase'
<1>. USE DEF IInv, OnlyOne, StartPhase, Resting
<1>1. ASSUME \/ L2InitFails \/ DestroyUninstalls \/ UNCHANGED vars
             \/ \E h \in Hooks : Install(h)
             \/ \E d \in Drivers : Uninstall(d)
             \/ \E e \in Endpoints : L2Init(e) \/ L2Deinit(e)
             \/ \E c \in Contexts, h \in Hooks : Create(c, h)
      PROVE  OnlyOne' /\ StartPhase'
  BY <1>1
     DEF L2InitFails, DestroyUninstalls, Install, Uninstall, L2Init, L2Deinit,
         Create
<1>2. ASSUME NEW c \in Contexts, StartBegins(c) PROVE OnlyOne' /\ StartPhase'
  <2>1. pc = "idle" /\ pc' = "eloop_init" /\ g_config_context = None
        /\ g_config_context' = c /\ config[c] # None
        /\ UNCHANGED <<config, started, interface, drv_priv, g_initialized, timers>>
    BY <1>2 DEF StartBegins
  <2>2. c # None /\ timers = {} /\ ~g_initialized
        /\ ~started[c] /\ interface[c] = None /\ drv_priv[c] = None
    BY <2>1, AuthenticatorAssumption DEF TypeOK
  <2>3. OnlyOne'
    BY <2>1, <2>2
  <2>4. StartPhase'
    BY <2>1, <2>2
  <2>. QED  BY <2>3, <2>4
<1>3. ASSUME NEW c \in Contexts, HostapdRuns(c) PROVE OnlyOne' /\ StartPhase'
  BY <1>3 DEF HostapdRuns
<1>4. ASSUME StartEloop PROVE OnlyOne' /\ StartPhase'
  BY <1>4 DEF StartEloop
<1>5. ASSUME StartHostapd PROVE OnlyOne' /\ StartPhase'
  <2>1. c0 \in Contexts /\ config[c0] # None
    BY <1>5, Starting DEF StartHostapd
  <2>. QED  BY <1>5, <2>1 DEF StartHostapd, TypeOK
<1>6. ASSUME StartDriver PROVE OnlyOne' /\ StartPhase'
  BY <1>6, Starting, AuthenticatorAssumption DEF StartDriver, TypeOK
<1>7. ASSUME StartDriverFails PROVE OnlyOne' /\ StartPhase'
  BY <1>7 DEF StartDriverFails
<1>8. ASSUME StartSetup PROVE OnlyOne' /\ StartPhase'
  BY <1>8, Starting DEF StartSetup, HostapdSetsTimers, TypeOK
<1>9. ASSUME FailedWithInterface PROVE OnlyOne' /\ StartPhase'
  <2>1. c0 \in Contexts /\ pc' = "idle" /\ g_config_context' = None
    BY <1>9, Starting DEF FailedWithInterface
  <2>2. /\ interface' = [interface EXCEPT ![c0] = None]
        /\ drv_priv' = [drv_priv EXCEPT ![c0] = None]
        /\ UNCHANGED started /\ timers' = {} /\ ~g_initialized'
    BY <1>9 DEF FailedWithInterface, InterfaceFreed, EloopDestroyed
  <2>3. ~started[c0]
    BY <1>9, <2>1 DEF FailedWithInterface
  <2>4. OnlyOne'
    BY <2>1, <2>2, <2>3 DEF TypeOK
  <2>. QED  BY <2>1, <2>4, AuthenticatorAssumption
<1>10. ASSUME FailedHostapdInit \/ FailedEloopInit PROVE OnlyOne' /\ StartPhase'
  <2>1. /\ c0 \in Contexts /\ pc' = "idle" /\ g_config_context' = None
        /\ UNCHANGED <<started, interface, drv_priv>>
    BY <1>10, Starting DEF FailedHostapdInit, FailedEloopInit
  <2>2. ~started[c0] /\ interface[c0] = None /\ drv_priv[c0] = None
    BY <1>10, <2>1 DEF FailedHostapdInit, FailedEloopInit
  <2>3. CASE FailedHostapdInit
    BY <2>1, <2>2, <2>3, AuthenticatorAssumption DEF FailedHostapdInit, EloopDestroyed
  <2>4. CASE FailedEloopInit
    <3>1. timers = {} /\ ~g_initialized
      BY <2>1, <2>4 DEF FailedEloopInit
    <3>. QED  BY <2>1, <2>2, <2>4, <3>1, AuthenticatorAssumption DEF FailedEloopInit
  <2>. QED  BY <1>10, <2>3, <2>4
<1>11. ASSUME NEW c \in Contexts, Stop(c) PROVE OnlyOne' /\ StartPhase'
  BY <1>11, AuthenticatorAssumption
     DEF Stop, Stopped, InterfaceFreed, EloopDestroyed, TypeOK
<1>12. ASSUME NEW c \in Contexts, Destroy(c) PROVE OnlyOne' /\ StartPhase'
  <2>1. CASE started[c] /\ g_config_context = c
    BY <1>12, <2>1, AuthenticatorAssumption
       DEF Destroy, Zeroed, Stopped, InterfaceFreed, EloopDestroyed, TypeOK
  <2>2. CASE ~(started[c] /\ g_config_context = c)
    BY <1>12, <2>2 DEF Destroy, Zeroed, TypeOK
  <2>. QED  BY <2>1, <2>2
<1>13. ASSUME NEW c \in Contexts, NEW f \in Configs, Configure(c, f)
       PROVE  OnlyOne' /\ StartPhase'
  <2>1. c # g_config_context
    BY <1>13 DEF Configure
  <2>2. \A d \in Contexts \ {c} : config'[d] = config[d]
    BY <1>13 DEF Configure, TypeOK
  <2>. QED  BY <1>13, <2>1, <2>2 DEF Configure
<1>. HIDE DEF OnlyOne, StartPhase, IInv
<1>. QED
  BY <1>1, <1>2, <1>3, <1>4, <1>5, <1>6, <1>7, <1>8, <1>9, <1>10, <1>11, <1>12,
     <1>13 DEF Next, Start

(* Freeing the interface of the one context that has something leaves no   *)
(* driver instance, and no network device on but a refused one.            *)
LEMMA InterfaceFreedLeavesNone ==
  ASSUME IInv, NEW c \in Contexts, c = g_config_context, InterfaceFreed(c)
  PROVE  /\ LiveInstances' = {}
         /\ netdev' \subseteq stuck'
<1>. USE DEF IInv
<1>1. LiveInstances \subseteq {c}
  BY DEF OnlyOne, LiveInstances
<1>2. LiveInstances' = {}
  BY <1>1 DEF InterfaceFreed, LiveInstances, TypeOK
<1>3. CASE drv_priv[c] = None
  BY <1>1, <1>2, <1>3 DEF InterfaceFreed, NetdevFollows, LiveInstances
<1>4. CASE drv_priv[c] # None
  <2>1. netdev \subseteq stuck \cup {DriverOf[drv_priv[c]]}
    BY <1>1 DEF NetdevFollows
  <2>. QED  BY <1>2, <1>4, <2>1 DEF InterfaceFreed, DisableNetdev
<1>. QED  BY <1>2, <1>3, <1>4

(* A registration that comes or goes finds no driver instance. *)
LEMMA NobodyLive ==
  ASSUME IInv, [Next]_vars, g_hooks' # g_hooks PROVE LiveInstances = {}
<1>. USE DEF IInv, Counted, LiveUsers
<1>1. CASE Registers
  BY <1>1 DEF Registers
<1>2. CASE Unregisters
  BY <1>2, FS_EmptySet DEF Unregisters, UsersCounted
<1>. QED  BY <1>1, <1>2, UserEffects DEF SameUsers, Takes, Returns

LEMMA DeviceStep ==
  ASSUME IInv, [Next]_vars PROVE Current' /\ NetdevFollows'
<1>1. ASSUME UNCHANGED <<drv_priv, netdev, stuck>>
      PROVE  Current' /\ NetdevFollows'
  <2>1. UNCHANGED LiveInstances
    BY <1>1 DEF LiveInstances
  <2>2. Current'
    BY <1>1, <2>1, NobodyLive DEF IInv, Current
  <2>. QED  BY <1>1, <2>1, <2>2 DEF IInv, NetdevFollows
<1>2. ASSUME StartDriver PROVE Current' /\ NetdevFollows'
  <2>1. c0 \in Contexts /\ c0 \notin LiveInstances /\ LiveInstances = {}
    BY <1>2, Starting
       DEF IInv, StartDriver, StartPhase, OnlyOne, LiveInstances, Resting
  <2>2. LiveInstances' = {c0} /\ drv_priv'[c0] = g_hooks
    BY <1>2, <2>1, AuthenticatorAssumption
       DEF IInv, StartDriver, LiveInstances, TypeOK
  <2>3. /\ netdev' = netdev \cup {DriverOf[g_hooks]}
        /\ stuck' = stuck \ {DriverOf[g_hooks]}
        /\ g_hooks' = g_hooks
    BY <1>2 DEF StartDriver
  <2>4. Current'
    BY <2>2, <2>3 DEF Current
  <2>5. netdev \subseteq stuck
    BY <2>1 DEF IInv, NetdevFollows
  <2>. QED  BY <2>2, <2>3, <2>4, <2>5 DEF NetdevFollows
<1>3. ASSUME NEW c \in Contexts, c = g_config_context, InterfaceFreed(c)
      PROVE  Current' /\ NetdevFollows'
  BY <1>3, InterfaceFreedLeavesNone DEF Current, NetdevFollows
<1>4. ASSUME FailedWithInterface PROVE Current' /\ NetdevFollows'
  <2>1. c0 \in Contexts
    BY <1>4, Starting DEF IInv, FailedWithInterface, Resting
  <2>. QED  BY <1>3, <1>4, <2>1 DEF FailedWithInterface
<1>5. ASSUME NEW c \in Contexts, Stop(c) PROVE Current' /\ NetdevFollows'
  BY <1>3, <1>5 DEF Stop, Stopped
<1>6. ASSUME NEW c \in Contexts, Destroy(c) PROVE Current' /\ NetdevFollows'
  BY <1>1, <1>3, <1>6 DEF Destroy, Stopped
<1>7. ASSUME \/ L2InitFails \/ DestroyUninstalls \/ UNCHANGED vars
             \/ StartEloop \/ StartHostapd \/ StartDriverFails \/ StartSetup
             \/ FailedHostapdInit \/ FailedEloopInit
             \/ \E h \in Hooks : Install(h)
             \/ \E d \in Drivers : Uninstall(d)
             \/ \E e \in Endpoints : L2Init(e) \/ L2Deinit(e)
             \/ \E c \in Contexts : \/ StartBegins(c) \/ HostapdRuns(c)
                                    \/ \E h \in Hooks : Create(c, h)
                                    \/ \E f \in Configs : Configure(c, f)
      PROVE  UNCHANGED <<drv_priv, netdev, stuck>>
  BY <1>7
     DEF L2InitFails, DestroyUninstalls, StartEloop, StartHostapd,
         StartDriverFails, StartSetup, FailedHostapdInit, FailedEloopInit,
         Install,
         Uninstall, L2Init, L2Deinit, StartBegins, HostapdRuns, Create, Configure
<1>. QED  BY <1>1, <1>2, <1>4, <1>5, <1>6, <1>7 DEF Next, Start

(* A configuration changes only where there is no interface. *)
LEMMA FaithfulStep ==
  ASSUME IInv, [Next]_vars PROVE Faithful'
<1>1. ASSUME UNCHANGED <<config, interface>> PROVE Faithful'
  BY <1>1 DEF IInv, Faithful
<1>2. ASSUME NEW c \in Contexts, UNCHANGED config,
             interface' = [interface EXCEPT ![c] = None] \/
             interface' = [interface EXCEPT ![c] = config[c]]
      PROVE  Faithful'
  BY <1>2 DEF IInv, Faithful, TypeOK
<1>3. ASSUME NEW c \in Contexts, interface' = [interface EXCEPT ![c] = None],
             config' = [config EXCEPT ![c] = None]
      PROVE  Faithful'
  BY <1>3 DEF IInv, Faithful, TypeOK
<1>4. ASSUME NEW c \in Contexts, NEW f \in Configs, Configure(c, f)
      PROVE  Faithful'
  <2>1. interface[c] = None
    BY <1>4 DEF IInv, Configure, OnlyOne, StartPhase, Resting
  <2>. QED  BY <1>4, <2>1 DEF IInv, Configure, Faithful, TypeOK
<1>5. ASSUME StartHostapd \/ FailedWithInterface PROVE Faithful'
  <2>1. c0 \in Contexts
    BY <1>5, Starting DEF IInv, StartHostapd, FailedWithInterface, Resting
  <2>. QED
    BY <1>1, <1>2, <1>5, <2>1 DEF StartHostapd, FailedWithInterface, InterfaceFreed
<1>6. ASSUME NEW c \in Contexts, Stop(c) PROVE Faithful'
  BY <1>2, <1>6 DEF Stop, Stopped, InterfaceFreed
<1>7. ASSUME NEW c \in Contexts, Destroy(c) PROVE Faithful'
  BY <1>3, <1>7 DEF Destroy, Stopped, InterfaceFreed, Zeroed
<1>8. ASSUME \/ L2InitFails \/ DestroyUninstalls \/ UNCHANGED vars
             \/ StartEloop \/ StartDriver \/ StartDriverFails \/ StartSetup
             \/ FailedHostapdInit \/ FailedEloopInit
             \/ \E h \in Hooks : Install(h)
             \/ \E d \in Drivers : Uninstall(d)
             \/ \E e \in Endpoints : L2Init(e) \/ L2Deinit(e)
             \/ \E c \in Contexts : \/ StartBegins(c) \/ HostapdRuns(c)
                                    \/ \E h \in Hooks : Create(c, h)
      PROVE  UNCHANGED <<config, interface>>
  BY <1>8
     DEF L2InitFails, DestroyUninstalls, StartEloop, StartDriver,
         StartDriverFails, StartSetup, FailedHostapdInit, FailedEloopInit,
         Install,
         Uninstall, L2Init, L2Deinit, StartBegins, HostapdRuns, Create
<1>. QED  BY <1>1, <1>4, <1>5, <1>6, <1>7, <1>8 DEF Next, Start

--------------------------------------------------------------------------------
LEMMA InitIInv == Init => IInv
<1>. SUFFICES ASSUME Init PROVE IInv
  OBVIOUS
<1>. USE DEF Init
<1>1. LiveUsers = {} /\ LiveInstances = {}
  BY DEF LiveUsers, LiveInstances, LiveEndpoints
<1>2. TypeOK
  BY DEF TypeOK
<1>3. OnlyOne /\ StartPhase
  BY AuthenticatorAssumption DEF OnlyOne, StartPhase, Resting
<1>4. Counted
  BY <1>1, FS_EmptySet DEF Counted, UsersCounted
<1>5. Current /\ NetdevFollows
  BY <1>1 DEF Current, NetdevFollows
<1>6. Faithful
  BY DEF Faithful
<1>. QED  BY <1>2, <1>3, <1>4, <1>5, <1>6 DEF IInv

(* The invariant of the access point: what exists at each label of the     *)
(* start, the exact count, current tables and devices, and configurations  *)
(* that nobody changes behind a running interface.                         *)
THEOREM Invariance == Spec => []IInv
<1>1. IInv /\ [Next]_vars => IInv'
  <2>. SUFFICES ASSUME IInv, [Next]_vars PROVE IInv'
    OBVIOUS
  <2>. QED
    BY TypeStep, CountedStep, OwnerStep, DeviceStep, FaithfulStep DEF IInv
<1>. QED  BY <1>1, InitIInv, PTL DEF Spec

(* A failed, stopped or destroyed access point leaves nothing behind, on   *)
(* whichever label hisi_wpa_ap_start gave up.                              *)
THEOREM NothingIsLeft == Spec => []NothingLeftBehind
<1>1. IInv => NothingLeftBehind
  BY DEF IInv, NothingLeftBehind, OnlyOne, StartPhase, Resting, TypeOK
<1>. QED  BY <1>1, Invariance, PTL

(* A started access point runs what it was configured with, through the    *)
(* registered table and an enabled network device, and no other device is  *)
(* left enabled.                                                           *)
THEOREM RunsFaithfully == Spec => []RunsFaithful
<1>1. IInv => RunsAsConfigured
  <2>. SUFFICES ASSUME IInv, NEW c \in Contexts, started[c]
                PROVE  /\ interface[c] = config[c]
                       /\ drv_priv[c] = g_hooks
                       /\ DriverOf[g_hooks] \in netdev
    BY DEF RunsAsConfigured
  <2>1. c = g_config_context /\ interface[c] # None /\ drv_priv[c] # None
    BY DEF IInv, OnlyOne, StartPhase, Resting
  <2>. QED  BY <2>1 DEF IInv, Faithful, Current, LiveInstances
<1>2. IInv => RunsFaithful
  BY <1>1 DEF IInv, RunsFaithful
<1>. QED  BY <1>2, Invariance, PTL

(* The count of the access point's registration is the number of its live  *)
(* driver instances and endpoints.                                         *)
THEOREM CountExact == Spec => [](TypeOK /\ UsersCounted)
<1>1. IInv => TypeOK /\ UsersCounted
  BY DEF IInv, Counted
<1>. QED  BY <1>1, Invariance, PTL

(* Its registration too implements the lease: nothing that is in use is    *)
(* ever removed or replaced.                                               *)
THEOREM LeaseRefined == Spec => ImplementsLease
<1>1. Init => Lease!Init
  BY DEF Init, Lease!Init, LiveUsers, LiveInstances, LiveEndpoints
<1>2. IInv /\ [Next]_vars => [Lease!Next]_(Lease!vars)
  <2>. SUFFICES ASSUME IInv, [Next]_vars PROVE [Lease!Next]_(Lease!vars)
    OBVIOUS
  <2>. USE DEF Lease!Next, Lease!vars
  <2>1. CASE SameUsers
    BY <2>1 DEF SameUsers
  <2>2. CASE Registers
    BY <2>2 DEF Registers, Lease!Register
  <2>3. CASE Unregisters
    <3>1. LiveUsers = {}
      BY <2>3, FS_EmptySet DEF IInv, Counted, UsersCounted, Unregisters
    <3>. QED  BY <2>3, <3>1 DEF Unregisters, Lease!Unregister
  <2>4. ASSUME NEW x \in Contexts \cup Endpoints, Takes(x) PROVE Lease!Next
    BY <2>4 DEF Takes, Lease!Take
  <2>5. ASSUME NEW x \in Contexts \cup Endpoints, Returns(x) PROVE Lease!Next
    BY <2>5 DEF Returns, Lease!Return
  <2>. QED  BY <2>1, <2>2, <2>3, <2>4, <2>5, UserEffects
<1>. QED  BY <1>1, <1>2, Invariance, PTL DEF Spec, ImplementsLease, Lease!Spec
================================================================================
