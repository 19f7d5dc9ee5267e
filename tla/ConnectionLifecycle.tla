------------------------ MODULE ConnectionLifecycle ------------------------
(***************************************************************************)
(* The connection lifecycle of the main process: the tunnel-affecting      *)
(* handlers of src/main/ipc-handlers.ts (connect, disconnect, stand-down,  *)
(* auto-reconnect, the live firewall toggle), the connection lock that     *)
(* serialises them, the epoch that invalidates them, and the timers and    *)
(* callbacks that start them.                                              *)
(*                                                                         *)
(* JavaScript runs one turn at a time, so an action is the code between    *)
(* two awaits.  A handler inside withConnectionLock is the running `job`,  *)
(* and `at` names the await it is suspended on; the jobs queued behind it  *)
(* are `waiting`.  Everything else (user calls, timers, a core's exit)     *)
(* may run at any await.                                                   *)
(***************************************************************************)
EXTENDS Integers, Sequences

CONSTANTS
  Sessions,      \* paid chain sessions
  NoSession,     \* null
  StashFirst,    \* TRUE for wireguard (system DNS) and v2ray: active*Config ?? params.configString
  MaxAttempts,   \* RECONNECT_MAX_ATTEMPTS
  MaxRequests,   \* bound: user requests in a behaviour, for each family
  MaxWaiting     \* bound: a timer fires only while fewer jobs than this wait for the lock

(* "root": wireguard, amneziawg, openvpn, whose tunnel is an interface root keeps up.
   "child": v2ray, xray, hysteria2, whose tunnel is a core main spawned, and tun2socks. *)
Families == {"root", "child"}

ASSUME ConstantsAssumption ==
  /\ NoSession \notin Sessions
  /\ StashFirst \in BOOLEAN
  /\ MaxAttempts \in Nat
  /\ MaxRequests \in [Families -> Nat]
  /\ MaxWaiting \in Nat \ {0}

VARIABLES
  activeSessionId, stash,          \* the tracked session; the session whose config is in active*Config
  isIntentionalDisconnect, connectionEpoch,
  reconnectAttempt, reconnectTimer,  \* reconnectTimer: the epoch its body captured, or NoTimer
  desiredProtocol, desiredMode,
  wgMonitorTimer, connectedAtMs,   \* supervision: the liveness monitor, the quota watchdog and its clock
  lastExpiry,                      \* the "session ended on its own" notice is up
  announced,                       \* the last state sendStateChange broadcast
  job, at, waiting,                \* withConnectionLock
  giveUp,                          \* the teardownToIdle of a give-up, which runs outside the lock
  rootUp, tunUp,                   \* sntl0 / sntl-ovpn; sntl-tun
  activeChild,                     \* the tracked proxy core, with the mode it was spawned in
  armed,                           \* the kill switch marker
  killSwitchFailed, killSwitchTeardownFailed,  \* what the renderer is told about it
  snap,                            \* the settings.killSwitch a suspended post-connect or firewall step holds
  killSwitch, autoReconnect,       \* settings.json
  family,                          \* the family of the protocol in use, the same throughout
  flow,                            \* the purchase and reconnect handlers, which run outside the lock
  requests,                        \* user requests so far
  wanted, carrier, leaked, tries, owed   \* history: see below

(***************************************************************************)
(* History variables, which nothing in the code reads.                     *)
(*   wanted  : the last word on the connection was a request for one       *)
(*   carrier : the session whose config built the present tunnel           *)
(*   leaked  : a proxy core runs that activeChild no longer points to      *)
(*   tries   : bring-ups of the ladder since a success or a user action    *)
(*   owed    : the tunnel has run and its usage is not yet remembered      *)
(***************************************************************************)
intent      == <<isIntentionalDisconnect, connectionEpoch, reconnectAttempt, reconnectTimer>>
tracking    == <<activeSessionId, stash, lastExpiry>>
supervision == <<desiredProtocol, desiredMode, wgMonitorTimer, connectedAtMs, announced>>
lock        == <<job, at, waiting>>
system      == <<rootUp, tunUp, activeChild, carrier, leaked>>
warnings    == <<killSwitchFailed, killSwitchTeardownFailed>>
firewall    == <<armed, warnings, snap>>
settings    == <<killSwitch, autoReconnect, family>>
renderer    == <<flow, requests>>
vars == <<intent, tracking, supervision, lock, giveUp, system, firewall, settings, renderer,
          wanted, tries, owed>>

NoTimer == -1
Maybe(S) == S \cup {NoSession}

Job == [op : {"none", "connect", "reconnect", "disconnect", "standdown", "firewall"},
        cfg : Maybe(Sessions), mode : {"tunnel", "proxy"}, ep : Nat]
JobOf(op, cfg, mode, ep) == [op |-> op, cfg |-> cfg, mode |-> mode, ep |-> ep]
NoJob == JobOf("none", NoSession, "tunnel", 0)

DataOK ==
  /\ activeSessionId \in Maybe(Sessions) /\ stash \in Maybe(Sessions) /\ carrier \in Maybe(Sessions)
  /\ connectionEpoch \in Nat /\ reconnectTimer \in Nat \cup {NoTimer}
  /\ reconnectAttempt \in 0..MaxAttempts
  /\ desiredProtocol \in {"none", "root", "child"} /\ desiredMode \in {"tunnel", "proxy"}
  /\ announced \in {"idle", "connected"}
  /\ giveUp \in {"none", "revert", "undo"}
  /\ activeChild \in {"none", "tunnel", "proxy"}
  /\ flow \in [Sessions -> {"none", "saved", "buying", "bought", "checking", "renewing", "renewed"}]
  /\ requests \in Nat /\ tries \in 0..(MaxAttempts + 1)

LockOK ==
  /\ job \in Job /\ waiting \in Seq(Job)
  /\ at \in {"idle", "setup", "bringup", "core", "tun", "post", "probe", "revert", "undo",
             "cleanup", "idleRevert", "idleUndo", "firewall"}
  /\ at = "idle" <=> job.op = "none"

FlagsOK ==
  /\ isIntentionalDisconnect \in BOOLEAN /\ wanted \in BOOLEAN
  /\ wgMonitorTimer \in BOOLEAN /\ connectedAtMs \in BOOLEAN /\ owed \in BOOLEAN
  /\ lastExpiry \in BOOLEAN
  /\ rootUp \in BOOLEAN /\ tunUp \in BOOLEAN /\ leaked \in BOOLEAN
  /\ armed \in BOOLEAN /\ snap \in BOOLEAN
  /\ killSwitchFailed \in BOOLEAN /\ killSwitchTeardownFailed \in BOOLEAN
  /\ killSwitch \in BOOLEAN /\ autoReconnect \in BOOLEAN

TypeOK == DataOK /\ LockOK /\ FlagsOK /\ family \in Families

----------------------------------------------------------------------------
(* What the code reads of the system. *)

(* getConnectionStatus().connected: a root interface exists, or the core carries traffic,
   which in tunnel mode takes tun2socks' interface as well. *)
Connected == \/ rootUp
             \/ activeChild = "proxy"
             \/ activeChild = "tunnel" /\ tunUp

(* connectionIsLive(), what assertNotConnected refuses on. *)
connectionIsLive == reconnectAttempt > 0 \/ Connected

isVpnActive == rootUp \/ tunUp

Carrying == rootUp \/ tunUp \/ activeChild # "none"

----------------------------------------------------------------------------
(* The endings of a lifecycle: the synchronous halves of performDisconnect and
   standDownSession, and the reconnect ladder. *)

(* Mutant: the teardown overtakes the jobs already queued. *)
EndLifecycle_Overtakes(op) ==
  /\ isIntentionalDisconnect' = TRUE
  /\ connectionEpoch' = connectionEpoch + 1
  /\ reconnectTimer' = NoTimer
  /\ reconnectAttempt' = 0
  /\ waiting' = <<JobOf(op, NoSession, "tunnel", 0)>> \o waiting
  /\ wanted' = FALSE
  /\ tries' = 0

(* Mutant: the timer is cleared, the attempt counter is not. *)
EndLifecycle_KeepsAttempt(op) ==
  /\ isIntentionalDisconnect' = TRUE
  /\ connectionEpoch' = connectionEpoch + 1
  /\ reconnectTimer' = NoTimer
  /\ waiting' = Append(waiting, JobOf(op, NoSession, "tunnel", 0))
  /\ wanted' = FALSE
  /\ tries' = 0
  /\ UNCHANGED reconnectAttempt

(* The turn that ends a lifecycle, before the lock is even asked for: intent first, then
   the epoch, then the ladder, then the queued teardown. *)
EndLifecycle(op) ==
  /\ isIntentionalDisconnect' = TRUE
  /\ connectionEpoch' = connectionEpoch + 1
  /\ reconnectTimer' = NoTimer
  /\ reconnectAttempt' = 0
  /\ waiting' = Append(waiting, JobOf(op, NoSession, "tunnel", 0))
  /\ wanted' = FALSE
  /\ tries' = 0

(* standDownSession up to the lock; it returns at once with no session. *)
StandDown ==
  \/ /\ activeSessionId # NoSession
     /\ EndLifecycle("standdown")
  \/ /\ activeSessionId = NoSession
     /\ UNCHANGED <<intent, waiting, wanted, tries>>

(* revertPostConnectSettings awaits the helper only if the marker says there is a chain;
   a killswitch-off that fails leaves the marker for the next launch and raises a warning. *)
Reverting(await, after) == IF armed THEN await ELSE after
BeginRevert ==
  /\ killSwitchFailed' = FALSE
  /\ killSwitchTeardownFailed' = (armed /\ killSwitchTeardownFailed)
DisableKillSwitch == \/ armed' = FALSE /\ killSwitchTeardownFailed' = FALSE
                     \/ armed' = armed /\ killSwitchTeardownFailed' = TRUE

(* Mutant: the cap is off by one. *)
AttemptReconnect_OneMore ==
  \/ /\ activeSessionId = NoSession \/ isIntentionalDisconnect \/ ~autoReconnect
     /\ UNCHANGED <<intent, waiting, giveUp, warnings, wanted, tries>>
  \/ /\ activeSessionId # NoSession /\ ~isIntentionalDisconnect /\ autoReconnect
     /\ reconnectAttempt <= MaxAttempts
     /\ reconnectAttempt' = reconnectAttempt + 1
     /\ reconnectTimer' = connectionEpoch
     /\ UNCHANGED <<isIntentionalDisconnect, connectionEpoch, waiting, giveUp, warnings, wanted, tries>>

(* Mutant: the ladder has no cap. *)
AttemptReconnect_Forever ==
  \/ /\ activeSessionId = NoSession \/ isIntentionalDisconnect \/ ~autoReconnect
     /\ UNCHANGED <<intent, waiting, giveUp, warnings, wanted, tries>>
  \/ /\ activeSessionId # NoSession /\ ~isIntentionalDisconnect /\ autoReconnect
     /\ reconnectAttempt' = IF reconnectAttempt < MaxAttempts THEN reconnectAttempt + 1
                            ELSE reconnectAttempt
     /\ reconnectTimer' = connectionEpoch
     /\ UNCHANGED <<isIntentionalDisconnect, connectionEpoch, waiting, giveUp, warnings, wanted, tries>>

(* attemptReconnect, with decideReconnect's outcomes in its order of precedence.  A give-up
   close to the cap is an expiry and stands the session down; any other tears down to idle
   without the lock and without clearing the timer. *)
AttemptReconnect ==
  \/ /\ activeSessionId = NoSession \/ isIntentionalDisconnect
     /\ UNCHANGED <<intent, waiting, giveUp, warnings, wanted, tries>>
  \/ /\ activeSessionId # NoSession /\ ~isIntentionalDisconnect /\ ~autoReconnect
     /\ StandDown
     /\ UNCHANGED <<giveUp, warnings>>
  \/ /\ activeSessionId # NoSession /\ ~isIntentionalDisconnect /\ autoReconnect
     /\ reconnectAttempt >= MaxAttempts
     /\ \/ StandDown /\ UNCHANGED <<giveUp, warnings>>
        \/ /\ reconnectAttempt' = 0
           /\ BeginRevert
           /\ giveUp' = IF armed THEN "revert" ELSE "undo"
           /\ UNCHANGED <<isIntentionalDisconnect, connectionEpoch, reconnectTimer, waiting,
                          wanted, tries>>
  \/ /\ activeSessionId # NoSession /\ ~isIntentionalDisconnect /\ autoReconnect
     /\ reconnectAttempt < MaxAttempts
     /\ reconnectAttempt' = reconnectAttempt + 1
     /\ reconnectTimer' = connectionEpoch
     /\ UNCHANGED <<isIntentionalDisconnect, connectionEpoch, waiting, giveUp, warnings,
                    wanted, tries>>

(* Mutant: the interfaces go, the core stays. *)
DisconnectTunnel_KeepsCore ==
  /\ rootUp' = FALSE /\ tunUp' = FALSE
  /\ UNCHANGED <<activeChild, carrier, leaked>>

(* disconnect() of vpn-manager: every tunnel it can see, and the core it still tracks. *)
DisconnectTunnel ==
  /\ rootUp' = FALSE /\ tunUp' = FALSE
  /\ activeChild' = "none"
  /\ carrier' = NoSession
  /\ UNCHANGED <<leaked>>

(* The tail of teardownToIdle: supervision stops, and nothing remembers the usage. *)
StopSupervision ==
  /\ wgMonitorTimer' = FALSE
  /\ connectedAtMs' = FALSE
  /\ desiredProtocol' = "none"
  /\ UNCHANGED desiredMode

(* Mutant: the reconnect path forgets to broadcast. *)
Finalize_Silent(mode) ==
  /\ desiredProtocol' = family
  /\ desiredMode' = mode
  /\ wgMonitorTimer' = (wgMonitorTimer \/ mode = "tunnel")
  /\ connectedAtMs' = TRUE
  /\ announced' = IF job.op = "reconnect" THEN announced ELSE "connected"
  /\ owed' = TRUE
  /\ tries' = 0

(* Mutant: the reconnect path counts on supervision that still runs. *)
Finalize_Unsupervised(mode) ==
  /\ desiredProtocol' = family
  /\ desiredMode' = mode
  /\ wgMonitorTimer' = (wgMonitorTimer \/ (mode = "tunnel" /\ job.op = "connect"))
  /\ connectedAtMs' = (connectedAtMs \/ job.op = "connect")
  /\ announced' = "connected"
  /\ owed' = TRUE
  /\ tries' = 0

(* finalizeTunnelConnect: the monitor (not in proxy mode), the watchdog, 'connected'. *)
Finalize(mode) ==
  /\ desiredProtocol' = family
  /\ desiredMode' = mode
  /\ wgMonitorTimer' = (wgMonitorTimer \/ mode = "tunnel")
  /\ connectedAtMs' = TRUE
  /\ announced' = "connected"
  /\ owed' = TRUE
  /\ tries' = 0

----------------------------------------------------------------------------
(* The connection lock. *)

(* A free lock with a queue takes its next job in a microtask, before any timer, event or
   call gets a turn. *)
TurnBegins == job # NoJob \/ waiting = <<>>

TakeJob(op) ==
  /\ job = NoJob
  /\ waiting # <<>>
  /\ Head(waiting).op = op
  /\ waiting' = Tail(waiting)

RunJob(j, await) == job' = j /\ at' = await
Suspend(await) == at' = await /\ UNCHANGED <<job, waiting>>
Release == job' = NoJob /\ at' = "idle"

(* Spawning overwrites activeChild, whatever it pointed to. *)
SpawnCore(mode, cfg) ==
  /\ activeChild' = mode
  /\ leaked' = (leaked \/ activeChild # "none")
  /\ carrier' = cfg
  /\ UNCHANGED <<rootUp, tunUp>>

(* CONNECTION_CONNECT, first turn inside the lock: assertNotConnected. *)
RefuseConnect ==
  /\ TakeJob("connect")
  /\ connectionIsLive
  /\ UNCHANGED <<job, at, intent, tracking, supervision, giveUp, system, firewall, settings, renderer,
                 wanted, tries, owed>>

StartConnect ==
  /\ TakeJob("connect")
  /\ ~connectionIsLive
  /\ RunJob(Head(waiting), "setup")
  /\ UNCHANGED <<intent, tracking, supervision, giveUp, system, firewall, settings, renderer,
                 wanted, tries, owed>>

(* Which config the branch picks: the stash or the caller's, in the protocol's own order. *)
ConfigOf(j) ==
  LET first  == IF StashFirst THEN stash ELSE j.cfg
      second == IF StashFirst THEN j.cfg ELSE stash
  IN  IF first # NoSession THEN first ELSE second

(* assertSystemReady answered: refused, or on to the bring-up of the config at hand. *)
ConnectReady ==
  /\ job.op = "connect" /\ at = "setup"
  /\ \/ /\ Release
        /\ UNCHANGED <<lastExpiry, system, tries>>
     \/ /\ ConfigOf(job) = NoSession \/ family = "child"   \* none, or one the guard refuses
        /\ Release
        /\ lastExpiry' = FALSE
        /\ UNCHANGED <<system, tries>>
     \/ /\ ConfigOf(job) # NoSession
        /\ lastExpiry' = FALSE
        /\ job' = JobOf("connect", ConfigOf(job), job.mode, job.ep)
        /\ tries' = 0
        /\ IF family = "root"
           THEN at' = "bringup" /\ UNCHANGED system
           ELSE at' = "core" /\ SpawnCore(job.mode, ConfigOf(job))
  /\ UNCHANGED <<activeSessionId, stash, waiting, intent, supervision, giveUp, firewall, settings,
                 renderer, wanted, owed>>

(* The timer body, first turn inside the lock. *)
DropReconnect ==
  /\ TakeJob("reconnect")
  /\ Head(waiting).ep # connectionEpoch \/ activeSessionId = NoSession
  /\ UNCHANGED <<job, at, intent, tracking, supervision, giveUp, system, firewall, settings, renderer,
                 wanted, tries, owed>>

StartReconnect ==
  /\ TakeJob("reconnect")
  /\ Head(waiting).ep = connectionEpoch
  /\ activeSessionId # NoSession
  /\ LET j == JobOf("reconnect", activeSessionId, desiredMode, connectionEpoch)
     IN  \/ family = "root" /\ RunJob(j, "bringup") /\ UNCHANGED system
         \/ family = "child" /\ RunJob(j, "core") /\ SpawnCore(j.mode, j.cfg)
         \/ family = "child" /\ RunJob(j, "cleanup") /\ UNCHANGED system   \* a config the guard refuses
  /\ tries' = IF tries > MaxAttempts THEN tries ELSE tries + 1
  /\ UNCHANGED <<intent, tracking, supervision, giveUp, firewall, settings, renderer, wanted, owed>>

(* No saved config for the session: teardownToIdle(true), inside the lock. *)
ReconnectWithoutConfig ==
  /\ TakeJob("reconnect")
  /\ Head(waiting).ep = connectionEpoch
  /\ activeSessionId # NoSession
  /\ RunJob(Head(waiting), Reverting("idleRevert", "idleUndo"))
  /\ reconnectAttempt' = 0
  /\ BeginRevert
  /\ UNCHANGED <<isIntentionalDisconnect, connectionEpoch, reconnectTimer, tracking, supervision, giveUp,
                 system, armed, snap, settings, renderer, wanted, tries, owed>>

(* The tunnel exists.  A connect goes on; a reconnect first checks that its lifecycle did
   not end meanwhile, and undoes its own bring-up if it did. *)
BringUpDone ==
  IF job.op = "reconnect" /\ job.ep # connectionEpoch
  THEN /\ Suspend(Reverting("idleRevert", "idleUndo"))
       /\ reconnectAttempt' = 0
       /\ BeginRevert
       /\ UNCHANGED snap
  ELSE /\ Suspend("post")
       /\ killSwitchFailed' = FALSE /\ killSwitchTeardownFailed' = FALSE
       /\ snap' = killSwitch
       /\ UNCHANGED reconnectAttempt

(* The bring-up failed: a connect throws, after undoing what `undo` says there is to undo;
   a reconnect goes to its catch block. *)
BringUpFailed(undo) ==
  /\ UNCHANGED <<warnings, snap, reconnectAttempt>>
  /\ IF job.op = "reconnect" THEN Suspend("cleanup")
     ELSE IF undo THEN Suspend("undo")
     ELSE Release /\ UNCHANGED waiting

(* connectWireGuardFromConfig and its siblings: whatever holds the interface goes down first. *)
BringUpRoot ==
  /\ at = "bringup"
  /\ \/ /\ rootUp' = TRUE /\ carrier' = job.cfg
        /\ BringUpDone
     \/ /\ rootUp' = FALSE /\ carrier' = NoSession
        /\ BringUpFailed(FALSE)
  /\ UNCHANGED <<isIntentionalDisconnect, connectionEpoch, reconnectTimer, tracking, supervision, giveUp,
                 tunUp, activeChild, leaked, armed, settings, renderer, wanted, tries, owed>>

(* assertProxyChildStarted answered, then the tun-up call in tunnel mode.  Proxy mode ends
   here: it changes no routing, so there is nothing to arm and nothing to probe. *)
CoreStarted ==
  /\ at = "core"
  /\ \/ /\ activeChild = "none"
        /\ BringUpFailed(FALSE)
        /\ UNCHANGED <<supervision, tries, owed>>
     \/ /\ activeChild # "none" /\ job.mode = "tunnel"
        /\ Suspend("tun")
        /\ UNCHANGED <<warnings, snap, reconnectAttempt, supervision, tries, owed>>
     \/ /\ activeChild # "none" /\ job.mode = "proxy"
        /\ job.op = "reconnect" /\ job.ep # connectionEpoch
        /\ BringUpDone
        /\ UNCHANGED <<supervision, tries, owed>>
     \/ /\ activeChild # "none" /\ job.mode = "proxy"
        /\ ~(job.op = "reconnect" /\ job.ep # connectionEpoch)
        /\ Finalize("proxy")
        /\ reconnectAttempt' = IF job.op = "reconnect" THEN 0 ELSE reconnectAttempt
        /\ Release
        /\ UNCHANGED <<waiting, warnings, snap>>
  /\ UNCHANGED <<isIntentionalDisconnect, connectionEpoch, reconnectTimer, tracking, giveUp, system, armed,
                 settings, renderer, wanted>>

(* bringUpV2RayTunnel: tun2socks through the helper.  It does not look at the core again. *)
BringUpTun ==
  /\ at = "tun"
  /\ \/ tunUp' = TRUE /\ BringUpDone
     \/ UNCHANGED tunUp /\ BringUpFailed(TRUE)
  /\ UNCHANGED <<isIntentionalDisconnect, connectionEpoch, reconnectTimer, tracking, supervision, giveUp,
                 rootUp, activeChild, carrier, leaked, armed, settings, renderer,
                 wanted, tries, owed>>

(* Mutant: a chain that could not be armed is not reported. *)
Arm_Unreported == armed' \in {armed, TRUE} /\ UNCHANGED killSwitchFailed

(* What arming may come to: armed; marked but failed; no endpoint to whitelist. *)
Arm == \/ armed' = TRUE /\ killSwitchFailed' = FALSE
       \/ armed' = TRUE /\ killSwitchFailed' = TRUE
       \/ armed' = armed /\ killSwitchFailed' = TRUE

(* applyPostConnectSettings, with the settings it read when it began. *)
PostConnect ==
  /\ at = "post"
  /\ IF snap THEN Arm ELSE UNCHANGED <<armed, killSwitchFailed>>
  /\ Suspend("probe")
  /\ UNCHANGED <<intent, tracking, supervision, giveUp, system, killSwitchTeardownFailed, snap, settings,
                 renderer, wanted, tries, owed>>

(* assertTunnelCarriesTraffic and the tail of the bring-up.  The probe is a fetch, so with
   no chain armed it also succeeds over the physical link once the interface has gone. *)
ProbePassed ==
  /\ at = "probe"
  /\ Connected \/ (~isVpnActive /\ ~armed)
  /\ Finalize("tunnel")
  /\ reconnectAttempt' = IF job.op = "reconnect" THEN 0 ELSE reconnectAttempt
  /\ Release
  /\ UNCHANGED <<waiting, isIntentionalDisconnect, connectionEpoch, reconnectTimer, tracking, giveUp, system,
                 firewall, settings, renderer, wanted>>

ProbeFailed ==
  /\ at = "probe"
  /\ BeginRevert
  /\ Suspend(Reverting("revert", IF job.op = "reconnect" THEN "cleanup" ELSE "undo"))
  /\ UNCHANGED <<intent, tracking, supervision, giveUp, system, armed, snap, settings, renderer,
                 wanted, tries, owed>>

(* killswitch-off answered, for whichever job awaited it. *)
Revert ==
  /\ at \in {"revert", "idleRevert"}
  /\ DisableKillSwitch
  /\ Suspend(IF at = "idleRevert" THEN "idleUndo"
             ELSE IF job.op = "reconnect" THEN "cleanup" ELSE "undo")
  /\ UNCHANGED <<intent, tracking, supervision, giveUp, system, killSwitchFailed, snap, settings, renderer,
                 wanted, tries, owed>>

(* A failed connect after its disconnect(): it throws, and keeps the stash for a retry. *)
UndoConnect ==
  /\ job.op = "connect" /\ at = "undo"
  /\ DisconnectTunnel
  /\ Release
  /\ UNCHANGED <<waiting, intent, tracking, supervision, giveUp, firewall, settings, renderer,
                 wanted, tries, owed>>

(* Mutant: the catch block tears down and leaves it at that. *)
CleanupReconnect_Stops ==
  /\ at = "cleanup"
  /\ DisconnectTunnel
  /\ Release
  /\ UNCHANGED <<waiting, intent, tracking, supervision, giveUp, firewall, settings, renderer,
                 wanted, tries, owed>>

(* The catch block of a failed reconnect: disconnect(), then the ladder again. *)
CleanupReconnect ==
  /\ at = "cleanup"
  /\ DisconnectTunnel
  /\ Release
  /\ AttemptReconnect
  /\ UNCHANGED <<tracking, supervision, armed, snap, settings, renderer, owed>>

(* teardownToIdle inside the lock; only the no-config path (no cfg) broadcasts. *)
TeardownToIdle ==
  /\ at = "idleUndo"
  /\ DisconnectTunnel
  /\ StopSupervision
  /\ announced' = IF job.cfg = NoSession THEN "idle" ELSE announced
  /\ Release
  /\ UNCHANGED <<waiting, intent, tracking, giveUp, firewall, settings, renderer, wanted, tries, owed>>

(* performDisconnect and standDownSession, first turn inside the lock: the usage is
   remembered while its clock still runs, then supervision stops. *)
RememberSessionUsage == owed' = (owed /\ ~(activeSessionId # NoSession /\ connectedAtMs))

StartTeardown ==
  /\ \/ /\ TakeJob("disconnect")
        /\ RunJob(Head(waiting), Reverting("revert", "undo"))
        /\ BeginRevert
     \/ /\ TakeJob("standdown")
        /\ ~killSwitch
        /\ RunJob(Head(waiting), Reverting("revert", "undo"))
        /\ BeginRevert
     \/ /\ TakeJob("standdown")
        /\ killSwitch
        /\ RunJob(Head(waiting), "undo")
        /\ UNCHANGED warnings
  /\ RememberSessionUsage
  /\ wgMonitorTimer' = FALSE
  /\ connectedAtMs' = FALSE
  /\ UNCHANGED <<intent, tracking, desiredProtocol, desiredMode, announced, giveUp, system, armed, snap,
                 settings, renderer, wanted, tries>>

FinishTeardown ==
  /\ job.op \in {"disconnect", "standdown"} /\ at = "undo"
  /\ DisconnectTunnel
  /\ activeSessionId' = NoSession /\ stash' = NoSession
  /\ desiredProtocol' = "none" /\ desiredMode' = "tunnel"
  /\ lastExpiry' = (job.op = "standdown")
  /\ isIntentionalDisconnect' = FALSE
  /\ announced' = "idle"
  /\ Release
  /\ UNCHANGED <<waiting, connectionEpoch, reconnectAttempt, reconnectTimer, wgMonitorTimer, connectedAtMs,
                 giveUp, firewall, settings, renderer, wanted, tries, owed>>

(* reapplyFirewall, decided by decideFirewallAction from the settings as they are when the
   lock is had.  LAN sharing, the 'rearm' case, is not modelled here. *)
StartFirewall ==
  /\ TakeJob("firewall")
  /\ \/ /\ armed /\ ~killSwitch
        /\ RunJob(Head(waiting), "firewall")
        /\ snap' = FALSE
        /\ UNCHANGED killSwitchFailed
     \/ /\ ~armed /\ killSwitch /\ isVpnActive /\ desiredProtocol # "none"
        /\ RunJob(Head(waiting), "firewall")
        /\ snap' = TRUE
        /\ UNCHANGED killSwitchFailed
     \/ /\ ~armed /\ killSwitch /\ isVpnActive /\ desiredProtocol = "none"
        /\ killSwitchFailed' = TRUE
        /\ UNCHANGED <<job, at, snap>>
     \/ /\ armed = killSwitch \/ (killSwitch /\ ~isVpnActive)
        /\ UNCHANGED <<job, at, snap, killSwitchFailed>>
  /\ UNCHANGED <<intent, tracking, supervision, giveUp, system, armed, killSwitchTeardownFailed, settings,
                 renderer, wanted, tries, owed>>

FinishFirewall ==
  /\ at = "firewall"
  /\ \/ /\ snap
        /\ Arm
        /\ UNCHANGED killSwitchTeardownFailed
     \/ /\ ~snap
        /\ DisableKillSwitch
        /\ killSwitchFailed' = (killSwitchFailed /\ killSwitchTeardownFailed')
  /\ Release
  /\ UNCHANGED <<waiting, intent, tracking, supervision, giveUp, system, snap, settings, renderer,
                 wanted, tries, owed>>

LockStep ==
  \/ RefuseConnect \/ StartConnect \/ ConnectReady \/ UndoConnect
  \/ DropReconnect \/ StartReconnect \/ ReconnectWithoutConfig \/ CleanupReconnect \/ TeardownToIdle
  \/ BringUpRoot \/ CoreStarted \/ BringUpTun \/ PostConnect \/ ProbePassed \/ ProbeFailed \/ Revert
  \/ StartTeardown \/ FinishTeardown
  \/ StartFirewall \/ FinishFirewall

----------------------------------------------------------------------------
(* The give-up teardown, called by the ladder after it left the lock's queue: teardownToIdle
   with its two awaits, while any other job may hold the lock. *)

GiveUpRevert ==
  /\ TurnBegins
  /\ giveUp = "revert"
  /\ DisableKillSwitch
  /\ giveUp' = "undo"
  /\ UNCHANGED <<intent, tracking, supervision, lock, system, killSwitchFailed, snap, settings, renderer,
                 wanted, tries, owed>>

GiveUpUndo ==
  /\ TurnBegins
  /\ giveUp = "undo"
  /\ DisconnectTunnel
  /\ StopSupervision
  /\ announced' = "idle"
  /\ giveUp' = "none"
  /\ UNCHANGED <<intent, tracking, lock, firewall, settings, renderer, wanted, tries, owed>>

----------------------------------------------------------------------------
(* Timers.  Each is one turn, at any await of the job that holds the lock. *)

(* The backoff elapsed: the body asks for the lock, with the epoch it captured.  No backoff is
   as short as the readiness poll that notices a core's death. *)
TimerFires ==
  /\ TurnBegins
  /\ reconnectTimer # NoTimer
  /\ ~(at = "core" /\ activeChild = "none")
  /\ Len(waiting) < MaxWaiting
  /\ reconnectTimer' = NoTimer
  /\ waiting' = Append(waiting, JobOf("reconnect", NoSession, "tunnel", reconnectTimer))
  /\ UNCHANGED <<isIntentionalDisconnect, connectionEpoch, reconnectAttempt, tracking, supervision, job, at,
                 giveUp, system, firewall, settings, renderer, wanted, tries, owed>>

Supervising == ~isIntentionalDisconnect /\ reconnectAttempt = 0 /\ activeSessionId # NoSession

(* The liveness monitor: the interface of a root tunnel has gone. *)
MonitorTick ==
  /\ TurnBegins
  /\ wgMonitorTimer /\ Supervising
  /\ desiredProtocol = "root" /\ ~rootUp
  /\ AttemptReconnect
  /\ UNCHANGED <<tracking, supervision, job, at, system, armed, snap, settings, renderer, owed>>

(* The same monitor on a child tunnel: the default route moved under it.  It asks whether the
   tunnel was brought up (tunActive, which outlives the interface), not whether it still is. *)
RouteTick ==
  /\ TurnBegins
  /\ wgMonitorTimer /\ Supervising
  /\ desiredProtocol = "child" /\ desiredMode = "tunnel"
  /\ AttemptReconnect
  /\ UNCHANGED <<tracking, supervision, job, at, system, armed, snap, settings, renderer, owed>>

(* The quota watchdog: the interface of a tunnel has gone. *)
QuotaTickDropped ==
  /\ TurnBegins
  /\ connectedAtMs /\ Supervising
  /\ desiredMode = "tunnel" /\ ~isVpnActive
  /\ StandDown
  /\ UNCHANGED <<tracking, supervision, job, at, giveUp, system, firewall, settings, renderer, owed>>

(* The same watchdog: the quota is spent, or the tunnel has stalled. *)
QuotaTickEnd ==
  /\ TurnBegins
  /\ connectedAtMs /\ Supervising
  /\ StandDown
  /\ UNCHANGED <<tracking, supervision, job, at, giveUp, system, firewall, settings, renderer, owed>>

----------------------------------------------------------------------------
(* The system on its own. *)

RootDrops ==
  /\ rootUp
  /\ rootUp' = FALSE /\ carrier' = NoSession
  /\ UNCHANGED <<intent, tracking, supervision, lock, giveUp, tunUp, activeChild, leaked, firewall, settings,
                 renderer, wanted, tries, owed>>

(* tun2socks dies, or the tun-down a dead core's exit handler did not await completes. *)
TunDrops ==
  /\ tunUp
  /\ tunUp' = FALSE
  /\ UNCHANGED <<intent, tracking, supervision, lock, giveUp, rootUp, activeChild, carrier, leaked, firewall,
                 settings, renderer, wanted, tries, owed>>

(* The core dies: its exit handler forgets it and calls onV2RayUnexpectedExit. *)
CoreExits ==
  /\ TurnBegins
  /\ activeChild # "none"
  /\ activeChild' = "none" /\ carrier' = NoSession
  /\ AttemptReconnect
  /\ UNCHANGED <<tracking, supervision, job, at, rootUp, tunUp, leaked, armed, snap, settings, renderer, owed>>

----------------------------------------------------------------------------
(* The user, through the renderer and the tray. *)

UserActs ==
  /\ TurnBegins
  /\ requests < MaxRequests[family]
  /\ requests' = requests + 1

RequestDisconnect ==
  /\ UserActs
  /\ EndLifecycle("disconnect")
  /\ UNCHANGED <<tracking, supervision, job, at, giveUp, system, firewall, settings, flow, owed>>

(* CONNECTION_CONNECT up to the lock.  After a purchase it passes no config; after a
   CONNECTION_RECONNECT it passes the one that call returned, always in tunnel mode. *)
RequestConnect(s, mode) ==
  /\ \/ /\ flow[s] = "bought"
        /\ family = "root" => mode = "tunnel"
        /\ UserActs
        /\ waiting' = Append(waiting, JobOf("connect", NoSession, mode, connectionEpoch))
        /\ UNCHANGED flow
     \/ /\ flow[s] = "renewed" /\ mode = "tunnel"
        /\ TurnBegins
        /\ waiting' = Append(waiting, JobOf("connect", s, "tunnel", connectionEpoch))
        /\ flow' = [flow EXCEPT ![s] = "saved"]
        /\ UNCHANGED requests
  /\ wanted' = TRUE
  /\ UNCHANGED <<intent, tracking, supervision, job, at, giveUp, system, firewall, settings, tries, owed>>

(* The purchase handlers as far as tracking goes: assertNotConnected, then awaits that spend
   and handshake, then applySession. *)
StartPurchase(s) ==
  /\ flow[s] = "none"
  /\ ~connectionIsLive
  /\ UserActs
  /\ flow' = [flow EXCEPT ![s] = "buying"]
  /\ UNCHANGED <<intent, tracking, supervision, lock, giveUp, system, firewall, settings, wanted, tries, owed>>

FinishPurchase(s) ==
  /\ TurnBegins
  /\ flow[s] = "buying"
  /\ \/ /\ flow' = [flow EXCEPT ![s] = "bought"]
        /\ activeSessionId' = s /\ stash' = s
        /\ wanted' = TRUE
     \/ /\ flow' = [flow EXCEPT ![s] = "none"]
        /\ UNCHANGED <<activeSessionId, stash, wanted>>
  /\ UNCHANGED <<intent, lastExpiry, supervision, lock, giveUp, system, firewall, settings, requests,
                 tries, owed>>

(* CONNECTION_RECONNECT: assertNotConnected and the setup check, then the session is
   tracked, then the node is asked for a fresh peer; without one the saved config serves. *)
StartRenewal(s) ==
  /\ flow[s] \in {"saved", "bought"}
  /\ ~connectionIsLive
  /\ UserActs
  /\ flow' = [flow EXCEPT ![s] = "checking"]
  /\ UNCHANGED <<intent, tracking, supervision, lock, giveUp, system, firewall, settings, wanted, tries, owed>>

TrackRenewal(s) ==
  /\ TurnBegins
  /\ flow[s] = "checking"
  /\ \/ /\ flow' = [flow EXCEPT ![s] = "renewing"]
        /\ activeSessionId' = s
        /\ wanted' = TRUE
     \/ /\ flow' = [flow EXCEPT ![s] = "saved"]
        /\ UNCHANGED <<activeSessionId, wanted>>
  /\ UNCHANGED <<intent, stash, lastExpiry, supervision, lock, giveUp, system, firewall, settings, requests,
                 tries, owed>>

FinishRenewal(s) ==
  /\ TurnBegins
  /\ flow[s] = "renewing"
  /\ flow' = [flow EXCEPT ![s] = "renewed"]
  /\ \/ activeSessionId' = s /\ stash' = s /\ wanted' = TRUE
     \/ UNCHANGED <<activeSessionId, stash, wanted>>
  /\ UNCHANGED <<intent, lastExpiry, supervision, lock, giveUp, system, firewall, settings, requests,
                 tries, owed>>

(* SETTINGS_SET: the file is written at once, the firewall follows under the lock. *)
ToggleKillSwitch ==
  /\ UserActs
  /\ killSwitch' = ~killSwitch
  /\ waiting' = Append(waiting, JobOf("firewall", NoSession, "tunnel", 0))
  /\ UNCHANGED <<intent, tracking, supervision, job, at, giveUp, system, firewall, autoReconnect, family, flow,
                 wanted, tries, owed>>

ToggleAutoReconnect ==
  /\ UserActs
  /\ autoReconnect' = ~autoReconnect
  /\ UNCHANGED <<intent, tracking, supervision, lock, giveUp, system, firewall, killSwitch, family, flow,
                 wanted, tries, owed>>

----------------------------------------------------------------------------
(* A launch whose startup healing is over: nothing runs, nothing is tracked. *)
Init ==
  /\ activeSessionId = NoSession /\ stash = NoSession /\ lastExpiry = FALSE
  /\ isIntentionalDisconnect = FALSE /\ connectionEpoch = 0
  /\ reconnectAttempt = 0 /\ reconnectTimer = NoTimer
  /\ desiredProtocol = "none" /\ desiredMode = "tunnel"
  /\ wgMonitorTimer = FALSE /\ connectedAtMs = FALSE /\ announced = "idle"
  /\ job = NoJob /\ at = "idle" /\ waiting = <<>> /\ giveUp = "none"
  /\ rootUp = FALSE /\ tunUp = FALSE /\ activeChild = "none"
  /\ carrier = NoSession /\ leaked = FALSE
  /\ armed = FALSE /\ killSwitchFailed = FALSE /\ killSwitchTeardownFailed = FALSE /\ snap = FALSE
  /\ killSwitch \in BOOLEAN /\ autoReconnect \in BOOLEAN /\ family \in Families
  /\ flow \in [Sessions -> {"none", "saved"}] /\ requests = 0
  /\ wanted = FALSE /\ tries = 0 /\ owed = FALSE

UserStep ==
  \/ RequestDisconnect \/ ToggleKillSwitch \/ ToggleAutoReconnect
  \/ \E s \in Sessions :
       \/ \E mode \in {"tunnel", "proxy"} : RequestConnect(s, mode)
       \/ StartPurchase(s) \/ FinishPurchase(s)
       \/ StartRenewal(s) \/ TrackRenewal(s) \/ FinishRenewal(s)

Next ==
  \/ LockStep
  \/ GiveUpRevert \/ GiveUpUndo
  \/ TimerFires \/ MonitorTick \/ RouteTick \/ QuotaTickDropped \/ QuotaTickEnd
  \/ RootDrops \/ TunDrops \/ CoreExits
  \/ UserStep

Spec == Init /\ [][Next]_vars

(* Every promise the lock chains settles; a helper call that answered and a timeout that
   expired get a turn, although microtasks may come first again and again (hence SF); an
   interval keeps ticking while it is set.  Users, quotas, routes and crashes owe nothing. *)
FairSpec ==
  /\ Spec
  /\ WF_vars(LockStep)
  /\ SF_vars(GiveUpRevert) /\ SF_vars(GiveUpUndo) /\ SF_vars(TimerFires)
  /\ WF_vars(MonitorTick) /\ WF_vars(QuotaTickDropped)

----------------------------------------------------------------------------
(* Properties. *)

Quiet == job = NoJob /\ waiting = <<>> /\ giveUp = "none"

(* A tunnel the user tore down stays down: once the lock has drained and the last word on the
   connection was an ending (performDisconnect, standDownSession), no interface and no core
   is left, whatever connects, ladders, exits and timers were in flight when it was spoken. *)
NoResurrection == ~wanted /\ job = NoJob /\ waiting = <<>> => ~Carrying

(***************************************************************************)
(* Why a tunnel that was torn down stays down.  Of NoResurrection alone    *)
(* nothing follows for the next step; the invariant the code really keeps  *)
(* is that an ending leaves nothing behind it that can raise a tunnel, or  *)
(* leaves it in front of a queued teardown.                                *)
(***************************************************************************)
Endings == {"disconnect", "standdown"}
BringsUp == {"connect", "reconnect"}

(* The await a job is suspended on is one of its own. *)
JobMatchesAwait ==
  /\ at \in {"setup", "bringup", "core", "tun", "post", "probe"} => job.op \in BringsUp
  /\ at = "setup" => job.op = "connect"
  /\ at \in {"cleanup", "idleRevert", "idleUndo"} => job.op = "reconnect"
  /\ at = "firewall" => job.op = "firewall"

(* No job and no timer carries the epoch of a lifecycle that has not begun. *)
EpochsArePast ==
  /\ reconnectTimer <= connectionEpoch
  /\ \A i \in DOMAIN waiting : waiting[i].op = "reconnect" => waiting[i].ep <= connectionEpoch

(* After an ending no retry of its lifecycle is left: the timer is clear, the queued retries
   are of earlier epochs, and a session still tracked is one whose drop is ignored. *)
LadderIsDisarmed ==
  ~wanted =>
    /\ reconnectTimer = NoTimer
    /\ \A i \in DOMAIN waiting : waiting[i].op = "reconnect" => waiting[i].ep < connectionEpoch
    /\ activeSessionId # NoSession => isIntentionalDisconnect

TeardownWaits == \E k \in DOMAIN waiting : waiting[k].op \in Endings

(* After an ending every bring-up, queued or running, has a teardown behind it. *)
TeardownIsBehind ==
  ~wanted =>
    /\ \A i \in DOMAIN waiting :
         waiting[i].op = "connect" => \E k \in DOMAIN waiting : k > i /\ waiting[k].op \in Endings
    /\ job.op \in BringsUp => TeardownWaits

(* After an ending whatever carries traffic is about to be torn down. *)
CarryingIsDoomed == ~wanted /\ Carrying => job.op \in Endings \/ TeardownWaits

(* Once spoken, an ending is in charge until the user asks for a connection again: what is
   queued, running or up is behind it or about to be undone by it (performDisconnect,
   standDownSession and the epoch checks of attemptReconnect). *)
EndingIsInCharge ==
  JobMatchesAwait /\ EpochsArePast /\ LadderIsDisarmed /\ TeardownIsBehind /\ CarryingIsDoomed

(* The kill switch does what the setting says or the user is told it does not: whenever the
   lock is free and a full tunnel carries traffic, the chain is marked as armed or
   killSwitchFailed is up (applyPostConnectSettings, reapplyFirewall). *)
ProtectionIsHonest ==
  Quiet /\ Connected /\ desiredProtocol # "none" /\ desiredMode = "tunnel" /\ killSwitch
    => armed \/ killSwitchFailed

(* Every tunnel that carries traffic is supervised: the quota clock runs, and in tunnel mode
   the liveness monitor with it (finalizeTunnelConnect against the three teardowns). *)
TunnelIsSupervised ==
  Quiet /\ Connected => connectedAtMs /\ (desiredMode = "tunnel" => wgMonitorTimer)

(* What will end a counted attempt: its timer, or a retry of the present lifecycle. *)
RetryWaits ==
  \E i \in DOMAIN waiting : waiting[i].op = "reconnect" /\ waiting[i].ep = connectionEpoch
AttemptBacked == reconnectTimer # NoTimer \/ job.op = "reconnect" \/ RetryWaits

(* "Reconnecting" is never a dead end that the ladder made: an attempt that is counted, which
   refuses every connect, keeps a timer or a retry of its lifecycle to end it.  One step alone
   leaves an attempt without: a retry that finds the session torn down under it returns, and
   the counter stays until the next ending (attemptReconnect's timer body). *)
AttemptIsBacked ==
  [][/\ reconnectAttempt' > 0 /\ ~AttemptBacked'
     /\ reconnectAttempt = 0 \/ AttemptBacked
     => DropReconnect /\ activeSessionId = NoSession]_vars

(* An ending is carried out: whatever is up when it is spoken comes down, unless the user
   asks for a connection again. *)
EndingIsHonoured == ~wanted ~> (~Carrying \/ wanted)

(* A tracked tunnel that is gone does not keep its clock running: it comes back, or the
   clock stops ("an abort is not a teardown", attemptReconnect and checkTunnelStalled).  Of the
   root family only: a core's exit handler may count an attempt that is then left behind
   (AttemptIsBacked's exception), and a counted attempt silences both timers. *)
DropIsNoticed ==
  (family = "root" /\ connectedAtMs /\ activeSessionId # NoSession /\ ~Connected)
    ~> (Connected \/ ~connectedAtMs)

(* Every ladder ends: in a tunnel, a give-up or a stand-down, or for want of a session, which
   by AttemptIsBacked is the only way to run out of retries with an attempt still counted. *)
LadderSettles == reconnectAttempt > 0 /\ AttemptBacked ~> (reconnectAttempt = 0 \/ ~AttemptBacked)

(* A ladder's give-up ends that ladder and nothing else: it never takes down a tunnel that
   carries traffic, which can only be one built since ("Serialize tunnel ops"). *)
GiveUpSparesConnections == [][GiveUpUndo => ~Connected]_vars

(* The ladder gives up: between a success and the next there are at most
   RECONNECT_MAX_ATTEMPTS bring-ups. *)
LadderGivesUp == tries <= MaxAttempts

(* Stopping the clock never loses a session's usage: whatever ran was remembered first. *)
UsageIsRemembered == ~connectedAtMs => ~owed

(* One connection at a time: the tracked session is the one whose config built the tunnel. *)
TunnelIsTheTrackedSession ==
  Quiet /\ Connected /\ activeSessionId # NoSession => carrier = activeSessionId

(* No proxy core runs that main does not track. *)
CoresAreTracked == ~leaked

=============================================================================
