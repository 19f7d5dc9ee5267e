--------------------- MODULE ConnectionLifecycle_proofs ---------------------
(***************************************************************************)
(* Proofs about ConnectionLifecycle, for every set of sessions, both       *)
(* families of protocols and every bound: every variable keeps its type;   *)
(* a tunnel that was torn down stays down; every tunnel is supervised; the *)
(* kill switch is as set or the user is told; and a counted attempt keeps  *)
(* something to end it.                                                    *)
(*                                                                         *)
(* None follows from itself.  The second rests on EndingIsInCharge: every  *)
(* action raises nothing after an ending (Kept, Taken, BringUpStep), is an *)
(* ending (Ended), or happens while a connection is wanted (StillWanted).  *)
(* The others are shown at every rest of the lock, queue or no queue, from *)
(* what is up while a job is on its way there: SupervisionInv, HonestInv,  *)
(* LadderInv.                                                              *)
(***************************************************************************)
EXTENDS ConnectionLifecycle, TLAPS

----------------------------------------------------------------------------
(* Types. *)

(* The counters start from a value of their type. *)
LEMMA Zero == 0 \in 0..MaxAttempts /\ 0 \in 0..(MaxAttempts + 1)
BY ConstantsAssumption

(* The free lock is a job that does nothing. *)
LEMMA NoJobType == NoJob \in Job /\ NoJob.op = "none"
BY DEF NoJob, JobOf, Job, Maybe

(* A job built from typed parts is a job. *)
LEMMA JobOfType ==
  ASSUME NEW op \in {"connect", "reconnect", "disconnect", "standdown", "firewall"},
         NEW cfg \in Maybe(Sessions), NEW mode \in {"tunnel", "proxy"}, NEW ep \in Nat
  PROVE  JobOf(op, cfg, mode, ep) \in Job /\ JobOf(op, cfg, mode, ep).op = op
BY DEF JobOf, Job

(* Null and every session are tracked values. *)
LEMMA NothingType == NoSession \in Maybe(Sessions) /\ \A s \in Sessions : s \in Maybe(Sessions)
BY DEF Maybe

(* What a job carries. *)
LEMMA JobFields ==
  ASSUME NEW j \in Job
  PROVE  j.cfg \in Maybe(Sessions) /\ j.mode \in {"tunnel", "proxy"} /\ j.ep \in Nat
BY DEF Job

(* A queue stays a queue when a job is appended. *)
LEMMA Enqueue ==
  ASSUME NEW q \in Seq(Job), NEW j \in Job
  PROVE  Append(q, j) \in Seq(Job)
OBVIOUS

(* Taking a job leaves a queue, and the job taken has the kind asked for. *)
LEMMA Dequeue ==
  ASSUME NEW op, LockOK, TakeJob(op)
  PROVE  waiting' \in Seq(Job) /\ Head(waiting) \in Job /\ Head(waiting).op = op
BY DEF LockOK, TakeJob

(* What an ending leaves in the variables it sets. *)
LEMMA EndLifecycleType ==
  ASSUME TypeOK, NEW op \in {"disconnect", "standdown"}, EndLifecycle(op)
  PROVE  /\ connectionEpoch' \in Nat /\ reconnectTimer' \in Nat \cup {NoTimer}
         /\ reconnectAttempt' \in 0..MaxAttempts /\ tries' \in 0..(MaxAttempts + 1)
         /\ waiting' \in Seq(Job)
         /\ isIntentionalDisconnect' \in BOOLEAN /\ wanted' \in BOOLEAN
<1>1. connectionEpoch' \in Nat /\ reconnectTimer' \in Nat \cup {NoTimer}
  BY DEF TypeOK, DataOK, EndLifecycle
<1>2. reconnectAttempt' \in 0..MaxAttempts /\ tries' \in 0..(MaxAttempts + 1)
  BY Zero DEF EndLifecycle
<1>3. waiting' \in Seq(Job)
  BY Enqueue, JobOfType, NothingType DEF TypeOK, LockOK, EndLifecycle
<1>4. isIntentionalDisconnect' \in BOOLEAN /\ wanted' \in BOOLEAN
  BY DEF EndLifecycle
<1>5. QED BY <1>1, <1>2, <1>3, <1>4

(* The same, of standDownSession, which may return at once. *)
LEMMA StandDownType ==
  ASSUME TypeOK, StandDown
  PROVE  /\ connectionEpoch' \in Nat /\ reconnectTimer' \in Nat \cup {NoTimer}
         /\ reconnectAttempt' \in 0..MaxAttempts /\ tries' \in 0..(MaxAttempts + 1)
         /\ waiting' \in Seq(Job)
         /\ isIntentionalDisconnect' \in BOOLEAN /\ wanted' \in BOOLEAN
<1>1. CASE EndLifecycle("standdown")
  BY <1>1, EndLifecycleType
<1>2. CASE UNCHANGED <<intent, waiting, wanted, tries>>
  BY <1>2 DEF TypeOK, DataOK, LockOK, FlagsOK, intent
<1>3. QED BY <1>1, <1>2 DEF StandDown

(* The warnings revertPostConnectSettings starts from. *)
LEMMA BeginRevertType ==
  ASSUME FlagsOK, BeginRevert
  PROVE  killSwitchFailed' \in BOOLEAN /\ killSwitchTeardownFailed' \in BOOLEAN
BY DEF FlagsOK, BeginRevert

(* What attemptReconnect leaves, whatever it decides. *)
LEMMA AttemptReconnectType ==
  ASSUME TypeOK, AttemptReconnect
  PROVE  /\ connectionEpoch' \in Nat /\ reconnectTimer' \in Nat \cup {NoTimer}
         /\ reconnectAttempt' \in 0..MaxAttempts /\ tries' \in 0..(MaxAttempts + 1)
         /\ waiting' \in Seq(Job)
         /\ isIntentionalDisconnect' \in BOOLEAN /\ wanted' \in BOOLEAN
         /\ giveUp' \in {"none", "revert", "undo"}
         /\ killSwitchFailed' \in BOOLEAN /\ killSwitchTeardownFailed' \in BOOLEAN
<1>1. CASE UNCHANGED <<intent, waiting, giveUp, warnings, wanted, tries>>
  BY <1>1 DEF TypeOK, DataOK, LockOK, FlagsOK, intent, warnings
<1>2. CASE StandDown /\ UNCHANGED <<giveUp, warnings>>
  BY <1>2, StandDownType DEF TypeOK, DataOK, FlagsOK, warnings
<1>3. CASE /\ reconnectAttempt' = 0
           /\ BeginRevert
           /\ giveUp' = IF armed THEN "revert" ELSE "undo"
           /\ UNCHANGED <<isIntentionalDisconnect, connectionEpoch, reconnectTimer, waiting,
                          wanted, tries>>
  BY <1>3, Zero, BeginRevertType DEF TypeOK, DataOK, LockOK, FlagsOK
<1>4. CASE /\ reconnectAttempt < MaxAttempts
           /\ reconnectAttempt' = reconnectAttempt + 1
           /\ reconnectTimer' = connectionEpoch
           /\ UNCHANGED <<isIntentionalDisconnect, connectionEpoch, waiting, giveUp, warnings,
                          wanted, tries>>
  <2>1. reconnectAttempt' \in 0..MaxAttempts
    BY <1>4, ConstantsAssumption DEF TypeOK, DataOK
  <2>2. QED BY <1>4, <2>1 DEF TypeOK, DataOK, LockOK, FlagsOK, warnings
<1>5. QED BY <1>1, <1>2, <1>3, <1>4 DEF AttemptReconnect

(* What the end of a bring-up, good or bad, leaves. *)
LEMMA BringUpEndType ==
  ASSUME TypeOK, BringUpDone \/ BringUpFailed(TRUE) \/ BringUpFailed(FALSE)
  PROVE  /\ reconnectAttempt' \in 0..MaxAttempts
         /\ killSwitchFailed' \in BOOLEAN /\ killSwitchTeardownFailed' \in BOOLEAN /\ snap' \in BOOLEAN
<1>1. reconnectAttempt' \in 0..MaxAttempts
  BY Zero DEF TypeOK, DataOK, BringUpDone, BringUpFailed
<1>2. killSwitchFailed' \in BOOLEAN /\ killSwitchTeardownFailed' \in BOOLEAN /\ snap' \in BOOLEAN
  BY BeginRevertType DEF TypeOK, FlagsOK, BringUpDone, BringUpFailed, warnings
<1>3. QED BY <1>1, <1>2

(* Arming and disarming leave flags. *)
LEMMA FirewallType ==
  ASSUME FlagsOK
  PROVE  /\ DisableKillSwitch => armed' \in BOOLEAN /\ killSwitchTeardownFailed' \in BOOLEAN
         /\ Arm => armed' \in BOOLEAN /\ killSwitchFailed' \in BOOLEAN
<1>1. DisableKillSwitch => armed' \in BOOLEAN /\ killSwitchTeardownFailed' \in BOOLEAN
  BY DEF FlagsOK, DisableKillSwitch
<1>2. Arm => armed' \in BOOLEAN /\ killSwitchFailed' \in BOOLEAN
  BY DEF FlagsOK, Arm
<1>3. QED BY <1>1, <1>2

(* The tail of a bring-up. *)
LEMMA FinalizeType ==
  ASSUME TypeOK, NEW mode \in {"tunnel", "proxy"}, Finalize(mode)
  PROVE  /\ wgMonitorTimer' \in BOOLEAN /\ connectedAtMs' \in BOOLEAN /\ owed' \in BOOLEAN
         /\ desiredProtocol' \in {"none", "root", "child"} /\ desiredMode' \in {"tunnel", "proxy"}
         /\ announced' \in {"idle", "connected"} /\ tries' \in 0..(MaxAttempts + 1)
<1>1. wgMonitorTimer' \in BOOLEAN /\ connectedAtMs' \in BOOLEAN /\ owed' \in BOOLEAN
  BY DEF TypeOK, FlagsOK, Finalize
<1>2. /\ desiredProtocol' \in {"none", "root", "child"} /\ desiredMode' \in {"tunnel", "proxy"}
      /\ announced' \in {"idle", "connected"}
  BY DEF TypeOK, Families, Finalize
<1>3. tries' \in 0..(MaxAttempts + 1)
  BY Zero DEF Finalize
<1>4. QED BY <1>1, <1>2, <1>3

(* Spawning a core. *)
LEMMA SpawnCoreType ==
  ASSUME FlagsOK, NEW mode \in {"tunnel", "proxy"}, NEW cfg \in Maybe(Sessions), SpawnCore(mode, cfg)
  PROVE  /\ activeChild' \in {"none", "tunnel", "proxy"} /\ carrier' \in Maybe(Sessions)
         /\ leaked' \in BOOLEAN /\ rootUp' \in BOOLEAN /\ tunUp' \in BOOLEAN
BY DEF FlagsOK, SpawnCore

(* Which await a revert goes to. *)
LEMMA AwaitNames == \A a, b : Reverting(a, b) \in {a, b}
BY DEF Reverting

(* The root bring-up installs the config of the job. *)
LEMMA BringUpRootType ==
  ASSUME TypeOK, BringUpRoot
  PROVE  DataOK'
<1>1. carrier' \in Maybe(Sessions)
  BY JobFields, NothingType DEF BringUpRoot, TypeOK, LockOK
<1>2. reconnectAttempt' \in 0..MaxAttempts
  BY BringUpEndType DEF BringUpRoot
<1>3. QED BY <1>1, <1>2 DEF BringUpRoot, TypeOK, DataOK, tracking, supervision, renderer

(* The config a connect picks is a session or nothing. *)
LEMMA ConfigOfType ==
  ASSUME DataOK, NEW j \in Job
  PROVE  ConfigOf(j) \in Maybe(Sessions)
BY JobFields DEF ConfigOf, DataOK

(* ConnectReady, part by part. *)
LEMMA ConnectReadyData ==
  ASSUME TypeOK, ConnectReady
  PROVE  DataOK'
<1>1. carrier' \in Maybe(Sessions) /\ activeChild' \in {"none", "tunnel", "proxy"}
  BY ConfigOfType, JobFields, SpawnCoreType DEF ConnectReady, TypeOK, DataOK, LockOK, system
<1>2. tries' \in 0..(MaxAttempts + 1)
  BY Zero DEF ConnectReady, TypeOK, DataOK
<1>3. UNCHANGED <<activeSessionId, stash, intent, supervision, giveUp, renderer>>
  BY DEF ConnectReady
<1>4. QED BY <1>1, <1>2, <1>3 DEF TypeOK, DataOK, intent, supervision, renderer

LEMMA ConnectReadyFlags ==
  ASSUME TypeOK, ConnectReady
  PROVE  FlagsOK'
<1>1. lastExpiry' \in BOOLEAN
  BY DEF ConnectReady, TypeOK, FlagsOK
<1>2. leaked' \in BOOLEAN /\ rootUp' \in BOOLEAN /\ tunUp' \in BOOLEAN
  BY ConfigOfType, JobFields, SpawnCoreType DEF ConnectReady, TypeOK, FlagsOK, LockOK, system
<1>3. UNCHANGED <<intent, supervision, firewall, settings, wanted, owed>>
  BY DEF ConnectReady
<1>4. QED BY <1>1, <1>2, <1>3 DEF TypeOK, FlagsOK, intent, supervision, firewall, warnings, settings

LEMMA ConnectReadyLock ==
  ASSUME TypeOK, ConnectReady
  PROVE  LockOK'
<1>1. CASE Release
  BY <1>1, NoJobType DEF ConnectReady, Release, TypeOK, LockOK
<1>2. CASE job' = JobOf("connect", ConfigOf(job), job.mode, job.ep) /\ at' \in {"bringup", "core"}
  BY <1>2, ConfigOfType, JobFields, JobOfType DEF ConnectReady, TypeOK, LockOK
<1>3. QED BY <1>1, <1>2 DEF ConnectReady

LEMMA ConnectReadyType == TypeOK /\ ConnectReady => DataOK' /\ LockOK' /\ FlagsOK'
BY ConnectReadyData, ConnectReadyFlags, ConnectReadyLock

(* CoreStarted may end a bring-up or finish one. *)
LEMMA CoreStartedFlags ==
  ASSUME TypeOK, CoreStarted
  PROVE  FlagsOK'
<1>1. wgMonitorTimer' \in BOOLEAN /\ connectedAtMs' \in BOOLEAN /\ owed' \in BOOLEAN
  BY FinalizeType DEF CoreStarted, TypeOK, FlagsOK, supervision
<1>2. killSwitchFailed' \in BOOLEAN /\ killSwitchTeardownFailed' \in BOOLEAN /\ snap' \in BOOLEAN
  BY BringUpEndType DEF CoreStarted, TypeOK, FlagsOK, warnings
<1>3. UNCHANGED <<isIntentionalDisconnect, tracking, system, armed, settings, wanted>>
  BY DEF CoreStarted
<1>4. QED BY <1>1, <1>2, <1>3 DEF TypeOK, FlagsOK, tracking, system, settings

(* The purchase handlers change no flag but the history of the intent. *)
LEMMA TrackingFlags ==
  ASSUME TypeOK, NEW s \in Sessions, FinishPurchase(s) \/ TrackRenewal(s) \/ FinishRenewal(s)
  PROVE  FlagsOK'
<1>1. wanted' \in BOOLEAN
  BY DEF FinishPurchase, TrackRenewal, FinishRenewal, TypeOK, FlagsOK
<1>2. UNCHANGED <<intent, lastExpiry, supervision, system, firewall, settings, owed>>
  BY DEF FinishPurchase, TrackRenewal, FinishRenewal
<1>3. QED BY <1>1, <1>2 DEF TypeOK, FlagsOK, intent, supervision, system, firewall, warnings,
  settings

(* A connect request queues a job. *)
LEMMA RequestConnectQueues ==
  ASSUME TypeOK, NEW s \in Sessions, NEW mode \in {"tunnel", "proxy"}, RequestConnect(s, mode)
  PROVE  LockOK'
<1>1. JobOf("connect", NoSession, mode, connectionEpoch) \in Job /\ JobOf("connect", s, "tunnel", connectionEpoch) \in Job
  BY JobOfType, NothingType DEF TypeOK, DataOK
<1>2. PICK j \in Job : waiting' = Append(waiting, j)
  BY <1>1 DEF RequestConnect
<1>3. QED BY <1>2, Enqueue DEF RequestConnect, TypeOK, LockOK

(* The firewall toggle. *)
LEMMA StartFirewallFlags ==
  ASSUME TypeOK, StartFirewall
  PROVE  FlagsOK'
<1>1. killSwitchFailed' \in BOOLEAN /\ snap' \in BOOLEAN
  BY DEF StartFirewall, TypeOK, FlagsOK
<1>2. UNCHANGED <<intent, tracking, supervision, system, armed, killSwitchTeardownFailed, settings, wanted, owed>>
  BY DEF StartFirewall
<1>3. QED BY <1>1, <1>2 DEF TypeOK, FlagsOK, intent, tracking, supervision, system, settings

(* The timer body runs with the tracked session and the desired mode. *)
LEMMA StartReconnectType ==
  ASSUME TypeOK, StartReconnect
  PROVE  DataOK' /\ FlagsOK' /\ LockOK'
<1> DEFINE j == JobOf("reconnect", activeSessionId, desiredMode, connectionEpoch)
<1>0. j \in Job /\ j.op = "reconnect" /\ j.cfg \in Maybe(Sessions) /\ j.mode \in {"tunnel", "proxy"}
  BY JobOfType, JobFields DEF TypeOK, DataOK
<1> HIDE DEF j
<1>1. /\ TakeJob("reconnect")
      /\ \/ RunJob(j, "bringup") /\ UNCHANGED system
         \/ RunJob(j, "core") /\ SpawnCore(j.mode, j.cfg)
         \/ RunJob(j, "cleanup") /\ UNCHANGED system
  BY DEF StartReconnect, j
<1>2. /\ activeChild' \in {"none", "tunnel", "proxy"} /\ carrier' \in Maybe(Sessions)
      /\ leaked' \in BOOLEAN /\ rootUp' \in BOOLEAN /\ tunUp' \in BOOLEAN
  BY <1>0, <1>1, SpawnCoreType DEF TypeOK, DataOK, FlagsOK, system
<1>3. tries' \in 0..(MaxAttempts + 1)
  BY ConstantsAssumption DEF StartReconnect, TypeOK, DataOK
<1>4. UNCHANGED <<intent, tracking, supervision, giveUp, firewall, settings, renderer, wanted, owed>>
  BY DEF StartReconnect
<1>5. DataOK'
  BY <1>2, <1>3, <1>4 DEF TypeOK, DataOK, intent, tracking, supervision, renderer
<1>6. FlagsOK'
  BY <1>2, <1>4 DEF TypeOK, FlagsOK, intent, tracking, supervision, firewall, warnings, settings
<1>7. LockOK'
  BY <1>0, <1>1, Dequeue DEF TypeOK, LockOK, RunJob
<1>8. QED BY <1>5, <1>6, <1>7

(* A timer queues its body. *)
LEMMA TimerFiresQueues ==
  ASSUME TypeOK, TimerFires
  PROVE  LockOK'
<1>1. reconnectTimer \in Nat /\ waiting \in Seq(Job)
  BY DEF TimerFires, TypeOK, DataOK, LockOK
<1>2. waiting' \in Seq(Job)
  BY <1>1, Enqueue, JobOfType, NothingType DEF TimerFires
<1>3. QED BY <1>2 DEF TimerFires, TypeOK, LockOK

----------------------------------------------------------------------------
(* Type correctness. *)

(* Every step keeps the data typed. *)
LEMMA DataStep == TypeOK /\ Next => DataOK'
<1> SUFFICES ASSUME TypeOK, Next PROVE DataOK'
  OBVIOUS
<1>1. CASE RefuseConnect \/ StartConnect \/ DropReconnect \/ PostConnect \/ ProbeFailed \/ Revert
          \/ StartTeardown \/ StartFirewall \/ FinishFirewall \/ TunDrops
  BY <1>1 DEF RefuseConnect, StartConnect, DropReconnect, PostConnect, ProbeFailed, Revert,
    StartTeardown, StartFirewall, FinishFirewall, TunDrops, intent, tracking, supervision, system,
    renderer, TypeOK, DataOK
<1>2. CASE ConnectReady
  BY <1>2, ConnectReadyType
<1>3. CASE UndoConnect
  BY <1>3, NothingType DEF UndoConnect, DisconnectTunnel, intent, tracking, supervision, renderer,
    TypeOK, DataOK
<1>4. CASE StartReconnect
  BY <1>4, StartReconnectType
<1>5. CASE ReconnectWithoutConfig
  BY <1>5, Zero DEF ReconnectWithoutConfig, tracking, supervision, system, renderer, TypeOK, DataOK
<1>6. CASE CleanupReconnect
  BY <1>6, AttemptReconnectType, NothingType DEF CleanupReconnect, DisconnectTunnel, tracking,
    supervision, renderer, TypeOK, DataOK
<1>7. CASE TeardownToIdle
  BY <1>7, NothingType DEF TeardownToIdle, DisconnectTunnel, StopSupervision, intent, tracking,
    renderer, TypeOK, DataOK
<1>8. CASE BringUpRoot
  BY <1>8, BringUpRootType
<1>9. CASE CoreStarted
  BY <1>9, BringUpEndType, FinalizeType, Zero DEF CoreStarted, tracking, supervision, system,
    renderer, TypeOK, DataOK
<1>10. CASE BringUpTun
  BY <1>10, BringUpEndType DEF BringUpTun, tracking, supervision, renderer, TypeOK, DataOK
<1>11. CASE ProbePassed
  BY <1>11, FinalizeType, Zero DEF ProbePassed, tracking, system, renderer, TypeOK, DataOK
<1>12. CASE FinishTeardown
  BY <1>12, NothingType DEF FinishTeardown, DisconnectTunnel, renderer, TypeOK, DataOK
<1>13. CASE GiveUpRevert
  BY <1>13 DEF GiveUpRevert, intent, tracking, supervision, system, renderer, TypeOK, DataOK
<1>14. CASE GiveUpUndo
  BY <1>14, NothingType DEF GiveUpUndo, DisconnectTunnel, StopSupervision, intent, tracking,
    renderer, TypeOK, DataOK
<1>15. CASE TimerFires
  BY <1>15 DEF TimerFires, tracking, supervision, system, renderer, TypeOK, DataOK
<1>16. CASE MonitorTick
  BY <1>16, AttemptReconnectType DEF MonitorTick, tracking, supervision, system, renderer, TypeOK,
    DataOK
<1>17. CASE RouteTick
  BY <1>17, AttemptReconnectType DEF RouteTick, tracking, supervision, system, renderer, TypeOK,
    DataOK
<1>18. CASE QuotaTickDropped
  BY <1>18, StandDownType DEF QuotaTickDropped, tracking, supervision, system, renderer, TypeOK,
    DataOK
<1>19. CASE QuotaTickEnd
  BY <1>19, StandDownType DEF QuotaTickEnd, tracking, supervision, system, renderer, TypeOK, DataOK
<1>20. CASE RootDrops
  BY <1>20, NothingType DEF RootDrops, intent, tracking, supervision, renderer, TypeOK, DataOK
<1>21. CASE CoreExits
  BY <1>21, AttemptReconnectType, NothingType DEF CoreExits, tracking, supervision, renderer,
    TypeOK, DataOK
<1>22. CASE RequestDisconnect
  BY <1>22, EndLifecycleType DEF RequestDisconnect, UserActs, tracking, supervision, system, TypeOK,
    DataOK
<1>23. ASSUME NEW s \in Sessions, NEW mode \in {"tunnel", "proxy"}, RequestConnect(s, mode) PROVE DataOK'
  BY <1>23 DEF RequestConnect, UserActs, intent, tracking, supervision, system, TypeOK, DataOK
<1>24. ASSUME NEW s \in Sessions, StartPurchase(s) PROVE DataOK'
  BY <1>24 DEF StartPurchase, UserActs, intent, tracking, supervision, system, TypeOK, DataOK
<1>25. ASSUME NEW s \in Sessions, FinishPurchase(s) PROVE DataOK'
  BY <1>25, NothingType DEF FinishPurchase, intent, supervision, system, TypeOK, DataOK
<1>26. ASSUME NEW s \in Sessions, StartRenewal(s) PROVE DataOK'
  BY <1>26 DEF StartRenewal, UserActs, intent, tracking, supervision, system, TypeOK, DataOK
<1>27. ASSUME NEW s \in Sessions, TrackRenewal(s) PROVE DataOK'
  BY <1>27, NothingType DEF TrackRenewal, intent, supervision, system, TypeOK, DataOK
<1>28. ASSUME NEW s \in Sessions, FinishRenewal(s) PROVE DataOK'
  BY <1>28, NothingType DEF FinishRenewal, intent, supervision, system, TypeOK, DataOK
<1>29. CASE ToggleKillSwitch
  BY <1>29 DEF ToggleKillSwitch, UserActs, intent, tracking, supervision, system, TypeOK, DataOK
<1>30. CASE ToggleAutoReconnect
  BY <1>30 DEF ToggleAutoReconnect, UserActs, intent, tracking, supervision, system, TypeOK, DataOK
<1>31. QED BY <1>1, <1>2, <1>3, <1>4, <1>5, <1>6, <1>7, <1>8, <1>9, <1>10, <1>11, <1>12, <1>13,
    <1>14, <1>15, <1>16, <1>17, <1>18, <1>19, <1>20, <1>21, <1>22, <1>23, <1>24, <1>25, <1>26,
    <1>27, <1>28, <1>29, <1>30 DEF Next, LockStep, UserStep

(* Every step keeps the lock and its queue typed. *)
LEMMA QueueStep == TypeOK /\ Next => LockOK'
<1> SUFFICES ASSUME TypeOK, Next PROVE LockOK'
  OBVIOUS
<1>1. CASE GiveUpRevert \/ GiveUpUndo \/ RootDrops \/ TunDrops \/ ToggleAutoReconnect
  BY <1>1 DEF GiveUpRevert, GiveUpUndo, RootDrops, TunDrops, ToggleAutoReconnect, lock, TypeOK,
    LockOK
<1>2. CASE RefuseConnect
  BY <1>2, Dequeue DEF RefuseConnect, TypeOK, LockOK
<1>3. CASE StartConnect
  BY <1>3, Dequeue DEF StartConnect, RunJob, TypeOK, LockOK
<1>4. CASE ConnectReady
  BY <1>4, ConnectReadyType
<1>5. CASE UndoConnect
  BY <1>5, NoJobType DEF UndoConnect, Release, TypeOK, LockOK
<1>6. CASE DropReconnect
  BY <1>6, Dequeue DEF DropReconnect, TypeOK, LockOK
<1>7. CASE StartReconnect
  BY <1>7, StartReconnectType
<1>8. CASE ReconnectWithoutConfig
  BY <1>8, Dequeue, AwaitNames DEF ReconnectWithoutConfig, RunJob, TypeOK, LockOK
<1>9. CASE CleanupReconnect
  BY <1>9, AttemptReconnectType, NoJobType DEF CleanupReconnect, Release, TypeOK, LockOK
<1>10. CASE TeardownToIdle
  BY <1>10, NoJobType DEF TeardownToIdle, Release, TypeOK, LockOK
<1>11. CASE BringUpRoot
  BY <1>11, AwaitNames, NoJobType DEF BringUpRoot, BringUpDone, BringUpFailed, Suspend, Release,
    TypeOK, LockOK
<1>12. CASE CoreStarted
  BY <1>12, AwaitNames, NoJobType DEF CoreStarted, BringUpFailed, Suspend, BringUpDone, Release,
    TypeOK, LockOK
<1>13. CASE BringUpTun
  BY <1>13, AwaitNames, NoJobType DEF BringUpTun, BringUpDone, BringUpFailed, Suspend, Release,
    TypeOK, LockOK
<1>14. CASE PostConnect
  BY <1>14 DEF PostConnect, Suspend, TypeOK, LockOK
<1>15. CASE ProbePassed
  BY <1>15, NoJobType DEF ProbePassed, Release, TypeOK, LockOK
<1>16. CASE ProbeFailed
  BY <1>16, AwaitNames DEF ProbeFailed, Suspend, TypeOK, LockOK
<1>17. CASE Revert
  BY <1>17 DEF Revert, Suspend, TypeOK, LockOK
<1>18. CASE StartTeardown
  BY <1>18, Dequeue, AwaitNames DEF StartTeardown, RunJob, TypeOK, LockOK
<1>19. CASE FinishTeardown
  BY <1>19, NoJobType DEF FinishTeardown, Release, TypeOK, LockOK
<1>20. CASE StartFirewall
  BY <1>20, Dequeue DEF StartFirewall, RunJob, TypeOK, LockOK
<1>21. CASE FinishFirewall
  BY <1>21, NoJobType DEF FinishFirewall, Release, TypeOK, LockOK
<1>22. CASE TimerFires
  BY <1>22, TimerFiresQueues
<1>23. CASE MonitorTick
  BY <1>23, AttemptReconnectType DEF MonitorTick, TypeOK, LockOK
<1>24. CASE RouteTick
  BY <1>24, AttemptReconnectType DEF RouteTick, TypeOK, LockOK
<1>25. CASE QuotaTickDropped
  BY <1>25, StandDownType DEF QuotaTickDropped, TypeOK, LockOK
<1>26. CASE QuotaTickEnd
  BY <1>26, StandDownType DEF QuotaTickEnd, TypeOK, LockOK
<1>27. CASE CoreExits
  BY <1>27, AttemptReconnectType DEF CoreExits, TypeOK, LockOK
<1>28. CASE RequestDisconnect
  BY <1>28, EndLifecycleType DEF RequestDisconnect, TypeOK, LockOK
<1>29. ASSUME NEW s \in Sessions, NEW mode \in {"tunnel", "proxy"}, RequestConnect(s, mode) PROVE LockOK'
  BY <1>29, RequestConnectQueues
<1>30. ASSUME NEW s \in Sessions, StartPurchase(s) PROVE LockOK'
  BY <1>30 DEF StartPurchase, lock, TypeOK, LockOK
<1>31. ASSUME NEW s \in Sessions, FinishPurchase(s) PROVE LockOK'
  BY <1>31 DEF FinishPurchase, lock, TypeOK, LockOK
<1>32. ASSUME NEW s \in Sessions, StartRenewal(s) PROVE LockOK'
  BY <1>32 DEF StartRenewal, lock, TypeOK, LockOK
<1>33. ASSUME NEW s \in Sessions, TrackRenewal(s) PROVE LockOK'
  BY <1>33 DEF TrackRenewal, lock, TypeOK, LockOK
<1>34. ASSUME NEW s \in Sessions, FinishRenewal(s) PROVE LockOK'
  BY <1>34 DEF FinishRenewal, lock, TypeOK, LockOK
<1>35. CASE ToggleKillSwitch
  BY <1>35, Enqueue, JobOfType, NothingType DEF ToggleKillSwitch, TypeOK, LockOK
<1>36. QED BY <1>1, <1>2, <1>3, <1>4, <1>5, <1>6, <1>7, <1>8, <1>9, <1>10, <1>11, <1>12, <1>13,
    <1>14, <1>15, <1>16, <1>17, <1>18, <1>19, <1>20, <1>21, <1>22, <1>23, <1>24, <1>25, <1>26,
    <1>27, <1>28, <1>29, <1>30, <1>31, <1>32, <1>33, <1>34, <1>35 DEF Next, LockStep, UserStep

(* Every step keeps the flags typed. *)
LEMMA FlagsStep == TypeOK /\ Next => FlagsOK'
<1> SUFFICES ASSUME TypeOK, Next PROVE FlagsOK'
  OBVIOUS
<1>1. CASE RefuseConnect \/ StartConnect \/ DropReconnect \/ TimerFires
  BY <1>1 DEF RefuseConnect, StartConnect, DropReconnect, TimerFires, intent, tracking, supervision,
    system, warnings, firewall, settings, TypeOK, FlagsOK
<1>2. CASE ConnectReady
  BY <1>2, ConnectReadyType
<1>3. CASE UndoConnect
  BY ZenonT(60), <1>3 DEF UndoConnect, DisconnectTunnel, intent, tracking, supervision,
    warnings, firewall, settings, TypeOK, FlagsOK
<1>4. CASE StartReconnect
  BY <1>4, StartReconnectType
<1>5. CASE ReconnectWithoutConfig
  BY <1>5, BeginRevertType DEF ReconnectWithoutConfig, tracking, supervision, system, settings,
    TypeOK, FlagsOK
<1>6. CASE CleanupReconnect
  BY <1>6, AttemptReconnectType DEF CleanupReconnect, DisconnectTunnel, tracking, supervision,
    settings, TypeOK, FlagsOK
<1>7. CASE TeardownToIdle
  BY <1>7 DEF TeardownToIdle, DisconnectTunnel, StopSupervision, intent, tracking, warnings,
    firewall, settings, TypeOK, FlagsOK
<1>8. CASE BringUpRoot
  BY ZenonT(60), <1>8, BringUpEndType DEF BringUpRoot, tracking, supervision, settings, TypeOK, FlagsOK
<1>9. CASE CoreStarted
  BY <1>9, CoreStartedFlags
<1>10. CASE BringUpTun
  BY ZenonT(60), <1>10, BringUpEndType DEF BringUpTun, tracking, supervision, settings, TypeOK, FlagsOK
<1>11. CASE PostConnect
  BY <1>11, FirewallType DEF PostConnect, intent, tracking, supervision, system, settings, TypeOK,
    FlagsOK
<1>12. CASE ProbePassed
  BY <1>12, FinalizeType DEF ProbePassed, tracking, system, warnings, firewall, settings, TypeOK,
    FlagsOK
<1>13. CASE ProbeFailed
  BY <1>13, BeginRevertType DEF ProbeFailed, intent, tracking, supervision, system, settings,
    TypeOK, FlagsOK
<1>14. CASE Revert
  BY <1>14, FirewallType DEF Revert, intent, tracking, supervision, system, settings, TypeOK,
    FlagsOK
<1>15. CASE StartTeardown
  BY ZenonT(60), <1>15, BeginRevertType DEF StartTeardown, RememberSessionUsage, intent, tracking,
    system, warnings, settings, TypeOK, FlagsOK
<1>16. CASE FinishTeardown
  BY <1>16 DEF FinishTeardown, DisconnectTunnel, warnings, firewall, settings, TypeOK, FlagsOK
<1>17. CASE StartFirewall
  BY <1>17, StartFirewallFlags
<1>18. CASE FinishFirewall
  BY <1>18, FirewallType DEF FinishFirewall, intent, tracking, supervision, system, warnings,
    firewall, settings, TypeOK, FlagsOK
<1>19. CASE GiveUpRevert
  BY <1>19, FirewallType DEF GiveUpRevert, intent, tracking, supervision, system, settings, TypeOK,
    FlagsOK
<1>20. CASE GiveUpUndo
  BY <1>20 DEF GiveUpUndo, DisconnectTunnel, StopSupervision, intent, tracking, warnings, firewall,
    settings, TypeOK, FlagsOK
<1>21. CASE MonitorTick
  BY <1>21, AttemptReconnectType DEF MonitorTick, tracking, supervision, system, settings, TypeOK,
    FlagsOK
<1>22. CASE RouteTick
  BY <1>22, AttemptReconnectType DEF RouteTick, tracking, supervision, system, settings, TypeOK,
    FlagsOK
<1>23. CASE QuotaTickDropped
  BY <1>23, StandDownType DEF QuotaTickDropped, tracking, supervision, system, warnings, firewall,
    settings, TypeOK, FlagsOK
<1>24. CASE QuotaTickEnd
  BY <1>24, StandDownType DEF QuotaTickEnd, tracking, supervision, system, warnings, firewall,
    settings, TypeOK, FlagsOK
<1>25. CASE RootDrops
  <2>1. killSwitch' \in BOOLEAN /\ autoReconnect' \in BOOLEAN
    BY <1>25 DEF RootDrops, settings, TypeOK, FlagsOK
  <2>2. /\ isIntentionalDisconnect' \in BOOLEAN /\ lastExpiry' \in BOOLEAN
        /\ wgMonitorTimer' \in BOOLEAN /\ connectedAtMs' \in BOOLEAN
    BY <1>25 DEF RootDrops, intent, tracking, supervision, TypeOK, FlagsOK
  <2>3. /\ armed' \in BOOLEAN /\ snap' \in BOOLEAN
        /\ killSwitchFailed' \in BOOLEAN /\ killSwitchTeardownFailed' \in BOOLEAN
    BY <1>25 DEF RootDrops, firewall, warnings, TypeOK, FlagsOK
  <2>4. /\ rootUp' \in BOOLEAN /\ tunUp' \in BOOLEAN /\ leaked' \in BOOLEAN
        /\ wanted' \in BOOLEAN /\ owed' \in BOOLEAN
    BY <1>25 DEF RootDrops, TypeOK, FlagsOK
  <2>5. QED BY <2>1, <2>2, <2>3, <2>4 DEF FlagsOK
<1>26. CASE TunDrops
  <2>1. killSwitch' \in BOOLEAN /\ autoReconnect' \in BOOLEAN
    BY <1>26 DEF TunDrops, settings, TypeOK, FlagsOK
  <2>2. /\ isIntentionalDisconnect' \in BOOLEAN /\ lastExpiry' \in BOOLEAN
        /\ wgMonitorTimer' \in BOOLEAN /\ connectedAtMs' \in BOOLEAN
    BY <1>26 DEF TunDrops, intent, tracking, supervision, TypeOK, FlagsOK
  <2>3. /\ armed' \in BOOLEAN /\ snap' \in BOOLEAN
        /\ killSwitchFailed' \in BOOLEAN /\ killSwitchTeardownFailed' \in BOOLEAN
    BY <1>26 DEF TunDrops, firewall, warnings, TypeOK, FlagsOK
  <2>4. /\ rootUp' \in BOOLEAN /\ tunUp' \in BOOLEAN /\ leaked' \in BOOLEAN
        /\ wanted' \in BOOLEAN /\ owed' \in BOOLEAN
    BY <1>26 DEF TunDrops, TypeOK, FlagsOK
  <2>5. QED BY <2>1, <2>2, <2>3, <2>4 DEF FlagsOK
<1>27. CASE CoreExits
  BY <1>27, AttemptReconnectType DEF CoreExits, tracking, supervision, settings, TypeOK, FlagsOK
<1>28. CASE RequestDisconnect
  BY <1>28, EndLifecycleType DEF RequestDisconnect, tracking, supervision, system, warnings,
    firewall, settings, TypeOK, FlagsOK
<1>29. ASSUME NEW s \in Sessions, NEW mode \in {"tunnel", "proxy"}, RequestConnect(s, mode) PROVE FlagsOK'
  BY <1>29 DEF RequestConnect, intent, tracking, supervision, system, warnings, firewall, settings,
    TypeOK, FlagsOK
<1>30. ASSUME NEW s \in Sessions, StartPurchase(s) PROVE FlagsOK'
  BY <1>30 DEF StartPurchase, intent, tracking, supervision, system, warnings, firewall, settings,
    TypeOK, FlagsOK
<1>31. ASSUME NEW s \in Sessions, FinishPurchase(s) PROVE FlagsOK'
  BY <1>31, TrackingFlags
<1>32. ASSUME NEW s \in Sessions, StartRenewal(s) PROVE FlagsOK'
  BY <1>32 DEF StartRenewal, intent, tracking, supervision, system, warnings, firewall, settings,
    TypeOK, FlagsOK
<1>33. ASSUME NEW s \in Sessions, TrackRenewal(s) PROVE FlagsOK'
  BY <1>33, TrackingFlags
<1>34. ASSUME NEW s \in Sessions, FinishRenewal(s) PROVE FlagsOK'
  BY <1>34, TrackingFlags
<1>35. CASE ToggleKillSwitch
  BY <1>35 DEF ToggleKillSwitch, intent, tracking, supervision, system, warnings, firewall, TypeOK,
    FlagsOK
<1>36. CASE ToggleAutoReconnect
  BY <1>36 DEF ToggleAutoReconnect, intent, tracking, supervision, system, warnings, firewall,
    TypeOK, FlagsOK
<1>37. QED BY <1>1, <1>2, <1>3, <1>4, <1>5, <1>6, <1>7, <1>8, <1>9, <1>10, <1>11, <1>12, <1>13,
    <1>14, <1>15, <1>16, <1>17, <1>18, <1>19, <1>20, <1>21, <1>22, <1>23, <1>24, <1>25, <1>26,
    <1>27, <1>28, <1>29, <1>30, <1>31, <1>32, <1>33, <1>34, <1>35, <1>36 DEF Next, LockStep,
    UserStep

(* No step changes the family of the protocol in use. *)
LEMMA FamilyStep == Next => family' = family
<1>1. ASSUME LockStep PROVE UNCHANGED settings
  BY <1>1 DEF LockStep, RefuseConnect, StartConnect, ConnectReady, UndoConnect, DropReconnect,
    StartReconnect, ReconnectWithoutConfig, CleanupReconnect, TeardownToIdle, BringUpRoot,
    CoreStarted, BringUpTun, PostConnect, ProbePassed, ProbeFailed, Revert, StartTeardown,
    FinishTeardown, StartFirewall, FinishFirewall
<1>2. ASSUME GiveUpRevert \/ GiveUpUndo PROVE UNCHANGED settings
  BY <1>2 DEF GiveUpRevert, GiveUpUndo
<1>3. ASSUME TimerFires \/ MonitorTick \/ RouteTick \/ QuotaTickDropped \/ QuotaTickEnd
      PROVE  UNCHANGED settings
  BY <1>3 DEF TimerFires, MonitorTick, RouteTick, QuotaTickDropped, QuotaTickEnd
<1>4. ASSUME RootDrops \/ TunDrops \/ CoreExits PROVE UNCHANGED settings
  BY <1>4 DEF RootDrops, TunDrops, CoreExits
<1>5. ASSUME UserStep PROVE family' = family
  BY <1>5 DEF UserStep, RequestDisconnect, ToggleKillSwitch, ToggleAutoReconnect, RequestConnect,
    StartPurchase, FinishPurchase, StartRenewal, TrackRenewal, FinishRenewal, settings
<1>6. QED BY <1>1, <1>2, <1>3, <1>4, <1>5 DEF Next, settings

(* A launch has typed variables. *)
LEMMA InitTypeOK == Init => TypeOK
<1> SUFFICES ASSUME Init PROVE TypeOK
  OBVIOUS
<1>1. DataOK
  BY ConstantsAssumption, NothingType DEF Init, DataOK
<1>2. LockOK
  BY NoJobType DEF Init, LockOK
<1>3. FlagsOK
  BY DEF Init, FlagsOK
<1>4. family \in Families
  BY DEF Init
<1>5. QED BY <1>1, <1>2, <1>3, <1>4 DEF TypeOK

(* Every step, or none, keeps every variable typed. *)
LEMMA TypeStep == TypeOK /\ [Next]_vars => TypeOK'
<1> SUFFICES ASSUME TypeOK, [Next]_vars PROVE TypeOK'
  OBVIOUS
<1>1. CASE Next
  BY <1>1, DataStep, QueueStep, FlagsStep, FamilyStep DEF TypeOK
<1>2. CASE UNCHANGED vars
  <2>1. DataOK'
    BY <1>2 DEF TypeOK, DataOK, vars, intent, tracking, supervision, system, renderer
  <2>2. LockOK'
    BY <1>2 DEF TypeOK, LockOK, vars, lock
  <2>3. FlagsOK'
    BY <1>2 DEF TypeOK, FlagsOK, vars, intent, tracking, supervision, system, firewall, warnings,
      settings
  <2>4. QED BY <1>2, <2>1, <2>2, <2>3 DEF TypeOK, vars, settings
<1>3. QED BY <1>1, <1>2

(* Type correctness: the ladder's counter never passes RECONNECT_MAX_ATTEMPTS, the queue holds
   only jobs, and the lock is free exactly when no handler is suspended. *)
THEOREM TypeCorrect == Spec => []TypeOK
BY InitTypeOK, TypeStep, PTL DEF Spec

----------------------------------------------------------------------------
(* Where the jobs of a queue are. *)

(* Where the jobs of a queue are after one is appended. *)
LEMMA AppendFacts ==
  ASSUME NEW q \in Seq(Job), NEW j \in Job
  PROVE  /\ DOMAIN q = 1..Len(q) /\ Len(q) \in Nat
         /\ DOMAIN Append(q, j) = 1..(Len(q) + 1)
         /\ \A i \in DOMAIN q : Append(q, j)[i] = q[i]
         /\ Append(q, j)[Len(q) + 1] = j
OBVIOUS

(* Where they are after the head is taken. *)
LEMMA TailFacts ==
  ASSUME NEW q \in Seq(Job), q # <<>>
  PROVE  /\ DOMAIN q = 1..Len(q) /\ Len(q) \in Nat \ {0}
         /\ Head(q) = q[1]
         /\ DOMAIN Tail(q) = 1..(Len(q) - 1)
         /\ \A i \in 1..(Len(q) - 1) : Tail(q)[i] = q[i + 1]
OBVIOUS

----------------------------------------------------------------------------
(* An ending stays in charge. *)

(* The three parts of EndingIsInCharge that hold once an ending is spoken. *)
AfterAnEnding == LadderIsDisarmed /\ TeardownIsBehind /\ CarryingIsDoomed

(* An ending disarms and dooms whatever was there, from any state. *)
LEMMA Ended ==
  ASSUME TypeOK, EpochsArePast, NEW op \in Endings, EndLifecycle(op)
  PROVE  EpochsArePast' /\ AfterAnEnding'
<1> DEFINE j == JobOf(op, NoSession, "tunnel", 0)
<1>1. j \in Job /\ j.op = op
  BY JobOfType, NothingType DEF Endings
<1>2. waiting \in Seq(Job) /\ waiting' = Append(waiting, j)
  BY DEF TypeOK, LockOK, EndLifecycle
<1>3. connectionEpoch \in Nat /\ connectionEpoch' = connectionEpoch + 1
  BY DEF TypeOK, DataOK, EndLifecycle
<1>4. reconnectTimer' = NoTimer /\ isIntentionalDisconnect' = TRUE /\ NoTimer = -1
  BY DEF EndLifecycle, NoTimer
<1> HIDE DEF j
<1>5. \A i \in DOMAIN waiting' : waiting'[i].op = "reconnect" => waiting'[i].ep < connectionEpoch'
  <2> SUFFICES ASSUME NEW i \in DOMAIN waiting', waiting'[i].op = "reconnect"
               PROVE  waiting'[i].ep < connectionEpoch'
    OBVIOUS
  <2>1. CASE i \in DOMAIN waiting
    <3>1. waiting'[i] = waiting[i] /\ waiting[i] \in Job
      BY <1>1, <1>2, <2>1, AppendFacts
    <3>2. waiting[i].ep <= connectionEpoch /\ waiting[i].ep \in Nat
      BY <2>1, <3>1, JobFields DEF EpochsArePast
    <3>3. QED BY <1>3, <3>1, <3>2
  <2>2. CASE i \notin DOMAIN waiting
    BY <1>1, <1>2, <2>2, AppendFacts DEF Endings
  <2>3. QED BY <2>1, <2>2
<1>6. waiting'[Len(waiting) + 1].op \in Endings /\ Len(waiting) + 1 \in DOMAIN waiting'
  BY <1>1, <1>2, AppendFacts DEF Endings
<1>7. \A i \in DOMAIN waiting' : waiting'[i].op = "connect" => Len(waiting) + 1 > i
  BY <1>1, <1>2, AppendFacts DEF Endings
<1>8. \A i \in DOMAIN waiting' : waiting'[i].op = "reconnect" => waiting'[i].ep <= connectionEpoch'
  <2> SUFFICES ASSUME NEW i \in DOMAIN waiting', waiting'[i].op = "reconnect"
               PROVE  waiting'[i].ep <= connectionEpoch'
    OBVIOUS
  <2>1. waiting'[i] \in Job
    BY <1>1, <1>2, Enqueue
  <2>2. QED BY <1>3, <1>5, <2>1, JobFields
<1>9. QED
  BY <1>3, <1>4, <1>5, <1>6, <1>7, <1>8
  DEF AfterAnEnding, EpochsArePast, LadderIsDisarmed, TeardownIsBehind, CarryingIsDoomed, TeardownWaits

(* A step that touches neither the intent nor the queue, raises nothing and starts no bring-up
   keeps the ending in charge. *)
LEMMA Kept ==
  ASSUME EpochsArePast, AfterAnEnding,
         UNCHANGED <<connectionEpoch, reconnectTimer, isIntentionalDisconnect, wanted, waiting>>,
         activeSessionId' \in {activeSessionId, NoSession},
         job'.op \in BringsUp => job.op \in BringsUp,
         ~wanted /\ Carrying' => job'.op \in Endings \/ TeardownWaits
  PROVE  EpochsArePast' /\ AfterAnEnding'
<1>1. EpochsArePast'
  BY DEF EpochsArePast
<1>2. LadderIsDisarmed'
  BY DEF AfterAnEnding, LadderIsDisarmed
<1>3. TeardownIsBehind'
  BY DEF AfterAnEnding, TeardownIsBehind, TeardownWaits
<1>4. CarryingIsDoomed'
  BY DEF AfterAnEnding, CarryingIsDoomed, TeardownWaits
<1>5. QED BY <1>1, <1>2, <1>3, <1>4 DEF AfterAnEnding

(* While a connection is wanted, nothing is asked of the state but the epochs. *)
LEMMA StillWanted ==
  ASSUME EpochsArePast', wanted'
  PROVE  EpochsArePast' /\ AfterAnEnding'
BY DEF AfterAnEnding, LadderIsDisarmed, TeardownIsBehind, CarryingIsDoomed

(* Taking the head of the queue: what was behind another job is still behind it. *)
LEMMA Taken ==
  ASSUME TypeOK, EpochsArePast, AfterAnEnding, NEW op, TakeJob(op),
         UNCHANGED <<connectionEpoch, reconnectTimer, isIntentionalDisconnect, wanted, activeSessionId>>
  PROVE  /\ EpochsArePast' /\ LadderIsDisarmed'
         /\ ~wanted => \A i \in DOMAIN waiting' : waiting'[i].op = "connect" =>
                          \E k \in DOMAIN waiting' : k > i /\ waiting'[k].op \in Endings
         /\ op \notin Endings /\ TeardownWaits => TeardownWaits'
         /\ ~wanted /\ op = "connect" => TeardownWaits'
<1>1. waiting \in Seq(Job) /\ waiting # <<>> /\ waiting' = Tail(waiting) /\ Head(waiting).op = op
  BY DEF TypeOK, LockOK, TakeJob
<1>2. /\ DOMAIN waiting = 1..Len(waiting) /\ Len(waiting) \in Nat \ {0}
      /\ waiting[1].op = op
      /\ DOMAIN waiting' = 1..(Len(waiting) - 1)
      /\ \A i \in 1..(Len(waiting) - 1) : waiting'[i] = waiting[i + 1] /\ i + 1 \in DOMAIN waiting
  BY <1>1, TailFacts
<1>3. \A k \in DOMAIN waiting : k > 1 => k - 1 \in DOMAIN waiting' /\ waiting'[k - 1] = waiting[k]
  BY <1>2
<1>4. EpochsArePast'
  BY <1>2 DEF EpochsArePast
<1>5. LadderIsDisarmed'
  BY <1>2 DEF AfterAnEnding, LadderIsDisarmed
<1>6. ASSUME ~wanted, NEW i \in DOMAIN waiting', waiting'[i].op = "connect"
      PROVE  \E k \in DOMAIN waiting' : k > i /\ waiting'[k].op \in Endings
  <2>1. PICK k \in DOMAIN waiting : k > i + 1 /\ waiting[k].op \in Endings
    BY <1>2, <1>6 DEF AfterAnEnding, TeardownIsBehind
  <2>2. k - 1 \in DOMAIN waiting' /\ k - 1 > i /\ waiting'[k - 1].op \in Endings
    BY <1>2, <1>3, <2>1
  <2>3. QED BY <2>2
<1>7. ASSUME op \notin Endings, TeardownWaits PROVE TeardownWaits'
  <2>1. PICK k \in DOMAIN waiting : waiting[k].op \in Endings
    BY <1>7 DEF TeardownWaits
  <2>2. k > 1
    BY <1>2, <1>7, <2>1
  <2>3. QED BY <1>3, <2>1, <2>2 DEF TeardownWaits
<1>8. ASSUME ~wanted, op = "connect" PROVE TeardownWaits'
  <2>1. PICK k \in DOMAIN waiting : k > 1 /\ waiting[k].op \in Endings
    BY <1>2, <1>8 DEF AfterAnEnding, TeardownIsBehind
  <2>2. QED BY <1>3, <2>1 DEF TeardownWaits
<1>9. QED BY <1>4, <1>5, <1>6, <1>7, <1>8

(* The kind of a job built. *)
LEMMA OpOfJobOf == \A op, cfg, mode, ep : JobOf(op, cfg, mode, ep).op = op
BY DEF JobOf

(* A job is only ever suspended on an await of its own handler. *)
LEMMA AwaitStep == JobMatchesAwait /\ Next => JobMatchesAwait'
<1> SUFFICES ASSUME JobMatchesAwait, Next PROVE JobMatchesAwait'
  OBVIOUS
<1>1. CASE UNCHANGED <<job, at>>
  BY <1>1 DEF JobMatchesAwait
<1>2. CASE Release
  BY <1>2 DEF Release, JobMatchesAwait
<1>3. CASE StartConnect
  BY <1>3 DEF StartConnect, TakeJob, RunJob, JobMatchesAwait, BringsUp
<1>4. CASE ConnectReady
  BY <1>2, <1>4, OpOfJobOf DEF ConnectReady, JobMatchesAwait, BringsUp
<1>5. CASE StartReconnect
  BY <1>5, OpOfJobOf DEF StartReconnect, RunJob, JobMatchesAwait, BringsUp
<1>6. CASE ReconnectWithoutConfig
  BY <1>6 DEF ReconnectWithoutConfig, TakeJob, RunJob, Reverting, JobMatchesAwait
<1>7. CASE BringUpRoot \/ CoreStarted \/ BringUpTun
  <2>1. CASE BringUpDone
    BY <1>7, <2>1 DEF BringUpRoot, CoreStarted, BringUpTun, BringUpDone, Suspend, Reverting,
      JobMatchesAwait,
      BringsUp
  <2>2. CASE BringUpFailed(TRUE) \/ BringUpFailed(FALSE)
    BY <1>2, <1>7, <2>2 DEF BringUpRoot, CoreStarted, BringUpTun, BringUpFailed, Suspend,
      JobMatchesAwait,
      BringsUp
  <2>3. CASE at = "core" /\ Suspend("tun")
    BY <2>3 DEF Suspend, JobMatchesAwait
  <2>4. QED BY <1>2, <1>7, <2>1, <2>2, <2>3 DEF BringUpRoot, CoreStarted, BringUpTun
<1>8. CASE PostConnect
  BY <1>8 DEF PostConnect, Suspend, JobMatchesAwait
<1>9. CASE ProbeFailed
  BY <1>9 DEF ProbeFailed, Suspend, Reverting, JobMatchesAwait
<1>10. CASE Revert
  BY <1>10 DEF Revert, Suspend, JobMatchesAwait
<1>11. CASE StartTeardown
  BY <1>11 DEF StartTeardown, TakeJob, RunJob, Reverting, JobMatchesAwait
<1>12. CASE StartFirewall
  BY <1>1, <1>12 DEF StartFirewall, TakeJob, RunJob, JobMatchesAwait
<1>13. CASE \/ RefuseConnect \/ DropReconnect \/ GiveUpRevert \/ GiveUpUndo
            \/ TimerFires \/ MonitorTick \/ RouteTick \/ QuotaTickDropped \/ QuotaTickEnd
            \/ RootDrops \/ TunDrops \/ CoreExits
            \/ UserStep
  BY <1>1, <1>13 DEF RefuseConnect, DropReconnect, GiveUpRevert, GiveUpUndo, TimerFires,
    MonitorTick, RouteTick,
    QuotaTickDropped, QuotaTickEnd, RootDrops, TunDrops, CoreExits, UserStep, RequestDisconnect,
    RequestConnect, StartPurchase, FinishPurchase, StartRenewal, TrackRenewal, FinishRenewal, ToggleKillSwitch,
    ToggleAutoReconnect, lock
<1>14. CASE UndoConnect \/ CleanupReconnect \/ TeardownToIdle \/ ProbePassed \/ FinishTeardown \/ FinishFirewall
  BY <1>2, <1>14 DEF UndoConnect, CleanupReconnect, TeardownToIdle, ProbePassed, FinishTeardown,
    FinishFirewall
<1>15. QED
  BY <1>3, <1>4, <1>5, <1>6, <1>7, <1>8, <1>9, <1>10, <1>11, <1>12, <1>13, <1>14 DEF Next, LockStep

(* The three things attemptReconnect can do to the intent. *)
LEMMA AttemptOutcome ==
  ASSUME AttemptReconnect
  PROVE  \/ UNCHANGED <<intent, waiting, wanted>>
         \/ EndLifecycle("standdown")
         \/ /\ activeSessionId # NoSession /\ ~isIntentionalDisconnect
            /\ UNCHANGED <<isIntentionalDisconnect, connectionEpoch, waiting, wanted>>
            /\ reconnectTimer' \in {reconnectTimer, connectionEpoch}
BY DEF AttemptReconnect, StandDown, intent

(* After an ending attemptReconnect does nothing; before one it may be the ending. *)
LEMMA AfterAttempt ==
  ASSUME TypeOK, EpochsArePast, AfterAnEnding, AttemptReconnect,
         activeSessionId' = activeSessionId,
         job'.op \in BringsUp => job.op \in BringsUp,
         ~wanted /\ Carrying' => job'.op \in Endings \/ TeardownWaits
  PROVE  EpochsArePast' /\ AfterAnEnding'
<1>1. CASE UNCHANGED <<intent, waiting, wanted>>
  BY <1>1, Kept DEF intent
<1>2. CASE EndLifecycle("standdown")
  BY <1>2, Ended DEF Endings
<1>3. CASE /\ activeSessionId # NoSession /\ ~isIntentionalDisconnect
           /\ UNCHANGED <<isIntentionalDisconnect, connectionEpoch, waiting, wanted>>
           /\ reconnectTimer' \in {reconnectTimer, connectionEpoch}
  <2>1. wanted
    BY <1>3 DEF AfterAnEnding, LadderIsDisarmed
  <2>2. connectionEpoch <= connectionEpoch
    BY DEF TypeOK, DataOK
  <2>3. EpochsArePast'
    BY <1>3, <2>2 DEF EpochsArePast
  <2>4. QED BY <1>3, <2>1, <2>3, StillWanted
<1>4. QED BY <1>1, <1>2, <1>3, AttemptOutcome

(* A job queued with an epoch that has begun. *)
LEMMA Queued ==
  ASSUME TypeOK, EpochsArePast, NEW j \in Job, waiting' = Append(waiting, j),
         j.op = "reconnect" => j.ep <= connectionEpoch,
         connectionEpoch' = connectionEpoch, reconnectTimer' \in {reconnectTimer, NoTimer}
  PROVE  EpochsArePast'
<1>1. waiting \in Seq(Job) /\ connectionEpoch \in Nat /\ NoTimer <= connectionEpoch
  BY DEF TypeOK, LockOK, DataOK, NoTimer
<1>2. QED BY <1>1, AppendFacts DEF EpochsArePast

(* A step of a bring-up, whose teardown waits if its ending was spoken. *)
LEMMA BringUpStep ==
  ASSUME TypeOK, EndingIsInCharge, job.op \in BringsUp, job' = job \/ job' = NoJob \/ job'.op \in BringsUp,
         UNCHANGED <<connectionEpoch, reconnectTimer, isIntentionalDisconnect, wanted, waiting, activeSessionId>>
  PROVE  EpochsArePast' /\ AfterAnEnding'
<1>1. ~wanted => TeardownWaits
  BY DEF EndingIsInCharge, TeardownIsBehind
<1>2. QED BY <1>1, Kept DEF EndingIsInCharge, AfterAnEnding

(* disconnect() leaves nothing up. *)
LEMMA DisconnectedMeansDown == DisconnectTunnel => ~Carrying'
BY DEF DisconnectTunnel, Carrying

(* Every step keeps the ending in charge. *)
LEMMA ChargeStep == TypeOK /\ EndingIsInCharge /\ Next => EpochsArePast' /\ AfterAnEnding'
<1> SUFFICES ASSUME TypeOK, EndingIsInCharge, Next PROVE EpochsArePast' /\ AfterAnEnding'
  OBVIOUS
<1> USE DEF intent, tracking, lock
<1>0. JobMatchesAwait /\ EpochsArePast /\ AfterAnEnding /\ NoJob.op = "none"
  BY NoJobType DEF EndingIsInCharge, AfterAnEnding
<1>1. CASE RefuseConnect
  BY <1>0, <1>1, Taken DEF RefuseConnect, AfterAnEnding, TeardownIsBehind, CarryingIsDoomed, system,
    Carrying, Endings
<1>2. CASE DropReconnect
  BY <1>0, <1>2, Taken DEF DropReconnect, AfterAnEnding, TeardownIsBehind, CarryingIsDoomed, system,
    Carrying, Endings
<1>3. CASE StartConnect
  BY <1>0, <1>3, Taken DEF StartConnect, RunJob, AfterAnEnding, TeardownIsBehind, CarryingIsDoomed,
    system, Carrying, Endings
<1>4. CASE StartFirewall
  <2>1. TakeJob("firewall") /\ (job' = job \/ job'.op = "firewall") /\ job = NoJob
    BY <1>4 DEF StartFirewall, RunJob, TakeJob
  <2>2. UNCHANGED <<connectionEpoch, reconnectTimer, isIntentionalDisconnect, wanted, activeSessionId,
                    rootUp, tunUp, activeChild>>
    BY <1>4 DEF StartFirewall, system
  <2>3. QED
    BY <1>0, <2>1, <2>2, Taken DEF AfterAnEnding, TeardownIsBehind, CarryingIsDoomed, Carrying,
      Endings, BringsUp
<1>5. CASE StartTeardown
  <2>1. PICK op \in Endings : TakeJob(op) /\ job'.op = op
    BY <1>5 DEF StartTeardown, RunJob, TakeJob, Endings
  <2>2. UNCHANGED <<connectionEpoch, reconnectTimer, isIntentionalDisconnect, wanted, activeSessionId>>
    BY <1>5 DEF StartTeardown
  <2>3. QED
    BY <1>0, <2>1, <2>2, Taken DEF AfterAnEnding, TeardownIsBehind, CarryingIsDoomed, Endings,
      BringsUp
<1>6. CASE StartReconnect \/ ReconnectWithoutConfig
  <2>1. TakeJob("reconnect") /\ Head(waiting).ep = connectionEpoch
    BY <1>6 DEF StartReconnect, ReconnectWithoutConfig
  <2>2. UNCHANGED <<connectionEpoch, reconnectTimer, isIntentionalDisconnect, wanted, activeSessionId>>
    BY <1>6 DEF StartReconnect, ReconnectWithoutConfig
  <2>3. wanted
    <3>1. waiting \in Seq(Job) /\ waiting # <<>> /\ Head(waiting).op = "reconnect" /\ connectionEpoch \in Nat
      BY <2>1 DEF TakeJob, TypeOK, LockOK, DataOK
    <3>2. 1 \in DOMAIN waiting /\ Head(waiting) = waiting[1]
      BY <3>1, TailFacts
    <3>3. QED BY <1>0, <2>1, <3>1, <3>2 DEF AfterAnEnding, LadderIsDisarmed
  <2>4. QED BY <1>0, <2>1, <2>2, <2>3, Taken, StillWanted
<1>7. CASE ConnectReady
  BY <1>7, OpOfJobOf, BringUpStep DEF ConnectReady, Release, BringsUp
<1>8. CASE BringUpRoot \/ CoreStarted \/ BringUpTun
  <2>1. job.op \in BringsUp
    BY <1>0, <1>8 DEF BringUpRoot, CoreStarted, BringUpTun, JobMatchesAwait
  <2>2. job' = job \/ job' = NoJob
    BY <1>8 DEF BringUpRoot, CoreStarted, BringUpTun, BringUpDone, BringUpFailed, Suspend, Release
  <2>3. waiting' = waiting
    BY <1>8 DEF BringUpRoot, CoreStarted, BringUpTun, BringUpDone, BringUpFailed, Suspend, Release
  <2>4. UNCHANGED <<connectionEpoch, reconnectTimer, isIntentionalDisconnect, wanted, activeSessionId>>
    BY <1>8 DEF BringUpRoot, CoreStarted, BringUpTun
  <2>5. QED BY <2>1, <2>2, <2>3, <2>4, BringUpStep
<1>9. CASE PostConnect \/ ProbeFailed
  BY <1>0, <1>9, BringUpStep DEF PostConnect, ProbeFailed, Suspend, JobMatchesAwait
<1>10. CASE ProbePassed
  BY <1>0, <1>10, BringUpStep DEF ProbePassed, Release, JobMatchesAwait
<1>11. CASE Revert
  BY <1>0, <1>11, Kept DEF Revert, Suspend, AfterAnEnding, CarryingIsDoomed, Carrying, system
<1>12. CASE UndoConnect
  BY <1>12, BringUpStep DEF UndoConnect, Release, BringsUp
<1>13. CASE TeardownToIdle
  BY <1>0, <1>13, BringUpStep DEF TeardownToIdle, Release, JobMatchesAwait, BringsUp
<1>14. CASE CleanupReconnect
  <2>1. ~Carrying' /\ job' = NoJob
    BY <1>14, DisconnectedMeansDown DEF CleanupReconnect, Release
  <2>2. AttemptReconnect /\ activeSessionId' = activeSessionId
    BY <1>14 DEF CleanupReconnect
  <2>3. QED BY <1>0, <2>1, <2>2, AfterAttempt DEF BringsUp
<1>15. CASE FinishTeardown
  <2>1. ~Carrying' /\ job' = NoJob
    BY <1>15, DisconnectedMeansDown DEF FinishTeardown, Release
  <2>2. /\ activeSessionId' = NoSession
        /\ UNCHANGED <<connectionEpoch, reconnectTimer, wanted, waiting>>
    BY <1>15 DEF FinishTeardown
  <2>3. EpochsArePast' /\ LadderIsDisarmed'
    BY <1>0, <2>2 DEF AfterAnEnding, EpochsArePast, LadderIsDisarmed
  <2>4. TeardownIsBehind' /\ CarryingIsDoomed'
    BY <1>0, <2>1, <2>2 DEF AfterAnEnding, TeardownIsBehind, CarryingIsDoomed, BringsUp
  <2>5. QED BY <2>3, <2>4 DEF AfterAnEnding
<1>16. CASE FinishFirewall
  <2>1. job.op = "firewall" /\ job' = NoJob
    BY <1>0, <1>16 DEF FinishFirewall, Release, JobMatchesAwait
  <2>2. UNCHANGED <<connectionEpoch, reconnectTimer, isIntentionalDisconnect, wanted, waiting, activeSessionId,
                    rootUp, tunUp, activeChild>>
    BY <1>16 DEF FinishFirewall, system
  <2>3. QED BY <1>0, <2>1, <2>2, Kept DEF AfterAnEnding, CarryingIsDoomed, Carrying, Endings,
    BringsUp
<1>17. CASE GiveUpRevert \/ RootDrops \/ TunDrops
  BY <1>0, <1>17, Kept DEF GiveUpRevert, RootDrops, TunDrops, AfterAnEnding, CarryingIsDoomed,
    Carrying, system
<1>18. CASE GiveUpUndo
  BY <1>0, <1>18, Kept, DisconnectedMeansDown DEF GiveUpUndo
<1>19. CASE TimerFires
  <2>1. wanted
    BY <1>0, <1>19 DEF TimerFires, AfterAnEnding, LadderIsDisarmed
  <2>2. /\ JobOf("reconnect", NoSession, "tunnel", reconnectTimer) \in Job
        /\ JobOf("reconnect", NoSession, "tunnel", reconnectTimer).ep = reconnectTimer
    BY <1>19, JobOfType, NothingType DEF TimerFires, TypeOK, DataOK, JobOf
  <2>3. EpochsArePast'
    BY <1>0, <1>19, <2>2, Queued DEF TimerFires, EpochsArePast
  <2>4. QED BY <1>19, <2>1, <2>3, StillWanted DEF TimerFires
<1>20. CASE MonitorTick \/ RouteTick \/ CoreExits
  <2>1. AttemptReconnect /\ job' = job /\ activeSessionId' = activeSessionId
    BY <1>20 DEF MonitorTick, RouteTick, CoreExits
  <2>2. Carrying' => Carrying
    BY <1>20 DEF MonitorTick, RouteTick, CoreExits, system, Carrying
  <2>3. QED BY <1>0, <2>1, <2>2, AfterAttempt DEF AfterAnEnding, CarryingIsDoomed
<1>21. CASE QuotaTickDropped \/ QuotaTickEnd
  <2>1. EndLifecycle("standdown")
    BY <1>21 DEF QuotaTickDropped, QuotaTickEnd, Supervising, StandDown
  <2>2. QED BY <1>0, <2>1, Ended DEF Endings
<1>22. CASE RequestDisconnect
  BY <1>0, <1>22, Ended DEF RequestDisconnect, Endings
<1>23. ASSUME NEW s \in Sessions, NEW mode \in {"tunnel", "proxy"}, RequestConnect(s, mode)
       PROVE  EpochsArePast' /\ AfterAnEnding'
  <2>1. PICK j \in Job : j.op = "connect" /\ waiting' = Append(waiting, j)
    BY SMTT(30), <1>23, JobOfType, NothingType DEF RequestConnect, TypeOK, DataOK
  <2>2. connectionEpoch' = connectionEpoch /\ reconnectTimer' = reconnectTimer /\ wanted'
    BY <1>23 DEF RequestConnect
  <2>3. QED BY <1>0, <2>1, <2>2, Queued, StillWanted
<1>24. ASSUME NEW s \in Sessions, StartPurchase(s) \/ StartRenewal(s)
       PROVE  EpochsArePast' /\ AfterAnEnding'
  BY <1>0, <1>24, Kept DEF StartPurchase, StartRenewal, AfterAnEnding, CarryingIsDoomed, Carrying,
    system
<1>25. ASSUME NEW s \in Sessions, FinishPurchase(s) \/ TrackRenewal(s) \/ FinishRenewal(s)
       PROVE  EpochsArePast' /\ AfterAnEnding'
  <2>1. UNCHANGED <<intent, lock, system>>
    BY <1>25 DEF FinishPurchase, TrackRenewal, FinishRenewal
  <2>2. wanted' = TRUE \/ UNCHANGED <<activeSessionId, wanted>>
    BY <1>25 DEF FinishPurchase, TrackRenewal, FinishRenewal
  <2>3. EpochsArePast'
    BY <1>0, <2>1 DEF EpochsArePast
  <2>4. QED
    BY <1>0, <2>1, <2>2, <2>3, Kept, StillWanted DEF AfterAnEnding, CarryingIsDoomed, Carrying,
      system
<1>26. CASE ToggleKillSwitch
  <2> DEFINE j == JobOf("firewall", NoSession, "tunnel", 0)
  <2>1. j \in Job /\ j.op = "firewall"
    BY JobOfType, NothingType
  <2> HIDE DEF j
  <2>2. /\ waiting' = Append(waiting, j) /\ waiting \in Seq(Job)
        /\ UNCHANGED <<connectionEpoch, reconnectTimer, isIntentionalDisconnect, wanted, activeSessionId, job,
                       rootUp, tunUp, activeChild>>
    BY <1>26 DEF ToggleKillSwitch, j, system, TypeOK, LockOK
  <2>3. EpochsArePast'
    BY <1>0, <2>1, <2>2, Queued
  <2>4. \A i \in DOMAIN waiting' : waiting'[i].op # "firewall" => i \in DOMAIN waiting /\ waiting'[i] = waiting[i]
    BY <2>1, <2>2, AppendFacts
  <2>5. \A i \in DOMAIN waiting : i \in DOMAIN waiting' /\ waiting'[i] = waiting[i]
    BY <2>1, <2>2, AppendFacts
  <2>6. LadderIsDisarmed'
    BY <1>0, <2>2, <2>4 DEF AfterAnEnding, LadderIsDisarmed
  <2>7. TeardownWaits => TeardownWaits'
    BY <2>5 DEF TeardownWaits
  <2>8. TeardownIsBehind'
    BY <1>0, <2>2, <2>4, <2>5, <2>7 DEF AfterAnEnding, TeardownIsBehind
  <2>9. CarryingIsDoomed'
    BY <1>0, <2>2, <2>7 DEF AfterAnEnding, CarryingIsDoomed, Carrying
  <2>10. QED BY <2>3, <2>6, <2>8, <2>9 DEF AfterAnEnding
<1>27. CASE ToggleAutoReconnect
  BY <1>0, <1>27, Kept DEF ToggleAutoReconnect, AfterAnEnding, CarryingIsDoomed, Carrying, system
<1>28. QED
  BY <1>1, <1>2, <1>3, <1>4, <1>5, <1>6, <1>7, <1>8, <1>9, <1>10, <1>11, <1>12, <1>13, <1>14, <1>15,
    <1>16,
    <1>17, <1>18, <1>19, <1>20, <1>21, <1>22, <1>23, <1>24, <1>25, <1>26, <1>27 DEF Next, LockStep, UserStep

(* At a launch nothing runs and nothing is queued. *)
LEMMA InitCharge == Init => EndingIsInCharge
<1> SUFFICES ASSUME Init PROVE EndingIsInCharge
  OBVIOUS
<1>1. JobMatchesAwait /\ EpochsArePast
  BY DEF Init, JobMatchesAwait, EpochsArePast, NoTimer
<1>2. LadderIsDisarmed
  BY DEF Init, LadderIsDisarmed
<1>3. TeardownIsBehind /\ CarryingIsDoomed
  BY NoJobType DEF Init, TeardownIsBehind, CarryingIsDoomed, Carrying, BringsUp
<1>4. QED BY <1>1, <1>2, <1>3 DEF EndingIsInCharge

(* Every step, or none, leaves a spoken ending in charge. *)
LEMMA EndingStep == TypeOK /\ EndingIsInCharge /\ [Next]_vars => EndingIsInCharge'
<1> SUFFICES ASSUME TypeOK, EndingIsInCharge, [Next]_vars PROVE EndingIsInCharge'
  OBVIOUS
<1>1. CASE Next
  BY <1>1, AwaitStep, ChargeStep DEF EndingIsInCharge, AfterAnEnding
<1>2. CASE UNCHANGED vars
  <2>1. UNCHANGED <<connectionEpoch, reconnectTimer, isIntentionalDisconnect, wanted, waiting, activeSessionId,
                    job, at, rootUp, tunUp, activeChild>>
    BY <1>2 DEF vars, intent, tracking, lock, system
  <2>2. JobMatchesAwait'
    BY <2>1 DEF EndingIsInCharge, JobMatchesAwait
  <2>3. EpochsArePast' /\ AfterAnEnding'
    BY <2>1, Kept DEF EndingIsInCharge, AfterAnEnding, CarryingIsDoomed, Carrying
  <2>4. QED BY <2>2, <2>3 DEF EndingIsInCharge, AfterAnEnding
<1>3. QED BY <1>1, <1>2

(* Once performDisconnect or standDownSession has spoken, everything queued, running or up is
   behind its teardown, until the user asks for a connection again. *)
THEOREM EndingStaysInCharge == Spec => []EndingIsInCharge
<1>1. Init => TypeOK /\ EndingIsInCharge
  BY InitTypeOK, InitCharge
<1>2. TypeOK /\ EndingIsInCharge /\ [Next]_vars => TypeOK' /\ EndingIsInCharge'
  BY TypeStep, EndingStep
<1>3. QED BY <1>1, <1>2, PTL DEF Spec

(* A tunnel the user tore down stays down, for any number of sessions, retries, requests and
   queued jobs, and whatever the timers, callbacks and drops in flight (H4 of the source). *)
THEOREM TornDownStaysDown == Spec => []NoResurrection
<1>1. EndingIsInCharge => NoResurrection
  BY NoJobType DEF EndingIsInCharge, CarryingIsDoomed, NoResurrection, TeardownWaits, Endings
<1>2. QED BY <1>1, EndingStaysInCharge, PTL

----------------------------------------------------------------------------
(* Every tunnel is supervised. *)

(* Each family has its own tunnels and its own awaits. *)
InTheFamily ==
  /\ family = "root" => activeChild = "none" /\ ~tunUp
  /\ family = "child" => ~rootUp
  /\ at = "bringup" => family = "root"
  /\ at \in {"core", "tun"} => family = "child"

(* No bring-up and no teardown is at work on the tunnel. *)
Resting == at \in {"idle", "setup", "firewall"}

(* A core runs in the mode that its job, and at rest the renderer, goes by. *)
CoreHasTheMode ==
  /\ Resting /\ activeChild # "none" => activeChild = desiredMode
  /\ at = "core" /\ activeChild # "none" => activeChild = job.mode
  /\ at \in {"tun", "post", "probe"} /\ activeChild # "none" => activeChild = "tunnel"

(* TunnelIsSupervised at every rest, and not only when the queue is empty. *)
RestIsSupervised ==
  Resting /\ Connected => connectedAtMs /\ (desiredMode = "tunnel" => wgMonitorTimer)

SupervisionInv == InTheFamily /\ CoreHasTheMode /\ RestIsSupervised

(* The awaits of a handler that is taking a tunnel down. *)
Undoing == {"revert", "undo", "cleanup", "idleRevert", "idleUndo"}

(* Whatever does not raise a tunnel or touch the supervision keeps it supervised. *)
LEMMA SupervisionKept ==
  ASSUME SupervisionInv, UNCHANGED <<at, family, desiredMode, connectedAtMs, wgMonitorTimer>>,
         job'.mode = job.mode, rootUp' => rootUp, tunUp' => tunUp, activeChild' \in {activeChild, "none"}
  PROVE  SupervisionInv'
BY DEF SupervisionInv, InTheFamily, CoreHasTheMode, RestIsSupervised, Resting, Connected

(* Nothing is asked of a tunnel that is being taken down. *)
LEMMA SupervisionUndone ==
  ASSUME SupervisionInv, at' \in Undoing, family' = family,
         rootUp' => rootUp \/ family = "root", tunUp' => tunUp \/ family = "child",
         activeChild' # "none" => activeChild # "none" \/ family = "child"
  PROVE  SupervisionInv'
BY DEF SupervisionInv, InTheFamily, CoreHasTheMode, RestIsSupervised, Resting, Undoing

(* Nor of one that has been taken down. *)
LEMMA SupervisionDown ==
  ASSUME SupervisionInv, DisconnectTunnel, at' \in {at, "idle"}, family' = family
  PROVE  SupervisionInv'
BY DEF SupervisionInv, InTheFamily, CoreHasTheMode, RestIsSupervised, Resting, DisconnectTunnel, Connected

(* The lock is free at the await of no job. *)
LEMMA FreeIsIdle ==
  ASSUME TypeOK, NEW op, TakeJob(op)
  PROVE  at = "idle" /\ job.op = "none"
BY NoJobType DEF TypeOK, LockOK, TakeJob

(* Every step keeps every tunnel at rest supervised. *)
LEMMA SupervisionStep == TypeOK /\ JobMatchesAwait /\ SupervisionInv /\ [Next]_vars => SupervisionInv'
<1> SUFFICES ASSUME TypeOK, JobMatchesAwait, SupervisionInv, [Next]_vars PROVE SupervisionInv'
  OBVIOUS
<1> USE DEF system, supervision, settings, lock
<1>0. family \in Families
  BY DEF TypeOK
<1>1. CASE RefuseConnect \/ DropReconnect \/ TimerFires \/ GiveUpRevert
  BY <1>1, SupervisionKept DEF RefuseConnect, DropReconnect, TimerFires, GiveUpRevert
<1>2. CASE MonitorTick \/ RouteTick \/ QuotaTickDropped \/ QuotaTickEnd
  BY <1>2, SupervisionKept DEF MonitorTick, RouteTick, QuotaTickDropped, QuotaTickEnd
<1>3. CASE RootDrops \/ TunDrops \/ CoreExits
  BY <1>3, SupervisionKept DEF RootDrops, TunDrops, CoreExits
<1>4. CASE UserStep
  BY <1>4, SupervisionKept DEF UserStep, RequestDisconnect, ToggleKillSwitch, ToggleAutoReconnect,
    RequestConnect, StartPurchase, FinishPurchase, StartRenewal, TrackRenewal, FinishRenewal
<1>5. CASE UNCHANGED vars
  BY <1>5, SupervisionKept DEF vars
<1>6. CASE UndoConnect \/ CleanupReconnect \/ TeardownToIdle \/ FinishTeardown \/ GiveUpUndo
  BY <1>6, SupervisionDown DEF UndoConnect, CleanupReconnect, TeardownToIdle, FinishTeardown,
    GiveUpUndo, Release
<1>7. CASE ReconnectWithoutConfig \/ ProbeFailed \/ Revert \/ StartTeardown
  <2>1. at' \in Undoing
    BY <1>7 DEF ReconnectWithoutConfig, ProbeFailed, Revert, StartTeardown, RunJob, Suspend,
      Reverting, Undoing
  <2>2. UNCHANGED <<family, rootUp, tunUp, activeChild>>
    BY <1>7 DEF ReconnectWithoutConfig, ProbeFailed, Revert, StartTeardown
  <2>3. QED BY <2>1, <2>2, SupervisionUndone
<1>8. CASE StartConnect
  <2>1. at = "idle" /\ at' = "setup" /\ ~Connected
    BY <1>8, FreeIsIdle DEF StartConnect, RunJob, connectionIsLive
  <2>2. QED
    BY <1>8, <2>1 DEF StartConnect, SupervisionInv, InTheFamily, CoreHasTheMode, RestIsSupervised,
      Resting, Connected
<1>9. CASE ConnectReady
  <2>1. at = "setup"
    BY <1>9 DEF ConnectReady
  <2>2. CASE at' = "idle" /\ UNCHANGED system
    BY <1>9, <2>1, <2>2 DEF ConnectReady, SupervisionInv, InTheFamily, CoreHasTheMode,
      RestIsSupervised, Resting, Connected
  <2>3. CASE family = "root" /\ at' = "bringup" /\ UNCHANGED system
    BY <1>9, <2>1, <2>3 DEF ConnectReady, SupervisionInv, InTheFamily, CoreHasTheMode,
      RestIsSupervised, Resting
  <2>4. CASE /\ family # "root" /\ at' = "core"
             /\ SpawnCore(job.mode, ConfigOf(job)) /\ job'.mode = job.mode
    BY <1>0, <1>9, <2>1, <2>4 DEF ConnectReady, SpawnCore, Families, SupervisionInv, InTheFamily,
      CoreHasTheMode, RestIsSupervised, Resting
  <2>5. QED BY <1>9, <2>2, <2>3, <2>4 DEF ConnectReady, Release, JobOf
<1>10. CASE StartReconnect
  <2> DEFINE j == JobOf("reconnect", activeSessionId, desiredMode, connectionEpoch)
  <2>1. family' = family /\ at = "idle"
    BY <1>10, FreeIsIdle DEF StartReconnect
  <2>2. CASE family = "root" /\ RunJob(j, "bringup") /\ UNCHANGED system
    BY <2>1, <2>2 DEF RunJob, SupervisionInv, InTheFamily, CoreHasTheMode, RestIsSupervised, Resting
  <2>3. CASE family = "child" /\ RunJob(j, "core") /\ SpawnCore(j.mode, j.cfg)
    BY <2>1, <2>3 DEF RunJob, SpawnCore, SupervisionInv, InTheFamily, CoreHasTheMode,
      RestIsSupervised, Resting
  <2>4. CASE RunJob(j, "cleanup") /\ UNCHANGED system
    BY <2>1, <2>4, SupervisionUndone DEF RunJob, Undoing
  <2>5. QED BY <1>10, <2>2, <2>3, <2>4 DEF StartReconnect
<1>11. CASE BringUpRoot
  <2>1. family = "root" /\ UNCHANGED <<family, tunUp, activeChild>> /\ activeChild = "none" /\ ~tunUp
    BY <1>11 DEF BringUpRoot, SupervisionInv, InTheFamily
  <2>2. CASE at' \in Undoing
    BY <2>1, <2>2, SupervisionUndone
  <2>3. CASE at' = "post"
    BY <2>1, <2>3 DEF SupervisionInv, InTheFamily, CoreHasTheMode, RestIsSupervised, Resting
  <2>4. CASE at' = "idle" /\ rootUp' = FALSE
    BY <2>1, <2>4 DEF SupervisionInv, InTheFamily, CoreHasTheMode, RestIsSupervised, Resting,
      Connected
  <2>5. QED
    BY <1>11, <2>2, <2>3, <2>4 DEF BringUpRoot, BringUpDone, BringUpFailed, Suspend, Release,
      Reverting, Undoing
<1>12. CASE CoreStarted
  <2>1. family = "child" /\ UNCHANGED <<family, rootUp, tunUp, activeChild>> /\ ~rootUp /\ at = "core"
    BY <1>12 DEF CoreStarted, SupervisionInv, InTheFamily
  <2>2. CASE at' \in Undoing
    BY <2>1, <2>2, SupervisionUndone
  <2>3. CASE activeChild = "none" /\ at' = "idle"
    BY <2>1, <2>3 DEF SupervisionInv, InTheFamily, CoreHasTheMode, RestIsSupervised, Resting,
      Connected
  <2>4. CASE job.mode = "tunnel" /\ at' = "tun"
    BY <2>1, <2>4 DEF SupervisionInv, InTheFamily, CoreHasTheMode, RestIsSupervised, Resting
  <2>5. CASE job.mode = "proxy" /\ Finalize("proxy") /\ at' = "idle"
    BY <2>1, <2>5 DEF Finalize, SupervisionInv, InTheFamily, CoreHasTheMode, RestIsSupervised,
      Resting
  <2>6. QED
    BY <1>12, <2>2, <2>3, <2>4, <2>5 DEF CoreStarted, BringUpDone, BringUpFailed, Suspend, Release,
      Reverting, Undoing
<1>13. CASE BringUpTun
  <2>1. /\ family = "child" /\ UNCHANGED <<family, rootUp, activeChild>> /\ ~rootUp
        /\ activeChild # "none" => activeChild = "tunnel"
    BY <1>13 DEF BringUpTun, SupervisionInv, InTheFamily, CoreHasTheMode
  <2>2. CASE at' \in Undoing
    BY <2>1, <2>2, SupervisionUndone
  <2>3. CASE at' = "post"
    BY <2>1, <2>3 DEF SupervisionInv, InTheFamily, CoreHasTheMode, RestIsSupervised, Resting
  <2>4. QED
    BY <1>13, <2>2, <2>3 DEF BringUpTun, BringUpDone, BringUpFailed, Suspend, Reverting, Undoing
<1>14. CASE PostConnect
  BY <1>14 DEF PostConnect, Suspend, SupervisionInv, InTheFamily, CoreHasTheMode, RestIsSupervised,
    Resting
<1>15. CASE ProbePassed
  BY <1>15 DEF ProbePassed, Release, Finalize, SupervisionInv, InTheFamily, CoreHasTheMode,
    RestIsSupervised, Resting
<1>16. CASE StartFirewall
  <2>1. at = "idle" /\ at' \in {"idle", "firewall"} /\ UNCHANGED <<supervision, system, family>>
    BY <1>16, FreeIsIdle DEF StartFirewall, RunJob
  <2>2. QED
    BY <2>1 DEF SupervisionInv, InTheFamily, CoreHasTheMode, RestIsSupervised, Resting, Connected
<1>17. CASE FinishFirewall
  BY <1>17 DEF FinishFirewall, Release, SupervisionInv, InTheFamily, CoreHasTheMode,
    RestIsSupervised, Resting, Connected
<1>18. QED
  BY <1>1, <1>2, <1>3, <1>4, <1>5, <1>6, <1>7, <1>8, <1>9, <1>10, <1>11, <1>12, <1>13, <1>14,
    <1>15, <1>16, <1>17 DEF Next, LockStep

(* At a launch nothing is up. *)
LEMMA InitSupervision == Init => SupervisionInv
BY DEF Init, SupervisionInv, InTheFamily, CoreHasTheMode, RestIsSupervised, Resting, Connected

(* The lock's invariant and the supervision's, together. *)
LEMMA SupervisionHolds == Spec => [](TypeOK /\ EndingIsInCharge /\ SupervisionInv)
<1>1. Init => TypeOK /\ EndingIsInCharge /\ SupervisionInv
  BY InitTypeOK, InitCharge, InitSupervision
<1>2. TypeOK /\ EndingIsInCharge /\ SupervisionInv /\ [Next]_vars
        => TypeOK' /\ EndingIsInCharge' /\ SupervisionInv'
  BY TypeStep, EndingStep, SupervisionStep DEF EndingIsInCharge
<1>3. QED BY <1>1, <1>2, PTL DEF Spec

(* Every tunnel that carries traffic is supervised, for any number of sessions and requests:
   the quota clock runs over it, and in tunnel mode the liveness monitor with it
   (finalizeTunnelConnect against the three teardowns). *)
THEOREM TunnelsAreSupervised == Spec => []TunnelIsSupervised
<1>1. TypeOK /\ SupervisionInv => TunnelIsSupervised
  BY NoJobType DEF TypeOK, LockOK, SupervisionInv, RestIsSupervised, Resting, TunnelIsSupervised, Quiet
<1>2. QED BY <1>1, SupervisionHolds, PTL

----------------------------------------------------------------------------
(* A queue keeps what is not taken from it. *)

(* What was queued still is when a job is appended, and the job is. *)
LEMMA AppendKeeps ==
  ASSUME NEW q \in Seq(Job), NEW j \in Job
  PROVE  /\ \A k \in DOMAIN q : \E i \in DOMAIN Append(q, j) : Append(q, j)[i] = q[k]
         /\ \E i \in DOMAIN Append(q, j) : Append(q, j)[i] = j
<1>1. \A k \in DOMAIN q : k \in DOMAIN Append(q, j) /\ Append(q, j)[k] = q[k]
  BY AppendFacts
<1>2. Len(q) + 1 \in DOMAIN Append(q, j) /\ Append(q, j)[Len(q) + 1] = j
  BY AppendFacts
<1>3. QED BY <1>1, <1>2

(* So is all but the head when the head is taken. *)
LEMMA TailKeeps ==
  ASSUME NEW q \in Seq(Job), q # <<>>, NEW k \in DOMAIN q, q[k] # Head(q)
  PROVE  \E i \in DOMAIN Tail(q) : Tail(q)[i] = q[k]
<1>1. k \in 1..Len(q) /\ k # 1 /\ Len(q) \in Nat \ {0}
  BY TailFacts
<1>2. k - 1 \in DOMAIN Tail(q) /\ Tail(q)[k - 1] = q[k]
  BY <1>1, TailFacts
<1>3. QED BY <1>2

----------------------------------------------------------------------------
(* The kill switch is as set, or the user is told. *)

FirewallWaits == \E i \in DOMAIN waiting : waiting[i].op = "firewall"

(* A setting changed under the step that read it has its own job behind it. *)
SettingIsHeld == at \in {"post", "firewall"} /\ snap # killSwitch => FirewallWaits

Told == armed \/ killSwitchFailed \/ FirewallWaits

(* ProtectionIsHonest at every rest: a chain, a warning, or a job in the queue that will see to
   it; and before that at the probe, when post-connect has run. *)
RestIsHonest ==
  at \in {"idle", "setup"} /\ giveUp = "none" /\ Connected /\ desiredProtocol # "none"
    /\ desiredMode = "tunnel" /\ killSwitch => Told
ProbeIsHonest == at = "probe" /\ giveUp = "none" /\ Connected /\ killSwitch => Told

HonestInv == SettingIsHeld /\ RestIsHonest /\ ProbeIsHonest

(* A job for the firewall waits until it is taken. *)
LEMMA FirewallStillWaits ==
  ASSUME TypeOK, FirewallWaits,
         \/ \E op \in {"connect", "reconnect", "disconnect", "standdown"} : TakeJob(op)
         \/ \E j \in Job : waiting' = Append(waiting, j)
         \/ waiting' = waiting
  PROVE  FirewallWaits'
<1>1. waiting \in Seq(Job)
  BY DEF TypeOK, LockOK
<1>2. PICK k \in DOMAIN waiting : waiting[k].op = "firewall"
  BY DEF FirewallWaits
<1>3. CASE \E op \in {"connect", "reconnect", "disconnect", "standdown"} : TakeJob(op)
  <2>1. waiting # <<>> /\ waiting' = Tail(waiting) /\ waiting[k] # Head(waiting)
    BY <1>2, <1>3 DEF TakeJob
  <2>2. QED BY <1>1, <1>2, <2>1, TailKeeps DEF FirewallWaits
<1>4. CASE \E j \in Job : waiting' = Append(waiting, j)
  <2>1. PICK j \in Job : waiting' = Append(waiting, j)
    BY <1>4
  <2>2. \E i \in DOMAIN waiting' : waiting'[i] = waiting[k]
    BY <1>1, <1>2, <2>1, AppendKeeps
  <2>3. QED BY <1>2, <2>2 DEF FirewallWaits
<1>5. CASE waiting' = waiting
  BY <1>2, <1>5 DEF FirewallWaits
<1>6. QED BY <1>3, <1>4, <1>5

(* What neither raises a tunnel nor takes back a chain, a warning or a job keeps the promise. *)
LEMMA HonestKept ==
  ASSUME HonestInv, UNCHANGED <<at, snap, killSwitch, desiredProtocol, desiredMode>>,
         Connected' => Connected,
         giveUp' = "none" => giveUp = "none" /\ UNCHANGED <<armed, killSwitchFailed>>,
         FirewallWaits => FirewallWaits'
  PROVE  HonestInv'
BY DEF HonestInv, SettingIsHeld, RestIsHonest, ProbeIsHonest, Told

(* Nothing is promised while a bring-up begins or a tunnel is taken down. *)
LEMMA HonestLater ==
  ASSUME at' \in Undoing \cup {"bringup", "core", "tun"}
  PROVE  HonestInv'
BY DEF HonestInv, SettingIsHeld, RestIsHonest, ProbeIsHonest, Undoing

(* Nor of a tunnel that is not there. *)
LEMMA HonestDown ==
  ASSUME HonestInv, ~Connected',
         at' \in {"idle", "setup"} \/ UNCHANGED <<at, snap, killSwitch, waiting>>
  PROVE  HonestInv'
BY DEF HonestInv, SettingIsHeld, RestIsHonest, ProbeIsHonest, FirewallWaits

(* disconnect() leaves nothing that carries traffic. *)
LEMMA DisconnectedMeansCut == DisconnectTunnel => ~Connected'
BY DEF DisconnectTunnel, Connected

(* attemptReconnect takes a warning back only when it begins a give-up. *)
LEMMA AttemptWarns ==
  ASSUME AttemptReconnect
  PROVE  giveUp' # "none" \/ (giveUp' = giveUp /\ killSwitchFailed' = killSwitchFailed)
BY DEF AttemptReconnect, warnings

(* What an attempt or a stand-down does to the queue. *)
LEMMA AttemptQueues ==
  ASSUME TypeOK, AttemptReconnect \/ StandDown \/ EndLifecycle("disconnect")
  PROVE  waiting' = waiting \/ \E j \in Job : waiting' = Append(waiting, j)
<1>1. /\ JobOf("standdown", NoSession, "tunnel", 0) \in Job
      /\ JobOf("disconnect", NoSession, "tunnel", 0) \in Job
  BY JobOfType, NothingType
<1>2. QED BY <1>1 DEF AttemptReconnect, StandDown, EndLifecycle

(* A user's call queues at most one job. *)
LEMMA UserQueues ==
  ASSUME TypeOK, UserStep \/ TimerFires
  PROVE  waiting' = waiting \/ \E j \in Job : waiting' = Append(waiting, j)
<1>1. ASSUME NEW s \in Sessions, NEW mode \in {"tunnel", "proxy"}, RequestConnect(s, mode)
      PROVE  \E j \in Job : waiting' = Append(waiting, j)
  BY SMTT(30), <1>1, JobOfType, NothingType DEF RequestConnect, TypeOK, DataOK
<1>2. CASE RequestDisconnect
  BY <1>2, AttemptQueues DEF RequestDisconnect
<1>3. CASE ToggleKillSwitch
  BY <1>3, JobOfType, NothingType DEF ToggleKillSwitch
<1>4. CASE TimerFires
  BY <1>4, JobOfType, NothingType DEF TimerFires, TypeOK, DataOK
<1>5. ASSUME NEW s \in Sessions, \/ StartPurchase(s) \/ FinishPurchase(s)
                                 \/ StartRenewal(s) \/ TrackRenewal(s) \/ FinishRenewal(s)
      PROVE  waiting' = waiting
  BY <1>5 DEF StartPurchase, FinishPurchase, StartRenewal, TrackRenewal, FinishRenewal, lock
<1>6. CASE ToggleAutoReconnect
  BY <1>6 DEF ToggleAutoReconnect, lock
<1>7. QED BY <1>1, <1>2, <1>3, <1>4, <1>5, <1>6 DEF UserStep

(* Every step keeps the promise. *)
LEMMA HonestStep ==
  TypeOK /\ JobMatchesAwait /\ SupervisionInv /\ HonestInv /\ [Next]_vars => HonestInv'
<1> SUFFICES ASSUME TypeOK, JobMatchesAwait, SupervisionInv, HonestInv, [Next]_vars PROVE HonestInv'
  OBVIOUS
<1> USE DEF system, supervision, settings, firewall, lock
<1>1. CASE RefuseConnect \/ DropReconnect
  <2>1. TakeJob("connect") \/ TakeJob("reconnect")
    BY <1>1 DEF RefuseConnect, DropReconnect
  <2>2. FirewallWaits => FirewallWaits'
    BY <2>1, FirewallStillWaits
  <2>3. QED BY <1>1, <2>2, HonestKept DEF RefuseConnect, DropReconnect, warnings, Connected
<1>2. CASE TimerFires
  <2>1. FirewallWaits => FirewallWaits'
    BY <1>2, UserQueues, FirewallStillWaits
  <2>2. QED BY <1>2, <2>1, HonestKept DEF TimerFires, warnings, Connected
<1>3. CASE MonitorTick \/ RouteTick \/ CoreExits
  <2>1. AttemptReconnect
    BY <1>3 DEF MonitorTick, RouteTick, CoreExits
  <2>2. FirewallWaits => FirewallWaits'
    BY <2>1, AttemptQueues, FirewallStillWaits
  <2>3. Connected' => Connected
    BY <1>3 DEF MonitorTick, RouteTick, CoreExits, Connected
  <2>4. UNCHANGED <<at, snap, killSwitch, desiredProtocol, desiredMode, armed>>
    BY <1>3 DEF MonitorTick, RouteTick, CoreExits
  <2>5. QED BY <2>1, <2>2, <2>3, <2>4, AttemptWarns, HonestKept
<1>4. CASE QuotaTickDropped \/ QuotaTickEnd
  <2>1. FirewallWaits => FirewallWaits'
    BY <1>4, AttemptQueues, FirewallStillWaits DEF QuotaTickDropped, QuotaTickEnd
  <2>2. QED BY <1>4, <2>1, HonestKept DEF QuotaTickDropped, QuotaTickEnd, warnings, Connected
<1>5. CASE RootDrops \/ TunDrops
  <2>1. FirewallWaits => FirewallWaits'
    BY <1>5 DEF RootDrops, TunDrops, FirewallWaits
  <2>2. QED BY <1>5, <2>1, HonestKept DEF RootDrops, TunDrops, warnings, Connected
<1>6. CASE ToggleKillSwitch
  <2> DEFINE j == JobOf("firewall", NoSession, "tunnel", 0)
  <2>1. j \in Job /\ j.op = "firewall" /\ waiting' = Append(waiting, j) /\ waiting \in Seq(Job)
    BY <1>6, JobOfType, NothingType DEF ToggleKillSwitch, TypeOK, LockOK
  <2> HIDE DEF j
  <2>2. FirewallWaits'
    BY <2>1, AppendKeeps DEF FirewallWaits
  <2>3. QED BY <2>2 DEF HonestInv, SettingIsHeld, RestIsHonest, ProbeIsHonest, Told
<1>7. CASE UserStep /\ ~ToggleKillSwitch
  <2>1. FirewallWaits => FirewallWaits'
    BY <1>7, UserQueues, FirewallStillWaits
  <2>2. UNCHANGED <<at, supervision, giveUp, system, firewall, killSwitch>>
    BY <1>7 DEF UserStep, RequestDisconnect, ToggleAutoReconnect, RequestConnect, StartPurchase,
      FinishPurchase, StartRenewal, TrackRenewal, FinishRenewal
  <2>3. QED BY <2>1, <2>2, HonestKept DEF warnings, Connected
<1>8. CASE UNCHANGED vars
  BY <1>8, HonestKept DEF vars, warnings, Connected, FirewallWaits
<1>9. CASE GiveUpRevert
  BY <1>9, HonestKept DEF GiveUpRevert, Connected, FirewallWaits
<1>10. CASE UndoConnect \/ CleanupReconnect \/ TeardownToIdle \/ FinishTeardown \/ GiveUpUndo
  <2>1. ~Connected'
    BY <1>10, DisconnectedMeansCut DEF UndoConnect, CleanupReconnect, TeardownToIdle,
      FinishTeardown, GiveUpUndo
  <2>2. at' = "idle" \/ UNCHANGED <<at, snap, killSwitch, waiting>>
    BY <1>10 DEF UndoConnect, CleanupReconnect, TeardownToIdle, FinishTeardown, GiveUpUndo, Release
  <2>3. QED BY <2>1, <2>2, HonestDown
<1>11. CASE ReconnectWithoutConfig \/ ProbeFailed \/ Revert \/ StartTeardown \/ StartReconnect
  <2>1. at' \in Undoing \cup {"bringup", "core"}
    BY <1>11 DEF ReconnectWithoutConfig, ProbeFailed, Revert, StartTeardown, StartReconnect, RunJob,
      Suspend, Reverting, Undoing
  <2>2. QED BY <2>1, HonestLater
<1>12. CASE StartConnect
  <2>1. at' = "setup" /\ ~Connected'
    BY <1>12 DEF StartConnect, RunJob, connectionIsLive, Connected
  <2>2. QED BY <2>1, HonestDown
<1>13. CASE ConnectReady
  <2>1. CASE at' \in {"bringup", "core"}
    BY <2>1, HonestLater
  <2>2. CASE at' = "idle" /\ UNCHANGED system
    BY <1>13, <2>2 DEF ConnectReady, HonestInv, SettingIsHeld, RestIsHonest, ProbeIsHonest, Told,
      FirewallWaits, Connected, warnings
  <2>3. QED BY <1>13, <2>1, <2>2 DEF ConnectReady, Release
<1>14. CASE BringUpRoot \/ CoreStarted \/ BringUpTun
  <2>1. CASE at' \in Undoing \cup {"tun"}
    BY <2>1, HonestLater
  <2>2. CASE at' = "post" /\ snap' = killSwitch /\ killSwitch' = killSwitch
    BY <2>2 DEF HonestInv, SettingIsHeld, RestIsHonest, ProbeIsHonest
  <2>3. CASE at' = "idle" /\ BringUpRoot /\ rootUp' = FALSE
    BY <2>3, HonestDown DEF BringUpRoot, SupervisionInv, InTheFamily, Connected
  <2>4. CASE at' = "idle" /\ CoreStarted /\ activeChild = "none"
    BY <2>4, HonestDown DEF CoreStarted, SupervisionInv, InTheFamily, Connected
  <2>5. CASE at' = "idle" /\ Finalize("proxy")
    BY <2>5 DEF Finalize, HonestInv, SettingIsHeld, RestIsHonest, ProbeIsHonest
  <2>6. CASE BringUpRoot
    BY <2>1, <2>2, <2>3, <2>6 DEF BringUpRoot, BringUpDone, BringUpFailed, Suspend, Release,
      Reverting, Undoing
  <2>7. CASE CoreStarted
    BY <2>1, <2>2, <2>4, <2>5, <2>7 DEF CoreStarted, BringUpDone, BringUpFailed, Suspend, Release,
      Reverting, Undoing
  <2>8. CASE BringUpTun
    BY <2>1, <2>2, <2>8 DEF BringUpTun, BringUpDone, BringUpFailed, Suspend, Reverting, Undoing
  <2>9. QED BY <1>14, <2>6, <2>7, <2>8
<1>15. CASE PostConnect
  <2>1. at = "post" /\ at' = "probe" /\ waiting' = waiting /\ killSwitch' = killSwitch
    BY <1>15 DEF PostConnect, Suspend
  <2>2. CASE snap
    BY <1>15, <2>1, <2>2 DEF PostConnect, Arm, HonestInv, SettingIsHeld, RestIsHonest,
      ProbeIsHonest, Told
  <2>3. CASE ~snap
    BY <2>1, <2>3 DEF HonestInv, SettingIsHeld, RestIsHonest, ProbeIsHonest, Told, FirewallWaits,
      TypeOK, FlagsOK
  <2>4. QED BY <2>2, <2>3
<1>16. CASE ProbePassed
  BY <1>16 DEF ProbePassed, Release, warnings, HonestInv, SettingIsHeld, RestIsHonest,
    ProbeIsHonest, Told, FirewallWaits, Connected
<1>17. CASE StartFirewall
  <2>1. at = "idle" /\ UNCHANGED <<killSwitch, armed, giveUp, supervision, system>>
    BY <1>17, FreeIsIdle DEF StartFirewall
  <2>2. CASE at' = "firewall" /\ snap' = killSwitch
    BY <2>1, <2>2 DEF HonestInv, SettingIsHeld, RestIsHonest, ProbeIsHonest
  <2>3. CASE at' = at /\ killSwitchFailed'
    BY <2>1, <2>3 DEF HonestInv, SettingIsHeld, RestIsHonest, ProbeIsHonest, Told
  <2>4. CASE at' = at /\ armed = killSwitch
    BY <2>1, <2>4 DEF HonestInv, SettingIsHeld, RestIsHonest, ProbeIsHonest, Told
  <2>5. CASE at' = at /\ killSwitch /\ ~isVpnActive
    BY <2>1, <2>5 DEF HonestInv, SettingIsHeld, RestIsHonest, ProbeIsHonest, isVpnActive, Connected,
      SupervisionInv, CoreHasTheMode, Resting
  <2>6. QED
    BY <1>17, <2>2, <2>3, <2>4, <2>5 DEF StartFirewall, RunJob, TypeOK, FlagsOK
<1>18. CASE FinishFirewall
  <2>1. at = "firewall" /\ at' = "idle" /\ waiting' = waiting /\ killSwitch' = killSwitch
    BY <1>18 DEF FinishFirewall, Release
  <2>2. CASE snap
    BY <1>18, <2>1, <2>2 DEF FinishFirewall, Arm, HonestInv, SettingIsHeld, RestIsHonest,
      ProbeIsHonest, Told
  <2>3. CASE ~snap
    BY <2>1, <2>3 DEF HonestInv, SettingIsHeld, RestIsHonest, ProbeIsHonest, Told, FirewallWaits,
      TypeOK, FlagsOK
  <2>4. QED BY <2>2, <2>3
<1>19. QED
  BY <1>1, <1>2, <1>3, <1>4, <1>5, <1>6, <1>7, <1>8, <1>9, <1>10, <1>11, <1>12, <1>13, <1>14,
    <1>15, <1>16, <1>17, <1>18 DEF Next, LockStep

(* At a launch nothing is up. *)
LEMMA InitHonest == Init => HonestInv
BY DEF Init, HonestInv, SettingIsHeld, RestIsHonest, ProbeIsHonest, Connected

(* The kill switch does what the setting says or the user is told it does not, whatever toggles,
   retries and give-ups overlap, for any number of them (applyPostConnectSettings,
   reapplyFirewall). *)
THEOREM ProtectionStaysHonest == Spec => []ProtectionIsHonest
<1>1. Init => HonestInv
  BY InitHonest
<1>2. TypeOK /\ EndingIsInCharge /\ SupervisionInv /\ HonestInv /\ [Next]_vars => HonestInv'
  BY HonestStep DEF EndingIsInCharge
<1>3. TypeOK /\ HonestInv => ProtectionIsHonest
  BY NoJobType DEF TypeOK, LockOK, HonestInv, RestIsHonest, ProtectionIsHonest, Quiet, Told,
    FirewallWaits
<1>4. QED BY <1>1, <1>2, <1>3, SupervisionHolds, PTL DEF Spec

----------------------------------------------------------------------------
(* A counted attempt has something to end it. *)

(* The awaits of a retry that gives its own bring-up up. *)
Standing == {"idleRevert", "idleUndo"}

(* The timer is of this lifecycle; an ending leaves no attempt; a retry has a session to replay;
   and an attempt counted while a retry is being given up has a timer or a retry of its own. *)
LadderInv ==
  /\ reconnectTimer # NoTimer => reconnectTimer = connectionEpoch
  /\ isIntentionalDisconnect => reconnectAttempt = 0
  /\ job.op = "reconnect" => activeSessionId # NoSession
  /\ at \in Standing /\ reconnectAttempt > 0 => reconnectTimer # NoTimer \/ RetryWaits

(* The step AttemptIsBacked excuses, and the one it is about. *)
Excused == DropReconnect /\ activeSessionId = NoSession
KeepsBacking ==
  reconnectAttempt' > 0 /\ ~AttemptBacked' /\ (reconnectAttempt = 0 \/ AttemptBacked) => Excused

(* A retry of this lifecycle waits until it is taken, or the lifecycle ends. *)
LEMMA RetryStillWaits ==
  ASSUME TypeOK, RetryWaits, connectionEpoch' = connectionEpoch,
         \/ \E op \in {"connect", "disconnect", "standdown", "firewall"} : TakeJob(op)
         \/ TakeJob("reconnect") /\ Head(waiting).ep # connectionEpoch
         \/ \E j \in Job : waiting' = Append(waiting, j)
         \/ waiting' = waiting
  PROVE  RetryWaits'
<1>1. waiting \in Seq(Job)
  BY DEF TypeOK, LockOK
<1>2. PICK k \in DOMAIN waiting : waiting[k].op = "reconnect" /\ waiting[k].ep = connectionEpoch
  BY DEF RetryWaits
<1>3. CASE \/ \E op \in {"connect", "disconnect", "standdown", "firewall"} : TakeJob(op)
           \/ TakeJob("reconnect") /\ Head(waiting).ep # connectionEpoch
  <2>1. waiting # <<>> /\ waiting' = Tail(waiting) /\ waiting[k] # Head(waiting)
    BY <1>2, <1>3 DEF TakeJob
  <2>2. \E i \in DOMAIN waiting' : waiting'[i] = waiting[k]
    BY <1>1, <2>1, TailKeeps
  <2>3. QED BY <1>2, <2>2 DEF RetryWaits
<1>4. CASE \E j \in Job : waiting' = Append(waiting, j)
  <2>1. PICK j \in Job : waiting' = Append(waiting, j)
    BY <1>4
  <2>2. \E i \in DOMAIN waiting' : waiting'[i] = waiting[k]
    BY <1>1, <2>1, AppendKeeps
  <2>3. QED BY <1>2, <2>2 DEF RetryWaits
<1>5. CASE waiting' = waiting
  BY <1>2, <1>5 DEF RetryWaits
<1>6. QED BY <1>3, <1>4, <1>5

(* A step that leaves the timer, the epoch and the retries alone, and ends no retry that is the
   last to back an attempt, keeps every attempt backed. *)
LEMMA LadderKept ==
  ASSUME LadderInv, UNCHANGED <<reconnectTimer, connectionEpoch>>,
         isIntentionalDisconnect' \in {isIntentionalDisconnect, FALSE},
         reconnectAttempt' \in {reconnectAttempt, 0},
         RetryWaits => RetryWaits',
         job'.op = "reconnect" => activeSessionId' # NoSession,
         \/ job'.op = "reconnect" \/ job.op # "reconnect"
         \/ reconnectAttempt' = 0 \/ reconnectTimer # NoTimer \/ RetryWaits,
         at' \in Standing => at \in Standing \/ reconnectAttempt' = 0
  PROVE  LadderInv' /\ KeepsBacking
<1>1. isIntentionalDisconnect' => reconnectAttempt' = 0
  BY DEF LadderInv
<1>2. at' \in Standing /\ reconnectAttempt' > 0 => reconnectTimer' # NoTimer \/ RetryWaits'
  BY DEF LadderInv
<1>3. LadderInv'
  BY <1>1, <1>2 DEF LadderInv
<1>4. KeepsBacking
  BY DEF KeepsBacking, AttemptBacked
<1>5. QED BY <1>3, <1>4

(* A user's call, a timer's tick and the system on its own run no job and end none. *)
LEMMA LadderAside ==
  ASSUME TypeOK, LadderInv, UNCHANGED <<intent, job, at>>,
         activeSessionId' = activeSessionId \/ activeSessionId' # NoSession,
         waiting' = waiting \/ \E j \in Job : waiting' = Append(waiting, j)
  PROVE  LadderInv' /\ KeepsBacking
<1>1. RetryWaits => RetryWaits'
  BY RetryStillWaits DEF intent
<1>2. QED BY <1>1, LadderKept DEF intent, LadderInv

(* An ending leaves no attempt to back. *)
LEMMA LadderEnded ==
  ASSUME LadderInv, NEW op, EndLifecycle(op), activeSessionId' = activeSessionId,
         job' = job \/ job'.op = "none"
  PROVE  LadderInv' /\ KeepsBacking
BY DEF LadderInv, EndLifecycle, KeepsBacking

(* What attemptReconnect does to the ladder. *)
LEMMA LadderOutcome ==
  ASSUME AttemptReconnect
  PROVE  \/ /\ activeSessionId = NoSession \/ isIntentionalDisconnect
            /\ UNCHANGED <<intent, waiting>>
         \/ EndLifecycle("standdown")
         \/ reconnectAttempt' = 0
            /\ UNCHANGED <<isIntentionalDisconnect, connectionEpoch, reconnectTimer, waiting>>
         \/ /\ ~isIntentionalDisconnect /\ reconnectTimer' = connectionEpoch
            /\ UNCHANGED <<isIntentionalDisconnect, connectionEpoch, waiting>>
BY DEF AttemptReconnect, StandDown

(* Beside a job or at the end of a failed retry, attemptReconnect keeps the attempts backed. *)
LEMMA LadderAttempt ==
  ASSUME TypeOK, LadderInv, AttemptReconnect, activeSessionId' = activeSessionId,
         UNCHANGED <<job, at>> \/ (job.op = "reconnect" /\ job'.op = "none" /\ at' = "idle")
  PROVE  LadderInv' /\ KeepsBacking
<1>0. connectionEpoch \in Nat /\ NoTimer \notin Nat
  BY DEF TypeOK, DataOK, NoTimer
<1>1. CASE /\ activeSessionId = NoSession \/ isIntentionalDisconnect
           /\ UNCHANGED <<intent, waiting>>
  <2>1. RetryWaits => RetryWaits'
    BY <1>1 DEF RetryWaits, intent
  <2>2. job.op = "reconnect" /\ job'.op = "none" => reconnectAttempt' = 0
    BY <1>1 DEF LadderInv, intent
  <2>3. QED BY <1>1, <2>1, <2>2, LadderKept DEF intent, LadderInv, Standing
<1>2. CASE EndLifecycle("standdown")
  BY <1>2, LadderEnded
<1>3. CASE reconnectAttempt' = 0
           /\ UNCHANGED <<isIntentionalDisconnect, connectionEpoch, reconnectTimer, waiting>>
  <2>1. RetryWaits => RetryWaits'
    BY <1>3 DEF RetryWaits
  <2>2. QED BY <1>3, <2>1, LadderKept DEF LadderInv, Standing
<1>4. CASE /\ ~isIntentionalDisconnect /\ reconnectTimer' = connectionEpoch
           /\ UNCHANGED <<isIntentionalDisconnect, connectionEpoch, waiting>>
  <2>1. reconnectTimer' # NoTimer /\ ~isIntentionalDisconnect'
    BY <1>0, <1>4
  <2>2. LadderInv'
    BY <1>4, <2>1 DEF LadderInv
  <2>3. KeepsBacking
    BY <2>1 DEF KeepsBacking, AttemptBacked
  <2>4. QED BY <2>2, <2>3
<1>5. QED BY <1>1, <1>2, <1>3, <1>4, LadderOutcome

(* Every step keeps every counted attempt backed, or is excused. *)
LEMMA LadderStep ==
  TypeOK /\ JobMatchesAwait /\ LadderInv /\ [Next]_vars => LadderInv' /\ KeepsBacking
<1> SUFFICES ASSUME TypeOK, JobMatchesAwait, LadderInv, [Next]_vars PROVE LadderInv' /\ KeepsBacking
  OBVIOUS
<1> USE DEF tracking, lock
<1>0. waiting \in Seq(Job) /\ NoJob.op = "none"
  BY NoJobType DEF TypeOK, LockOK
<1>1. CASE RefuseConnect \/ StartConnect \/ StartTeardown \/ StartFirewall
  <2>1. PICK op \in {"connect", "disconnect", "standdown", "firewall"} :
          TakeJob(op) /\ (job' = job \/ job' = Head(waiting))
    BY <1>1 DEF RefuseConnect, StartConnect, StartTeardown, StartFirewall, RunJob, TakeJob
  <2>2. job.op # "reconnect" /\ job'.op # "reconnect"
    BY <2>1, FreeIsIdle DEF TakeJob
  <2>3. UNCHANGED intent
    BY <1>1 DEF RefuseConnect, StartConnect, StartTeardown, StartFirewall
  <2>4. RetryWaits => RetryWaits'
    BY <2>1, <2>3, RetryStillWaits DEF intent
  <2>5. at' \notin Standing
    BY <1>1, <2>1, FreeIsIdle DEF RefuseConnect, StartConnect, StartTeardown, StartFirewall, RunJob,
      Reverting, Standing
  <2>6. QED BY <2>2, <2>3, <2>4, <2>5, LadderKept DEF intent
<1>2. CASE DropReconnect
  <2>1. TakeJob("reconnect") /\ job.op = "none" /\ at = "idle"
    BY <1>2, FreeIsIdle DEF DropReconnect
  <2>2. UNCHANGED <<intent, job, at, activeSessionId>>
    BY <1>2 DEF DropReconnect
  <2>3. CASE Head(waiting).ep # connectionEpoch
    <3>1. RetryWaits => RetryWaits'
      BY <2>1, <2>2, <2>3, RetryStillWaits DEF intent
    <3>2. QED BY <2>1, <2>2, <3>1, LadderKept DEF intent
  <2>4. CASE activeSessionId = NoSession
    <3>1. LadderInv'
      BY <2>1, <2>2 DEF LadderInv, intent, Standing
    <3>2. KeepsBacking
      BY <1>2, <2>4 DEF KeepsBacking, Excused
    <3>3. QED BY <3>1, <3>2
  <2>5. QED BY <1>2, <2>3, <2>4 DEF DropReconnect
<1>3. CASE StartReconnect \/ ReconnectWithoutConfig
  <2>1. job'.op = "reconnect" /\ activeSessionId # NoSession
    BY <1>3, OpOfJobOf DEF StartReconnect, ReconnectWithoutConfig, RunJob, TakeJob
  <2>2. /\ UNCHANGED <<isIntentionalDisconnect, connectionEpoch, reconnectTimer, activeSessionId>>
        /\ reconnectAttempt' \in {reconnectAttempt, 0}
        /\ at' \in Standing => reconnectAttempt' = 0
    BY <1>3 DEF StartReconnect, ReconnectWithoutConfig, RunJob, intent, Standing
  <2>3. LadderInv'
    BY <2>1, <2>2 DEF LadderInv
  <2>4. KeepsBacking
    BY <2>1 DEF KeepsBacking, AttemptBacked
  <2>5. QED BY <2>3, <2>4
<1>4. CASE ConnectReady
  <2>1. job.op = "connect" /\ job'.op # "reconnect" /\ at' \notin Standing
    BY <1>0, <1>4, OpOfJobOf DEF ConnectReady, Release, Standing
  <2>2. UNCHANGED <<intent, waiting>>
    BY <1>4 DEF ConnectReady
  <2>3. QED BY <2>1, <2>2, LadderKept DEF intent, RetryWaits
<1>5. CASE BringUpRoot \/ CoreStarted \/ BringUpTun \/ ProbePassed
  <2>1. UNCHANGED <<isIntentionalDisconnect, connectionEpoch, reconnectTimer, activeSessionId>>
    BY <1>5 DEF BringUpRoot, CoreStarted, BringUpTun, ProbePassed
  <2>2. waiting' = waiting /\ reconnectAttempt' \in {reconnectAttempt, 0}
    BY <1>5 DEF BringUpRoot, CoreStarted, BringUpTun, ProbePassed, BringUpDone, BringUpFailed,
      Suspend, Release
  <2>3. job' = job \/ (job' = NoJob /\ (job.op # "reconnect" \/ reconnectAttempt' = 0))
    BY <1>5 DEF BringUpRoot, CoreStarted, BringUpTun, ProbePassed, BringUpDone, BringUpFailed,
      Suspend, Release
  <2>4. at' \in Standing => reconnectAttempt' = 0
    BY <1>5 DEF BringUpRoot, CoreStarted, BringUpTun, ProbePassed, BringUpDone, BringUpFailed,
      Suspend, Release, Standing
  <2>5. RetryWaits => RetryWaits'
    BY <2>1, <2>2 DEF RetryWaits
  <2>6. QED BY <1>0, <2>1, <2>2, <2>3, <2>4, <2>5, LadderKept DEF LadderInv
<1>6. CASE PostConnect \/ ProbeFailed \/ Revert
  <2>1. UNCHANGED <<intent, job, waiting, activeSessionId>>
    BY <1>6 DEF PostConnect, ProbeFailed, Revert, Suspend
  <2>2. at' \in Standing => at \in Standing
    BY <1>6 DEF PostConnect, ProbeFailed, Revert, Suspend, Reverting, Standing
  <2>3. QED BY <2>1, <2>2, LadderKept DEF intent, RetryWaits, LadderInv
<1>7. CASE UndoConnect \/ FinishFirewall \/ FinishTeardown
  <2>1. job.op # "reconnect" /\ job' = NoJob /\ at' = "idle"
    BY <1>7 DEF UndoConnect, FinishFirewall, FinishTeardown, Release, JobMatchesAwait
  <2>2. /\ UNCHANGED <<connectionEpoch, reconnectTimer, reconnectAttempt, waiting>>
        /\ isIntentionalDisconnect' \in {isIntentionalDisconnect, FALSE}
    BY <1>7 DEF UndoConnect, FinishFirewall, FinishTeardown, intent
  <2>3. QED BY <1>0, <2>1, <2>2, LadderKept DEF RetryWaits, Standing
<1>8. CASE TeardownToIdle
  <2>1. at \in Standing /\ job' = NoJob /\ at' = "idle" /\ UNCHANGED <<intent, waiting>>
    BY <1>8 DEF TeardownToIdle, Release, Standing
  <2>2. reconnectAttempt' = 0 \/ reconnectTimer # NoTimer \/ RetryWaits
    BY <2>1 DEF LadderInv, intent, TypeOK, DataOK
  <2>3. QED BY <1>0, <2>1, <2>2, LadderKept DEF intent, RetryWaits, Standing
<1>9. CASE CleanupReconnect
  <2>1. job.op = "reconnect" /\ job' = NoJob /\ at' = "idle"
    BY <1>9 DEF CleanupReconnect, Release, JobMatchesAwait
  <2>2. AttemptReconnect /\ activeSessionId' = activeSessionId
    BY <1>9 DEF CleanupReconnect
  <2>3. QED BY <1>0, <2>1, <2>2, LadderAttempt
<1>10. CASE MonitorTick \/ RouteTick \/ CoreExits
  BY <1>10, LadderAttempt DEF MonitorTick, RouteTick, CoreExits
<1>11. CASE QuotaTickDropped \/ QuotaTickEnd
  BY <1>11, LadderEnded DEF QuotaTickDropped, QuotaTickEnd, StandDown, Supervising
<1>12. CASE RequestDisconnect
  BY <1>12, LadderEnded DEF RequestDisconnect
<1>13. CASE TimerFires
  <2> DEFINE j == JobOf("reconnect", NoSession, "tunnel", reconnectTimer)
  <2>1. /\ reconnectTimer = connectionEpoch /\ waiting' = Append(waiting, j)
        /\ UNCHANGED <<isIntentionalDisconnect, connectionEpoch, job, at, activeSessionId>>
        /\ reconnectTimer' = NoTimer
    BY <1>13 DEF TimerFires, LadderInv
  <2>2. j \in Job /\ j.op = "reconnect" /\ j.ep = connectionEpoch
    BY <2>1, JobOfType, NothingType DEF TypeOK, DataOK, JobOf
  <2> HIDE DEF j
  <2>3. \E i \in DOMAIN waiting' : waiting'[i] = j
    BY <1>0, <2>1, <2>2, AppendKeeps
  <2>4. RetryWaits'
    BY <2>1, <2>2, <2>3 DEF RetryWaits
  <2>5. LadderInv'
    BY <1>13, <2>1, <2>4 DEF TimerFires, LadderInv
  <2>6. KeepsBacking
    BY <2>4 DEF KeepsBacking, AttemptBacked
  <2>7. QED BY <2>5, <2>6
<1>14. CASE UserStep /\ ~RequestDisconnect
  <2>1. UNCHANGED <<intent, job, at>>
    BY <1>14 DEF UserStep, ToggleKillSwitch, ToggleAutoReconnect, RequestConnect, StartPurchase,
      FinishPurchase, StartRenewal, TrackRenewal, FinishRenewal
  <2>2. activeSessionId' = activeSessionId \/ activeSessionId' # NoSession
    BY <1>14, ConstantsAssumption DEF UserStep, ToggleKillSwitch, ToggleAutoReconnect,
      RequestConnect, StartPurchase, FinishPurchase, StartRenewal, TrackRenewal, FinishRenewal
  <2>3. QED BY <1>14, <2>1, <2>2, UserQueues, LadderAside
<1>15. CASE GiveUpRevert \/ GiveUpUndo \/ RootDrops \/ TunDrops
  BY <1>15, LadderAside DEF GiveUpRevert, GiveUpUndo, RootDrops, TunDrops
<1>16. CASE UNCHANGED vars
  BY <1>16, LadderAside DEF vars
<1>17. QED
  BY <1>1, <1>2, <1>3, <1>4, <1>5, <1>6, <1>7, <1>8, <1>9, <1>10, <1>11, <1>12, <1>13, <1>14,
    <1>15, <1>16 DEF Next, LockStep, UserStep

(* At a launch no attempt is counted. *)
LEMMA InitLadder == Init => LadderInv
BY NoJobType DEF Init, LadderInv

(* No step leaves a counted attempt without a timer or a retry of its lifecycle, but a retry that
   finds its session torn down, whatever endings, exits and timers overlap (attemptReconnect). *)
THEOREM AttemptsStayBacked == Spec => AttemptIsBacked
<1>1. Init => LadderInv
  BY InitLadder
<1>2. TypeOK /\ EndingIsInCharge /\ LadderInv /\ [Next]_vars => LadderInv' /\ KeepsBacking
  BY LadderStep DEF EndingIsInCharge
<1>3. KeepsBacking
      <=> (/\ reconnectAttempt' > 0 /\ ~AttemptBacked'
           /\ reconnectAttempt = 0 \/ AttemptBacked
           => DropReconnect /\ activeSessionId = NoSession)
  BY DEF KeepsBacking, Excused
<1>4. QED BY <1>1, <1>2, <1>3, SupervisionHolds, PTL DEF Spec, AttemptIsBacked

=============================================================================
