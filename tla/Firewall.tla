------------------------------ MODULE Firewall ------------------------------
(***************************************************************************)
(* The kill switch and the DNS override from the switch in Settings down to *)
(* iptables and resolv.conf, across crashes and relaunches.                 *)
(*                                                                           *)
(* In the main process two threads of control change them: "lock", the jobs *)
(* withConnectionLock runs one after another, and "launch", the healing that *)
(* index.ts starts at every launch and that takes no lock.  Each change is a *)
(* call to the privileged helper (runPrivileged), awaited with a time limit. *)
(* A call first has to arrive: its socket is connected, or its password      *)
(* prompt answered.  It then waits its turn among the verbs, which the       *)
(* daemon's mutex and the lock file run one at a time, and it runs whether   *)
(* or not its caller still waits, or still lives.                            *)
(*                                                                           *)
(* Two marker files tell a later launch what may still be installed.         *)
(***************************************************************************)
EXTENDS Integers, Sequences

CONSTANTS
    Hosts,         \* the nodes, each with its endpoint and its one protocol
    NoHost,        \* no node
    Outlives,      \* their interface outlives the app: wireguard, amneziawg, openvpn
    SetsDns,       \* their protocol leaves DNS to us: all but wireguard and amneziawg
    MaxRequests,   \* bound: what the user and the watchdogs ask for in a behaviour
    MaxExits,      \* bound: how often the application ends in a behaviour
    MaxWaiting     \* bound: jobs waiting for the connection lock

ASSUME HostsAssumption == NoHost \notin Hosts /\ Outlives \subseteq Hosts /\ SetsDns \subseteq Hosts
ASSUME BoundsAssumption ==
    MaxRequests \in Nat /\ MaxExits \in Nat /\ MaxWaiting \in Nat \ {0}

VARIABLES
    \* on disk
    ksMarker,      \* killswitch-armed.state exists
    dnsMarker,     \* dns-override.state exists
    killSwitch, lanSharing, customDns,   \* settings.json (dnsResolver is not 'system')
    \* of the machine
    tunnel,        \* the node the interface that is up was built for
    chain,         \* the DROP-all chain: what it lets out besides the tunnel
    resolver,      \* whose resolver /etc/resolv.conf names
    backup,        \* what resolv.conf.bak, or .none, holds
    queue,         \* the verbs that reached the helper, in their order
    \* of the running application
    alive,
    active,        \* activeSessionId is set
    desired,       \* desiredProtocol is set and the watchdogs run
    armedWith,     \* what the app believes the chain was built with
    killSwitchFailed, killSwitchTeardownFailed, lastExpiry,  \* what the user is told
    waiting,       \* the jobs behind the one that holds the lock
    job, at, call, \* each thread's job, the step it is at, and its helper call
    snap,          \* the settings that the lock's job has read, until it has used them
    \* history
    requests, exits,
    excused        \* what happened of: "overlap", a job started while the launch still
                   \* healed; "quiet", a verb failed and reported success;
                   \* "unconfirmed", a killswitch-off got no good answer;
                   \* "forgotten", a connect withdrew the warning of an earlier arming
                   \* that failed, and armed nothing itself

markers == <<ksMarker, dnsMarker>>
settings == <<killSwitch, lanSharing, customDns>>
machine == <<chain, resolver, backup>>
session == <<active, desired>>
notices == <<killSwitchFailed, killSwitchTeardownFailed, lastExpiry>>
threads == <<job, at, call>>
history == <<requests, exits, excused>>
vars == <<markers, settings, tunnel, machine, queue, alive, session, armedWith, notices,
          waiting, threads, snap, history>>

Threads == {"lock", "launch"}
NoChain == [host |-> NoHost, lan |-> FALSE]
Chains == [host : Hosts \cup {NoHost}, lan : BOOLEAN]
Ops == {"connect", "disconnect", "standdown", "firewall"}
Wanted == [op : Ops, host : Hosts \cup {NoHost}]
Jobs == [op : Ops \cup {"none", "orphan", "stranded"}, host : Hosts \cup {NoHost}]
JobOf(op) == [op |-> op, host |-> NoHost]
NoJob == JobOf("none")

Verbs == {"on", "off", "set", "restore"}
Steps == Verbs \cup {"idle", "start", "up", "post", "arm", "probe", "dead", "down"}
NoCall == [with |-> NoChain, state |-> "none"]
Calls == [with : Chains, state : {"none", "asked", "queued", "ok", "failed"}]
Requested == [verb : Verbs, with : Chains, by : Threads \cup {"nobody"}]
Snaps == [killSwitch : BOOLEAN, lan : BOOLEAN, host : Hosts \cup {NoHost}]
NoSettings == [killSwitch |-> FALSE, lan |-> FALSE, host |-> NoHost]

Blocked == chain # NoChain

\* getConnectionStatus().connected: after a relaunch a tun2socks interface has no core.
Connected == tunnel # NoHost /\ (tunnel \in Outlives \/ active)

-----------------------------------------------------------------------------
(* runPrivileged.                                                            *)

\* The thread asks for a verb and is suspended until it is answered.
Ask(t, verb, with) ==
    /\ at' = [at EXCEPT ![t] = verb]
    /\ call' = [call EXCEPT ![t] = [with |-> with, state |-> "asked"]]

\* The thread goes on to a step of its own.
GoTo(t, step) ==
    /\ at' = [at EXCEPT ![t] = step]
    /\ call' = [call EXCEPT ![t] = NoCall]

Answered(t, verb) == at[t] = verb /\ call[t].state \in {"ok", "failed"}
Ok(t) == call[t].state = "ok"

\* The socket is connected and the request written, or the prompt is answered.
Arrives(t) ==
    /\ call[t].state = "asked"
    /\ queue' = Append(queue, [verb |-> at[t], with |-> call[t].with, by |-> t])
    /\ call' = [call EXCEPT ![t].state = "queued"]
    /\ UNCHANGED <<markers, settings, tunnel, machine, alive, session, armedWith, notices,
                   waiting, job, at, snap, history>>

\* The helper is not there, refuses the verb, or its prompt is dismissed or runs out.
IsRefused(t) ==
    /\ call[t].state = "asked"
    /\ call' = [call EXCEPT ![t].state = "failed"]
    /\ UNCHANGED <<markers, settings, tunnel, machine, queue, alive, session, armedWith,
                   notices, waiting, job, at, snap, history>>

Disown(q, ts) == [i \in DOMAIN q |-> IF q[i].by \in ts THEN [q[i] EXCEPT !.by = "nobody"]
                                     ELSE q[i]]

\* The request timer ends the wait, not the verb (daemonRequest: "a stuck op").
TimesOut(t) ==
    /\ call[t].state = "queued"
    /\ call' = [call EXCEPT ![t].state = "failed"]
    /\ queue' = Disown(queue, {t})
    /\ UNCHANGED <<markers, settings, tunnel, machine, alive, session, armedWith, notices,
                   waiting, job, at, snap, history>>

Answer(by, state) ==
    call' = IF by \in Threads THEN [call EXCEPT ![by].state = state] ELSE call

-----------------------------------------------------------------------------
(* The helper.  Its mutex and its lock file run one verb at a time; the model *)
(* takes them in the order in which they arrived.                            *)

\* KillswitchOn flushes, rebuilds and hooks the chain; an error may leave the old chain
\* (the lock was not had), none (a rule failed), or the new one (its state file failed).
ArmVerb(c) ==
    \/ chain' = c.with /\ Answer(c.by, "ok")
    \/ chain' \in {chain, NoChain, c.with} /\ Answer(c.by, "failed")

\* KillswitchOff: a command that fails is not reported.
DisarmVerb(c) ==
    \/ chain' = NoChain /\ Answer(c.by, "ok") /\ UNCHANGED excused
    \/ /\ Blocked /\ UNCHANGED chain
       /\ Answer(c.by, "ok") /\ excused' = excused \cup {"quiet"}
    \/ UNCHANGED chain /\ Answer(c.by, "failed") /\ UNCHANGED excused

(* Mutant: the snapshot is taken at every dns-set. *)
Snapshot_Always == resolver

\* DnsSet keeps the first snapshot it takes until DnsRestore uses it.
Snapshot == IF backup = "none" THEN resolver ELSE backup

(* Mutant: dns-restore does not look whether there is a backup. *)
Restored_Unchecked == backup

Restored == IF backup = "none" THEN resolver ELSE backup

SetDnsVerb(c) ==
    \/ resolver' = "vpn" /\ backup' = Snapshot /\ Answer(c.by, "ok")
    \/ UNCHANGED resolver /\ backup' \in {backup, Snapshot} /\ Answer(c.by, "failed")

\* DnsRestore: a backup that is not removed is not reported, and a copy that fails is a
\* warning.
RestoreVerb(c) ==
    \/ /\ resolver' = Restored
       /\ backup' \in {"none", backup} /\ Answer(c.by, "ok") /\ UNCHANGED excused
    \/ /\ backup # "none" /\ UNCHANGED <<resolver, backup>>
       /\ Answer(c.by, "ok") /\ excused' = excused \cup {"quiet"}
    \/ UNCHANGED <<resolver, backup>> /\ Answer(c.by, "failed") /\ UNCHANGED excused

\* The verb at the head of the line runs (Server.serve, withLock).
VerbRuns ==
    /\ queue # <<>>
    /\ LET c == Head(queue) IN
       \/ c.verb = "on" /\ ArmVerb(c) /\ UNCHANGED <<resolver, backup, excused>>
       \/ c.verb = "off" /\ DisarmVerb(c) /\ UNCHANGED <<resolver, backup>>
       \/ c.verb = "set" /\ SetDnsVerb(c) /\ UNCHANGED <<chain, excused>>
       \/ c.verb = "restore" /\ RestoreVerb(c) /\ UNCHANGED chain
    /\ queue' = Tail(queue)
    /\ UNCHANGED <<markers, settings, tunnel, alive, session, armedWith, notices, waiting,
                   job, at, snap, requests, exits>>

\* The daemon is stopped or killed, and with it the requests it had not begun.
DaemonDies ==
    /\ queue # <<>>
    /\ queue' = <<>>
    /\ call' = [t \in Threads |-> IF call[t].state = "queued"
                                  THEN [call[t] EXCEPT !.state = "failed"] ELSE call[t]]
    /\ UNCHANGED <<markers, settings, tunnel, machine, alive, session, armedWith, notices,
                   waiting, job, at, snap, history>>

-----------------------------------------------------------------------------
(* Teardown: revertPostConnectSettings, restoreDnsOverride, disconnect.      *)

\* The end of a thread's job; the launch goes from the tunnel to the chain.
Finish(t) ==
    /\ job' = [job EXCEPT ![t] = IF job[t].op = "orphan" THEN JobOf("stranded") ELSE NoJob]
    /\ GoTo(t, IF job[t].op = "orphan" THEN "start" ELSE "idle")

\* restoreDnsOverride
RestoreDns(t) == IF dnsMarker THEN Ask(t, "restore", NoChain) ELSE GoTo(t, "down")

(* Mutant: what to disarm is decided by the setting. *)
MustDisarm_BySetting == killSwitch

\* The marker decides, not the setting.
MustDisarm == ksMarker

\* The job of t has to revert: what it checks before it calls revertPostConnectSettings.
Reverts(t) ==
    \/ at[t] = "dead"
    \/ /\ at[t] = "start"
       /\ \/ job[t].op = "disconnect"
          \/ job[t].op = "standdown" /\ ~killSwitch
          \/ job[t].op = "orphan" /\ Connected /\ ~active
          \/ job[t].op = "stranded" /\ ksMarker /\ ~Connected

Revert(t) ==
    /\ Reverts(t)
    /\ killSwitchFailed' = FALSE
    /\ \/ /\ MustDisarm
          /\ Ask(t, "off", NoChain)
          /\ UNCHANGED <<killSwitchTeardownFailed, armedWith>>
       \/ /\ ~MustDisarm
          /\ killSwitchTeardownFailed' = FALSE
          /\ armedWith' = NoChain
          /\ RestoreDns(t)
    /\ UNCHANGED <<markers, settings, tunnel, machine, queue, alive, session, lastExpiry,
                   waiting, job, snap, history>>

\* standDownSession under the kill switch: the chain stays.
StandDownBlocked(t) ==
    /\ at[t] = "start" /\ job[t].op = "standdown" /\ killSwitch
    /\ RestoreDns(t)
    /\ UNCHANGED <<markers, settings, tunnel, machine, queue, alive, session, armedWith,
                   notices, waiting, job, snap, history>>

\* healOrphanedTunnel, healStrandedKillSwitch with nothing to heal.
NothingToHeal(t) ==
    /\ at[t] = "start" /\ job[t].op \in {"orphan", "stranded"} /\ ~Reverts(t)
    /\ Finish(t)
    /\ UNCHANGED <<markers, settings, tunnel, machine, queue, alive, session, armedWith,
                   notices, waiting, snap, history>>

(* Mutant: the marker is cleared whatever was answered. *)
MarkerAfterOff_Cleared(t) == FALSE

\* disableKillSwitch clears the marker only after a confirmed teardown.
MarkerAfterOff(t) == ksMarker /\ ~Ok(t)

\* disableKillSwitch returns to revertPostConnectSettings, or to reapplyFirewall.
OffAnswered(t) ==
    /\ Answered(t, "off")
    /\ ksMarker' = MarkerAfterOff(t)
    /\ killSwitchTeardownFailed' = ~Ok(t)
    /\ armedWith' = IF Ok(t) THEN NoChain ELSE armedWith
    /\ excused' = IF Ok(t) THEN excused ELSE excused \cup {"unconfirmed"}
    /\ \/ /\ job[t].op = "firewall"
          /\ killSwitchFailed' = (killSwitchFailed /\ ~Ok(t))
          /\ Finish(t)
       \/ /\ job[t].op # "firewall"
          /\ RestoreDns(t)
          /\ UNCHANGED <<killSwitchFailed, job>>
    /\ UNCHANGED <<dnsMarker, settings, tunnel, machine, queue, alive, session, lastExpiry,
                   waiting, snap, requests, exits>>

RestoreAnswered(t) ==
    /\ Answered(t, "restore")
    /\ dnsMarker' = (dnsMarker /\ ~Ok(t))
    /\ GoTo(t, "down")
    /\ UNCHANGED <<ksMarker, settings, tunnel, machine, queue, alive, session, armedWith,
                   notices, waiting, job, snap, history>>

\* disconnect(), whose verbs run behind those that arrived before, and the end of the job.
TakeDown(t) ==
    /\ at[t] = "down" /\ (job[t].op = "stranded" \/ queue = <<>>)
    /\ tunnel' = IF job[t].op = "stranded" THEN tunnel ELSE NoHost
    /\ \/ /\ job[t].op \in {"disconnect", "standdown"}
          /\ active' = FALSE /\ desired' = FALSE
          /\ lastExpiry' = (job[t].op = "standdown")
       \/ /\ job[t].op \notin {"disconnect", "standdown"}
          /\ UNCHANGED <<session, lastExpiry>>
    /\ Finish(t)
    /\ UNCHANGED <<markers, settings, machine, queue, alive, armedWith, killSwitchFailed,
                   killSwitchTeardownFailed, waiting, snap, history>>

-----------------------------------------------------------------------------
(* Bring-up: CONNECTION_CONNECT, applyPostConnectSettings, armKillSwitch,    *)
(* assertTunnelCarriesTraffic.                                               *)

\* The connect is refused: assertNotConnected, assertSystemReady.
RefuseConnect(t) ==
    /\ at[t] = "start" /\ job[t].op = "connect"
    /\ Finish(t)
    /\ UNCHANGED <<markers, settings, tunnel, machine, queue, alive, session, armedWith,
                   notices, waiting, snap, history>>

StartConnect(t) ==
    /\ at[t] = "start" /\ job[t].op = "connect" /\ ~Connected
    /\ lastExpiry' = FALSE
    /\ active' = TRUE
    /\ GoTo(t, "up")
    /\ UNCHANGED <<markers, settings, tunnel, machine, queue, alive, desired, armedWith,
                   killSwitchFailed, killSwitchTeardownFailed, waiting, job, snap, history>>

\* The interface comes up, behind the verbs that arrived before, or the job throws.
BringUp(t) ==
    /\ at[t] = "up"
    /\ \/ queue = <<>> /\ tunnel' = job[t].host /\ GoTo(t, "post") /\ UNCHANGED job
       \/ tunnel' \in {tunnel, NoHost} /\ Finish(t)
    /\ UNCHANGED <<markers, settings, machine, queue, alive, session, armedWith, notices,
                   waiting, snap, history>>

\* effectiveV2RayResolverIp: under the kill switch a system resolver is replaced.
OverridesDns(host) == host \in SetsDns /\ (customDns \/ killSwitch)

\* The settings, and the endpoint that the configuration in use names.
ReadSettings(host) == snap' = [killSwitch |-> killSwitch, lan |-> lanSharing, host |-> host]

\* The marker goes first, then dns-set; without an override the arming is next.
OverrideDns(t, wanted) ==
    \/ wanted /\ dnsMarker' = TRUE /\ Ask(t, "set", NoChain)
    \/ ~wanted /\ UNCHANGED dnsMarker /\ GoTo(t, "arm")

\* applyPostConnectSettings withdraws the warnings before it has read the settings.  With
\* the kill switch off by then, the marker of a failed arming stays without its warning.
PostConnect(t) ==
    /\ at[t] = "post"
    /\ killSwitchFailed' = FALSE /\ killSwitchTeardownFailed' = FALSE
    /\ ReadSettings(job[t].host)
    /\ OverrideDns(t, OverridesDns(job[t].host))
    /\ excused' = IF ksMarker /\ killSwitchFailed /\ ~killSwitch
                  THEN excused \cup {"forgotten"} ELSE excused
    /\ UNCHANGED <<ksMarker, settings, tunnel, machine, queue, alive, session, armedWith,
                   lastExpiry, waiting, job, requests, exits>>

\* After the connect's arming the probe, after reapplyFirewall's nothing.
GoOn(t) == IF job[t].op = "connect" THEN GoTo(t, "probe") /\ UNCHANGED job ELSE Finish(t)

\* armKillSwitch: a setting that is off, an endpoint without an address, or the verb,
\* marked before it is asked for; dns-set may have failed.
Arm(t) ==
    /\ at[t] = "arm" \/ Answered(t, "set")
    /\ \/ ~snap.killSwitch /\ GoOn(t) /\ UNCHANGED <<ksMarker, killSwitchFailed>>
       \/ snap.killSwitch /\ killSwitchFailed' = TRUE /\ GoOn(t) /\ UNCHANGED ksMarker
       \/ /\ snap.killSwitch /\ ksMarker' = TRUE
          /\ Ask(t, "on", [host |-> snap.host, lan |-> snap.lan])
          /\ UNCHANGED <<killSwitchFailed, job>>
    /\ snap' = NoSettings
    /\ UNCHANGED <<dnsMarker, settings, tunnel, machine, queue, alive, session, armedWith,
                   killSwitchTeardownFailed, lastExpiry, waiting, history>>

OnAnswered(t) ==
    /\ Answered(t, "on")
    /\ armedWith' = IF Ok(t) THEN call[t].with ELSE armedWith
    /\ killSwitchFailed' = (~Ok(t) \/ (job[t].op = "connect" /\ killSwitchFailed))
    /\ GoOn(t)
    /\ UNCHANGED <<markers, settings, tunnel, machine, queue, alive, session,
                   killSwitchTeardownFailed, lastExpiry, waiting, snap, history>>

\* Through the chain the tunnel carries traffic only if its endpoint is let out.
Probe(t) ==
    /\ at[t] = "probe"
    /\ \/ /\ Blocked => chain.host = tunnel
          /\ desired' = TRUE /\ Finish(t)
       \/ GoTo(t, "dead") /\ UNCHANGED <<desired, job>>
    /\ UNCHANGED <<markers, settings, tunnel, machine, queue, alive, active, armedWith,
                   notices, waiting, snap, history>>

-----------------------------------------------------------------------------
(* A toggle in Settings: reapplyFirewall.                                    *)

(* Mutant: an armed chain is left alone when only LAN sharing changes. *)
decideFirewallAction_NoRearm ==
    IF ksMarker /\ ~killSwitch THEN "disarm"
    ELSE IF ~ksMarker /\ killSwitch /\ tunnel # NoHost THEN "arm" ELSE "none"

(* Mutant: a chain is only ever rebuilt, never put up under a live tunnel. *)
decideFirewallAction_NoArm ==
    IF ksMarker /\ ~killSwitch THEN "disarm"
    ELSE IF ksMarker /\ lanSharing # armedWith.lan THEN "rearm" ELSE "none"

decideFirewallAction ==
    IF ksMarker /\ ~killSwitch THEN "disarm"
    ELSE IF ksMarker /\ lanSharing # armedWith.lan THEN "rearm"
    ELSE IF ~ksMarker /\ killSwitch /\ tunnel # NoHost THEN "arm" ELSE "none"

Disarm(t) ==
    /\ decideFirewallAction = "disarm"
    /\ Ask(t, "off", NoChain)
    /\ UNCHANGED <<markers, killSwitchFailed, job, snap>>

\* The chain is rebuilt for the endpoint it was armed with, if this run knows it.
Rearm(t) ==
    /\ decideFirewallAction = "rearm" /\ armedWith # NoChain
    /\ ksMarker' = TRUE
    /\ Ask(t, "on", [host |-> armedWith.host, lan |-> lanSharing])
    /\ UNCHANGED <<dnsMarker, killSwitchFailed, job, snap>>

\* A live tunnel gets its chain, and its resolver if it has none.
ArmLive(t) ==
    /\ decideFirewallAction = "arm" /\ desired
    /\ ReadSettings(tunnel)
    /\ OverrideDns(t, OverridesDns(tunnel) /\ ~dnsMarker)
    /\ UNCHANGED <<ksMarker, killSwitchFailed, job>>

\* Nothing to do; or nothing is known to do it with, which only the arming reports.
LeaveFirewall(t) ==
    /\ \/ decideFirewallAction = "none" /\ UNCHANGED killSwitchFailed
       \/ decideFirewallAction = "rearm" /\ armedWith = NoChain /\ UNCHANGED killSwitchFailed
       \/ decideFirewallAction = "arm" /\ ~desired /\ killSwitchFailed' = TRUE
    /\ Finish(t)
    /\ UNCHANGED <<markers, snap>>

reapplyFirewall(t) ==
    /\ at[t] = "start" /\ job[t].op = "firewall"
    /\ Disarm(t) \/ Rearm(t) \/ ArmLive(t) \/ LeaveFirewall(t)
    /\ UNCHANGED <<settings, tunnel, machine, queue, alive, session, armedWith,
                   killSwitchTeardownFailed, lastExpiry, waiting, history>>

-----------------------------------------------------------------------------
(* Requests, the connection lock, and the application's own end.             *)

Enqueue(j) ==
    /\ alive /\ requests < MaxRequests /\ Len(waiting) < MaxWaiting
    /\ requests' = requests + 1
    /\ waiting' = Append(waiting, j)
    /\ UNCHANGED <<markers, machine, queue, alive, session, armedWith, notices, threads,
                   snap, exits, excused>>

RequestConnect == \E h \in Hosts :
    Enqueue([op |-> "connect", host |-> h]) /\ UNCHANGED <<settings, tunnel>>

RequestDisconnect == Enqueue(JobOf("disconnect")) /\ UNCHANGED <<settings, tunnel>>

\* A quota ran out, the tunnel stalled, or it is gone and is not to be rebuilt.
StandDown ==
    /\ desired
    /\ tunnel' \in {tunnel, NoHost}
    /\ Enqueue(JobOf("standdown"))
    /\ UNCHANGED settings

ToggleKillSwitch ==
    /\ killSwitch' = ~killSwitch
    /\ Enqueue(JobOf("firewall"))
    /\ UNCHANGED <<lanSharing, customDns, tunnel>>

ToggleLanSharing ==
    /\ lanSharing' = ~lanSharing
    /\ Enqueue(JobOf("firewall"))
    /\ UNCHANGED <<killSwitch, customDns, tunnel>>

\* withConnectionLock hands over to the next job; it does not know of the launch.
StartJob ==
    /\ alive /\ job["lock"] = NoJob /\ waiting # <<>>
    /\ job' = [job EXCEPT !["lock"] = Head(waiting)]
    /\ waiting' = Tail(waiting)
    /\ at' = [at EXCEPT !["lock"] = "start"]
    /\ excused' = IF job["launch"] = NoJob THEN excused ELSE excused \cup {"overlap"}
    /\ UNCHANGED <<markers, settings, tunnel, machine, queue, alive, session, armedWith,
                   notices, call, snap, requests, exits>>

AtRest == [t \in Threads |-> "idle"]
NoJobs == [t \in Threads |-> NoJob]
NoCalls == [t \in Threads |-> NoCall]

AppEnds ==
    /\ alive /\ exits < MaxExits
    /\ exits' = exits + 1
    /\ alive' = FALSE
    /\ active' = FALSE /\ desired' = FALSE /\ armedWith' = NoChain
    /\ killSwitchFailed' = FALSE /\ killSwitchTeardownFailed' = FALSE /\ lastExpiry' = FALSE
    /\ waiting' = <<>> /\ job' = NoJobs /\ at' = AtRest /\ call' = NoCalls
    /\ snap' = NoSettings
    /\ UNCHANGED <<markers, settings, resolver, backup, requests, excused>>

\* A crash, or the exit that quitting forces after five seconds.
Exit == AppEnds /\ queue' = Disown(queue, Threads) /\ UNCHANGED <<chain, tunnel>>

\* The machine goes down: what is not on disk is gone.
Reboot == AppEnds /\ queue' = <<>> /\ chain' = NoChain /\ tunnel' = NoHost

\* index.ts: a tun2socks interface without its core is taken down, if that works.
Launch ==
    /\ ~alive
    /\ alive' = TRUE
    /\ tunnel' \in IF tunnel \in Outlives THEN {tunnel} ELSE {tunnel, NoHost}
    /\ job' = [job EXCEPT !["launch"] = JobOf("orphan")]
    /\ at' = [at EXCEPT !["launch"] = "start"]
    /\ UNCHANGED <<markers, settings, machine, queue, session, armedWith, notices, waiting,
                   call, snap, history>>

-----------------------------------------------------------------------------
Init ==
    /\ ksMarker = FALSE /\ dnsMarker = FALSE
    /\ killSwitch \in BOOLEAN /\ lanSharing = FALSE /\ customDns \in BOOLEAN
    /\ tunnel = NoHost /\ chain = NoChain
    /\ resolver = "user" /\ backup = "none" /\ queue = <<>>
    /\ alive = FALSE /\ active = FALSE /\ desired = FALSE /\ armedWith = NoChain
    /\ killSwitchFailed = FALSE /\ killSwitchTeardownFailed = FALSE /\ lastExpiry = FALSE
    /\ waiting = <<>> /\ job = NoJobs /\ at = AtRest /\ call = NoCalls /\ snap = NoSettings
    /\ requests = 0 /\ exits = 0 /\ excused = {}

Request ==
    RequestConnect \/ RequestDisconnect \/ StandDown \/ ToggleKillSwitch \/ ToggleLanSharing

\* What a thread of control does next.
ThreadStep(t) ==
    \/ Revert(t) \/ StandDownBlocked(t) \/ NothingToHeal(t)
    \/ OffAnswered(t) \/ RestoreAnswered(t) \/ TakeDown(t)
    \/ RefuseConnect(t) \/ StartConnect(t) \/ BringUp(t) \/ PostConnect(t)
    \/ Arm(t) \/ OnAnswered(t) \/ Probe(t) \/ reapplyFirewall(t)

CallStep(t) == Arrives(t) \/ IsRefused(t) \/ TimesOut(t)

Next ==
    \/ Request \/ StartJob
    \/ \E t \in Threads : ThreadStep(t) \/ CallStep(t)
    \/ VerbRuns \/ DaemonDies
    \/ Exit \/ Reboot \/ Launch

Spec == Init /\ [][Next]_vars

-----------------------------------------------------------------------------
(* Properties.                                                               *)

DiskOK ==
    /\ ksMarker \in BOOLEAN /\ dnsMarker \in BOOLEAN
    /\ killSwitch \in BOOLEAN /\ lanSharing \in BOOLEAN /\ customDns \in BOOLEAN

MachineOK ==
    /\ tunnel \in Hosts \cup {NoHost} /\ chain \in Chains
    /\ resolver \in {"user", "vpn"} /\ backup \in {"none", "user", "vpn"}
    /\ queue \in Seq(Requested)

AppOK ==
    /\ alive \in BOOLEAN /\ active \in BOOLEAN /\ desired \in BOOLEAN
    /\ armedWith \in Chains /\ lastExpiry \in BOOLEAN
    /\ killSwitchFailed \in BOOLEAN /\ killSwitchTeardownFailed \in BOOLEAN

ThreadsOK ==
    /\ waiting \in Seq(Wanted)
    /\ job \in [Threads -> Jobs] /\ at \in [Threads -> Steps]
    /\ call \in [Threads -> Calls] /\ snap \in Snaps

HistoryOK ==
    /\ requests \in Nat /\ exits \in Nat
    /\ excused \subseteq {"overlap", "quiet", "unconfirmed", "forgotten"}

\* Every variable keeps its type.
TypeOK == DiskOK /\ MachineOK /\ AppOK /\ ThreadsOK /\ HistoryOK

\* What a later launch or teardown needs to find is marked, whatever was refused, lost,
\* answered late or cut by a crash: a chain that may drop traffic, a resolver that is not
\* the user's.  Not so when a verb reported a success it had not, and when the healing at
\* launch runs beside a job.
MarkersAreHonest ==
    excused \cap {"overlap", "quiet"} = {} =>
        (Blocked => ksMarker) /\ (resolver = "vpn" => dnsMarker)

\* While the resolver is ours, the backup holds the user's: however often dns-set runs, and
\* across crashes, a restore never brings back our own (DnsSet's one snapshot per session).
ResolverIsRecoverable == resolver = "vpn" => backup = "user"

Quiet == alive /\ job = NoJobs /\ waiting = <<>> /\ queue = <<>>
Supervised == desired /\ tunnel # NoHost

\* Once the toggles and the connects are through, a tunnel under the kill switch has its
\* chain, or the user is told it has none, unless a disarming was not confirmed or the
\* warning of a failed arming forgotten before.
ProtectedOrTold ==
    Quiet /\ Supervised /\ killSwitch /\ excused = {} => Blocked \/ killSwitchFailed

\* ... and that chain lets the LAN through exactly when the user shares it.
LanIsAsSet ==
    Quiet /\ Supervised /\ killSwitch /\ Blocked /\ excused = {} =>
        chain.lan = lanSharing \/ killSwitchFailed

EndsTeardown ==
    \E t \in Threads : at[t] = "down" /\ at'[t] # "down" /\ alive'
                       /\ job[t].op \in {"disconnect", "orphan", "stranded"}

\* A disconnect, or a healing launch, that ends has opened the machine, or says it has not:
\* whatever the user did to the setting meanwhile.
EndingOpensOrTells ==
    [][EndsTeardown /\ excused \cap {"overlap", "quiet"} = {} =>
           chain = NoChain \/ killSwitchTeardownFailed]_vars

\* What the code's comments say and the code does not keep.

\* A chain that may drop traffic is marked for a later launch to find ("the cheap detector
\* that lets a later launch find and clear a chain stranded by a crash").
ChainIsMarked == "quiet" \notin excused => (Blocked => ksMarker)

\* Whoever has the kill switch on is never unprotected without being told ("so "protected"
\* is never silently a lie").
NeverSilentlyUnprotected ==
    Quiet /\ Supervised /\ killSwitch /\ excused \subseteq {"unconfirmed", "forgotten"} =>
        Blocked \/ killSwitchFailed

=============================================================================
