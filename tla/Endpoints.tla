------------------------------ MODULE Endpoints ------------------------------
(***************************************************************************)
(* The RPC endpoint every chain call goes through: the monitor that probes   *)
(* it and publishes one verdict for the status bar, Smart RPC, which may      *)
(* replace it, the warning banner, and the settings they all read.           *)
(*                                                                           *)
(* A probe, a fetch of the public feed and the banner's own probe of the      *)
(* whole list take seconds.  Meanwhile the user changes the settings, the     *)
(* tunnel and the kill switch take the path away and give it back, and the    *)
(* endpoints themselves fail and recover.                                    *)
(***************************************************************************)
EXTENDS Integers, FiniteSets

CONSTANTS
    Rpcs,          \* the endpoints the app may be configured with
    Hosts,         \* the hosts they may be served from, themselves among them
    NoRpc,         \* no endpoint
    Readings,      \* what a probe of a host may read
    Feed,          \* the aggregator's verdict: "healthy", "failing" or "unlisted"
    MaxEvents      \* bound: what the user, the path and the hosts do in a behaviour

\* What one probe observes: height is NoHeight when /status did not say.
NoHeight == -1
Reading == [reachable : BOOLEAN, chain : {"ours", "other", "unsaid"}, late : BOOLEAN,
            height : Nat \cup {NoHeight}, latency : Nat]
Lost == [reachable |-> FALSE, chain |-> "unsaid", late |-> FALSE,
         height |-> NoHeight, latency |-> 0]

ASSUME EndpointsAssumption ==
    /\ Rpcs \subseteq Hosts /\ NoRpc \notin Hosts /\ Rpcs # {}
    /\ Readings \subseteq Reading /\ Readings # {}
    /\ Feed \in [Rpcs -> {"healthy", "failing", "unlisted"}]
ASSUME EndpointsBounds == MaxEvents \in Nat

VARIABLES
    endpoint, mode,        \* settings.json: rpcEndpoint and rpcMode
    tunnel, armed,         \* isVpnActive() and isKillSwitchArmed()
    told,                  \* onChainPathChanged has run since they last changed
    truth, via,            \* what a probe of each host reads; where an endpoint redirects
    health,                \* the published verdict
    probe, confirm,        \* probeInFlight; confirmTimer is set
    run,                   \* autoSelectInFlight
    base,                  \* resolvedBases
    dismissed, asking, offer,   \* RpcBanner: whose list is being probed, what it offers
    pinned,                \* history: the endpoint as the user last chose or kept it
    events                 \* how many of MaxEvents there were

settings == <<endpoint, mode, pinned>>
route == <<tunnel, armed, told>>
hosts == <<truth, via>>
monitor == <<health, probe, confirm>>
banner == <<dismissed, asking, offer>>
vars == <<settings, route, hosts, monitor, run, base, banner, events>>

-----------------------------------------------------------------------------
(* Grading and choosing. *)

SlowLatency == 2500
HeightTolerance == 10
KeepMargin == 250

\* classifyRpc: another network's data is as bad as no answer.
Classify(r) ==
    IF ~r.reachable \/ r.chain = "other" THEN "down"
    ELSE IF r.late \/ r.latency >= SlowLatency THEN "degraded" ELSE "ok"

Faults == {"down", "degraded"}

\* c is what a pass over the list read, of each endpoint it probed.
Fastest(c, S) == {e \in S : \A f \in S : c[e].latency <= c[f].latency}
BestTier(c, S) ==
    LET healthy == {e \in S : Classify(c[e]) = "ok"}
    IN  Fastest(c, IF healthy # {} THEN healthy ELSE S)

\* pickBestRpc, what the banner offers.
PickBest(c, current) ==
    BestTier(c, {e \in DOMAIN c \ {current} : Feed[e] # "failing" /\ Classify(c[e]) # "down"})

InConsensus(c, e) == \A f \in DOMAIN c : c[f].height <= c[e].height + HeightTolerance
Qualifies(c, e) ==
    /\ c[e].reachable /\ c[e].chain = "ours" /\ c[e].height # NoHeight
    /\ Feed[e] # "failing"
    /\ InConsensus(c, e)

PickAuto_DegradedHops(c, current) ==
    {e \in BestTier(c, {f \in DOMAIN c \ {current} : Qualifies(c, f)}) :
        \/ current \notin DOMAIN c
        \/ ~Qualifies(c, current)
        \/ Classify(c[current]) = "ok" =>
              Classify(c[e]) = "ok" /\ c[e].latency + KeepMargin < c[current].latency}

\* pickAutoRpc, what Smart RPC switches to: nothing, or one of the fastest.
PickAuto(c, current) ==
    {e \in BestTier(c, {f \in DOMAIN c \ {current} : Qualifies(c, f)}) :
        \/ current \notin DOMAIN c
        \/ ~Qualifies(c, current)
        \/ /\ Classify(c[e]) = "ok"
           /\ Classify(c[current]) = "ok" => c[e].latency + KeepMargin < c[current].latency}

-----------------------------------------------------------------------------
(* Publishing. *)

\* unprobedState: what is known of the path without sending anything.
Unprobed == IF tunnel THEN "suspended" ELSE IF armed THEN "blocked" ELSE "clear"

Warns(h, d) == h.state \in Faults /\ ~d

Rerender_ForgetsEndpoint(h, d, m) ==
    LET shown == Warns(h, d) IN
    /\ dismissed' = d
    /\ asking' = IF <<shown, m>> = <<Warns(health, dismissed), mode>> THEN asking
                 ELSE IF shown /\ m = "manual" THEN h.endpoint ELSE NoRpc
    /\ UNCHANGED offer

\* RpcBanner's effects, when what it shows, the mode or the endpoint changes.
Rerender(h, d, m) ==
    LET shown == Warns(h, d) IN
    /\ dismissed' = d
    /\ asking' = IF <<shown, m, h.endpoint>> = <<Warns(health, dismissed), mode, health.endpoint>>
                 THEN asking
                 ELSE IF shown /\ m = "manual" THEN h.endpoint ELSE NoRpc
    /\ UNCHANGED offer

Publish(s, e) ==
    /\ health' = [state |-> s, endpoint |-> e]
    /\ Rerender(health', dismissed /\ s # "ok", mode)

\* needsConfirmation: a new accusation on one sample.
NeedsConfirmation(s) == s # "ok" /\ health.state \notin Faults

NoProbe == [of |-> NoRpc, confirming |-> FALSE]
InFlight == probe # NoProbe

\* refreshRpcHealth: one probe at a time, and none over a path that is ours.
RefreshOf(e, confirming) ==
    IF InFlight THEN UNCHANGED <<health, probe, banner>>
    ELSE IF Unprobed # "clear" THEN Publish(Unprobed, e) /\ UNCHANGED probe
    ELSE probe' = [of |-> e, confirming |-> confirming] /\ UNCHANGED <<health, banner>>
Refresh(confirming) ==
    /\ RefreshOf(endpoint, confirming)
    /\ confirm' = (confirm /\ ~confirming /\ (InFlight \/ Unprobed = "clear"))

\* One of the things the model bounds happens.
Happens == events < MaxEvents /\ events' = events + 1

\* startRpcMonitor's refreshes, one at once and one every poll.
Poll ==
    /\ Refresh(FALSE)
    /\ UNCHANGED <<settings, route, hosts, run, base, events>>

ConfirmFires ==
    /\ confirm
    /\ Refresh(TRUE)
    /\ UNCHANGED <<settings, route, hosts, run, base, events>>

-----------------------------------------------------------------------------
(* Smart RPC. *)

NoRun == [at |-> "none", current |-> NoRpc, can |-> FALSE, listed |-> NoRpc]

\* startAutoSelect: concurrent triggers share the run that is in flight.
StartRun ==
    IF run # NoRun THEN UNCHANGED run
    ELSE run' = [at |-> "feed", current |-> endpoint,
                 can |-> mode = "auto" /\ Unprobed = "clear", listed |-> NoRpc]
\* runAutoRpcSelection, the entry of the background triggers.
StartAutoRun(m) ==
    IF m # "auto" \/ Unprobed # "clear" THEN UNCHANGED run
    ELSE IF run # NoRun THEN UNCHANGED run
    ELSE run' = [at |-> "feed", current |-> endpoint, can |-> TRUE, listed |-> NoRpc]

\* Three seconds after the launch, and eight after a wake.
AutoTrigger ==
    /\ StartAutoRun(mode)
    /\ UNCHANGED <<settings, route, hosts, monitor, base, banner, events>>

\* "Retest and reselect", which the page offers in auto mode on an open path.
Retest ==
    /\ mode = "auto" /\ health.state \notin {"suspended", "blocked"}
    /\ StartRun
    /\ UNCHANGED <<settings, route, hosts, monitor, base, banner, events>>

\* fetchPublicRpcs: the feed comes, and the endpoint in use joins the list, or it fails.
FeedArrives ==
    /\ run.at = "feed"
    /\ run' = [run EXCEPT !.at = "probing", !.listed = endpoint]
    /\ UNCHANGED <<settings, route, hosts, monitor, base, banner, events>>
FeedFails ==
    /\ run.at = "feed"
    /\ run' = NoRun
    /\ UNCHANGED <<settings, route, hosts, monitor, base, banner, events>>

\* probeAll over the feed and the endpoint that was in use when the feed came.
Pass(listed) ==
    [e \in {f \in Rpcs : Feed[f] # "unlisted"} \cup {listed} |-> truth[via[e]]]

StillMaySwitch_PathOnly(current) == Unprobed = "clear"

\* autoSelectCore's re-check, after probes that took seconds.
StillMaySwitch(current) == endpoint = current /\ mode = "auto" /\ Unprobed = "clear"

RunSwitches ==
    /\ run.at = "probing" /\ run.can
    /\ StillMaySwitch(run.current)
    /\ \E target \in PickAuto(Pass(run.listed), run.current) :
          /\ endpoint' = target
          /\ RefreshOf(target, FALSE)
    /\ confirm' = FALSE
    /\ run' = NoRun
    /\ UNCHANGED <<mode, pinned, route, hosts, base, events>>

RunKeeps ==
    /\ run.at = "probing"
    /\ \/ ~run.can
       \/ PickAuto(Pass(run.listed), run.current) = {}
       \/ ~StillMaySwitch(run.current)
    /\ run' = NoRun
    /\ UNCHANGED <<settings, route, hosts, monitor, base, banner, events>>

-----------------------------------------------------------------------------
(* The probe comes back. *)

\* A reading is the host's, or what a path still being restored makes of it.
Measures(r) ==
    \/ r = truth[via[probe.of]] /\ UNCHANGED events
    \/ r = Lost /\ Happens

\* The path was taken away while the probe ran: its reading is thrown away.
ProbeOvertaken ==
    /\ InFlight /\ Unprobed # "clear"
    /\ confirm' = FALSE
    /\ Publish(Unprobed, probe.of)
    /\ probe' = NoProbe
    /\ UNCHANGED <<settings, route, hosts, run, base, events>>

ProbeHeld_NoTimer ==
    /\ InFlight /\ Unprobed = "clear"
    /\ \E r \in Readings \cup {Lost} :
          Measures(r) /\ ~probe.confirming /\ NeedsConfirmation(Classify(r))
    /\ probe' = NoProbe
    /\ UNCHANGED <<settings, route, hosts, health, confirm, run, base, banner>>

\* A first bad reading is kept to itself, and probed again in CONFIRM_DELAY_MS.
ProbeHeld ==
    /\ InFlight /\ Unprobed = "clear"
    /\ \E r \in Readings \cup {Lost} :
          Measures(r) /\ ~probe.confirming /\ NeedsConfirmation(Classify(r))
    /\ confirm' = TRUE
    /\ probe' = NoProbe
    /\ UNCHANGED <<settings, route, hosts, health, run, base, banner>>

\* A fault that was not published of this endpoint yet asks for a selection.
NewFault(s) ==
    s \in Faults /\ ~(health.state \in Faults /\ health.endpoint = probe.of)

PublishReading(s) ==
    /\ Publish(s, probe.of)
    /\ IF NewFault(s) THEN StartAutoRun(mode) ELSE UNCHANGED run
    /\ confirm' = FALSE
    /\ probe' = NoProbe
    /\ UNCHANGED <<settings, route, hosts, base>>

ProbePublished ==
    /\ InFlight /\ Unprobed = "clear"
    /\ \E r \in Readings \cup {Lost} :
          /\ Measures(r)
          /\ probe.confirming \/ ~NeedsConfirmation(Classify(r))
          /\ PublishReading(Classify(r))

-----------------------------------------------------------------------------
(* The path and the hosts. *)

\* The tunnel and the kill switch change; onChainPathChanged is called after.
PathChanges ==
    /\ Happens
    /\ tunnel' \in BOOLEAN /\ armed' \in BOOLEAN
    /\ <<tunnel, armed>>' # <<tunnel, armed>>
    /\ told' = FALSE
    /\ UNCHANGED <<settings, hosts, monitor, run, base, banner>>

PathTold_OnlyProbes ==
    /\ ~told /\ told' = TRUE
    /\ Refresh(FALSE)
    /\ UNCHANGED <<settings, tunnel, armed, hosts, run, base, events>>

\* onChainPathChanged: a path that just cleared is "unknown" before it is probed.
PathTold ==
    /\ ~told /\ told' = TRUE
    /\ IF Unprobed = "clear" /\ health.state \in {"suspended", "blocked"}
       THEN /\ Publish("unknown", endpoint)
            /\ probe' = IF InFlight THEN probe ELSE [of |-> endpoint, confirming |-> FALSE]
            /\ UNCHANGED confirm
       ELSE Refresh(FALSE)
    /\ UNCHANGED <<settings, tunnel, armed, hosts, run, base, events>>

\* A host fails or recovers; an endpoint redirects to another host.
HostChanges ==
    /\ Happens
    /\ \/ \E h \in Hosts, r \in Readings :
             r # truth[h] /\ truth' = [truth EXCEPT ![h] = r] /\ UNCHANGED via
       \/ \E e \in Rpcs, h \in Hosts :
             h # via[e] /\ via' = [via EXCEPT ![e] = h] /\ UNCHANGED truth
    /\ UNCHANGED <<settings, route, monitor, run, base, banner>>

\* openChainQuery and openChainFlow: the redirect found at the first call of a
\* launch, or the endpoint itself when it could not be asked, is kept for good.
ResolveRpcBase ==
    /\ base[endpoint] = NoRpc
    /\ \E h \in {endpoint, via[endpoint]} : base' = [base EXCEPT ![endpoint] = h]
    /\ UNCHANGED <<settings, route, hosts, monitor, run, banner, events>>

\* noteChainError and the guards: a call that failed asks for a probe.
ChainCallFails ==
    /\ ~tunnel
    /\ base[endpoint] # NoRpc
    /\ armed \/ Classify(truth[base[endpoint]]) # "ok"
    /\ Refresh(FALSE)
    /\ UNCHANGED <<settings, route, hosts, run, base, events>>

-----------------------------------------------------------------------------
(* The user. *)

\* SETTINGS_SET with an endpoint: in auto mode the page sends 'manual' with it.
ChooseEndpoint(e) ==
    /\ Happens
    /\ endpoint' = e /\ mode' = "manual" /\ pinned' = e
    /\ confirm' = FALSE
    /\ IF InFlight THEN UNCHANGED <<health, probe>> /\ Rerender(health, dismissed, "manual")
       ELSE IF Unprobed = "clear"
       THEN /\ probe' = [of |-> e, confirming |-> FALSE]
            /\ UNCHANGED health /\ Rerender(health, dismissed, "manual")
       ELSE /\ health' = [state |-> Unprobed, endpoint |-> e]
            /\ Rerender(health', dismissed, "manual") /\ UNCHANGED probe
    /\ UNCHANGED <<route, hosts, run, base>>

SaveRpc == \E e \in Rpcs \ {endpoint} : ChooseEndpoint(e)

\* RpcBanner's "Switch to": offered in manual mode only.
BannerSwitch ==
    /\ Warns(health, dismissed) /\ mode = "manual" /\ offer # NoRpc
    /\ ChooseEndpoint(offer)

\* The Smart RPC toggle; turning it on runs the selection right away.
SetMode(m) ==
    /\ m # mode
    /\ Happens
    /\ mode' = m /\ UNCHANGED endpoint
    /\ pinned' = endpoint
    /\ IF m = "auto" /\ run = NoRun /\ Unprobed = "clear"
       THEN run' = [at |-> "feed", current |-> endpoint, can |-> TRUE, listed |-> NoRpc]
       ELSE UNCHANGED run
    /\ Rerender(health, dismissed, m)
    /\ UNCHANGED <<route, hosts, monitor, base>>

Dismiss ==
    /\ Warns(health, dismissed)
    /\ Happens
    /\ Rerender(health, TRUE, mode)
    /\ UNCHANGED <<endpoint, mode, pinned, route, hosts, monitor, run, base>>

\* RPC_PROBE_ALL answers the banner, or fails.
BannerAnswered ==
    /\ asking # NoRpc
    /\ LET best == PickBest(Pass(endpoint), asking)
       IN  \/ offer' \in best
           \/ offer' = NoRpc
    /\ asking' = NoRpc
    /\ UNCHANGED <<settings, route, hosts, monitor, run, base, dismissed, events>>

-----------------------------------------------------------------------------
Init ==
    /\ endpoint \in Rpcs /\ mode \in {"auto", "manual"} /\ pinned = endpoint
    /\ tunnel = FALSE /\ armed \in BOOLEAN /\ told = FALSE
    /\ truth \in [Hosts -> Readings] /\ via = [e \in Rpcs |-> e]
    /\ health = [state |-> "unknown", endpoint |-> NoRpc]
    /\ probe = NoProbe /\ confirm = FALSE /\ run = NoRun
    /\ base = [e \in Rpcs |-> NoRpc]
    /\ dismissed = FALSE /\ asking = NoRpc /\ offer = NoRpc
    /\ events = 0

RunStep == FeedArrives \/ FeedFails \/ RunSwitches \/ RunKeeps
ProbeStep == ProbeOvertaken \/ ProbeHeld \/ ProbePublished

Next ==
    \/ Poll \/ ConfirmFires \/ PathTold
    \/ ProbeOvertaken \/ ProbeHeld \/ ProbePublished
    \/ AutoTrigger \/ Retest \/ FeedArrives \/ FeedFails \/ RunSwitches \/ RunKeeps
    \/ PathChanges \/ HostChanges \/ ResolveRpcBase \/ ChainCallFails
    \/ SaveRpc \/ BannerSwitch \/ Dismiss \/ BannerAnswered
    \/ \E m \in {"auto", "manual"} : SetMode(m)

\* The timers run, and every request has a timeout.  A confirmation that fires while
\* an ordinary probe is out is lost; the poll is far slower than the two together
\* (30 s against 2.5 s and at most 10 s), so it cannot be lost every time.
Fairness ==
    /\ WF_vars(Poll) /\ SF_vars(ConfirmFires /\ ~InFlight) /\ WF_vars(PathTold)
    /\ WF_vars(ProbeStep) /\ WF_vars(RunStep) /\ WF_vars(BannerAnswered)

Spec == Init /\ [][Next]_vars /\ Fairness

-----------------------------------------------------------------------------
(* What must hold. *)

\* Every variable of the monitor, Smart RPC and the banner keeps its type, and a
\* selection that probes knows the endpoint in use.
TypeOK ==
    /\ endpoint \in Rpcs /\ mode \in {"auto", "manual"} /\ pinned \in Rpcs
    /\ tunnel \in BOOLEAN /\ armed \in BOOLEAN /\ told \in BOOLEAN
    /\ truth \in [Hosts -> Readings] /\ via \in [Rpcs -> Hosts]
    /\ health \in [state : {"ok", "degraded", "down", "suspended", "blocked", "unknown"},
                   endpoint : Rpcs \cup {NoRpc}]
    /\ probe \in {NoProbe} \cup [of : Rpcs, confirming : BOOLEAN] /\ confirm \in BOOLEAN
    /\ run \in {NoRun} \cup [at : {"feed", "probing"}, current : Rpcs, can : BOOLEAN,
                             listed : Rpcs \cup {NoRpc}]
    /\ run.at = "probing" => run.listed \in Rpcs
    /\ base \in [Rpcs -> Hosts \cup {NoRpc}]
    /\ dismissed \in BOOLEAN /\ {asking, offer} \subseteq Rpcs \cup {NoRpc}
    /\ events \in 0..MaxEvents

\* Smart RPC never takes from the user an endpoint chosen by hand: a selection that
\* was under way when the user picked an endpoint, or turned the automatic mode off,
\* changes nothing, however late its probes come back (autoSelectCore's re-check).
ManualIsUsers == mode = "manual" => endpoint = pinned

\* Once the monitor has been told of the path and no probe is out, the pill blames
\* our own tunnel or kill switch exactly while it has the path (onChainPathChanged,
\* and the second look refreshRpcHealth takes after its probe).
PillNamesThePath ==
    told /\ ~InFlight =>
        IF Unprobed = "clear" THEN health.state \notin {"suspended", "blocked"}
        ELSE health.state = Unprobed

\* A selection settles: run again over the same readings, it keeps what it chose, so
\* launches and wakes do not flap between endpoints (pickAutoRpc).
SelectionSettles ==
    \A current \in Rpcs, listed \in Rpcs :
        \A e \in PickAuto(Pass(listed), current) : PickAuto(Pass(listed), e) = {}

\* Once the user, the path and the hosts leave it alone, the pill comes to tell the
\* truth about the endpoint in use, and stays with it: no early return, held reading
\* or reading of an endpoint no longer used leaves it wrong for ever.
PillIsTrue ==
    /\ health.endpoint = endpoint
    /\ health.state = IF Unprobed = "clear" THEN Classify(truth[via[endpoint]]) ELSE Unprobed
PillConverges == <>[]PillIsTrue

\* What refreshRpcHealth says of its probes: only the second of a held reading
\* publishes a fresh fault.
FaultsAreConfirmed ==
    [][ health'.state \in Faults /\ ~(health.state \in Faults /\ health.endpoint = health'.endpoint)
        => probe.confirming ]_vars

=============================================================================
