--------------------------- MODULE Endpoints_proofs ---------------------------
(***************************************************************************)
(* Proofs about the endpoint: types, that a selection settles whatever the   *)
(* hosts read, that Smart RPC leaves a hand-picked endpoint alone, and that   *)
(* the pill names what has the path.                                         *)
(***************************************************************************)
EXTENDS Endpoints, TLAPS

-----------------------------------------------------------------------------
(* A selection settles. *)

\* What a pass over the list is: a reading of each endpoint it probed.
IsPass(c) == \A e \in DOMAIN c : c[e].latency \in Nat

LEMMA BestTierFacts ==
    ASSUME NEW c, NEW S, NEW e \in BestTier(c, S)
    PROVE  /\ e \in S
           /\ \A f \in S : Classify(c[f]) = "ok" =>
                  Classify(c[e]) = "ok" /\ c[e].latency <= c[f].latency
BY DEF BestTier, Fastest

\* What pickAutoRpc chooses: the best of the others, and a gain over the current one.
LEMMA PickAutoFacts ==
    ASSUME NEW c, NEW current, NEW e \in PickAuto(c, current)
    PROVE  /\ e \in DOMAIN c \ {current} /\ Qualifies(c, e)
           /\ \A f \in DOMAIN c \ {current} : Qualifies(c, f) /\ Classify(c[f]) = "ok" =>
                  Classify(c[e]) = "ok" /\ c[e].latency <= c[f].latency
           /\ current \in DOMAIN c /\ Qualifies(c, current) =>
                  /\ Classify(c[e]) = "ok"
                  /\ Classify(c[current]) = "ok" => c[e].latency + KeepMargin < c[current].latency
<1> DEFINE others == {f \in DOMAIN c \ {current} : Qualifies(c, f)}
<1>1. e \in BestTier(c, others)
  BY DEF PickAuto
<1>2. /\ e \in others
      /\ \A f \in others : Classify(c[f]) = "ok" =>
             Classify(c[e]) = "ok" /\ c[e].latency <= c[f].latency
  BY <1>1, BestTierFacts
<1> QED
  BY <1>2 DEF PickAuto

LEMMA PickAutoSettles ==
    ASSUME NEW c, IsPass(c), NEW current, NEW e \in PickAuto(c, current)
    PROVE  PickAuto(c, e) = {}
<1> SUFFICES ASSUME NEW g \in PickAuto(c, e) PROVE FALSE
  OBVIOUS
<1>1. /\ e \in DOMAIN c /\ Qualifies(c, e) /\ g \in DOMAIN c \ {e} /\ Qualifies(c, g)
      /\ c[e].latency \in Nat /\ c[g].latency \in Nat
  BY PickAutoFacts DEF IsPass
<1>2. /\ Classify(c[g]) = "ok"
      /\ Classify(c[e]) = "ok" => c[g].latency + KeepMargin < c[e].latency
  BY <1>1, PickAutoFacts
<1>3. Classify(c[e]) = "ok" /\ c[e].latency <= c[g].latency + KeepMargin
  <2>1. CASE g # current
    BY <1>1, <1>2, <2>1, PickAutoFacts DEF KeepMargin
  <2>2. CASE g = current
    <3>1. Classify(c[e]) = "ok" /\ c[e].latency + KeepMargin < c[g].latency
      BY <1>1, <1>2, <2>2, PickAutoFacts
    <3> QED
      BY <1>1, <3>1 DEF KeepMargin
  <2> QED
    BY <2>1, <2>2
<1> QED
  BY <1>1, <1>2, <1>3 DEF KeepMargin

-----------------------------------------------------------------------------
(* Types. *)

RunType == {NoRun} \cup [at : {"feed", "probing"}, current : Rpcs, can : BOOLEAN,
                         listed : Rpcs \cup {NoRpc}]
HealthType == [state : {"ok", "degraded", "down", "suspended", "blocked", "unknown"},
               endpoint : Rpcs \cup {NoRpc}]
ProbeType == {NoProbe} \cup [of : Rpcs, confirming : BOOLEAN]

\* The monitor and the banner, which most actions may touch.
MonitorOK == health \in HealthType /\ probe \in ProbeType /\ confirm \in BOOLEAN
BannerOK == dismissed \in BOOLEAN /\ asking \in Rpcs \cup {NoRpc} /\ offer \in Rpcs \cup {NoRpc}
RunOK == run \in RunType /\ (run.at = "probing" => run.listed \in Rpcs)
RestOK ==
    /\ endpoint \in Rpcs /\ mode \in {"auto", "manual"} /\ pinned \in Rpcs
    /\ tunnel \in BOOLEAN /\ armed \in BOOLEAN /\ told \in BOOLEAN
    /\ truth \in [Hosts -> Readings] /\ via \in [Rpcs -> Hosts]
    /\ base \in [Rpcs -> Hosts \cup {NoRpc}]
    /\ events \in 0..MaxEvents

LEMMA TypeParts == TypeOK <=> MonitorOK /\ BannerOK /\ RunOK /\ RestOK
BY DEF TypeOK, MonitorOK, BannerOK, RunOK, RestOK, RunType, HealthType, ProbeType

LEMMA UnprobedValues ==
    /\ Unprobed \in {"suspended", "blocked", "clear"}
    /\ Unprobed # "clear" => Unprobed \in {"suspended", "blocked"}
BY DEF Unprobed

LEMMA ClassifyValues == \A r : Classify(r) \in {"ok", "degraded", "down"}
BY DEF Classify

LEMMA ProbeFacts ==
    ASSUME probe \in ProbeType, InFlight
    PROVE  probe.of \in Rpcs /\ probe.confirming \in BOOLEAN
BY DEF ProbeType, InFlight

LEMMA NotInFlight == NoProbe \in ProbeType /\ NoRun \in RunType /\ NoRun.at # "probing"
BY DEF ProbeType, RunType, NoRun

LEMMA NewProbe == ASSUME NEW e \in Rpcs, NEW b \in BOOLEAN
                  PROVE  [of |-> e, confirming |-> b] \in ProbeType
BY DEF ProbeType

LEMMA RerenderOK ==
    ASSUME BannerOK, NEW h \in HealthType, NEW d \in BOOLEAN, NEW m, Rerender(h, d, m)
    PROVE  BannerOK'
<1>1. dismissed' \in BOOLEAN /\ offer' \in Rpcs \cup {NoRpc}
  BY DEF Rerender, BannerOK
<1>2. h.endpoint \in Rpcs \cup {NoRpc}
  BY DEF HealthType
<1>3. asking' \in {asking, h.endpoint, NoRpc}
  BY DEF Rerender
<1> QED
  BY <1>1, <1>2, <1>3 DEF BannerOK

LEMMA PublishOK ==
    ASSUME BannerOK, NEW s \in {"ok", "degraded", "down", "suspended", "blocked", "unknown"},
           NEW e \in Rpcs, Publish(s, e)
    PROVE  health' = [state |-> s, endpoint |-> e] /\ health' \in HealthType /\ BannerOK'
<1>1. health' = [state |-> s, endpoint |-> e] /\ health' \in HealthType
  BY DEF Publish, HealthType
<1>2. (dismissed /\ s # "ok") \in BOOLEAN
  OBVIOUS
<1> QED
  BY <1>1, <1>2, RerenderOK DEF Publish

\* A refresh begins a probe, publishes what has the path, or does nothing.
LEMMA RefreshOfOK ==
    ASSUME MonitorOK, BannerOK, NEW e \in Rpcs, NEW b \in BOOLEAN, RefreshOf(e, b)
    PROVE  /\ health' \in HealthType /\ probe' \in ProbeType /\ BannerOK'
           /\ \/ health' = health /\ (InFlight \/ Unprobed = "clear")
              \/ health'.state = Unprobed /\ Unprobed # "clear"
           /\ InFlight => InFlight'
<1>1. CASE InFlight
  BY <1>1 DEF RefreshOf, MonitorOK, BannerOK, banner, InFlight
<1>2. CASE ~InFlight /\ Unprobed # "clear"
  <2>1. Publish(Unprobed, e) /\ UNCHANGED probe
    BY <1>2 DEF RefreshOf
  <2>2. health' = [state |-> Unprobed, endpoint |-> e] /\ health' \in HealthType /\ BannerOK'
    BY <2>1, <1>2, UnprobedValues, PublishOK
  <2> QED
    BY <1>2, <2>1, <2>2 DEF MonitorOK
<1>3. CASE ~InFlight /\ Unprobed = "clear"
  BY <1>3, NewProbe DEF RefreshOf, MonitorOK, BannerOK, banner
<1> QED
  BY <1>1, <1>2, <1>3

LEMMA RefreshOK ==
    ASSUME MonitorOK, BannerOK, endpoint \in Rpcs, NEW b \in BOOLEAN, Refresh(b)
    PROVE  /\ MonitorOK' /\ BannerOK'
           /\ \/ health' = health /\ (InFlight \/ Unprobed = "clear")
              \/ health'.state = Unprobed /\ Unprobed # "clear"
           /\ InFlight => InFlight'
<1>1. RefreshOf(endpoint, b) /\ confirm' \in BOOLEAN
  BY DEF Refresh
<1> QED
  BY <1>1, RefreshOfOK DEF MonitorOK

LEMMA StartAutoRunOK ==
    ASSUME RunOK, endpoint \in Rpcs, NEW m, StartAutoRun(m) PROVE RunOK'
<1>1. CASE run' = run
  BY <1>1 DEF RunOK
<1>2. CASE run' = [at |-> "feed", current |-> endpoint, can |-> TRUE, listed |-> NoRpc]
  BY <1>2 DEF RunOK, RunType
<1> QED
  BY <1>1, <1>2 DEF StartAutoRun

LEMMA StartRunOK == ASSUME RunOK, endpoint \in Rpcs, StartRun PROVE RunOK'
<1>1. CASE run' = run
  BY <1>1 DEF RunOK
<1>2. CASE run' = [at |-> "feed", current |-> endpoint,
                   can |-> mode = "auto" /\ Unprobed = "clear", listed |-> NoRpc]
  BY <1>2 DEF RunOK, RunType
<1> QED
  BY <1>1, <1>2 DEF StartRun

LEMMA RunFacts ==
    ASSUME RunOK, run # NoRun
    PROVE  /\ run \in [at : {"feed", "probing"}, current : Rpcs, can : BOOLEAN,
                       listed : Rpcs \cup {NoRpc}]
           /\ run.at = "probing" => run.listed \in Rpcs
BY DEF RunOK, RunType

\* The readings that come of a pass over the list are of endpoints.
LEMMA PassOK ==
    ASSUME truth \in [Hosts -> Readings], via \in [Rpcs -> Hosts], NEW listed \in Rpcs
    PROVE  DOMAIN Pass(listed) \subseteq Rpcs /\ IsPass(Pass(listed))
<1>1. \A h \in Hosts : truth[h].latency \in Nat
  BY EndpointsAssumption DEF Reading
<1> QED
  BY <1>1 DEF Pass, IsPass

-----------------------------------------------------------------------------
(* The invariant. *)

\* While a probe is out the pill may still blame nothing, never the wrong thing.
PathInv ==
    told =>
        /\ Unprobed = "clear" => health.state \notin {"suspended", "blocked"}
        /\ Unprobed # "clear" /\ ~InFlight => health.state = Unprobed

Parts == MonitorOK /\ BannerOK /\ RunOK /\ RestOK
Inv == Parts /\ PathInv /\ ManualIsUsers

\* What an action that leaves the path and the user's choice alone must do.
LEMMA RouteStep ==
    ASSUME PathInv, UNCHANGED route,
           \/ health' = health /\ (Unprobed = "clear" \/ InFlight' \/ ~InFlight)
           \/ Unprobed # "clear" /\ health'.state = Unprobed
           \/ health'.state \notin {"suspended", "blocked"} /\ Unprobed = "clear"
    PROVE  PathInv'
<1>1. Unprobed' = Unprobed /\ told' = told
  BY DEF Unprobed, route
<1> QED
  BY <1>1 DEF PathInv

LEMMA StillStep == ASSUME PathInv, UNCHANGED <<route, monitor>> PROVE PathInv'
BY DEF PathInv, Unprobed, InFlight, route, monitor

LEMMA SettingsStep ==
    ASSUME ManualIsUsers, UNCHANGED settings PROVE ManualIsUsers'
BY DEF ManualIsUsers, settings

LEMMA RestStep ==
    ASSUME RestOK, UNCHANGED <<settings, route, hosts>>, base' = base,
           events' \in 0..MaxEvents
    PROVE  RestOK'
BY DEF RestOK, settings, route, hosts

LEMMA HappensOK == ASSUME RestOK, Happens PROVE events' \in 0..MaxEvents
<1>1. events \in 0..MaxEvents /\ MaxEvents \in Nat /\ events < MaxEvents /\ events' = events + 1
  BY EndpointsBounds DEF RestOK, Happens
<1> QED
  BY <1>1

LEMMA MeasuresOK == ASSUME RestOK, NEW r, Measures(r) PROVE events' \in 0..MaxEvents
<1>1. CASE Happens
  BY <1>1, HappensOK
<1>2. CASE events' = events
  BY <1>2 DEF RestOK
<1> QED
  BY <1>1, <1>2 DEF Measures

-----------------------------------------------------------------------------
(* The actions. *)

LEMMA ProbingSteps ==
    ASSUME Inv, Poll \/ ConfirmFires \/ ChainCallFails PROVE Inv'
<1>1. PICK b \in BOOLEAN : Refresh(b)
  BY DEF Poll, ConfirmFires, ChainCallFails
<1>2. UNCHANGED <<settings, route, hosts, run, base, events>>
  BY DEF Poll, ConfirmFires, ChainCallFails
<1>3. endpoint \in Rpcs
  BY DEF Inv, Parts, RestOK
<1>4. /\ MonitorOK' /\ BannerOK'
      /\ \/ health' = health /\ (InFlight \/ Unprobed = "clear")
         \/ health'.state = Unprobed /\ Unprobed # "clear"
      /\ InFlight => InFlight'
  BY <1>1, <1>3, RefreshOK DEF Inv, Parts
<1>5. RestOK' /\ RunOK'
  BY <1>2, RestStep DEF Inv, Parts, RunOK, RestOK
<1>6. PathInv'
  BY <1>2, <1>4, RouteStep DEF Inv
<1>7. ManualIsUsers'
  BY <1>2, SettingsStep DEF Inv
<1> QED
  BY <1>4, <1>5, <1>6, <1>7 DEF Inv, Parts

LEMMA PathToldStep == ASSUME Inv, PathTold PROVE Inv'
<1>1. told' = TRUE /\ UNCHANGED <<settings, tunnel, armed, hosts, run, base, events>>
  BY DEF PathTold
<1>2. Unprobed' = Unprobed
  BY <1>1 DEF Unprobed
<1>3. endpoint \in Rpcs
  BY DEF Inv, Parts, RestOK
<1>4. RestOK' /\ RunOK'
  BY <1>1 DEF Inv, Parts, RunOK, RestOK, settings, hosts
<1>5. ManualIsUsers'
  BY <1>1, SettingsStep DEF Inv
<1>6. CASE Unprobed = "clear" /\ health.state \in {"suspended", "blocked"}
  <2>1. /\ Publish("unknown", endpoint) /\ confirm' = confirm
        /\ probe' = IF InFlight THEN probe ELSE [of |-> endpoint, confirming |-> FALSE]
    BY <1>6 DEF PathTold
  <2>2. health' = [state |-> "unknown", endpoint |-> endpoint] /\ health' \in HealthType /\ BannerOK'
    BY <1>3, <2>1, PublishOK DEF Inv, Parts
  <2>3. MonitorOK'
    BY <1>3, <2>1, <2>2, NewProbe DEF Inv, Parts, MonitorOK
  <2>4. PathInv'
    BY <1>2, <1>6, <2>2 DEF PathInv
  <2> QED
    BY <1>4, <1>5, <2>2, <2>3, <2>4 DEF Inv, Parts
<1>7. CASE ~(Unprobed = "clear" /\ health.state \in {"suspended", "blocked"})
  <2>1. Refresh(FALSE)
    BY <1>7 DEF PathTold
  <2>2. /\ MonitorOK' /\ BannerOK'
        /\ \/ health' = health /\ (InFlight \/ Unprobed = "clear")
           \/ health'.state = Unprobed /\ Unprobed # "clear"
        /\ InFlight => InFlight'
    BY <1>3, <2>1, RefreshOK DEF Inv, Parts
  <2>3. PathInv'
    BY <1>2, <1>7, <2>2 DEF PathInv
  <2> QED
    BY <1>4, <1>5, <2>2, <2>3 DEF Inv, Parts
<1> QED
  BY <1>6, <1>7

LEMMA ProbeSteps == ASSUME Inv, ProbeOvertaken \/ ProbeHeld \/ ProbePublished PROVE Inv'
<1>1. InFlight /\ probe' = NoProbe /\ UNCHANGED <<settings, route, hosts, base>>
  BY DEF ProbeOvertaken, ProbeHeld, ProbePublished, PublishReading
<1>2. probe.of \in Rpcs /\ endpoint \in Rpcs
  BY <1>1, ProbeFacts DEF Inv, Parts, MonitorOK, RestOK
<1>3. ManualIsUsers'
  BY <1>1, SettingsStep DEF Inv
<1>4. ~InFlight' /\ probe' \in ProbeType
  BY <1>1, NotInFlight DEF InFlight
<1>5. CASE ProbeOvertaken
  <2>1. Unprobed # "clear" /\ Publish(Unprobed, probe.of) /\ confirm' = FALSE
        /\ UNCHANGED <<run, events>>
    BY <1>5 DEF ProbeOvertaken
  <2>2. health' = [state |-> Unprobed, endpoint |-> probe.of] /\ health' \in HealthType /\ BannerOK'
    BY <1>2, <2>1, UnprobedValues, PublishOK DEF Inv, Parts
  <2>3. PathInv'
    BY <1>1, <2>1, <2>2, RouteStep DEF Inv
  <2>4. RestOK' /\ RunOK'
    BY <1>1, <2>1, RestStep DEF Inv, Parts, RunOK, RestOK
  <2> QED
    BY <1>3, <1>4, <2>1, <2>2, <2>3, <2>4 DEF Inv, Parts, MonitorOK
<1>6. CASE ProbeHeld
  <2>1. Unprobed = "clear" /\ confirm' = TRUE /\ UNCHANGED <<health, run, banner>>
        /\ \E r : Measures(r)
    BY <1>6 DEF ProbeHeld
  <2>2. PathInv'
    BY <1>1, <2>1, RouteStep DEF Inv
  <2>3. RestOK' /\ RunOK' /\ BannerOK'
    BY <1>1, <2>1, MeasuresOK, RestStep DEF Inv, Parts, RunOK, BannerOK, banner
  <2> QED
    BY <1>3, <1>4, <2>1, <2>2, <2>3 DEF Inv, Parts, MonitorOK
<1>7. CASE ProbePublished
  <2>1. PICK r : Measures(r) /\ PublishReading(Classify(r)) /\ Unprobed = "clear"
    BY <1>7 DEF ProbePublished
  <2>2. Classify(r) \in {"ok", "degraded", "down"} /\ Publish(Classify(r), probe.of)
        /\ confirm' = FALSE /\ (run' = run \/ StartAutoRun(mode))
    BY <2>1, ClassifyValues DEF PublishReading
  <2> HIDE DEF Classify
  <2>3. health' = [state |-> Classify(r), endpoint |-> probe.of] /\ health' \in HealthType
        /\ BannerOK'
    <3> DEFINE s == Classify(r)
    <3>1. s \in {"ok", "degraded", "down", "suspended", "blocked", "unknown"}
          /\ Publish(s, probe.of) /\ BannerOK
      BY <2>2 DEF Inv, Parts
    <3> HIDE DEF s
    <3>2. health' = [state |-> s, endpoint |-> probe.of] /\ health' \in HealthType /\ BannerOK'
      BY <1>2, <3>1, PublishOK
    <3> QED
      BY <3>2 DEF s
  <2>4. health'.state \notin {"suspended", "blocked"}
    BY <2>2, <2>3
  <2>5. PathInv'
    BY <1>1, <2>1, <2>4, RouteStep DEF Inv
  <2>6. RunOK'
    <3>1. run' = run => RunOK'
      BY DEF Inv, Parts, RunOK
    <3> QED
      BY <1>2, <2>2, <3>1, StartAutoRunOK DEF Inv, Parts
  <2>7. RestOK'
    BY <1>1, <2>1, MeasuresOK, RestStep DEF Inv, Parts
  <2> QED
    BY <1>3, <1>4, <2>2, <2>3, <2>5, <2>6, <2>7 DEF Inv, Parts, MonitorOK
<1> QED
  BY <1>5, <1>6, <1>7

LEMMA RunSteps ==
    ASSUME Inv, AutoTrigger \/ Retest \/ FeedArrives \/ FeedFails \/ RunKeeps PROVE Inv'
<1>1. UNCHANGED <<settings, route, hosts, monitor, base, banner, events>>
  BY DEF AutoTrigger, Retest, FeedArrives, FeedFails, RunKeeps
<1>2. endpoint \in Rpcs
  BY DEF Inv, Parts, RestOK
<1>3. RunOK'
  <2>1. CASE AutoTrigger
    BY <1>2, <2>1, StartAutoRunOK DEF Inv, Parts, AutoTrigger
  <2>2. CASE Retest
    BY <1>2, <2>2, StartRunOK DEF Inv, Parts, Retest
  <2>3. CASE FeedArrives
    <3>1. run # NoRun /\ run' = [run EXCEPT !.at = "probing", !.listed = endpoint]
      BY <2>3 DEF FeedArrives, NoRun
    <3>2. run \in [at : {"feed", "probing"}, current : Rpcs, can : BOOLEAN,
                   listed : Rpcs \cup {NoRpc}]
      BY <3>1, RunFacts DEF Inv, Parts
    <3> QED
      BY <1>2, <3>1, <3>2 DEF RunOK, RunType
  <2>4. CASE FeedFails \/ RunKeeps
    BY <2>4, NotInFlight DEF FeedFails, RunKeeps, RunOK
  <2> QED
    BY <2>1, <2>2, <2>3, <2>4
<1>4. MonitorOK' /\ BannerOK'
  BY <1>1 DEF Inv, Parts, MonitorOK, BannerOK, monitor, banner
<1>5. PathInv'
  BY <1>1, StillStep DEF Inv
<1>6. RestOK' /\ ManualIsUsers'
  BY <1>1, RestStep, SettingsStep DEF Inv, Parts, RestOK
<1> QED
  BY <1>3, <1>4, <1>5, <1>6 DEF Inv, Parts

\* The one action of the program's own that changes the endpoint.
LEMMA RunSwitchesStep == ASSUME Inv, RunSwitches PROVE Inv'
<1>1. run.at = "probing" /\ run # NoRun /\ mode = "auto" /\ Unprobed = "clear"
  BY DEF RunSwitches, StillMaySwitch, NoRun
<1>2. PICK target \in PickAuto(Pass(run.listed), run.current) :
          endpoint' = target /\ RefreshOf(target, FALSE)
  BY DEF RunSwitches
<1>3. confirm' = FALSE /\ run' = NoRun /\ UNCHANGED <<mode, pinned, route, hosts, base, events>>
  BY DEF RunSwitches
<1>4. target \in Rpcs
  <2>1. run.listed \in Rpcs /\ truth \in [Hosts -> Readings] /\ via \in [Rpcs -> Hosts]
    BY <1>1 DEF Inv, Parts, RunOK, RestOK
  <2> QED
    BY <2>1, PassOK, PickAutoFacts
<1>5. /\ health' \in HealthType /\ probe' \in ProbeType /\ BannerOK'
      /\ health' = health
  BY <1>1, <1>2, <1>4, RefreshOfOK DEF Inv, Parts
<1>6. MonitorOK' /\ RunOK'
  BY <1>3, <1>5, NotInFlight DEF MonitorOK, RunOK
<1>7. RestOK'
  BY <1>2, <1>3, <1>4 DEF Inv, Parts, RestOK, route, hosts
<1>8. PathInv'
  BY <1>1, <1>3, <1>5, RouteStep DEF Inv
<1>9. ManualIsUsers'
  BY <1>1, <1>3 DEF ManualIsUsers
<1> QED
  BY <1>5, <1>6, <1>7, <1>8, <1>9 DEF Inv, Parts

LEMMA WorldSteps == ASSUME Inv, PathChanges \/ HostChanges \/ ResolveRpcBase PROVE Inv'
<1>1. UNCHANGED <<settings, monitor, run, banner>>
  BY DEF PathChanges, HostChanges, ResolveRpcBase
<1>2. MonitorOK' /\ BannerOK' /\ RunOK' /\ ManualIsUsers'
  BY <1>1, SettingsStep DEF Inv, Parts, MonitorOK, BannerOK, RunOK, monitor, banner
<1>3. CASE PathChanges
  <2>1. events' \in 0..MaxEvents
    BY <1>3, HappensOK DEF PathChanges, Inv, Parts
  <2>2. tunnel' \in BOOLEAN /\ armed' \in BOOLEAN /\ told' = FALSE /\ hosts' = hosts /\ base' = base
    BY <1>3 DEF PathChanges
  <2>3. RestOK'
    BY <1>1, <2>1, <2>2 DEF Inv, Parts, RestOK, settings, hosts
  <2>4. PathInv'
    BY <2>2 DEF PathInv
  <2> QED
    BY <1>2, <2>3, <2>4 DEF Inv, Parts
<1>4. CASE HostChanges
  <2>1. events' \in 0..MaxEvents
    BY <1>4, HappensOK DEF HostChanges, Inv, Parts
  <2>2. truth' \in [Hosts -> Readings] /\ via' \in [Rpcs -> Hosts] /\ route' = route /\ base' = base
    BY <1>4 DEF HostChanges, Inv, Parts, RestOK
  <2>3. RestOK'
    BY <1>1, <2>1, <2>2 DEF Inv, Parts, RestOK, settings, route
  <2>4. PathInv'
    BY <1>1, <2>2, StillStep DEF Inv
  <2> QED
    BY <1>2, <2>3, <2>4 DEF Inv, Parts
<1>5. CASE ResolveRpcBase
  <2>1. UNCHANGED <<settings, route, hosts, events>>
    BY <1>5 DEF ResolveRpcBase
  <2>2. PICK h \in {endpoint, via[endpoint]} : base' = [base EXCEPT ![endpoint] = h]
    BY <1>5 DEF ResolveRpcBase
  <2>3. h \in Hosts
    BY EndpointsAssumption DEF Inv, Parts, RestOK
  <2>4. RestOK'
    BY <2>1, <2>2, <2>3 DEF Inv, Parts, RestOK, settings, route, hosts
  <2>5. PathInv'
    BY <1>1, <2>1, StillStep DEF Inv
  <2> QED
    BY <1>2, <2>4, <2>5 DEF Inv, Parts
<1> QED
  BY <1>3, <1>4, <1>5

LEMMA ChooseEndpointStep == ASSUME Inv, NEW e \in Rpcs, ChooseEndpoint(e) PROVE Inv'
<1>1. endpoint' = e /\ mode' = "manual" /\ pinned' = e /\ confirm' = FALSE
      /\ UNCHANGED <<route, hosts, run, base>> /\ Happens
  BY DEF ChooseEndpoint
<1>2. events' \in 0..MaxEvents
  BY <1>1, HappensOK DEF Inv, Parts
<1>3. RestOK' /\ RunOK' /\ ManualIsUsers'
  BY <1>1, <1>2 DEF Inv, Parts, RestOK, RunOK, ManualIsUsers, route, hosts
<1>4. health \in HealthType /\ dismissed \in BOOLEAN /\ BannerOK /\ probe \in ProbeType
  BY DEF Inv, Parts, MonitorOK, BannerOK
<1>5. CASE InFlight
  <2>1. UNCHANGED <<health, probe>> /\ Rerender(health, dismissed, "manual")
    BY <1>5 DEF ChooseEndpoint
  <2>2. MonitorOK' /\ BannerOK' /\ InFlight'
    BY <1>1, <1>4, <1>5, <2>1, RerenderOK DEF MonitorOK, InFlight
  <2>3. PathInv'
    BY <1>1, <2>1, <2>2, RouteStep DEF Inv
  <2> QED
    BY <1>3, <2>2, <2>3 DEF Inv, Parts
<1>6. CASE ~InFlight /\ Unprobed = "clear"
  <2>1. /\ probe' = [of |-> e, confirming |-> FALSE]
        /\ UNCHANGED health /\ Rerender(health, dismissed, "manual")
    BY <1>6 DEF ChooseEndpoint
  <2>2. MonitorOK' /\ BannerOK'
    BY <1>1, <1>4, <2>1, RerenderOK, NewProbe DEF MonitorOK
  <2>3. PathInv'
    BY <1>1, <1>6, <2>1, RouteStep DEF Inv
  <2> QED
    BY <1>3, <2>2, <2>3 DEF Inv, Parts
<1>7. CASE ~InFlight /\ Unprobed # "clear"
  <2>1. /\ health' = [state |-> Unprobed, endpoint |-> e]
        /\ Rerender(health', dismissed, "manual") /\ UNCHANGED probe
    BY <1>7 DEF ChooseEndpoint
  <2>2. health' \in HealthType
    BY <1>7, <2>1, UnprobedValues DEF HealthType
  <2>3. MonitorOK' /\ BannerOK'
    BY <1>1, <1>4, <2>1, <2>2, RerenderOK DEF MonitorOK
  <2>4. PathInv'
    BY <1>1, <1>7, <2>1, RouteStep DEF Inv
  <2> QED
    BY <1>3, <2>3, <2>4 DEF Inv, Parts
<1> QED
  BY <1>5, <1>6, <1>7

LEMMA UserSteps ==
    ASSUME Inv, \/ SaveRpc \/ BannerSwitch \/ Dismiss \/ BannerAnswered
                \/ \E m \in {"auto", "manual"} : SetMode(m)
    PROVE  Inv'
<1>1. CASE SaveRpc
  BY <1>1, ChooseEndpointStep DEF SaveRpc
<1>2. CASE BannerSwitch
  BY <1>2, ChooseEndpointStep DEF BannerSwitch, Inv, Parts, BannerOK
<1>3. health \in HealthType /\ dismissed \in BOOLEAN /\ BannerOK
  BY DEF Inv, Parts, MonitorOK, BannerOK
<1>4. CASE Dismiss
  <2>1. Rerender(health, TRUE, mode) /\ Happens
        /\ UNCHANGED <<endpoint, mode, pinned, route, hosts, monitor, run, base>>
    BY <1>4 DEF Dismiss
  <2>2. BannerOK'
    BY <1>3, <2>1, RerenderOK
  <2>3. events' \in 0..MaxEvents
    BY <2>1, HappensOK DEF Inv, Parts
  <2>4. RestOK' /\ ManualIsUsers'
    BY <2>1, <2>3, RestStep, SettingsStep DEF Inv, Parts, settings
  <2>5. PathInv'
    BY <2>1, StillStep DEF Inv
  <2> QED
    BY <2>1, <2>2, <2>4, <2>5 DEF Inv, Parts, MonitorOK, RunOK, monitor
<1>5. CASE BannerAnswered
  <2>1. UNCHANGED <<settings, route, hosts, monitor, run, base, dismissed, events>> /\ asking' = NoRpc
    BY <1>5 DEF BannerAnswered
  <2>2. offer' \in Rpcs \cup {NoRpc}
    <3>1. endpoint \in Rpcs /\ truth \in [Hosts -> Readings] /\ via \in [Rpcs -> Hosts]
      BY DEF Inv, Parts, RestOK
    <3>2. PickBest(Pass(endpoint), asking) \subseteq Rpcs
      BY <3>1, PassOK, BestTierFacts DEF PickBest
    <3> QED
      BY <1>5, <3>2 DEF BannerAnswered
  <2>3. BannerOK'
    BY <1>3, <2>1, <2>2 DEF BannerOK
  <2>4. RestOK' /\ ManualIsUsers'
    BY <2>1, RestStep, SettingsStep DEF Inv, Parts, RestOK
  <2>5. PathInv'
    BY <2>1, StillStep DEF Inv
  <2> QED
    BY <2>1, <2>3, <2>4, <2>5 DEF Inv, Parts, MonitorOK, RunOK, monitor
<1>6. ASSUME NEW m \in {"auto", "manual"}, SetMode(m) PROVE Inv'
  <2>1. /\ Happens /\ mode' = m /\ endpoint' = endpoint /\ pinned' = endpoint
        /\ Rerender(health, dismissed, m) /\ UNCHANGED <<route, hosts, monitor, base>>
    BY <1>6 DEF SetMode
  <2>2. BannerOK'
    BY <1>3, <2>1, RerenderOK
  <2>3. events' \in 0..MaxEvents
    BY <2>1, HappensOK DEF Inv, Parts
  <2>4. RestOK'
    BY <2>1, <2>3 DEF Inv, Parts, RestOK, route, hosts
  <2>5. RunOK'
    <3>1. CASE run' = run
      BY <3>1 DEF Inv, Parts, RunOK
    <3>2. CASE run' = [at |-> "feed", current |-> endpoint, can |-> TRUE, listed |-> NoRpc]
      BY <3>2 DEF Inv, Parts, RestOK, RunOK, RunType
    <3> QED
      BY <1>6, <3>1, <3>2 DEF SetMode
  <2>6. PathInv'
    BY <2>1, StillStep DEF Inv
  <2>7. ManualIsUsers' /\ MonitorOK'
    BY <2>1 DEF ManualIsUsers, Inv, Parts, MonitorOK, monitor
  <2> QED
    BY <2>2, <2>4, <2>5, <2>6, <2>7 DEF Inv, Parts
<1> QED
  BY <1>1, <1>2, <1>4, <1>5, <1>6

-----------------------------------------------------------------------------
(* The theorems. *)

LEMMA InvInit == Init => Inv
<1> SUFFICES ASSUME Init PROVE Inv
  OBVIOUS
<1>1. MonitorOK /\ BannerOK
  BY NotInFlight DEF Init, MonitorOK, BannerOK, HealthType
<1>2. RunOK
  BY NotInFlight DEF Init, RunOK
<1>3. RestOK
  <2>1. via \in [Rpcs -> Hosts] /\ base \in [Rpcs -> Hosts \cup {NoRpc}]
    BY EndpointsAssumption DEF Init
  <2>2. events \in 0..MaxEvents
    BY EndpointsBounds DEF Init
  <2>3. tunnel \in BOOLEAN /\ armed \in BOOLEAN /\ told \in BOOLEAN
    BY DEF Init
  <2> QED
    BY <2>1, <2>2, <2>3 DEF Init, RestOK
<1>4. PathInv /\ ManualIsUsers
  BY DEF Init, PathInv, ManualIsUsers
<1> QED
  BY <1>1, <1>2, <1>3, <1>4 DEF Inv, Parts

LEMMA InvStep == Inv /\ [Next]_vars => Inv'
<1> SUFFICES ASSUME Inv, [Next]_vars PROVE Inv'
  OBVIOUS
<1>1. CASE UNCHANGED vars
  <2>1. UNCHANGED <<settings, route, hosts, monitor, run, base, banner, events>>
    BY <1>1 DEF vars
  <2>2. MonitorOK' /\ BannerOK' /\ RunOK' /\ ManualIsUsers'
    BY <2>1, SettingsStep DEF Inv, Parts, MonitorOK, BannerOK, RunOK, monitor, banner
  <2>3. RestOK' /\ PathInv'
    BY <2>1, RestStep, StillStep DEF Inv, Parts, RestOK
  <2> QED
    BY <2>2, <2>3 DEF Inv, Parts
<1>2. CASE Next
  BY <1>2, ProbingSteps, PathToldStep, ProbeSteps, RunSteps, RunSwitchesStep, WorldSteps, UserSteps
     DEF Next
<1> QED
  BY <1>1, <1>2

LEMMA Invariance == Spec => []Inv
BY InvInit, InvStep, PTL DEF Spec

\* The settings, the published verdict, the probe, the selection and the banner keep
\* their shapes, and a selection that probes knows the endpoint in use.
THEOREM TypeCorrect == Spec => []TypeOK
<1>1. Inv => TypeOK
  BY TypeParts DEF Inv, Parts
<1> QED
  BY <1>1, Invariance, PTL

\* Smart RPC never takes from the user an endpoint chosen by hand, however late the
\* probes of a selection come back (the re-check of autoSelectCore).
THEOREM ManualEndpointIsKept == Spec => []ManualIsUsers
<1>1. Inv => ManualIsUsers
  BY DEF Inv
<1> QED
  BY <1>1, Invariance, PTL

\* Once the monitor has been told of the path and no probe is out, the pill blames
\* the tunnel or the kill switch exactly while it has the path.
THEOREM PillIsOfThePath == Spec => []PillNamesThePath
<1>1. Inv => PillNamesThePath
  BY DEF Inv, PathInv, PillNamesThePath
<1> QED
  BY <1>1, Invariance, PTL

\* Whatever the hosts read, a selection made again over the same readings keeps what
\* it chose: launches and wakes do not flap between endpoints (pickAutoRpc).
THEOREM SelectionsSettle == Spec => []SelectionSettles
<1>1. Inv => SelectionSettles
  <2> SUFFICES ASSUME Inv, NEW current \in Rpcs, NEW listed \in Rpcs,
                      NEW e \in PickAuto(Pass(listed), current)
               PROVE  PickAuto(Pass(listed), e) = {}
    BY DEF SelectionSettles
  <2>1. IsPass(Pass(listed))
    BY PassOK DEF Inv, Parts, RestOK
  <2> QED
    BY <2>1, PickAutoSettles
<1> QED
  BY <1>1, Invariance, PTL
=============================================================================
