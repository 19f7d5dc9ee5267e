--------------------------- MODULE TunnelConfigs ---------------------------
(* From a node's handshake reply to a tunnel: the protocol builders that turn
   the reply into a saved configuration or into a refund, the pinning of the
   node's name to an IPv4 each time the configuration is used, the guards on
   both sides of the privileged call, the route around the tunnel, the address
   the kill switch lets through, and the DNS each tunnel ends up with.

   One session is followed from its purchase to its end; the resolver's memory
   outlives it, as it outlives every session of a run of the program.  All the
   lookups of one synchronous bring-up step meet the same network: either the
   resolver answers in that step or it does not.                            *)
EXTENDS Naturals, Sequences, SequencesExt, FiniteSets

CONSTANTS
  Hosts,          \* names nodes advertise themselves by
  IPs,            \* IPv4 addresses
  V6,             \* an IPv6 address a node may list
  None,
  Lists,          \* the address lists a reply may carry (sequences)
  Offers,         \* the inbounds a reply may carry
  KeyForms,       \* how a key in an AmneziaWG reply may be written
  MaxInbounds,    \* bound: inbounds in one reply
  MaxRecords,     \* bound: IPv4 records a name has at one time
  Resolver,       \* the resolver chosen in Settings, or "system"
  KillSwitch,     \* the setting
  SignedNodesOnly \* the setting

ASSUME ConfigAssumption ==
  /\ None \notin IPs \cup Hosts \cup {V6, "no address", "unresolved"} /\ V6 \notin IPs \cup Hosts
  /\ Hosts \cap IPs = {} /\ MaxRecords \in Nat \ {0} /\ MaxInbounds \in Nat
  /\ IsFiniteSet(IPs)
  /\ KillSwitch \in BOOLEAN /\ SignedNodesOnly \in BOOLEAN
ASSUME ReplyAssumption ==
  /\ Lists \subseteq Seq(IPs \cup Hosts \cup {V6})
  /\ Offers \subseteq [proxy : {"vless", "vmess", "other"}, net : {"tcp", "ws", "other"},
                       sec : {"none", "tls", "reality", "other"}, key : BOOLEAN]
  /\ KeyForms \subseteq {"padded", "unpadded", "short"}

VARIABLES
  dns,      \* the records each name has now
  cache,    \* lastResolvedIpByHost
  entry,    \* the entry hop of a chain being bought, once its proxy is up
  saved,    \* the session's stored configuration
  active,   \* the configuration on disk that the running core was started on
  phase,    \* how far the bring-up has come
  ladder,   \* the bring-up is an automatic retry
  route,    \* the address routed around tun2socks
  armed,    \* the address the kill switch lets through
  told,     \* why the last bring-up failed
  beenUp    \* this session has carried traffic in this run of the program
vars == <<dns, cache, entry, saved, active, phase, ladder, route, armed, told, beenUp>>

Child == {"v2ray", "xray", "hysteria2", "chain"}  \* a core behind tun2socks
WgLike == {"wireguard", "amneziawg"}
JsonCore == {"v2ray", "xray", "chain"}            \* the cores that read v2ray's JSON
Single == (Child \cup WgLike \cup {"openvpn"}) \ {"chain"}

(***************************** what a node offers **************************)
Listed == Lists \ {<<>>}   \* no builder goes on without an address
Replies == UNION {[1..n -> Offers] : n \in 0..MaxInbounds}
AwgOffers == [key : KeyForms, version : {"none", "2", "3", "other"}, hdr : KeyForms,
              pads : {"fit", "clash", "small"}, heads : {"zero", "distinct", "mixed"}]

FirstOr(seq, Test(_), else) ==
  LET hits == {i \in DOMAIN seq : Test(seq[i])}
  IN IF hits = {} THEN else ELSE seq[Min(hits)]

\* addrs.find(a => typeof a === 'string' && a.length > 0): lists hold no empty entry
FirstAddress(addrs) == IF addrs = <<>> THEN None ELSE addrs[1]

classifyV2RayInbound(m) ==
  IF m.proxy = "vless" /\ m.sec = "none" THEN "cleartext" ELSE "acceptable"
isAllCleartext(ms) == ms # <<>> /\ \A i \in DOMAIN ms : classifyV2RayInbound(ms[i]) = "cleartext"
\* The acceptable ones, in their order: the k-th has k - 1 of them before it.
filterV2RayMetadata(ms) ==
  LET kept == {i \in DOMAIN ms : classifyV2RayInbound(ms[i]) = "acceptable"}
      before(i) == {j \in kept : j < i}
  IN [k \in 1..Cardinality(kept) |-> ms[CHOOSE i \in kept : Cardinality(before(i)) = k - 1]]

\* Reality before TLS, and neither without the key or the pin it is checked by
Preferred(ms, Usable(_)) ==
  FirstOr(ms, LAMBDA m : Usable(m) /\ m.sec = "reality",
          FirstOr(ms, LAMBDA m : Usable(m) /\ m.sec = "tls", None))
isUsableXRay(m) == m.proxy = "vless" /\ m.net = "tcp" /\ m.key
selectXRayEntry_Trusting(ms) ==
  Preferred(ms, LAMBDA m : m.proxy = "vless" /\ m.net = "tcp" /\ (m.key \/ m.sec = "reality"))
selectXRayEntry(ms) == Preferred(ms, isUsableXRay)
isShapeUsable(role, m) ==
  /\ m.net \in (IF role = "exit" THEN {"tcp"} ELSE {"tcp", "ws"})
  /\ m.sec \in {"tls", "reality"}
selectHopEntry(ms, role) == Preferred(ms, LAMBDA m : isShapeUsable(role, m) /\ m.key)
\* What a chain can use of each reply.  Its policy also throws when every inbound of
\* the hop is cleartext, which leaves selectHopEntry nothing to select either.
requireEntry(ms, role) == IF isAllCleartext(ms) THEN None ELSE selectHopEntry(ms, role)
Hops(role) ==
  {[m |-> requireEntry(ms, role), addr |-> FirstAddress(a)] :
     ms \in {r \in Replies : requireEntry(r, role) # None}, a \in Listed}

(***************************** what is built *******************************)
\* An outbound: the inbound it dials, at an address, directly or through another, and
\* whether the V2Ray builder guessed the inbound's protocol or security.
Outbound(tag, m, addr, via) ==
  [tag |-> tag, addr |-> addr, via |-> via, proxy |-> m.proxy, net |-> m.net,
   sec |-> m.sec, key |-> m.key, guessed |-> FALSE]
Plain == [proxy |-> "-", net |-> "-", sec |-> "-", key |-> TRUE]
Config(p, outs, ins, rules) ==
  [proto |-> p, outs |-> outs, ins |-> ins, rules |-> rules, dns |-> "node",
   key |-> "padded", hdr |-> "padded"]
Rule(from, port53, to) == [from |-> from, port53 |-> port53, to |-> to]

\* Two words for the protocol and two for the security: whatever is neither VMess nor
\* TLS, Reality included, is written as VLess and as no security at all.
Spoken(m) == [m EXCEPT !.proxy = IF @ = "vmess" THEN "vmess" ELSE "vless",
                       !.sec = IF @ = "tls" THEN "tls" ELSE "none"]
buildV2RayConfig(ms, addr) ==
  Config("v2ray", [i \in DOMAIN ms |->
           [Outbound("node", Spoken(ms[i]), addr, FALSE) EXCEPT !.guessed = Spoken(ms[i]) # ms[i]]],
         {"api", "proxy"}, <<Rule({"api"}, FALSE, "api"), Rule({"proxy"}, FALSE, "balancer")>>)
buildXRayConfig(m, addr) == Config("xray", <<Outbound("node", m, addr, FALSE)>>, {"socks"}, <<>>)
buildHopOutbound(tag, hop, via) ==
  Outbound(tag, [hop.m EXCEPT !.proxy = IF @ = "vless" THEN "vless" ELSE "vmess"], hop.addr, via)
buildEntryOnlyConfig(en) == Config("chain", <<buildHopOutbound("entry-out", en, FALSE)>>, {"socks"}, <<>>)
buildMultihopConfig(en, ex) ==   \* the exit first: the default way out
  Config("chain", <<buildHopOutbound("exit-out", ex, TRUE), buildHopOutbound("entry-out", en, FALSE)>>,
         {"socks"}, <<>>)
EndpointConfig(p, addr, key, hdr) ==
  [proto |-> p, outs |-> <<Outbound("node", Plain, addr, FALSE)>>, ins |-> {}, rules |-> <<>>,
   dns |-> "node", key |-> key, hdr |-> hdr]
\* WireGuard's builder reads the peer's key as it comes.
buildWireguardConfig(key, addr) == EndpointConfig("wireguard", addr, key, "padded")
selectHysteria2Entry(ms) == FirstOr(ms, LAMBDA m : m.key, None)   \* the first with a pin
buildHysteria2Config(addr) == EndpointConfig("hysteria2", addr, "padded", "padded")
\* IPv4 first: OpenVPN's own remote is not pinned later.
buildOpenVpnConfig(addrs) ==
  EndpointConfig("openvpn", FirstOr(addrs, LAMBDA a : a \in IPs, addrs[1]), "padded", "padded")
\* Buffer.from accepts a key of 32 bytes with or without its padding.
AwgAccepted(o) ==
  /\ o.key # "short" /\ o.pads # "clash" /\ o.heads # "mixed" /\ o.version # "other"
  /\ o.version = "3" => o.hdr # "short" /\ o.pads # "small"
buildAmneziaWgConfig(o, addr) ==
  EndpointConfig("amneziawg", addr, o.key, IF o.version = "3" THEN o.hdr ELSE "padded")

\* The configurations each branch of performHandshake can save.
WireguardBuilt == {buildWireguardConfig(k, FirstAddress(a)) : k \in KeyForms, a \in Listed}
XRayBuilt ==
  {buildXRayConfig(selectXRayEntry(ms), FirstAddress(a)) :
     ms \in {r \in Replies : selectXRayEntry(r) # None}, a \in Listed}
Hysteria2Built ==
  {buildHysteria2Config(FirstAddress(a)) : a \in IF \E r \in Replies : selectHysteria2Entry(r) # None
                                                 THEN Listed ELSE {}}
AmneziaWgBuilt ==
  {buildAmneziaWgConfig(o, FirstAddress(a)) : o \in {f \in AwgOffers : AwgAccepted(f)}, a \in Listed}
OpenVpnBuilt == {buildOpenVpnConfig(a) : a \in Listed}
V2RayBuilt ==
  {buildV2RayConfig(filterV2RayMetadata(ms), FirstAddress(a)) :
     ms \in {r \in Replies : r # <<>> /\ ~isAllCleartext(r)}, a \in Listed}
Built == [p \in Single |->
  CASE p = "wireguard" -> WireguardBuilt [] p = "xray" -> XRayBuilt
    [] p = "hysteria2" -> Hysteria2Built [] p = "amneziawg" -> AmneziaWgBuilt
    [] p = "openvpn" -> OpenVpnBuilt [] p = "v2ray" -> V2RayBuilt]

\* checkReplySignature, and the setting: may the reply be used at all?
Trusted(signer) == signer \in {"node", "hotKey"} \cup (IF SignedNodesOnly THEN {} ELSE {"unsigned"})
Signers == {"node", "hotKey", "unsigned", "invalid"}
\* No answer in time, an answer of the wrong status or size, a reply nothing can be
\* built from: the handshake throws.
NoReply == None

(***************************** names and addresses *************************)
RecordSets == {S \in SUBSET IPs : S # {} /\ Cardinality(S) <= MaxRecords}
Direct(c) == {o \in Range(c.outs) : ~o.via}
\* A core that still holds a name looks it up through the tunnel it is to carry.
Carries ==
  /\ phase \in {"routed", "up"}
  /\ active.proto \in Child => \A o \in Direct(active) : o.addr \notin Hosts
\* Can the resolver be reached?  Only through a tunnel that carries, while one is up
\* or the kill switch is armed.
Reachable == Carries \/ (phase \notin {"routed", "up"} /\ armed = None)

\* resolveHostToIPv4: a live answer, or the last one known when there is none
Answers_NoMemory(host, live) == IF live THEN dns[host] ELSE {None}
Answers(host, live) == IF live THEN dns[host] ELSE {cache[host]}

\* Pinning asks once for every outbound that still holds a name.
Pins(outs, live) ==
  {f \in [DOMAIN outs -> IPs \cup {None}] : \A i \in DOMAIN outs :
     f[i] \in (IF outs[i].addr \in Hosts THEN Answers(outs[i].addr, live) ELSE {None})}
Pinned(outs, f) ==
  [i \in DOMAIN outs |-> IF f[i] = None THEN outs[i] ELSE [outs[i] EXCEPT !.addr = f[i]]]
\* what the memory holds after those lookups: the answer of the last one of each name
Learnt(outs, f, live) ==
  [h \in Hosts |->
     LET asked == {i \in DOMAIN outs : outs[i].addr = h}
     IN IF live /\ asked # {} THEN f[Max(asked)] ELSE cache[h]]

\* extractV2RayRemoteHost: the first outbound dialled directly, else any
extractV2RayRemoteHost_First(c) == c.outs[1].addr
extractV2RayRemoteHost(c) == FirstOr(c.outs, LAMBDA o : ~o.via, c.outs[1]).addr

(***************************** DNS over HTTPS ******************************)
effectiveV2RayResolverIp ==
  IF Resolver # "system" THEN Resolver ELSE IF KillSwitch THEN "1.1.1.1" ELSE None
UserInbounds_Proxy(c) == {"proxy"}
UserInbounds(c) == IF c.ins \ {"api"} = {} THEN {"proxy"} ELSE c.ins \ {"api"}
Balanced(c) ==
  \E i \in DOMAIN c.rules : c.rules[i].from \cap UserInbounds(c) # {} /\ c.rules[i].to = "balancer"
\* The two rules go in front: the first one that matches decides.
withV2RayDoH(c) ==
  [c EXCEPT !.rules =
     <<Rule(UserInbounds(c), TRUE, "dns-out"),
       Rule({"dns-module"}, FALSE, IF Balanced(c) THEN "balancer" ELSE c.outs[1].tag)>> \o c.rules,
   !.dns = "doh"]
Routed(c, from, port53) ==
  FirstOr(c.rules, LAMBDA r : from \in r.from /\ (r.port53 => port53),
          Rule({}, FALSE, c.outs[1].tag)).to

(***************************** the guards **********************************)
assertSafeWireguardConfig(c) == Len(c.outs) = 1       \* of a key, only the alphabet
assertSafeV2RayConfig(c) == c.outs # <<>>
assertSafeHysteria2Config(c) == c.outs[1].addr # V6 /\ c.outs[1].key
assertSafeAmneziaWgConfig(c) == c.hdr # "short"
\* one remote: a second one, to fail over to, the kill switch would not let through
assertSafeOpenVpnConfig(c) == Len(c.outs) = 1
AppAccepts(c) ==
  /\ c.proto \in JsonCore => assertSafeV2RayConfig(c)
  /\ c.proto = "hysteria2" => assertSafeHysteria2Config(c)
  /\ c.proto = "amneziawg" => assertSafeAmneziaWgConfig(c)
  /\ c.proto = "openvpn" => assertSafeOpenVpnConfig(c)
  /\ c.proto = "wireguard" => assertSafeWireguardConfig(c)
\* The helper's guards; the header key is decoded strictly, padding and all.
AssertAmneziaWgConfig(c) == c.hdr = "padded"
AssertOpenVpnConfig(c) == Len(c.outs) = 1
HelperAccepts(c) ==
  /\ c.proto = "amneziawg" => AssertAmneziaWgConfig(c)
  /\ c.proto = "openvpn" => AssertOpenVpnConfig(c)
\* What becomes of an accepted one's keys: the AmneziaWG device reads them as strictly,
\* and so does the kernel's WireGuard.
ToUAPI(c) == c.key = "padded" /\ c.hdr = "padded"
DeviceAccepts(c) == c.proto \in WgLike => ToUAPI(c)

(***************************** buying **************************************)
Init ==
  /\ dns \in [Hosts -> RecordSets] /\ cache = [h \in Hosts |-> None]
  /\ entry = None /\ saved = None /\ active = None /\ phase = "idle" /\ ladder = FALSE
  /\ route = None /\ armed = None /\ told = None /\ beenUp = FALSE

\* The chain and the node must be reachable, and nothing be connected.
Free == phase = "idle" /\ armed = None

\* performHandshake of a session just paid for: saved, or thrown and refunded.
Handshake(p, signer) ==
  /\ Free /\ saved = None /\ entry = None
  /\ saved' \in (IF Trusted(signer) THEN Built[p] ELSE {}) \cup {NoReply}
  /\ told' = IF saved' = None THEN "refunded" ELSE None
  /\ UNCHANGED <<dns, cache, entry, active, phase, ladder, route, armed, beenUp>>

\* A manual reconnect asks the node for a fresh peer and falls back to what is saved.
Renew(signer) ==
  /\ Free /\ saved # None /\ saved.proto # "chain" /\ Trusted(signer)
  /\ saved' \in Built[saved.proto]
  /\ beenUp' = FALSE /\ told' = None
  /\ UNCHANGED <<dns, cache, entry, active, phase, ladder, route, armed>>

\* A chain: the entry is handshaked, and a core to it alone is started, for which
\* its name is looked up like any other core's.
HandshakeEntry(signer, live) ==
  /\ Free /\ saved = None /\ entry = None /\ Trusted(signer)
  /\ \E en \in Hops("entry") :
       LET outs == buildEntryOnlyConfig(en).outs
       IN \E f \in Pins(outs, live) : entry' = en /\ cache' = Learnt(outs, f, live)
  /\ UNCHANGED <<dns, saved, active, phase, ladder, route, armed, told, beenUp>>

\* one of the name's addresses, or the name as it is
resolveExitHostPrivately(addr) == {addr} \cup (IF addr \in Hosts THEN dns[addr] ELSE {})

\* The exit is handshaked through that core, its name is resolved over HTTPS, or
\* left as it is, and the chain is saved; or both sessions are refunded.
FinalizeChain(signer) ==
  /\ Free /\ entry # None
  /\ \/ /\ Trusted(signer)
        /\ \E ex \in Hops("exit") : \E a \in resolveExitHostPrivately(ex.addr) :
             saved' = buildMultihopConfig(entry, [ex EXCEPT !.addr = a])
        /\ told' = None
     \/ saved' = None /\ told' = "refunded"
  /\ entry' = None
  /\ UNCHANGED <<dns, cache, active, phase, ladder, route, armed, beenUp>>

EndSession ==
  /\ phase = "idle" /\ saved # None
  /\ saved' = None /\ active' = None /\ told' = None /\ beenUp' = FALSE
  /\ UNCHANGED <<dns, cache, entry, phase, ladder, route, armed>>

(***************************** bringing up *********************************)
Failed(reason) ==
  /\ phase' = (IF ladder' THEN "dropped" ELSE "idle") /\ route' = None /\ active' = None
  /\ told' = reason

\* The resolver a WireGuard-family tunnel is given: the user's on a connect, but a
\* retry replays what was saved; none when the last attempt failed for want of
\* resolvconf and the user asked to go without.
TunnelDns(retry, fallback) ==
  IF retry THEN "node" ELSE IF fallback THEN "none"
  ELSE IF Resolver # "system" THEN "chosen" ELSE "node"

\* A connect, or a retry of the ladder.
Begins(retry) ==
  /\ saved # None /\ entry = None
  /\ phase = (IF retry THEN "dropped" ELSE "idle") /\ ladder' = retry
  /\ UNCHANGED <<dns, entry, saved, armed, beenUp>>
PinnedBy(f) == [saved EXCEPT !.outs = Pinned(saved.outs, f)]
Started(at, config) == phase' = at /\ active' = config /\ told' = None /\ route' = None

\* WireGuard and AmneziaWG: pin, guard, write, bring up; up when the helper returns.
ConnectWgLike(retry, fallback, live) ==
  /\ Begins(retry) /\ saved.proto \in WgLike /\ (live => Reachable)
  /\ fallback => ~retry /\ told = "dns"
  /\ \E f \in Pins(saved.outs, live) :
       LET config == [PinnedBy(f) EXCEPT !.dns = TunnelDns(retry, fallback)]
       IN /\ cache' = Learnt(saved.outs, f, live)
          /\ IF ~(AppAccepts(config) /\ HelperAccepts(config) /\ DeviceAccepts(config))
             THEN Failed("refused")
             ELSE IF config.outs[1].addr \in Hosts /\ ~live THEN Failed("unresolved")
             ELSE Started("routed", config) \/ (config.dns # "none" /\ Failed("dns"))

\* OpenVPN: not pinned; it resolves a name of its own before it takes the routes.
ConnectOpenVpn(retry, live) ==
  /\ Begins(retry) /\ saved.proto = "openvpn" /\ (live => Reachable)
  /\ IF ~(AppAccepts(saved) /\ HelperAccepts(saved)) THEN Failed("refused")
     ELSE IF saved.outs[1].addr \in Hosts /\ ~live THEN Failed("unresolved")
     ELSE Started("routed", saved)
  /\ UNCHANGED cache

\* A core behind tun2socks: pin, guard, then DNS over HTTPS for those that take it.
ConnectCore(retry, live) ==
  /\ Begins(retry) /\ saved.proto \in Child /\ (live => Reachable)
  /\ \E f \in Pins(saved.outs, live) :
       LET pinned == PinnedBy(f)
           doh == saved.proto \in JsonCore /\ effectiveV2RayResolverIp # None
       IN /\ cache' = Learnt(saved.outs, f, live)
          /\ IF AppAccepts(pinned) THEN Started("spawned", IF doh THEN withV2RayDoH(pinned) ELSE pinned)
             ELSE Failed("refused")

\* bringUpTun: the route around the tunnel needs an IPv4, looked up again when
\* pinning left a name.
BringUpTun(live) ==
  /\ phase = "spawned"
  /\ live => Reachable
  /\ LET host == extractV2RayRemoteHost(active)
         one == <<Outbound("node", Plain, host, FALSE)>>
     IN \E f \in Pins(one, live) :
          /\ cache' = Learnt(one, f, live)
          /\ IF Pinned(one, f)[1].addr \notin IPs
             THEN ladder' = ladder /\ Failed("no address")
             ELSE /\ phase' = "routed" /\ route' = Pinned(one, f)[1].addr
                  /\ UNCHANGED <<active, told, ladder>>
  /\ UNCHANGED <<dns, entry, saved, armed, beenUp>>

\* The core dies at once, the helper fails, or its prompt is dismissed.
BringUpFails ==
  /\ phase = "spawned" /\ ladder' = ladder /\ Failed("failed")
  /\ UNCHANGED <<dns, cache, entry, saved, armed, beenUp>>

\* What armKillSwitch names: an IPv4 out of the running configuration, or nothing.
extractWireguardEndpointHost(c) == c.outs[1].addr
extractOpenVpnRemoteHost(c) == c.outs[1].addr
RemoteHost ==
  LET host == IF active.proto \in WgLike THEN extractWireguardEndpointHost(active)
              ELSE IF active.proto = "openvpn" THEN extractOpenVpnRemoteHost(active)
              ELSE extractV2RayRemoteHost(active)
  IN IF host \in IPs THEN host ELSE None
armKillSwitch == armed' = IF RemoteHost = None THEN armed ELSE RemoteHost

\* applyPostConnectSettings, and the probe that ends a bring-up: a tunnel that does
\* not carry is taken down, and the kill switch with it.
PostConnect ==
  /\ phase = "routed" /\ Carries
  /\ phase' = "up" /\ beenUp' = TRUE /\ ladder' = FALSE
  /\ IF KillSwitch THEN armKillSwitch ELSE UNCHANGED armed
  /\ UNCHANGED <<dns, cache, entry, saved, active, route, told>>
ProbeFails ==
  /\ phase = "routed" /\ ladder' = ladder /\ Failed("no traffic") /\ armed' = None
  /\ UNCHANGED <<dns, cache, entry, saved, beenUp>>

(***************************** what happens to it **************************)
Drop == \* the core dies or the interface goes; the chain stays as it is
  /\ phase = "up" /\ phase' = "dropped" /\ route' = None /\ active' = None
  /\ UNCHANGED <<dns, cache, entry, saved, ladder, armed, told, beenUp>>
Disconnect == \* by the user, or by a ladder that gives up
  /\ phase # "idle" /\ phase' = "idle" /\ ladder' = FALSE
  /\ route' = None /\ armed' = None /\ active' = None /\ told' = None
  /\ UNCHANGED <<dns, cache, entry, saved, beenUp>>
StandDown == \* the quota is spent: with the kill switch set, the chain stays
  /\ phase \in {"up", "dropped"} /\ phase' = "idle" /\ ladder' = FALSE
  /\ route' = None /\ active' = None /\ told' = None
  /\ armed' = IF KillSwitch THEN armed ELSE None
  /\ UNCHANGED <<dns, cache, entry, saved, beenUp>>
Crash == \* the program's memory goes, the chain and the saved file stay
  /\ cache' = [h \in Hosts |-> None] /\ entry' = None /\ phase' = "idle" /\ ladder' = FALSE
  /\ route' = None /\ active' = None /\ told' = None /\ beenUp' = FALSE
  /\ UNCHANGED <<dns, saved, armed>>
Heal == \* the next launch clears a chain it finds stranded
  /\ phase = "idle" /\ armed # None /\ armed' = None
  /\ UNCHANGED <<dns, cache, entry, saved, active, phase, ladder, route, told, beenUp>>
NodeMoves(h) ==
  /\ dns' \in {[dns EXCEPT ![h] = S] : S \in RecordSets \ {dns[h]}}
  /\ UNCHANGED <<cache, entry, saved, active, phase, ladder, route, armed, told, beenUp>>

Next ==
  \/ \E p \in Single, signer \in Signers : Handshake(p, signer)
  \/ \E signer \in Signers : Renew(signer) \/ FinalizeChain(signer)
  \/ \E signer \in Signers, live \in BOOLEAN : HandshakeEntry(signer, live)
  \/ EndSession
  \/ \E retry, live \in BOOLEAN :
       \/ \E fallback \in BOOLEAN : ConnectWgLike(retry, fallback, live)
       \/ ConnectOpenVpn(retry, live) \/ ConnectCore(retry, live)
  \/ \E live \in BOOLEAN : BringUpTun(live)
  \/ BringUpFails \/ PostConnect \/ ProbeFails
  \/ Drop \/ Disconnect \/ StandDown \/ Crash \/ Heal
  \/ \E h \in Hosts : NodeMoves(h)
Spec == Init /\ [][Next]_vars

(***************************** properties **********************************)
\* Once up, the one address the kill switch lets through, and the one routed around
\* the tunnel, is the address of every outbound the core dials itself: a second
\* address would be dialled into the closed chain.
WhitelistIsDialled ==
  phase = "up" => \A o \in Direct(active) :
    o.addr \in IPs => armed \in {None, o.addr} /\ route \in {None, o.addr}

\* The lookups a bring-up makes of the node's name, for the configuration and for
\* the route around the tunnel, never disagree.
LookupsAgree ==
  phase \in {"routed", "up"} /\ active.proto \in Child =>
    \A o \in Direct(active) : o.addr \in IPs => o.addr = route

\* A session that has carried traffic in this run of the program is never again
\* refused for want of an address, although its retries run behind a closed chain;
\* OpenVPN, which is left to look its remote up itself, aside.
ReconnectNeedsNoDns ==
  beenUp => /\ told # "no address"
            /\ told = "unresolved" => saved.proto = "openvpn"

\* The two that the builders let through and something later turns away: an AmneziaWG
\* or WireGuard key written without its padding, and Hysteria2 over IPv6.
Unforeseen(c) ==
  "unpadded" \in {c.key, c.hdr} \/ (c.proto = "hysteria2" /\ c.outs[1].addr = V6)

\* What is paid for and kept can be started: an outbound is cleartext only where the
\* V2Ray builder guessed (classifyV2RayInbound drops the known-bad inbounds and lets
\* the odd ones pass), each of an Xray core is TLS or Reality with the pin or the key
\* it is checked by, the exit of a chain is plain TCP, and neither the application's
\* guard, the helper's, nor the AmneziaWG device turns it away, the two unforeseen
\* forms aside.
PaidConfigsStart ==
  saved # None =>
    /\ ~Unforeseen(saved) =>
         /\ AppAccepts(saved) /\ HelperAccepts(saved)
         /\ saved.proto = "amneziawg" => DeviceAccepts(saved)
    /\ \A o \in Range(saved.outs) :
         /\ o.proxy = "vless" /\ o.sec = "none" => o.guessed
         /\ saved.proto \in {"xray", "chain"} => o.key /\ o.sec \in {"tls", "reality"}
         /\ o.via => o.net = "tcp"

\* No V2Ray node is connected to in cleartext ("a node that offers any acceptable
\* inbound is never connected over a VLess-none one", config-guard.ts:826): not so for
\* an inbound of a security the client does not know.
V2RayIsEncrypted ==
  saved # None => \A o \in Range(saved.outs) : ~(o.proxy = "vless" /\ o.sec = "none")

\* In a core with DNS over HTTPS the user's lookups reach the DNS module, its own
\* requests leave by the node (by the exit, in a chain), and nothing else of the
\* core's routing moves.
DnsThroughTheNode ==
  active # None /\ active.proto \in JsonCore /\ active.dns = "doh" =>
    /\ \A t \in active.ins \ {"api"} : Routed(active, t, TRUE) = "dns-out"
    /\ Routed(active, "dns-module", FALSE) \in {"balancer", active.outs[1].tag}
    /\ \A t \in active.ins : Routed(active, t, FALSE) = Routed(saved, t, FALSE)
    /\ "api" \in active.ins => Routed(active, "api", TRUE) = "api"

\* A user who named a resolver is given that one and nothing else.
ChosenResolverOnly ==
  Resolver # "system" /\ phase = "up" /\ active.proto \in WgLike => active.dns # "node"
=============================================================================
