------------------------ MODULE TunnelConfigs_proofs ------------------------
(***************************************************************************)
(* Proofs about TunnelConfigs, for any names and addresses, any lists,       *)
(* inbounds and keys a reply may carry, and any settings: what is kept after *)
(* a purchase can be started, a session that has been up is never refused    *)
(* for want of an address, DNS over HTTPS leaves by the node, and, as long    *)
(* as a name has one record at a time, the address let through is the one    *)
(* that is dialled.                                                           *)
(*                                                                           *)
(* Stored is what the builders guarantee of a configuration, whichever reply *)
(* it was built from.  Runs relates the configuration a core was started on  *)
(* to the stored one: pinning may have turned names into addresses, and the  *)
(* resolver's memory then knows those names.  That memory is what a retry    *)
(* behind a closed chain lives on (AddressInv).                               *)
(***************************************************************************)
EXTENDS TunnelConfigs, FiniteSetTheorems, SequenceTheorems, TLAPS

Protocols == Single \cup {"chain"}
Addrs == IPs \cup Hosts \cup {V6}
Nets == {"tcp", "ws", "other"}
Secs == {"none", "tls", "reality"}
Outs == [tag : {"node", "entry-out", "exit-out"}, addr : Addrs, via : BOOLEAN,
         proxy : {"vless", "vmess", "-"}, net : Nets \cup {"-"}, sec : Secs \cup {"-"},
         key : BOOLEAN, guessed : BOOLEAN]

Inbounds == {"api", "proxy", "socks"}
Rules == [from : SUBSET (Inbounds \cup {"dns-module"}), port53 : BOOLEAN,
          to : {"api", "balancer", "dns-out", "node", "entry-out", "exit-out"}]
Keys == {"padded", "unpadded", "short"}
Configs == [proto : Protocols, outs : Seq(Outs), ins : SUBSET Inbounds, rules : Seq(Rules),
            dns : {"node", "chosen", "none", "doh"}, key : Keys, hdr : Keys]

(* What PaidConfigsStart asks of a stored configuration. *)
Startable(c) ==
  /\ ~Unforeseen(c) => /\ AppAccepts(c) /\ HelperAccepts(c)
                       /\ c.proto = "amneziawg" => DeviceAccepts(c)
  /\ \A o \in Range(c.outs) :
       /\ o.proxy = "vless" /\ o.sec = "none" => o.guessed
       /\ c.proto \in {"xray", "chain"} => o.key /\ o.sec \in {"tls", "reality"}
       /\ o.via => o.net = "tcp"

(* The routing a configuration is stored with: V2Ray's, that of the cores with a socks
   inbound, or none. *)
Routing(c) ==
  \/ /\ c.ins = {"api", "proxy"}
     /\ c.rules = <<Rule({"api"}, FALSE, "api"), Rule({"proxy"}, FALSE, "balancer")>>
  \/ c.ins = {"socks"} /\ c.rules = <<>>
  \/ c.ins = {} /\ c.rules = <<>> /\ c.proto \notin JsonCore

(* Everything the host dials itself is at one address. *)
OneAddress(c) == Direct(c) # {} /\ \A o, q \in Direct(c) : o.addr = q.addr

(* Of the outbounds, only V2Ray's may have several the host dials itself. *)
OneDirect(outs) == \A i, j \in DOMAIN outs : ~outs[i].via /\ ~outs[j].via => i = j

Stored(c) ==
  /\ c \in Configs /\ c.dns = "node"
  /\ OneAddress(c) /\ Routing(c) /\ Startable(c)
  /\ c.proto \notin JsonCore => DOMAIN c.outs = {1} /\ ~c.outs[1].via
  /\ c.proto # "v2ray" => OneDirect(c.outs)

(* Outbounds a JSON core can be started on, and the two routings of those cores. *)
Dialable(p, outs) ==
  /\ \E i \in DOMAIN outs : ~outs[i].via
  /\ \A i, j \in DOMAIN outs : ~outs[i].via /\ ~outs[j].via => outs[i].addr = outs[j].addr
  /\ \A i \in DOMAIN outs :
       /\ outs[i].proxy = "vless" /\ outs[i].sec = "none" => outs[i].guessed
       /\ p # "v2ray" => outs[i].key /\ outs[i].sec \in {"tls", "reality"}
       /\ outs[i].via => outs[i].net = "tcp"
  /\ p # "v2ray" => OneDirect(outs)
SocksRouting(ins, rules) == ins = {"socks"} /\ rules = <<>>
ProxyRouting(ins, rules) ==
  /\ ins = {"api", "proxy"}
  /\ rules = <<Rule({"api"}, FALSE, "api"), Rule({"proxy"}, FALSE, "balancer")>>

(* A hop of a chain, as its reply is accepted. *)
HopInbound(role, m) ==
  /\ m = [proxy |-> m.proxy, net |-> m.net, sec |-> m.sec, key |-> TRUE]
  /\ m.net \in Nets /\ m.sec \in {"tls", "reality"}
  /\ role = "exit" => m.net = "tcp"
Hop(role, h) == HopInbound(role, h.m) /\ h.addr \in Addrs

(* What a running configuration c keeps of the stored one s: everything but the names,
   which may have become addresses; the resolver's memory then knows those names. *)
Runs(c, s, memory) ==
  /\ c.proto = s.proto /\ c.ins = s.ins
  /\ c.outs \in Seq(Outs) /\ DOMAIN c.outs = DOMAIN s.outs
  /\ \A i \in DOMAIN s.outs :
       /\ c.outs[i].tag = s.outs[i].tag /\ c.outs[i].via = s.outs[i].via
       /\ \/ c.outs[i].addr = s.outs[i].addr
          \/ /\ s.outs[i].addr \in Hosts /\ memory[s.outs[i].addr] # None
             /\ c.outs[i].addr \in IPs
  /\ c.dns = "doh" => c.rules = withV2RayDoH(s).rules

Pinnable(c) == (\A o \in Direct(c) : o.addr \in IPs) \/ OneAddress(c)

StoredInv ==
  /\ dns \in [Hosts -> RecordSets] /\ cache \in [Hosts -> IPs \cup {None}]
  /\ entry # None => Hop("entry", entry) /\ saved = None
  /\ saved # None => Stored(saved)

RunsInv ==
  /\ phase \notin {"spawned", "routed", "up"} => active = None
  /\ phase \in {"spawned", "routed", "up"} =>
       /\ saved # None /\ told = None
       /\ Runs(active, saved, cache) /\ Pinnable(active)
       /\ MaxRecords = 1 \/ active.proto # "v2ray" => OneAddress(active)

(* A session that has been up left the addresses of its names in the memory. *)
Remembered(s, memory) ==
  s.proto # "openvpn" =>
    \A o \in Direct(s) : /\ o.addr \in Hosts => memory[o.addr] # None
                         /\ s.proto \in Child => o.addr # V6
AddressInv ==
  /\ phase = "spawned" => active.proto \in Child
  /\ phase \in {"routed", "up"} =>
       \A o \in Direct(active) : /\ active.proto \in Child => o.addr # V6
                                 /\ active.proto \in WgLike => o.addr \notin Hosts
  /\ beenUp => saved # None /\ Remembered(saved, cache)
  /\ beenUp /\ phase = "spawned" => \A o \in Direct(active) : o.addr \in IPs

DialledInv ==
  /\ phase \notin {"routed", "up"} => route = None
  /\ phase \in {"routed", "up"} /\ OneAddress(active) =>
       \A o \in Direct(active) : o.addr \in IPs => route \in {None, o.addr}
  /\ phase = "up" /\ OneAddress(active) =>
       \A o \in Direct(active) : o.addr \in IPs => armed \in {None, o.addr}
  /\ ~KillSwitch => armed = None

Inv == StoredInv /\ RunsInv /\ AddressInv /\ ReconnectNeedsNoDns

----------------------------------------------------------------------------
(* Sets of naturals, and what selections return. *)

(* Least and greatest of a set of naturals, and the k-th of a finite one. *)
LEMMA LeastOf ==
  ASSUME NEW S \in SUBSET Nat, S # {}
  PROVE  \E x \in S : \A y \in S : x <= y
<1>1. PICK R : /\ IsWellFoundedOn(R, Nat)
               /\ \A x, y \in Nat : x < y => <<x, y>> \in R
  <2>1. \A x, y \in Nat : x < y => <<x, y>> \in OpToRel(<, Nat)
    BY DEF OpToRel
  <2> QED
    BY <2>1, NatLessThanWellFounded, Zenon
<1>2. PICK x \in S : \A y \in S : ~(<<y, x>> \in R)
  <2>1. S \subseteq Nat /\ IsWellFoundedOn(R, Nat)
    BY <1>1
  <2> QED
    BY <2>1, WFMin
<1>3. ASSUME NEW y \in S PROVE x <= y
  <2>1. x \in Nat /\ y \in Nat /\ ~(y < x)
    BY <1>1, <1>2
  <2> QED
    BY <2>1
<1> QED
  BY <1>3

LEMMA MinIn ==
  ASSUME NEW S \in SUBSET Nat, S # {}
  PROVE  Min(S) \in S /\ \A y \in S : Min(S) <= y
BY LeastOf DEF Min

LEMMA MaxIn ==
  ASSUME NEW n \in Nat, NEW S \in SUBSET (1..n), S # {}
  PROVE  Max(S) \in S
<1> DEFINE D == {n - x : x \in S}
<1>1. D \in SUBSET Nat /\ D # {}
  <2>1. \A x \in S : n - x \in Nat
    OBVIOUS
  <2> QED
    BY <2>1
<1>2. PICK d \in D : \A e \in D : d <= e
  BY <1>1, LeastOf
<1>3. PICK x \in S : d = n - x
  OBVIOUS
<1>4. \A y \in S : x >= y
  <2> TAKE y \in S
  <2>1. n - y \in D
    OBVIOUS
  <2> QED
    BY <1>2, <1>3, <2>1
<1> QED
  BY <1>4 DEF Max

LEMMA SubsetOfInterval ==
  ASSUME NEW n \in Nat, NEW S \in SUBSET (1..n)
  PROVE  IsFiniteSet(S) /\ Cardinality(S) \in Nat
<1>1. IsFiniteSet(1..n)
  <2>1. 1 \in Int /\ n \in Int
    OBVIOUS
  <2> QED
    BY <2>1, FS_Interval
<1>2. IsFiniteSet(S)
  BY <1>1, FS_Subset
<1> QED
  BY <1>2, FS_CardinalityType

LEMMA NthOf ==
  ASSUME NEW n \in Nat, NEW S \in SUBSET (1..n), NEW k \in 1..Cardinality(S)
  PROVE  \E i \in S : Cardinality({j \in S : j < i}) = k - 1
<1> DEFINE Nth(T, q) == \E i \in T : Cardinality({j \in T : j < i}) = q - 1
           Bad == {m \in Nat : \E T \in SUBSET (1..m) : \E q \in 1..Cardinality(T) : ~Nth(T, q)}
<1>1. ASSUME Bad # {} PROVE FALSE
  <2>1. Bad \in SUBSET Nat
    OBVIOUS
  <2>2. PICK m \in Bad : \A x \in Bad : m <= x
    BY <1>1, <2>1, LeastOf
  <2>3. PICK T \in SUBSET (1..m) : \E q \in 1..Cardinality(T) : ~Nth(T, q)
    BY <2>2
  <2>4. PICK q \in 1..Cardinality(T) : ~Nth(T, q)
    BY <2>3
  <2>5. m \in Nat /\ IsFiniteSet(T) /\ Cardinality(T) \in Nat
    BY SubsetOfInterval
  <2>6. m # 0
    <3>1. m = 0 => T = {}
      BY <2>5
    <3>2. T = {} => Cardinality(T) = 0
      BY FS_EmptySet
    <3> QED
      BY <2>5, <3>1, <3>2
  <2>7. m - 1 \notin Bad /\ m - 1 \in Nat
    <3>1. m - 1 \in Nat /\ ~(m <= m - 1)
      BY <2>5, <2>6
    <3> QED
      BY <2>2, <3>1, Zenon
  <2>8. T \ {m} \in SUBSET (1..(m - 1))
    BY <2>5
  <2>9. \A r \in 1..Cardinality(T \ {m}) : Nth(T \ {m}, r)
    BY <2>7, <2>8
  <2>10. m \in T
    <3>1. m \notin T => T \ {m} = T
      OBVIOUS
    <3> QED
      BY <2>4, <2>9, <3>1
  <2>11. Cardinality(T \ {m}) = Cardinality(T) - 1
    BY <2>5, <2>10, FS_RemoveElement
  <2>12. CASE q = Cardinality(T)
    <3>1. {j \in T : j < m} = T \ {m}
      <4>1. \A j \in T : j < m <=> j # m
        BY <2>5
      <4> QED
        BY <4>1
    <3> QED
      BY <2>4, <2>10, <2>11, <2>12, <3>1
  <2>13. CASE q # Cardinality(T)
    <3>1. q \in 1..Cardinality(T \ {m})
      BY <2>5, <2>11, <2>13
    <3>2. PICK i \in T \ {m} : Cardinality({j \in T \ {m} : j < i}) = q - 1
      BY <2>9, <3>1
    <3>3. {j \in T \ {m} : j < i} = {j \in T : j < i}
      BY <2>5, <2>8
    <3> QED
      BY <2>4, <3>2, <3>3
  <2> QED
    BY <2>12, <2>13
<1>2. n \notin Bad
  BY <1>1
<1> QED
  BY <1>2

(* The filtered inbounds are the acceptable ones, and there are some unless all are
   cleartext. *)
LEMMA FilterKeeps ==
  ASSUME NEW ms \in Seq(Offers)
  PROVE  /\ filterV2RayMetadata(ms) \in Seq(Offers)
         /\ \A k \in DOMAIN filterV2RayMetadata(ms) : \E i \in DOMAIN ms :
               /\ filterV2RayMetadata(ms)[k] = ms[i]
               /\ classifyV2RayInbound(ms[i]) = "acceptable"
         /\ ms # <<>> /\ ~isAllCleartext(ms) => 1 \in DOMAIN filterV2RayMetadata(ms)
<1> DEFINE kept == {i \in DOMAIN ms : classifyV2RayInbound(ms[i]) = "acceptable"}
           At(k) == CHOOSE i \in kept : Cardinality({j \in kept : j < i}) = k - 1
<1>1. filterV2RayMetadata(ms) = [k \in 1..Cardinality(kept) |-> ms[At(k)]]
  BY DEF filterV2RayMetadata
<1>2. Len(ms) \in Nat /\ DOMAIN ms = 1..Len(ms) /\ kept \in SUBSET (1..Len(ms))
  OBVIOUS
<1>3. IsFiniteSet(kept) /\ Cardinality(kept) \in Nat
  BY <1>2, SubsetOfInterval
<1>4. \A k \in 1..Cardinality(kept) : At(k) \in kept
  BY <1>2, NthOf
<1>5. ms # <<>> /\ ~isAllCleartext(ms) => kept # {}
  BY <1>2 DEF isAllCleartext, classifyV2RayInbound
<1>6. kept # {} => Cardinality(kept) # 0
  BY <1>3, FS_EmptySet
<1> HIDE DEF kept, At
<1>7. filterV2RayMetadata(ms) \in Seq(Offers)
  <2>1. \A k \in 1..Cardinality(kept) : ms[At(k)] \in Offers
    BY <1>2, <1>4 DEF kept
  <2> QED
    BY <1>1, <1>3, <2>1
<1>8. \A k \in DOMAIN filterV2RayMetadata(ms) : \E i \in DOMAIN ms :
               /\ filterV2RayMetadata(ms)[k] = ms[i]
               /\ classifyV2RayInbound(ms[i]) = "acceptable"
  BY <1>1, <1>4 DEF kept
<1> QED
  BY <1>1, <1>3, <1>5, <1>6, <1>7, <1>8

(* What a selection returns is an inbound of the reply, and a usable one. *)
LEMMA XRaySelects ==
  ASSUME NEW ms \in Seq(Offers), selectXRayEntry(ms) # None
  PROVE  \E i \in DOMAIN ms : /\ selectXRayEntry(ms) = ms[i] /\ isUsableXRay(ms[i])
                              /\ ms[i].sec \in {"reality", "tls"}
<1> DEFINE hits(sec) == {i \in DOMAIN ms : isUsableXRay(ms[i]) /\ ms[i].sec = sec}
<1>1. selectXRayEntry(ms) = IF hits("reality") = {} THEN IF hits("tls") = {} THEN None
                                                         ELSE ms[Min(hits("tls"))]
                            ELSE ms[Min(hits("reality"))]
  BY DEF selectXRayEntry, Preferred, FirstOr
<1>2. \A sec : hits(sec) # {} => Min(hits(sec)) \in hits(sec)
  <2> TAKE sec
  <2>1. hits(sec) \in SUBSET Nat
    OBVIOUS
  <2> QED
    BY <2>1, MinIn
<1> QED
  BY <1>1, <1>2

LEMMA HopSelects ==
  ASSUME NEW ms \in Seq(Offers), NEW role, requireEntry(ms, role) # None
  PROVE  \E i \in DOMAIN ms : /\ requireEntry(ms, role) = ms[i]
                              /\ isShapeUsable(role, ms[i]) /\ ms[i].key
<1> DEFINE hits(sec) ==
             {i \in DOMAIN ms : (isShapeUsable(role, ms[i]) /\ ms[i].key) /\ ms[i].sec = sec}
<1>1. requireEntry(ms, role) =
        IF hits("reality") = {} THEN IF hits("tls") = {} THEN None ELSE ms[Min(hits("tls"))]
        ELSE ms[Min(hits("reality"))]
  BY DEF requireEntry, selectHopEntry, Preferred, FirstOr
<1>2. \A sec : hits(sec) # {} => Min(hits(sec)) \in hits(sec)
  <2> TAKE sec
  <2>1. hits(sec) \in SUBSET Nat
    OBVIOUS
  <2> QED
    BY <2>1, MinIn
<1>3. PICK sec : hits(sec) # {} /\ requireEntry(ms, role) = ms[Min(hits(sec))]
  BY <1>1
<1>4. Min(hits(sec)) \in hits(sec)
  BY <1>2, <1>3
<1>5. /\ Min(hits(sec)) \in DOMAIN ms
      /\ isShapeUsable(role, ms[Min(hits(sec))]) /\ ms[Min(hits(sec))].key
  BY <1>4
<1> QED
  BY <1>3, <1>5, Zenon

LEMMA RepliesAreSequences == \A r \in Replies : r \in Seq(Offers)
<1> SUFFICES ASSUME NEW r \in Replies PROVE r \in Seq(Offers)
  OBVIOUS
<1>1. PICK n : n \in 0..MaxInbounds /\ r \in [1..n -> Offers]
  BY DEF Replies
<1>2. MaxInbounds \in Nat
  BY ConfigAssumption
<1>3. n \in Nat
  BY <1>1, <1>2
<1> QED
  BY <1>1, <1>3, SeqDef

LEMMA ListsAreAddresses == \A a \in Listed : a \in Seq(Addrs) /\ 1 \in DOMAIN a /\ FirstAddress(a) \in Addrs
<1> SUFFICES ASSUME NEW a \in Listed
             PROVE  a \in Seq(Addrs) /\ 1 \in DOMAIN a /\ FirstAddress(a) \in Addrs
  OBVIOUS
<1>1. a \in Seq(Addrs) /\ a # <<>>
  BY ReplyAssumption DEF Listed, Addrs
<1>2. 1 \in DOMAIN a /\ a[1] \in Addrs
  BY <1>1
<1> QED
  BY <1>1, <1>2 DEF FirstAddress

LEMMA HostIsDirect ==
  ASSUME NEW c, c.outs \in Seq(Outs), Direct(c) # {}
  PROVE  \E o \in Direct(c) : extractV2RayRemoteHost(c) = o.addr
<1> DEFINE hits == {i \in DOMAIN c.outs : ~c.outs[i].via}
<1>1. hits # {} /\ hits \in SUBSET Nat
  BY DEF Direct, Range
<1>2. Min(hits) \in hits
  BY <1>1, MinIn
<1>3. extractV2RayRemoteHost(c) = c.outs[Min(hits)].addr
  BY <1>1 DEF extractV2RayRemoteHost, FirstOr
<1> QED
  BY <1>2, <1>3 DEF Direct, Range

----------------------------------------------------------------------------
(* What the builders build is Stored. *)

LEMMA SingleStored ==
  ASSUME NEW c \in Configs, NEW o \in Outs, c.outs = <<o>>, ~o.via
  PROVE  /\ OneAddress(c) /\ DOMAIN c.outs = {1} /\ c.outs[1] = o /\ Range(c.outs) = {o}
         /\ Len(c.outs) = 1 /\ c.outs # <<>>
<1>1. DOMAIN c.outs = {1} /\ c.outs[1] = o /\ Len(c.outs) = 1
  OBVIOUS
<1>2. Range(c.outs) = {o}
  BY <1>1 DEF Range
<1>3. Direct(c) = {o}
  BY <1>2 DEF Direct
<1> QED
  BY <1>1, <1>2, <1>3 DEF OneAddress

LEMMA OffersAre ==
  ASSUME NEW m \in Offers
  PROVE  /\ m.proxy \in {"vless", "vmess", "other"} /\ m.net \in Nets /\ m.key \in BOOLEAN
         /\ m.sec \in Secs \cup {"other"}
         /\ m = [proxy |-> m.proxy, net |-> m.net, sec |-> m.sec, key |-> m.key]
BY ReplyAssumption DEF Nets, Secs

LEMMA OutboundIs ==
  ASSUME NEW tag \in {"node", "entry-out", "exit-out"}, NEW m, NEW addr \in Addrs,
         NEW via \in BOOLEAN, m.proxy \in {"vless", "vmess"}, m.net \in Nets,
         m.sec \in Secs, m.key \in BOOLEAN
  PROVE  /\ Outbound(tag, m, addr, via) \in Outs
         /\ Outbound(tag, m, addr, via).tag = tag
         /\ Outbound(tag, m, addr, via).addr = addr
         /\ Outbound(tag, m, addr, via).via = via
         /\ Outbound(tag, m, addr, via).proxy = m.proxy
         /\ Outbound(tag, m, addr, via).net = m.net
         /\ Outbound(tag, m, addr, via).sec = m.sec
         /\ Outbound(tag, m, addr, via).key = m.key
BY DEF Outbound, Outs

LEMMA EndpointStored ==
  ASSUME NEW p \in Protocols \ JsonCore, NEW addr \in Addrs,
         NEW key \in Keys, NEW hdr \in Keys,
         p = "amneziawg" => key # "short" /\ hdr # "short"
  PROVE  /\ Stored(EndpointConfig(p, addr, key, hdr))
         /\ EndpointConfig(p, addr, key, hdr).proto = p
<1> DEFINE c == EndpointConfig(p, addr, key, hdr)
           o == Outbound("node", Plain, addr, FALSE)
<1>1. o \in Outs /\ ~o.via /\ o.proxy = "-" /\ o.key /\ o.addr = addr
  BY DEF Outbound, Plain, Outs
<1> HIDE DEF o
<1>2. <<o>> \in Seq(Outs) /\ <<>> \in Seq(Rules)
  BY <1>1
<1>3. c = [proto |-> p, outs |-> <<o>>, ins |-> {}, rules |-> <<>>, dns |-> "node",
           key |-> key, hdr |-> hdr]
  BY DEF EndpointConfig, o
<1> HIDE DEF c
<1>4. c \in Configs
  BY <1>2, <1>3 DEF Configs
<1>5. c.proto = p /\ c.outs = <<o>> /\ c.key = key /\ c.hdr = hdr /\ c.ins = {} /\ c.rules = <<>>
      /\ c.dns = "node"
  BY <1>3
<1>6. OneAddress(c) /\ DOMAIN c.outs = {1} /\ c.outs[1] = o /\ Range(c.outs) = {o} /\ Len(c.outs) = 1
  BY <1>1, <1>4, <1>5, SingleStored
<1>7. Routing(c)
  BY <1>5 DEF Routing
<1>8. ~Unforeseen(c) => /\ AppAccepts(c) /\ HelperAccepts(c)
                        /\ c.proto = "amneziawg" => DeviceAccepts(c)
  <2> SUFFICES ASSUME ~Unforeseen(c)
               PROVE  /\ AppAccepts(c) /\ HelperAccepts(c)
                      /\ c.proto = "amneziawg" => DeviceAccepts(c)
    OBVIOUS
  <2>1. /\ c.proto = "hysteria2" => o.addr # V6
        /\ c.proto = "amneziawg" => c.key = "padded" /\ c.hdr = "padded"
    BY <1>5, <1>6 DEF Unforeseen, Keys
  <2>2. AppAccepts(c)
    BY <1>1, <1>5, <1>6, <2>1 DEF AppAccepts, assertSafeHysteria2Config,
      assertSafeAmneziaWgConfig, assertSafeOpenVpnConfig, assertSafeWireguardConfig
  <2>3. HelperAccepts(c) /\ (c.proto = "amneziawg" => DeviceAccepts(c))
    BY <1>6, <2>1 DEF HelperAccepts, DeviceAccepts, ToUAPI, AssertAmneziaWgConfig,
      AssertOpenVpnConfig
  <2> QED
    BY <2>2, <2>3
<1>9. Startable(c)
  BY <1>1, <1>5, <1>6, <1>8 DEF Startable, JsonCore
<1>10. OneDirect(c.outs)
  BY <1>6 DEF OneDirect
<1> QED
  BY <1>1, <1>4, <1>5, <1>6, <1>7, <1>9, <1>10 DEF Stored, c

LEMMA ConfigTyped ==
  ASSUME NEW p \in Protocols, NEW outs \in Seq(Outs), NEW ins \in SUBSET Inbounds,
         NEW rules \in Seq(Rules)
  PROVE  Config(p, outs, ins, rules) \in Configs
BY DEF Config, Configs, Keys

LEMMA JsonStored ==
  ASSUME NEW p \in JsonCore, NEW outs \in Seq(Outs), NEW ins, NEW rules,
         SocksRouting(ins, rules) \/ ProxyRouting(ins, rules), Dialable(p, outs)
  PROVE  Stored(Config(p, outs, ins, rules)) /\ Config(p, outs, ins, rules).proto = p
<1> DEFINE c == Config(p, outs, ins, rules)
<1>1. /\ c.proto = p /\ c.outs = outs /\ c.ins = ins /\ c.rules = rules /\ c.dns = "node"
      /\ c.key = "padded" /\ c.hdr = "padded"
      /\ c = [proto |-> p, outs |-> outs, ins |-> ins, rules |-> rules, dns |-> "node",
              key |-> "padded", hdr |-> "padded"]
  BY DEF Config
<1>2. rules \in Seq(Rules) /\ ins \in SUBSET Inbounds
  <2>1. /\ Rule({"api"}, FALSE, "api") \in Rules /\ Rule({"proxy"}, FALSE, "balancer") \in Rules
    BY DEF Rule, Rules, Inbounds
  <2>2. \A a, b \in Rules : <<a, b>> \in Seq(Rules)
    OBVIOUS
  <2>3. <<>> \in Seq(Rules)
    OBVIOUS
  <2>4. {"socks"} \in SUBSET Inbounds /\ {"api", "proxy"} \in SUBSET Inbounds
    BY DEF Inbounds
  <2> QED
    BY <2>1, <2>2, <2>3, <2>4, Zenon DEF SocksRouting, ProxyRouting
<1>3. c \in Configs
  <2>1. p \in Protocols
    BY DEF Protocols, Single, Child, JsonCore
  <2> QED
    BY <1>2, <2>1, ConfigTyped
<1> HIDE DEF c
<1>4. OneAddress(c)
  BY <1>1 DEF OneAddress, Direct, Range, Dialable
<1>5. Routing(c)
  BY <1>1 DEF Routing, SocksRouting, ProxyRouting
<1>6. Startable(c)
  <2>1. AppAccepts(c) /\ HelperAccepts(c) /\ c.proto # "amneziawg"
    BY <1>1 DEF AppAccepts, HelperAccepts, assertSafeV2RayConfig, JsonCore, Dialable
  <2> QED
    BY <1>1, <2>1 DEF Startable, Range, JsonCore, Dialable
<1>7. c.proto # "v2ray" => OneDirect(c.outs)
  BY <1>1 DEF Dialable
<1> QED
  BY <1>1, <1>3, <1>4, <1>5, <1>6, <1>7 DEF Stored, c

LEMMA HopsAreHops == \A role \in {"entry", "exit"} : \A h \in Hops(role) : Hop(role, h)
<1> SUFFICES ASSUME NEW role \in {"entry", "exit"}, NEW h \in Hops(role) PROVE Hop(role, h)
  OBVIOUS
<1>1. PICK ms \in Replies, a \in Listed :
        /\ requireEntry(ms, role) # None
        /\ h = [m |-> requireEntry(ms, role), addr |-> FirstAddress(a)]
  BY DEF Hops
<1>2. ms \in Seq(Offers) /\ FirstAddress(a) \in Addrs
  BY RepliesAreSequences, ListsAreAddresses
<1>3. PICK i \in DOMAIN ms : /\ requireEntry(ms, role) = ms[i]
                             /\ isShapeUsable(role, ms[i]) /\ ms[i].key
  BY <1>1, <1>2, HopSelects
<1>4. ms[i] \in Offers
  BY <1>2
<1>5. HopInbound(role, ms[i])
  BY <1>3, <1>4, OffersAre DEF HopInbound, isShapeUsable
<1>6. h.m = ms[i] /\ h.addr = FirstAddress(a)
  BY <1>1, <1>3
<1> QED
  BY <1>2, <1>5, <1>6 DEF Hop

LEMMA HopOutbounds ==
  ASSUME NEW role, NEW h, Hop(role, h), NEW tag \in {"entry-out", "exit-out"}, NEW via \in BOOLEAN
  PROVE  /\ buildHopOutbound(tag, h, via) \in Outs
         /\ buildHopOutbound(tag, h, via).via = via
         /\ buildHopOutbound(tag, h, via).sec \in {"tls", "reality"}
         /\ buildHopOutbound(tag, h, via).key = TRUE
         /\ role = "exit" => buildHopOutbound(tag, h, via).net = "tcp"
<1> DEFINE m == [h.m EXCEPT !.proxy = IF @ = "vless" THEN "vless" ELSE "vmess"]
<1>1. /\ h.m = [proxy |-> h.m.proxy, net |-> h.m.net, sec |-> h.m.sec, key |-> TRUE]
      /\ h.m.net \in Nets /\ h.m.sec \in {"tls", "reality"} /\ h.addr \in Addrs
      /\ role = "exit" => h.m.net = "tcp"
  BY DEF Hop, HopInbound
<1>2. /\ m.proxy \in {"vless", "vmess"} /\ m.net = h.m.net /\ m.sec = h.m.sec /\ m.key = TRUE
  BY <1>1
<1>3. buildHopOutbound(tag, h, via) = Outbound(tag, m, h.addr, via)
  BY DEF buildHopOutbound
<1> HIDE DEF m
<1>4. /\ m.proxy \in {"vless", "vmess"} /\ m.net \in Nets /\ m.sec \in Secs /\ m.key \in BOOLEAN
      /\ tag \in {"node", "entry-out", "exit-out"}
  BY <1>1, <1>2 DEF Secs
<1>5. /\ Outbound(tag, m, h.addr, via) \in Outs
      /\ Outbound(tag, m, h.addr, via).via = via /\ Outbound(tag, m, h.addr, via).sec = m.sec
      /\ Outbound(tag, m, h.addr, via).key = m.key /\ Outbound(tag, m, h.addr, via).net = m.net
  BY <1>1, <1>4, OutboundIs
<1> QED
  BY <1>1, <1>2, <1>3, <1>5

LEMMA ChainsAreStored ==
  ASSUME NEW en, Hop("entry", en), NEW ex, Hop("exit", ex)
  PROVE  Stored(buildMultihopConfig(en, ex)) /\ buildMultihopConfig(en, ex).proto = "chain"
<1> DEFINE x == buildHopOutbound("exit-out", ex, TRUE)
           n == buildHopOutbound("entry-out", en, FALSE)
<1>1. /\ x \in Outs /\ x.via = TRUE /\ x.sec \in {"tls", "reality"} /\ x.key = TRUE /\ x.net = "tcp"
  BY HopOutbounds
<1>2. /\ n \in Outs /\ n.via = FALSE /\ n.sec \in {"tls", "reality"} /\ n.key = TRUE
  BY HopOutbounds
<1> HIDE DEF x, n
<1> DEFINE outs == <<x, n>>
<1>3. /\ outs \in Seq(Outs) /\ DOMAIN outs = {1, 2} /\ outs[1] = x /\ outs[2] = n
  BY <1>1, <1>2
<1>4. buildMultihopConfig(en, ex) = Config("chain", outs, {"socks"}, <<>>)
  BY DEF buildMultihopConfig, x, n
<1> HIDE DEF outs
<1>5. Dialable("chain", outs)
  BY <1>1, <1>2, <1>3 DEF Dialable, OneDirect
<1>6. "chain" \in JsonCore /\ SocksRouting({"socks"}, <<>>)
  BY DEF JsonCore, SocksRouting
<1> QED
  BY <1>3, <1>4, <1>5, <1>6, JsonStored

LEMMA XRayStored == \A c \in XRayBuilt : Stored(c) /\ c.proto = "xray"
<1> SUFFICES ASSUME NEW c \in XRayBuilt PROVE Stored(c) /\ c.proto = "xray"
  OBVIOUS
<1>1. PICK ms \in Replies, a \in Listed :
        selectXRayEntry(ms) # None /\ c = buildXRayConfig(selectXRayEntry(ms), FirstAddress(a))
  BY DEF XRayBuilt
<1>2. ms \in Seq(Offers) /\ FirstAddress(a) \in Addrs
  BY RepliesAreSequences, ListsAreAddresses
<1>3. PICK i \in DOMAIN ms : /\ selectXRayEntry(ms) = ms[i] /\ isUsableXRay(ms[i])
                             /\ ms[i].sec \in {"reality", "tls"}
  BY <1>1, <1>2, XRaySelects
<1>4. ms[i] \in Offers
  BY <1>2
<1> DEFINE o == Outbound("node", ms[i], FirstAddress(a), FALSE)
<1>5. o \in Outs /\ o.via = FALSE /\ o.sec \in {"tls", "reality"} /\ o.key = TRUE
  <2>1. ms[i].key = TRUE /\ ms[i].proxy \in {"vless", "vmess"} /\ ms[i].net \in Nets
    BY <1>3, <1>4, OffersAre DEF isUsableXRay
  <2> QED
    BY <1>2, <1>3, <2>1 DEF Outbound, Outs, Secs
<1> HIDE DEF o
<1> DEFINE outs == <<o>>
<1>6. /\ outs \in Seq(Outs) /\ DOMAIN outs = {1} /\ outs[1] = o
  BY <1>5
<1>7. c = Config("xray", outs, {"socks"}, <<>>)
  BY <1>1, <1>3 DEF buildXRayConfig, o
<1> HIDE DEF outs
<1>8. Dialable("xray", outs)
  BY <1>5, <1>6 DEF Dialable, OneDirect
<1>9. "xray" \in JsonCore /\ SocksRouting({"socks"}, <<>>)
  BY DEF JsonCore, SocksRouting
<1> QED
  BY <1>6, <1>7, <1>8, <1>9, JsonStored

LEMMA V2RayStored == \A c \in V2RayBuilt : Stored(c) /\ c.proto = "v2ray"
<1> SUFFICES ASSUME NEW c \in V2RayBuilt PROVE Stored(c) /\ c.proto = "v2ray"
  OBVIOUS
<1>1. PICK ms \in Replies, a \in Listed :
        /\ ms # <<>> /\ ~isAllCleartext(ms)
        /\ c = buildV2RayConfig(filterV2RayMetadata(ms), FirstAddress(a))
  BY DEF V2RayBuilt
<1>2. ms \in Seq(Offers) /\ FirstAddress(a) \in Addrs
  BY RepliesAreSequences, ListsAreAddresses
<1> DEFINE kept == filterV2RayMetadata(ms)
           addr == FirstAddress(a)
           Of(i) == Spoken(kept[i])
           outs == [i \in DOMAIN kept |->
                      [Outbound("node", Of(i), addr, FALSE) EXCEPT !.guessed = Of(i) # kept[i]]]
<1>3. kept \in Seq(Offers) /\ 1 \in DOMAIN kept
  BY <1>1, <1>2, FilterKeeps
<1>4. ASSUME NEW k \in DOMAIN kept
      PROVE  kept[k] \in Offers /\ ~(kept[k].proxy = "vless" /\ kept[k].sec = "none")
  <2>1. PICK i \in DOMAIN ms : kept[k] = ms[i] /\ classifyV2RayInbound(ms[i]) = "acceptable"
    BY <1>2, FilterKeeps
  <2> QED
    BY <1>2, <1>3, <2>1 DEF classifyV2RayInbound
<1>5. c = Config("v2ray", outs, {"api", "proxy"},
                 <<Rule({"api"}, FALSE, "api"), Rule({"proxy"}, FALSE, "balancer")>>)
  BY <1>1 DEF buildV2RayConfig
<1> HIDE DEF kept, addr
<1>6. ASSUME NEW k \in DOMAIN kept
      PROVE  /\ outs[k] \in Outs /\ outs[k].via = FALSE /\ outs[k].addr = addr
             /\ outs[k].proxy = "vless" /\ outs[k].sec = "none" => outs[k].guessed
  <2>1. /\ kept[k].net \in Nets /\ kept[k].key \in BOOLEAN
        /\ kept[k] = [proxy |-> kept[k].proxy, net |-> kept[k].net, sec |-> kept[k].sec,
                      key |-> kept[k].key]
    BY <1>4, OffersAre
  <2>2. /\ Of(k).net = kept[k].net /\ Of(k).key = kept[k].key
        /\ Of(k).proxy = IF kept[k].proxy = "vmess" THEN "vmess" ELSE "vless"
        /\ Of(k).sec = IF kept[k].sec = "tls" THEN "tls" ELSE "none"
    BY <2>1 DEF Spoken
  <2>3. /\ addr \in Addrs /\ Of(k).proxy \in {"vless", "vmess"} /\ Of(k).net \in Nets
        /\ Of(k).sec \in Secs /\ Of(k).key \in BOOLEAN
    BY <1>2, <2>1, <2>2 DEF addr, Secs
  <2>4. Of(k).proxy = "vless" /\ Of(k).sec = "none" => Of(k) # kept[k]
    BY <1>4
  <2>5. outs[k] = [Outbound("node", Of(k), addr, FALSE) EXCEPT !.guessed = Of(k) # kept[k]]
    OBVIOUS
  <2> DEFINE o == Outbound("node", Of(k), addr, FALSE)
             guess == Of(k) # kept[k]
  <2> HIDE DEF Of, outs
  <2>6. /\ o \in Outs /\ o.via = FALSE /\ o.addr = addr
        /\ o.proxy = Of(k).proxy /\ o.sec = Of(k).sec
    <3> DEFINE m == Of(k)
    <3>1. /\ addr \in Addrs /\ m.proxy \in {"vless", "vmess"} /\ m.net \in Nets
          /\ m.sec \in Secs /\ m.key \in BOOLEAN
      BY <2>3
    <3> HIDE DEF m
    <3>2. /\ Outbound("node", m, addr, FALSE) \in Outs
          /\ Outbound("node", m, addr, FALSE).via = FALSE
          /\ Outbound("node", m, addr, FALSE).addr = addr
          /\ Outbound("node", m, addr, FALSE).proxy = m.proxy
          /\ Outbound("node", m, addr, FALSE).sec = m.sec
      BY <3>1 DEF Outbound, Outs
    <3> QED
      BY <3>2 DEF m
  <2>7. outs[k] = [o EXCEPT !.guessed = guess] /\ guess \in BOOLEAN
    BY <2>5
  <2>8. Of(k).proxy = "vless" /\ Of(k).sec = "none" => guess
    BY <2>4
  <2> HIDE DEF o, guess
  <2> QED
    BY <2>6, <2>7, <2>8 DEF Outs
<1>7. outs \in Seq(Outs) /\ DOMAIN outs = DOMAIN kept
  <2>1. Len(kept) \in Nat /\ DOMAIN kept = 1..Len(kept)
    BY <1>3
  <2>2. DOMAIN outs = DOMAIN kept
    OBVIOUS
  <2>3. outs \in [1..Len(kept) -> Outs]
    BY <1>6, <2>1
  <2> HIDE DEF outs
  <2>4. outs \in Seq(Outs)
    BY <2>1, <2>3, SeqDef
  <2> QED
    BY <2>2, <2>4
<1> HIDE DEF outs
<1>8. Dialable("v2ray", outs)
  BY <1>3, <1>6, <1>7 DEF Dialable
<1>9. "v2ray" \in JsonCore
      /\ ProxyRouting({"api", "proxy"}, <<Rule({"api"}, FALSE, "api"), Rule({"proxy"}, FALSE, "balancer")>>)
  BY DEF JsonCore, ProxyRouting
<1> QED
  BY <1>5, <1>7, <1>8, <1>9, JsonStored

LEMMA KeysAre == KeyForms \subseteq Keys
BY ReplyAssumption DEF Keys

LEMMA EndpointsAreStored ==
  /\ \A c \in WireguardBuilt : Stored(c) /\ c.proto = "wireguard"
  /\ \A c \in Hysteria2Built : Stored(c) /\ c.proto = "hysteria2"
  /\ \A c \in AmneziaWgBuilt : Stored(c) /\ c.proto = "amneziawg"
  /\ \A c \in OpenVpnBuilt : Stored(c) /\ c.proto = "openvpn"
<1>1. /\ "wireguard" \in Protocols \ JsonCore /\ "hysteria2" \in Protocols \ JsonCore
      /\ "amneziawg" \in Protocols \ JsonCore /\ "openvpn" \in Protocols \ JsonCore
  BY DEF Protocols, JsonCore, Single, Child, WgLike
<1>2. "padded" \in Keys
  BY DEF Keys
<1>3. ASSUME NEW c \in WireguardBuilt PROVE Stored(c) /\ c.proto = "wireguard"
  <2>1. PICK k \in KeyForms, a \in Listed : c = buildWireguardConfig(k, FirstAddress(a))
    BY DEF WireguardBuilt
  <2>2. c = EndpointConfig("wireguard", FirstAddress(a), k, "padded")
    BY <2>1 DEF buildWireguardConfig
  <2>3. FirstAddress(a) \in Addrs /\ k \in Keys
    BY ListsAreAddresses, KeysAre
  <2> QED
    BY <1>1, <1>2, <2>2, <2>3, EndpointStored
<1>4. ASSUME NEW c \in Hysteria2Built PROVE Stored(c) /\ c.proto = "hysteria2"
  <2>1. PICK a \in Listed : c = buildHysteria2Config(FirstAddress(a))
    BY DEF Hysteria2Built
  <2>2. c = EndpointConfig("hysteria2", FirstAddress(a), "padded", "padded")
    BY <2>1 DEF buildHysteria2Config
  <2>3. FirstAddress(a) \in Addrs
    BY ListsAreAddresses
  <2> QED
    BY <1>1, <1>2, <2>2, <2>3, EndpointStored
<1>5. ASSUME NEW c \in AmneziaWgBuilt PROVE Stored(c) /\ c.proto = "amneziawg"
  <2>1. PICK o \in AwgOffers, a \in Listed :
          AwgAccepted(o) /\ c = buildAmneziaWgConfig(o, FirstAddress(a))
    BY DEF AmneziaWgBuilt
  <2> DEFINE hdr == IF o.version = "3" THEN o.hdr ELSE "padded"
  <2>2. c = EndpointConfig("amneziawg", FirstAddress(a), o.key, hdr)
    BY <2>1 DEF buildAmneziaWgConfig
  <2>3. FirstAddress(a) \in Addrs /\ o.key \in Keys /\ o.hdr \in Keys
    BY ListsAreAddresses, KeysAre DEF AwgOffers
  <2>4. o.key # "short" /\ hdr # "short" /\ hdr \in Keys
    BY <1>2, <2>1, <2>3 DEF AwgAccepted
  <2> HIDE DEF hdr
  <2> QED
    BY <1>1, <2>2, <2>3, <2>4, EndpointStored
<1>6. ASSUME NEW c \in OpenVpnBuilt PROVE Stored(c) /\ c.proto = "openvpn"
  <2>1. PICK a \in Listed : c = buildOpenVpnConfig(a)
    BY DEF OpenVpnBuilt
  <2> DEFINE hits == {i \in DOMAIN a : a[i] \in IPs}
             addr == IF hits = {} THEN a[1] ELSE a[Min(hits)]
  <2>2. c = EndpointConfig("openvpn", addr, "padded", "padded")
    BY <2>1 DEF buildOpenVpnConfig, FirstOr
  <2>3. a \in Seq(Addrs) /\ 1 \in DOMAIN a
    BY ListsAreAddresses
  <2>4. hits # {} => Min(hits) \in hits
    <3>1. hits \in SUBSET Nat
      BY <2>3
    <3> QED
      BY <3>1, MinIn
  <2>5. addr \in Addrs
    BY <2>3, <2>4
  <2> HIDE DEF addr
  <2> QED
    BY <1>1, <1>2, <2>2, <2>5, EndpointStored
<1> QED
  BY <1>3, <1>4, <1>5, <1>6

LEMMA BuiltIsStored == \A p \in Single : \A c \in Built[p] : Stored(c) /\ c.proto = p
<1> SUFFICES ASSUME NEW p \in Single, NEW c \in Built[p] PROVE Stored(c) /\ c.proto = p
  OBVIOUS
<1>1. p \in {"wireguard", "xray", "hysteria2", "amneziawg", "openvpn", "v2ray"}
  BY DEF Single, Child, WgLike
<1>2. CASE p = "wireguard"
  <2>1. Built[p] = WireguardBuilt
    BY <1>2 DEF Built
  <2> QED
    BY <1>2, <2>1, EndpointsAreStored
<1>3. CASE p = "xray"
  <2>1. Built[p] = XRayBuilt
    BY <1>3 DEF Built
  <2> QED
    BY <1>3, <2>1, XRayStored
<1>4. CASE p = "hysteria2"
  <2>1. Built[p] = Hysteria2Built
    BY <1>4 DEF Built
  <2> QED
    BY <1>4, <2>1, EndpointsAreStored
<1>5. CASE p = "amneziawg"
  <2>1. Built[p] = AmneziaWgBuilt
    BY <1>5 DEF Built
  <2> QED
    BY <1>5, <2>1, EndpointsAreStored
<1>6. CASE p = "openvpn"
  <2>1. Built[p] = OpenVpnBuilt
    BY <1>6 DEF Built
  <2> QED
    BY <1>6, <2>1, EndpointsAreStored
<1>7. CASE p = "v2ray"
  <2>1. Built[p] = V2RayBuilt
    BY <1>7 DEF Built
  <2> QED
    BY <1>7, <2>1, V2RayStored
<1> QED
  BY <1>1, <1>2, <1>3, <1>4, <1>5, <1>6, <1>7

----------------------------------------------------------------------------
(* Pinning, and what is started. *)

LEMMA RecordsAre ==
  ASSUME NEW S \in RecordSets
  PROVE  /\ S \subseteq IPs /\ S # {}
         /\ MaxRecords = 1 => \A x, y \in S : x = y
<1>1. S \subseteq IPs /\ S # {} /\ Cardinality(S) <= MaxRecords
  BY DEF RecordSets
<1>2. IsFiniteSet(S)
  BY <1>1, ConfigAssumption, FS_Subset
<1>3. Cardinality(S) \in Nat /\ Cardinality(S) # 0
  BY <1>1, <1>2, FS_CardinalityType, FS_EmptySet
<1>4. ASSUME MaxRecords = 1 PROVE \A x, y \in S : x = y
  <2>1. Cardinality(S) = 1
    BY <1>1, <1>3, <1>4
  <2>2. PICK x : S = {x}
    BY <1>2, <2>1, FS_Singleton
  <2> QED
    BY <2>2
<1> QED
  BY <1>1, <1>4

(* What a name answers. *)
LEMMA AnswersAre ==
  ASSUME StoredInv, NEW h \in Hosts, NEW live \in BOOLEAN
  PROVE  /\ Answers(h, live) # {} /\ Answers(h, live) \subseteq IPs \cup {None}
         /\ live \/ cache[h] # None => Answers(h, live) \subseteq IPs
         /\ ~live => Answers(h, live) = {cache[h]}
         /\ MaxRecords = 1 => \A x, y \in Answers(h, live) : x = y
<1>1. dns[h] \in RecordSets /\ cache[h] \in IPs \cup {None}
  BY DEF StoredInv
<1>2. dns[h] \subseteq IPs /\ dns[h] # {} /\ (MaxRecords = 1 => \A x, y \in dns[h] : x = y)
  BY <1>1, RecordsAre
<1>3. CASE live
  BY <1>2, <1>3 DEF Answers
<1>4. CASE ~live
  BY <1>1, <1>4 DEF Answers
<1> QED
  BY <1>3, <1>4

(* Pinning changes names into addresses and nothing else. *)
LEMMA PinningIs ==
  ASSUME StoredInv, NEW outs \in Seq(Outs), NEW live \in BOOLEAN, NEW f \in Pins(outs, live)
  PROVE  /\ Pinned(outs, f) \in Seq(Outs) /\ DOMAIN Pinned(outs, f) = DOMAIN outs
         /\ \A i \in DOMAIN outs :
              /\ Pinned(outs, f)[i].tag = outs[i].tag /\ Pinned(outs, f)[i].via = outs[i].via
              /\ outs[i].addr \notin Hosts => f[i] = None /\ Pinned(outs, f)[i].addr = outs[i].addr
              /\ outs[i].addr \in Hosts =>
                   /\ f[i] \in Answers(outs[i].addr, live)
                   /\ f[i] = None => Pinned(outs, f)[i].addr = outs[i].addr
                   /\ f[i] # None => f[i] \in IPs /\ Pinned(outs, f)[i].addr = f[i]
<1>1. /\ f \in [DOMAIN outs -> IPs \cup {None}]
      /\ \A i \in DOMAIN outs :
           f[i] \in (IF outs[i].addr \in Hosts THEN Answers(outs[i].addr, live) ELSE {None})
  BY DEF Pins
<1>2. \A i \in DOMAIN outs : outs[i] \in Outs
  OBVIOUS
<1>3. ASSUME NEW i \in DOMAIN outs
      PROVE  /\ Pinned(outs, f)[i] \in Outs
             /\ Pinned(outs, f)[i].tag = outs[i].tag /\ Pinned(outs, f)[i].via = outs[i].via
             /\ Pinned(outs, f)[i].addr = IF f[i] = None THEN outs[i].addr ELSE f[i]
  <2>1. Pinned(outs, f)[i] = IF f[i] = None THEN outs[i] ELSE [outs[i] EXCEPT !.addr = f[i]]
    BY DEF Pinned
  <2>2. f[i] # None => f[i] \in Addrs
    BY <1>1 DEF Addrs
  <2> QED
    BY <1>2, <2>1, <2>2 DEF Outs
<1>4. DOMAIN Pinned(outs, f) = DOMAIN outs
  BY DEF Pinned
<1>5. Pinned(outs, f) \in Seq(Outs)
  <2>1. Len(outs) \in Nat /\ DOMAIN outs = 1..Len(outs)
    OBVIOUS
  <2>2. Pinned(outs, f) \in [1..Len(outs) -> Outs]
    BY <1>3, <2>1 DEF Pinned
  <2> QED
    BY <2>1, <2>2, SeqDef
<1> QED
  BY <1>1, <1>3, <1>4, <1>5

(* The memory forgets nothing, and knows every name that a live lookup was made of. *)
LEMMA LearntIs ==
  ASSUME StoredInv, NEW outs \in Seq(Outs), NEW live \in BOOLEAN, NEW f \in Pins(outs, live)
  PROVE  /\ Learnt(outs, f, live) \in [Hosts -> IPs \cup {None}]
         /\ \A h \in Hosts : cache[h] # None => Learnt(outs, f, live)[h] # None
         /\ \A i \in DOMAIN outs :
              outs[i].addr \in Hosts /\ live => Learnt(outs, f, live)[outs[i].addr] # None
<1> DEFINE asked(h) == {i \in DOMAIN outs : outs[i].addr = h}
<1>1. ASSUME NEW h \in Hosts
      PROVE  Learnt(outs, f, live)[h] = IF live /\ asked(h) # {} THEN f[Max(asked(h))] ELSE cache[h]
  BY DEF Learnt
<1>2. ASSUME NEW h \in Hosts, live, asked(h) # {}
      PROVE  f[Max(asked(h))] \in IPs
  <2>1. Len(outs) \in Nat /\ asked(h) \in SUBSET (1..Len(outs))
    OBVIOUS
  <2>2. Max(asked(h)) \in asked(h)
    BY <1>2, <2>1, MaxIn
  <2> DEFINE i == Max(asked(h))
  <2>3. i \in DOMAIN outs /\ outs[i].addr = h
    BY <2>2
  <2> HIDE DEF i
  <2>4. f[i] \in Answers(h, live)
    BY <2>3, PinningIs
  <2> QED
    BY <1>2, <2>4, AnswersAre DEF i
<1>3. \A h \in Hosts : cache[h] \in IPs \cup {None}
  BY DEF StoredInv
<1>4. \A h \in Hosts : Learnt(outs, f, live)[h] \in IPs \cup {None}
  BY <1>1, <1>2, <1>3
<1>5. None \notin IPs
  BY ConfigAssumption
<1>6. Learnt(outs, f, live) \in [Hosts -> IPs \cup {None}]
  <2> DEFINE g(h) == IF live /\ asked(h) # {} THEN f[Max(asked(h))] ELSE cache[h]
  <2>1. Learnt(outs, f, live) = [h \in Hosts |-> g(h)]
    BY DEF Learnt
  <2>2. \A h \in Hosts : g(h) \in IPs \cup {None}
    BY <1>2, <1>3
  <2> HIDE DEF g
  <2> QED
    BY <2>1, <2>2
<1>7. \A h \in Hosts : cache[h] # None => Learnt(outs, f, live)[h] # None
  <2> SUFFICES ASSUME NEW h \in Hosts, cache[h] # None PROVE Learnt(outs, f, live)[h] # None
    OBVIOUS
  <2>1. CASE live /\ asked(h) # {}
    <3>1. Learnt(outs, f, live)[h] = f[Max(asked(h))] /\ f[Max(asked(h))] \in IPs
      BY <1>1, <1>2, <2>1
    <3> QED
      BY <1>5, <3>1
  <2>2. CASE ~(live /\ asked(h) # {})
    <3> HIDE DEF asked
    <3>1. Learnt(outs, f, live)[h] = cache[h]
      BY <1>1, <2>2
    <3> QED
      BY <3>1
  <2> QED
    BY <2>1, <2>2
<1>8. \A i \in DOMAIN outs :
        outs[i].addr \in Hosts /\ live => Learnt(outs, f, live)[outs[i].addr] # None
  <2> SUFFICES ASSUME NEW i \in DOMAIN outs, outs[i].addr \in Hosts, live
               PROVE  Learnt(outs, f, live)[outs[i].addr] # None
    OBVIOUS
  <2> DEFINE h == outs[i].addr
  <2>1. i \in asked(h) /\ h \in Hosts
    OBVIOUS
  <2> HIDE DEF asked, h
  <2>2. asked(h) # {}
    BY <2>1
  <2>3. Learnt(outs, f, live)[h] = f[Max(asked(h))] /\ f[Max(asked(h))] \in IPs
    BY <1>1, <1>2, <2>1, <2>2
  <2> QED
    BY <1>5, <2>3 DEF h
<1> QED
  BY <1>6, <1>7, <1>8

LEMMA DirectIs ==
  ASSUME NEW c, c.outs \in Seq(Outs), NEW o
  PROVE  o \in Direct(c) <=> \E i \in DOMAIN c.outs : o = c.outs[i] /\ ~c.outs[i].via
BY DEF Direct, Range

LEMMA PinnedRuns ==
  ASSUME StoredInv, saved # None, NEW live \in BOOLEAN, NEW f \in Pins(saved.outs, live),
         NEW c, c.proto = saved.proto, c.ins = saved.ins, c.outs = Pinned(saved.outs, f),
         c.dns = "doh" => c.rules = withV2RayDoH(saved).rules
  PROVE  /\ Runs(c, saved, Learnt(saved.outs, f, live)) /\ Pinnable(c)
         /\ MaxRecords = 1 \/ c.proto # "v2ray" => OneAddress(c)
         /\ live => \A o \in Direct(c) : o.addr \notin Hosts
         /\ Remembered(saved, cache) /\ saved.proto # "openvpn" =>
              \A o \in Direct(c) : /\ o.addr \notin Hosts
                                   /\ saved.proto \in Child => o.addr \in IPs
<1> DEFINE outs == saved.outs
           memory == Learnt(outs, f, live)
<1>1. /\ outs \in Seq(Outs) /\ OneAddress(saved)
      /\ \A i \in DOMAIN outs : outs[i].addr \in Addrs /\ outs[i].via \in BOOLEAN
  <2>1. saved \in Configs /\ OneAddress(saved)
    BY DEF StoredInv, Stored
  <2>2. outs \in Seq(Outs)
    BY <2>1 DEF Configs
  <2>3. \A i \in DOMAIN outs : outs[i] \in Outs
    BY <2>2
  <2> HIDE DEF outs
  <2> QED
    BY <2>1, <2>2, <2>3 DEF Outs
<1>2. c.outs \in Seq(Outs) /\ DOMAIN c.outs = DOMAIN outs
  BY <1>1, PinningIs
<1>3. ASSUME NEW i \in DOMAIN outs
      PROVE  /\ c.outs[i].tag = outs[i].tag /\ c.outs[i].via = outs[i].via
             /\ outs[i].addr \notin Hosts => c.outs[i].addr = outs[i].addr
             /\ outs[i].addr \in Hosts =>
                  /\ f[i] \in Answers(outs[i].addr, live)
                  /\ f[i] = None => c.outs[i].addr = outs[i].addr
                  /\ f[i] # None => f[i] \in IPs /\ c.outs[i].addr = f[i]
  BY <1>1, PinningIs
<1>4. PICK a : /\ \E i \in DOMAIN outs : ~outs[i].via
               /\ \A i \in DOMAIN outs : ~outs[i].via => outs[i].addr = a
  <2>1. PICK o \in Direct(saved) : \A q \in Direct(saved) : q.addr = o.addr
    BY <1>1 DEF OneAddress
  <2> QED
    BY <1>1, <2>1, DirectIs
<1>5. a \in Addrs /\ None \notin IPs /\ Hosts \cap IPs = {}
  BY <1>1, <1>4, ConfigAssumption
<1>6. ASSUME NEW i \in DOMAIN outs, outs[i].addr \in Hosts, f[i] # None
      PROVE  memory[outs[i].addr] # None
  <2>1. CASE live
    BY <1>1, <1>6, <2>1, LearntIs
  <2>2. CASE ~live
    <3>1. f[i] = cache[outs[i].addr]
      BY <1>3, <1>6, <2>2, AnswersAre
    <3> QED
      BY <1>1, <1>6, <3>1, LearntIs
  <2> QED
    BY <2>1, <2>2
<1> HIDE DEF memory
<1>7. Runs(c, saved, memory)
  BY <1>2, <1>3, <1>6 DEF Runs
<1>8. \A o : o \in Direct(c) <=> \E i \in DOMAIN outs : o = c.outs[i] /\ ~outs[i].via
  BY <1>2, <1>3, DirectIs
<1>9. Direct(c) # {}
  BY <1>4, <1>8
<1>10. c.proto # "v2ray" => OneAddress(c)
  <2>1. saved.proto # "v2ray" => OneDirect(outs)
    BY DEF StoredInv, Stored
  <2> QED
    BY <1>8, <1>9, <2>1 DEF OneDirect, OneAddress
<1>11. CASE a \notin Hosts
  <2>1. \A o \in Direct(c) : o.addr = a
    BY <1>3, <1>4, <1>8, <1>11
  <2>2. OneAddress(c)
    BY <1>9, <2>1 DEF OneAddress
  <2>3. Remembered(saved, cache) /\ saved.proto # "openvpn" /\ saved.proto \in Child => a \in IPs
    <3>1. PICK o \in Direct(saved) : o.addr = a
      BY <1>1, <1>4, DirectIs
    <3> QED
      BY <1>5, <1>11, <3>1 DEF Remembered, Addrs
  <2> QED
    BY <1>7, <1>10, <1>11, <2>1, <2>2, <2>3 DEF Pinnable, memory
<1>12. CASE a \in Hosts
  <2>1. \A i \in DOMAIN outs : ~outs[i].via =>
          /\ f[i] \in Answers(a, live)
          /\ f[i] = None => c.outs[i].addr = a
          /\ f[i] # None => f[i] \in IPs /\ c.outs[i].addr = f[i]
    BY <1>3, <1>4, <1>12
  <2>2. live \/ cache[a] # None => \A o \in Direct(c) : o.addr \in IPs
    <3>1. live \/ cache[a] # None => Answers(a, live) \subseteq IPs
      BY <1>12, AnswersAre
    <3> QED
      BY <1>5, <1>8, <2>1, <3>1
  <2>3. ~live => OneAddress(c)
    <3>1. ~live => Answers(a, live) = {cache[a]}
      BY <1>12, AnswersAre
    <3> QED
      BY <1>8, <1>9, <2>1, <3>1 DEF OneAddress
  <2>4. MaxRecords = 1 => OneAddress(c)
    <3>1. MaxRecords = 1 => \A x, y \in Answers(a, live) : x = y
      BY <1>12, AnswersAre
    <3> QED
      BY <1>8, <1>9, <2>1, <3>1 DEF OneAddress
  <2>5. Remembered(saved, cache) /\ saved.proto # "openvpn" => cache[a] # None
    <3>1. PICK o \in Direct(saved) : o.addr = a
      BY <1>1, <1>4, DirectIs
    <3> QED
      BY <1>12, <3>1 DEF Remembered
  <2> QED
    BY <1>5, <1>7, <1>10, <2>2, <2>3, <2>4, <2>5 DEF Pinnable, memory
<1> QED
  BY <1>11, <1>12

LEMMA ConfigIs ==
  ASSUME NEW c \in Configs
  PROVE  c = [proto |-> c.proto, outs |-> c.outs, ins |-> c.ins, rules |-> c.rules,
              dns |-> c.dns, key |-> c.key, hdr |-> c.hdr]
BY DEF Configs

(* Putting DNS over HTTPS into a configuration changes its rules and its DNS, and the
   rules depend on no address. *)
LEMMA DoHIs ==
  ASSUME NEW c \in Configs
  PROVE  /\ withV2RayDoH(c).proto = c.proto /\ withV2RayDoH(c).outs = c.outs
         /\ withV2RayDoH(c).ins = c.ins /\ withV2RayDoH(c).dns = "doh"
         /\ withV2RayDoH(c).rules =
              <<Rule(UserInbounds(c), TRUE, "dns-out"),
                Rule({"dns-module"}, FALSE, IF Balanced(c) THEN "balancer" ELSE c.outs[1].tag)>>
              \o c.rules
BY ConfigIs DEF withV2RayDoH

LEMMA PinnedByIs ==
  ASSUME saved \in Configs, NEW f
  PROVE  /\ PinnedBy(f).proto = saved.proto /\ PinnedBy(f).ins = saved.ins
         /\ PinnedBy(f).rules = saved.rules /\ PinnedBy(f).dns = saved.dns
         /\ PinnedBy(f).outs = Pinned(saved.outs, f)
         /\ \A d : /\ [PinnedBy(f) EXCEPT !.dns = d].proto = saved.proto
                   /\ [PinnedBy(f) EXCEPT !.dns = d].ins = saved.ins
                   /\ [PinnedBy(f) EXCEPT !.dns = d].dns = d
                   /\ [PinnedBy(f) EXCEPT !.dns = d].outs = Pinned(saved.outs, f)
         /\ Pinned(saved.outs, f) \in Seq(Outs) => PinnedBy(f) \in Configs
<1>1. saved = [proto |-> saved.proto, outs |-> saved.outs, ins |-> saved.ins,
               rules |-> saved.rules, dns |-> saved.dns, key |-> saved.key, hdr |-> saved.hdr]
  BY ConfigIs
<1>2. PinnedBy(f) =
        [proto |-> saved.proto, outs |-> Pinned(saved.outs, f), ins |-> saved.ins,
         rules |-> saved.rules, dns |-> saved.dns, key |-> saved.key, hdr |-> saved.hdr]
  BY <1>1 DEF PinnedBy
<1> QED
  BY <1>2 DEF Configs

LEMMA PinnedDoH ==
  ASSUME StoredInv, saved # None, NEW live \in BOOLEAN, NEW f \in Pins(saved.outs, live)
  PROVE  withV2RayDoH(PinnedBy(f)).rules = withV2RayDoH(saved).rules
<1>1. saved \in Configs /\ OneAddress(saved)
  BY DEF StoredInv, Stored
<1>2. saved.outs \in Seq(Outs)
  BY <1>1 DEF Configs
<1>3. PinnedBy(f) \in Configs
  BY <1>1, <1>2, PinningIs, PinnedByIs
<1>4. PinnedBy(f).outs[1].tag = saved.outs[1].tag
  <2>1. 1 \in DOMAIN saved.outs
    BY <1>1, <1>2 DEF OneAddress, Direct, Range
  <2> QED
    BY <1>1, <1>2, <2>1, PinningIs, PinnedByIs
<1>5. UserInbounds(PinnedBy(f)) = UserInbounds(saved) /\ PinnedBy(f).rules = saved.rules
  BY <1>1, PinnedByIs DEF UserInbounds
<1>6. Balanced(PinnedBy(f)) = Balanced(saved)
  BY <1>5 DEF Balanced
<1>7. /\ withV2RayDoH(PinnedBy(f)).rules =
           <<Rule(UserInbounds(PinnedBy(f)), TRUE, "dns-out"),
             Rule({"dns-module"}, FALSE, IF Balanced(PinnedBy(f)) THEN "balancer"
                                         ELSE PinnedBy(f).outs[1].tag)>> \o PinnedBy(f).rules
      /\ withV2RayDoH(saved).rules =
           <<Rule(UserInbounds(saved), TRUE, "dns-out"),
             Rule({"dns-module"}, FALSE, IF Balanced(saved) THEN "balancer"
                                         ELSE saved.outs[1].tag)>> \o saved.rules
  BY <1>1, <1>3, DoHIs
<1> QED
  BY <1>4, <1>5, <1>6, <1>7

(* What a bring-up starts, whichever protocol. *)
LEMMA StartedRuns ==
  ASSUME StoredInv, saved # None, NEW live \in BOOLEAN, NEW f \in Pins(saved.outs, live),
         NEW c, (\E d \in {"node", "chosen", "none"} : c = [PinnedBy(f) EXCEPT !.dns = d])
                \/ c = PinnedBy(f) \/ c = withV2RayDoH(PinnedBy(f))
  PROVE  /\ c.proto = saved.proto
         /\ Runs(c, saved, Learnt(saved.outs, f, live)) /\ Pinnable(c)
         /\ MaxRecords = 1 \/ c.proto # "v2ray" => OneAddress(c)
         /\ live => \A o \in Direct(c) : o.addr \notin Hosts
         /\ Remembered(saved, cache) /\ saved.proto # "openvpn" =>
              \A o \in Direct(c) : /\ o.addr \notin Hosts
                                   /\ saved.proto \in Child => o.addr \in IPs
<1>1. saved \in Configs /\ saved.dns = "node"
  BY DEF StoredInv, Stored
<1>2. PinnedBy(f) \in Configs
  <2>1. saved.outs \in Seq(Outs)
    BY <1>1 DEF Configs
  <2> QED
    BY <1>1, <2>1, PinningIs, PinnedByIs
<1>3. CASE \E d \in {"node", "chosen", "none"} : c = [PinnedBy(f) EXCEPT !.dns = d]
  <2>1. c.proto = saved.proto /\ c.ins = saved.ins /\ c.outs = Pinned(saved.outs, f) /\ c.dns # "doh"
    BY <1>1, <1>3, PinnedByIs
  <2> QED
    BY <2>1, PinnedRuns
<1>4. CASE c = PinnedBy(f)
  <2>1. c.proto = saved.proto /\ c.ins = saved.ins /\ c.outs = Pinned(saved.outs, f) /\ c.dns # "doh"
    BY <1>1, <1>4, PinnedByIs
  <2> QED
    BY <2>1, PinnedRuns
<1>5. CASE c = withV2RayDoH(PinnedBy(f))
  <2>1. c.proto = saved.proto /\ c.ins = saved.ins /\ c.outs = Pinned(saved.outs, f)
    BY <1>1, <1>2, <1>5, PinnedByIs, DoHIs
  <2>2. c.rules = withV2RayDoH(saved).rules
    BY <1>5, PinnedDoH
  <2> QED
    BY <2>1, <2>2, PinnedRuns
<1> QED
  BY <1>3, <1>4, <1>5

----------------------------------------------------------------------------
(* The invariant. *)

LEMMA RunsKeeps ==
  ASSUME NEW c, NEW s, NEW k, NEW memory, Runs(c, s, k),
         \A h \in Hosts : k[h] # None => memory[h] # None
  PROVE  Runs(c, s, memory)
BY DEF Runs

LEMMA RememberedKeeps ==
  ASSUME NEW s, NEW k, NEW memory, Remembered(s, k),
         \A h \in Hosts : k[h] # None => memory[h] # None
  PROVE  Remembered(s, memory)
BY DEF Remembered

LEMMA SavedIs ==
  ASSUME StoredInv, saved # None
  PROVE  /\ saved \in Configs /\ saved.outs \in Seq(Outs) /\ saved.dns = "node"
         /\ OneAddress(saved) /\ saved.proto \in Protocols
BY DEF StoredInv, Stored, Configs

(* No tunnel afterwards: the memory may only have grown, the session may only
   have been replaced by one that has not been up. *)
LEMMA Quiet ==
  ASSUME Inv, StoredInv', active' = None,
         phase' \notin {"spawned", "routed", "up"},
         \/ /\ saved' = saved /\ beenUp' = beenUp
            /\ \A h \in Hosts : cache[h] # None => cache'[h] # None
            /\ beenUp => /\ told' # "no address"
                         /\ told' = "unresolved" => saved.proto = "openvpn"
         \/ ~beenUp'
  PROVE  Inv'
<1>1. RunsInv'
  BY DEF RunsInv
<1>2. AddressInv'
  <2>1. beenUp' => saved' # None /\ Remembered(saved', cache')
    <3> SUFFICES ASSUME beenUp' PROVE saved' # None /\ Remembered(saved', cache')
      OBVIOUS
    <3>1. /\ saved' = saved /\ saved # None /\ Remembered(saved, cache)
          /\ \A h \in Hosts : cache[h] # None => cache'[h] # None
      BY DEF Inv, AddressInv
    <3> QED
      BY <3>1, RememberedKeeps
  <2> QED
    BY <2>1 DEF AddressInv
<1>3. ReconnectNeedsNoDns'
  BY DEF ReconnectNeedsNoDns
<1> QED
  BY <1>1, <1>2, <1>3 DEF Inv

LEMMA InitStep == Init => Inv
<1> SUFFICES ASSUME Init PROVE Inv
  OBVIOUS
<1>1. StoredInv
  BY DEF Init, StoredInv
<1>2. RunsInv /\ AddressInv /\ ReconnectNeedsNoDns
  BY DEF Init, RunsInv, AddressInv, ReconnectNeedsNoDns
<1> QED
  BY <1>1, <1>2 DEF Inv

LEMMA FreeIs == Inv /\ phase \notin {"spawned", "routed", "up"} => active = None
BY DEF Inv, RunsInv

LEMMA HandshakeStep ==
  ASSUME Inv, NEW p \in Single, NEW signer \in Signers, Handshake(p, signer) PROVE Inv'
<1>1. /\ phase = "idle" /\ phase' = phase /\ active' = active /\ saved = None /\ entry = None
      /\ dns' = dns /\ cache' = cache /\ entry' = entry /\ beenUp' = beenUp
      /\ saved' \in (IF Trusted(signer) THEN Built[p] ELSE {}) \cup {NoReply}
  BY DEF Handshake, Free
<1>2. ~beenUp'
  BY <1>1 DEF Inv, AddressInv
<1>3. saved' # None => Stored(saved')
  BY <1>1, BuiltIsStored DEF NoReply
<1>4. StoredInv'
  BY <1>1, <1>3 DEF Inv, StoredInv
<1> QED
  BY <1>1, <1>2, <1>4, FreeIs, Quiet

LEMMA RenewStep ==
  ASSUME Inv, NEW signer \in Signers, Renew(signer) PROVE Inv'
<1>1. /\ phase = "idle" /\ phase' = phase /\ active' = active /\ saved # None
      /\ saved.proto # "chain" /\ saved' \in Built[saved.proto]
      /\ dns' = dns /\ cache' = cache /\ entry' = entry /\ beenUp' = FALSE
  BY DEF Renew, Free
<1>2. saved.proto \in Single
  BY <1>1, SavedIs DEF Inv, Protocols
<1>3. Stored(saved')
  BY <1>1, <1>2, BuiltIsStored
<1>4. StoredInv'
  BY <1>1, <1>3 DEF Inv, StoredInv
<1> QED
  BY <1>1, <1>4, FreeIs, Quiet

LEMMA HandshakeEntryStep ==
  ASSUME Inv, NEW signer \in Signers, NEW live \in BOOLEAN, HandshakeEntry(signer, live)
  PROVE  Inv'
<1>1. PICK en \in Hops("entry") : \E f \in Pins(buildEntryOnlyConfig(en).outs, live) :
        entry' = en /\ cache' = Learnt(buildEntryOnlyConfig(en).outs, f, live)
  BY DEF HandshakeEntry
<1> DEFINE o == buildHopOutbound("entry-out", en, FALSE)
           outs == <<o>>
<1>2. buildEntryOnlyConfig(en).outs = outs
  BY DEF buildEntryOnlyConfig, Config
<1>3. Hop("entry", en)
  BY HopsAreHops
<1>4. outs \in Seq(Outs)
  <2>1. o \in Outs
    BY <1>3, HopOutbounds
  <2> HIDE DEF o
  <2> QED
    BY <2>1
<1> HIDE DEF outs
<1>5. PICK f \in Pins(outs, live) : entry' = en /\ cache' = Learnt(outs, f, live)
  BY <1>1, <1>2
<1>6. cache' \in [Hosts -> IPs \cup {None}] /\ \A h \in Hosts : cache[h] # None => cache'[h] # None
  BY <1>4, <1>5, LearntIs DEF Inv
<1>7. /\ phase = "idle" /\ phase' = phase /\ active' = active /\ saved = None /\ saved' = saved
      /\ dns' = dns /\ beenUp' = beenUp /\ told' = told
  BY DEF HandshakeEntry, Free
<1>8. StoredInv'
  BY <1>3, <1>5, <1>6, <1>7 DEF Inv, StoredInv
<1>9. beenUp => told # "no address" /\ (told = "unresolved" => saved.proto = "openvpn")
  BY DEF Inv, ReconnectNeedsNoDns
<1> QED
  BY <1>6, <1>7, <1>8, <1>9, FreeIs, Quiet

LEMMA FinalizeChainStep ==
  ASSUME Inv, NEW signer \in Signers, FinalizeChain(signer) PROVE Inv'
<1>1. /\ phase = "idle" /\ phase' = phase /\ active' = active /\ entry # None /\ entry' = None
      /\ dns' = dns /\ cache' = cache /\ beenUp' = beenUp
      /\ saved' = None \/ \E ex \in Hops("exit") : \E a \in resolveExitHostPrivately(ex.addr) :
                            saved' = buildMultihopConfig(entry, [ex EXCEPT !.addr = a])
  BY DEF FinalizeChain, Free
<1>2. Hop("entry", entry) /\ saved = None
  BY <1>1 DEF Inv, StoredInv
<1>3. ~beenUp'
  BY <1>1, <1>2 DEF Inv, AddressInv
<1>4. ASSUME NEW ex \in Hops("exit"), NEW a \in resolveExitHostPrivately(ex.addr)
      PROVE  Hop("exit", [ex EXCEPT !.addr = a])
  <2>1. Hop("exit", ex)
    BY HopsAreHops
  <2>2. a \in Addrs
    <3>1. ex.addr \in Hosts => dns[ex.addr] \subseteq IPs
      BY RecordsAre DEF Inv, StoredInv
    <3> QED
      BY <2>1, <3>1 DEF Hop, resolveExitHostPrivately, Addrs
  <2>3. [ex EXCEPT !.addr = a].m = ex.m /\ [ex EXCEPT !.addr = a].addr = a
    <3>1. PICK ms, b : ex = [m |-> requireEntry(ms, "exit"), addr |-> FirstAddress(b)]
      BY DEF Hops
    <3> QED
      BY <3>1
  <2> QED
    BY <2>1, <2>2, <2>3 DEF Hop
<1>5. saved' # None => Stored(saved')
  BY <1>1, <1>2, <1>4, ChainsAreStored
<1>6. StoredInv'
  BY <1>1, <1>5 DEF Inv, StoredInv
<1> QED
  BY <1>1, <1>3, <1>6, FreeIs, Quiet

LEMMA EndSessionStep == ASSUME Inv, EndSession PROVE Inv'
<1>1. /\ phase = "idle" /\ phase' = phase /\ active' = None /\ saved # None /\ saved' = None
      /\ dns' = dns /\ cache' = cache /\ entry' = entry /\ beenUp' = FALSE
  BY DEF EndSession
<1>2. StoredInv'
  BY <1>1 DEF Inv, StoredInv
<1> QED
  BY <1>1, <1>2, FreeIs, Quiet

(* A bring-up starts: nothing ran, the session and its history are as they were. *)
LEMMA BeginsIs ==
  ASSUME Inv, NEW retry \in BOOLEAN, Begins(retry)
  PROVE  /\ StoredInv /\ saved # None /\ saved' = saved /\ entry = None /\ entry' = entry
         /\ dns' = dns /\ beenUp' = beenUp /\ armed' = armed
         /\ active = None /\ phase \notin {"spawned", "routed", "up"}
         /\ beenUp => Remembered(saved, cache)
BY DEF Begins, Inv, RunsInv, AddressInv

LEMMA FailedIs ==
  ASSUME NEW reason, Failed(reason)
  PROVE  /\ phase' \notin {"spawned", "routed", "up"} /\ active' = None /\ told' = reason
         /\ route' = None
BY DEF Failed

LEMMA PinTyped ==
  ASSUME Inv, NEW retry \in BOOLEAN, Begins(retry), NEW live \in BOOLEAN,
         NEW f \in Pins(saved.outs, live), cache' = Learnt(saved.outs, f, live)
  PROVE  /\ StoredInv' /\ \A h \in Hosts : cache[h] # None => cache'[h] # None
         /\ beenUp' => saved' # None /\ Remembered(saved', cache')
<1>1. /\ StoredInv /\ saved # None /\ saved' = saved /\ entry = None /\ entry' = entry
      /\ dns' = dns /\ beenUp' = beenUp
      /\ beenUp => Remembered(saved, cache)
  BY BeginsIs
<1>2. saved.outs \in Seq(Outs)
  BY <1>1, SavedIs
<1>3. /\ cache' \in [Hosts -> IPs \cup {None}]
      /\ \A h \in Hosts : cache[h] # None => cache'[h] # None
  BY <1>1, <1>2, LearntIs
<1>4. StoredInv'
  BY <1>1, <1>3 DEF StoredInv
<1>5. beenUp' => saved' # None /\ Remembered(saved', cache')
  BY <1>1, <1>3, RememberedKeeps
<1> QED
  BY <1>3, <1>4, <1>5

LEMMA ConnectWgLikeStep ==
  ASSUME Inv, NEW retry \in BOOLEAN, NEW fallback \in BOOLEAN, NEW live \in BOOLEAN,
         ConnectWgLike(retry, fallback, live)
  PROVE  Inv'
<1>1. Begins(retry) /\ saved.proto \in WgLike
  BY DEF ConnectWgLike
<1>2. PICK f \in Pins(saved.outs, live) :
        LET config == [PinnedBy(f) EXCEPT !.dns = TunnelDns(retry, fallback)]
        IN /\ cache' = Learnt(saved.outs, f, live)
           /\ IF ~(AppAccepts(config) /\ HelperAccepts(config) /\ DeviceAccepts(config))
              THEN Failed("refused")
              ELSE IF config.outs[1].addr \in Hosts /\ ~live THEN Failed("unresolved")
              ELSE Started("routed", config) \/ (config.dns # "none" /\ Failed("dns"))
  BY DEF ConnectWgLike
<1> DEFINE c == [PinnedBy(f) EXCEPT !.dns = TunnelDns(retry, fallback)]
<1>3. /\ StoredInv /\ saved # None /\ saved' = saved /\ beenUp' = beenUp /\ active = None
      /\ beenUp => Remembered(saved, cache)
  BY <1>1, BeginsIs
<1>4. /\ StoredInv' /\ \A h \in Hosts : cache[h] # None => cache'[h] # None
      /\ beenUp' => saved' # None /\ Remembered(saved', cache')
  BY <1>1, <1>2, PinTyped
<1>5. \E d \in {"node", "chosen", "none"} : c = [PinnedBy(f) EXCEPT !.dns = d]
  BY DEF TunnelDns
<1>6. /\ c.proto = saved.proto
      /\ Runs(c, saved, Learnt(saved.outs, f, live)) /\ Pinnable(c)
      /\ MaxRecords = 1 \/ c.proto # "v2ray" => OneAddress(c)
      /\ live => \A o \in Direct(c) : o.addr \notin Hosts
      /\ Remembered(saved, cache) => \A o \in Direct(c) : o.addr \notin Hosts
  <2>1. saved.proto # "openvpn"
    BY <1>1 DEF WgLike
  <2> QED
    BY <1>3, <1>5, <2>1, StartedRuns
<1>7. DOMAIN c.outs = {1} /\ Direct(c) = {c.outs[1]}
  <2>1. /\ c.outs \in Seq(Outs) /\ DOMAIN c.outs = DOMAIN saved.outs
        /\ \A i \in DOMAIN saved.outs : c.outs[i].via = saved.outs[i].via
    BY <1>6 DEF Runs
  <2>2. DOMAIN saved.outs = {1} /\ ~saved.outs[1].via
    BY <1>1, <1>3 DEF StoredInv, Stored, WgLike, JsonCore
  <2>3. 1 \in DOMAIN saved.outs /\ DOMAIN c.outs = {1} /\ ~c.outs[1].via
    BY <2>1, <2>2
  <2> QED
    BY <2>3 DEF Direct, Range
<1> HIDE DEF c
<1>8. \/ \E reason \in {"refused", "dns"} : Failed(reason)
      \/ Failed("unresolved") /\ ~live /\ c.outs[1].addr \in Hosts
      \/ Started("routed", c) /\ (live \/ c.outs[1].addr \notin Hosts)
  BY <1>2 DEF c
<1>9. CASE \E reason \in {"refused", "dns"} : Failed(reason)
  BY <1>3, <1>4, <1>9, FailedIs, Quiet
<1>10. CASE Failed("unresolved") /\ ~live /\ c.outs[1].addr \in Hosts
  <2>1. ~beenUp
    <3>1. c.outs[1] \in Direct(c)
      BY <1>7
    <3> QED
      BY <1>3, <1>6, <1>10, <3>1
  <2> QED
    BY <1>3, <1>4, <1>10, <2>1, FailedIs, Quiet
<1>11. CASE Started("routed", c) /\ (live \/ c.outs[1].addr \notin Hosts)
  <2>1. phase' = "routed" /\ active' = c /\ told' = None /\ route' = None
    BY <1>11 DEF Started
  <2>2. RunsInv'
    BY <1>2, <1>3, <1>6, <2>1, ConfigAssumption DEF RunsInv
  <2>3. AddressInv'
    <3>1. \A o \in Direct(c) : o.addr \notin Hosts
      BY <1>6, <1>7, <1>11 DEF Direct
    <3>2. c.proto \in WgLike /\ c.proto \notin Child
      BY <1>1, <1>6 DEF WgLike, Child
    <3> QED
      BY <1>3, <1>4, <2>1, <3>1, <3>2 DEF AddressInv, Inv
  <2>4. ReconnectNeedsNoDns'
    BY <2>1, ConfigAssumption DEF ReconnectNeedsNoDns
  <2> QED
    BY <1>4, <2>2, <2>3, <2>4 DEF Inv
<1> QED
  BY <1>8, <1>9, <1>10, <1>11

LEMMA ConnectOpenVpnStep ==
  ASSUME Inv, NEW retry \in BOOLEAN, NEW live \in BOOLEAN, ConnectOpenVpn(retry, live)
  PROVE  Inv'
<1>1. Begins(retry) /\ saved.proto = "openvpn" /\ cache' = cache
  BY DEF ConnectOpenVpn
<1>2. /\ StoredInv /\ saved # None /\ saved' = saved /\ entry' = entry /\ dns' = dns
      /\ beenUp' = beenUp /\ active = None
  BY <1>1, BeginsIs
<1>3. StoredInv'
  BY <1>1, <1>2 DEF StoredInv
<1>4. \/ Failed("refused") \/ Failed("unresolved") \/ Started("routed", saved)
  BY DEF ConnectOpenVpn
<1>5. CASE Failed("refused") \/ Failed("unresolved")
  <2>1. phase' \notin {"spawned", "routed", "up"} /\ active' = None /\ told' \in {"refused", "unresolved"}
    BY <1>5, FailedIs
  <2>2. told' # "no address"
    BY <2>1
  <2> QED
    BY <1>1, <1>2, <1>3, <2>1, <2>2, Quiet
<1>6. CASE Started("routed", saved)
  <2>1. phase' = "routed" /\ active' = saved /\ told' = None /\ saved' = saved /\ cache' = cache
    BY <1>1, <1>2, <1>6 DEF Started
  <2>2. saved \in Configs /\ saved.outs \in Seq(Outs) /\ saved.dns = "node" /\ OneAddress(saved)
    BY <1>2, SavedIs
  <2>3. Runs(saved, saved, cache) /\ Pinnable(saved)
    BY <2>2 DEF Runs, Pinnable
  <2>4. RunsInv'
    BY <1>2, <2>1, <2>2, <2>3 DEF RunsInv
  <2>5. AddressInv'
    BY <1>1, <1>2, <2>1 DEF AddressInv, Inv, Child, WgLike
  <2>6. ReconnectNeedsNoDns'
    BY <2>1, ConfigAssumption DEF ReconnectNeedsNoDns
  <2> QED
    BY <1>3, <2>4, <2>5, <2>6 DEF Inv
<1> QED
  BY <1>4, <1>5, <1>6

LEMMA ConnectCoreStep ==
  ASSUME Inv, NEW retry \in BOOLEAN, NEW live \in BOOLEAN, ConnectCore(retry, live)
  PROVE  Inv'
<1>1. Begins(retry) /\ saved.proto \in Child
  BY DEF ConnectCore
<1>2. PICK f \in Pins(saved.outs, live) :
        /\ cache' = Learnt(saved.outs, f, live)
        /\ \/ Started("spawned", PinnedBy(f)) \/ Started("spawned", withV2RayDoH(PinnedBy(f)))
           \/ Failed("refused")
  BY DEF ConnectCore
<1>3. /\ StoredInv /\ saved # None /\ saved' = saved /\ beenUp' = beenUp /\ active = None
      /\ beenUp => Remembered(saved, cache)
  BY <1>1, BeginsIs
<1>4. /\ StoredInv' /\ \A h \in Hosts : cache[h] # None => cache'[h] # None
      /\ beenUp' => saved' # None /\ Remembered(saved', cache')
  BY <1>1, <1>2, PinTyped
<1>5. CASE Failed("refused")
  <2>1. phase' \notin {"spawned", "routed", "up"} /\ active' = None /\ told' = "refused"
    BY <1>5, FailedIs
  <2>2. told' # "no address" /\ told' # "unresolved"
    BY <2>1
  <2> QED
    BY <1>3, <1>4, <2>1, <2>2, Quiet
<1>6. ASSUME NEW c, c = PinnedBy(f) \/ c = withV2RayDoH(PinnedBy(f)), Started("spawned", c)
      PROVE  Inv'
  <2>1. phase' = "spawned" /\ active' = c /\ told' = None
    BY <1>6 DEF Started
  <2>2. /\ c.proto = saved.proto
        /\ Runs(c, saved, Learnt(saved.outs, f, live)) /\ Pinnable(c)
        /\ MaxRecords = 1 \/ c.proto # "v2ray" => OneAddress(c)
        /\ Remembered(saved, cache) => \A o \in Direct(c) : o.addr \in IPs
    <3>1. saved.proto # "openvpn"
      BY <1>1 DEF Child
    <3> QED
      BY <1>1, <1>3, <1>6, <3>1, StartedRuns
  <2>3. RunsInv'
    BY <1>2, <1>3, <2>1, <2>2 DEF RunsInv
  <2>4. AddressInv'
    BY <1>1, <1>3, <1>4, <2>1, <2>2 DEF AddressInv, Inv
  <2>5. ReconnectNeedsNoDns'
    BY <2>1, ConfigAssumption DEF ReconnectNeedsNoDns
  <2> QED
    BY <1>4, <2>3, <2>4, <2>5 DEF Inv
<1> QED
  BY <1>2, <1>5, <1>6

LEMMA SameStored ==
  ASSUME Inv, dns' = dns, cache' = cache, entry' = entry, saved' = saved
  PROVE  StoredInv'
BY DEF Inv, StoredInv

LEMMA BringUpTunStep ==
  ASSUME Inv, NEW live \in BOOLEAN, BringUpTun(live) PROVE Inv'
<1> DEFINE host == extractV2RayRemoteHost(active)
           one == <<Outbound("node", Plain, host, FALSE)>>
<1>1. /\ phase = "spawned" /\ saved' = saved /\ entry' = entry /\ dns' = dns /\ beenUp' = beenUp
  BY DEF BringUpTun
<1>2. PICK f \in Pins(one, live) :
        /\ cache' = Learnt(one, f, live)
        /\ IF Pinned(one, f)[1].addr \notin IPs THEN Failed("no address")
           ELSE phase' = "routed" /\ active' = active /\ told' = told
  BY DEF BringUpTun
<1>3. /\ StoredInv /\ saved # None /\ told = None /\ active.proto \in Child
      /\ Runs(active, saved, cache) /\ Pinnable(active) /\ (MaxRecords = 1 \/ active.proto # "v2ray" => OneAddress(active))
      /\ (beenUp => Remembered(saved, cache) /\ \A o \in Direct(active) : o.addr \in IPs)
  BY <1>1 DEF Inv, RunsInv, AddressInv
<1>4. active.outs \in Seq(Outs) /\ Direct(active) # {}
  <2>1. /\ active.outs \in Seq(Outs) /\ DOMAIN active.outs = DOMAIN saved.outs
        /\ \A i \in DOMAIN saved.outs : active.outs[i].via = saved.outs[i].via
    BY <1>3 DEF Runs
  <2>2. saved.outs \in Seq(Outs) /\ OneAddress(saved)
    BY <1>3, SavedIs
  <2>3. PICK i \in DOMAIN saved.outs : ~saved.outs[i].via
    BY <2>2, DirectIs DEF OneAddress
  <2> QED
    BY <2>1, <2>3, DirectIs
<1>5. PICK o \in Direct(active) : host = o.addr
  BY <1>4, HostIsDirect
<1>6. host \in Addrs
  <2>1. PICK i \in DOMAIN active.outs : o = active.outs[i]
    BY <1>4, DirectIs
  <2>2. o \in Outs
    BY <1>4, <2>1
  <2> QED
    BY <1>5, <2>2 DEF Outs
<1> HIDE DEF host
<1>7. one \in Seq(Outs) /\ DOMAIN one = {1} /\ one[1].addr = host
  <2> DEFINE u == Outbound("node", Plain, host, FALSE)
  <2>1. u \in Outs /\ u.addr = host
    BY <1>6 DEF Outbound, Plain, Outs
  <2> HIDE DEF u
  <2>2. <<u>> \in Seq(Outs) /\ DOMAIN <<u>> = {1} /\ <<u>>[1].addr = host
    BY <2>1
  <2> QED
    BY <2>2 DEF u
<1> HIDE DEF one
<1>8. /\ cache' \in [Hosts -> IPs \cup {None}]
      /\ \A h \in Hosts : cache[h] # None => cache'[h] # None
  <2>1. f \in Pins(one, live) /\ cache' = Learnt(one, f, live)
    BY <1>2
  <2>2. StoredInv /\ one \in Seq(Outs)
    BY <1>3, <1>7
  <2>3. /\ Learnt(one, f, live) \in [Hosts -> IPs \cup {None}]
        /\ \A h \in Hosts : cache[h] # None => Learnt(one, f, live)[h] # None
    BY <2>1, <2>2, LearntIs
  <2> QED
    BY <2>1, <2>3
<1>9. host \notin Hosts => Pinned(one, f)[1].addr = host
  BY <1>3, <1>7, PinningIs
<1>10. StoredInv'
  BY <1>1, <1>3, <1>8 DEF StoredInv
<1>11. CASE Pinned(one, f)[1].addr \notin IPs
  <2>1. ~beenUp
    BY <1>3, <1>5, <1>9, <1>11, ConfigAssumption
  <2>2. phase' \notin {"spawned", "routed", "up"} /\ active' = None
    BY <1>2, <1>11, FailedIs
  <2> QED
    BY <1>1, <1>10, <2>1, <2>2, Quiet
<1>12. CASE Pinned(one, f)[1].addr \in IPs
  <2>1. phase' = "routed" /\ active' = active /\ told' = told
    BY <1>2, <1>12
  <2>2. \A q \in Direct(active) : q.addr # V6
    <3>1. host # V6
      BY <1>9, <1>12, ConfigAssumption
    <3>2. CASE \A q \in Direct(active) : q.addr \in IPs
      BY <3>2, ConfigAssumption
    <3>3. CASE OneAddress(active)
      BY <1>5, <3>1, <3>3 DEF OneAddress
    <3> QED
      BY <1>3, <3>2, <3>3 DEF Pinnable
  <2>3. Runs(active, saved, cache')
    BY <1>3, <1>8, RunsKeeps
  <2>4. RunsInv'
    BY <1>1, <1>3, <2>1, <2>3 DEF RunsInv
  <2>5. beenUp' => Remembered(saved', cache')
    BY <1>1, <1>3, <1>8, RememberedKeeps
  <2>6. AddressInv'
    <3>1. active.proto \notin WgLike
      BY <1>3 DEF Child, WgLike
    <3> QED
      BY <1>1, <1>3, <2>1, <2>2, <2>5, <3>1 DEF AddressInv, Inv
  <2>7. ReconnectNeedsNoDns'
    BY <1>3, <2>1, ConfigAssumption DEF ReconnectNeedsNoDns
  <2> QED
    BY <1>10, <2>4, <2>6, <2>7 DEF Inv
<1> QED
  BY <1>11, <1>12

LEMMA PostConnectStep == ASSUME Inv, PostConnect PROVE Inv'
<1>1. /\ phase = "routed" /\ Carries /\ phase' = "up" /\ beenUp' = TRUE
      /\ dns' = dns /\ cache' = cache /\ entry' = entry /\ saved' = saved /\ active' = active
      /\ told' = told
  BY DEF PostConnect
<1>2. /\ saved # None /\ told = None
      /\ Runs(active, saved, cache) /\ Pinnable(active) /\ (MaxRecords = 1 \/ active.proto # "v2ray" => OneAddress(active))
      /\ \A o \in Direct(active) : /\ active.proto \in Child => o.addr # V6
                                   /\ active.proto \in WgLike => o.addr \notin Hosts
  BY <1>1 DEF Inv, RunsInv, AddressInv
<1>3. StoredInv'
  BY <1>1, SameStored
<1>4. active.proto \in Child => \A o \in Direct(active) : o.addr \notin Hosts
  BY <1>1 DEF Carries
<1>5. Remembered(saved, cache)
  <2> SUFFICES ASSUME saved.proto # "openvpn", NEW o \in Direct(saved)
               PROVE  /\ o.addr \in Hosts => cache[o.addr] # None
                      /\ saved.proto \in Child => o.addr # V6
    BY DEF Remembered
  <2>1. saved.outs \in Seq(Outs) /\ saved.proto \in Protocols
    BY <1>2, SavedIs DEF Inv
  <2>2. saved.proto \in Child \/ saved.proto \in WgLike
    BY <2>1 DEF Protocols, Single, Child, WgLike
  <2>3. PICK i \in DOMAIN saved.outs : o = saved.outs[i] /\ ~saved.outs[i].via
    BY <2>1, DirectIs
  <2>4. /\ active.proto = saved.proto /\ active.outs \in Seq(Outs)
        /\ i \in DOMAIN active.outs /\ ~active.outs[i].via
        /\ \/ active.outs[i].addr = o.addr
           \/ o.addr \in Hosts /\ cache[o.addr] # None
    BY <1>2, <2>3 DEF Runs
  <2>5. active.outs[i] \in Direct(active)
    BY <2>4, DirectIs
  <2> QED
    BY <1>2, <1>4, <2>2, <2>4, <2>5, ConfigAssumption
<1>6. RunsInv'
  BY <1>1, <1>2 DEF RunsInv
<1>7. AddressInv'
  BY <1>1, <1>2, <1>5 DEF AddressInv
<1>8. ReconnectNeedsNoDns'
  BY <1>1, <1>2, ConfigAssumption DEF ReconnectNeedsNoDns
<1> QED
  BY <1>3, <1>6, <1>7, <1>8 DEF Inv

LEMMA DownStep ==
  ASSUME Inv, BringUpFails \/ ProbeFails \/ Drop \/ Disconnect \/ StandDown
  PROVE  Inv'
<1>1. /\ dns' = dns /\ cache' = cache /\ entry' = entry /\ saved' = saved /\ beenUp' = beenUp
      /\ active' = None /\ phase' \notin {"spawned", "routed", "up"}
      /\ told' \in {"failed", "no traffic", None, told}
  BY DEF BringUpFails, ProbeFails, Drop, Disconnect, StandDown, Failed
<1>2. StoredInv'
  BY <1>1, SameStored
<1>3. /\ beenUp => told # "no address"
      /\ beenUp /\ told = "unresolved" => saved.proto = "openvpn"
  BY DEF Inv, ReconnectNeedsNoDns
<1>4. beenUp => /\ told' # "no address"
                /\ told' = "unresolved" => saved.proto = "openvpn"
  BY <1>1, <1>3, ConfigAssumption
<1> QED
  BY <1>1, <1>2, <1>4, Quiet

LEMMA RestStep ==
  ASSUME Inv, Crash \/ Heal \/ \E h \in Hosts : NodeMoves(h) PROVE Inv'
<1>1. CASE Crash
  <2>1. /\ entry' = None /\ active' = None /\ phase' = "idle" /\ ~beenUp'
        /\ dns' = dns /\ saved' = saved /\ cache' = [h \in Hosts |-> None]
    BY <1>1 DEF Crash
  <2>2. StoredInv'
    BY <2>1 DEF Inv, StoredInv
  <2> QED
    BY <2>1, <2>2, Quiet
<1>2. CASE Heal
  BY <1>2, SameStored DEF Heal, Inv, RunsInv, AddressInv, ReconnectNeedsNoDns
<1>3. ASSUME NEW h \in Hosts, NodeMoves(h) PROVE Inv'
  <2>1. PICK S \in RecordSets : dns' = [dns EXCEPT ![h] = S]
    BY <1>3 DEF NodeMoves
  <2>2. StoredInv'
    BY <1>3, <2>1 DEF NodeMoves, Inv, StoredInv
  <2> QED
    BY <1>3, <2>2 DEF NodeMoves, Inv, RunsInv, AddressInv, ReconnectNeedsNoDns
<1> QED
  BY <1>1, <1>2, <1>3

LEMMA NextStep == Inv /\ [Next]_vars => Inv'
<1> SUFFICES ASSUME Inv, [Next]_vars PROVE Inv'
  OBVIOUS
<1>1. CASE UNCHANGED vars
  BY <1>1, SameStored DEF vars, Inv, RunsInv, AddressInv, ReconnectNeedsNoDns
<1>2. CASE \E p \in Single, signer \in Signers : Handshake(p, signer)
  BY <1>2, HandshakeStep
<1>3. CASE \E signer \in Signers : Renew(signer) \/ FinalizeChain(signer)
  BY <1>3, RenewStep, FinalizeChainStep
<1>4. CASE \E signer \in Signers, live \in BOOLEAN : HandshakeEntry(signer, live)
  BY <1>4, HandshakeEntryStep
<1>5. CASE EndSession
  BY <1>5, EndSessionStep
<1>6. CASE \E retry, live \in BOOLEAN :
             \/ \E fallback \in BOOLEAN : ConnectWgLike(retry, fallback, live)
             \/ ConnectOpenVpn(retry, live) \/ ConnectCore(retry, live)
  BY <1>6, ConnectWgLikeStep, ConnectOpenVpnStep, ConnectCoreStep
<1>7. CASE \E live \in BOOLEAN : BringUpTun(live)
  BY <1>7, BringUpTunStep
<1>8. CASE PostConnect
  BY <1>8, PostConnectStep
<1>9. CASE BringUpFails \/ ProbeFails \/ Drop \/ Disconnect \/ StandDown
  BY <1>9, DownStep
<1>10. CASE Crash \/ Heal \/ \E h \in Hosts : NodeMoves(h)
  BY <1>10, RestStep
<1> QED
  BY <1>1, <1>2, <1>3, <1>4, <1>5, <1>6, <1>7, <1>8, <1>9, <1>10 DEF Next

LEMMA InvHolds == Spec => []Inv
<1>1. Inv /\ [Next]_vars => Inv'
  BY NextStep
<1> QED
  BY InitStep, <1>1, PTL DEF Spec

LEMMA StoredStarts == Inv => PaidConfigsStart
<1> SUFFICES ASSUME Inv, saved # None PROVE Startable(saved)
  BY DEF PaidConfigsStart, Startable
<1> QED
  BY DEF Inv, StoredInv, Stored

(* Whatever the node replies, a configuration that is kept passes every guard on its way
   to a tunnel and dials nothing in clear (performHandshake and the builders). *)
THEOREM PaidConfigsAreStartable == Spec => []PaidConfigsStart
BY InvHolds, StoredStarts, PTL

(* A session that has been up is never again refused for want of an address: its names
   stay in the resolver's memory (lastResolvedIpByHost). *)
THEOREM ReconnectsNeedNoDns == Spec => []ReconnectNeedsNoDns
<1>1. Inv => ReconnectNeedsNoDns
  BY DEF Inv
<1> QED
  BY InvHolds, <1>1, PTL

----------------------------------------------------------------------------
(* The address let through. *)

LEMMA ActiveDirect ==
  ASSUME Inv, phase \in {"spawned", "routed", "up"}
  PROVE  /\ active.outs \in Seq(Outs) /\ Direct(active) # {}
         /\ active.proto \notin JsonCore =>
              Direct(active) = {active.outs[1]}
<1>1. /\ StoredInv /\ saved # None /\ Runs(active, saved, cache)
  BY DEF Inv, RunsInv
<1>2. /\ active.outs \in Seq(Outs) /\ DOMAIN active.outs = DOMAIN saved.outs
      /\ active.proto = saved.proto
      /\ \A i \in DOMAIN saved.outs : active.outs[i].via = saved.outs[i].via
  BY <1>1 DEF Runs
<1>3. saved.outs \in Seq(Outs) /\ OneAddress(saved)
  BY <1>1, SavedIs
<1>4. PICK i \in DOMAIN saved.outs : ~saved.outs[i].via
  BY <1>3, DirectIs DEF OneAddress
<1>5. Direct(active) # {}
  BY <1>2, <1>4, DirectIs
<1>6. ASSUME active.proto \notin JsonCore PROVE Direct(active) = {active.outs[1]}
  <2>1. DOMAIN saved.outs = {1} /\ ~saved.outs[1].via
    BY <1>1, <1>2, <1>6 DEF StoredInv, Stored
  <2>2. DOMAIN active.outs = {1} /\ ~active.outs[1].via
    BY <1>2, <2>1
  <2> QED
    BY <2>2 DEF Direct, Range
<1> QED
  BY <1>2, <1>5, <1>6

LEMMA RemoteIsDirect ==
  ASSUME Inv, phase \in {"routed", "up"}
  PROVE  \E o \in Direct(active) : RemoteHost = IF o.addr \in IPs THEN o.addr ELSE None
<1>1. active.outs \in Seq(Outs) /\ Direct(active) # {}
  BY ActiveDirect
<1>2. CASE active.proto \in WgLike \/ active.proto = "openvpn"
  <2>1. active.outs[1] \in Direct(active)
    <3>1. active.proto \notin JsonCore
      BY <1>2 DEF WgLike, JsonCore
    <3> QED
      BY <3>1, ActiveDirect
  <2>2. RemoteHost = IF active.outs[1].addr \in IPs THEN active.outs[1].addr ELSE None
    BY <1>2 DEF RemoteHost, extractWireguardEndpointHost, extractOpenVpnRemoteHost
  <2> QED
    BY <2>1, <2>2
<1>3. CASE ~(active.proto \in WgLike \/ active.proto = "openvpn")
  <2>1. PICK o \in Direct(active) : extractV2RayRemoteHost(active) = o.addr
    BY <1>1, HostIsDirect
  <2>2. RemoteHost = IF o.addr \in IPs THEN o.addr ELSE None
    BY <1>3, <2>1 DEF RemoteHost
  <2> QED
    BY <2>2
<1> QED
  BY <1>2, <1>3

LEMMA RoutedStep ==
  ASSUME Inv, DialledInv, NEW live \in BOOLEAN, BringUpTun(live)
  PROVE  DialledInv'
<1> DEFINE host == extractV2RayRemoteHost(active)
           one == <<Outbound("node", Plain, host, FALSE)>>
<1>1. phase = "spawned" /\ armed' = armed
  BY DEF BringUpTun
<1>2. PICK f \in Pins(one, live) :
        IF Pinned(one, f)[1].addr \notin IPs THEN Failed("no address")
        ELSE /\ phase' = "routed" /\ active' = active /\ route' = Pinned(one, f)[1].addr
  BY DEF BringUpTun
<1>3. CASE Failed("no address")
  BY <1>1, <1>3, FailedIs DEF DialledInv
<1>4. CASE phase' = "routed" /\ active' = active /\ route' = Pinned(one, f)[1].addr
  <2>1. PICK o \in Direct(active) : host = o.addr
    BY <1>1, ActiveDirect, HostIsDirect
  <2>2. OneAddress(active) => \A q \in Direct(active) : q.addr = host
    BY <2>1 DEF OneAddress
  <2> HIDE DEF host
  <2>3. host \in IPs => Pinned(one, f)[1].addr = host
    <3>1. SUFFICES ASSUME host \in IPs PROVE Pinned(one, f)[1].addr = host
      OBVIOUS
    <3> DEFINE u == Outbound("node", Plain, host, FALSE)
    <3>2. u \in Outs /\ u.addr = host
      BY <3>1 DEF Outbound, Plain, Outs, Addrs
    <3> HIDE DEF u
    <3>3. <<u>> \in Seq(Outs) /\ 1 \in DOMAIN <<u>> /\ <<u>>[1] = u
      BY <3>2
    <3>4. one = <<u>> /\ f \in Pins(one, live)
      BY <1>2 DEF u
    <3> HIDE DEF one
    <3>5. one \in Seq(Outs) /\ 1 \in DOMAIN one /\ one[1].addr = host /\ host \notin Hosts
      BY <3>1, <3>2, <3>3, <3>4, ConfigAssumption
    <3>6. StoredInv
      BY DEF Inv
    <3>7. \A i \in DOMAIN one :
            one[i].addr \notin Hosts => Pinned(one, f)[i].addr = one[i].addr
      <4>1. f \in Pins(one, live)
        BY <3>4
      <4>2. one \in Seq(Outs)
        BY <3>5
      <4> QED
        BY <3>6, <4>1, <4>2, PinningIs
    <3> QED
      BY <3>5, <3>7
  <2> QED
    BY <1>1, <1>4, <2>2, <2>3 DEF DialledInv
<1> QED
  BY <1>2, <1>3, <1>4

LEMMA ArmedStep ==
  ASSUME Inv, DialledInv, PostConnect
  PROVE  DialledInv'
<1>1. /\ phase = "routed" /\ phase' = "up" /\ active' = active /\ route' = route
      /\ IF KillSwitch THEN armKillSwitch ELSE armed' = armed
  BY DEF PostConnect
<1>2. PICK o \in Direct(active) : RemoteHost = IF o.addr \in IPs THEN o.addr ELSE None
  BY <1>1, RemoteIsDirect
<1>3. OneAddress(active) => \A q \in Direct(active) : q.addr = o.addr
  BY <1>2 DEF OneAddress
<1>4. o.addr \in IPs /\ KillSwitch => armed' = o.addr
  BY <1>1, <1>2, ConfigAssumption DEF armKillSwitch
<1>5. ~KillSwitch => armed' = None
  BY <1>1 DEF DialledInv
<1> QED
  BY <1>1, <1>3, <1>4, <1>5 DEF DialledInv

(* Every other step leaves a route only where it was. *)
LEMMA OtherDialled ==
  ASSUME DialledInv, armed' \in {armed, None}, phase' # "up",
         (phase' = phase /\ active' = active /\ route' = route) \/ route' = None
  PROVE  DialledInv'
BY DEF DialledInv

LEMMA DialledStep ==
  ASSUME Inv, DialledInv, [Next]_vars PROVE DialledInv'
<1>1. CASE UNCHANGED vars \/ Heal \/ (\E h \in Hosts : NodeMoves(h))
  BY <1>1 DEF vars, Heal, NodeMoves, DialledInv
<1>2. CASE \/ \E p \in Single, signer \in Signers : Handshake(p, signer)
           \/ \E signer \in Signers : Renew(signer) \/ FinalizeChain(signer)
           \/ \E signer \in Signers, live \in BOOLEAN : HandshakeEntry(signer, live)
  <2>1. phase = "idle" /\ phase' = phase /\ active' = active /\ route' = route /\ armed' = armed
    BY <1>2 DEF Handshake, Renew, FinalizeChain, HandshakeEntry, Free
  <2> QED
    BY <2>1, OtherDialled
<1>3. CASE EndSession
  <2>1. phase = "idle" /\ phase' = phase /\ route' = route /\ armed' = armed
    BY <1>3 DEF EndSession
  <2> QED
    BY <2>1 DEF DialledInv
<1>4. CASE \E retry, live \in BOOLEAN :
             \/ \E fallback \in BOOLEAN : ConnectWgLike(retry, fallback, live)
             \/ ConnectOpenVpn(retry, live) \/ ConnectCore(retry, live)
  <2>1. armed' = armed
    BY <1>4 DEF ConnectWgLike, ConnectOpenVpn, ConnectCore, Begins
  <2>2. route' = None /\ phase' # "up"
    <3>1. ASSUME NEW retry \in BOOLEAN, NEW fallback \in BOOLEAN, NEW live \in BOOLEAN,
                 ConnectWgLike(retry, fallback, live)
          PROVE  route' = None /\ phase' # "up"
      BY <3>1 DEF ConnectWgLike, Failed, Started
    <3>2. ASSUME NEW retry \in BOOLEAN, NEW live \in BOOLEAN,
                 ConnectOpenVpn(retry, live) \/ ConnectCore(retry, live)
          PROVE  route' = None /\ phase' # "up"
      BY <3>2 DEF ConnectOpenVpn, ConnectCore, Failed, Started
    <3> QED
      BY <1>4, <3>1, <3>2
  <2> QED
    BY <2>1, <2>2, OtherDialled
<1>5. CASE \E live \in BOOLEAN : BringUpTun(live)
  BY <1>5, RoutedStep
<1>6. CASE PostConnect
  BY <1>6, ArmedStep
<1>7. CASE BringUpFails \/ ProbeFails \/ Drop \/ Disconnect \/ StandDown \/ Crash
  <2>1. route' = None /\ phase' # "up" /\ armed' \in {armed, None}
    BY <1>7 DEF BringUpFails, ProbeFails, Drop, Disconnect, StandDown, Crash, Failed
  <2> QED
    BY <2>1, OtherDialled
<1> QED
  BY <1>1, <1>2, <1>3, <1>4, <1>5, <1>6, <1>7 DEF Next

LEMMA DialledInit == Init => DialledInv
BY DEF Init, DialledInv

LEMMA DialledHolds == Spec => [](Inv /\ DialledInv)
<1>1. Init => Inv /\ DialledInv
  BY InitStep, DialledInit
<1>2. Inv /\ DialledInv /\ [Next]_vars => Inv' /\ DialledInv'
  BY NextStep, DialledStep
<1> QED
  BY <1>1, <1>2, PTL DEF Spec

LEMMA DialledIsLet ==
  Inv /\ DialledInv /\ (MaxRecords = 1 \/ active.proto # "v2ray") => WhitelistIsDialled
BY DEF Inv, RunsInv, DialledInv, WhitelistIsDialled

(* While a name has one record at a time, the address the kill switch lets through and
   the one routed around the tunnel is the one that is dialled (armKillSwitch, bringUpTun). *)
THEOREM OneAddressIsDialled == ASSUME MaxRecords = 1 PROVE Spec => []WhitelistIsDialled
<1>1. Inv /\ DialledInv => WhitelistIsDialled
  BY DialledIsLet
<1> QED
  BY DialledHolds, <1>1, PTL

(* And whatever its records, unless the core is V2Ray's, which may dial several inbounds of
   one node: each is looked up on its own (pinV2RayNodeAddresses). *)
THEOREM OneRemoteIsDialled == Spec => [](active.proto # "v2ray" => WhitelistIsDialled)
<1>1. Inv /\ DialledInv => (active.proto # "v2ray" => WhitelistIsDialled)
  BY DialledIsLet
<1> QED
  BY DialledHolds, <1>1, PTL

----------------------------------------------------------------------------
(* DNS over HTTPS. *)

(* The first rule that matches decides. *)
Decides(k, c, from, port53) ==
  /\ c.rules \in Seq(Rules) /\ k \in DOMAIN c.rules
  /\ from \in c.rules[k].from /\ (c.rules[k].port53 => port53)
  /\ \A i \in DOMAIN c.rules :
       i < k => ~(from \in c.rules[i].from /\ (c.rules[i].port53 => port53))

LEMMA RoutedBy ==
  ASSUME NEW c, NEW from, NEW port53 \in BOOLEAN, NEW k, Decides(k, c, from, port53)
  PROVE  Routed(c, from, port53) = c.rules[k].to
<1> DEFINE hits == {i \in DOMAIN c.rules : from \in c.rules[i].from
                                           /\ (c.rules[i].port53 => port53)}
<1>1. hits \in SUBSET Nat /\ k \in hits
  BY DEF Decides
<1>2. Min(hits) \in hits /\ \A i \in hits : Min(hits) <= i
  BY <1>1, MinIn
<1>3. Min(hits) = k
  <2>1. Min(hits) \in Nat /\ k \in Nat /\ Min(hits) <= k
    BY <1>1, <1>2
  <2>2. ~(Min(hits) < k)
    BY <1>2 DEF Decides
  <2> QED
    BY <2>1, <2>2
<1>4. Routed(c, from, port53) = c.rules[Min(hits)].to
  BY <1>1 DEF Routed, FirstOr
<1> QED
  BY <1>3, <1>4

LEMMA RoutedByNone ==
  ASSUME NEW c, NEW from, NEW port53 \in BOOLEAN,
         \A i \in DOMAIN c.rules : ~(from \in c.rules[i].from /\ (c.rules[i].port53 => port53))
  PROVE  Routed(c, from, port53) = c.outs[1].tag
BY DEF Routed, FirstOr, Rule

LEMMA RuleIs ==
  ASSUME NEW from \in SUBSET (Inbounds \cup {"dns-module"}), NEW port53 \in BOOLEAN,
         NEW to \in {"api", "balancer", "dns-out", "node", "entry-out", "exit-out"}
  PROVE  /\ Rule(from, port53, to) \in Rules /\ Rule(from, port53, to).from = from
         /\ Rule(from, port53, to).port53 = port53 /\ Rule(from, port53, to).to = to
BY DEF Rule, Rules

LEMMA ProxyRouted ==
  ASSUME NEW s \in Configs, ProxyRouting(s.ins, s.rules), NEW c, c.ins = s.ins,
         c.rules = withV2RayDoH(s).rules
  PROVE  /\ \A t \in c.ins \ {"api"} : Routed(c, t, TRUE) = "dns-out"
         /\ Routed(c, "dns-module", FALSE) = "balancer"
         /\ \A t \in c.ins : Routed(c, t, FALSE) = Routed(s, t, FALSE)
         /\ Routed(c, "api", TRUE) = "api"
<1> DEFINE a1 == Rule({"api"}, FALSE, "api")
           a2 == Rule({"proxy"}, FALSE, "balancer")
           d1 == Rule({"proxy"}, TRUE, "dns-out")
           d2 == Rule({"dns-module"}, FALSE, "balancer")
<1>1. /\ a1 \in Rules /\ a1.from = {"api"} /\ a1.port53 = FALSE /\ a1.to = "api"
      /\ a2 \in Rules /\ a2.from = {"proxy"} /\ a2.port53 = FALSE /\ a2.to = "balancer"
      /\ d1 \in Rules /\ d1.from = {"proxy"} /\ d1.port53 = TRUE /\ d1.to = "dns-out"
      /\ d2 \in Rules /\ d2.from = {"dns-module"} /\ d2.port53 = FALSE /\ d2.to = "balancer"
  BY DEF Rule, Rules, Inbounds
<1>2. s.ins = {"api", "proxy"} /\ s.rules = <<a1, a2>>
  BY DEF ProxyRouting
<1> HIDE DEF a1, a2
<1>3. UserInbounds(s) = {"proxy"}
  BY <1>2 DEF UserInbounds
<1>4. Balanced(s)
  BY <1>1, <1>2, <1>3 DEF Balanced
<1>5. c.rules = <<d1, d2>> \o <<a1, a2>>
  BY <1>2, <1>3, <1>4, DoHIs
<1> HIDE DEF d1, d2
<1>6. /\ c.rules \in Seq(Rules) /\ DOMAIN c.rules = 1..4
      /\ c.rules[1] = d1 /\ c.rules[2] = d2 /\ c.rules[3] = a1 /\ c.rules[4] = a2
  BY <1>1, <1>5
<1>7. s.rules \in Seq(Rules) /\ DOMAIN s.rules = 1..2 /\ s.rules[1] = a1 /\ s.rules[2] = a2
  BY <1>1, <1>2
<1>8. \A i \in 1..4 : i \in {1, 2, 3, 4}
  OBVIOUS
<1>9. Routed(c, "proxy", TRUE) = "dns-out"
  <2>1. 1 \in DOMAIN c.rules /\ \A i \in DOMAIN c.rules : ~(i < 1)
    BY <1>6
  <2>2. "proxy" \in c.rules[1].from /\ (c.rules[1].port53 => TRUE) /\ c.rules[1].to = "dns-out"
    BY <1>1, <1>6
  <2>3. Decides(1, c, "proxy", TRUE)
    BY <1>6, <2>1, <2>2 DEF Decides
  <2> QED
    BY <2>2, <2>3, RoutedBy
<1>10. Routed(c, "dns-module", FALSE) = "balancer"
  <2>1. 2 \in DOMAIN c.rules /\ \A i \in DOMAIN c.rules : i < 2 => i = 1
    BY <1>6, <1>8
  <2>2. /\ "dns-module" \in c.rules[2].from /\ (c.rules[2].port53 => FALSE)
        /\ c.rules[2].to = "balancer" /\ "dns-module" \notin c.rules[1].from
    BY <1>1, <1>6
  <2>3. Decides(2, c, "dns-module", FALSE)
    BY <1>6, <2>1, <2>2 DEF Decides
  <2> QED
    BY <2>2, <2>3, RoutedBy
<1>11. Routed(c, "api", TRUE) = "api" /\ Routed(c, "api", FALSE) = "api"
  <2>1. 3 \in DOMAIN c.rules /\ \A i \in DOMAIN c.rules : i < 3 => i \in {1, 2}
    BY <1>6, <1>8
  <2>2. /\ "api" \in c.rules[3].from /\ (c.rules[3].port53 => FALSE)
        /\ c.rules[3].to = "api" /\ "api" \notin c.rules[1].from /\ "api" \notin c.rules[2].from
    BY <1>1, <1>6
  <2>3. \A i \in DOMAIN c.rules : i < 3 => "api" \notin c.rules[i].from
    BY <2>1, <2>2
  <2>4. Decides(3, c, "api", TRUE) /\ Decides(3, c, "api", FALSE)
    BY <1>6, <2>1, <2>2, <2>3 DEF Decides
  <2> QED
    BY <2>2, <2>4, RoutedBy
<1>12. Routed(c, "proxy", FALSE) = "balancer"
  <2>1. 4 \in DOMAIN c.rules /\ \A i \in DOMAIN c.rules : i < 4 => i \in {1, 2, 3}
    BY <1>6, <1>8
  <2>2. /\ "proxy" \in c.rules[4].from /\ (c.rules[4].port53 => FALSE)
        /\ c.rules[4].to = "balancer" /\ c.rules[1].port53 = TRUE
        /\ "proxy" \notin c.rules[2].from /\ "proxy" \notin c.rules[3].from
    BY <1>1, <1>6
  <2>3. \A i \in DOMAIN c.rules :
          i < 4 => ~("proxy" \in c.rules[i].from /\ (c.rules[i].port53 => FALSE))
    BY <2>1, <2>2
  <2>4. Decides(4, c, "proxy", FALSE)
    BY <1>6, <2>1, <2>2, <2>3 DEF Decides
  <2> QED
    BY <2>2, <2>4, RoutedBy
<1>13. Routed(s, "api", FALSE) = "api"
  <2>1. 1 \in DOMAIN s.rules /\ \A i \in DOMAIN s.rules : ~(i < 1)
    BY <1>7
  <2>2. "api" \in s.rules[1].from /\ (s.rules[1].port53 => FALSE) /\ s.rules[1].to = "api"
    BY <1>1, <1>7
  <2>3. Decides(1, s, "api", FALSE)
    BY <1>7, <2>1, <2>2 DEF Decides
  <2> QED
    BY <2>2, <2>3, RoutedBy
<1>14. Routed(s, "proxy", FALSE) = "balancer"
  <2>1. 2 \in DOMAIN s.rules /\ \A i \in DOMAIN s.rules : i < 2 => i = 1
    BY <1>7
  <2>2. /\ "proxy" \in s.rules[2].from /\ (s.rules[2].port53 => FALSE)
        /\ s.rules[2].to = "balancer" /\ "proxy" \notin s.rules[1].from
    BY <1>1, <1>7
  <2>3. Decides(2, s, "proxy", FALSE)
    BY <1>7, <2>1, <2>2 DEF Decides
  <2> QED
    BY <2>2, <2>3, RoutedBy
<1> QED
  BY <1>2, <1>9, <1>10, <1>11, <1>12, <1>13, <1>14

LEMMA SocksRouted ==
  ASSUME NEW s \in Configs, SocksRouting(s.ins, s.rules), NEW c, c.ins = s.ins,
         c.rules = withV2RayDoH(s).rules, c.outs[1].tag = s.outs[1].tag,
         s.outs[1].tag \in {"node", "entry-out", "exit-out"}
  PROVE  /\ \A t \in c.ins \ {"api"} : Routed(c, t, TRUE) = "dns-out"
         /\ Routed(c, "dns-module", FALSE) = c.outs[1].tag
         /\ \A t \in c.ins : Routed(c, t, FALSE) = Routed(s, t, FALSE)
         /\ "api" \notin c.ins
<1> DEFINE d1 == Rule({"socks"}, TRUE, "dns-out")
           d2 == Rule({"dns-module"}, FALSE, s.outs[1].tag)
<1>1. /\ d1 \in Rules /\ d1.from = {"socks"} /\ d1.port53 = TRUE /\ d1.to = "dns-out"
      /\ d2 \in Rules /\ d2.from = {"dns-module"} /\ d2.port53 = FALSE /\ d2.to = s.outs[1].tag
  BY DEF Rule, Rules, Inbounds
<1>2. s.ins = {"socks"} /\ s.rules = <<>>
  BY DEF SocksRouting
<1>3. UserInbounds(s) = {"socks"}
  BY <1>2 DEF UserInbounds
<1>4. ~Balanced(s)
  BY <1>2 DEF Balanced
<1>5. c.rules = <<d1, d2>>
  <2>1. c.rules = <<d1, d2>> \o <<>>
    BY <1>2, <1>3, <1>4, DoHIs
  <2> HIDE DEF d1, d2
  <2> QED
    BY <1>1, <2>1
<1> HIDE DEF d1, d2
<1>6. c.rules \in Seq(Rules) /\ DOMAIN c.rules = 1..2 /\ c.rules[1] = d1 /\ c.rules[2] = d2
  BY <1>1, <1>5
<1>7. Routed(c, "socks", TRUE) = "dns-out"
  <2>1. 1 \in DOMAIN c.rules /\ \A i \in DOMAIN c.rules : ~(i < 1)
    BY <1>6
  <2>2. "socks" \in c.rules[1].from /\ (c.rules[1].port53 => TRUE) /\ c.rules[1].to = "dns-out"
    BY <1>1, <1>6
  <2>3. Decides(1, c, "socks", TRUE)
    BY <1>6, <2>1, <2>2 DEF Decides
  <2> QED
    BY <2>2, <2>3, RoutedBy
<1>8. Routed(c, "dns-module", FALSE) = c.outs[1].tag
  <2>1. 2 \in DOMAIN c.rules /\ \A i \in DOMAIN c.rules : i < 2 => i = 1
    BY <1>6
  <2>2. /\ "dns-module" \in c.rules[2].from /\ (c.rules[2].port53 => FALSE)
        /\ c.rules[2].to = c.outs[1].tag /\ "dns-module" \notin c.rules[1].from
    BY <1>1, <1>6
  <2>3. Decides(2, c, "dns-module", FALSE)
    BY <1>6, <2>1, <2>2 DEF Decides
  <2> QED
    BY <2>2, <2>3, RoutedBy
<1>9. Routed(c, "socks", FALSE) = c.outs[1].tag
  <2>1. \A i \in DOMAIN c.rules : i \in {1, 2}
    BY <1>6
  <2>2. c.rules[1].port53 = TRUE /\ "socks" \notin c.rules[2].from
    BY <1>1, <1>6
  <2>3. \A i \in DOMAIN c.rules : ~("socks" \in c.rules[i].from /\ (c.rules[i].port53 => FALSE))
    BY <2>1, <2>2
  <2> QED
    BY <2>3, RoutedByNone
<1>10. Routed(s, "socks", FALSE) = s.outs[1].tag
  <2>1. \A i \in DOMAIN s.rules : ~("socks" \in s.rules[i].from /\ (s.rules[i].port53 => FALSE))
    BY <1>2
  <2> QED
    BY <2>1, RoutedByNone
<1>11. \A t \in c.ins : t = "socks"
  BY <1>2
<1> QED
  BY <1>2, <1>7, <1>8, <1>9, <1>10, <1>11

LEMMA DoHRoutes == Inv => DnsThroughTheNode
<1> SUFFICES ASSUME Inv, active # None, active.proto \in JsonCore, active.dns = "doh"
             PROVE  /\ \A t \in active.ins \ {"api"} : Routed(active, t, TRUE) = "dns-out"
                    /\ Routed(active, "dns-module", FALSE) \in {"balancer", active.outs[1].tag}
                    /\ \A t \in active.ins : Routed(active, t, FALSE) = Routed(saved, t, FALSE)
                    /\ "api" \in active.ins => Routed(active, "api", TRUE) = "api"
  BY DEF DnsThroughTheNode
<1>1. /\ StoredInv /\ saved # None /\ Runs(active, saved, cache)
  BY DEF Inv, RunsInv
<1>2. /\ active.proto = saved.proto /\ active.ins = saved.ins /\ DOMAIN active.outs = DOMAIN saved.outs
      /\ active.rules = withV2RayDoH(saved).rules
      /\ \A i \in DOMAIN saved.outs : active.outs[i].tag = saved.outs[i].tag
  BY <1>1 DEF Runs
<1>3. saved \in Configs /\ saved.outs \in Seq(Outs) /\ OneAddress(saved)
  BY <1>1, SavedIs
<1>4. 1 \in DOMAIN saved.outs
  <2>1. PICK i \in DOMAIN saved.outs : TRUE
    BY <1>3, DirectIs DEF OneAddress
  <2> QED
    BY <1>3, <2>1
<1>5. active.outs[1].tag = saved.outs[1].tag /\ saved.outs[1].tag \in {"node", "entry-out", "exit-out"}
  <2>1. saved.outs[1] \in Outs
    BY <1>3, <1>4
  <2> QED
    BY <1>2, <1>4, <2>1 DEF Outs
<1>6. ProxyRouting(saved.ins, saved.rules) \/ SocksRouting(saved.ins, saved.rules)
  <2>1. Routing(saved)
    BY <1>1 DEF StoredInv, Stored
  <2> QED
    BY <1>2, <2>1 DEF Routing, ProxyRouting, SocksRouting
<1>7. CASE ProxyRouting(saved.ins, saved.rules)
  BY <1>2, <1>3, <1>7, ProxyRouted
<1>8. CASE SocksRouting(saved.ins, saved.rules)
  BY <1>2, <1>3, <1>5, <1>8, SocksRouted
<1> QED
  BY <1>6, <1>7, <1>8

(* The user's lookups reach the DNS module, its requests leave by the node, and the rest of
   a core's routing is what was stored (withV2RayDoH). *)
THEOREM DnsLeavesByTheNode == Spec => []DnsThroughTheNode
BY InvHolds, DoHRoutes, PTL
=============================================================================
