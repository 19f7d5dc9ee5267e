-------------------------- MODULE PlanNodes_proofs --------------------------
(* Proofs about the lists of the nodes that serve a plan.                   *)
EXTENDS PlanNodes, TLAPS

(***************************************************************************)
(* Types.                                                                  *)
(***************************************************************************)
(* A call that links or unlinks names a plan and a node: a pane broadcasts   *)
(* it only while a plan is open.                                            *)
CallsNamed ==
    \A i \in DOMAIN calls : calls[i].op \in {"link", "unlink"} =>
                                calls[i].plan \in Plans /\ calls[i].node \in Nodes
Typed == TypeOK /\ CallsNamed

LEMMA LinksOfType == ASSUME NEW plan PROVE LinksOf(plan) \in SUBSET Nodes
BY DEF LinksOf

LEMMA IdsOfCalls == ASSUME TypeOK PROVE DOMAIN calls \subseteq Ids
<1>1. calls \in Seq(CallType) /\ Len(calls) \in Nat /\ MaxCalls \in Nat /\ Len(calls) <= MaxCalls
  BY PlanNodesAssumption DEF TypeOK
<1>2. DOMAIN calls = 1 .. Len(calls)
  BY <1>1
<1> QED
  BY <1>1, <1>2 DEF Ids

LEMMA ReturnedIds == ASSUME TypeOK PROVE Returned \in SUBSET Ids
BY IdsOfCalls DEF Returned

LEMMA ReadTyped ==
    ASSUME TypeOK, NEW plan \in Plans, NEW pane \in Panes \cup {Nothing}
    PROVE  Read(plan, pane) \in ReadType
<1>1. Returned \in SUBSET Ids
  BY ReturnedIds
<1>2. clock \in 0 .. MaxClock /\ 0 \in 0 .. MaxClock
  BY PlanNodesAssumption DEF TypeOK
<1> QED
  BY <1>1, <1>2 DEF Read, ReadType

LEMMA EntryTyped ==
    ASSUME TypeOK, NEW slot \in Slots, reads[slot] # Nothing, reads[slot].list # Nothing
    PROVE  Entry(reads[slot]) \in EntryType
<1>1. reads[slot] \in ReadType
  BY DEF TypeOK
<1>2. Returned \in SUBSET Ids
  BY ReturnedIds
<1> QED
  BY <1>1, <1>2 DEF Entry, EntryType, ReadType, Stamp

LEMMA KnownTyped ==
    ASSUME TypeOK, NEW plan \in Plans PROVE Known(plan) \in (SUBSET Nodes) \cup {Nothing}
BY DEF TypeOK, Known, EntryType

LEMMA ShownTyped ==
    ASSUME NEW plan \in Plans, NEW list \in (SUBSET Nodes) \cup {Nothing}
    PROVE  Shown(plan, list) \in ShownType
BY DEF Shown, ShownType

LEMMA HeardTyped ==
    ASSUME TypeOK, NEW pane \in Panes, NEW plan
    PROVE  Heard(pane, plan) \in [Slots -> ReadType \cup {Nothing}]
<1>1. reads \in [Slots -> ReadType \cup {Nothing}]
  BY DEF TypeOK
<1>2. ASSUME NEW slot \in Slots, reads[slot] # Nothing
      PROVE  [reads[slot] EXCEPT !.pane = Nothing] \in ReadType
  <2>1. reads[slot] \in ReadType
    BY <1>1, <1>2
  <2> QED
    BY <2>1 DEF ReadType
<1> QED
  BY <1>1, <1>2 DEF Heard

LEMMA LoadsTyped ==
    ASSUME TypeOK, NEW pane \in Panes, NEW plan \in Plans,
           NEW rest \in [Slots -> ReadType \cup {Nothing}], Loads(pane, plan, rest)
    PROVE  /\ reads' \in [Slots -> ReadType \cup {Nothing}]
           /\ shown' \in [Panes -> ShownType \cup {Nothing}]
<1>1. CASE AtOnce(plan)
  BY <1>1, KnownTyped, ShownTyped DEF Loads, TypeOK
<1>2. CASE ~AtOnce(plan)
  <2>1. Read(plan, pane) \in ReadType
    BY ReadTyped
  <2>2. [plan |-> plan, list |-> Nothing, loading |-> TRUE] \in ShownType
    BY DEF ShownType
  <2> QED
    BY <1>2, <2>1, <2>2 DEF Loads, TypeOK, Free
<1> QED
  BY <1>1, <1>2

LEMMA BroadcastsTyped ==
    ASSUME Typed, NEW op, NEW plan, NEW node, Broadcasts(op, plan, node),
           op \in {"link", "unlink", "end", "deactivate"},
           plan \in Plans \cup {Nothing}, node \in Nodes \cup {Nothing},
           op \in {"link", "unlink"} => plan \in Plans /\ node \in Nodes
    PROVE  Typed'
<1> DEFINE new == [op |-> op, plan |-> plan, node |-> node, pc |-> "polling", tx |-> "pending"]
<1>1. new \in CallType
  BY DEF CallType
<1>2. calls \in Seq(CallType) /\ calls' = Append(calls, new) /\ Len(calls) < MaxCalls
  BY DEF Typed, TypeOK, Broadcasts
<1>3. calls' \in Seq(CallType) /\ Len(calls') <= MaxCalls
  <2> HIDE DEF new
  <2> QED
    BY <1>1, <1>2, PlanNodesAssumption
<1>4. CallsNamed'
  <2>1. ASSUME NEW i \in DOMAIN calls' PROVE (i \in DOMAIN calls /\ calls'[i] = calls[i]) \/ calls'[i] = new
    <3> HIDE DEF new
    <3>1. /\ Len(calls') = Len(calls) + 1 /\ calls'[Len(calls) + 1] = new
          /\ \A j \in 1 .. Len(calls) : calls'[j] = calls[j]
      BY <1>1, <1>2
    <3>2. DOMAIN calls = 1 .. Len(calls) /\ DOMAIN calls' = 1 .. Len(calls')
      BY <1>2, <1>3
    <3>3. Len(calls) \in Nat
      BY <1>2
    <3> QED
      BY <2>1, <3>1, <3>2, <3>3
  <2> QED
    BY <2>1 DEF CallsNamed, Typed
<1>5. UNCHANGED <<onChain, cache, reads, clock, tunnelUp, panes>>
  BY DEF Broadcasts
<1> QED
  BY <1>3, <1>4, <1>5 DEF Typed, TypeOK, onChain, panes

(* What an answer, or the pane's reading again, writes of a call.            *)
LEMMA CallTyped ==
    ASSUME Typed, NEW i \in DOMAIN calls, NEW pc \in {"ok", "reloaded", "failed"},
           calls' = [calls EXCEPT ![i].pc = pc]
    PROVE  calls' \in Seq(CallType) /\ Len(calls') = Len(calls) /\ CallsNamed'
<1>1. calls \in Seq(CallType)
  BY DEF Typed, TypeOK
<1>a. calls[i] \in CallType
  BY <1>1
<1>2. calls[i] \in CallType /\ [calls[i] EXCEPT !.pc = pc] \in CallType
  BY <1>a DEF CallType
<1>3. calls' \in Seq(CallType) /\ Len(calls') = Len(calls)
  BY <1>1, <1>2
<1>4. CallsNamed'
  BY <1>1, <1>2 DEF CallsNamed, Typed, CallType
<1> QED
  BY <1>3, <1>4

LEMMA ReturnsTyped ==
    ASSUME Typed, NEW i, NEW pc \in {"ok", "failed"}, Returns(i, pc)
    PROVE  /\ calls' \in Seq(CallType) /\ Len(calls') = Len(calls) /\ CallsNamed'
           /\ cache' \in [Plans -> EntryType \cup {Nothing}]
<1>1. i \in DOMAIN calls /\ calls' = [calls EXCEPT ![i].pc = pc]
  BY DEF Returns
<1>2. cache' \in [Plans -> EntryType \cup {Nothing}]
  BY DEF Returns, Invalidates, Typed, TypeOK
<1> QED
  BY <1>1, <1>2, CallTyped

(* The plan the provider's pane reads again is one.                         *)
AskedAgain(i) == IF calls[i].plan = Nothing THEN sel["provider"] ELSE calls[i].plan

LEMMA ReloadsLoads ==
    ASSUME Typed, NEW i, Reloads(i)
    PROVE  \/ UNCHANGED <<reads, shown>>
           \/ AskedAgain(i) \in Plans /\ Loads("provider", AskedAgain(i), reads)
<1>1. i \in DOMAIN calls /\ calls \in Seq(CallType)
  BY DEF Reloads, Typed, TypeOK
<1>2. calls[i] \in CallType
  BY <1>1
<1>3. sel["provider"] # Nothing => AskedAgain(i) \in Plans
  BY <1>2 DEF AskedAgain, Typed, TypeOK, Panes, CallType
<1> QED
  BY <1>3 DEF Reloads, AskedAgain

LEMMA TypedInit == Init => Typed
<1> SUFFICES ASSUME Init PROVE Typed
  OBVIOUS
<1>1. calls \in Seq(CallType) /\ Len(calls) <= MaxCalls /\ CallsNamed
  <2>1. calls = <<>>
    BY DEF Init
  <2>2. calls \in Seq(CallType) /\ Len(calls) = 0
    BY <2>1
  <2>3. DOMAIN calls = 1 .. Len(calls)
    BY <2>2
  <2> QED
    BY <2>2, <2>3, PlanNodesAssumption DEF CallsNamed
<1>2. links \subseteq Plans \X Nodes /\ leased \subseteq Nodes
  BY DEF Init
<1>3. clock \in 0 .. MaxClock /\ tunnelUp \in BOOLEAN
  <2>1. clock = 0 /\ tunnelUp \in BOOLEAN
    BY DEF Init
  <2> QED
    BY <2>1, PlanNodesAssumption
<1>4. /\ cache \in [Plans -> EntryType \cup {Nothing}]
      /\ reads \in [Slots -> ReadType \cup {Nothing}]
      /\ sel \in [Panes -> Plans \cup {Nothing}]
      /\ shown \in [Panes -> ShownType \cup {Nothing}]
  BY DEF Init
<1> QED
  BY <1>1, <1>2, <1>3, <1>4 DEF Typed, TypeOK

LEMMA TypedStep == Typed /\ [Next]_vars => Typed'
<1> SUFFICES ASSUME Typed, [Next]_vars PROVE Typed'
  OBVIOUS
<1> USE PlanNodesAssumption
<1>1. CASE UNCHANGED vars
  BY <1>1 DEF Typed, TypeOK, CallsNamed, vars, onChain, panes
<1>2. CASE Tick
  BY <1>2 DEF Tick, Typed, TypeOK, CallsNamed, onChain, panes
<1>3. CASE TunnelFlips
  BY <1>3 DEF TunnelFlips, Typed, TypeOK, CallsNamed, onChain, panes
<1>4. CASE Deactivates
  BY <1>4, BroadcastsTyped DEF Deactivates
<1>5. ASSUME NEW i \in Ids, Lands(i) PROVE Typed'
  <2>1. calls \in Seq(CallType) /\ i \in DOMAIN calls /\ calls' = [calls EXCEPT ![i].tx = "landed"]
    BY <1>5 DEF Typed, TypeOK, Lands, Pending
  <2>a. calls[i] \in CallType
    BY <2>1
  <2>2. calls[i] \in CallType /\ [calls[i] EXCEPT !.tx = "landed"] \in CallType
    BY <2>a DEF CallType
  <2>3. calls' \in Seq(CallType) /\ Len(calls') = Len(calls)
    BY <2>1, <2>2
  <2>4. CallsNamed'
    BY <2>1, <2>2 DEF CallsNamed, Typed, CallType
  <2>5. links' \subseteq Plans \X Nodes
    <3>1. CASE calls[i].op = "link"
      <4>1. calls[i].plan \in Plans /\ calls[i].node \in Nodes
        BY <2>1, <3>1 DEF Typed, CallsNamed
      <4> QED
        BY <1>5, <3>1, <4>1 DEF Lands, LinksAfter, Typed, TypeOK
    <3>2. CASE calls[i].op # "link"
      <4>1. links' \subseteq links
        BY <1>5, <3>2 DEF Lands, LinksAfter
      <4> QED
        BY <4>1 DEF Typed, TypeOK
    <3> QED
      BY <3>1, <3>2
  <2>6. leased' \subseteq Nodes /\ UNCHANGED <<cache, reads, clock, tunnelUp, panes>>
    BY <1>5 DEF Lands, Typed, TypeOK
  <2> QED
    BY <2>3, <2>4, <2>5, <2>6 DEF Typed, TypeOK, panes
<1>6. ASSUME NEW i \in Ids, Reloads(i) PROVE Typed'
  <2>1. calls' \in Seq(CallType) /\ Len(calls') = Len(calls) /\ CallsNamed'
    BY <1>6, CallTyped DEF Reloads
  <2>2. /\ reads' \in [Slots -> ReadType \cup {Nothing}]
        /\ shown' \in [Panes -> ShownType \cup {Nothing}]
    <3>1. CASE UNCHANGED <<reads, shown>>
      BY <3>1 DEF Typed, TypeOK
    <3>2. CASE AskedAgain(i) \in Plans /\ Loads("provider", AskedAgain(i), reads)
      BY <3>2, LoadsTyped DEF Typed, TypeOK, Panes
    <3> QED
      BY <1>6, <3>1, <3>2, ReloadsLoads
  <2>3. UNCHANGED <<onChain, cache, clock, tunnelUp, sel>>
    BY <1>6 DEF Reloads
  <2> QED
    BY <2>1, <2>2, <2>3 DEF Typed, TypeOK, onChain
<1>7. ASSUME NEW i \in Ids, Succeeds(i) \/ Failed(i) PROVE Typed'
  <2>1. PICK pc \in {"ok", "failed"} : Returns(i, pc)
    BY <1>7 DEF Succeeds, Failed
  <2>2. UNCHANGED <<onChain, reads, clock, tunnelUp, sel, shown>>
    BY <1>7 DEF Succeeds, Failed, Returns
  <2> QED
    BY <2>1, <2>2, ReturnsTyped DEF Typed, TypeOK, onChain
<1>8. ASSUME NEW slot \in Slots, ChainAnswers(slot) PROVE Typed'
  <2>1. LinksOf(reads[slot].plan) \in SUBSET Nodes /\ Landed \in SUBSET Ids
    BY LinksOfType, IdsOfCalls DEF Typed, Landed
  <2>2. reads[slot] \in ReadType
    BY <1>8 DEF ChainAnswers, Typed, TypeOK
  <2>3. [reads[slot] EXCEPT !.list = LinksOf(reads[slot].plan), !.readAt = clock, !.saw = Landed]
            \in ReadType
    BY <2>1, <2>2 DEF ReadType, Typed, TypeOK
  <2>4. reads' \in [Slots -> ReadType \cup {Nothing}]
    BY <1>8, <2>3 DEF ChainAnswers, Typed, TypeOK
  <2> QED
    BY <1>8, <2>4 DEF ChainAnswers, Typed, TypeOK, CallsNamed, onChain, panes
<1>9. ASSUME NEW slot \in Slots, ReadEnds(slot) \/ ReadFails(slot) PROVE Typed'
  <2>1. reads[slot] # Nothing /\ reads[slot] \in ReadType
    BY <1>9 DEF ReadEnds, ReadFails, Typed, TypeOK
  <2>2. reads[slot].plan \in Plans /\ reads[slot].list \in (SUBSET Nodes) \cup {Nothing}
    BY <2>1 DEF ReadType
  <2>3. cache' \in [Plans -> EntryType \cup {Nothing}]
    BY <1>9, <2>1, <2>2, EntryTyped DEF ReadEnds, ReadFails, Typed, TypeOK
  <2>4. shown' \in [Panes -> ShownType \cup {Nothing}]
    <3>1. ASSUME NEW list \in (SUBSET Nodes) \cup {Nothing}, Told(reads[slot].pane, reads[slot].plan, list)
          PROVE  shown' \in [Panes -> ShownType \cup {Nothing}]
      BY <3>1, <2>2, ShownTyped DEF Told, Typed, TypeOK
    <3> QED
      BY <1>9, <2>2, <3>1, KnownTyped DEF ReadEnds, ReadFails, Typed
  <2>5. reads' \in [Slots -> ReadType \cup {Nothing}]
    BY <1>9 DEF ReadEnds, ReadFails, Typed, TypeOK
  <2>6. UNCHANGED <<onChain, calls, clock, tunnelUp, sel>>
    BY <1>9 DEF ReadEnds, ReadFails
  <2> QED
    BY <2>3, <2>4, <2>5, <2>6 DEF Typed, TypeOK, CallsNamed, onChain
<1>10. ASSUME NEW plan \in Plans, Scans(plan) PROVE Typed'
  <2>1. Read(plan, Nothing) \in ReadType
    BY ReadTyped DEF Typed
  <2>2. reads' \in [Slots -> ReadType \cup {Nothing}]
    BY <1>10, <2>1 DEF Scans, Asks, Free, Typed, TypeOK
  <2> QED
    BY <1>10, <2>2 DEF Scans, Typed, TypeOK, CallsNamed, onChain, panes
<1>11. ASSUME NEW plan \in Plans, NEW pane \in Panes, Opens(pane, plan) PROVE Typed'
  <2>1. /\ reads' \in [Slots -> ReadType \cup {Nothing}]
        /\ shown' \in [Panes -> ShownType \cup {Nothing}]
    BY <1>11, HeardTyped, LoadsTyped DEF Opens, Typed
  <2> QED
    BY <1>11, <2>1 DEF Opens, Typed, TypeOK, CallsNamed, onChain
<1>12. ASSUME NEW pane \in Panes, Closes(pane) PROVE Typed'
  <2>1. reads' \in [Slots -> ReadType \cup {Nothing}]
    BY <1>12, HeardTyped DEF Closes, Typed
  <2> QED
    BY <1>12, <2>1 DEF Closes, Typed, TypeOK, CallsNamed, onChain
<1>13. ASSUME NEW node \in Nodes, Links(node) \/ Unlinks(node) \/ EndsLease(node) PROVE Typed'
  <2>1. sel["provider"] # Nothing => sel["provider"] \in Plans
    BY DEF Typed, TypeOK, Panes
  <2>2. CASE Links(node)
    BY <2>1, <2>2, BroadcastsTyped DEF Links
  <2>3. CASE Unlinks(node)
    BY <2>1, <2>3, BroadcastsTyped DEF Unlinks
  <2>4. CASE EndsLease(node)
    BY <2>4, BroadcastsTyped DEF EndsLease
  <2> QED
    BY <1>13, <2>2, <2>3, <2>4
<1> QED
  BY <1>1, <1>2, <1>3, <1>4, <1>5, <1>6, <1>7, <1>8, <1>9, <1>10, <1>11, <1>12, <1>13 DEF Next

(* Every list, read, call and pane keeps its shape: what the chain answers   *)
(* for a plan, what planNodesCache holds of it and what a pane is given.     *)
THEOREM TypeCorrect == Spec => []TypeOK
<1>1. Typed => TypeOK
  BY DEF Typed
<1> QED
  BY <1>1, TypedInit, TypedStep, PTL DEF Spec

(***************************************************************************)
(* A list that is served is recent.                                        *)
(***************************************************************************)
(* A read is stamped when it is asked for, and the chain answers later.      *)
ReadsAsked ==
    \A slot \in Slots : reads[slot] # Nothing =>
        /\ reads[slot].at <= clock
        /\ reads[slot].list # Nothing => reads[slot].at <= reads[slot].readAt
EntriesAsked == \A plan \in Plans : cache[plan] # Nothing => cache[plan].at <= cache[plan].read
RecentInv == Typed /\ ReadsAsked /\ EntriesAsked

LEMMA ReadAsked ==
    ASSUME TypeOK, NEW plan, NEW pane
    PROVE  Read(plan, pane).at <= clock /\ Read(plan, pane).list = Nothing
BY DEF TypeOK, Read

(* What an action that asks the chain, or turns an answer away, does to the  *)
(* reads under way.                                                         *)
OnlyAsks ==
    \A slot \in Slots :
        \/ reads'[slot] = Nothing
        \/ reads'[slot] = reads[slot]
        \/ reads[slot] # Nothing /\ reads'[slot] = [reads[slot] EXCEPT !.pane = Nothing]
        \/ \E plan \in Plans, pane \in Panes \cup {Nothing} : reads'[slot] = Read(plan, pane)

LEMMA OnlyAsksStep ==
    ASSUME Typed, ReadsAsked, OnlyAsks, clock' = clock PROVE ReadsAsked'
<1> SUFFICES ASSUME NEW slot \in Slots, reads'[slot] # Nothing
             PROVE  /\ reads'[slot].at <= clock
                    /\ reads'[slot].list # Nothing => reads'[slot].at <= reads'[slot].readAt
  BY DEF ReadsAsked
<1>1. CASE reads'[slot] = reads[slot]
  BY <1>1 DEF ReadsAsked
<1>2. CASE reads[slot] # Nothing /\ reads'[slot] = [reads[slot] EXCEPT !.pane = Nothing]
  <2>1. reads[slot] \in ReadType
    BY <1>2 DEF Typed, TypeOK
  <2> QED
    BY <1>2, <2>1 DEF ReadsAsked, ReadType
<1>3. CASE \E plan \in Plans, pane \in Panes \cup {Nothing} : reads'[slot] = Read(plan, pane)
  BY <1>3, ReadAsked DEF Typed
<1> QED
  BY <1>1, <1>2, <1>3 DEF OnlyAsks

LEMMA OpensOnlyAsks ==
    ASSUME Typed, NEW pane \in Panes, NEW plan \in Plans, Opens(pane, plan) PROVE OnlyAsks
<1>1. Loads(pane, plan, Heard(pane, plan))
  BY DEF Opens
<1>2. ASSUME NEW slot \in Slots
      PROVE  \/ Heard(pane, plan)[slot] = reads[slot]
             \/ /\ reads[slot] # Nothing
                /\ Heard(pane, plan)[slot] = [reads[slot] EXCEPT !.pane = Nothing]
  BY DEF Heard
<1>3. Heard(pane, plan) \in [Slots -> ReadType \cup {Nothing}]
  BY HeardTyped DEF Typed
<1> QED
  BY <1>1, <1>2, <1>3 DEF Loads, OnlyAsks

LEMMA ReloadsOnlyAsks ==
    ASSUME Typed, NEW i \in Ids, Reloads(i) PROVE OnlyAsks
<1>1. CASE UNCHANGED <<reads, shown>>
  BY <1>1 DEF OnlyAsks
<1>2. CASE AskedAgain(i) \in Plans /\ Loads("provider", AskedAgain(i), reads)
  BY <1>2 DEF Loads, OnlyAsks, Typed, TypeOK, Panes, Free
<1> QED
  BY <1>1, <1>2, ReloadsLoads

LEMMA RecentInit == Init => RecentInv
BY TypedInit DEF Init, RecentInv, ReadsAsked, EntriesAsked

LEMMA RecentStep == RecentInv /\ [Next]_vars => RecentInv'
<1> SUFFICES ASSUME RecentInv, [Next]_vars PROVE ReadsAsked' /\ EntriesAsked'
  BY TypedStep DEF RecentInv
<1> USE DEF RecentInv
<1>1. CASE UNCHANGED vars
  BY <1>1 DEF ReadsAsked, EntriesAsked, vars
<1>2. CASE Tick
  <2>1. clock \in Nat /\ clock' = clock + 1 /\ reads' = reads /\ cache' = cache
    BY <1>2, PlanNodesAssumption DEF Tick, Typed, TypeOK
  <2>2. \A slot \in Slots : reads[slot] # Nothing => reads[slot].at \in Nat
    BY PlanNodesAssumption DEF Typed, TypeOK, ReadType
  <2> QED
    BY <2>1, <2>2 DEF ReadsAsked, EntriesAsked
<1>3. CASE TunnelFlips \/ Deactivates \/ \E i \in Ids : Lands(i)
  BY <1>3 DEF TunnelFlips, Deactivates, Broadcasts, Lands, ReadsAsked, EntriesAsked
<1>4. ASSUME NEW node \in Nodes, Links(node) \/ Unlinks(node) \/ EndsLease(node)
      PROVE  ReadsAsked' /\ EntriesAsked'
  BY <1>4 DEF Links, Unlinks, EndsLease, Broadcasts, ReadsAsked, EntriesAsked
<1>5. ASSUME NEW i \in Ids, Succeeds(i) \/ Failed(i) PROVE ReadsAsked' /\ EntriesAsked'
  <2>1. clock' = clock /\ \A plan \in Plans : cache'[plan] = Nothing \/ cache'[plan] = cache[plan]
    BY <1>5 DEF Succeeds, Failed, Returns, Invalidates, Typed, TypeOK
  <2>2. OnlyAsks
    BY <1>5 DEF Succeeds, Failed, OnlyAsks
  <2> QED
    BY <2>1, <2>2, OnlyAsksStep DEF EntriesAsked
<1>6. ASSUME NEW slot \in Slots, ChainAnswers(slot) PROVE ReadsAsked' /\ EntriesAsked'
  <2>1. reads[slot] \in ReadType
    BY <1>6 DEF ChainAnswers, Typed, TypeOK
  <2>2. /\ reads'[slot].at = reads[slot].at /\ reads'[slot].readAt = clock
        /\ \A other \in Slots \ {slot} : reads'[other] = reads[other]
        /\ clock' = clock /\ cache' = cache
    BY <1>6, <2>1 DEF ChainAnswers, Typed, TypeOK, ReadType
  <2>3. reads[slot].at <= clock
    BY <1>6 DEF ChainAnswers, ReadsAsked
  <2> QED
    BY <2>2, <2>3 DEF ReadsAsked, EntriesAsked
<1>7. ASSUME NEW slot \in Slots, ReadEnds(slot) \/ ReadFails(slot) PROVE ReadsAsked' /\ EntriesAsked'
  <2>1. reads[slot] # Nothing /\ clock' = clock
    BY <1>7 DEF ReadEnds, ReadFails
  <2>2. OnlyAsks
    BY <1>7 DEF ReadEnds, ReadFails, OnlyAsks, Typed, TypeOK
  <2>3. EntriesAsked'
    <3>1. CASE ReadFails(slot)
      BY <3>1 DEF ReadFails, EntriesAsked
    <3>2. CASE ReadEnds(slot)
      <4>1. Entry(reads[slot]).at <= Entry(reads[slot]).read
        BY <3>2 DEF ReadEnds, ReadsAsked, Entry, Stamp
      <4>2. cache' = [cache EXCEPT ![reads[slot].plan] = Entry(reads[slot])]
        BY <3>2 DEF ReadEnds
      <4> HIDE DEF RecentInv
      <4> QED
        BY <4>1, <4>2 DEF EntriesAsked, RecentInv, Typed, TypeOK
    <3> QED
      BY <1>7, <3>1, <3>2
  <2> QED
    BY <2>1, <2>2, <2>3, OnlyAsksStep
<1>8. ASSUME NEW plan \in Plans, Scans(plan) PROVE ReadsAsked' /\ EntriesAsked'
  <2>1. OnlyAsks
    BY <1>8 DEF Scans, Asks, Free, OnlyAsks, Typed, TypeOK
  <2> QED
    BY <1>8, <2>1, OnlyAsksStep DEF Scans, EntriesAsked
<1>9. ASSUME NEW plan \in Plans, NEW pane \in Panes, Opens(pane, plan) PROVE ReadsAsked' /\ EntriesAsked'
  BY <1>9, OpensOnlyAsks, OnlyAsksStep DEF Opens, EntriesAsked
<1>10. ASSUME NEW pane \in Panes, Closes(pane) PROVE ReadsAsked' /\ EntriesAsked'
  <2>1. OnlyAsks
    BY <1>10 DEF Closes, Heard, OnlyAsks
  <2> QED
    BY <1>10, <2>1, OnlyAsksStep DEF Closes, EntriesAsked
<1>11. ASSUME NEW i \in Ids, Reloads(i) PROVE ReadsAsked' /\ EntriesAsked'
  BY <1>11, ReloadsOnlyAsks, OnlyAsksStep DEF Reloads, EntriesAsked
<1> QED
  BY <1>1, <1>2, <1>3, <1>4, <1>5, <1>6, <1>7, <1>8, <1>9, <1>10, <1>11 DEF Next

(* A list that listNodesForPlan answers from planNodesCache was on chain     *)
(* less than ten minutes ago, however long the query that read it took.     *)
THEOREM ServedListIsRecent == Spec => []ServedIsRecent
<1>1. RecentInv => ServedIsRecent
  <2> SUFFICES ASSUME RecentInv, NEW plan \in Plans, Fresh(plan)
               PROVE  clock - cache[plan].read < TTL
    BY DEF ServedIsRecent
  <2>1. cache[plan] \in EntryType
    BY DEF Fresh, RecentInv, Typed, TypeOK
  <2>2. cache[plan].at \in Int /\ cache[plan].read \in Int /\ clock \in Int /\ TTL \in Int
    BY <2>1, PlanNodesAssumption DEF EntryType, RecentInv, Typed, TypeOK
  <2>3. clock - cache[plan].at < TTL /\ cache[plan].at <= cache[plan].read
    BY DEF Fresh, RecentInv, EntriesAsked
  <2> QED
    BY <2>2, <2>3
<1> QED
  BY <1>1, RecentInit, RecentStep, PTL DEF Spec

(***************************************************************************)
(* An answered call leaves no list from before.                            *)
(***************************************************************************)
(* What a call drops covers what it can change.  A good answer means that    *)
(* the transaction is on chain; a read knows of every call answered well     *)
(* before it was asked for; and so does what is kept.                       *)
OkLanded ==
    \A i \in DOMAIN calls : calls[i].pc \in {"ok", "reloaded"} => calls[i].tx = "landed"
ReadsSee ==
    \A slot \in Slots : reads[slot] # Nothing =>
        /\ reads[slot].asked \subseteq Returned
        /\ reads[slot].list # Nothing =>
               \A i \in reads[slot].asked : i \in reads[slot].saw \/ calls[i].pc = "failed"
KeptSee ==
    \A i \in Returned, plan \in Plans :
        plan \in Drops(calls[i]) /\ cache[plan] # Nothing =>
            \/ i \in cache[plan].saw
            \/ /\ i \in cache[plan].wrote
               /\ i \in cache[plan].asked => calls[i].pc = "failed"
DropInv == Typed /\ OkLanded /\ ReadsSee /\ KeptSee

LEMMA DropsCoverChanges ==
    ASSUME NEW c, NEW plan \in Plans, Changes(c, plan) PROVE plan \in Drops(c)
<1>1. CASE c.op \in {"link", "unlink"}
  <2>1. PICK before \in SUBSET (Plans \X Nodes) : \E node \in Nodes :
            (<<plan, node>> \in LinksAfter(c, before)) # (<<plan, node>> \in before)
    BY DEF Changes
  <2>2. c.plan = plan
    BY <1>1, <2>1 DEF LinksAfter
  <2> QED
    BY <1>1, <2>2 DEF Drops
<1>2. CASE c.op \notin {"link", "unlink"}
  BY <1>2 DEF Drops
<1> QED
  BY <1>1, <1>2

(* A step under which answered calls stay what they are.                    *)
CallsKeep ==
    \A i \in Returned : /\ i \in Returned' /\ Drops(calls'[i]) = Drops(calls[i])
                        /\ calls'[i].pc = "failed" <=> calls[i].pc = "failed"

LEMMA ReadsStay == ASSUME DropInv, CallsKeep, OnlyAsks PROVE ReadsSee'
<1> SUFFICES ASSUME NEW slot \in Slots, reads'[slot] # Nothing
             PROVE  /\ reads'[slot].asked \subseteq Returned'
                    /\ reads'[slot].list # Nothing =>
                         \A i \in reads'[slot].asked :
                             i \in reads'[slot].saw \/ calls'[i].pc = "failed"
  BY DEF ReadsSee
<1>1. CASE /\ reads[slot] # Nothing /\ reads'[slot].asked = reads[slot].asked
           /\ reads'[slot].list = reads[slot].list /\ reads'[slot].saw = reads[slot].saw
  BY <1>1 DEF DropInv, ReadsSee, CallsKeep
<1>2. CASE reads[slot] # Nothing /\ reads'[slot] = [reads[slot] EXCEPT !.pane = Nothing]
  <2>1. reads[slot] \in ReadType
    BY <1>2 DEF DropInv, Typed, TypeOK
  <2> QED
    BY <1>1, <1>2, <2>1 DEF ReadType
<1>3. CASE \E plan \in Plans, pane \in Panes \cup {Nothing} : reads'[slot] = Read(plan, pane)
  BY <1>3 DEF Read, CallsKeep
<1> QED
  BY <1>1, <1>2, <1>3 DEF OnlyAsks

LEMMA KeptStays ==
    ASSUME KeptSee, CallsKeep,
           \A plan \in Plans : cache'[plan] = Nothing \/ cache'[plan] = cache[plan],
           \A i \in Returned' \ Returned : \A plan \in Drops(calls'[i]) : cache'[plan] = Nothing
    PROVE  KeptSee'
<1> SUFFICES ASSUME NEW i \in Returned', NEW plan \in Plans,
                    plan \in Drops(calls'[i]), cache'[plan] # Nothing
             PROVE  \/ i \in cache'[plan].saw
                    \/ /\ i \in cache'[plan].wrote
                       /\ i \in cache'[plan].asked => calls'[i].pc = "failed"
  BY DEF KeptSee, Drops
<1>1. i \in Returned /\ cache'[plan] = cache[plan]
  OBVIOUS
<1> QED
  BY <1>1 DEF KeptSee, CallsKeep

LEMMA SameCalls == ASSUME calls' = calls, OkLanded PROVE CallsKeep /\ OkLanded' /\ Returned' = Returned
BY DEF CallsKeep, OkLanded, Returned, Drops

(* Nothing but reads asked for, or turned away, or ended.                   *)
LEMMA OnlyReadsDrop ==
    ASSUME DropInv, calls' = calls, cache' = cache, OnlyAsks
    PROVE  OkLanded' /\ ReadsSee' /\ KeptSee'
BY SameCalls, ReadsStay, KeptStays DEF DropInv

LEMMA BroadcastsDrops ==
    ASSUME DropInv, NEW op, NEW plan, NEW node, Broadcasts(op, plan, node)
    PROVE  OkLanded' /\ ReadsSee' /\ KeptSee'
<1> DEFINE new == [op |-> op, plan |-> plan, node |-> node, pc |-> "polling", tx |-> "pending"]
<1>1. calls' = Append(calls, new) /\ calls \in Seq(CallType) /\ new.pc = "polling"
      /\ cache' = cache /\ reads' = reads
  BY DEF Broadcasts, DropInv, Typed, TypeOK
<1>2. DOMAIN calls' = DOMAIN calls \cup {Len(calls) + 1} /\ calls'[Len(calls) + 1].pc = "polling"
      /\ \A i \in DOMAIN calls : calls'[i] = calls[i]
  <2> HIDE DEF new
  <2> QED
    BY <1>1
<1>3. OkLanded'
  BY <1>2 DEF OkLanded, DropInv
<1>4. CallsKeep /\ Returned' \subseteq Returned
  BY <1>2 DEF CallsKeep, Returned, Drops
<1>5. OnlyAsks
  BY <1>1 DEF OnlyAsks
<1> QED
  BY <1>1, <1>3, <1>4, <1>5, ReadsStay, KeptStays DEF DropInv

(* What changes one field of one call.                                      *)
LEMMA CallKept ==
    ASSUME Typed, NEW i \in DOMAIN calls, NEW pc, NEW tx,
           calls' = [calls EXCEPT ![i].pc = pc] \/ calls' = [calls EXCEPT ![i].tx = tx]
    PROVE  /\ DOMAIN calls' = DOMAIN calls
           /\ \A j \in DOMAIN calls : calls'[j].op = calls[j].op /\ calls'[j].plan = calls[j].plan
           /\ \A j \in DOMAIN calls : j # i => calls'[j] = calls[j]
           /\ calls' = [calls EXCEPT ![i].pc = pc] => calls'[i].pc = pc /\ calls'[i].tx = calls[i].tx
           /\ calls' = [calls EXCEPT ![i].tx = tx] => calls'[i].tx = tx /\ calls'[i].pc = calls[i].pc
<1>1. calls \in Seq(CallType)
  BY DEF Typed, TypeOK
<1>2. calls[i] \in CallType
  BY <1>1
<1> QED
  BY <1>1, <1>2 DEF CallType

LEMMA LandsDrops ==
    ASSUME DropInv, NEW i, Lands(i) PROVE OkLanded' /\ ReadsSee' /\ KeptSee'
<1>1. i \in DOMAIN calls /\ calls' = [calls EXCEPT ![i].tx = "landed"]
      /\ cache' = cache /\ reads' = reads
  BY DEF Lands, Pending
<1>2. /\ DOMAIN calls' = DOMAIN calls
      /\ \A j \in DOMAIN calls : calls'[j].op = calls[j].op /\ calls'[j].plan = calls[j].plan
      /\ \A j \in DOMAIN calls : j # i => calls'[j] = calls[j]
      /\ calls'[i].tx = "landed" /\ calls'[i].pc = calls[i].pc
  BY <1>1, CallKept DEF DropInv
<1>3. OkLanded'
  BY <1>2 DEF OkLanded, DropInv
<1>4. CallsKeep /\ Returned' = Returned
  BY <1>2 DEF CallsKeep, Returned, Drops
<1>5. OnlyAsks
  BY <1>1 DEF OnlyAsks
<1> QED
  BY <1>1, <1>3, <1>4, <1>5, ReadsStay, KeptStays DEF DropInv

LEMMA ReturnsDrops ==
    ASSUME DropInv, NEW i, NEW pc \in {"ok", "failed"}, Returns(i, pc), reads' = reads,
           pc = "ok" => i \in Landed
    PROVE  OkLanded' /\ ReadsSee' /\ KeptSee'
<1>1. i \in DOMAIN calls /\ calls[i].pc = "polling" /\ calls' = [calls EXCEPT ![i].pc = pc]
  BY DEF Returns
<1>2. /\ DOMAIN calls' = DOMAIN calls
      /\ \A j \in DOMAIN calls : calls'[j].op = calls[j].op /\ calls'[j].plan = calls[j].plan
      /\ \A j \in DOMAIN calls : j # i => calls'[j] = calls[j]
      /\ calls'[i].pc = pc /\ calls'[i].tx = calls[i].tx
  BY <1>1, CallKept DEF DropInv
<1>3. OkLanded'
  BY <1>2 DEF OkLanded, DropInv, Landed
<1>4. CallsKeep /\ Returned' = Returned \cup {i} /\ i \notin Returned
  BY <1>1, <1>2 DEF CallsKeep, Returned, Drops
<1>5. \A plan \in Plans : cache'[plan] = IF plan \in Drops(calls[i]) THEN Nothing ELSE cache[plan]
  BY DEF Returns, Invalidates
<1>6. \A plan \in Drops(calls'[i]) : cache'[plan] = Nothing
  <2>1. Drops(calls'[i]) = Drops(calls[i])
    BY <1>1, <1>2 DEF Drops
  <2>2. Drops(calls[i]) \subseteq Plans
    BY <1>1 DEF Drops, DropInv, Typed, CallsNamed
  <2> QED
    BY <1>5, <2>1, <2>2
<1>7. OnlyAsks
  BY DEF OnlyAsks
<1>8. KeptSee'
  BY <1>4, <1>5, <1>6, KeptStays DEF DropInv
<1> QED
  BY <1>3, <1>4, <1>7, <1>8, ReadsStay

LEMMA ReloadsDrops ==
    ASSUME DropInv, NEW i \in Ids, Reloads(i) PROVE OkLanded' /\ ReadsSee' /\ KeptSee'
<1>1. i \in DOMAIN calls /\ calls[i].pc = "ok" /\ calls' = [calls EXCEPT ![i].pc = "reloaded"]
      /\ cache' = cache
  BY DEF Reloads
<1>2. /\ DOMAIN calls' = DOMAIN calls
      /\ \A j \in DOMAIN calls : calls'[j].op = calls[j].op /\ calls'[j].plan = calls[j].plan
      /\ \A j \in DOMAIN calls : j # i => calls'[j] = calls[j]
      /\ calls'[i].pc = "reloaded" /\ calls'[i].tx = calls[i].tx
  BY <1>1, CallKept DEF DropInv
<1>3. OkLanded'
  BY <1>1, <1>2 DEF OkLanded, DropInv
<1>4. CallsKeep /\ Returned' = Returned
  BY <1>1, <1>2 DEF CallsKeep, Returned, Drops
<1>5. OnlyAsks
  BY ReloadsOnlyAsks DEF DropInv
<1> QED
  BY <1>1, <1>3, <1>4, <1>5, ReadsStay, KeptStays DEF DropInv

(* The chain answers a read with every transaction it has: whatever call was *)
(* answered well before the read was asked for is among them.               *)
LEMMA AnswersSee ==
    ASSUME DropInv, NEW slot \in Slots, ChainAnswers(slot)
    PROVE  OkLanded' /\ ReadsSee' /\ KeptSee'
<1>1. reads[slot] \in ReadType /\ calls' = calls /\ cache' = cache
  BY DEF ChainAnswers, DropInv, Typed, TypeOK
<1>2. /\ reads'[slot].asked = reads[slot].asked /\ reads'[slot].saw = Landed
      /\ \A other \in Slots \ {slot} : reads'[other] = reads[other]
      /\ reads[slot] # Nothing
  BY <1>1 DEF ChainAnswers, DropInv, Typed, TypeOK, ReadType
<1>3. ASSUME NEW i \in reads[slot].asked PROVE i \in Landed \/ calls[i].pc = "failed"
  <2>1. i \in DOMAIN calls /\ calls[i].pc # "polling"
    BY <1>2, <1>3 DEF DropInv, ReadsSee, Returned
  <2>2. calls[i] \in CallType
    BY <2>1 DEF DropInv, Typed, TypeOK
  <2> QED
    BY <2>1, <2>2 DEF CallType, DropInv, OkLanded, Landed
<1>4. CallsKeep /\ OkLanded' /\ Returned' = Returned
  BY <1>1, SameCalls DEF DropInv
<1>5. ReadsSee'
  BY <1>1, <1>2, <1>3, <1>4 DEF ReadsSee, DropInv
<1>6. KeptSee'
  BY <1>1, <1>4, KeptStays DEF DropInv
<1> QED
  BY <1>4, <1>5, <1>6

LEMMA EndsKeep ==
    ASSUME DropInv, NEW slot \in Slots, ReadEnds(slot)
    PROVE  OkLanded' /\ ReadsSee' /\ KeptSee'
<1>1. cache' = [cache EXCEPT ![reads[slot].plan] = Entry(reads[slot])] /\ calls' = calls
      /\ reads[slot] # Nothing /\ reads[slot].list # Nothing
      /\ reads' = [reads EXCEPT ![slot] = Nothing]
  BY DEF ReadEnds
<1>2. CallsKeep /\ OkLanded' /\ Returned' = Returned
  BY <1>1, SameCalls DEF DropInv
<1>3. OnlyAsks
  BY <1>1 DEF OnlyAsks, DropInv, Typed, TypeOK
<1>4. KeptSee'
  <2> DEFINE new == Entry(reads[slot])
  <2>1. /\ new.wrote = Returned /\ new.saw = reads[slot].saw /\ new.asked = reads[slot].asked
    BY DEF Entry
  <2>2. \A plan \in Plans : cache'[plan] = cache[plan] \/ cache'[plan] = new
    BY <1>1 DEF DropInv, Typed, TypeOK
  <2>3. \A i \in Returned : i \in new.saw \/ (i \in new.asked => calls[i].pc = "failed")
    BY <1>1, <2>1 DEF DropInv, ReadsSee
  <2>4. \A i \in Returned : Drops(calls'[i]) = Drops(calls[i]) /\ calls'[i].pc = calls[i].pc
    BY <1>1
  <2> HIDE DEF new
  <2>5. KeptSee
    BY DEF DropInv
  <2> SUFFICES ASSUME NEW i \in Returned, NEW plan \in Plans,
                      plan \in Drops(calls[i]), cache'[plan] # Nothing
               PROVE  \/ i \in cache'[plan].saw
                      \/ /\ i \in cache'[plan].wrote
                         /\ i \in cache'[plan].asked => calls[i].pc = "failed"
    BY <1>1, <1>2, <2>4 DEF KeptSee, Drops
  <2> QED
    BY <2>1, <2>2, <2>3, <2>5 DEF KeptSee
<1> QED
  BY <1>2, <1>3, <1>4, ReadsStay

LEMMA DropInit == Init => DropInv
<1> SUFFICES ASSUME Init PROVE OkLanded /\ ReadsSee /\ KeptSee
  BY TypedInit DEF DropInv
<1>1. \A slot \in Slots : reads[slot] = Nothing
  BY DEF Init
<1>2. calls \in Seq(CallType) /\ Len(calls) = 0
  <2>1. calls = <<>>
    BY DEF Init
  <2> QED
    BY <2>1
<1>3. DOMAIN calls = {}
  BY <1>2
<1> QED
  BY <1>1, <1>3 DEF OkLanded, ReadsSee, KeptSee, Returned

LEMMA DropStep == DropInv /\ [Next]_vars => DropInv'
<1> SUFFICES ASSUME DropInv, [Next]_vars PROVE OkLanded' /\ ReadsSee' /\ KeptSee'
  BY TypedStep DEF DropInv
<1>t. Typed
  BY DEF DropInv
<1>1. CASE UNCHANGED vars \/ Tick \/ TunnelFlips
  <2>1. OnlyAsks /\ calls' = calls /\ cache' = cache
    BY <1>1 DEF vars, Tick, TunnelFlips, OnlyAsks
  <2> QED
    BY <2>1, OnlyReadsDrop
<1>2. CASE Deactivates
  BY <1>2, BroadcastsDrops DEF Deactivates
<1>3. ASSUME NEW i \in Ids, Lands(i) PROVE OkLanded' /\ ReadsSee' /\ KeptSee'
  BY <1>3, LandsDrops
<1>4. ASSUME NEW i \in Ids, Succeeds(i) \/ Failed(i) PROVE OkLanded' /\ ReadsSee' /\ KeptSee'
  <2>1. CASE Succeeds(i)
    BY <2>1, ReturnsDrops DEF Succeeds
  <2>2. CASE Failed(i)
    BY <2>2, ReturnsDrops DEF Failed
  <2> QED
    BY <1>4, <2>1, <2>2
<1>5. ASSUME NEW i \in Ids, Reloads(i) PROVE OkLanded' /\ ReadsSee' /\ KeptSee'
  BY <1>5, ReloadsDrops
<1>6. ASSUME NEW slot \in Slots, ChainAnswers(slot) PROVE OkLanded' /\ ReadsSee' /\ KeptSee'
  BY <1>6, AnswersSee
<1>7. ASSUME NEW slot \in Slots, ReadEnds(slot) PROVE OkLanded' /\ ReadsSee' /\ KeptSee'
  BY <1>7, EndsKeep
<1>8. ASSUME NEW slot \in Slots, ReadFails(slot) PROVE OkLanded' /\ ReadsSee' /\ KeptSee'
  <2>1. OnlyAsks /\ calls' = calls /\ cache' = cache
    BY <1>t, <1>8 DEF ReadFails, OnlyAsks, Typed, TypeOK
  <2> QED
    BY <2>1, OnlyReadsDrop
<1>9. ASSUME NEW plan \in Plans, Scans(plan) PROVE OkLanded' /\ ReadsSee' /\ KeptSee'
  <2>1. OnlyAsks /\ calls' = calls /\ cache' = cache
    BY <1>t, <1>9 DEF Scans, Asks, Free, OnlyAsks, Typed, TypeOK
  <2> QED
    BY <2>1, OnlyReadsDrop
<1>10. ASSUME NEW plan \in Plans, NEW pane \in Panes, Opens(pane, plan)
       PROVE  OkLanded' /\ ReadsSee' /\ KeptSee'
  BY <1>t, <1>10, OpensOnlyAsks, OnlyReadsDrop DEF Opens
<1>11. ASSUME NEW pane \in Panes, Closes(pane) PROVE OkLanded' /\ ReadsSee' /\ KeptSee'
  <2>1. OnlyAsks /\ calls' = calls /\ cache' = cache
    BY <1>11 DEF Closes, Heard, OnlyAsks
  <2> QED
    BY <2>1, OnlyReadsDrop
<1>12. ASSUME NEW node \in Nodes, Links(node) \/ Unlinks(node) \/ EndsLease(node)
       PROVE  OkLanded' /\ ReadsSee' /\ KeptSee'
  BY <1>12, BroadcastsDrops DEF Links, Unlinks, EndsLease
<1> QED
  BY <1>1, <1>2, <1>3, <1>4, <1>5, <1>6, <1>7, <1>8, <1>9, <1>10, <1>11, <1>12 DEF Next

(* Once a provider call has been answered, well or not, a kept list without  *)
(* its change is of a read that straddled the answer, or was asked for after *)
(* an answer that could not say the transaction landed.                     *)
THEOREM AnswersDropOldLists == Spec => []ReturnsDropOldLists
<1>1. DropInv => ReturnsDropOldLists
  BY DropsCoverChanges DEF DropInv, KeptSee, ReturnsDropOldLists
<1> QED
  BY <1>1, DropInit, DropStep, PTL DEF Spec

(***************************************************************************)
(* The catalog's pane.                                                     *)
(***************************************************************************)
(* The reads that still answer the pane are of the plan it is open on, and   *)
(* so is what it shows.                                                     *)
Listens(slot) ==
    reads[slot] # Nothing /\ reads[slot].pane # Nothing /\ reads[slot].pane = "catalog"
ListensToItsPlan == \A slot \in Slots : Listens(slot) => reads[slot].plan = sel["catalog"]
ShowsItsPlan == shown["catalog"] # Nothing => shown["catalog"].plan = sel["catalog"]
CatalogInv == Typed /\ ListensToItsPlan /\ ShowsItsPlan

(* A read added for nobody, or for the provider's pane, changes nothing.     *)
LEMMA OthersRead ==
    ASSUME CatalogInv, sel'["catalog"] = sel["catalog"], shown'["catalog"] = shown["catalog"],
           \A slot \in Slots :
               \/ reads'[slot] = Nothing \/ reads'[slot] = reads[slot]
               \/ reads'[slot].pane \in {Nothing, "provider"}
    PROVE  ListensToItsPlan' /\ ShowsItsPlan'
BY DEF CatalogInv, ListensToItsPlan, ShowsItsPlan, Listens

LEMMA HeardCatalog ==
    ASSUME Typed, NEW plan, NEW slot \in Slots, Heard("catalog", plan)[slot] # Nothing,
           Heard("catalog", plan)[slot].pane = "catalog"
    PROVE  Nothing = "catalog"
<1>1. Heard("catalog", plan)[slot] =
          IF reads[slot] # Nothing /\ reads[slot].pane = "catalog"
          THEN [reads[slot] EXCEPT !.pane = Nothing] ELSE reads[slot]
  BY DEF Heard, Turned
<1>2. reads[slot] # Nothing => reads[slot] \in ReadType
  BY DEF Typed, TypeOK
<1> QED
  BY <1>1, <1>2 DEF ReadType

LEMMA CatalogInit == Init => CatalogInv
BY TypedInit DEF Init, CatalogInv, ListensToItsPlan, ShowsItsPlan, Listens, Panes

LEMMA CatalogStep == CatalogInv /\ [Next]_vars => CatalogInv'
<1> SUFFICES ASSUME CatalogInv, [Next]_vars PROVE ListensToItsPlan' /\ ShowsItsPlan'
  BY TypedStep DEF CatalogInv
<1>1. CASE reads' = reads /\ panes' = panes
  BY <1>1, OthersRead DEF panes
<1>2. CASE UNCHANGED vars \/ Tick \/ TunnelFlips \/ Deactivates \/ \E i \in Ids : Lands(i)
  BY <1>1, <1>2 DEF vars, Tick, TunnelFlips, Deactivates, Broadcasts, Lands
<1>3. ASSUME NEW node \in Nodes, Links(node) \/ Unlinks(node) \/ EndsLease(node)
      PROVE  ListensToItsPlan' /\ ShowsItsPlan'
  BY <1>1, <1>3 DEF Links, Unlinks, EndsLease, Broadcasts
<1>4. ASSUME NEW i \in Ids, Reloads(i) PROVE ListensToItsPlan' /\ ShowsItsPlan'
  <2>1. sel' = sel
    BY <1>4 DEF Reloads
  <2>2. CASE UNCHANGED <<reads, shown>>
    BY <1>1, <2>1, <2>2 DEF panes
  <2>3. CASE AskedAgain(i) \in Plans /\ Loads("provider", AskedAgain(i), reads)
    <3>1. shown'["catalog"] = shown["catalog"]
      BY <2>3 DEF Loads, CatalogInv, Typed, TypeOK, Panes
    <3>2. \A slot \in Slots : reads'[slot] = reads[slot] \/ reads'[slot].pane = "provider"
      BY <2>3 DEF Loads, Read, CatalogInv, Typed, TypeOK
    <3> QED
      BY <2>1, <3>1, <3>2, OthersRead
  <2> QED
    BY <1>4, <2>2, <2>3, ReloadsLoads DEF CatalogInv
<1>5. ASSUME NEW i \in Ids, Succeeds(i) \/ Failed(i) PROVE ListensToItsPlan' /\ ShowsItsPlan'
  BY <1>1, <1>5 DEF Succeeds, Failed, Returns, panes
<1>6. ASSUME NEW slot \in Slots, ChainAnswers(slot) PROVE ListensToItsPlan' /\ ShowsItsPlan'
  <2>1. reads[slot] \in ReadType
    BY <1>6 DEF ChainAnswers, CatalogInv, Typed, TypeOK
  <2>2. /\ reads'[slot].pane = reads[slot].pane /\ reads'[slot].plan = reads[slot].plan
        /\ \A other \in Slots \ {slot} : reads'[other] = reads[other]
        /\ reads[slot] # Nothing /\ panes' = panes
    BY <1>6, <2>1 DEF ChainAnswers, CatalogInv, Typed, TypeOK, ReadType
  <2> QED
    BY <2>2 DEF panes, CatalogInv, ListensToItsPlan, ShowsItsPlan, Listens
<1>7. ASSUME NEW slot \in Slots, ReadEnds(slot) \/ ReadFails(slot)
      PROVE  ListensToItsPlan' /\ ShowsItsPlan'
  <2>1. reads[slot] # Nothing /\ sel' = sel /\ reads' = [reads EXCEPT ![slot] = Nothing]
    BY <1>7 DEF ReadEnds, ReadFails
  <2>2. ListensToItsPlan'
    BY <2>1 DEF ListensToItsPlan, Listens, CatalogInv, Typed, TypeOK
  <2>3. PICK list : Told(reads[slot].pane, reads[slot].plan, list)
    BY <1>7 DEF ReadEnds, ReadFails
  <2>4. CASE reads[slot].pane # Nothing /\ reads[slot].pane = "catalog"
    <3>1. shown'["catalog"].plan = reads[slot].plan
      BY <2>3, <2>4 DEF Told, Shown, CatalogInv, Typed, TypeOK, Panes
    <3>2. reads[slot].plan = sel["catalog"]
      BY <2>1, <2>4 DEF CatalogInv, ListensToItsPlan, Listens
    <3> QED
      BY <2>1, <2>2, <3>1, <3>2 DEF ShowsItsPlan
  <2>5. CASE ~(reads[slot].pane # Nothing /\ reads[slot].pane = "catalog")
    <3>1. shown'["catalog"] = shown["catalog"]
      BY <2>3, <2>5 DEF Told, CatalogInv, Typed, TypeOK, Panes
    <3> QED
      BY <2>1, <2>2, <3>1 DEF ShowsItsPlan, CatalogInv
  <2> QED
    BY <2>4, <2>5
<1>8. ASSUME NEW plan \in Plans, Scans(plan) PROVE ListensToItsPlan' /\ ShowsItsPlan'
  <2>1. \A slot \in Slots : reads'[slot] = reads[slot] \/ reads'[slot].pane = Nothing
    BY <1>8 DEF Scans, Asks, Read, CatalogInv, Typed, TypeOK
  <2> QED
    BY <1>8, <2>1, OthersRead DEF Scans, panes
<1>9. ASSUME NEW plan \in Plans, Opens("provider", plan) PROVE ListensToItsPlan' /\ ShowsItsPlan'
  <2>1. Heard("provider", plan) = reads
    BY PlanNodesAssumption DEF Heard, Turned
  <2>2. sel'["catalog"] = sel["catalog"] /\ shown'["catalog"] = shown["catalog"]
    BY <1>9 DEF Opens, Loads, CatalogInv, Typed, TypeOK, Panes
  <2>3. \A slot \in Slots : reads'[slot] = reads[slot] \/ reads'[slot].pane = "provider"
    BY <1>9, <2>1 DEF Opens, Loads, Read, CatalogInv, Typed, TypeOK
  <2> QED
    BY <2>2, <2>3, OthersRead
<1>10. ASSUME NEW plan \in Plans, Opens("catalog", plan) PROVE ListensToItsPlan' /\ ShowsItsPlan'
  <2>1. sel'["catalog"] = plan
    BY <1>10 DEF Opens, CatalogInv, Typed, TypeOK, Panes
  <2>2. shown'["catalog"].plan = plan
    BY <1>10 DEF Opens, Loads, Shown, CatalogInv, Typed, TypeOK, Panes
  <2>3. Heard("catalog", plan) \in [Slots -> ReadType \cup {Nothing}]
    BY HeardTyped DEF CatalogInv, Typed, Panes
  <2>4. ASSUME NEW slot \in Slots
        PROVE  \/ reads'[slot] = Heard("catalog", plan)[slot]
               \/ reads'[slot].plan = plan
    BY <1>10, <2>3 DEF Opens, Loads, Read
  <2>5. ListensToItsPlan'
    BY <2>1, <2>4, HeardCatalog DEF ListensToItsPlan, Listens, CatalogInv
  <2> QED
    BY <2>1, <2>2, <2>5 DEF ShowsItsPlan
<1>11. ASSUME Closes("provider") PROVE ListensToItsPlan' /\ ShowsItsPlan'
  <2>1. sel'["catalog"] = sel["catalog"] /\ shown'["catalog"] = shown["catalog"]
    BY <1>11 DEF Closes, CatalogInv, Typed, TypeOK, Panes
  <2>2. ASSUME NEW slot \in Slots
        PROVE  reads'[slot] = reads[slot] \/ reads'[slot].pane = Nothing
    <3>1. reads[slot] # Nothing => reads[slot] \in ReadType
      BY DEF CatalogInv, Typed, TypeOK
    <3> QED
      BY <1>11, <3>1 DEF Closes, Heard, ReadType
  <2> QED
    BY <2>1, <2>2, OthersRead
<1>12. ASSUME Closes("catalog") PROVE ListensToItsPlan' /\ ShowsItsPlan'
  <2>1. reads' = Heard("catalog", Nothing) /\ shown'["catalog"] = Nothing
    BY <1>12 DEF Closes, CatalogInv, Typed, TypeOK, Panes
  <2> QED
    BY <2>1, HeardCatalog DEF ListensToItsPlan, ShowsItsPlan, Listens, CatalogInv
<1> QED
  BY <1>2, <1>3, <1>4, <1>5, <1>6, <1>7, <1>8, <1>9, <1>10, <1>11, <1>12 DEF Next, Panes

(* A list in the catalog's pane is the list of the plan it is open on,       *)
(* however late the answers of the plans it was on before.                  *)
THEOREM CatalogShowsItsPlan == Spec => []CatalogListIsOfThePlan
<1>1. CatalogInv => CatalogListIsOfThePlan
  BY DEF CatalogInv, ShowsItsPlan, CatalogListIsOfThePlan, Shows
<1> QED
  BY <1>1, CatalogInit, CatalogStep, PTL DEF Spec
=============================================================================
