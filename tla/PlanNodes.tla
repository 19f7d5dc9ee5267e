---------------------------- MODULE PlanNodes ----------------------------
(* The nodes that serve a plan: the chain's links, the list of each plan    *)
(* that plan-service.ts keeps in memory for ten minutes, the provider calls  *)
(* that change links and drop lists, and the two panes that show one: the    *)
(* provider's own (PlanNodesManager) and the catalog's (PlanDetailPane).     *)
(* How a call comes to be signed is ProviderConsole; here it begins with     *)
(* its broadcast.                                                            *)
EXTENDS Integers, Sequences

CONSTANTS
    Plans,      \* plans of the provider
    Nodes,      \* nodes it leases
    Slots,      \* bound: chain reads under way
    TTL,        \* PLAN_NODES_TTL_MS, in ticks
    MaxClock,   \* bound: ticks
    MaxCalls,   \* bound: provider calls
    Nothing     \* no value

ASSUME PlanNodesAssumption ==
    /\ TTL \in Nat \ {0} /\ MaxClock \in Nat /\ MaxCalls \in Nat
    /\ Nothing \notin Plans \cup Nodes

VARIABLES
    links,      \* the chain's links of plans to nodes
    leased,     \* nodes under an active lease
    calls,      \* provider calls, in the order they were broadcast
    cache,      \* planNodesCache: for each plan the last list read, or none
    reads,      \* listNodesForPlan calls that went to the chain
    clock,      \* time
    tunnelUp,   \* isVpnActive
    sel,        \* the plan each pane is open on
    shown       \* what each pane shows of its plan

onChain == <<links, leased>>
panes == <<sel, shown>>
vars == <<onChain, calls, cache, reads, clock, tunnelUp, panes>>

Panes == {"provider", "catalog"}
Ids == 1 .. MaxCalls
LinksOf(plan) == {node \in Nodes : <<plan, node>> \in links}

(***************************************************************************)
(* The chain (external).                                                   *)
(***************************************************************************)
(* A link needs a lease.  A lease that ends takes the node out of every     *)
(* plan, and a provider made inactive ends every lease.                     *)
Accepts(c) ==
    CASE c.op = "link" -> c.node \in leased
      [] c.op = "unlink" -> <<c.plan, c.node>> \in links
      [] c.op = "end" -> c.node \in leased
      [] c.op = "deactivate" -> TRUE
NodesLost(c) ==
    CASE c.op = "end" -> {c.node}
      [] c.op = "deactivate" -> Nodes
      [] OTHER -> {}
LinksAfter(c, before) ==
    CASE c.op = "link" -> before \cup {<<c.plan, c.node>>}
      [] c.op = "unlink" -> before \ {<<c.plan, c.node>>}
      [] OTHER -> {link \in before : link[2] \notin NodesLost(c)}

(* A transaction that is refused, or expires, stays pending for ever.        *)
Pending(i) == i \in DOMAIN calls /\ calls[i].tx = "pending"
Lands(i) ==
    /\ Pending(i) /\ Accepts(calls[i])
    /\ links' = LinksAfter(calls[i], links) /\ leased' = leased \ NodesLost(calls[i])
    /\ calls' = [calls EXCEPT ![i].tx = "landed"]
    /\ UNCHANGED <<cache, reads, clock, tunnelUp, panes>>
Tick ==
    /\ clock < MaxClock /\ clock' = clock + 1
    /\ UNCHANGED <<onChain, calls, cache, reads, tunnelUp, panes>>
TunnelFlips ==
    /\ tunnelUp' = ~tunnelUp
    /\ UNCHANGED <<onChain, calls, cache, reads, clock, panes>>

Landed == {i \in DOMAIN calls : calls[i].tx = "landed"}
Returned == {i \in DOMAIN calls : calls[i].pc # "polling"}

(***************************************************************************)
(* The lists main keeps.                                                   *)
(***************************************************************************)
(* The stamp of a list is the time its read was asked for.  (asked, saw and  *)
(* wrote are history: the calls answered when the read was asked for, those  *)
(* on chain when it was read, and those answered when it was kept.)         *)
Stamp_AtEnd(read) == clock
Stamp(read) == read.at
Entry(read) ==
    [at |-> Stamp(read), list |-> read.list, read |-> read.readAt, asked |-> read.asked,
     saw |-> read.saw, wrote |-> Returned]

Fresh(plan) == cache[plan] # Nothing /\ clock - cache[plan].at < TTL
(* What a pane is told when the chain cannot be asked: the last list, be it  *)
(* old, or nothing.                                                          *)
Known(plan) == IF cache[plan] = Nothing THEN Nothing ELSE cache[plan].list

Free == {slot \in Slots : reads[slot] = Nothing}
Read(plan, pane) ==
    [plan |-> plan, pane |-> pane, at |-> clock, list |-> Nothing, readAt |-> 0,
     asked |-> Returned, saw |-> {}]

(* The chain is asked.                                                      *)
Asks(plan, pane) ==
    \E slot \in Free : reads' = [reads EXCEPT ![slot] = Read(plan, pane)]

ChainAnswers(slot) ==
    /\ reads[slot] # Nothing /\ reads[slot].list = Nothing /\ ~tunnelUp
    /\ reads' = [reads EXCEPT ![slot].list = LinksOf(reads[slot].plan),
                    ![slot].readAt = clock, ![slot].saw = Landed]
    /\ UNCHANGED <<onChain, calls, cache, clock, tunnelUp, panes>>

(* PLAN_NODES answers the pane that asked, if it still listens.             *)
Shown(plan, list) == [plan |-> plan, list |-> list, loading |-> FALSE]
Told(pane, plan, list) ==
    shown' = IF pane = Nothing THEN shown
             ELSE [shown EXCEPT ![pane] = Shown(plan, list)]

ReadEnds(slot) ==
    /\ reads[slot] # Nothing /\ reads[slot].list # Nothing
    /\ LET read == reads[slot]
       IN /\ cache' = [cache EXCEPT ![read.plan] = Entry(read)]
          /\ Told(read.pane, read.plan, read.list)
    /\ reads' = [reads EXCEPT ![slot] = Nothing]
    /\ UNCHANGED <<onChain, calls, clock, tunnelUp, sel>>

ReadFails(slot) ==
    /\ reads[slot] # Nothing
    /\ Told(reads[slot].pane, reads[slot].plan, Known(reads[slot].plan))
    /\ reads' = [reads EXCEPT ![slot] = Nothing]
    /\ UNCHANGED <<onChain, calls, cache, clock, tunnelUp, sel>>

(* The catalog's scan, the plans of a node, the counters of the provider's   *)
(* plans: each asks for lists that no pane waits for.                       *)
Scans(plan) ==
    /\ ~tunnelUp /\ ~Fresh(plan) /\ Asks(plan, Nothing)
    /\ UNCHANGED <<onChain, calls, cache, clock, tunnelUp, panes>>

(***************************************************************************)
(* The panes.                                                              *)
(***************************************************************************)
(* A read that answers a pane no longer there answers nobody.  The catalog   *)
(* pane also turns away the answers of the plan it was on before.           *)
Turned_OnClose(pane, plan) == plan = Nothing
Turned(pane, plan) == plan = Nothing \/ pane = "catalog"

Heard(pane, plan) ==
    IF Turned(pane, plan)
    THEN [slot \in Slots |-> IF reads[slot] # Nothing /\ reads[slot].pane = pane
                             THEN [reads[slot] EXCEPT !.pane = Nothing] ELSE reads[slot]]
    ELSE reads

(* A pane asks for the list of a plan: main answers at once from what it     *)
(* keeps, or asks the chain, and until then the pane is loading.            *)
AtOnce(plan) == tunnelUp \/ Fresh(plan)
Loads(pane, plan, rest) ==
    \/ /\ AtOnce(plan) /\ reads' = rest
       /\ shown' = [shown EXCEPT ![pane] = Shown(plan, Known(plan))]
    \/ /\ ~AtOnce(plan)
       /\ \E slot \in Free : reads' = [rest EXCEPT ![slot] = Read(plan, pane)]
       /\ shown' = [shown EXCEPT ![pane] = [plan |-> plan, list |-> Nothing, loading |-> TRUE]]

Opens(pane, plan) ==
    /\ sel[pane] # plan /\ sel' = [sel EXCEPT ![pane] = plan]
    /\ Loads(pane, plan, Heard(pane, plan))
    /\ UNCHANGED <<onChain, calls, cache, clock, tunnelUp>>

Closes(pane) ==
    /\ sel[pane] # Nothing /\ sel' = [sel EXCEPT ![pane] = Nothing]
    /\ reads' = Heard(pane, Nothing)
    /\ shown' = [shown EXCEPT ![pane] = Nothing]
    /\ UNCHANGED <<onChain, calls, cache, clock, tunnelUp>>

(***************************************************************************)
(* Provider calls, from the broadcast on.                                  *)
(***************************************************************************)
(* The write lock lets one call be broadcast at a time.                     *)
Broadcasts(op, plan, node) ==
    /\ Len(calls) < MaxCalls /\ Returned = DOMAIN calls /\ ~tunnelUp
    /\ calls' = Append(calls, [op |-> op, plan |-> plan, node |-> node, pc |-> "polling",
                               tx |-> "pending"])
    /\ UNCHANGED <<onChain, cache, reads, clock, tunnelUp, panes>>

(* The rows of the provider's pane: a leased node it does not list can be    *)
(* linked, one it lists unlinked.                                           *)
Listed == IF shown["provider"] = Nothing \/ shown["provider"].list = Nothing
          THEN {} ELSE shown["provider"].list
Links(node) ==
    /\ sel["provider"] # Nothing /\ node \in leased \ Listed
    /\ Broadcasts("link", sel["provider"], node)
Unlinks(node) ==
    /\ sel["provider"] # Nothing /\ node \in Listed
    /\ Broadcasts("unlink", sel["provider"], node)
EndsLease(node) == node \in leased /\ Broadcasts("end", Nothing, node)
Deactivates == Broadcasts("deactivate", Nothing, Nothing)

(* The lists a call drops as it returns, however it returns.                *)
Drops_OfPlan(c) == IF c.op \in {"link", "unlink"} THEN {c.plan} ELSE {}
Drops(c) == IF c.op \in {"link", "unlink"} THEN {c.plan} ELSE Plans
Invalidates(i) == cache' = [plan \in Plans |-> IF plan \in Drops(calls[i]) THEN Nothing
                                               ELSE cache[plan]]

Returns(i, pc) ==
    /\ i \in DOMAIN calls /\ calls[i].pc = "polling"
    /\ calls' = [calls EXCEPT ![i].pc = pc] /\ Invalidates(i)
    /\ UNCHANGED <<onChain, clock, tunnelUp, sel>>

(* The poll found the transaction.                                          *)
Succeeds(i) ==
    /\ ~tunnelUp /\ i \in Landed /\ Returns(i, "ok")
    /\ UNCHANGED <<reads, shown>>

(* Then the pane asks for the plan it acted on again, unless it has been     *)
(* closed: another message, before which a read under way may end.          *)
Reloads(i) ==
    /\ i \in DOMAIN calls /\ calls[i].pc = "ok"
    /\ calls' = [calls EXCEPT ![i].pc = "reloaded"]
    /\ LET plan == IF calls[i].plan = Nothing THEN sel["provider"] ELSE calls[i].plan
       IN IF sel["provider"] = Nothing THEN UNCHANGED <<reads, shown>>
          ELSE Loads("provider", plan, reads)
    /\ UNCHANGED <<onChain, cache, clock, tunnelUp, sel>>

(* Refused, or not known to have landed: it still may.                      *)
Failed(i) == Returns(i, "failed") /\ UNCHANGED <<reads, shown>>

-----------------------------------------------------------------------------
Init ==
    /\ links \in SUBSET (Plans \X Nodes) /\ leased = Nodes
    /\ calls = <<>>
    /\ cache = [plan \in Plans |-> Nothing]
    /\ reads = [slot \in Slots |-> Nothing]
    /\ clock = 0 /\ tunnelUp = FALSE
    /\ sel = [pane \in Panes |-> Nothing]
    /\ shown = [pane \in Panes |-> Nothing]

Next ==
    \/ Tick \/ TunnelFlips \/ Deactivates
    \/ \E i \in Ids : Lands(i) \/ Succeeds(i) \/ Reloads(i) \/ Failed(i)
    \/ \E slot \in Slots : ChainAnswers(slot) \/ ReadEnds(slot) \/ ReadFails(slot)
    \/ \E plan \in Plans : Scans(plan) \/ \E pane \in Panes : Opens(pane, plan)
    \/ \E pane \in Panes : Closes(pane)
    \/ \E node \in Nodes : Links(node) \/ Unlinks(node) \/ EndsLease(node)

Spec == Init /\ [][Next]_vars

-----------------------------------------------------------------------------
(* Types. *)
CallType == [op: {"link", "unlink", "end", "deactivate"}, plan: Plans \cup {Nothing},
             node: Nodes \cup {Nothing}, pc: {"polling", "ok", "reloaded", "failed"},
             tx: {"pending", "landed"}]
EntryType == [at: 0 .. MaxClock, list: SUBSET Nodes, read: 0 .. MaxClock,
              asked: SUBSET Ids, saw: SUBSET Ids, wrote: SUBSET Ids]
ReadType == [plan: Plans, pane: Panes \cup {Nothing}, at: 0 .. MaxClock,
             list: (SUBSET Nodes) \cup {Nothing}, readAt: 0 .. MaxClock,
             asked: SUBSET Ids, saw: SUBSET Ids]
ShownType == [plan: Plans, list: (SUBSET Nodes) \cup {Nothing}, loading: BOOLEAN]
TypeOK ==
    /\ links \subseteq Plans \X Nodes /\ leased \subseteq Nodes
    /\ calls \in Seq(CallType) /\ Len(calls) <= MaxCalls
    /\ cache \in [Plans -> EntryType \cup {Nothing}]
    /\ reads \in [Slots -> ReadType \cup {Nothing}]
    /\ clock \in 0 .. MaxClock /\ tunnelUp \in BOOLEAN
    /\ sel \in [Panes -> Plans \cup {Nothing}]
    /\ shown \in [Panes -> ShownType \cup {Nothing}]

(* A list that listNodesForPlan answers from memory instead of asking the    *)
(* chain was on chain less than a list's lifetime ago, however long its read *)
(* took.  (Behind a tunnel, or after a read that failed, main answers what   *)
(* it knows at any age: Known.)                                             *)
ServedIsRecent ==
    \A plan \in Plans : Fresh(plan) => clock - cache[plan].read < TTL

(* Whether a transaction can change the nodes that serve a plan.             *)
Changes(c, plan) ==
    \E before \in SUBSET (Plans \X Nodes) : \E node \in Nodes :
        (<<plan, node>> \in LinksAfter(c, before)) # (<<plan, node>> \in before)

(* After a provider call is answered, a kept list that was read without the  *)
(* call's change is of a read that was under way at the answer (asked for    *)
(* before it, kept after it), or was asked for after an answer that could    *)
(* not say the transaction landed.  So neither a list kept before the answer *)
(* survives it, nor does a read asked for after a good answer miss the       *)
(* change (invalidatePlanNodes, invalidateAllPlanNodes, the poll).          *)
ReturnsDropOldLists ==
    \A i \in Returned, plan \in Plans :
        /\ Changes(calls[i], plan)
        /\ cache[plan] # Nothing
        /\ i \notin cache[plan].saw
        => /\ i \in cache[plan].wrote
           /\ i \in cache[plan].asked => calls[i].pc = "failed"

(* The list in the catalog's pane is the list of the plan it is open on.    *)
Shows(pane) == shown[pane] # Nothing /\ ~shown[pane].loading /\ shown[pane].list # Nothing
CatalogListIsOfThePlan == Shows("catalog") => shown["catalog"].plan = sel["catalog"]

(* PlanNodesManager.tsx: "Nodes serving one plan", the selected one.        *)
ProviderListIsOfThePlan == Shows("provider") => shown["provider"].plan = sel["provider"]

(* provider.ts: "a tx that times out here can still LAND - the old answer   *)
(* must not be served for the rest of the TTL either way".                  *)
OldAnswerDropped ==
    \A i \in Returned \cap Landed, plan \in Plans :
        Changes(calls[i], plan) /\ Fresh(plan) => i \in cache[plan].saw

(* provider.ts: "after our own link the console re-reads it immediately and  *)
(* must not get the old answer".                                            *)
RereadIsNew ==
    [][\A i \in Ids, plan \in Plans :
          Reloads(i) /\ calls[i].plan = plan /\ Fresh(plan) => i \in cache[plan].saw]_vars
=============================================================================
