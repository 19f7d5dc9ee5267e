------------------------- MODULE ProviderConsole -------------------------
(* The provider console: a wallet acting as a provider on chain.  The       *)
(* handlers of main/ipc/provider.ts check a call against the chain, queue    *)
(* for the write lock of provider-console.ts, sign one transaction and poll  *)
(* for it; the tab of renderer/components/provider offers the calls, from    *)
(* what it last read.  The chain, its mempool and the other people on it     *)
(* are the environment.  Hours, names and figures are left out: a lease      *)
(* costs its hourly price.  What links do to the lists of nodes is           *)
(* PlanNodes.                                                                *)
EXTENDS Integers, Sequences

CONSTANTS
    Nodes,      \* nodes that can be leased
    Prices,     \* hourly prices a node may publish, in udvpn
    Offered,    \* renewal policies the tab offers
    MaxCalls,   \* bound: console calls made
    MaxMoves,   \* bound: moves of the rest of the world
    Openings,   \* what the wallet may hold as the console is opened
    Nothing     \* no value

ASSUME ConsoleAssumption ==
    /\ Prices \subseteq Nat \ {0} /\ Offered \subseteq 0 .. 7
    /\ MaxCalls \in Nat /\ MaxMoves \in Nat
    /\ Nothing \notin Nodes \cup Prices

VARIABLES
    chain,      \* the provider's record and leases, and the nodes' offers
    pool,       \* transactions of the wallet the chain may still include
    calls,      \* the console calls, in the order they were made
    queue,      \* the write lock: calls that hold it or wait for it
    tunnelUp,   \* isVpnActive
    moves,      \* moves of the rest of the world so far
    view,       \* what the tab knows of the provider
    modal       \* the lease modal that is open

tab == <<view, modal>>
main == <<pool, calls, queue>>
world == <<chain, tunnelUp, moves>>
vars == <<world, main, tab>>

Ids == 1 .. MaxCalls
Outside == 0    \* a transaction of the wallet made elsewhere: a purchase, a refund

(* "plain" is every call that leaves the record's status and the leases as   *)
(* they are: the details, and what concerns plans alone.                     *)
CardOps == {"register", "plain", "activate", "deactivate"}
Ops == CardOps \cup {"link", "start", "renew", "policy", "end"}

(* RenewalPricePolicy. *)
Policies == 0 .. 7

(* renewalPolicyAllows: the rule the chain applies to every renewal.        *)
Allows(policy, current, stored) ==
    \/ policy = 7
    \/ policy = 1 /\ current < stored
    \/ policy = 2 /\ current <= stored
    \/ policy = 3 /\ current = stored
    \/ policy = 4 /\ current # stored
    \/ policy = 5 /\ current > stored
    \/ policy = 6 /\ current >= stored

(***************************************************************************)
(* The chain (external).                                                   *)
(***************************************************************************)
Lease == [id: 0 .. MaxCalls, price: Prices, policy: Policies, by: 0 .. MaxCalls]
Provider == [status: {"none", "inactive", "active"},
             lease: [Nodes -> Lease \cup {Nothing}]]
Chain == [prov: Provider, offer: [Nodes -> Prices \cup {Nothing}]]

ASSUME OpeningsAssumption ==
    /\ Openings \subseteq Provider
    /\ \A opening \in Openings : \A node \in Nodes :
           opening.lease[node] # Nothing => opening.lease[node].by = 0

HeldBy(c) == IF c.node = Nothing THEN Nothing ELSE chain.prov.lease[c.node]
Offer(c) == IF c.node = Nothing THEN Nothing ELSE chain.offer[c.node]
StillHeld(c) == HeldBy(c) # Nothing /\ HeldBy(c).id = c.held.id
WithinMax(c) == Offer(c) # Nothing /\ Offer(c) <= c.max

Accepts(c) ==
    CASE c.op = "register" -> chain.prov.status = "none"
      [] c.op \in CardOps \ {"register"} -> chain.prov.status # "none"
      [] c.op = "start" -> chain.prov.status = "active" /\ HeldBy(c) = Nothing /\ WithinMax(c)
      [] c.op = "link" -> HeldBy(c) # Nothing
      [] c.op = "renew" -> /\ StillHeld(c) /\ WithinMax(c)
                           /\ Allows(HeldBy(c).policy, Offer(c), HeldBy(c).price)
      [] c.op \in {"policy", "end"} -> StillHeld(c)

(* An inactive provider loses every lease.                                  *)
Effect(i, c) ==
    LET Deal(id, policy) ==
            [id |-> id, price |-> Offer(c), policy |-> policy, by |-> i]
    IN CASE c.op \in {"register", "deactivate"} ->
                [status |-> "inactive", lease |-> [node \in Nodes |-> Nothing]]
         [] c.op = "activate" -> [chain.prov EXCEPT !.status = "active"]
         [] c.op = "start" -> [chain.prov EXCEPT !.lease[c.node] = Deal(i, c.policy)]
         [] c.op = "renew" -> [chain.prov EXCEPT !.lease[c.node] = Deal(HeldBy(c).id, HeldBy(c).policy)]
         [] c.op = "policy" -> [chain.prov EXCEPT !.lease[c.node].policy = c.policy]
         [] c.op = "end" -> [chain.prov EXCEPT !.lease[c.node] = Nothing]
         [] OTHER -> chain.prov

(* The chain includes a transaction, or passes its timeout height.          *)
Includes(i) ==
    /\ i \in pool \ {Outside} /\ pool' = pool \ {i}
    /\ IF Accepts(calls[i])
       THEN /\ chain' = [chain EXCEPT !.prov = Effect(i, calls[i])]
            /\ calls' = [calls EXCEPT ![i].tx = "landed"]
       ELSE calls' = [calls EXCEPT ![i].tx = "refused"] /\ UNCHANGED chain
    /\ UNCHANGED <<queue, tunnelUp, moves, tab>>

Expires(i) ==
    /\ i \in pool \ {Outside} /\ pool' = pool \ {i}
    /\ calls' = [calls EXCEPT ![i].tx = "expired"]
    /\ UNCHANGED <<queue, world, tab>>

(* A node changes or withdraws its price; a lease runs out of hours.        *)
OthersMove ==
    /\ moves < MaxMoves /\ moves' = moves + 1
    /\ \E node \in Nodes :
        \/ \E v \in Prices \cup {Nothing} : chain' = [chain EXCEPT !.offer[node] = v]
        \/ chain' = [chain EXCEPT !.prov.lease[node] = Nothing]
    /\ UNCHANGED <<tunnelUp, main, tab>>

(* A purchase or a refund of the same wallet, which takes no part in the    *)
(* write lock, enters the pool; it leaves it one way or another.            *)
OutsideTx ==
    /\ moves < MaxMoves /\ moves' = moves + 1
    /\ pool' = pool \cup {Outside}
    /\ UNCHANGED <<chain, tunnelUp, calls, queue, tab>>
OutsideTxEnds ==
    /\ Outside \in pool /\ pool' = pool \ {Outside}
    /\ UNCHANGED <<world, calls, queue, tab>>

TunnelFlips ==
    /\ moves < MaxMoves /\ moves' = moves + 1
    /\ tunnelUp' = ~tunnelUp
    /\ UNCHANGED <<chain, main, tab>>

(***************************************************************************)
(* Handlers.                                                               *)
(***************************************************************************)
Answers == {"ok", "failed", "timed out"}
At(i, pc) == i \in DOMAIN calls /\ calls[i].pc = pc
Returned(i) == i \in DOMAIN calls /\ calls[i].pc \in Answers

(* The first check of each handler: assertOwnLease, the node's price, the   *)
(* balance.                                                                 *)
FirstCheck(op) ==
    CASE op \in {"renew", "policy", "end"} -> "own"
      [] op = "start" -> "price"
      [] OTHER -> "funds"

Call(op, node, policy) ==
    [op |-> op, node |-> node, policy |-> policy, pc |-> FirstCheck(op),
     held |-> Nothing, max |-> 0, checked |-> 0, tx |-> "none"]

(* requireProviderContext: no call is taken while the tunnel is up, for the *)
(* chain is out of reach through it.                                        *)
Takes(call) ==
    /\ Len(calls) < MaxCalls /\ ~tunnelUp
    /\ calls' = Append(calls, call)

Checking == UNCHANGED <<world, pool, tab>>

(* assertOwnLease: the lease as the provider's own list has it now.         *)
FindsLease(i) ==
    /\ At(i, "own") /\ ~tunnelUp /\ HeldBy(calls[i]) # Nothing
    /\ calls' = [calls EXCEPT ![i].held = HeldBy(calls[i]),
                    ![i].pc = IF calls[i].op = "renew" THEN "price" ELSE "funds"]
    /\ Checking /\ UNCHANGED queue

(* LEASE_START and LEASE_RENEW price the call from the node's own offer:    *)
(* the deposit the balance is checked for, and the transaction's MaxPrice.  *)
(* A renewal its policy rules out goes no further.                          *)
Deposit_Stored(i) ==
    IF calls[i].op = "renew" THEN calls[i].held.price ELSE Offer(calls[i])
Deposit(i) == Offer(calls[i])
ReadsPrice(i) ==
    /\ At(i, "price") /\ ~tunnelUp /\ Offer(calls[i]) # Nothing
    /\ calls[i].op = "renew" =>
           Allows(calls[i].held.policy, Offer(calls[i]), calls[i].held.price)
    /\ calls' = [calls EXCEPT ![i].pc = "funds",
                    ![i].max = Offer(calls[i]), ![i].checked = Deposit(i)]
    /\ Checking /\ UNCHANGED queue

(* assertSufficientFunds, which lets a balance it cannot read pass; then    *)
(* the call queues for the write lock.                                      *)
Queues(i) ==
    /\ At(i, "funds")
    /\ calls' = [calls EXCEPT ![i].pc = "queued"] /\ queue' = Append(queue, i)
    /\ Checking

(* A refusal, or a query that failed.                                       *)
CheckFails(i) ==
    /\ At(i, "own") \/ At(i, "price") \/ At(i, "funds")
    /\ calls' = [calls EXCEPT ![i].pc = "failed"]
    /\ Checking /\ UNCHANGED queue

(* withProviderWriteLock: first come, first served, and released however    *)
(* the holder ends.                                                         *)
HoldsLock_None(i) == queue # <<>>
HoldsLock(i) == queue # <<>> /\ Head(queue) = i

Released_OnSuccess(i, pc) == IF pc = "ok" THEN Tail(queue) ELSE queue
Released(i, pc) == Tail(queue)

Finishes(i, pc, tx) ==
    /\ calls' = [calls EXCEPT ![i].pc = pc, ![i].tx = tx]
    /\ queue' = Released(i, pc)
    /\ UNCHANGED <<world, tab>>

(* broadcast: the sequence number is the chain's, read as the transaction   *)
(* is signed, so one of the wallet's still in the pool makes it collide.    *)
Signs(i) ==
    /\ At(i, "queued") /\ HoldsLock(i) /\ ~tunnelUp /\ pool = {}
    /\ calls' = [calls EXCEPT ![i].pc = "polling", ![i].tx = "pending"]
    /\ pool' = {i}
    /\ UNCHANGED <<queue, world, tab>>

Collides(i) ==
    /\ At(i, "queued") /\ HoldsLock(i) /\ ~tunnelUp /\ pool # {}
    /\ Finishes(i, "failed", "collided") /\ UNCHANGED pool

SignFails(i) ==
    /\ At(i, "queued") /\ HoldsLock(i)
    /\ Finishes(i, "failed", "none") /\ UNCHANGED pool

(* The poll finds the transaction included, cannot ask, or has asked for    *)
(* long enough.                                                             *)
PollAnswers(i) ==
    /\ At(i, "polling") /\ ~tunnelUp /\ calls[i].tx \in {"landed", "refused"}
    /\ Finishes(i, IF calls[i].tx = "landed" THEN "ok" ELSE "failed", calls[i].tx)
    /\ UNCHANGED pool

PollEnds(i) ==
    /\ At(i, "polling")
    /\ \E pc \in {"failed", "timed out"} : Finishes(i, pc, calls[i].tx)
    /\ UNCHANGED pool

Handler(i) ==
    \/ FindsLease(i) \/ ReadsPrice(i) \/ Queues(i) \/ CheckFails(i)
    \/ Signs(i) \/ Collides(i) \/ SignFails(i) \/ PollAnswers(i) \/ PollEnds(i)

(***************************************************************************)
(* The tab.                                                                *)
(***************************************************************************)
(* getProviderOverview.                                                     *)
Overview == chain.prov

(* useProvider, PROVIDER_OVERVIEW: what the chain says, or what it said     *)
(* last while it is out of reach.                                           *)
Rereads ==
    /\ ~tunnelUp /\ view' = Overview
    /\ UNCHANGED <<world, main, modal>>

(* A button needs the chain in reach and the status it acts on.             *)
Shows(statuses) == view # Nothing /\ view.status \in statuses
Submits(op) ==
    /\ Takes(Call(op, Nothing, 0))
    /\ UNCHANGED <<world, pool, queue, tab>>

Registers == Shows({"none"}) /\ Submits("register")
EditsDetails == Shows({"inactive", "active"}) /\ Submits("plain")
TogglesProvider ==
    \/ Shows({"inactive"}) /\ Submits("activate")
    \/ Shows({"active"}) /\ Submits("deactivate")
CreatesPlan == Shows({"active"}) /\ Submits("plain")
(* Its visibility, or its status; the model keeps neither.                  *)
EditsPlan == Shows({"inactive", "active"}) /\ Submits("plain")

(* The lease modals.                                                        *)
OpensLease(node) ==
    /\ modal = Nothing /\ ~tunnelUp /\ Shows({"active"}) /\ view.lease[node] = Nothing
    /\ modal' = [kind |-> "lease", node |-> node, held |-> Nothing, quote |-> Nothing,
                 call |-> 0]
    /\ UNCHANGED <<world, main, view>>

OpensManage(node) ==
    /\ modal = Nothing /\ ~tunnelUp /\ view # Nothing /\ view.lease[node] # Nothing
    /\ modal' = [kind |-> "manage", node |-> node, held |-> view.lease[node],
                 quote |-> Nothing, call |-> 0]
    /\ UNCHANGED <<world, main, view>>

(* LEASE_QUOTE.                                                             *)
Quotes ==
    /\ modal # Nothing /\ modal.quote = Nothing
    /\ ~tunnelUp /\ chain.offer[modal.node] # Nothing
    /\ modal' = [modal EXCEPT !.quote = chain.offer[modal.node]]
    /\ UNCHANGED <<world, main, view>>

Idles(kind) == modal # Nothing /\ modal.kind = kind /\ modal.call = 0
Asks(op, policy) ==
    /\ Takes(Call(op, modal.node, policy))
    /\ modal' = [modal EXCEPT !.call = Len(calls) + 1]
    /\ UNCHANGED <<world, pool, queue, view>>

Leases(policy) ==
    /\ Idles("lease") /\ modal.quote # Nothing /\ Asks("start", policy)
ChangesPolicy(policy) ==
    /\ Idles("manage") /\ policy # modal.held.policy /\ Asks("policy", policy)
Extends ==
    /\ Idles("manage") /\ modal.quote # Nothing
    /\ Allows(modal.held.policy, modal.quote, modal.held.price)
    /\ Asks("renew", 0)
EndsLease == Idles("manage") /\ Asks("end", 0)

(* The modal's call returned: a lease is linked to the plan at once, by a   *)
(* call of its own; after the last call the modal goes, and after a failure *)
(* it stays.                                                                *)
Replied(pcs) == modal # Nothing /\ Returned(modal.call) /\ calls[modal.call].pc \in pcs
Links ==
    /\ Replied({"ok"}) /\ calls[modal.call].op = "start"
    /\ Asks("link", 0)
Fails ==
    /\ \/ Replied({"failed", "timed out"})
       \/ Replied({"ok"}) /\ calls[modal.call].op = "start" /\ tunnelUp
    /\ modal' = [modal EXCEPT !.call = 0]
    /\ UNCHANGED <<world, main, view>>
Closes ==
    /\ \/ modal # Nothing /\ modal.call = 0
       \/ Replied({"ok"}) /\ calls[modal.call].op # "start"
    /\ modal' = Nothing
    /\ UNCHANGED <<world, main, view>>

Tab ==
    \/ Rereads \/ Quotes \/ Extends \/ EndsLease \/ Links \/ Fails \/ Closes
    \/ Registers \/ EditsDetails \/ TogglesProvider \/ CreatesPlan \/ EditsPlan
    \/ \E node \in Nodes : OpensLease(node) \/ OpensManage(node)
    \/ \E policy \in Offered : Leases(policy) \/ ChangesPolicy(policy)

-----------------------------------------------------------------------------
(* The console is opened on whatever the wallet holds already.              *)
Init ==
    /\ chain \in [prov: Openings, offer: [Nodes -> Prices]]
    /\ pool = {} /\ calls = <<>> /\ queue = <<>>
    /\ tunnelUp = FALSE /\ moves = 0
    /\ view = Nothing /\ modal = Nothing

Environment ==
    \/ OthersMove \/ OutsideTx \/ OutsideTxEnds \/ TunnelFlips
    \/ \E i \in Ids : Includes(i) \/ Expires(i)

Next == Environment \/ Tab \/ \E i \in Ids : Handler(i)

Spec == Init /\ [][Next]_vars

(* Every query, and the poll, ends one way or the other; the lock is given  *)
(* to the next in line.                                                     *)
FairSpec == Spec /\ \A i \in Ids : WF_vars(Handler(i))

-----------------------------------------------------------------------------
(* Types. *)
CallType == [op: Ops, node: Nodes \cup {Nothing}, policy: Policies,
             pc: Answers \cup {"own", "price", "funds", "queued", "polling"},
             held: Lease \cup {Nothing},
             max: Prices \cup {0}, checked: Prices \cup {0},
             tx: {"none", "pending", "landed", "refused", "expired", "collided"}]
ModalType == [kind: {"lease", "manage"}, node: Nodes, held: Lease \cup {Nothing},
              quote: Prices \cup {Nothing}, call: 0 .. MaxCalls]
TypeOK ==
    /\ chain \in Chain
    /\ pool \in SUBSET (0 .. MaxCalls)
    /\ calls \in Seq(CallType) /\ Len(calls) <= MaxCalls
    /\ queue \in Seq(Ids)
    /\ tunnelUp \in BOOLEAN /\ moves \in 0 .. MaxMoves
    /\ view \in Provider \cup {Nothing}
    /\ modal \in ModalType \cup {Nothing}

(* Two console calls never meet on the account's sequence number while both *)
(* are running: a call collides only with a transaction made outside the    *)
(* console, or with one whose own call has already been answered.           *)
CollisionsAreLate ==
    [][\A i \in DOMAIN calls :
        calls[i].tx = "none" /\ calls'[i].tx = "collided" =>
            \A j \in pool : j = Outside \/ Returned(j)]_vars

(* No lease is bought or extended for more than the deposit its call checked *)
(* the balance for, though the node may change its price at any moment.      *)
NeverPaysMoreThanChecked ==
    \A node \in Nodes :
        LET lease == chain.prov.lease[node]
        IN lease # Nothing /\ lease.by # 0 => lease.price <= calls[lease.by].checked

(* Every call is answered, whatever becomes of the calls queued before it:  *)
(* the write lock is never left held.                                       *)
CallsEnd == \A i \in Ids : i \in DOMAIN calls ~> Returned(i)

(* provider-console.ts: past the timeout height "the chain rejects the tx,  *)
(* so a timeout reported to the user stays a timeout".                      *)
TimeoutStaysATimeout ==
    [][\A i \in DOMAIN calls :
        calls[i].pc = "timed out" /\ calls[i].tx = "pending" => calls'[i].tx # "landed"]_vars
=============================================================================
