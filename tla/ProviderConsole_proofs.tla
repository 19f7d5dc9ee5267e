------------------------ MODULE ProviderConsole_proofs ------------------------
(* Proofs about the provider console: its types, that a lease never costs    *)
(* more than was checked, and that the write lock keeps the console's own     *)
(* calls off each other's sequence numbers.                                 *)
EXTENDS ProviderConsole, TLAPS

USE ConsoleAssumption DEF Ids, Answers

(***************************************************************************)
(* The invariants.                                                         *)
(***************************************************************************)
Sent == {"polling"} \cup Answers

(* A call that polls is the holder of the write lock.                       *)
PollsUnderLock ==
    \A i \in DOMAIN calls : calls[i].pc = "polling" => queue # <<>> /\ Head(queue) = i

(* A transaction in the pool is that of a call that was signed, and a call   *)
(* not yet signed has none.                                                 *)
PoolIsSigned == \A i \in pool \ {Outside} : i \in DOMAIN calls /\ calls[i].pc \in Sent

(* The transaction's MaxPrice is the deposit the balance was checked for.    *)
MaxIsChecked == \A i \in DOMAIN calls : calls[i].max = calls[i].checked

(* A lease the console made is that of a signed call, within its deposit.    *)
LeaseIsChecked ==
    \A node \in Nodes :
        LET lease == chain.prov.lease[node]
        IN lease # Nothing /\ lease.by # 0 =>
               /\ lease.by \in DOMAIN calls /\ calls[lease.by].pc \in Sent
               /\ lease.price <= calls[lease.by].checked

Inv == TypeOK /\ PollsUnderLock /\ PoolIsSigned /\ MaxIsChecked /\ LeaseIsChecked

(***************************************************************************)
(* What an action does to the calls.                                       *)
(***************************************************************************)
(* No call's progress is lost: a signed call stays signed, with what it      *)
(* checked, and only call i moves.                                          *)
Moves(i) ==
    /\ calls' \in Seq(CallType) /\ DOMAIN calls' = DOMAIN calls /\ Len(calls') = Len(calls)
    /\ i \in DOMAIN calls /\ \A j \in DOMAIN calls \ {i} : calls'[j] = calls[j]

LEMMA CallFacts ==
    ASSUME TypeOK
    PROVE  /\ calls \in Seq(CallType) /\ DOMAIN calls = 1 .. Len(calls) /\ Len(calls) \in Nat
           /\ DOMAIN calls \subseteq Ids /\ \A i \in DOMAIN calls : calls[i] \in CallType
<1>1. calls \in Seq(CallType) /\ Len(calls) <= MaxCalls
  BY DEF TypeOK
<1>2. DOMAIN calls = 1 .. Len(calls) /\ Len(calls) \in Nat
  BY <1>1
<1>3. \A i \in DOMAIN calls : calls[i] \in CallType
  BY <1>1
<1> QED
  BY <1>1, <1>2, <1>3

LEMMA MoveCall ==
    ASSUME TypeOK, NEW i \in DOMAIN calls, NEW c \in CallType, calls' = [calls EXCEPT ![i] = c]
    PROVE  Moves(i) /\ calls'[i] = c
<1>1. calls \in Seq(CallType)
  BY DEF TypeOK
<1> QED
  BY <1>1 DEF Moves

(* A call the tab makes is the last of the list.                            *)
LEMMA TakeCall ==
    ASSUME TypeOK, NEW op \in Ops, NEW node \in Nodes \cup {Nothing}, NEW policy \in Policies,
           Takes(Call(op, node, policy))
    PROVE  /\ calls' \in Seq(CallType) /\ Len(calls') <= MaxCalls
           /\ Len(calls') = Len(calls) + 1
           /\ DOMAIN calls' = DOMAIN calls \cup {Len(calls) + 1}
           /\ \A i \in DOMAIN calls : calls'[i] = calls[i]
           /\ calls'[Len(calls) + 1] = Call(op, node, policy)
           /\ Call(op, node, policy).pc \in {"own", "price", "funds"}
           /\ Call(op, node, policy).max = 0 /\ Call(op, node, policy).checked = 0
           /\ Len(calls) + 1 \in Ids /\ Len(calls) + 1 \notin DOMAIN calls
<1> DEFINE new == Call(op, node, policy)
<1>1. FirstCheck(op) \in {"own", "price", "funds"}
  BY DEF FirstCheck
<1>2. new \in CallType /\ new.pc \in {"own", "price", "funds"} /\ new.max = 0 /\ new.checked = 0
  BY <1>1 DEF Call, CallType
<1>3. calls' = Append(calls, new) /\ calls \in Seq(CallType) /\ Len(calls) < MaxCalls
  BY DEF Takes, TypeOK
<1> HIDE DEF new
<1>4. /\ calls' \in Seq(CallType) /\ Len(calls') = Len(calls) + 1 /\ Len(calls) \in Nat
      /\ DOMAIN calls = 1 .. Len(calls) /\ DOMAIN calls' = 1 .. Len(calls) + 1
      /\ \A i \in 1 .. Len(calls) : calls'[i] = calls[i]
      /\ calls'[Len(calls) + 1] = new
  BY <1>2, <1>3
<1>5. DOMAIN calls' = DOMAIN calls \cup {Len(calls) + 1} /\ Len(calls) + 1 \notin DOMAIN calls
  BY <1>4
<1>6. Len(calls') <= MaxCalls /\ Len(calls) + 1 \in Ids
  BY <1>3, <1>4
<1> QED
  BY <1>2, <1>4, <1>5, <1>6 DEF new

(* The part of Inv that is about calls survives an action that leaves the    *)
(* chain, the pool and the lock alone and signs nothing.                    *)
Quiet(i) ==
    /\ Moves(i) /\ chain' = chain /\ pool' = pool /\ queue' = queue
    /\ calls[i].pc \notin Sent /\ calls'[i].pc # "polling"
    /\ calls'[i].max = calls'[i].checked

LEMMA QuietStep ==
    ASSUME Inv, NEW i, Quiet(i)
    PROVE  PollsUnderLock' /\ PoolIsSigned' /\ MaxIsChecked' /\ LeaseIsChecked'
<1> USE DEF Inv, Quiet, Moves
<1>1. PollsUnderLock'
  BY DEF PollsUnderLock
<1>2. PoolIsSigned'
  BY DEF PoolIsSigned
<1>3. MaxIsChecked'
  BY DEF MaxIsChecked
<1>4. LeaseIsChecked'
  BY DEF LeaseIsChecked
<1> QED
  BY <1>1, <1>2, <1>3, <1>4

(* An action that leaves all of them alone.                                 *)
LEMMA StillStep ==
    ASSUME Inv, UNCHANGED <<chain, main>>
    PROVE  PollsUnderLock' /\ PoolIsSigned' /\ MaxIsChecked' /\ LeaseIsChecked'
BY DEF Inv, main, PollsUnderLock, PoolIsSigned, MaxIsChecked, LeaseIsChecked

LEMMA TakeStep ==
    ASSUME Inv, NEW op \in Ops, NEW node \in Nodes \cup {Nothing}, NEW policy \in Policies,
           Takes(Call(op, node, policy)), UNCHANGED <<chain, pool, queue>>
    PROVE  PollsUnderLock' /\ PoolIsSigned' /\ MaxIsChecked' /\ LeaseIsChecked'
<1>1. /\ DOMAIN calls' = DOMAIN calls \cup {Len(calls) + 1}
      /\ \A i \in DOMAIN calls : calls'[i] = calls[i]
      /\ calls'[Len(calls) + 1].pc # "polling"
      /\ calls'[Len(calls) + 1].max = calls'[Len(calls) + 1].checked
  BY TakeCall DEF Inv
<1>2. PollsUnderLock'
  BY <1>1 DEF PollsUnderLock, Inv
<1>3. PoolIsSigned'
  BY <1>1 DEF PoolIsSigned, Inv
<1>4. MaxIsChecked'
  BY <1>1 DEF MaxIsChecked, Inv
<1>5. LeaseIsChecked'
  BY <1>1 DEF LeaseIsChecked, Inv
<1> QED
  BY <1>2, <1>3, <1>4, <1>5

(***************************************************************************)
(* The handlers.                                                           *)
(***************************************************************************)
LEMMA CheckSteps ==
    ASSUME Inv, NEW i \in Ids, FindsLease(i) \/ ReadsPrice(i) \/ Queues(i) \/ CheckFails(i)
    PROVE  Inv'
<1>1. i \in DOMAIN calls /\ calls[i] \in CallType /\ calls[i].pc \in {"own", "price", "funds"}
  BY CallFacts DEF Inv, FindsLease, ReadsPrice, Queues, CheckFails, At
<1>2. calls[i].max = calls[i].checked
  BY <1>1 DEF Inv, MaxIsChecked
<1>3. UNCHANGED <<world, pool, tab>>
  BY DEF FindsLease, ReadsPrice, Queues, CheckFails, Checking
<1>4. CASE FindsLease(i)
  <2> DEFINE c == [calls[i] EXCEPT !.held = HeldBy(calls[i]),
                                   !.pc = IF calls[i].op = "renew" THEN "price" ELSE "funds"]
  <2>1. HeldBy(calls[i]) \in Lease \cup {Nothing}
    BY <1>1 DEF HeldBy, Inv, TypeOK, Chain, Provider, CallType
  <2>2. c \in CallType /\ c.pc # "polling" /\ c.max = c.checked
    BY <1>1, <1>2, <2>1 DEF CallType
  <2>3. calls' = [calls EXCEPT ![i] = c] /\ queue' = queue
    BY <1>1, <1>4 DEF FindsLease
  <2> HIDE DEF c
  <2>4. Moves(i) /\ calls'[i] = c
    BY <1>1, <2>2, <2>3, MoveCall DEF Inv
  <2>5. Quiet(i)
    BY <1>1, <1>3, <2>2, <2>3, <2>4 DEF Quiet, Sent, world
  <2> QED
    BY <1>3, <2>3, <2>4, <2>5, QuietStep DEF Inv, TypeOK, Moves, world, tab
<1>5. CASE ReadsPrice(i)
  <2> DEFINE c == [calls[i] EXCEPT !.pc = "funds", !.max = Offer(calls[i]), !.checked = Deposit(i)]
  <2>1. Offer(calls[i]) \in Prices
    BY <1>1, <1>5 DEF ReadsPrice, Offer, Inv, TypeOK, Chain, CallType
  <2>2. c \in CallType /\ c.pc # "polling" /\ c.max = c.checked
    BY <1>1, <2>1 DEF CallType, Deposit
  <2>3. calls' = [calls EXCEPT ![i] = c] /\ queue' = queue
    BY <1>1, <1>5 DEF ReadsPrice
  <2> HIDE DEF c
  <2>4. Moves(i) /\ calls'[i] = c
    BY <1>1, <2>2, <2>3, MoveCall DEF Inv
  <2>5. Quiet(i)
    BY <1>1, <1>3, <2>2, <2>3, <2>4 DEF Quiet, Sent, world
  <2> QED
    BY <1>3, <2>3, <2>4, <2>5, QuietStep DEF Inv, TypeOK, Moves, world, tab
<1>6. CASE CheckFails(i)
  <2> DEFINE c == [calls[i] EXCEPT !.pc = "failed"]
  <2>2. c \in CallType /\ c.pc # "polling" /\ c.max = c.checked
    BY <1>1, <1>2 DEF CallType
  <2>3. calls' = [calls EXCEPT ![i] = c] /\ queue' = queue
    BY <1>1, <1>6 DEF CheckFails
  <2> HIDE DEF c
  <2>4. Moves(i) /\ calls'[i] = c
    BY <1>1, <2>2, <2>3, MoveCall DEF Inv
  <2>5. Quiet(i)
    BY <1>1, <1>3, <2>2, <2>3, <2>4 DEF Quiet, Sent, world
  <2> QED
    BY <1>3, <2>3, <2>4, <2>5, QuietStep DEF Inv, TypeOK, Moves, world, tab
<1>7. CASE Queues(i)
  <2> DEFINE c == [calls[i] EXCEPT !.pc = "queued"]
  <2>1. c \in CallType /\ c.pc # "polling" /\ c.max = calls[i].max /\ c.checked = calls[i].checked
    BY <1>1 DEF CallType
  <2>2. calls' = [calls EXCEPT ![i] = c] /\ queue' = Append(queue, i)
    BY <1>1, <1>7 DEF Queues
  <2> HIDE DEF c
  <2>3. Moves(i) /\ calls'[i] = c
    BY <1>1, <2>1, <2>2, MoveCall DEF Inv
  <2>4. queue \in Seq(Ids) /\ queue' \in Seq(Ids)
        /\ (queue # <<>> => queue' # <<>> /\ Head(queue') = Head(queue))
    BY <2>2 DEF Inv, TypeOK
  <2>5. PollsUnderLock'
    BY <2>1, <2>3, <2>4 DEF Inv, PollsUnderLock, Moves
  <2>6. PoolIsSigned'
    BY <1>1, <1>3, <2>3 DEF Inv, PoolIsSigned, Moves, Sent
  <2>7. MaxIsChecked'
    BY <1>2, <2>1, <2>3 DEF Inv, MaxIsChecked, Moves
  <2>8. LeaseIsChecked'
    BY <1>1, <1>3, <2>3 DEF Inv, LeaseIsChecked, Moves, Sent, world
  <2> QED
    BY <1>3, <2>3, <2>4, <2>5, <2>6, <2>7, <2>8 DEF Inv, TypeOK, Moves, world, tab
<1> QED
  BY <1>4, <1>5, <1>6, <1>7

LEMMA SignsStep == ASSUME Inv, NEW i \in Ids, Signs(i) PROVE Inv'
<1> DEFINE c == [calls[i] EXCEPT !.pc = "polling", !.tx = "pending"]
<1>1. i \in DOMAIN calls /\ calls[i] \in CallType /\ calls[i].pc = "queued" /\ HoldsLock(i)
  BY CallFacts DEF Inv, Signs, At
<1>2. c \in CallType /\ c.pc = "polling" /\ c.max = calls[i].max /\ c.checked = calls[i].checked
  BY <1>1 DEF CallType
<1>3. calls' = [calls EXCEPT ![i] = c] /\ pool' = {i} /\ UNCHANGED <<queue, world, tab>>
  BY <1>1 DEF Signs
<1> HIDE DEF c
<1>4. Moves(i) /\ calls'[i] = c
  BY <1>1, <1>2, <1>3, MoveCall DEF Inv
<1>5. PollsUnderLock'
  BY <1>1, <1>3, <1>4 DEF Inv, PollsUnderLock, Moves, HoldsLock
<1>6. PoolIsSigned'
  BY <1>2, <1>3, <1>4 DEF PoolIsSigned, Moves, Sent
<1>7. MaxIsChecked'
  BY <1>1, <1>2, <1>4 DEF Inv, MaxIsChecked, Moves
<1>8. LeaseIsChecked'
  BY <1>1, <1>2, <1>3, <1>4 DEF Inv, LeaseIsChecked, Moves, Sent, world
<1>9. pool' \in SUBSET (0 .. MaxCalls)
  BY <1>3
<1> QED
  BY <1>3, <1>4, <1>5, <1>6, <1>7, <1>8, <1>9 DEF Inv, TypeOK, Moves, world, tab

LEMMA TailOfLine == ASSUME NEW S, NEW line \in Seq(S), line # <<>> PROVE Tail(line) \in Seq(S)
OBVIOUS

(* The holder of the lock ends, and gives it to the next.                    *)
LEMMA FinishesStep ==
    ASSUME Inv, NEW i \in Ids, NEW pc \in Answers,
           NEW tx \in {"none", "pending", "landed", "refused", "expired", "collided"},
           i \in DOMAIN calls, HoldsLock(i), Finishes(i, pc, tx), pool' = pool
    PROVE  Inv'
<1> DEFINE c == [calls[i] EXCEPT !.pc = pc, !.tx = tx]
<1>1. calls[i] \in CallType
  BY CallFacts DEF Inv
<1>2. c \in CallType /\ c.pc = pc /\ c.max = calls[i].max /\ c.checked = calls[i].checked
  BY ZenonT(30), <1>1 DEF CallType
<1>3. calls' = [calls EXCEPT ![i] = c] /\ queue' = Tail(queue) /\ UNCHANGED <<world, tab>>
  BY DEF Finishes, Released
<1> HIDE DEF c
<1>4. Moves(i) /\ calls'[i] = c
  BY <1>1, <1>2, <1>3, MoveCall DEF Inv
<1>5. queue' \in Seq(Ids)
  <2>1. queue \in Seq(Ids) /\ queue # <<>>
    BY DEF Inv, TypeOK, HoldsLock
  <2> QED
    BY <1>3, <2>1, TailOfLine
<1>6. PollsUnderLock'
  BY <1>2, <1>4 DEF Inv, PollsUnderLock, Moves, HoldsLock
<1>7. PoolIsSigned'
  BY <1>2, <1>4 DEF Inv, PoolIsSigned, Moves, Sent
<1>8. MaxIsChecked'
  BY <1>2, <1>4 DEF Inv, MaxIsChecked, Moves
<1>9. LeaseIsChecked'
  BY <1>2, <1>3, <1>4 DEF Inv, LeaseIsChecked, Moves, Sent, world
<1> QED
  BY <1>3, <1>4, <1>5, <1>6, <1>7, <1>8, <1>9 DEF Inv, TypeOK, Moves, world, tab

LEMMA HandlerStep == ASSUME Inv, NEW i \in Ids, Handler(i) PROVE Inv'
<1>1. CASE FindsLease(i) \/ ReadsPrice(i) \/ Queues(i) \/ CheckFails(i)
  BY <1>1, CheckSteps
<1>2. CASE Signs(i)
  BY <1>2, SignsStep
<1>3. CASE Collides(i)
  BY <1>3, FinishesStep DEF Collides, At
<1>a. CASE SignFails(i)
  BY <1>a, FinishesStep DEF SignFails, At
<1>4. CASE PollAnswers(i) \/ PollEnds(i)
  <2>1. i \in DOMAIN calls /\ calls[i].pc = "polling"
    BY <1>4 DEF PollAnswers, PollEnds, At
  <2>2. HoldsLock(i)
    BY <2>1 DEF Inv, PollsUnderLock, HoldsLock
  <2>3. calls[i].tx \in {"none", "pending", "landed", "refused", "expired", "collided"}
    BY <2>1, CallFacts DEF Inv, CallType
  <2>4. CASE PollAnswers(i)
    BY <2>1, <2>2, <2>3, <2>4, FinishesStep DEF PollAnswers
  <2>5. CASE PollEnds(i)
    <3>1. PICK pc \in {"failed", "timed out"} : Finishes(i, pc, calls[i].tx)
      BY <2>5 DEF PollEnds
    <3> QED
      BY <2>1, <2>2, <2>3, <2>5, <3>1, FinishesStep DEF PollEnds
  <2> QED
    BY <1>4, <2>4, <2>5
<1> QED
  BY <1>1, <1>2, <1>3, <1>a, <1>4 DEF Handler

(***************************************************************************)
(* The chain, and the rest of the world.                                   *)
(***************************************************************************)
(* What a transaction that is accepted makes of the provider's record.       *)
LEMMA EffectFacts ==
    ASSUME Inv, NEW i \in DOMAIN calls, Accepts(calls[i])
    PROVE  /\ Effect(i, calls[i]) \in Provider
           /\ \A node \in Nodes :
                LET lease == Effect(i, calls[i]).lease[node]
                    before == chain.prov.lease[node]
                IN \/ lease = Nothing
                   \/ lease = before
                   \/ before # Nothing /\ lease.by = before.by /\ lease.price = before.price
                   \/ lease.by = i /\ lease.price <= calls[i].max
<1> DEFINE c == calls[i]
           Deal(id, policy) == [id |-> id, price |-> Offer(c), policy |-> policy, by |-> i]
<1>1. c \in CallType /\ i \in Ids
  BY CallFacts DEF Inv
<1>2. /\ chain.prov \in Provider /\ chain.prov.lease \in [Nodes -> Lease \cup {Nothing}]
      /\ chain.prov.status \in {"none", "inactive", "active"}
      /\ chain.offer \in [Nodes -> Prices \cup {Nothing}]
  BY DEF Inv, TypeOK, Chain, Provider
<1>3. c.op \in Ops /\ c.policy \in Policies /\ (c.node # Nothing => c.node \in Nodes)
  BY <1>1 DEF CallType
<1>4. CASE c.op \in {"register", "deactivate"}
  <2>1. Effect(i, c) = [status |-> "inactive", lease |-> [node \in Nodes |-> Nothing]]
    BY <1>4 DEF Effect
  <2> QED
    BY <2>1 DEF Provider
<1>5. CASE c.op \in {"plain", "link"}
  <2>1. Effect(i, c) = chain.prov
    BY <1>5 DEF Effect
  <2> QED
    BY <1>2, <2>1
<1>6. CASE c.op = "activate"
  <2>1. Effect(i, c) = [chain.prov EXCEPT !.status = "active"]
    BY <1>6 DEF Effect
  <2> QED
    BY <1>2, <2>1 DEF Provider
<1>7. ASSUME c.op = "end" \/ c.op = "policy" \/ c.op = "start" \/ c.op = "renew"
      PROVE  c.node \in Nodes
  BY <1>3, <1>7 DEF Accepts, HeldBy, StillHeld, WithinMax, Offer, CardOps
<1>8. CASE c.op = "end"
  <2>1. Effect(i, c) = [chain.prov EXCEPT !.lease[c.node] = Nothing]
    BY <1>8 DEF Effect
  <2> HIDE DEF c
  <2> QED
    BY <1>2, <1>7, <1>8, <2>1 DEF Provider, c
<1>9. CASE c.op = "policy"
  <2>1. Effect(i, c) = [chain.prov EXCEPT !.lease[c.node].policy = c.policy]
    BY <1>9 DEF Effect
  <2>2. chain.prov.lease[c.node] # Nothing
    BY <1>7, <1>9 DEF Accepts, StillHeld, HeldBy, CardOps
  <2>3. chain.prov.lease[c.node] \in Lease
    BY <1>2, <1>7, <1>9, <2>2
  <2>4. [chain.prov.lease[c.node] EXCEPT !.policy = c.policy] \in Lease
    BY <1>3, <2>3 DEF Lease
  <2> DEFINE new == [chain.prov.lease[c.node] EXCEPT !.policy = c.policy]
  <2>5. new.by = chain.prov.lease[c.node].by /\ new.price = chain.prov.lease[c.node].price
    BY <2>3 DEF Lease
  <2>6. Effect(i, c) = [chain.prov EXCEPT !.lease[c.node] = new]
    BY <2>1
  <2> HIDE DEF c, new
  <2>7. Effect(i, c) \in Provider
    BY <1>2, <1>7, <1>9, <2>4, <2>6 DEF Provider, new
  <2>8. \A node \in Nodes : Effect(i, c).lease[node] =
            IF node = c.node THEN new ELSE chain.prov.lease[node]
    BY <1>2, <1>7, <1>9, <2>6 DEF Provider
  <2> QED
    BY <1>7, <1>9, <2>2, <2>5, <2>7, <2>8 DEF c
<1>10. ASSUME NEW id \in 0 .. MaxCalls, NEW policy \in Policies, c.node \in Nodes, WithinMax(c),
              Effect(i, c) = [chain.prov EXCEPT !.lease[c.node] = Deal(id, policy)]
       PROVE  /\ Effect(i, c) \in Provider
              /\ \A node \in Nodes :
                    LET lease == Effect(i, c).lease[node]
                    IN \/ lease = chain.prov.lease[node]
                       \/ lease.by = i /\ lease.price <= c.max
  <2> DEFINE new == Deal(id, policy)
  <2>1. Offer(c) \in Prices /\ Offer(c) <= c.max
    BY <1>2, <1>10 DEF WithinMax, Offer
  <2>2. new \in Lease /\ new.by = i /\ new.price <= c.max
    BY <1>1, <2>1 DEF Lease
  <2> HIDE DEF new, c
  <2>3. Effect(i, c) \in Provider
    BY <1>2, <1>10, <2>2 DEF Provider, new
  <2>4. \A node \in Nodes : Effect(i, c).lease[node] =
            IF node = c.node THEN new ELSE chain.prov.lease[node]
    BY <1>2, <1>10 DEF Provider, new
  <2> QED
    BY <2>2, <2>3, <2>4
<1>11. CASE c.op = "start"
  <2>1. Effect(i, c) = [chain.prov EXCEPT !.lease[c.node] = Deal(i, c.policy)]
    BY <1>11 DEF Effect
  <2>2. WithinMax(c)
    BY <1>11 DEF Accepts, CardOps
  <2> QED
    BY <1>1, <1>3, <1>7, <1>10, <1>11, <2>1, <2>2
<1>12. CASE c.op = "renew"
  <2>1. Effect(i, c) = [chain.prov EXCEPT !.lease[c.node] = Deal(HeldBy(c).id, HeldBy(c).policy)]
    BY <1>12 DEF Effect
  <2>2. WithinMax(c) /\ HeldBy(c) # Nothing
    BY <1>12 DEF Accepts, StillHeld, CardOps
  <2>3. HeldBy(c) \in Lease
    BY <1>2, <1>7, <1>12, <2>2 DEF HeldBy
  <2>4. HeldBy(c).id \in 0 .. MaxCalls /\ HeldBy(c).policy \in Policies
    BY <2>3 DEF Lease
  <2> QED
    BY <1>7, <1>10, <1>12, <2>1, <2>2, <2>4
<1> QED
  BY <1>3, <1>4, <1>5, <1>6, <1>8, <1>9, <1>11, <1>12 DEF Ops, CardOps

(* A transaction's fate is written beside its call, which stays signed.      *)
LEMMA FateStep ==
    ASSUME Inv, NEW i \in Ids, NEW tx \in {"landed", "refused", "expired"},
           i \in pool \ {Outside}, pool' = pool \ {i},
           calls' = [calls EXCEPT ![i].tx = tx], UNCHANGED <<queue, tunnelUp, moves, tab>>
    PROVE  /\ Moves(i) /\ calls[i].pc \in Sent /\ calls'[i].pc = calls[i].pc
           /\ calls'[i].max = calls[i].max /\ calls'[i].checked = calls[i].checked
           /\ chain \in Chain /\ chain' \in Chain => TypeOK'
           /\ PollsUnderLock' /\ PoolIsSigned' /\ MaxIsChecked'
<1> DEFINE c == [calls[i] EXCEPT !.tx = tx]
<1>1. i \in DOMAIN calls /\ calls[i].pc \in Sent
  BY DEF Inv, PoolIsSigned
<1>2. calls[i] \in CallType
  BY <1>1, CallFacts DEF Inv
<1>3. c \in CallType /\ c.pc = calls[i].pc /\ c.max = calls[i].max /\ c.checked = calls[i].checked
  BY <1>2 DEF CallType
<1>4. calls' = [calls EXCEPT ![i] = c]
  OBVIOUS
<1> HIDE DEF c
<1>5. Moves(i) /\ calls'[i] = c
  BY <1>1, <1>3, <1>4, MoveCall DEF Inv
<1>6. PollsUnderLock'
  BY <1>3, <1>5 DEF Inv, PollsUnderLock, Moves
<1>7. PoolIsSigned'
  BY <1>5 DEF Inv, PoolIsSigned, Moves
<1>8. MaxIsChecked'
  BY <1>3, <1>5 DEF Inv, MaxIsChecked, Moves
<1>9. chain' \in Chain => TypeOK'
  BY <1>5 DEF Inv, TypeOK, Moves, tab
<1> QED
  BY <1>1, <1>3, <1>5, <1>6, <1>7, <1>8, <1>9

LEMMA IncludesStep == ASSUME Inv, NEW i \in Ids, Includes(i) PROVE Inv'
<1>1. PICK tx \in {"landed", "refused"} :
          /\ calls' = [calls EXCEPT ![i].tx = tx]
          /\ \/ chain' = chain
             \/ Accepts(calls[i]) /\ chain' = [chain EXCEPT !.prov = Effect(i, calls[i])]
  BY DEF Includes
<1>2. i \in pool \ {Outside} /\ pool' = pool \ {i} /\ UNCHANGED <<queue, tunnelUp, moves, tab>>
  BY DEF Includes
<1>3. /\ Moves(i) /\ calls[i].pc \in Sent /\ calls'[i].pc = calls[i].pc
      /\ calls'[i].checked = calls[i].checked /\ calls[i].max = calls[i].checked
      /\ (chain' \in Chain => TypeOK') /\ PollsUnderLock' /\ PoolIsSigned' /\ MaxIsChecked'
  <2>1. i \in DOMAIN calls
    BY <1>2 DEF Inv, PoolIsSigned
  <2> QED
    BY <1>1, <1>2, <2>1, FateStep DEF Inv, TypeOK, MaxIsChecked
<1>4. CASE chain' = chain
  <2>1. LeaseIsChecked'
    BY <1>3, <1>4 DEF Inv, LeaseIsChecked, Moves
  <2> QED
    BY <1>3, <1>4, <2>1 DEF Inv, TypeOK
<1>5. CASE Accepts(calls[i]) /\ chain' = [chain EXCEPT !.prov = Effect(i, calls[i])]
  <2>1. i \in DOMAIN calls
    BY <1>3 DEF Moves
  <2>2. Effect(i, calls[i]) \in Provider
    BY <1>5, <2>1, EffectFacts
  <2>3. chain' \in Chain /\ chain'.prov = Effect(i, calls[i])
    BY <1>5, <2>2 DEF Inv, TypeOK, Chain
  <2>4. LeaseIsChecked'
    <3> SUFFICES ASSUME NEW node \in Nodes, chain'.prov.lease[node] # Nothing,
                        chain'.prov.lease[node].by # 0
                 PROVE  /\ chain'.prov.lease[node].by \in DOMAIN calls'
                        /\ calls'[chain'.prov.lease[node].by].pc \in Sent
                        /\ chain'.prov.lease[node].price
                               <= calls'[chain'.prov.lease[node].by].checked
      BY DEF LeaseIsChecked
    <3> DEFINE lease == chain'.prov.lease[node]
               before == chain.prov.lease[node]
    <3>1. \/ lease = before
          \/ before # Nothing /\ lease.by = before.by /\ lease.price = before.price
          \/ lease.by = i /\ lease.price <= calls[i].max
      BY <1>5, <2>1, <2>3, EffectFacts
    <3>2. CASE before # Nothing /\ lease.by = before.by /\ lease.price = before.price
      BY <1>3, <3>2 DEF Inv, LeaseIsChecked, Moves
    <3>3. CASE lease.by = i /\ lease.price <= calls[i].max
      BY <1>3, <2>1, <3>3 DEF Moves
    <3> QED
      BY <3>1, <3>2, <3>3
  <2> QED
    BY <1>3, <2>3, <2>4 DEF Inv
<1> QED
  BY <1>1, <1>4, <1>5

LEMMA ExpiresStep == ASSUME Inv, NEW i \in Ids, Expires(i) PROVE Inv'
<1>1. /\ Moves(i) /\ calls[i].pc \in Sent /\ calls'[i].pc = calls[i].pc
      /\ calls'[i].checked = calls[i].checked
      /\ (chain' \in Chain => TypeOK') /\ PollsUnderLock' /\ PoolIsSigned' /\ MaxIsChecked'
  BY FateStep DEF Expires, Inv, TypeOK, world
<1>2. chain' = chain
  BY DEF Expires, world
<1>3. LeaseIsChecked'
  BY <1>1, <1>2 DEF Inv, LeaseIsChecked, Moves
<1> QED
  BY <1>1, <1>2, <1>3 DEF Inv, TypeOK

LEMMA WorldSteps ==
    ASSUME Inv, OthersMove \/ OutsideTx \/ OutsideTxEnds \/ TunnelFlips
    PROVE  Inv'
<1>1. CASE OthersMove
  <2>1. moves' \in 0 .. MaxMoves /\ UNCHANGED <<tunnelUp, main, tab>>
    BY <1>1 DEF OthersMove, Inv, TypeOK
  <2>2. PICK node \in Nodes :
            \/ \E v \in Prices \cup {Nothing} : chain' = [chain EXCEPT !.offer[node] = v]
            \/ chain' = [chain EXCEPT !.prov.lease[node] = Nothing]
    BY <1>1 DEF OthersMove
  <2>3. chain' \in Chain
        /\ \A other \in Nodes : chain'.prov.lease[other] \in {Nothing, chain.prov.lease[other]}
    BY SMTT(20), <2>2 DEF Inv, TypeOK, Chain, Provider
  <2>4. LeaseIsChecked'
    BY <2>1, <2>3 DEF Inv, LeaseIsChecked, main
  <2>5. PollsUnderLock' /\ PoolIsSigned' /\ MaxIsChecked'
    BY <2>1 DEF Inv, PollsUnderLock, PoolIsSigned, MaxIsChecked, main
  <2> QED
    BY <2>1, <2>3, <2>4, <2>5 DEF Inv, TypeOK, main, tab
<1>2. CASE OutsideTx \/ OutsideTxEnds
  <2>1. moves' \in 0 .. MaxMoves /\ UNCHANGED <<chain, tunnelUp, calls, queue, tab>>
    <3>1. CASE OutsideTx
      BY <3>1 DEF OutsideTx, Inv, TypeOK
    <3>2. CASE OutsideTxEnds
      BY <3>2 DEF OutsideTxEnds, world, Inv, TypeOK
    <3> QED
      BY <1>2, <3>1, <3>2
  <2>2. pool' \ {Outside} \subseteq pool /\ pool' \in SUBSET (0 .. MaxCalls)
    <3>1. pool \in SUBSET (0 .. MaxCalls) /\ Outside \in 0 .. MaxCalls
      BY DEF Inv, TypeOK, Outside
    <3> QED
      BY <1>2, <3>1 DEF OutsideTx, OutsideTxEnds
  <2>3. PollsUnderLock' /\ PoolIsSigned' /\ MaxIsChecked' /\ LeaseIsChecked'
    BY <2>1, <2>2 DEF Inv, PollsUnderLock, PoolIsSigned, MaxIsChecked, LeaseIsChecked
  <2> QED
    BY <2>1, <2>2, <2>3 DEF Inv, TypeOK, tab
<1>3. CASE TunnelFlips
  <2>1. moves' \in 0 .. MaxMoves /\ tunnelUp' \in BOOLEAN /\ UNCHANGED <<chain, main, tab>>
    <3>1. moves' \in 0 .. MaxMoves
      BY <1>3 DEF TunnelFlips, Inv, TypeOK
    <3>2. tunnelUp' \in BOOLEAN
      BY <1>3 DEF TunnelFlips, Inv, TypeOK
    <3> QED
      BY <1>3, <3>1, <3>2 DEF TunnelFlips
  <2> QED
    BY <2>1, StillStep DEF Inv, TypeOK, main, tab
<1> QED
  BY <1>1, <1>2, <1>3

(***************************************************************************)
(* The tab.                                                                *)
(***************************************************************************)
LEMMA SubmitsStep == ASSUME Inv, NEW op \in Ops, Submits(op) PROVE Inv'
<1>1. 0 \in Policies /\ Takes(Call(op, Nothing, 0)) /\ UNCHANGED <<world, pool, queue, tab>>
  BY DEF Submits, Policies
<1>2. PollsUnderLock' /\ PoolIsSigned' /\ MaxIsChecked' /\ LeaseIsChecked'
  BY <1>1, TakeStep DEF world
<1>3. calls' \in Seq(CallType) /\ Len(calls') <= MaxCalls
  BY <1>1, TakeCall DEF Inv
<1> QED
  BY <1>1, <1>2, <1>3 DEF Inv, TypeOK, world, tab

LEMMA AsksStep ==
    ASSUME Inv, NEW op \in Ops, NEW policy \in Policies, modal # Nothing, Asks(op, policy)
    PROVE  Inv'
<1>1. Takes(Call(op, modal.node, policy)) /\ UNCHANGED <<world, pool, queue, view>>
  BY DEF Asks
<1>2. modal \in ModalType /\ modal.node \in Nodes \cup {Nothing}
  BY DEF Inv, TypeOK, ModalType
<1>3. PollsUnderLock' /\ PoolIsSigned' /\ MaxIsChecked' /\ LeaseIsChecked'
  BY <1>1, <1>2, TakeStep DEF world
<1>4. calls' \in Seq(CallType) /\ Len(calls') <= MaxCalls /\ Len(calls) + 1 \in 0 .. MaxCalls
  BY <1>1, <1>2, TakeCall DEF Inv
<1>5. modal' \in ModalType
  BY <1>2, <1>4 DEF Asks, ModalType
<1> QED
  BY <1>1, <1>3, <1>4, <1>5 DEF Inv, TypeOK, world

(* The modal and the view change, and no call is made.                      *)
LEMMA LooksStep ==
    ASSUME Inv, UNCHANGED <<world, main>>, view' \in Provider \cup {Nothing},
           modal' \in ModalType \cup {Nothing}
    PROVE  Inv'
<1>1. PollsUnderLock' /\ PoolIsSigned' /\ MaxIsChecked' /\ LeaseIsChecked'
  BY StillStep DEF world
<1> QED
  BY <1>1 DEF Inv, TypeOK, world, main

LEMMA TabStep == ASSUME Inv, Tab PROVE Inv'
<1>1. /\ view \in Provider \cup {Nothing} /\ modal \in ModalType \cup {Nothing}
      /\ chain.prov \in Provider /\ chain.offer \in [Nodes -> Prices \cup {Nothing}]
  BY DEF Inv, TypeOK, Chain
<1>2. Offered \subseteq Policies /\ 0 \in Policies
  BY DEF Policies
<1>3. CASE Rereads
  BY <1>1, <1>3, LooksStep DEF Rereads, Overview
<1>4. CASE Quotes
  <2>1. modal' \in ModalType
    BY <1>1, <1>4 DEF Quotes, ModalType
  <2> QED
    BY <1>1, <1>4, <2>1, LooksStep DEF Quotes
<1>5. CASE Fails
  <2>1. modal' \in ModalType
    <3>1. modal \in ModalType /\ modal' = [modal EXCEPT !.call = 0]
      BY <1>1, <1>5 DEF Fails, Replied
    <3> QED
      BY <3>1 DEF ModalType
  <2> QED
    BY <1>1, <1>5, <2>1, LooksStep DEF Fails
<1>6. CASE Closes
  BY <1>1, <1>6, LooksStep DEF Closes
<1>7. CASE \E node \in Nodes : OpensLease(node) \/ OpensManage(node)
  <2>1. PICK node \in Nodes : OpensLease(node) \/ OpensManage(node)
    BY <1>7
  <2>2. OpensManage(node) => view.lease[node] \in Lease \cup {Nothing}
    BY <1>1 DEF OpensManage, Provider
  <2>3. modal' \in ModalType
    <3>1. CASE OpensLease(node)
      BY <3>1 DEF OpensLease, ModalType
    <3>2. CASE OpensManage(node)
      BY <2>2, <3>2 DEF OpensManage, ModalType
    <3> QED
      BY <2>1, <3>1, <3>2
  <2> QED
    BY <1>1, <2>1, <2>3, LooksStep DEF OpensLease, OpensManage
<1>8. CASE Extends \/ EndsLease \/ Links
  BY <1>2, <1>8, AsksStep DEF Extends, EndsLease, Links, Idles, Replied, Ops
<1>9. CASE \E policy \in Offered : Leases(policy) \/ ChangesPolicy(policy)
  BY <1>2, <1>9, AsksStep DEF Leases, ChangesPolicy, Idles, Ops
<1>10. CASE Registers \/ EditsDetails \/ TogglesProvider \/ CreatesPlan \/ EditsPlan
  BY <1>10, SubmitsStep
     DEF Registers, EditsDetails, TogglesProvider, CreatesPlan, EditsPlan, Ops, CardOps
<1> QED
  BY <1>3, <1>4, <1>5, <1>6, <1>7, <1>8, <1>9, <1>10 DEF Tab

(***************************************************************************)
(* The theorems.                                                           *)
(***************************************************************************)
LEMMA InvInit == Init => Inv
<1> SUFFICES ASSUME Init PROVE Inv
  OBVIOUS
<1>1. calls = <<>> /\ queue = <<>> /\ pool = {} /\ view = Nothing /\ modal = Nothing /\ moves = 0
  BY DEF Init
<1>2. calls \in Seq(CallType) /\ Len(calls) = 0 /\ queue \in Seq(Ids)
  BY <1>1
<1>3. DOMAIN calls = {}
  BY <1>2
<1>4. chain.prov \in Openings /\ chain.offer \in [Nodes -> Prices]
      /\ chain = [prov |-> chain.prov, offer |-> chain.offer]
  BY DEF Init
<1>5. chain \in Chain
  BY <1>4, OpeningsAssumption DEF Chain
<1>6. tunnelUp \in BOOLEAN
  BY DEF Init
<1>7. TypeOK
  BY <1>1, <1>2, <1>5, <1>6 DEF TypeOK
<1>8. LeaseIsChecked
  BY <1>4, OpeningsAssumption DEF LeaseIsChecked
<1> QED
  BY <1>1, <1>3, <1>7, <1>8 DEF Inv, PollsUnderLock, PoolIsSigned, MaxIsChecked

LEMMA InvStep == Inv /\ [Next]_vars => Inv'
<1> SUFFICES ASSUME Inv, [Next]_vars PROVE Inv'
  OBVIOUS
<1>1. CASE UNCHANGED vars
  BY <1>1, LooksStep DEF vars, tab, Inv, TypeOK
<1>2. CASE Environment
  BY <1>2, WorldSteps, IncludesStep, ExpiresStep DEF Environment
<1>3. CASE Tab
  BY <1>3, TabStep
<1>4. CASE \E i \in Ids : Handler(i)
  BY <1>4, HandlerStep
<1> QED
  BY <1>1, <1>2, <1>3, <1>4 DEF Next

LEMMA Invariance == Spec => []Inv
BY InvInit, InvStep, PTL DEF Spec

(* The console's calls, its line for the write lock, the wallet's pool and   *)
(* the tab keep their shapes, whatever the chain answers.                    *)
THEOREM TypeCorrect == Spec => []TypeOK
<1>1. Inv => TypeOK
  BY DEF Inv
<1> QED
  BY <1>1, Invariance, PTL

(* A lease started or renewed by the console costs no more than the deposit  *)
(* LEASE_START or LEASE_RENEW checked the balance for, whenever the node      *)
(* changes its price: the MaxPrice of the transaction is that deposit.       *)
THEOREM LeasesAreAsChecked == Spec => []NeverPaysMoreThanChecked
<1>1. Inv => NeverPaysMoreThanChecked
  BY DEF Inv, LeaseIsChecked, NeverPaysMoreThanChecked
<1> QED
  BY <1>1, Invariance, PTL

(* Two console calls never meet on the account's sequence number while both  *)
(* run: withProviderWriteLock holds through the poll.                        *)
THEOREM LockPreventsCollisions == Spec => CollisionsAreLate
<1> DEFINE Late == \A i \in DOMAIN calls :
                       calls[i].tx = "none" /\ calls'[i].tx = "collided" =>
                           \A j \in pool : j = Outside \/ Returned(j)
<1>1. ASSUME Inv, [Next]_vars PROVE [Late]_vars
  <2> SUFFICES ASSUME Next, NEW i \in DOMAIN calls, calls[i].tx = "none", calls'[i].tx = "collided",
                      NEW j \in pool, j # Outside
               PROVE  Returned(j)
    BY <1>1
  <2>1. calls \in Seq(CallType) /\ calls[i] \in CallType
    BY <1>1, CallFacts DEF Inv
  <2>2. CASE Collides(i)
    <3>1. calls[i].pc = "queued" /\ Head(queue) = i
      BY <2>2 DEF Collides, At, HoldsLock
    <3>2. j \in DOMAIN calls /\ calls[j].pc \in Sent
      BY <1>1 DEF Inv, PoolIsSigned
    <3>3. calls[j].pc # "polling"
      BY <1>1, <3>1, <3>2 DEF Inv, PollsUnderLock
    <3> QED
      BY <3>2, <3>3 DEF Sent, Returned
  <2>3. ASSUME ~Collides(i) PROVE calls'[i].tx # "collided"
    <3>1. ASSUME NEW k \in Ids, Handler(k) PROVE calls'[i].tx # "collided"
      <4>1. CASE FindsLease(k) \/ ReadsPrice(k) \/ Queues(k) \/ CheckFails(k)
        <5>1. CASE FindsLease(k)
          BY <2>1, <5>1 DEF FindsLease, CallType
        <5>2. CASE ReadsPrice(k)
          BY <2>1, <5>2 DEF ReadsPrice, CallType
        <5>3. CASE Queues(k)
          BY <2>1, <5>3 DEF Queues, CallType
        <5>4. CASE CheckFails(k)
          BY <2>1, <5>4 DEF CheckFails, CallType
        <5> QED
          BY <4>1, <5>1, <5>2, <5>3, <5>4
      <4>2. CASE Signs(k)
        BY <2>1, <4>2 DEF Signs, CallType
      <4>3. CASE Collides(k)
        BY <2>1, <2>3, <4>3 DEF Collides, Finishes, CallType
      <4>4. CASE SignFails(k)
        BY <2>1, <4>4 DEF SignFails, Finishes, CallType
      <4>5. CASE PollAnswers(k) \/ PollEnds(k)
        <5>1. PICK pc \in Answers : Finishes(k, pc, calls[k].tx)
          <6>1. CASE PollAnswers(k)
            BY <6>1 DEF PollAnswers
          <6>2. CASE PollEnds(k)
            BY <6>2 DEF PollEnds
          <6> QED
            BY <4>5, <6>1, <6>2
        <5> QED
          BY <2>1, <5>1 DEF Finishes, CallType
      <4> QED
        BY <3>1, <4>1, <4>2, <4>3, <4>4, <4>5 DEF Handler
    <3>2. ASSUME calls'[i] = calls[i] PROVE calls'[i].tx # "collided"
      BY <3>2
    <3>3. ASSUME NEW k \in Ids, Includes(k) \/ Expires(k) PROVE calls'[i].tx # "collided"
      <4>1. PICK tx \in {"landed", "refused", "expired"} : calls' = [calls EXCEPT ![k].tx = tx]
        <5>1. CASE Includes(k)
          BY <5>1 DEF Includes
        <5>2. CASE Expires(k)
          BY <5>2 DEF Expires
        <5> QED
          BY <3>3, <5>1, <5>2
      <4> QED
        BY <2>1, <4>1 DEF CallType
    <3>4. CASE OthersMove \/ OutsideTx \/ OutsideTxEnds \/ TunnelFlips
      BY <3>2, <3>4 DEF OthersMove, OutsideTx, OutsideTxEnds, TunnelFlips, main
    <3>5. ASSUME NEW c, Takes(c) PROVE calls'[i].tx # "collided"
      <4>1. i \in 1 .. Len(calls) /\ calls' = Append(calls, c)
        BY <1>1, <3>5, CallFacts DEF Inv, Takes
      <4>2. calls'[i] = calls[i]
        BY <2>1, <4>1
      <4> QED
        BY <3>2, <4>2
    <3>6. CASE Tab
      <4>1. CASE \E op, node, policy : Takes(Call(op, node, policy))
        BY <3>5, <4>1
      <4>2. CASE UNCHANGED calls
        BY <3>2, <4>2
      <4>3. \/ \E op, node, policy : Takes(Call(op, node, policy))
            \/ UNCHANGED calls
        BY <3>6 DEF Tab, Rereads, Quotes, Extends, EndsLease, Links, Fails, Closes, Registers,
              EditsDetails, TogglesProvider, CreatesPlan, EditsPlan, OpensLease, OpensManage,
              Leases, ChangesPolicy, Submits, Asks, main
      <4> QED
        BY <4>1, <4>2, <4>3
    <3> QED
      BY <3>1, <3>3, <3>4, <3>6 DEF Next, Environment
  <2> QED
    BY <2>2, <2>3
<1> QED
  BY <1>1, Invariance, PTL DEF Spec, CollisionsAreLate
=============================================================================
