------------------------------ MODULE Purchase ------------------------------
(***************************************************************************)
(* The handlers of src/src/main/ipc-handlers.ts that spend the user's money *)
(* on sessions, the transactions they broadcast, and what they do when a    *)
(* step after the payment fails.                                             *)
(*                                                                           *)
(*   "single"  CONNECTION_SUBSCRIBE, PLAN_SUBSCRIBE and                      *)
(*             PLAN_START_SESSION_FROM_SUB: one session, one handshake,      *)
(*             establishSessionOrRefund                                      *)
(*   "smart"   PLAN_SMART_CONNECT: a ladder of candidates, the plan bought   *)
(*             with the first transaction and ridden by the later ones       *)
(*   "chain"   CONNECTION_SUBSCRIBE_CHAIN: two sessions, possibly paid from  *)
(*             two wallets, establishChainOrRefund                           *)
(*                                                                           *)
(* The chain is an actor of its own.  A broadcast transaction sits in the    *)
(* pool until it lands or is dropped, whatever its broadcaster does in the   *)
(* meantime; when one of an account's transactions lands, the others of that *)
(* account still in the pool carry a spent sequence number and are dropped.  *)
(* Waits are bounded, the work behind them is not (async-utils.ts): a refund *)
(* given up on may still be sent, and land, later.                           *)
(*                                                                           *)
(* Session k is the one the k-th session-creating transaction opens.         *)
(***************************************************************************)
EXTENDS Integers, FiniteSets

CONSTANTS
    Wallets,        \* the wallets stored on the device
    MaxBuys,        \* bound: session-creating transactions of a behaviour
    MaxEnds,        \* bound: sessions the user ends by hand
    MaxCandidates,  \* bound: nodes a plan's ranking offers the ladder
    MaxTxAttempts,  \* MAX_TX_ATTEMPTS, plan-connect.ts
    MaxRetries      \* HANDSHAKE_RETRY_MAX_RETRIES, connect-decisions.ts

ASSUME WalletsAssumption ==
    Wallets # {} /\ "none" \notin Wallets /\ "unowned" \notin Wallets
ASSUME BoundsAssumption ==
    /\ MaxBuys \in Nat /\ MaxEnds \in Nat
    /\ MaxCandidates \in Nat \ {0}
    /\ MaxTxAttempts \in Nat \ {0}
    /\ MaxRetries \in Nat

VARIABLES
    activeWallet,  \* the wallet the app acts for now
    kind,          \* which handler is, or was last, running
    payer,         \* the wallet active when it was called
    exitPayer,     \* the wallet that signs a chain's exit hop
    wiped,         \* the private key the handler captured has been zeroed
    entryId,       \* the wallet ids a chain is to record for its hops; before
    exitId,        \* they are chosen, exitId is the exit wallet asked for, or none
    pc,            \* where the handler is
    first,         \* its first session-creating transaction
    candidates,    \* ranked candidates left, the one being tried included
    subscription,  \* the ladder's subscriptionId is set
    tries,         \* handshake attempts answered 404
    proxy,         \* the entry-only provisioning proxy is running
    paid,          \* sessions paid for and not yet delivered
    back,          \* those whose refund was confirmed
    stranded,      \* those whose refund failed or was given up on
    bought,        \* session-creating transactions broadcast
    session,       \* session or its transaction: none, pool, active, ended, gone
    owner,         \* the account that signed the purchase
    buys,          \* what the transaction buys: "deposit", "plan", "ride", "hop"
    cancelCall,    \* an endSession call: none, running, ok, failed
    cancelTx,      \* its transaction: none, pool, landed, moot, void
    cancelBy,      \* the wallet that signs it
    saved,         \* the session's file: none, or the walletId it records
    kept,          \* sessions delivered to the user by a purchase that succeeded
    told,          \* sessions a failure message named for manual cancelling
    inDoubt,       \* purchases reported as timed out and possibly still to land
    unread,        \* purchases whose outcome the handler could not read
    idless,        \* plans whose purchase was answered without a subscription id
    abandoned      \* some wait was given up on with its transaction undecided

request == <<kind, payer, first>>
signers == <<exitPayer, entryId, exitId>>
caller == <<activeWallet, wiped, request, signers>>
ladder == <<candidates, subscription, tries, proxy>>
refunds == <<paid, back, stranded>>
chain == <<bought, session, owner, buys>>
cancels == <<cancelCall, cancelTx, cancelBy>>
doubts == <<inDoubt, unread, idless>>
answers == <<kept, told, doubts, abandoned>>
vars == <<caller, pc, ladder, refunds, chain, cancels, saved, answers>>

Sessions == 1..MaxBuys
Callers == {"refund", "user"}
Cancels == Sessions \X Callers
AtRest == pc \in {"idle", "answered"}
Current == bought

Init ==
    /\ activeWallet \in Wallets
    /\ kind = "single" /\ payer = activeWallet
    /\ wiped = FALSE
    /\ exitPayer = activeWallet /\ entryId = activeWallet /\ exitId = "none"
    /\ pc = "idle" /\ first = 1
    /\ candidates = 0 /\ subscription = FALSE /\ tries = 0 /\ proxy = FALSE
    /\ paid = {} /\ back = {} /\ stranded = {}
    /\ bought = 0
    /\ session = [k \in Sessions |-> "none"]
    /\ owner = [k \in Sessions |-> "none"]
    /\ buys = [k \in Sessions |-> "none"]
    /\ cancelCall = [j \in Cancels |-> "none"]
    /\ cancelTx = [j \in Cancels |-> "none"]
    /\ cancelBy = [j \in Cancels |-> "none"]
    /\ saved = [k \in Sessions |-> "none"]
    /\ kept = {} /\ told = {} /\ inDoubt = {} /\ unread = {} /\ idless = {}
    /\ abandoned = FALSE

-----------------------------------------------------------------------------
(* The request, and the checks that run before money moves.                  *)

\* The transactions a request may broadcast, kept within the bound.
Budget(knd, n) ==
    CASE knd = "single" -> 1
      [] knd = "chain" -> 2
      [] knd = "smart" -> IF n < MaxTxAttempts THEN n ELSE MaxTxAttempts

Request(knd, asked, n, sub) ==
    /\ AtRest
    /\ bought + Budget(knd, n) <= MaxBuys
    /\ knd # "chain" => asked = "none"
    /\ knd # "smart" => n = 1 /\ ~sub
    /\ kind' = knd /\ payer' = activeWallet /\ wiped' = FALSE
    /\ exitPayer' = activeWallet /\ entryId' = activeWallet /\ exitId' = asked
    /\ first' = bought + 1
    /\ candidates' = n /\ subscription' = sub /\ tries' = 0
    /\ paid' = {} /\ back' = {} /\ stranded' = {}
    /\ pc' = IF knd = "chain" THEN "grade" ELSE "check"
    /\ UNCHANGED <<activeWallet, proxy, chain, cancels, saved, answers>>

(* Mutant: the key of the wallet switched away from is left in memory. *)
KeyWiped_Never == wiped

\* setPrivKey zeroes the key in place, under the handler that captured it.
KeyWiped == wiped \/ ~AtRest

\* WALLET_SWITCH refuses only while a tunnel is live or a reconnect is counted
\* (assertNotConnected): neither holds while a purchase is being worked on.
SwitchWallet(w) ==
    /\ activeWallet' = w
    /\ wiped' = KeyWiped
    /\ UNCHANGED <<request, signers, pc, ladder, refunds, chain, cancels, saved,
                   answers>>

\* The entry passed its checks: a chain's signers are put together, from the
\* wallet captured when it was asked for and the id of the one active by now.
ChooseSigners ==
    /\ pc = "grade"
    /\ LET separate == exitId \notin {"none", activeWallet}
       IN  /\ exitPayer' = IF separate THEN exitId ELSE payer
           /\ exitId' = IF separate THEN exitId ELSE activeWallet
    /\ entryId' = activeWallet
    /\ pc' = "check"
    /\ UNCHANGED <<activeWallet, wiped, request, ladder, refunds, chain, cancels, saved,
                   answers>>

\* The handler returns or throws: its own variables go with it.
Answers ==
    /\ pc' = "answered"
    /\ candidates' = 0 /\ subscription' = FALSE /\ tries' = 0 /\ proxy' = FALSE
    /\ paid' = {} /\ back' = {} /\ stranded' = {}

(* Mutant: the ladder tries one candidate too many. *)
LadderGoesOn_OneMore == kind = "smart" /\ candidates >= 0

\* A candidate that costs nothing to skip, or the last one.
LadderGoesOn == kind = "smart" /\ candidates > 1

CheckFails ==
    /\ pc \in {"grade", "check"}
    /\ IF LadderGoesOn
       THEN /\ candidates' = candidates - 1
            /\ UNCHANGED <<pc, subscription, tries, proxy, refunds>>
       ELSE Answers
    /\ UNCHANGED <<caller, chain, cancels, saved, answers>>

\* establishChainOrRefund's catch: whatever is paid for is refunded, in turn.
RefundOrAnswer ==
    IF paid = {} THEN Answers ELSE pc' = "refund" /\ UNCHANGED <<ladder, refunds>>

ExitCheckFails ==
    /\ pc = "exitCheck"
    /\ RefundOrAnswer
    /\ UNCHANGED <<caller, chain, cancels, saved, answers>>

-----------------------------------------------------------------------------
(* Buying one session: subscribeToNode, subscribeToPlan and                  *)
(* startSessionWithExistingSubscription.                                     *)

(* Mutant: a refund is taken to cancel the subscription as well. *)
NextTx_SubscribesAgain ==
    CASE kind = "chain" -> "hop"
      [] kind = "single" -> "deposit"
      [] kind = "smart" -> IF subscription /\ bought < first THEN "ride" ELSE "plan"

\* ladderNextTx, plan-connect.ts
NextTx ==
    CASE kind = "chain" -> "hop"
      [] kind = "single" -> "deposit"
      [] kind = "smart" -> IF subscription THEN "ride" ELSE "plan"

Signer == IF pc = "exitCheck" THEN exitPayer ELSE payer

SendBuy ==
    /\ pc \in {"check", "exitCheck"}
    /\ bought < MaxBuys
    /\ bought' = bought + 1
    /\ session' = [session EXCEPT ![bought + 1] = "pool"]
    /\ owner' = [owner EXCEPT ![bought + 1] = Signer]
    /\ buys' = [buys EXCEPT ![bought + 1] = NextTx]
    /\ pc' = "confirm"
    /\ UNCHANGED <<caller, ladder, refunds, cancels, saved, answers>>

\* Refused before it reached a node: funds, simulation, no RPC.
BuyNotSent ==
    /\ pc \in {"check", "exitCheck"}
    /\ RefundOrAnswer
    /\ UNCHANGED <<caller, chain, cancels, saved, answers>>

\* The transaction succeeded, whatever became of its session since.
Committed == session[Current] \in {"active", "ended"}

\* The events of a plan's purchase need not yield the subscription's id
\* (subscribeToPlan then answers ''): the ladder leaves its own unset.
NotesSubscription ==
    IF buys[Current] = "plan"
    THEN \/ subscription' = TRUE /\ UNCHANGED idless
         \/ idless' = idless \cup {Current} /\ UNCHANGED subscription
    ELSE UNCHANGED <<subscription, idless>>

BuyConfirmed ==
    /\ pc = "confirm"
    /\ Committed
    /\ paid' = paid \cup {Current}
    /\ NotesSubscription
    /\ tries' = 0
    /\ pc' = "handshake"
    /\ UNCHANGED <<caller, candidates, proxy, back, stranded, chain, cancels, saved,
                   kept, told, inDoubt, unread, abandoned>>

\* The session's event, or the id in it, is not found: the error names nothing,
\* and the handler has no id it could refund by.
BuyUnnamed ==
    /\ pc = "confirm"
    /\ Committed
    /\ unread' = unread \cup {Current}
    /\ RefundOrAnswer
    /\ UNCHANGED <<caller, chain, cancels, saved, kept, told, inDoubt, idless, abandoned>>

\* assertTxSucceeded
BuyRefused ==
    /\ pc = "confirm"
    /\ session[Current] = "gone"
    /\ RefundOrAnswer
    /\ UNCHANGED <<caller, chain, cancels, saved, answers>>

\* broadcastOrTimeout: the message says that the transaction may still land.
BuyTimesOut ==
    /\ pc = "confirm"
    /\ inDoubt' = inDoubt \cup {Current}
    /\ abandoned' = TRUE
    /\ RefundOrAnswer
    /\ UNCHANGED <<caller, chain, cancels, saved, kept, told, unread, idless>>

\* A poll for the confirmation fails: the error is rethrown as it is.
BuyUnheard ==
    /\ pc = "confirm"
    /\ unread' = unread \cup {Current}
    /\ abandoned' = TRUE
    /\ RefundOrAnswer
    /\ UNCHANGED <<caller, chain, cancels, saved, kept, told, inDoubt, idless>>

-----------------------------------------------------------------------------
(* The handshake, and what a purchase delivers.                              *)

EntryHop == kind = "chain" /\ Current = first

\* Each hop signs with the key of its payer; the exit wallet's is the handler's own.
KeyAtHand == ~wiped \/ (kind = "chain" /\ ~EntryHop /\ exitPayer # payer)

SignHandshake ==
    /\ pc = "handshake"
    /\ KeyAtHand
    /\ pc' = "posted"
    /\ UNCHANGED <<caller, ladder, refunds, chain, cancels, saved, answers>>

\* shouldRetrySessionHandshake: the node's own RPC lags behind ours.
HandshakeRetries ==
    /\ pc = "posted"
    /\ kind # "chain"
    /\ tries < MaxRetries
    /\ tries' = tries + 1
    /\ pc' = "handshake"
    /\ UNCHANGED <<caller, candidates, subscription, proxy, refunds, chain, cancels,
                   saved, answers>>

\* performHandshake saves the config without a walletId; applySession follows.
HandshakeDelivers ==
    /\ pc = "posted"
    /\ kind # "chain"
    /\ saved' = [saved EXCEPT ![Current] = "unowned"]
    /\ kept' = kept \cup {Current}
    /\ Answers
    /\ UNCHANGED <<caller, chain, cancels, told, doubts, abandoned>>

\* The entry is live: everything the exit hears comes through the proxy.
EntryHandshaken ==
    /\ pc = "posted"
    /\ EntryHop
    /\ proxy' = TRUE
    /\ pc' = "exitCheck"
    /\ UNCHANGED <<caller, candidates, subscription, tries, refunds, chain, cancels,
                   saved, answers>>

ExitHandshaken ==
    /\ pc = "posted"
    /\ kind = "chain" /\ ~EntryHop
    /\ pc' = "finalize"
    /\ UNCHANGED <<caller, ladder, refunds, chain, cancels, saved, answers>>

\* The handshake, the endpoint, the proxy or the config policy fails; signing
\* with a zeroed key does.
HandshakeFails ==
    /\ pc \in {"handshake", "posted"}
    /\ pc' = "refund"
    /\ UNCHANGED <<caller, ladder, refunds, chain, cancels, saved, answers>>

(* Mutant: the hop of the active wallet is saved without its owner. *)
SavedOwner_ExitOnly(k) == IF k = first THEN "unowned" ELSE exitId

\* finalizeChain records the owner of BOTH hops.
SavedOwner(k) == IF k = first THEN entryId ELSE exitId

Finalize ==
    /\ pc = "finalize"
    /\ saved' = [saved EXCEPT ![first] = SavedOwner(first),
                              ![Current] = SavedOwner(Current)]
    /\ kept' = kept \cup paid
    /\ Answers
    /\ UNCHANGED <<caller, chain, cancels, told, doubts, abandoned>>

\* The config does not build, or one of the two files cannot be written.
FinalizeFails ==
    /\ pc = "finalize"
    /\ \E wrote \in {{}, {first}} :
          saved' = [k \in Sessions |-> IF k \in wrote THEN SavedOwner(k) ELSE saved[k]]
    /\ pc' = "refund"
    /\ UNCHANGED <<caller, ladder, refunds, chain, cancels, answers>>

-----------------------------------------------------------------------------
(* Refunding: establishSessionOrRefund's catch, refundSessions and           *)
(* refundEachInTurn.                                                         *)

(* Mutant: only the hop that failed is refunded. *)
RefundTargets_LastOnly == {Current}

RefundTargets == paid
Settled == back \cup stranded

(* Mutant: the cancels are raced, Promise.all. *)
InTurn_Raced(k) == TRUE

\* One at a time, in the order they were paid for.
InTurn(k) == \A j \in RefundTargets : j < k => j \in Settled

(* Mutant: every hop is cancelled by the wallet that asked for the chain. *)
RefundSigner_Payer(k) == payer

\* Each hop is cancelled by the wallet that bought it.
RefundSigner(k) == IF kind = "chain" /\ k # first THEN exitPayer ELSE payer

StartRefund(k) ==
    /\ pc = "refund"
    /\ k \in RefundTargets \ Settled
    /\ InTurn(k)
    /\ cancelCall[<<k, "refund">>] = "none"
    /\ cancelCall' = [cancelCall EXCEPT ![<<k, "refund">>] = "running"]
    /\ cancelBy' = [cancelBy EXCEPT ![<<k, "refund">>] = RefundSigner(k)]
    /\ UNCHANGED <<caller, pc, ladder, refunds, chain, cancelTx, saved, answers>>

Awaited(k) ==
    /\ pc = "refund"
    /\ k \in RefundTargets \ Settled
    /\ cancelCall[<<k, "refund">>] # "none"

RefundSettles(k) ==
    /\ Awaited(k)
    /\ \/ cancelCall[<<k, "refund">>] = "ok" /\ back' = back \cup {k} /\ UNCHANGED stranded
       \/ cancelCall[<<k, "refund">>] = "failed" /\ stranded' = stranded \cup {k}
                                                 /\ UNCHANGED back
    /\ UNCHANGED <<caller, pc, ladder, paid, chain, cancels, saved, answers>>

(* Mutant: the wait for a refund has no bound of its own. *)
GivesUp_Never(k) == FALSE

\* REFUND_TIMEOUT_MS bounds the wait; the endSession call goes on.
GivesUp(k) == cancelCall[<<k, "refund">>] = "running"

RefundTimesOut(k) ==
    /\ Awaited(k)
    /\ GivesUp(k)
    /\ stranded' = stranded \cup {k}
    /\ abandoned' = TRUE
    /\ UNCHANGED <<caller, pc, ladder, paid, back, chain, cancels, saved, kept, told,
                   doubts>>

(* Mutant: the ladder does not tell a failed refund from a failed handshake. *)
TryNextCandidate_AnyFailure ==
    /\ LadderGoesOn
    /\ (bought + 1) - first < MaxTxAttempts

\* shouldTryNextCandidate, with a failed refund classified as "chain"
TryNextCandidate ==
    /\ LadderGoesOn
    /\ stranded = {}
    /\ (bought + 1) - first < MaxTxAttempts

EndRefund ==
    /\ pc = "refund"
    /\ RefundTargets \subseteq Settled
    /\ IF TryNextCandidate
       THEN /\ pc' = "check"
            /\ candidates' = candidates - 1
            /\ paid' = {} /\ back' = {} /\ stranded' = {}
            /\ UNCHANGED <<subscription, tries, proxy, told>>
       ELSE /\ Answers
            /\ told' = told \cup stranded
    /\ UNCHANGED <<caller, chain, cancels, saved, kept, doubts, abandoned>>

-----------------------------------------------------------------------------
(* Cancelling a session: the user's End button, and endSession itself.       *)

\* The Sessions tab lists the active wallet's sessions and those recorded
\* under another wallet's id (listSessionsOwnedByOtherWallets).
Visible(k) == owner[k] = activeWallet \/ saved[k] \in Wallets
EndSigner(k) == IF saved[k] \in Wallets THEN saved[k] ELSE activeWallet

UserEnded == {k \in Sessions : cancelCall[<<k, "user">>] # "none"}

\* Nothing keeps the user from ending a session while a purchase is at work.
UserEnds(k) ==
    /\ session[k] = "active"
    /\ Visible(k)
    /\ k \notin UserEnded /\ Cardinality(UserEnded) < MaxEnds
    /\ cancelCall' = [cancelCall EXCEPT ![<<k, "user">>] = "running"]
    /\ cancelBy' = [cancelBy EXCEPT ![<<k, "user">>] = EndSigner(k)]
    /\ UNCHANGED <<caller, pc, ladder, refunds, chain, cancelTx, saved, answers>>

\* retireSessionConfig: a chain hop keeps its pairing and owner, the rest goes.
Retire(k) ==
    saved' = [saved EXCEPT ![k] = IF saved[k] \in Wallets THEN saved[k] ELSE "none"]

CancelSent(j) ==
    /\ cancelCall[j] = "running"
    /\ cancelTx[j] = "none"
    /\ session[j[1]] = "active"
    /\ cancelTx' = [cancelTx EXCEPT ![j] = "pool"]
    /\ UNCHANGED <<caller, pc, ladder, refunds, chain, cancelCall, cancelBy, saved,
                   answers>>

\* No RPC, no gas money, or a simulation the chain refuses.
CancelNotSent(j) ==
    /\ cancelCall[j] = "running"
    /\ cancelTx[j] = "none"
    /\ cancelCall' = [cancelCall EXCEPT ![j] = "failed"]
    /\ UNCHANGED <<caller, pc, ladder, refunds, chain, cancelTx, cancelBy, saved,
                   answers>>

\* Cancelled, or already inactive on chain (isSessionNotActive).
CancelSucceeds(j) ==
    /\ cancelCall[j] = "running"
    /\ \/ cancelTx[j] \in {"landed", "moot"}
       \/ cancelTx[j] = "none" /\ session[j[1]] = "ended"
    /\ cancelCall' = [cancelCall EXCEPT ![j] = "ok"]
    /\ Retire(j[1])
    /\ UNCHANGED <<caller, pc, ladder, refunds, chain, cancelTx, cancelBy, answers>>

CancelRefused(j) ==
    /\ cancelCall[j] = "running"
    /\ cancelTx[j] = "void"
    /\ cancelCall' = [cancelCall EXCEPT ![j] = "failed"]
    /\ UNCHANGED <<caller, pc, ladder, refunds, chain, cancelTx, cancelBy, saved,
                   answers>>

\* CosmJS stops polling, or a poll fails; the transaction stays where it is.
CancelUnheard(j) ==
    /\ cancelCall[j] = "running"
    /\ cancelTx[j] # "none"
    /\ cancelCall' = [cancelCall EXCEPT ![j] = "failed"]
    /\ abandoned' = TRUE
    /\ UNCHANGED <<caller, pc, ladder, refunds, chain, cancelTx, cancelBy, saved, kept,
                   told, doubts>>

-----------------------------------------------------------------------------
(* The chain.                                                                *)

\* Once a transaction of account w lands, w's others in the pool are spent.
SpentBuys(w) ==
    [k \in Sessions |-> IF session[k] = "pool" /\ owner[k] = w THEN "gone" ELSE session[k]]
SpentCancels(w) ==
    [j \in Cancels |-> IF cancelTx[j] = "pool" /\ cancelBy[j] = w THEN "void" ELSE cancelTx[j]]

LandBuy(k) ==
    /\ session[k] = "pool"
    /\ session' = [SpentBuys(owner[k]) EXCEPT ![k] = "active"]
    /\ cancelTx' = SpentCancels(owner[k])
    /\ UNCHANGED <<caller, pc, ladder, refunds, bought, owner, buys, cancelCall,
                   cancelBy, saved, answers>>

DropBuy(k) ==
    /\ session[k] = "pool"
    /\ session' = [session EXCEPT ![k] = "gone"]
    /\ UNCHANGED <<caller, pc, ladder, refunds, bought, owner, buys, cancels, saved,
                   answers>>

LandCancel(j) ==
    /\ cancelTx[j] = "pool"
    /\ LET k == j[1]
           w == cancelBy[j]
       IN  IF session[k] = "active" /\ w = owner[k]
           THEN /\ session' = [SpentBuys(w) EXCEPT ![k] = "ended"]
                /\ cancelTx' = [SpentCancels(w) EXCEPT ![j] = "landed"]
           ELSE /\ session' = SpentBuys(w)
                /\ cancelTx' = [SpentCancels(w) EXCEPT
                                  ![j] = IF session[k] = "active" THEN "void" ELSE "moot"]
    /\ UNCHANGED <<caller, pc, ladder, refunds, bought, owner, buys, cancelCall,
                   cancelBy, saved, answers>>

DropCancel(j) ==
    /\ cancelTx[j] = "pool"
    /\ cancelTx' = [cancelTx EXCEPT ![j] = "void"]
    /\ UNCHANGED <<caller, pc, ladder, refunds, chain, cancelCall, cancelBy, saved,
                   answers>>

-----------------------------------------------------------------------------
CheckStep == ChooseSigners \/ CheckFails \/ ExitCheckFails \/ SendBuy \/ BuyNotSent
ConfirmStep ==
    \/ BuyConfirmed \/ BuyUnnamed \/ BuyRefused \/ BuyTimesOut \/ BuyUnheard
HandshakeStep ==
    \/ SignHandshake \/ HandshakeRetries \/ HandshakeDelivers
    \/ EntryHandshaken \/ ExitHandshaken \/ HandshakeFails
FinalizeStep == Finalize \/ FinalizeFails
RefundStep(k) == StartRefund(k) \/ RefundSettles(k) \/ RefundTimesOut(k)
CancelStep(j) ==
    \/ CancelSent(j) \/ CancelNotSent(j) \/ CancelSucceeds(j)
    \/ CancelRefused(j) \/ CancelUnheard(j)

HandlerStep ==
    \/ CheckStep \/ ConfirmStep \/ HandshakeStep \/ FinalizeStep \/ EndRefund
    \/ \E k \in Sessions : RefundStep(k)

Next ==
    \/ \E knd \in {"single", "smart", "chain"}, asked \in Wallets \cup {"none"},
          n \in 1..MaxCandidates, sub \in BOOLEAN : Request(knd, asked, n, sub)
    \/ \E w \in Wallets : SwitchWallet(w)
    \/ HandlerStep
    \/ \E k \in Sessions : UserEnds(k) \/ LandBuy(k) \/ DropBuy(k)
    \/ \E j \in Cancels : CancelStep(j) \/ LandCancel(j) \/ DropCancel(j)

Spec == Init /\ [][Next]_vars

-----------------------------------------------------------------------------
Kinds == {"single", "smart", "chain"}

TypeOK ==
    /\ activeWallet \in Wallets
    /\ kind \in Kinds /\ payer \in Wallets /\ wiped \in BOOLEAN
    /\ exitPayer \in Wallets /\ entryId \in Wallets /\ exitId \in Wallets \cup {"none"}
    /\ pc \in {"idle", "grade", "check", "confirm", "handshake", "posted", "exitCheck",
               "finalize", "refund", "answered"}
    /\ first \in Nat /\ bought \in 0..MaxBuys
    /\ candidates \in 0..MaxCandidates /\ subscription \in BOOLEAN
    /\ tries \in 0..MaxRetries /\ proxy \in BOOLEAN
    /\ paid \subseteq Sessions /\ back \subseteq Sessions /\ stranded \subseteq Sessions
    /\ session \in [Sessions -> {"none", "pool", "active", "ended", "gone"}]
    /\ owner \in [Sessions -> Wallets \cup {"none"}]
    /\ buys \in [Sessions -> {"none", "deposit", "plan", "ride", "hop"}]
    /\ cancelCall \in [Cancels -> {"none", "running", "ok", "failed"}]
    /\ cancelTx \in [Cancels -> {"none", "pool", "landed", "moot", "void"}]
    /\ cancelBy \in [Cancels -> Wallets \cup {"none"}]
    /\ saved \in [Sessions -> Wallets \cup {"none", "unowned"}]
    /\ kept \subseteq Sessions /\ told \subseteq Sessions
    /\ inDoubt \subseteq Sessions /\ unread \subseteq Sessions /\ idless \subseteq Sessions
    /\ abandoned \in BOOLEAN

\* The sessions the running, or last, request broadcast a transaction for.
Mine == {k \in Sessions : first <= k /\ k <= bought}

\* THE money rule of smart connect (ladderNextTx): one request pays a plan's
\* price again, counting the transactions that may still land, only behind a
\* purchase whose answer gave no subscription to ride.
PlanPaidOnce ==
    \A j, k \in Mine :
        /\ buys[j] = "plan" /\ session[j] # "gone"
        /\ buys[k] = "plan" /\ session[k] # "gone"
        /\ j < k
        => j \in idless

\* The ladder never buys behind money in doubt: when it broadcasts, every
\* earlier session of the same request is already over on chain.
LadderNeverStacks ==
    [][pc' = "confirm" /\ pc # "confirm" /\ kind = "smart"
        => \A k \in Mine : session[k] = "ended"]_vars

InFlight(w) ==
    {k \in Mine : session[k] = "pool" /\ owner[k] = w}
        \cup {j \in Mine \X {"refund"} : cancelTx[j] = "pool" /\ cancelBy[j] = w}

\* As long as no wait was given up on, a request never has two transactions of
\* one account in flight: they would carry the same sequence number.
OneTxAtATime == ~abandoned => \A w \in Wallets : Cardinality(InFlight(w)) <= 1

\* x/session accepts a cancel only from the account that bought the session:
\* refunds and the user's End always sign with it.
CancelSignedByOwner ==
    \A j \in Cancels : cancelBy[j] # "none" => cancelBy[j] = owner[j[1]]

\* Both hops of a delivered chain stay listed, and cancellable by the account
\* that pays for them, whichever wallet the user switches to.
ChainStaysManageable ==
    \A k \in kept : buys[k] = "hop" /\ session[k] = "active"
        => Visible(k) /\ EndSigner(k) = owner[k]

\* A purchase implements its promise: PaidSessions.
Money(k) ==
    CASE session[k] = "active" -> "locked"
      [] session[k] = "ended" -> "back"
      [] OTHER -> "unspent"

\* What the user knows of: sessions delivered, named by a failure to refund
\* them, or announced as possibly still to land.
Known == kept \cup told \cup inDoubt

\* The purchase whose outcome the request could not read, if there is one.
Missed == Mine \cap unread

Promise == INSTANCE PaidSessions WITH
    money <- [k \in Sessions |-> Money(k)],
    known <- Known,
    missed <- Missed,
    lost <- unread,
    busy <- ~AtRest
KeepsPromise == Promise!Spec

-----------------------------------------------------------------------------
\* The failure message tells the user to cancel the session by hand on the
\* Session tab: the tab of the wallet that asked for the purchase shows it.
ToldIsListed ==
    \A k \in told : AtRest /\ activeWallet = payer /\ k \in Mine /\ session[k] = "active"
        => Visible(k)

\* plan-connect.ts:127: "the plan's price is spent at most once ...  from the
\* moment one commits, every further attempt rides it".
CommittedPlanIsRidden ==
    \A j, k \in Mine :
        buys[j] = "plan" /\ session[j] \in {"active", "ended"} /\ j < k
            => buys[k] = "ride"

\* docs/invariants/reliability.md:8: "Refund on any failure".  What a failed
\* purchase could not give back it names: none leaves live money unmentioned.
FailureNamesItsMoney ==
    AtRest => \A k \in Mine : session[k] = "active" => k \in Known

=============================================================================
