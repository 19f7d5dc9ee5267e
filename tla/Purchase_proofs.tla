-------------------------- MODULE Purchase_proofs --------------------------
(***************************************************************************)
(* Proofs about Purchase, for any wallets, any number of transactions,      *)
(* candidates, attempts and retries: every variable keeps its type, a plan   *)
(* is paid again only behind an answer without its subscription's id, the    *)
(* ladder never buys behind money in doubt, a purchase keeps its promise     *)
(* (PaidSessions), a request has one transaction of an account in flight at  *)
(* a time, and whoever bought a session signs its end.                       *)
(*                                                                           *)
(* The ladder's two need to know why it goes on: because a refund was        *)
(* confirmed (back), which only an endSession call that succeeded reports    *)
(* (cancelCall = "ok"), which only a session that is over allows.  OnChain   *)
(* states that chain of facts, Ladder what each position of the handler      *)
(* knows of the request's earlier transactions.  Answerable, below, says who *)
(* answers for each session the user has not heard of, AtMostOne that one     *)
(* purchase loses sight of one transaction at most.                           *)
(***************************************************************************)
EXTENDS Purchase, FiniteSetTheorems, TLAPS

(* Where a request that has broadcast something may be. *)
Working == {"confirm", "handshake", "posted", "exitCheck", "finalize", "refund"}

Shape ==
    /\ first \in 1..(bought + 1)
    /\ pc \in Working => first <= bought
    /\ pc \in {"exitCheck", "finalize"} => kind = "chain"
    /\ pc \in {"grade", "check"} => paid = {}
    /\ pc = "grade" => kind = "chain"

Fresh == \A k \in Sessions : k > bought => session[k] = "none"

OnChain ==
    /\ \A j \in Cancels : cancelTx[j] = "pool" => session[j[1]] \in {"active", "ended"}
    /\ \A j \in Cancels : cancelTx[j] \in {"landed", "moot"} => session[j[1]] = "ended"
    /\ \A j \in Cancels : cancelCall[j] = "ok" => session[j[1]] = "ended"
    /\ \A k \in back : session[k] = "ended"

Ladder ==
    kind = "smart" =>
        /\ pc \in {"check", "confirm"} => paid = {}
        /\ pc \in {"handshake", "posted", "refund"} => paid = {Current}
        /\ pc = "check" => \A k \in Mine : session[k] = "ended"
        /\ pc \in {"confirm", "handshake", "posted", "refund"} =>
              \A k \in Mine : k # Current => session[k] = "ended"
        /\ pc \in {"check", "handshake", "posted", "refund"} /\ ~subscription =>
              Mine \subseteq idless
        /\ pc = "confirm" /\ ~subscription =>
              buys[Current] = "plan" /\ Mine \ {Current} \subseteq idless

PlanFirst == \A j, k \in Mine : buys[k] = "plan" /\ j < k => j \in idless

IInv == TypeOK /\ Shape /\ Fresh /\ OnChain /\ Ladder /\ PlanFirst

----------------------------------------------------------------------------
LEMMA BoundsAreNat ==
  MaxBuys \in Nat /\ MaxCandidates \in Nat /\ MaxRetries \in Nat /\ MaxTxAttempts \in Nat
BY BoundsAssumption

LEMMA InitHolds == Init => IInv
<1>. SUFFICES ASSUME Init PROVE IInv
  OBVIOUS
<1>. USE BoundsAssumption, WalletsAssumption
<1>1. TypeOK
  <2>1. 0 \in 0..MaxBuys /\ 0 \in 0..MaxCandidates /\ 0 \in 0..MaxRetries /\ 1 \in Nat
    OBVIOUS
  <2>2. QED BY <2>1, Zenon DEF Init, TypeOK, Kinds
<1>2. Shape /\ Fresh /\ OnChain
  BY DEF Init, Shape, Fresh, OnChain, Working, Cancels, Sessions
<1>3. Ladder /\ PlanFirst
  BY DEF Init, Ladder, PlanFirst, Mine, Sessions
<1>4. QED BY <1>1, <1>2, <1>3 DEF IInv

(* The transaction a working request waits for is one of the sessions. *)
LEMMA CurrentIsSession ==
  ASSUME TypeOK, Shape, pc \in Working
  PROVE  Current \in Sessions /\ Current \in Mine /\ first \in Sessions
BY BoundsAreNat DEF TypeOK, Shape, Current, Sessions, Mine, Working

----------------------------------------------------------------------------
(* Types. *)

LEMMA RequestType == ASSUME IInv, \E knd \in {"single", "smart", "chain"}, asked \in Wallets \cup {"none"},
          n \in 1..MaxCandidates, sub \in BOOLEAN : Request(knd, asked, n, sub)
  PROVE TypeOK'
<1>1. PICK knd \in {"single", "smart", "chain"}, asked \in Wallets \cup {"none"},
          n \in 1..MaxCandidates, sub \in BOOLEAN : Request(knd, asked, n, sub)
  OBVIOUS
<1>2. /\ kind' \in Kinds /\ payer' \in Wallets /\ exitPayer' \in Wallets
      /\ entryId' \in Wallets /\ exitId' \in Wallets \cup {"none"}
      /\ activeWallet' \in Wallets /\ wiped' \in BOOLEAN
  BY <1>1 DEF IInv, TypeOK, Request, Kinds
<1>3. first' \in Nat /\ candidates' \in 0..MaxCandidates /\ tries' \in 0..MaxRetries
  BY <1>1, BoundsAreNat DEF IInv, TypeOK, Request
<1>4. /\ subscription' \in BOOLEAN /\ proxy' \in BOOLEAN /\ paid' = {} /\ back' = {}
      /\ stranded' = {} /\ pc' \in {"grade", "check"}
  BY <1>1 DEF IInv, TypeOK, Request
<1>5. UNCHANGED <<chain, cancels, saved, answers>>
  BY <1>1 DEF Request
<1>6. QED BY <1>2, <1>3, <1>4, <1>5 DEF IInv, TypeOK, chain, cancels, answers, doubts

(* The variables of the handler alone. *)
Locals ==
    /\ pc \in {"idle", "grade", "check", "confirm", "handshake", "posted", "exitCheck",
               "finalize", "refund", "answered"}
    /\ candidates \in 0..MaxCandidates /\ subscription \in BOOLEAN
    /\ tries \in 0..MaxRetries /\ proxy \in BOOLEAN
    /\ paid \subseteq Sessions /\ back \subseteq Sessions /\ stranded \subseteq Sessions

LEMMA LocalsType ==
  ASSUME TypeOK, Answers \/ RefundOrAnswer
  PROVE  Locals'
<1>0. 0 \in 0..MaxCandidates /\ 0 \in 0..MaxRetries
  BY BoundsAreNat
<1>1. ASSUME Answers PROVE Locals'
  BY <1>0, <1>1, Zenon DEF Answers, Locals
<1>2. ASSUME pc' = "refund", UNCHANGED <<ladder, refunds>> PROVE Locals'
  BY <1>2 DEF Locals, ladder, refunds, TypeOK
<1> QED
  BY <1>1, <1>2 DEF RefundOrAnswer

LEMMA HandlerType == ASSUME IInv, HandlerStep PROVE TypeOK'
<1>. USE BoundsAreNat DEF IInv, caller, request, signers, ladder, refunds, chain, cancels, answers, doubts,
         Kinds, Current
<1>1. CASE CheckStep
  <2>0. CASE ChooseSigners
    BY <2>0 DEF ChooseSigners, TypeOK
  <2>1. CASE CheckFails
    <3>1. CASE LadderGoesOn
      <4>1. candidates' \in 0..MaxCandidates
        BY <2>1, <3>1 DEF CheckFails, TypeOK, LadderGoesOn
      <4> QED
        BY <2>1, <3>1, <4>1 DEF CheckFails, TypeOK
    <3>2. CASE ~LadderGoesOn
      BY <2>1, <3>2, LocalsType DEF CheckFails, TypeOK, Locals
    <3> QED
      BY <3>1, <3>2
  <2>2. CASE ExitCheckFails \/ BuyNotSent
    BY <2>2, LocalsType DEF ExitCheckFails, BuyNotSent, TypeOK, Locals
  <2>3. CASE SendBuy
    <3>1. NextTx \in {"deposit", "plan", "ride", "hop"} /\ Signer \in Wallets
      BY DEF NextTx, Signer, TypeOK
    <3>2. bought + 1 \in Sessions
      BY <2>3 DEF SendBuy, TypeOK, Sessions
    <3>3. QED BY <2>3, <3>1, <3>2 DEF SendBuy, TypeOK
  <2>4. QED BY <1>1, <2>0, <2>1, <2>2, <2>3 DEF CheckStep
<1>2. CASE ConfirmStep
  <2>1. Current \in Sessions
    BY <1>2, CurrentIsSession DEF ConfirmStep, BuyConfirmed, BuyRefused, BuyTimesOut,
          BuyUnheard, BuyUnnamed, Working
  <2>2. CASE BuyConfirmed
    <3>1. tries' \in 0..MaxRetries
      BY <2>2 DEF BuyConfirmed
    <3>2. subscription' \in BOOLEAN
      BY Zenon, <2>2 DEF BuyConfirmed, NotesSubscription, TypeOK
    <3>3. idless' = idless \/ idless' = idless \cup {Current}
      BY <2>2, Zenon DEF BuyConfirmed, NotesSubscription
    <3>4. idless \subseteq Sessions
      BY DEF TypeOK
    <3>5. idless' \subseteq Sessions
      BY <2>1, <3>3, <3>4
    <3> QED
      BY <2>1, <2>2, <3>1, <3>2, <3>5 DEF BuyConfirmed, TypeOK
  <2>3. CASE BuyRefused
    BY <2>3, LocalsType DEF BuyRefused, TypeOK, Locals
  <2>4. CASE BuyTimesOut \/ BuyUnheard \/ BuyUnnamed
    <3>1. /\ inDoubt' \subseteq Sessions /\ unread' \subseteq Sessions /\ abandoned' \in BOOLEAN
          /\ UNCHANGED <<caller, chain, cancels, saved, kept, told, idless>>
      BY <2>1, <2>4 DEF BuyTimesOut, BuyUnheard, BuyUnnamed, TypeOK
    <3>2. Locals'
      BY <2>4, LocalsType DEF BuyTimesOut, BuyUnheard, BuyUnnamed
    <3> QED
      BY <3>1, <3>2 DEF TypeOK, Locals
  <2>5. QED BY <1>2, <2>2, <2>3, <2>4 DEF ConfirmStep
<1>3. CASE HandshakeStep
  <2>1. Current \in Sessions
    BY <1>3, CurrentIsSession DEF HandshakeStep, SignHandshake, HandshakeRetries, HandshakeDelivers,
          EntryHandshaken, ExitHandshaken, HandshakeFails, Working
  <2>2. CASE SignHandshake \/ HandshakeRetries
    BY <2>2 DEF SignHandshake, HandshakeRetries, TypeOK
  <2>3. CASE HandshakeDelivers
    BY <2>1, <2>3, LocalsType DEF HandshakeDelivers, TypeOK, Locals
  <2>4. CASE EntryHandshaken \/ ExitHandshaken \/ HandshakeFails
    BY ZenonT(60), <2>4 DEF EntryHandshaken, ExitHandshaken, HandshakeFails, TypeOK
  <2>5. QED BY <1>3, <2>2, <2>3, <2>4 DEF HandshakeStep
<1>4. CASE FinalizeStep
  <2>1. \A k : SavedOwner(k) \in Wallets \cup {"none"}
    BY DEF SavedOwner, TypeOK
  <2>2. CASE Finalize
    BY <2>1, <2>2, LocalsType DEF Finalize, TypeOK, Locals
  <2>3. CASE FinalizeFails
    BY <2>1, <2>3 DEF FinalizeFails, TypeOK
  <2>4. QED BY <1>4, <2>2, <2>3 DEF FinalizeStep
<1>5. CASE EndRefund
  <2>1. CASE TryNextCandidate
    <3>1. candidates' \in 0..MaxCandidates
      BY <1>5, <2>1 DEF EndRefund, TypeOK, TryNextCandidate, LadderGoesOn
    <3>2. QED BY <1>5, <2>1, <3>1 DEF EndRefund, TypeOK
  <2>2. CASE ~TryNextCandidate
    BY <1>5, <2>2, LocalsType DEF EndRefund, TypeOK, Locals
  <2>3. QED BY <2>1, <2>2
<1>6. ASSUME NEW k \in Sessions, RefundStep(k) PROVE TypeOK'
  <2>1. CASE StartRefund(k)
    BY <2>1 DEF StartRefund, TypeOK, RefundSigner, Cancels, Callers
  <2>2. CASE RefundSettles(k)
    BY <2>2 DEF RefundSettles, TypeOK
  <2>3. CASE RefundTimesOut(k)
    BY <2>3 DEF RefundTimesOut, TypeOK
  <2>4. QED BY <1>6, <2>1, <2>2, <2>3 DEF RefundStep
<1>7. QED BY <1>1, <1>2, <1>3, <1>4, <1>5, <1>6 DEF HandlerStep

LEMMA EndSessionType ==
  ASSUME IInv, \/ \E k \in Sessions : UserEnds(k)
               \/ \E j \in Cancels : CancelStep(j)
  PROVE  TypeOK'
<1>. USE DEF IInv, caller, request, signers, ladder, refunds, chain, cancels, answers, doubts
<1>1. ASSUME NEW k \in Sessions, UserEnds(k) PROVE TypeOK'
  BY <1>1 DEF UserEnds, TypeOK, EndSigner, Cancels, Callers
<1>2. ASSUME NEW j \in Cancels, CancelStep(j) PROVE TypeOK'
  <2>1. CASE CancelSent(j) \/ CancelNotSent(j) \/ CancelRefused(j)
    BY <2>1 DEF CancelSent, CancelNotSent, CancelRefused, TypeOK
  <2>2. CASE CancelSucceeds(j)
    BY <2>2 DEF CancelSucceeds, Retire, TypeOK
  <2>3. CASE CancelUnheard(j)
    BY <2>3 DEF CancelUnheard, TypeOK
  <2>4. QED BY <1>2, <2>1, <2>2, <2>3 DEF CancelStep
<1>3. QED BY <1>1, <1>2

LEMMA ChainType ==
  ASSUME IInv, \/ \E k \in Sessions : LandBuy(k) \/ DropBuy(k)
               \/ \E j \in Cancels : LandCancel(j) \/ DropCancel(j)
  PROVE  TypeOK'
<1>. USE DEF IInv, caller, request, signers, ladder, refunds, chain, cancels, answers, doubts
<1>1. \A w : /\ SpentBuys(w) \in [Sessions -> {"none", "pool", "active", "ended", "gone"}]
             /\ SpentCancels(w) \in [Cancels -> {"none", "pool", "landed", "moot", "void"}]
  BY DEF SpentBuys, SpentCancels, TypeOK
<1>2. ASSUME NEW k \in Sessions, LandBuy(k) \/ DropBuy(k) PROVE TypeOK'
  BY <1>1, <1>2 DEF LandBuy, DropBuy, TypeOK
<1>3. ASSUME NEW j \in Cancels, LandCancel(j) \/ DropCancel(j) PROVE TypeOK'
  <2>1. CASE LandCancel(j)
    <3>1. /\ session' \in [Sessions -> {"none", "pool", "active", "ended", "gone"}]
          /\ cancelTx' \in [Cancels -> {"none", "pool", "landed", "moot", "void"}]
      BY <1>1, <2>1 DEF LandCancel
    <3>2. QED BY <2>1, <3>1 DEF LandCancel, TypeOK
  <2>2. CASE DropCancel(j)
    BY <2>2 DEF DropCancel, TypeOK
  <2>3. QED BY <1>3, <2>1, <2>2
<1>4. QED BY <1>2, <1>3

----------------------------------------------------------------------------
(* What the chain shows. *)

(* A session that is over stays over, and OnChain survives a step of the app
   that leaves the chain alone and reports no refund. *)
LEMMA Unseen ==
  ASSUME OnChain, UNCHANGED <<session, cancelTx, cancelCall>>, back' \subseteq back
  PROVE  OnChain'
BY DEF OnChain

LEMMA HandlerOnChain == ASSUME IInv, HandlerStep PROVE OnChain'
<1>. USE DEF IInv, caller, request, signers, ladder, refunds, chain, cancels, answers, doubts,
         Answers, RefundOrAnswer
<1>1. CASE ChooseSigners \/ CheckFails \/ ExitCheckFails \/ BuyNotSent
  BY <1>1, Unseen DEF ChooseSigners, CheckFails, ExitCheckFails, BuyNotSent
<1>2. CASE SendBuy
  <2>1. /\ bought \in Nat
        /\ \A k \in Sessions : k # bought + 1 => session'[k] = session[k]
        /\ UNCHANGED <<cancelTx, cancelCall, back>>
    BY <1>2, BoundsAreNat DEF SendBuy, TypeOK
  <2>2. \A k \in Sessions : session[k] # "none" => session'[k] = session[k]
    BY <2>1, BoundsAreNat DEF Fresh, Sessions
  <2>3. \A j \in Cancels : j[1] \in Sessions
    BY DEF Cancels
  <2>4. back \subseteq Sessions
    BY DEF TypeOK
  <2>5. QED BY <2>1, <2>2, <2>3, <2>4 DEF OnChain
<1>3. CASE ConfirmStep
  BY <1>3, Unseen DEF ConfirmStep, BuyConfirmed, BuyRefused, BuyTimesOut, BuyUnheard, BuyUnnamed
<1>4. CASE HandshakeStep
  BY <1>4, Unseen DEF HandshakeStep, SignHandshake, HandshakeRetries, HandshakeDelivers,
        EntryHandshaken, ExitHandshaken, HandshakeFails
<1>5. CASE FinalizeStep
  BY <1>5, Unseen DEF FinalizeStep, Finalize, FinalizeFails
<1>6. CASE EndRefund
  BY <1>6 DEF EndRefund, OnChain
<1>7. ASSUME NEW k \in Sessions, RefundStep(k) PROVE OnChain'
  <2>1. CASE StartRefund(k)
    BY <2>1 DEF StartRefund, OnChain, TypeOK, Cancels, Callers
  <2>2. CASE RefundSettles(k)
    BY <2>2 DEF RefundSettles, OnChain, TypeOK, Cancels, Callers
  <2>3. CASE RefundTimesOut(k)
    BY <2>3, Unseen DEF RefundTimesOut
  <2>4. QED BY <1>7, <2>1, <2>2, <2>3 DEF RefundStep
<1>8. QED BY <1>1, <1>2, <1>3, <1>4, <1>5, <1>6, <1>7 DEF HandlerStep, CheckStep

LEMMA EndSessionOnChain ==
  ASSUME IInv, \/ \E k \in Sessions : UserEnds(k)
               \/ \E j \in Cancels : CancelStep(j)
  PROVE  OnChain'
<1>. USE DEF IInv, caller, request, signers, ladder, refunds, chain, cancels, answers, doubts
<1>1. ASSUME NEW k \in Sessions, UserEnds(k) PROVE OnChain'
  BY <1>1 DEF UserEnds, OnChain, TypeOK, Cancels, Callers
<1>2. ASSUME NEW j \in Cancels, CancelStep(j) PROVE OnChain'
  <2>1. CASE CancelSent(j)
    BY <2>1 DEF CancelSent, OnChain, TypeOK
  <2>2. CASE CancelNotSent(j) \/ CancelRefused(j) \/ CancelUnheard(j)
    BY <2>2 DEF CancelNotSent, CancelRefused, CancelUnheard, OnChain, TypeOK
  <2>3. CASE CancelSucceeds(j)
    <3>1. session[j[1]] = "ended"
      BY <2>3 DEF CancelSucceeds, OnChain
    <3>2. QED BY <2>3, <3>1 DEF CancelSucceeds, OnChain, TypeOK
  <2>4. QED BY <1>2, <2>1, <2>2, <2>3 DEF CancelStep
<1>3. QED BY <1>1, <1>2

LEMMA ChainOnChain ==
  ASSUME IInv, \/ \E k \in Sessions : LandBuy(k) \/ DropBuy(k)
               \/ \E j \in Cancels : LandCancel(j) \/ DropCancel(j)
  PROVE  OnChain' /\ \A k \in Sessions : session[k] = "ended" => session'[k] = "ended"
<1>. USE DEF IInv, caller, request, signers, ladder, refunds, chain, cancels, answers, doubts
<1>0. \A j \in Cancels : j[1] \in Sessions
  BY DEF Cancels
<1>1. ASSUME NEW k \in Sessions, LandBuy(k)
      PROVE  OnChain' /\ \A i \in Sessions : session[i] = "ended" => session'[i] = "ended"
  <2>1. \A i \in Sessions : /\ session[i] = "active" => session'[i] = "active"
                            /\ session[i] = "ended" => session'[i] = "ended"
    BY <1>1 DEF LandBuy, SpentBuys, TypeOK
  <2>2. \A j \in Cancels : cancelTx'[j] = cancelTx[j] \/ cancelTx'[j] = "void"
    BY <1>1 DEF LandBuy, SpentCancels, TypeOK
  <2>3. QED BY <1>0, <1>1, <2>1, <2>2 DEF LandBuy, OnChain, TypeOK
<1>2. ASSUME NEW k \in Sessions, DropBuy(k)
      PROVE  OnChain' /\ \A i \in Sessions : session[i] = "ended" => session'[i] = "ended"
  BY <1>0, <1>2 DEF DropBuy, OnChain, TypeOK
<1>3. ASSUME NEW j \in Cancels, LandCancel(j)
      PROVE  OnChain' /\ \A i \in Sessions : session[i] = "ended" => session'[i] = "ended"
  <2>1. session[j[1]] \in {"active", "ended"}
    BY <1>3 DEF LandCancel, OnChain
  <2>2. \A i \in Sessions :
           /\ session[i] = "active" => session'[i] = "active" \/ session'[i] = "ended"
           /\ session[i] = "ended" => session'[i] = "ended"
    BY ZenonT(60), <1>0, <1>3 DEF LandCancel, SpentBuys, TypeOK
  <2>3. \A i \in Cancels : i # j => cancelTx'[i] = cancelTx[i] \/ cancelTx'[i] = "void"
    BY ZenonT(60), <1>3 DEF LandCancel, SpentCancels, TypeOK
  <2>4. cancelTx'[j] # "pool" /\ (cancelTx'[j] \in {"landed", "moot"} => session'[j[1]] = "ended")
    BY <1>0, <1>3, <2>1 DEF LandCancel, SpentBuys, SpentCancels, TypeOK
  <2>5. \A i \in Cancels : cancelTx'[i] = "pool" => session'[i[1]] \in {"active", "ended"}
    BY <1>0, <2>2, <2>3, <2>4 DEF OnChain
  <2>6. \A i \in Cancels : cancelTx'[i] \in {"landed", "moot"} => session'[i[1]] = "ended"
    BY <1>0, <2>2, <2>3, <2>4 DEF OnChain
  <2>7. UNCHANGED <<cancelCall, back>>
    BY <1>3 DEF LandCancel
  <2>8. \A i \in Cancels : cancelCall'[i] = "ok" => session'[i[1]] = "ended"
    BY <1>0, <2>2, <2>7 DEF OnChain
  <2>9. \A k \in back' : session'[k] = "ended"
    BY <2>2, <2>7 DEF OnChain, TypeOK
  <2>10. QED BY <2>2, <2>5, <2>6, <2>8, <2>9 DEF OnChain
<1>4. ASSUME NEW j \in Cancels, DropCancel(j)
      PROVE  OnChain' /\ \A i \in Sessions : session[i] = "ended" => session'[i] = "ended"
  BY <1>4 DEF DropCancel, OnChain, TypeOK
<1>5. QED BY <1>1, <1>2, <1>3, <1>4

----------------------------------------------------------------------------
(* What the handler knows. *)

LEMMA HandlerShape == ASSUME IInv, HandlerStep PROVE Shape' /\ UNCHANGED <<kind, first>>
<1>. USE DEF IInv, caller, request, signers, ladder, refunds, chain, cancels, answers, doubts,
         Answers, RefundOrAnswer, Working
<1>0. bought \in Nat
  BY BoundsAreNat DEF TypeOK
<1>1. CASE ChooseSigners \/ CheckFails \/ ExitCheckFails \/ BuyNotSent
  BY <1>1 DEF ChooseSigners, CheckFails, ExitCheckFails, BuyNotSent, Shape
<1>2. CASE SendBuy
  BY <1>0, <1>2 DEF SendBuy, Shape, TypeOK
<1>3. CASE ConfirmStep
  BY <1>3 DEF ConfirmStep, BuyConfirmed, BuyRefused, BuyTimesOut, BuyUnheard, BuyUnnamed, Shape
<1>4. CASE HandshakeStep
  BY <1>4 DEF HandshakeStep, SignHandshake, HandshakeRetries, HandshakeDelivers, EntryHandshaken,
        ExitHandshaken, HandshakeFails, EntryHop, Shape
<1>5. CASE FinalizeStep \/ EndRefund
  BY <1>5 DEF FinalizeStep, Finalize, FinalizeFails, EndRefund, Shape
<1>6. ASSUME NEW k \in Sessions, RefundStep(k) PROVE Shape' /\ UNCHANGED <<kind, first>>
  BY <1>6 DEF RefundStep, StartRefund, RefundSettles, RefundTimesOut, Shape
<1>7. QED BY <1>1, <1>2, <1>3, <1>4, <1>5, <1>6 DEF HandlerStep, CheckStep

LEMMA HandlerFresh == ASSUME IInv, HandlerStep PROVE Fresh'
<1>. USE DEF IInv, chain
<1>1. CASE SendBuy
  <2>1. /\ bought \in Nat /\ bought' = bought + 1
        /\ \A k \in Sessions : k # bought + 1 => session'[k] = session[k]
    BY <1>1, BoundsAreNat DEF SendBuy, TypeOK
  <2>2. QED BY <2>1, BoundsAreNat DEF Fresh, Sessions
<1>2. CASE UNCHANGED <<bought, session>>
  BY <1>2 DEF Fresh
<1>3. QED BY <1>1, <1>2 DEF HandlerStep, CheckStep, ChooseSigners, CheckFails, ExitCheckFails,
      BuyNotSent, ConfirmStep, BuyConfirmed, BuyRefused, BuyTimesOut, BuyUnheard, BuyUnnamed,
      HandshakeStep, SignHandshake, HandshakeRetries, HandshakeDelivers, EntryHandshaken,
      ExitHandshaken, HandshakeFails, FinalizeStep, Finalize, FinalizeFails, EndRefund,
      RefundStep, StartRefund, RefundSettles, RefundTimesOut

LEMMA ChainFresh ==
  ASSUME IInv, \/ \E k \in Sessions : LandBuy(k) \/ DropBuy(k)
               \/ \E j \in Cancels : LandCancel(j) \/ DropCancel(j)
  PROVE  Fresh'
<1>. USE DEF IInv, chain
<1>1. \A k \in Sessions : session[k] = "none" => session'[k] = "none"
  <2>1. ASSUME NEW k \in Sessions, LandBuy(k) \/ DropBuy(k)
        PROVE  \A i \in Sessions : session[i] = "none" => session'[i] = "none"
    BY <2>1 DEF LandBuy, DropBuy, SpentBuys, TypeOK
  <2>2. ASSUME NEW j \in Cancels, LandCancel(j)
        PROVE  \A i \in Sessions : session[i] = "none" => session'[i] = "none"
    <3>1. j[1] \in Sessions /\ DOMAIN SpentBuys(cancelBy[j]) = Sessions
      BY DEF Cancels, SpentBuys
    <3>2. \A i \in Sessions : session[i] = "none" => SpentBuys(cancelBy[j])[i] = "none"
      BY DEF SpentBuys
    <3>3. CASE session[j[1]] = "active" /\ cancelBy[j] = owner[j[1]]
      BY <2>2, <3>1, <3>2, <3>3 DEF LandCancel
    <3>4. CASE ~(session[j[1]] = "active" /\ cancelBy[j] = owner[j[1]])
      BY <2>2, <3>2, <3>4 DEF LandCancel
    <3>5. QED BY <3>3, <3>4
  <2>3. ASSUME NEW j \in Cancels, DropCancel(j)
        PROVE  \A i \in Sessions : session[i] = "none" => session'[i] = "none"
    BY <2>3 DEF DropCancel
  <2>4. QED BY <2>1, <2>2, <2>3
<1>2. bought' = bought
  BY DEF LandBuy, DropBuy, LandCancel, DropCancel
<1>3. QED BY <1>1, <1>2 DEF Fresh

(* A step that broadcasts nothing and pays for nothing keeps what the ladder
   knows, where it does not move. *)
LEMMA LadderStays ==
  ASSUME IInv, UNCHANGED <<kind, first, bought, pc, paid, subscription, buys, idless>>,
         \A k \in Sessions : session[k] = "ended" => session'[k] = "ended"
  PROVE  Ladder' /\ PlanFirst'
BY DEF IInv, Ladder, PlanFirst, Mine, Current, Sessions

LEMMA HandlerLadder == ASSUME IInv, HandlerStep PROVE Ladder' /\ PlanFirst'
<1>. USE DEF IInv, caller, request, signers, ladder, refunds, chain, cancels, answers, doubts,
         Answers, RefundOrAnswer, Working, Current
<1>0. bought \in Nat /\ first \in Nat
  BY BoundsAreNat DEF TypeOK
<1>a. CASE ChooseSigners
  <2>1. kind = "chain" /\ UNCHANGED <<kind, first, bought, buys, idless>>
    BY <1>a DEF ChooseSigners, Shape
  <2>2. QED BY <2>1 DEF Ladder, PlanFirst, Mine, Sessions
<1>1. CASE CheckFails \/ ExitCheckFails \/ BuyNotSent
  <2>1. /\ UNCHANGED <<kind, first, bought, buys, session, idless>>
        /\ \/ pc' = "answered"
           \/ UNCHANGED <<paid, subscription>> /\ (pc' = pc \/ (pc' = "refund" /\ paid # {}))
    BY <1>1 DEF CheckFails, ExitCheckFails, BuyNotSent
  <2>2. kind = "smart" => pc' \in {"answered", pc}
    BY <1>1 DEF CheckFails, ExitCheckFails, BuyNotSent, Ladder, Shape
  <2>3. QED BY <2>1, <2>2 DEF Ladder, PlanFirst, Mine, Sessions
<1>2. CASE SendBuy
  <2>1. /\ bought' = bought + 1 /\ bought + 1 \in Sessions /\ pc' = "confirm"
        /\ UNCHANGED <<kind, first, paid, subscription, idless>>
        /\ buys'[bought + 1] = NextTx
        /\ \A k \in Sessions : k # bought + 1 => /\ session'[k] = session[k]
                                                 /\ buys'[k] = buys[k]
    <3>1. bought + 1 \in Sessions
      BY <1>0, <1>2, BoundsAreNat DEF SendBuy, Sessions
    <3>2. QED BY <1>2, <3>1 DEF SendBuy, TypeOK
  <2>2. \A k \in Mine' : k = bought + 1 \/ k \in Mine
    BY <1>0, <2>1 DEF Mine, Sessions
  <2>3. kind = "smart" => pc = "check"
    BY <1>2 DEF SendBuy, Shape
  <2>n. /\ NextTx = "plan" => kind = "smart" /\ ~subscription
        /\ kind = "smart" /\ ~subscription => NextTx = "plan"
    BY DEF NextTx, TypeOK, Kinds
  <2>4. Ladder'
    BY <2>1, <2>2, <2>3, <2>n DEF Ladder, Mine
  <2>5. buys'[bought + 1] = "plan" => Mine \subseteq idless
    BY <2>1, <2>3, <2>n DEF Ladder
  <2>6. PlanFirst'
    <3>1. ASSUME NEW j \in Mine', NEW k \in Mine', buys'[k] = "plan", j < k PROVE j \in idless
      <4>1. j \in Mine /\ j # bought + 1
        BY <1>0, <2>1, <2>2, <3>1 DEF Mine, Sessions
      <4>2. CASE k = bought + 1
        BY <2>5, <3>1, <4>1, <4>2
      <4>3. CASE k # bought + 1
        BY <2>1, <2>2, <3>1, <4>1, <4>3 DEF PlanFirst, Mine
      <4> QED
        BY <4>2, <4>3
    <3> QED
      BY <2>1, <3>1 DEF PlanFirst
  <2>7. QED BY <2>4, <2>6
<1>3. CASE BuyConfirmed
  <2>1. /\ UNCHANGED <<kind, first, bought, buys, session>> /\ pc' = "handshake"
        /\ pc = "confirm" /\ paid' = paid \cup {bought} /\ idless \subseteq idless'
        /\ buys[bought] = "plan" /\ ~subscription' => bought \in idless'
        /\ subscription => subscription'
    BY <1>3 DEF BuyConfirmed, NotesSubscription
  <2>2. Ladder'
    BY <2>1 DEF Ladder, Mine
  <2> QED
    BY <2>1, <2>2 DEF PlanFirst, Mine
<1>4. CASE BuyRefused \/ BuyTimesOut \/ BuyUnheard \/ BuyUnnamed
  <2>1. /\ pc = "confirm" /\ pc' = (IF paid = {} THEN "answered" ELSE "refund")
        /\ UNCHANGED <<kind, first, bought, buys, session, idless>>
    BY <1>4 DEF BuyRefused, BuyTimesOut, BuyUnheard, BuyUnnamed
  <2>2. QED BY <2>1 DEF Ladder, PlanFirst, Mine, Sessions
<1>5. CASE HandshakeStep
  <2>1. /\ UNCHANGED <<kind, first, bought, buys, session, idless>>
        /\ pc \in {"handshake", "posted"}
        /\ \/ pc' = "answered"
           \/ /\ UNCHANGED <<paid, subscription>>
              /\ pc' \in {"handshake", "posted", "refund", "exitCheck", "finalize"}
    BY <1>5 DEF HandshakeStep, SignHandshake, HandshakeRetries, HandshakeDelivers, EntryHandshaken,
        ExitHandshaken, HandshakeFails
  <2>2. QED BY <2>1 DEF Ladder, PlanFirst, Mine, Sessions
<1>6. CASE FinalizeStep
  <2>1. kind = "chain" /\ UNCHANGED <<kind, first, bought, buys, idless>>
    BY <1>6 DEF FinalizeStep, Finalize, FinalizeFails, Shape
  <2>2. QED BY <2>1 DEF Ladder, PlanFirst, Mine, Sessions
<1>7. CASE EndRefund
  <2>1. UNCHANGED <<kind, first, bought, buys, session, idless>>
    BY <1>7 DEF EndRefund
  <2>2. CASE TryNextCandidate
    <3>1. kind = "smart" /\ paid = {Current} /\ UNCHANGED subscription /\ paid \subseteq back
      BY <1>7, <2>2 DEF EndRefund, TryNextCandidate, LadderGoesOn, Ladder,
            RefundTargets, Settled
    <3>2. \A k \in Mine : session[k] = "ended"
      BY <1>7, <3>1 DEF EndRefund, Ladder, OnChain
    <3>3. QED BY <1>7, <2>1, <2>2, <3>1, <3>2 DEF EndRefund, Ladder, PlanFirst, Mine
  <2>3. CASE ~TryNextCandidate
    BY <1>7, <2>1, <2>3 DEF EndRefund, Ladder, PlanFirst, Mine
  <2>4. QED BY <2>2, <2>3
<1>8. ASSUME NEW k \in Sessions, RefundStep(k) PROVE Ladder' /\ PlanFirst'
  BY <1>8, LadderStays DEF RefundStep, StartRefund, RefundSettles, RefundTimesOut
<1>9. QED BY <1>a, <1>1, <1>2, <1>3, <1>4, <1>5, <1>6, <1>7, <1>8
      DEF HandlerStep, CheckStep, ConfirmStep

----------------------------------------------------------------------------
LEMMA RequestStep ==
  ASSUME IInv, \E knd \in {"single", "smart", "chain"}, asked \in Wallets \cup {"none"},
          n \in 1..MaxCandidates, sub \in BOOLEAN : Request(knd, asked, n, sub)
  PROVE  IInv'
<1>1. PICK knd \in {"single", "smart", "chain"}, asked \in Wallets \cup {"none"},
          n \in 1..MaxCandidates, sub \in BOOLEAN : Request(knd, asked, n, sub)
  OBVIOUS
<1>2. TypeOK'
  BY RequestType
<1>3. /\ bought \in Nat /\ bought' = bought /\ first' = bought + 1
      /\ pc' \in {"grade", "check"} /\ (pc' = "grade" => kind' = "chain")
      /\ paid' = {} /\ back' = {} /\ UNCHANGED <<session, cancelTx, cancelCall, buys>>
  BY <1>1, BoundsAreNat DEF IInv, TypeOK, Request, chain, cancels
<1>4. Mine' = {}
  BY <1>3 DEF Mine, Sessions
<1>5. Shape' /\ OnChain'
  BY <1>3 DEF Shape, OnChain, IInv, Working
<1>8. Fresh'
  BY <1>3 DEF Fresh, IInv
<1>6. Ladder' /\ PlanFirst'
  BY <1>3, <1>4 DEF Ladder, PlanFirst
<1>7. QED BY <1>2, <1>5, <1>6, <1>8 DEF IInv

LEMMA StepHolds == IInv /\ [Next]_vars => IInv'
<1>. SUFFICES ASSUME IInv, [Next]_vars PROVE IInv'
  OBVIOUS
<1>1. CASE \E knd \in {"single", "smart", "chain"}, asked \in Wallets \cup {"none"},
          n \in 1..MaxCandidates, sub \in BOOLEAN : Request(knd, asked, n, sub)
  BY <1>1, RequestStep
<1>2. CASE HandlerStep
  BY <1>2, HandlerType, HandlerShape, HandlerFresh, HandlerOnChain, HandlerLadder DEF IInv
<1>3. CASE \/ \E k \in Sessions : UserEnds(k)
           \/ \E j \in Cancels : CancelStep(j)
  <2>1. UNCHANGED <<kind, first, bought, pc, paid, subscription, buys, session, idless>>
    BY <1>3 DEF UserEnds, CancelStep, CancelSent, CancelNotSent, CancelSucceeds,
          CancelRefused, CancelUnheard, caller, request, signers, ladder, refunds, chain,
          answers, doubts
  <2>2. Shape' /\ Fresh' /\ Ladder' /\ PlanFirst'
    BY <2>1, LadderStays DEF IInv, Shape, Fresh
  <2>3. QED BY <1>3, <2>2, EndSessionType, EndSessionOnChain DEF IInv
<1>4. CASE \/ \E k \in Sessions : LandBuy(k) \/ DropBuy(k)
           \/ \E j \in Cancels : LandCancel(j) \/ DropCancel(j)
  <2>1. UNCHANGED <<kind, first, bought, pc, paid, subscription, buys, idless>>
    BY <1>4 DEF LandBuy, DropBuy, LandCancel, DropCancel, caller, request, signers, ladder,
          refunds, chain, answers, doubts
  <2>2. Shape' /\ Ladder' /\ PlanFirst'
    BY <1>4, <2>1, LadderStays, ChainOnChain DEF IInv, Shape
  <2>3. QED BY <1>4, <2>2, ChainType, ChainOnChain, ChainFresh DEF IInv
<1>5. CASE (\E w \in Wallets : SwitchWallet(w)) \/ UNCHANGED vars
  <2>1. /\ activeWallet' \in Wallets /\ wiped' \in BOOLEAN
        /\ UNCHANGED <<request, signers, pc, ladder, refunds, chain, cancels, saved, answers>>
    BY <1>5 DEF SwitchWallet, KeyWiped, AtRest, vars, caller, IInv, TypeOK
  <2>2. QED BY <2>1 DEF IInv, TypeOK, Shape, Fresh, OnChain, Ladder, PlanFirst, Mine, Current,
              caller, request, signers, ladder, refunds, chain, cancels, answers, doubts
<1>6. QED BY <1>1, <1>2, <1>3, <1>4, <1>5 DEF Next

(* Every variable keeps its type; in particular a request never broadcasts more
   transactions, tries more candidates or retries a handshake more often than
   the code's bounds allow. *)
THEOREM TypeCorrect == Spec => []TypeOK
<1>1. IInv => TypeOK
  BY DEF IInv
<1>2. QED BY <1>1, InitHolds, StepHolds, PTL DEF Spec

(* One request pays a plan's price again only behind a purchase whose answer gave no
   subscription to ride. *)
THEOREM PlanIsPaidOnce == Spec => []PlanPaidOnce
<1>1. IInv => PlanPaidOnce
  BY DEF IInv, PlanFirst, PlanPaidOnce
<1>2. QED BY <1>1, InitHolds, StepHolds, PTL DEF Spec

(* The ladder broadcasts only when the request's earlier sessions are over. *)
THEOREM LadderIsSequential == Spec => LadderNeverStacks
<1>1. ASSUME IInv, [Next]_vars, pc' = "confirm", pc # "confirm", kind = "smart"
      PROVE  \A k \in Mine : session[k] = "ended"
  <2>1. pc = "check" \/ pc = "exitCheck"
    BY <1>1 DEF Next, vars, Request, SwitchWallet, HandlerStep, CheckStep, ChooseSigners,
          CheckFails, ExitCheckFails, SendBuy, BuyNotSent, ConfirmStep, BuyConfirmed, BuyRefused,
          BuyTimesOut, BuyUnheard, BuyUnnamed, HandshakeStep, SignHandshake, HandshakeRetries, HandshakeDelivers,
          EntryHandshaken, ExitHandshaken, HandshakeFails, FinalizeStep, Finalize,
          FinalizeFails, EndRefund, RefundStep, StartRefund, RefundSettles,
          RefundTimesOut, UserEnds, CancelStep, CancelSent, CancelNotSent,
          CancelSucceeds, CancelRefused, CancelUnheard, LandBuy, DropBuy, LandCancel,
          DropCancel, Answers, RefundOrAnswer
  <2>2. QED BY <1>1, <2>1 DEF IInv, Shape, Ladder
<1>2. IInv /\ [Next]_vars =>
        [pc' = "confirm" /\ pc # "confirm" /\ kind = "smart"
           => \A k \in Mine : session[k] = "ended"]_vars
  BY <1>1
<1>3. QED BY <1>2, InitHolds, StepHolds, PTL DEF Spec, LadderNeverStacks

----------------------------------------------------------------------------
(* The promise.  A session that is live, or may still become so, is one the user
   knows of, or one the handler at work still answers for: it awaits the answer
   to its transaction, or has paid for it and will deliver it or refund it.  Or
   its outcome could not be read: nothing is broadcast behind it (AtMostOne). *)

Live == {"pool", "active"}

Answerable ==
    \A k \in Sessions : session[k] \in Live =>
        \/ k \in Known \cup unread
        \/ pc \in Working /\ k \in paid
        \/ pc = "confirm" /\ k = Current

OneAtATime == pc \in Working /\ kind # "chain" => paid \subseteq {Current}

AtMostOne ==
    /\ \A k \in unread : k <= bought
    /\ pc \notin {"idle", "refund", "answered"} => Missed = {}
    /\ pc = "refund" /\ kind = "smart" => Missed = {}

PInv == IInv /\ OneAtATime /\ Answerable /\ AtMostOne

LEMMA InitPromise == Init => OneAtATime /\ Answerable /\ AtMostOne
BY DEF Init, OneAtATime, Answerable, Working, Live, AtMostOne, Missed

(* A step of the chain, or of an endSession call, makes no session live. *)
LEMMA OthersAnswerable ==
  ASSUME PInv, UNCHANGED <<kind, first, pc, paid, bought, kept, told, inDoubt, unread>>,
         \A k \in Sessions : session'[k] \in Live => session[k] \in Live
  PROVE  OneAtATime' /\ Answerable' /\ AtMostOne'
BY DEF PInv, OneAtATime, Answerable, AtMostOne, Missed, Mine, Known, Current

Accounted == Known \cup unread

LEMMA HandlerAnswerable == ASSUME PInv, HandlerStep PROVE OneAtATime' /\ Answerable'
<1>. USE DEF caller, request, signers, ladder, refunds, chain, cancels, answers, doubts,
         Answers, RefundOrAnswer, Current
<1>0. bought \in Nat /\ TypeOK /\ Shape
  BY BoundsAreNat DEF PInv, IInv, TypeOK
<1>1. CASE ChooseSigners \/ CheckFails \/ ExitCheckFails \/ BuyNotSent
  <2>1. /\ UNCHANGED <<kind, bought, session, kept, told, inDoubt, unread>>
        /\ pc' # "answered" => paid' = paid
        /\ pc' \in {"check", "answered", "refund"} \/ pc' = pc
        /\ pc' = "answered" => paid = {}
        /\ pc' = "refund" => pc = "exitCheck"
        /\ pc' = "check" => pc \in {"grade", "check"}
        /\ pc \in {"grade", "check", "exitCheck"}
    BY <1>0, <1>1 DEF ChooseSigners, CheckFails, ExitCheckFails, BuyNotSent, Shape
  <2>2. pc = "exitCheck" => kind = "chain"
    BY <1>0 DEF Shape
  <2> QED
    BY <1>0, <2>1, <2>2 DEF PInv, OneAtATime, Answerable, Accounted, Known, Working, Shape
<1>2. CASE SendBuy
  <2>1. /\ bought' = bought + 1 /\ pc' = "confirm" /\ pc \in {"check", "exitCheck"}
        /\ UNCHANGED <<kind, paid, kept, told, inDoubt, unread>>
        /\ \A k \in Sessions : k # bought + 1 => session'[k] = session[k]
    BY <1>0, <1>2 DEF SendBuy, TypeOK
  <2>2. pc = "exitCheck" => kind = "chain"
    BY <1>0 DEF Shape
  <2>3. OneAtATime'
    BY <1>0, <2>1, <2>2 DEF OneAtATime, Shape
  <2>4. ASSUME NEW k \in Sessions, session'[k] \in Live, k # bought + 1
        PROVE  k \in Accounted \/ k \in paid
    BY <2>1, <2>4 DEF PInv, Answerable, Accounted
  <2>5. Answerable'
    BY <2>1, <2>4 DEF Answerable, Accounted, Known, Working
  <2> QED
    BY <2>3, <2>5
<1>3. CASE ConfirmStep
  <2>1. /\ UNCHANGED <<kind, bought, session, kept, told>> /\ pc = "confirm"
        /\ Accounted \subseteq Accounted'
        /\ \/ paid' = paid /\ pc' = "refund"
           \/ paid' = paid \cup {bought} /\ pc' = "handshake"
           \/ paid = {} /\ pc' = "answered"
        /\ \/ bought \in paid' /\ pc' = "handshake"
           \/ bought \in Accounted'
           \/ session[bought] = "gone"
    BY <1>3 DEF ConfirmStep, BuyConfirmed, BuyRefused, BuyTimesOut, BuyUnheard, BuyUnnamed, Accounted, Known
  <2>2. OneAtATime'
    BY <2>1 DEF PInv, OneAtATime, Working
  <2>3. Answerable'
    BY <2>1 DEF PInv, Answerable, Accounted, Working, Live
  <2> QED
    BY <2>2, <2>3
<1>4. CASE HandshakeStep
  <2>1. /\ UNCHANGED <<kind, bought, session>> /\ pc \in {"handshake", "posted"}
        /\ Accounted \subseteq Accounted'
        /\ \/ pc' \in Working \ {"confirm"} /\ paid' = paid
           \/ pc' = "answered" /\ kind # "chain" /\ bought \in Accounted'
    BY <1>4 DEF HandshakeStep, SignHandshake, HandshakeRetries, HandshakeDelivers, EntryHandshaken,
          ExitHandshaken, HandshakeFails, Accounted, Known, Working
  <2>2. OneAtATime'
    BY <2>1 DEF PInv, OneAtATime, Working
  <2>3. Answerable'
    BY <2>1 DEF PInv, OneAtATime, Answerable, Accounted, Working
  <2> QED
    BY <2>2, <2>3
<1>5. CASE FinalizeStep
  <2>1. /\ UNCHANGED <<kind, bought, session>> /\ pc = "finalize"
        /\ Accounted \subseteq Accounted'
        /\ (pc' = "refund" /\ paid' = paid) \/ (pc' = "answered" /\ paid \subseteq Accounted')
    BY <1>5 DEF FinalizeStep, Finalize, FinalizeFails, Accounted, Known
  <2>2. kind = "chain"
    BY <1>0, <2>1 DEF Shape
  <2> QED
    BY <2>1, <2>2 DEF PInv, OneAtATime, Answerable, Accounted, Working
<1>6. CASE EndRefund
  <2>1. /\ UNCHANGED <<kind, bought, session>> /\ pc = "refund" /\ Accounted \subseteq Accounted'
        /\ paid \subseteq back \cup stranded
        /\ \/ pc' = "check" /\ stranded = {}
           \/ pc' = "answered" /\ stranded \subseteq Accounted'
    BY <1>6 DEF EndRefund, TryNextCandidate, RefundTargets, Settled, Accounted, Known
  <2>2. \A k \in back : session[k] = "ended"
    BY DEF PInv, IInv, OnChain
  <2> QED
    BY <2>1, <2>2 DEF PInv, OneAtATime, Answerable, Accounted, Working, Live
<1>7. ASSUME NEW k \in Sessions, RefundStep(k) PROVE OneAtATime' /\ Answerable'
  <2>1. UNCHANGED <<kind, first, pc, paid, bought, session, kept, told, inDoubt, unread>>
    BY <1>7 DEF RefundStep, StartRefund, RefundSettles, RefundTimesOut
  <2> QED
    BY <2>1, OthersAnswerable
<1> QED
  BY <1>1, <1>2, <1>3, <1>4, <1>5, <1>6, <1>7 DEF HandlerStep, CheckStep

(* Nothing is broadcast behind a purchase whose outcome could not be read. *)
LEMMA HandlerMisses ==
  ASSUME PInv, HandlerStep
  PROVE  /\ AtMostOne'
         /\ \/ UNCHANGED <<Missed, unread>>
            \/ /\ Missed = {} /\ Missed' = {Current}
               /\ Current \in Sessions /\ unread' = unread \cup {Current}
<1>. USE DEF caller, request, signers, ladder, refunds, chain, cancels, answers, doubts,
         Answers, RefundOrAnswer, Current
<1>0. bought \in Nat /\ first \in Nat /\ TypeOK /\ Shape /\ AtMostOne /\ unread \subseteq Sessions
  BY BoundsAreNat DEF PInv, IInv, TypeOK
<1>1. CASE SendBuy
  <2>1. /\ UNCHANGED <<kind, first, unread>> /\ bought' = bought + 1 /\ pc' = "confirm"
        /\ pc \in {"check", "exitCheck"}
    BY <1>1 DEF SendBuy
  <2>2. UNCHANGED Missed
    BY <1>0, <2>1 DEF Missed, Mine, Sessions, AtMostOne
  <2> QED
    BY <1>0, <2>1, <2>2 DEF AtMostOne, Sessions
<1>2. CASE BuyUnheard \/ BuyUnnamed
  <2>1. /\ UNCHANGED <<kind, first, bought>> /\ unread' = unread \cup {bought}
        /\ pc = "confirm" /\ pc' = (IF paid = {} THEN "answered" ELSE "refund")
    BY <1>2 DEF BuyUnheard, BuyUnnamed
  <2>2. bought \in Sessions /\ bought \in Mine /\ Mine' = Mine
    BY <1>0, <2>1, CurrentIsSession DEF Working, Mine
  <2>3. Missed = {} /\ Missed' = {bought}
    BY <1>0, <2>1, <2>2 DEF AtMostOne, Missed
  <2>4. pc' = "refund" => kind # "smart"
    BY <2>1 DEF PInv, IInv, Ladder
  <2> QED
    BY <1>0, <2>1, <2>2, <2>3, <2>4 DEF AtMostOne
<1>3. CASE ConfirmStep /\ ~BuyUnheard /\ ~BuyUnnamed
  <2>1. /\ UNCHANGED <<kind, first, bought, unread>> /\ pc = "confirm"
        /\ pc' \in {"handshake", "refund", "answered"}
    BY <1>3 DEF ConfirmStep, BuyConfirmed, BuyRefused, BuyTimesOut
  <2> QED
    BY <1>0, <2>1 DEF AtMostOne, Missed, Mine
<1>4. CASE HandlerStep /\ ~SendBuy /\ ~ConfirmStep
  <2>1. /\ UNCHANGED <<kind, first, bought, unread>> /\ pc # "idle" /\ pc # "answered"
        /\ pc' # "idle" /\ (pc = "refund" /\ pc' # "answered" => pc' = pc \/ kind = "smart")
    BY <1>4 DEF HandlerStep, CheckStep, ChooseSigners, CheckFails, ExitCheckFails, BuyNotSent,
      HandshakeStep, SignHandshake, HandshakeRetries, HandshakeDelivers, EntryHandshaken,
      ExitHandshaken, HandshakeFails, FinalizeStep, Finalize, FinalizeFails, EndRefund,
      TryNextCandidate, LadderGoesOn, RefundStep, StartRefund, RefundSettles,
      RefundTimesOut, Awaited
  <2> QED
    BY <1>0, <2>1 DEF AtMostOne, Missed, Mine
<1> QED
  BY <1>1, <1>2, <1>3, <1>4

(* What the chain does to the sessions. *)
LEMMA ChainMoves ==
  ASSUME IInv, \/ \E k \in Sessions : LandBuy(k) \/ DropBuy(k)
               \/ \E j \in Cancels : LandCancel(j) \/ DropCancel(j)
  PROVE  /\ UNCHANGED <<kind, first, pc, paid, bought, kept, told, inDoubt, unread>>
         /\ \A k \in Sessions : session'[k] \in Live => session[k] \in Live
         /\ \/ \A k \in Sessions : Money(k)' = Money(k)
            \/ \E k \in Sessions :
                  /\ session[k] = "pool" /\ session'[k] = "active"
                  /\ \A i \in Sessions \ {k} : Money(i)' = Money(i)
            \/ \E k \in Sessions :
                  /\ session[k] = "active" /\ session'[k] = "ended"
                  /\ \A i \in Sessions \ {k} : Money(i)' = Money(i)
<1>. USE DEF Live, Money
<1>0. session \in [Sessions -> {"none", "pool", "active", "ended", "gone"}]
  BY DEF IInv, TypeOK
<1>1. UNCHANGED <<kind, first, pc, paid, bought, kept, told, inDoubt, unread>>
  BY DEF LandBuy, DropBuy, LandCancel, DropCancel, caller, request, refunds, chain, answers, doubts
<1>2. \A w, i : i \in Sessions => \/ SpentBuys(w)[i] = session[i]
                                  \/ session[i] = "pool" /\ SpentBuys(w)[i] = "gone"
  BY DEF SpentBuys
<1>3. \A w : DOMAIN SpentBuys(w) = Sessions
  BY DEF SpentBuys
<1>4. CASE \E k \in Sessions : LandBuy(k)
  <2>1. PICK k \in Sessions : LandBuy(k)
    BY <1>4
  <2>2. /\ session[k] = "pool" /\ session'[k] = "active"
        /\ \A i \in Sessions \ {k} : session'[i] = SpentBuys(owner[k])[i]
    BY <1>3, <2>1 DEF LandBuy
  <2>3. \A i \in Sessions \ {k} : \/ session'[i] = session[i]
                                  \/ session[i] = "pool" /\ session'[i] = "gone"
    BY <1>2, <2>2
  <2>4. \A i \in Sessions \ {k} : Money(i)' = Money(i)
    BY <2>3
  <2>5. \A i \in Sessions : session'[i] \in Live => session[i] \in Live
    BY <2>2, <2>3
  <2> QED
    BY <1>1, <2>2, <2>4, <2>5
<1>5. CASE \E k \in Sessions : DropBuy(k)
  <2>1. PICK k \in Sessions : DropBuy(k)
    BY <1>5
  <2>2. \A i \in Sessions : \/ session'[i] = session[i]
                            \/ session[i] = "pool" /\ session'[i] = "gone"
    BY <1>0, <2>1 DEF DropBuy
  <2> QED
    BY <1>1, <2>2
<1>6. CASE \E j \in Cancels : LandCancel(j)
  <2>1. PICK j \in Cancels : LandCancel(j)
    BY <1>6
  <2>2. j[1] \in Sessions
    BY DEF Cancels
  <2>3. CASE session[j[1]] = "active" /\ cancelBy[j] = owner[j[1]]
    <3>1. /\ session'[j[1]] = "ended"
          /\ \A i \in Sessions \ {j[1]} : session'[i] = SpentBuys(cancelBy[j])[i]
      BY <1>3, <2>1, <2>2, <2>3 DEF LandCancel
    <3>2. \A i \in Sessions \ {j[1]} : \/ session'[i] = session[i]
                                       \/ session[i] = "pool" /\ session'[i] = "gone"
      BY <1>2, <3>1
    <3>3. \A i \in Sessions \ {j[1]} : Money(i)' = Money(i)
      BY <3>2
    <3>4. \A i \in Sessions : session'[i] \in Live => session[i] \in Live
      BY <3>1, <3>2
    <3> QED
      BY <1>1, <2>2, <2>3, <3>1, <3>3, <3>4
  <2>4. CASE ~(session[j[1]] = "active" /\ cancelBy[j] = owner[j[1]])
    <3>1. \A i \in Sessions : \/ session'[i] = session[i]
                              \/ session[i] = "pool" /\ session'[i] = "gone"
      BY <1>2, <2>1, <2>4 DEF LandCancel
    <3> QED
      BY <1>1, <3>1
  <2> QED
    BY <2>3, <2>4
<1>7. CASE \E j \in Cancels : DropCancel(j)
  BY <1>1, <1>7 DEF DropCancel, chain
<1> QED
  BY <1>4, <1>5, <1>6, <1>7

(* What a handler's step does to what the promise speaks of. *)
LEMMA HandlerMoves ==
  ASSUME PInv, HandlerStep
  PROVE  ~AtRest /\ Known \subseteq Known' /\ \A k \in Sessions : Money(k)' = Money(k)
<1>. USE DEF caller, request, signers, ladder, refunds, chain, cancels, answers, doubts, Known
<1>1. CASE SendBuy
  <2>1. /\ bought < MaxBuys /\ bought \in Nat /\ pc \in {"check", "exitCheck"}
        /\ UNCHANGED answers
        /\ \A k \in Sessions : k # bought + 1 => session'[k] = session[k]
        /\ bought + 1 \in Sessions /\ session'[bought + 1] = "pool"
    BY <1>1, BoundsAreNat DEF SendBuy, PInv, IInv, TypeOK, Sessions
  <2>2. session[bought + 1] = "none"
    BY <2>1 DEF PInv, IInv, Fresh
  <2>3. \A k \in Sessions : Money(k)' = Money(k)
    BY <2>1, <2>2 DEF Money
  <2> QED
    BY <2>1, <2>3 DEF AtRest
<1>2. CASE ~SendBuy
  <2>1. /\ session' = session /\ ~AtRest
        /\ kept \subseteq kept' /\ told \subseteq told'
        /\ inDoubt \subseteq inDoubt'
    BY <1>2 DEF HandlerStep, CheckStep, ChooseSigners, CheckFails, ExitCheckFails,
      BuyNotSent, ConfirmStep, BuyConfirmed, BuyRefused, BuyTimesOut, BuyUnheard, BuyUnnamed,
      HandshakeStep, SignHandshake, HandshakeRetries, HandshakeDelivers, EntryHandshaken,
      ExitHandshaken, HandshakeFails, FinalizeStep, Finalize, FinalizeFails, EndRefund,
      RefundStep, StartRefund, RefundSettles, RefundTimesOut, Awaited, AtRest
  <2> QED
    BY <2>1 DEF Money
<1> QED
  BY <1>1, <1>2

LEMMA PromiseHolds == PInv /\ [Next]_vars => PInv'
<1> SUFFICES ASSUME PInv, [Next]_vars PROVE PInv'
  OBVIOUS
<1>0. IInv'
  BY StepHolds DEF PInv
<1>1. CASE \E knd \in {"single", "smart", "chain"}, asked \in Wallets \cup {"none"},
          n \in 1..MaxCandidates, sub \in BOOLEAN : Request(knd, asked, n, sub)
  <2>1. /\ AtRest /\ pc' \in {"grade", "check"} /\ first' = bought + 1
        /\ UNCHANGED <<bought, session, kept, told, inDoubt, unread>>
    BY <1>1 DEF Request, chain, answers, doubts
  <2>2. OneAtATime' /\ Answerable'
    BY <2>1 DEF PInv, OneAtATime, Answerable, AtRest, Working, Known
  <2>3. bought \in Nat
    BY BoundsAreNat DEF PInv, IInv, TypeOK
  <2>4. AtMostOne'
    BY <2>1, <2>3 DEF PInv, AtMostOne, Missed, Mine, Sessions
  <2> QED
    BY <1>0, <2>2, <2>4 DEF PInv
<1>2. CASE HandlerStep
  BY <1>0, <1>2, HandlerAnswerable, HandlerMisses DEF PInv
<1>3. CASE \/ \E k \in Sessions : UserEnds(k)
           \/ \E j \in Cancels : CancelStep(j)
  <2>1. UNCHANGED <<kind, first, pc, paid, bought, session, kept, told, inDoubt, unread>>
    BY <1>3 DEF UserEnds, CancelStep, CancelSent, CancelNotSent, CancelSucceeds,
          CancelRefused, CancelUnheard, caller, request, refunds, chain, answers, doubts
  <2> QED
    BY <1>0, <2>1, OthersAnswerable DEF PInv
<1>4. CASE \/ \E k \in Sessions : LandBuy(k) \/ DropBuy(k)
           \/ \E j \in Cancels : LandCancel(j) \/ DropCancel(j)
  BY <1>0, <1>4, ChainMoves, OthersAnswerable DEF PInv
<1>5. CASE (\E w \in Wallets : SwitchWallet(w)) \/ UNCHANGED vars
  <2>1. UNCHANGED <<kind, first, pc, paid, bought, session, kept, told, inDoubt, unread>>
    BY <1>5 DEF SwitchWallet, vars, caller, request, refunds, chain, answers, doubts
  <2> QED
    BY <1>0, <2>1, OthersAnswerable DEF PInv
<1> QED
  BY <1>1, <1>2, <1>3, <1>4, <1>5 DEF Next

LEMMA InitMaps == Init => Promise!Init
<1> SUFFICES ASSUME Init PROVE Promise!Init
  OBVIOUS
<1>1. \A k \in Sessions : Money(k) = "unspent"
  BY DEF Init, Money
<1>2. Known = {} /\ Missed = {} /\ unread = {} /\ AtRest
  BY DEF Init, Known, Missed, AtRest
<1> QED
  BY <1>1, <1>2 DEF Promise!Init

(* Every step is a step of the promise, or changes nothing it speaks of. *)
LEMMA StepMaps == PInv /\ PInv' /\ [Next]_vars => [Promise!Next]_Promise!vars
<1> SUFFICES ASSUME PInv, PInv', [Next]_vars PROVE [Promise!Next]_Promise!vars
  OBVIOUS
<1> DEFINE money == [k \in Sessions |-> Money(k)]
<1>0. Known \in SUBSET Sessions /\ Known' \in SUBSET Sessions
  BY DEF PInv, IInv, TypeOK, Known
<1>s. ASSUME money' = money, Known' = Known, Missed' = Missed, unread' = unread, AtRest' = AtRest
      PROVE  [Promise!Next]_Promise!vars
  BY <1>s DEF Promise!vars
<1>1. CASE \E knd \in {"single", "smart", "chain"}, asked \in Wallets \cup {"none"},
          n \in 1..MaxCandidates, sub \in BOOLEAN : Request(knd, asked, n, sub)
  <2>1. /\ AtRest /\ ~AtRest' /\ Known' = Known /\ money' = money /\ unread' = unread
        /\ first' = bought + 1 /\ bought' = bought /\ bought \in Nat
    BY <1>1, BoundsAreNat DEF Request, chain, answers, doubts, AtRest, Known, Money, PInv, IInv,
      TypeOK
  <2>3. Missed' = {}
    BY <2>1 DEF Missed, Mine, Sessions
  <2>2. Promise!Begin
    BY <2>1, <2>3 DEF Promise!Begin
  <2> QED
    BY <2>2 DEF Promise!Next
<1>2. CASE HandlerStep
  <2>1. ~AtRest /\ Known \subseteq Known' /\ money' = money
    BY <1>2, HandlerMoves
  <2>2. ASSUME AtRest', NEW k \in Sessions, money[k] = "locked" PROVE k \in Known' \cup unread'
    <3>1. money'[k] = "locked"
      BY <2>1, <2>2
    <3>2. session'[k] = "active"
      BY <3>1 DEF Money
    <3> QED
      BY <2>2, <3>2 DEF PInv, Answerable, Live, Working, AtRest
  <2>3. \/ Missed' = Missed /\ unread' = unread
        \/ \E k \in Sessions : Promise!Miss(k)
    BY <1>2, HandlerMisses DEF Promise!Miss
  <2>4. AtRest' => Promise!Locked \subseteq Known' \cup unread'
    BY <2>2 DEF Promise!Locked
  <2>5. Promise!Work
    <3>1. \E K \in SUBSET Sessions : Promise!Tell(K)
      BY <1>0, <2>1 DEF Promise!Tell
    <3>2. ~AtRest /\ money' = money /\ (~AtRest)' \in BOOLEAN
      BY <2>1 DEF AtRest
    <3> QED
      BY <2>3, <2>4, <3>1, <3>2 DEF Promise!Work
  <2> QED
    BY <2>5 DEF Promise!Next
<1>3. CASE \/ \E k \in Sessions : UserEnds(k)
           \/ \E j \in Cancels : CancelStep(j)
  <2>1. UNCHANGED <<pc, first, bought, session, kept, told, inDoubt, unread>>
    BY <1>3 DEF UserEnds, CancelStep, CancelSent, CancelNotSent, CancelSucceeds,
          CancelRefused, CancelUnheard, caller, request, chain, answers, doubts
  <2> QED
    BY <1>s, <2>1 DEF Money, Known, Missed, Mine, AtRest
<1>4. CASE \/ \E k \in Sessions : LandBuy(k) \/ DropBuy(k)
           \/ \E j \in Cancels : LandCancel(j) \/ DropCancel(j)
  <2>1. Known' = Known /\ Missed' = Missed /\ unread' = unread /\ AtRest' = AtRest
    BY <1>4, ChainMoves DEF PInv, Known, Missed, Mine, AtRest
  <2>2. CASE \A k \in Sessions : Money(k)' = Money(k)
    BY <1>s, <2>1, <2>2
  <2>3. CASE \E k \in Sessions : /\ session[k] = "pool" /\ session'[k] = "active"
                                 /\ \A i \in Sessions \ {k} : Money(i)' = Money(i)
    <3>1. PICK k \in Sessions : /\ session[k] = "pool" /\ session'[k] = "active"
                                /\ \A i \in Sessions \ {k} : Money(i)' = Money(i)
      BY <2>3
    <3>2. Money(k) = "unspent" /\ Money(k)' = "locked"
      BY <3>1 DEF Money
    <3>3. money' = [money EXCEPT ![k] = "locked"]
      BY <3>1, <3>2
    <3>4. ~AtRest \/ k \in Known \cup unread
      BY <3>1 DEF PInv, Answerable, Live, Working, AtRest
    <3>5. Promise!Lock(k)
      BY <2>1, <3>2, <3>3, <3>4 DEF Promise!Lock
    <3> QED
      BY <3>5 DEF Promise!Next
  <2>4. CASE \E k \in Sessions : /\ session[k] = "active" /\ session'[k] = "ended"
                                 /\ \A i \in Sessions \ {k} : Money(i)' = Money(i)
    <3>1. PICK k \in Sessions : /\ session[k] = "active" /\ session'[k] = "ended"
                                /\ \A i \in Sessions \ {k} : Money(i)' = Money(i)
      BY <2>4
    <3>2. Money(k) = "locked" /\ Money(k)' = "back"
      BY <3>1 DEF Money
    <3>3. money' = [money EXCEPT ![k] = "back"]
      BY <3>1, <3>2
    <3>4. Promise!Return(k)
      BY <2>1, <3>2, <3>3 DEF Promise!Return
    <3> QED
      BY <3>4 DEF Promise!Next
  <2> QED
    BY <1>4, <2>2, <2>3, <2>4, ChainMoves DEF PInv
<1>5. CASE (\E w \in Wallets : SwitchWallet(w)) \/ UNCHANGED vars
  <2>1. UNCHANGED <<pc, first, bought, session, kept, told, inDoubt, unread>>
    BY <1>5 DEF SwitchWallet, vars, caller, request, chain, answers, doubts
  <2> QED
    BY <1>s, <2>1 DEF Money, Known, Missed, Mine, AtRest
<1> QED
  BY <1>1, <1>2, <1>3, <1>4, <1>5 DEF Next

(* A purchase implements its promise: it answers only when the user knows of
   every session that still holds the user's money, and money locks afterwards
   only in a session the user was told about; the one session at most whose
   outcome the program could not read is excepted. *)
THEOREM PurchaseKeepsPromise == Spec => KeepsPromise
<1>1. Init => PInv
  BY InitHolds, InitPromise DEF PInv
<1> QED
  BY <1>1, PromiseHolds, InitMaps, StepMaps, PTL DEF Spec, KeepsPromise, Promise!Spec

----------------------------------------------------------------------------
(* One transaction at a time.  Until a wait is given up on, a purchase in the pool is the
   one the handler awaits, and a cancel in the pool is the one of an endSession call still
   at work; of those, a refund's is the one the handler awaits, since it starts them in
   turn. *)

Awaits == \A k \in Sessions : session[k] = "pool" => pc = "confirm" /\ k = bought

Called == \A j \in Cancels : cancelTx[j] = "pool" => cancelCall[j] = "running"

InTurns ==
    \A k \in Sessions : cancelCall[<<k, "refund">>] = "running" =>
        /\ pc = "refund" /\ k \in paid \ Settled
        /\ \A j \in paid : j < k => j \in Settled

TxInv == ~abandoned => Awaits /\ Called /\ InTurns

LEMMA InitTx == Init => Awaits /\ Called /\ InTurns
BY DEF Init, Awaits, Called, InTurns, Cancels, Callers

(* The handler broadcasts a purchase where nothing is awaited, and starts a refund's call
   once the earlier ones are settled; it leaves "confirm" and "refund" when what it awaited
   there is decided, unless it gives up the wait. *)
LEMMA HandlerTx ==
  ASSUME IInv, Awaits, Called, InTurns, HandlerStep, ~abandoned'
  PROVE  Awaits' /\ Called' /\ InTurns'
<1>. USE DEF caller, request, signers, ladder, refunds, chain, cancels, answers, doubts,
         Answers, RefundOrAnswer, Current
<1>0. bought \in Nat /\ TypeOK
  BY BoundsAreNat DEF IInv, TypeOK
<1>1. CASE ChooseSigners \/ CheckFails \/ ExitCheckFails \/ BuyNotSent
  <2>1. /\ UNCHANGED <<bought, session, cancelTx, cancelCall>>
        /\ pc \notin {"confirm", "refund"}
    BY <1>1 DEF ChooseSigners, CheckFails, ExitCheckFails, BuyNotSent
  <2> QED
    BY <2>1 DEF Awaits, Called, InTurns
<1>2. CASE SendBuy
  <2>1. /\ bought' = bought + 1 /\ pc' = "confirm" /\ pc \in {"check", "exitCheck"}
        /\ UNCHANGED <<cancelTx, cancelCall>>
        /\ \A k \in Sessions : k # bought + 1 => session'[k] = session[k]
    BY <1>0, <1>2 DEF SendBuy, TypeOK
  <2> QED
    BY <2>1 DEF Awaits, Called, InTurns
<1>3. CASE ConfirmStep
  <2>1. /\ UNCHANGED <<bought, session, cancelTx, cancelCall>> /\ pc = "confirm"
        /\ session[bought] # "pool"
    BY <1>3 DEF ConfirmStep, Committed, BuyConfirmed, BuyRefused, BuyTimesOut, BuyUnheard, BuyUnnamed
  <2> QED
    BY <2>1 DEF Awaits, Called, InTurns
<1>4. CASE HandshakeStep \/ FinalizeStep
  <2>1. /\ UNCHANGED <<bought, session, cancelTx, cancelCall>>
        /\ pc \in {"handshake", "posted", "finalize"}
    BY <1>4 DEF HandshakeStep, SignHandshake, HandshakeRetries, HandshakeDelivers,
          EntryHandshaken, ExitHandshaken, HandshakeFails, FinalizeStep, Finalize,
          FinalizeFails
  <2> QED
    BY <2>1 DEF Awaits, Called, InTurns
<1>5. CASE EndRefund
  <2>1. /\ UNCHANGED <<bought, session, cancelTx, cancelCall>>
        /\ pc = "refund" /\ paid \subseteq Settled
    BY <1>5 DEF EndRefund, RefundTargets
  <2> QED
    BY <2>1 DEF Awaits, Called, InTurns
<1>6. ASSUME NEW k \in Sessions, RefundStep(k) PROVE Awaits' /\ Called' /\ InTurns'
  <2>0. UNCHANGED <<pc, paid, bought, session, cancelTx>> /\ pc = "refund"
    BY <1>6 DEF RefundStep, StartRefund, RefundSettles, RefundTimesOut, Awaited
  <2>1. Awaits'
    BY <2>0 DEF Awaits
  <2>2. CASE StartRefund(k)
    <3>1. /\ UNCHANGED <<back, stranded>>
          /\ k \in paid \ Settled /\ \A j \in paid : j < k => j \in Settled
          /\ cancelCall'[<<k, "refund">>] = "running"
          /\ \A j \in Cancels : j # <<k, "refund">> => cancelCall'[j] = cancelCall[j]
      BY <1>0, <2>2 DEF StartRefund, InTurn, RefundTargets, TypeOK, Cancels, Callers
    <3>2. Called'
      BY <2>0, <3>1 DEF Called
    <3>3. \A i \in Sessions : <<i, "refund">> \in Cancels
      BY DEF Cancels, Callers
    <3>4. InTurns'
      BY <2>0, <3>1, <3>3 DEF InTurns, Settled
    <3> QED
      BY <2>1, <3>2, <3>4
  <2>3. CASE RefundSettles(k)
    <3>1. /\ UNCHANGED cancelCall /\ cancelCall[<<k, "refund">>] \in {"ok", "failed"}
          /\ Settled' = Settled \cup {k}
      BY <2>3 DEF RefundSettles, Settled
    <3>2. Called'
      BY <2>0, <3>1 DEF Called
    <3>3. InTurns'
      BY <2>0, <3>1 DEF InTurns
    <3> QED
      BY <2>1, <3>2, <3>3
  <2>4. CASE RefundTimesOut(k)
    BY <2>4 DEF RefundTimesOut
  <2> QED
    BY <1>6, <2>2, <2>3, <2>4 DEF RefundStep
<1> QED
  BY <1>1, <1>2, <1>3, <1>4, <1>5, <1>6 DEF HandlerStep, CheckStep

LEMMA EndSessionTx ==
  ASSUME IInv, Awaits, Called, InTurns, ~abandoned',
         \/ \E k \in Sessions : UserEnds(k)
         \/ \E j \in Cancels : CancelStep(j)
  PROVE  Awaits' /\ Called' /\ InTurns'
<1>. USE DEF caller, request, signers, ladder, refunds, chain, cancels, answers, doubts
<1>0. /\ TypeOK /\ \A i \in Sessions : <<i, "refund">> \in Cancels
  BY DEF IInv, Cancels, Callers
<1>1. UNCHANGED <<pc, paid, back, stranded, bought, session>>
  BY DEF UserEnds, CancelStep, CancelSent, CancelNotSent, CancelSucceeds, CancelRefused,
    CancelUnheard
<1>2. Awaits'
  BY <1>1 DEF Awaits
<1>3. ASSUME NEW k \in Sessions, UserEnds(k) PROVE Called' /\ InTurns'
  <2>1. /\ UNCHANGED cancelTx /\ cancelCall'[<<k, "user">>] = "running"
        /\ \A j \in Cancels : j # <<k, "user">> => cancelCall'[j] = cancelCall[j]
    BY <1>0, <1>3 DEF UserEnds, TypeOK, Cancels, Callers
  <2> QED
    BY <1>0, <1>1, <2>1 DEF Called, InTurns, Settled
<1>4. ASSUME NEW j \in Cancels, CancelStep(j) PROVE Called' /\ InTurns'
  <2>1. CASE CancelSent(j)
    <3>1. /\ UNCHANGED cancelCall /\ cancelCall[j] = "running"
          /\ \A i \in Cancels : i # j => cancelTx'[i] = cancelTx[i]
      BY <1>0, <2>1 DEF CancelSent, TypeOK
    <3> QED
      BY <1>1, <3>1 DEF Called, InTurns, Settled
  <2>2. CASE CancelNotSent(j) \/ CancelSucceeds(j) \/ CancelRefused(j)
    <3>1. /\ UNCHANGED cancelTx /\ cancelTx[j] # "pool" /\ cancelCall'[j] # "running"
          /\ \A i \in Cancels : i # j => cancelCall'[i] = cancelCall[i]
      BY <1>0, <2>2 DEF CancelNotSent, CancelSucceeds, CancelRefused, TypeOK
    <3> QED
      BY <1>0, <1>1, <3>1 DEF Called, InTurns, Settled
  <2>3. CASE CancelUnheard(j)
    BY <2>3 DEF CancelUnheard
  <2> QED
    BY <1>4, <2>1, <2>2, <2>3 DEF CancelStep
<1> QED
  BY <1>2, <1>3, <1>4

(* The chain puts nothing into its pool. *)
LEMMA ChainTx ==
  ASSUME IInv, Awaits, Called, InTurns,
         \/ \E k \in Sessions : LandBuy(k) \/ DropBuy(k)
         \/ \E j \in Cancels : LandCancel(j) \/ DropCancel(j)
  PROVE  Awaits' /\ Called' /\ InTurns'
<1>0. TypeOK /\ \A j \in Cancels : j[1] \in Sessions
  BY DEF IInv, Cancels
<1>1. UNCHANGED <<pc, paid, back, stranded, bought, cancelCall>>
  BY DEF LandBuy, DropBuy, LandCancel, DropCancel, refunds, chain, cancels
<1>2. \A w : /\ \A k \in Sessions : SpentBuys(w)[k] \in {session[k], "gone"}
             /\ \A j \in Cancels : SpentCancels(w)[j] \in {cancelTx[j], "void"}
             /\ DOMAIN SpentBuys(w) = Sessions /\ DOMAIN SpentCancels(w) = Cancels
  BY DEF SpentBuys, SpentCancels
<1>3. /\ \A k \in Sessions : session'[k] = "pool" => session[k] = "pool"
      /\ \A j \in Cancels : cancelTx'[j] = "pool" => cancelTx[j] = "pool"
  <2>1. ASSUME NEW k \in Sessions, LandBuy(k) PROVE <1>3!:
    BY <1>2, <2>1 DEF LandBuy
  <2>2. ASSUME NEW k \in Sessions, DropBuy(k) PROVE <1>3!:
    BY <1>0, <2>2 DEF DropBuy, TypeOK, cancels
  <2>3. ASSUME NEW j \in Cancels, LandCancel(j) PROVE <1>3!:
    BY <1>0, <1>2, <2>3 DEF LandCancel
  <2>4. ASSUME NEW j \in Cancels, DropCancel(j) PROVE <1>3!:
    BY <1>0, <2>4 DEF DropCancel, TypeOK, chain
  <2> QED
    BY <2>1, <2>2, <2>3, <2>4
<1> QED
  BY <1>1, <1>3 DEF Awaits, Called, InTurns, Settled

LEMMA TxHolds == IInv /\ TxInv /\ [Next]_vars => TxInv'
<1> SUFFICES ASSUME IInv, TxInv, [Next]_vars, ~abandoned'
             PROVE  Awaits' /\ Called' /\ InTurns'
  BY DEF TxInv
<1>0. Awaits /\ Called /\ InTurns
  <2>1. ~abandoned
    BY DEF Next, vars, Request, SwitchWallet, HandlerStep, CheckStep, ChooseSigners,
      CheckFails, ExitCheckFails, SendBuy, BuyNotSent, ConfirmStep, BuyConfirmed, BuyRefused,
      BuyTimesOut, BuyUnheard, BuyUnnamed, HandshakeStep, SignHandshake, HandshakeRetries,
      HandshakeDelivers, EntryHandshaken, ExitHandshaken, HandshakeFails, FinalizeStep,
      Finalize, FinalizeFails, EndRefund, RefundStep, StartRefund, RefundSettles,
      RefundTimesOut, UserEnds, LandBuy, DropBuy, CancelStep, CancelSent, CancelNotSent,
      CancelSucceeds, CancelRefused, CancelUnheard, LandCancel, DropCancel, answers, doubts
  <2> QED
    BY <2>1 DEF TxInv
<1>1. CASE \E knd \in {"single", "smart", "chain"}, asked \in Wallets \cup {"none"},
          n \in 1..MaxCandidates, sub \in BOOLEAN : Request(knd, asked, n, sub)
  <2>1. AtRest /\ UNCHANGED <<bought, session, cancelTx, cancelCall>>
    BY <1>1 DEF Request, chain, cancels
  <2> QED
    BY <1>0, <2>1 DEF Awaits, Called, InTurns, AtRest
<1>2. CASE HandlerStep
  BY <1>0, <1>2, HandlerTx
<1>3. CASE \/ \E k \in Sessions : UserEnds(k)
           \/ \E j \in Cancels : CancelStep(j)
  BY <1>0, <1>3, EndSessionTx
<1>4. CASE \/ \E k \in Sessions : LandBuy(k) \/ DropBuy(k)
           \/ \E j \in Cancels : LandCancel(j) \/ DropCancel(j)
  BY <1>0, <1>4, ChainTx
<1>5. CASE (\E w \in Wallets : SwitchWallet(w)) \/ UNCHANGED vars
  <2>1. UNCHANGED <<pc, paid, back, stranded, bought, session, cancelTx, cancelCall>>
    BY <1>5 DEF SwitchWallet, vars, refunds, chain, cancels
  <2> QED
    BY <1>0, <2>1 DEF Awaits, Called, InTurns, Settled
<1> QED
  BY <1>1, <1>2, <1>3, <1>4, <1>5 DEF Next

(* In flight is the purchase awaited, or the refund awaited, or nothing. *)
LEMMA TxIsOne == IInv /\ TxInv => OneTxAtATime
<1> SUFFICES ASSUME IInv, TxInv, ~abandoned, NEW w \in Wallets
             PROVE  Cardinality(InFlight(w)) <= 1
  BY DEF OneTxAtATime
<1>0. Awaits /\ Called /\ InTurns
  BY DEF TxInv
<1>1. Mine \subseteq Sessions
  BY DEF Mine
<1>2. \A x \in InFlight(w) : \/ x = bought /\ pc = "confirm"
                             \/ \E k \in Mine : /\ x = <<k, "refund">>
                                                /\ cancelCall[x] = "running"
  BY <1>0, <1>1 DEF InFlight, Awaits, Called, Cancels, Callers
<1>3. ASSUME NEW x \in InFlight(w), NEW y \in InFlight(w) PROVE x = y
  <2>1. CASE pc = "confirm"
    BY <1>0, <1>1, <1>2, <2>1 DEF InTurns
  <2>2. CASE pc # "confirm"
    <3>1. PICK k \in Mine : x = <<k, "refund">> /\ cancelCall[x] = "running"
      BY <1>2, <2>2
    <3>2. PICK i \in Mine : y = <<i, "refund">> /\ cancelCall[y] = "running"
      BY <1>2, <2>2
    <3>3. k \in Int /\ i \in Int /\ k \in Sessions /\ i \in Sessions
      BY <1>1 DEF Sessions
    <3>4. ~(k < i) /\ ~(i < k)
      BY <1>0, <3>1, <3>2, <3>3 DEF InTurns
    <3> QED
      BY <3>1, <3>2, <3>3, <3>4
  <2> QED
    BY <2>1, <2>2
<1>4. InFlight(w) = {} \/ \E x : InFlight(w) = {x}
  BY <1>3
<1>5. Cardinality(InFlight(w)) = 0 \/ Cardinality(InFlight(w)) = 1
  BY <1>4, FS_EmptySet, FS_Singleton, Zenon
<1> QED
  BY <1>5

(* As long as no wait is given up on, a request has at most one transaction of an account
   in flight: no two of them carry the same sequence number. *)
THEOREM TransactionsAreSequential == Spec => []OneTxAtATime
<1>1. Init => IInv /\ TxInv
  BY InitHolds, InitTx DEF TxInv
<1> QED
  BY <1>1, StepHolds, TxHolds, TxIsOne, PTL DEF Spec

----------------------------------------------------------------------------
(***************************************************************************)
(* Who signs: every cancel is signed by the account that bought the         *)
(* session, and a delivered chain stays manageable, whatever the user does  *)
(* to the active wallet in the meantime.                                    *)
(*                                                                           *)
(* The handler of a chain captures the payer's credentials when it is       *)
(* called and reads the id of the active wallet later (ChooseSigners).  The *)
(* two agree because a switch in between zeroes the captured key: either    *)
(* the ids are right, or the entry's handshake can no longer be signed and  *)
(* nothing is ever recorded (Ids).                                           *)
(***************************************************************************)
(* The account each of the request's transactions is signed with. *)
Buyer(k) == IF kind = "chain" /\ k # first THEN exitPayer ELSE payer

(* Where the ids a chain will record are already chosen. *)
Chosen == {"check", "confirm", "handshake", "posted", "exitCheck", "finalize"}

RightIds == entryId = payer /\ exitId = exitPayer

Unswitched == ~AtRest /\ ~wiped => activeWallet = payer

Ids ==
    kind = "chain" /\ pc \in Chosen =>
        \/ RightIds
        \/ wiped /\ bought <= first /\ pc \in {"check", "confirm", "handshake"}

Hops ==
    /\ pc \in {"grade", "check"} /\ kind = "chain" => bought < first
    /\ kind = "chain" => bought <= first + 1
    /\ pc = "exitCheck" => bought = first
    /\ pc = "finalize" => bought # first
    /\ paid \subseteq Mine

Buyers ==
    \A k \in Mine : owner[k] = Buyer(k) /\ (buys[k] = "hop" <=> kind = "chain")

Unbought ==
    \A k \in Sessions : k > bought =>
        saved[k] = "none" /\ k \notin kept /\ cancelBy[<<k, "refund">>] = "none"
                          /\ cancelBy[<<k, "user">>] = "none"

Recorded ==
    /\ \A k \in Sessions : saved[k] \in Wallets => saved[k] = owner[k]
    /\ \A k \in kept : buys[k] = "hop" => saved[k] \in Wallets

Owners ==
    /\ Unswitched /\ Ids /\ Hops /\ Buyers /\ Unbought /\ Recorded
    /\ CancelSignedByOwner

SInv == IInv /\ Owners

----------------------------------------------------------------------------
LEMMA InitOwners == Init => Owners
<1>. SUFFICES ASSUME Init PROVE Owners
  OBVIOUS
<1>1. Mine = {} /\ paid = {} /\ kept = {} /\ pc = "idle" /\ kind = "single"
  BY DEF Init, Mine, Sessions
<1>2. Unswitched /\ Ids /\ Hops /\ Buyers
  BY <1>1 DEF Unswitched, AtRest, Ids, Chosen, Hops, Buyers
<1>3. /\ \A k \in Sessions : saved[k] = "none"
      /\ \A j \in Cancels : cancelBy[j] = "none"
  BY DEF Init
<1>4. Unbought
  BY <1>1, <1>3 DEF Unbought, Cancels, Callers
<1>5. Recorded /\ CancelSignedByOwner
  BY <1>1, <1>3, WalletsAssumption DEF Recorded, CancelSignedByOwner
<1>6. QED BY <1>2, <1>4, <1>5 DEF Owners

(* What a step may leave alone, so that the rest of Owners follows. *)
LEMMA SameOwners ==
  ASSUME SInv, UNCHANGED <<first, kind, payer, exitPayer, bought, owner, buys>>,
         paid' \subseteq paid
  PROVE  /\ Buyers'
         /\ paid' \subseteq Mine'
BY DEF SInv, Owners, Buyers, Buyer, Mine, Hops, Sessions

LEMMA SameFiles ==
  ASSUME SInv, UNCHANGED <<bought, owner, buys, saved, cancelBy, kept>>
  PROVE  Unbought' /\ Recorded' /\ CancelSignedByOwner'
BY DEF SInv, Owners, Unbought, Recorded, CancelSignedByOwner

(* A move of the handler that touches neither identities nor transactions. *)
LEMMA Moves ==
  ASSUME SInv, UNCHANGED <<caller, bought, owner, buys, cancelBy>>,
         ~AtRest, paid' \subseteq paid,
         UNCHANGED <<saved, kept>>,
         pc' \in {pc, "answered", "refund"} \/ (pc \in {"handshake", "posted", "refund"}
            /\ pc' \in {"handshake", "posted", "check"} /\ kind # "chain")
  PROVE  Owners'
<1>1. UNCHANGED <<activeWallet, wiped, kind, payer, first, exitPayer, entryId, exitId>>
  BY DEF caller, request, signers
<1>2. Unswitched'
  BY <1>1 DEF SInv, Owners, Unswitched, AtRest
<1>3. Ids'
  BY <1>1 DEF SInv, Owners, Ids, Chosen, RightIds
<1>4. Hops'
  BY <1>1, SameOwners DEF SInv, Owners, Hops
<1>5. QED BY <1>1, <1>2, <1>3, <1>4, SameOwners, SameFiles DEF Owners

----------------------------------------------------------------------------
(* The handler. *)

LEMMA PlainOwners ==
  ASSUME SInv, \/ CheckFails \/ ExitCheckFails \/ BuyNotSent
               \/ BuyRefused \/ BuyTimesOut \/ BuyUnheard \/ BuyUnnamed
               \/ HandshakeRetries \/ HandshakeFails \/ EndRefund
               \/ \E k \in Sessions : RefundSettles(k) \/ RefundTimesOut(k)
  PROVE  Owners'
<1>. USE DEF ladder, refunds, chain, cancels, answers, doubts, Answers, RefundOrAnswer, AtRest
<1>1. CASE CheckFails \/ ExitCheckFails \/ BuyNotSent
  BY <1>1, Moves DEF CheckFails, ExitCheckFails, BuyNotSent
<1>2. CASE BuyRefused \/ BuyTimesOut \/ BuyUnheard \/ BuyUnnamed
  BY <1>2, Moves DEF BuyRefused, BuyTimesOut, BuyUnheard, BuyUnnamed
<1>3. CASE HandshakeRetries \/ HandshakeFails
  BY <1>3, Moves DEF HandshakeRetries, HandshakeFails
<1>4. CASE EndRefund
  <2>1. TryNextCandidate => kind # "chain"
    BY DEF TryNextCandidate, LadderGoesOn
  <2>2. QED BY <1>4, <2>1, Moves DEF EndRefund
<1>5. ASSUME NEW k \in Sessions, RefundSettles(k) \/ RefundTimesOut(k)
      PROVE  Owners'
  BY <1>5, Moves DEF RefundSettles, RefundTimesOut, Awaited
<1>6. QED BY <1>1, <1>2, <1>3, <1>4, <1>5

(* The ids are right unless the captured key is already gone. *)
LEMMA ChosenOwners == ASSUME SInv, ChooseSigners PROVE Owners'
<1>1. /\ pc = "grade" /\ kind = "chain" /\ pc' = "check" /\ entryId' = activeWallet
      /\ UNCHANGED <<activeWallet, wiped, kind, payer, first, bought, owner, buys, paid, saved,
                     cancelBy, kept>>
  BY DEF ChooseSigners, SInv, IInv, Shape, request, refunds, chain, cancels, answers, doubts
<1>2. bought < first /\ paid = {} /\ Mine' = {}
  BY <1>1, BoundsAreNat DEF SInv, IInv, TypeOK, Shape, Owners, Hops, Mine, Sessions
<1>3. ~wiped => RightIds'
  BY <1>1 DEF ChooseSigners, SInv, Owners, Unswitched, AtRest, RightIds
<1>4. Ids'
  BY <1>1, <1>2, <1>3, BoundsAreNat DEF Ids, SInv, IInv, TypeOK
<1>5. Unswitched'
  BY <1>1 DEF SInv, Owners, Unswitched, AtRest
<1>6. Hops' /\ Buyers'
  BY <1>1, <1>2, BoundsAreNat DEF Hops, Buyers, SInv, IInv, TypeOK
<1>7. QED BY <1>1, <1>4, <1>5, <1>6, SameFiles DEF Owners

LEMMA BoughtOwners == ASSUME SInv, SendBuy PROVE Owners'
<1>1. /\ pc \in {"check", "exitCheck"} /\ pc' = "confirm"
      /\ bought \in Nat /\ first \in Nat /\ first <= bought + 1
      /\ bought' = bought + 1 /\ bought + 1 \in Sessions
      /\ UNCHANGED <<activeWallet, wiped, kind, payer, first, exitPayer, entryId, exitId,
                     paid, saved, cancelBy, kept>>
      /\ owner' = [owner EXCEPT ![bought + 1] = Signer]
      /\ buys' = [buys EXCEPT ![bought + 1] = NextTx]
  BY BoundsAreNat DEF SendBuy, SInv, IInv, TypeOK, Shape, Sessions, caller, request, signers,
       refunds, cancels, answers, doubts
<1>2. /\ pc = "check" /\ kind = "chain" => first = bought + 1
      /\ pc = "exitCheck" => kind = "chain" /\ bought = first
  BY <1>1 DEF SInv, IInv, Shape, Owners, Hops
<1>3. /\ owner'[bought + 1] = Signer /\ buys'[bought + 1] = NextTx
      /\ \A k \in Sessions : k # bought + 1 => owner'[k] = owner[k] /\ buys'[k] = buys[k]
  BY <1>1 DEF SInv, IInv, TypeOK
<1>4. \A k \in Mine' : k = bought + 1 \/ k \in Mine
  BY <1>1 DEF Mine, Sessions
<1>5. Signer = Buyer(bought + 1) /\ (NextTx = "hop" <=> kind = "chain")
  BY <1>1, <1>2 DEF Signer, Buyer, NextTx, SInv, IInv, TypeOK, Kinds
<1>6. Buyers'
  BY <1>1, <1>3, <1>4, <1>5 DEF SInv, Owners, Buyers, Buyer, Mine
<1>7. Unswitched' /\ Ids'
  BY <1>1, <1>2 DEF SInv, Owners, Unswitched, AtRest, Ids, Chosen, RightIds
<1>8. Hops'
  <2>1. Mine \subseteq Mine'
    BY <1>1 DEF Mine, Sessions
  <2>2. QED BY <1>1, <1>2, <2>1 DEF SInv, Owners, Hops
<1>9. Unbought'
  BY <1>1 DEF SInv, Owners, Unbought, Sessions
<1>n. /\ saved[bought + 1] = "none" /\ bought + 1 \notin kept
      /\ \A c \in Callers : cancelBy[<<bought + 1, c>>] = "none"
  BY <1>1 DEF SInv, Owners, Unbought, Callers
<1>10. Recorded'
  <2>1. \A k \in Sessions : saved[k] \in Wallets => k # bought + 1 /\ saved[k] = owner[k]
    BY <1>n, WalletsAssumption DEF SInv, Owners, Recorded
  <2>2. \A k \in kept : k \in Sessions /\ k # bought + 1
    BY <1>n DEF SInv, IInv, TypeOK
  <2>3. QED BY <1>1, <1>3, <2>1, <2>2 DEF SInv, Owners, Recorded
<1>11. CancelSignedByOwner'
  <2>1. ASSUME NEW j \in Cancels, cancelBy[j] # "none" PROVE owner'[j[1]] = owner[j[1]]
    <3>1. PICK k \in Sessions, c \in Callers : j = <<k, c>>
      BY DEF Cancels
    <3>2. k # bought + 1
      BY <1>n, <2>1, <3>1
    <3>3. QED BY <1>3, <3>1, <3>2
  <2>2. QED BY <1>1, <2>1 DEF SInv, Owners, CancelSignedByOwner
<1>12. QED BY <1>6, <1>7, <1>8, <1>9, <1>10, <1>11 DEF Owners

LEMMA ConfirmedOwners == ASSUME SInv, BuyConfirmed PROVE Owners'
<1>1. /\ pc = "confirm" /\ pc' = "handshake" /\ paid' = paid \cup {Current}
      /\ UNCHANGED <<caller, bought, owner, buys, cancelBy, saved, kept>>
  BY DEF BuyConfirmed, chain, cancels, answers, doubts
<1>2. UNCHANGED <<activeWallet, wiped, kind, payer, first, exitPayer, entryId, exitId>>
  BY <1>1 DEF caller, request, signers
<1>3. Current \in Mine /\ Mine' = Mine
  BY <1>1, <1>2, CurrentIsSession DEF SInv, IInv, Working, Mine
<1>4. Unswitched' /\ Ids'
  BY <1>1, <1>2 DEF SInv, Owners, Unswitched, AtRest, Ids, Chosen, RightIds
<1>5. Hops' /\ Buyers'
  BY <1>1, <1>2, <1>3 DEF SInv, Owners, Hops, Buyers, Buyer
<1>6. QED BY <1>1, <1>4, <1>5, SameFiles DEF Owners

(* A chain whose key is gone signs nothing for its entry. *)
LEMMA HandshakeOwners ==
  ASSUME SInv, SignHandshake \/ EntryHandshaken \/ ExitHandshaken
  PROVE  Owners'
<1>1. /\ UNCHANGED <<caller, bought, owner, buys, cancelBy, saved, kept, paid>>
      /\ pc \in {"handshake", "posted"}
      /\ \/ pc' = "posted" /\ pc = "handshake" /\ KeyAtHand
         \/ pc' = "exitCheck" /\ pc = "posted" /\ bought = first /\ kind = "chain"
         \/ pc' = "finalize" /\ pc = "posted" /\ bought # first /\ kind = "chain"
  BY DEF SignHandshake, EntryHandshaken, ExitHandshaken, EntryHop, Current, ladder, refunds,
         chain, cancels, answers, doubts
<1>2. UNCHANGED <<activeWallet, wiped, kind, payer, first, exitPayer, entryId, exitId>>
  BY <1>1 DEF caller, request, signers
<1>3. Unswitched'
  BY <1>1, <1>2 DEF SInv, Owners, Unswitched, AtRest
<1>4. kind = "chain" => RightIds
  <2>1. first \in Nat /\ bought \in Nat /\ first <= bought
    BY <1>1, BoundsAreNat DEF SInv, IInv, TypeOK, Shape, Working
  <2>2. QED BY <1>1, <2>1 DEF SInv, Owners, Ids, Chosen, KeyAtHand, EntryHop, Current
<1>5. Ids'
  BY <1>2, <1>4 DEF Ids, RightIds
<1>6. Hops' /\ Buyers'
  BY <1>1, <1>2, SameOwners DEF SInv, Owners, Hops
<1>7. QED BY <1>1, <1>3, <1>5, <1>6, SameFiles DEF Owners

LEMMA DeliveredOwners == ASSUME SInv, HandshakeDelivers PROVE Owners'
<1>1. /\ pc = "posted" /\ pc' = "answered" /\ kind # "chain"
      /\ saved' = [saved EXCEPT ![Current] = "unowned"] /\ kept' = kept \cup {Current}
      /\ UNCHANGED <<caller, bought, owner, buys, cancelBy>> /\ paid' = {}
  BY DEF HandshakeDelivers, Answers, ladder, refunds, chain, cancels
<1>2. UNCHANGED <<activeWallet, wiped, kind, payer, first, exitPayer, entryId, exitId>>
  BY <1>1 DEF caller, request, signers
<1>3. Current \in Mine /\ Current \in Sessions /\ buys[Current] # "hop"
  BY <1>1, CurrentIsSession DEF SInv, IInv, Working, Owners, Buyers
<1>4. Unswitched' /\ Ids' /\ Hops' /\ Buyers'
  BY <1>1, <1>2, SameOwners DEF Unswitched, AtRest, Ids, Chosen, SInv, Owners, Hops
<1>5. \A k \in Sessions : saved'[k] = IF k = Current THEN "unowned" ELSE saved[k]
  BY <1>1 DEF SInv, IInv, TypeOK
<1>6. Unbought'
  <2>1. bought \in Nat
    BY BoundsAreNat DEF SInv, IInv, TypeOK
  <2>2. QED BY <1>1, <1>5, <2>1 DEF SInv, Owners, Unbought, Current, Sessions
<1>7. Recorded'
  <2>1. \A k \in kept' : buys'[k] = "hop" => k \in Sessions /\ k # Current /\ k \in kept
    BY <1>1, <1>3 DEF SInv, IInv, TypeOK
  <2>2. QED BY <1>1, <1>5, <2>1, WalletsAssumption DEF SInv, Owners, Recorded
<1>8. CancelSignedByOwner'
  BY <1>1 DEF SInv, Owners, CancelSignedByOwner
<1>9. QED BY <1>4, <1>6, <1>7, <1>8 DEF Owners

(* Both hops are recorded under the wallets that bought them. *)
LEMMA FinalizeOwners == ASSUME SInv, FinalizeStep PROVE Owners'
<1>1. /\ FinalizeStep /\ pc = "finalize" /\ pc' \in {"answered", "refund"} /\ kind = "chain"
      /\ UNCHANGED <<caller, bought, owner, buys, cancelBy>> /\ paid' \subseteq paid
  BY DEF FinalizeStep, Finalize, FinalizeFails, Answers, SInv, IInv, Shape, ladder, refunds, chain,
         cancels, answers, doubts
<1>2. UNCHANGED <<activeWallet, wiped, kind, payer, first, exitPayer, entryId, exitId>>
  BY <1>1 DEF caller, request, signers
<1>3. /\ bought \in Nat /\ first \in Nat /\ bought = first + 1
      /\ first \in Sessions /\ Current \in Sessions /\ Current \in Mine /\ first \in Mine
  <2>1. /\ bought \in Nat /\ first \in Nat /\ first <= bought /\ bought <= first + 1
        /\ bought # first
    BY <1>1, BoundsAreNat DEF SInv, IInv, TypeOK, Shape, Working, Owners, Hops
  <2>2. QED BY <1>1, <2>1, CurrentIsSession DEF SInv, IInv, Working, Mine, Current
<1>4. Unswitched' /\ Ids' /\ Hops' /\ Buyers'
  BY <1>1, <1>2, SameOwners DEF SInv, Owners, Unswitched, AtRest, Ids, Chosen, Hops
<1>5. /\ SavedOwner(first) = owner[first] /\ SavedOwner(first) \in Wallets
      /\ SavedOwner(Current) = owner[Current] /\ SavedOwner(Current) \in Wallets
  <2>1. RightIds
    BY <1>1 DEF SInv, Owners, Ids, Chosen
  <2>2. QED BY <1>1, <1>3, <2>1
            DEF SavedOwner, SInv, IInv, TypeOK, Owners, Buyers, Buyer, RightIds, Current
<1>6. /\ \A k \in Sessions : k \notin {first, Current} => saved'[k] = saved[k]
      /\ saved'[first] \in {saved[first], SavedOwner(first)}
      /\ saved'[Current] \in {saved[Current], SavedOwner(Current)}
      /\ \/ kept' = kept
         \/ /\ kept' = kept \cup paid
            /\ saved'[first] = SavedOwner(first)
            /\ saved'[Current] = SavedOwner(Current)
  <2>1. CASE Finalize
    <3>1. /\ saved' = [saved EXCEPT ![first] = SavedOwner(first),
                                    ![Current] = SavedOwner(Current)]
          /\ kept' = kept \cup paid
      BY <2>1 DEF Finalize
    <3>2. DOMAIN saved = Sessions /\ first # Current
      BY <1>3 DEF SInv, IInv, TypeOK, Current
    <3>3. QED BY <1>3, <3>1, <3>2
  <2>2. CASE FinalizeFails
    <3>1. PICK wrote \in {{}, {first}} :
            saved' = [k \in Sessions |-> IF k \in wrote THEN SavedOwner(k) ELSE saved[k]]
      BY <2>2 DEF FinalizeFails
    <3>2. kept' = kept /\ first # Current
      BY <1>3, <2>2 DEF FinalizeFails, answers, doubts, Current
    <3>3. QED BY <1>3, <3>1, <3>2
  <2>3. QED BY <1>1, <2>1, <2>2 DEF FinalizeStep
<1>7. paid \subseteq {first, Current}
  BY <1>3 DEF SInv, Owners, Hops, Mine, Current, Sessions
<1>8. Unbought'
  BY <1>1, <1>3, <1>6, <1>7 DEF SInv, Owners, Unbought, Current, Sessions
<1>9. Recorded'
  <2>1. \A k \in Sessions : saved'[k] \in Wallets => saved'[k] = owner[k]
    BY <1>5, <1>6 DEF SInv, Owners, Recorded
  <2>2. \A k \in kept' : buys[k] = "hop" => saved'[k] \in Wallets
    <3>1. \A k \in kept : k \in Sessions
      BY DEF SInv, IInv, TypeOK
    <3>2. \A k \in kept : buys[k] = "hop" => saved'[k] \in Wallets
      BY <1>5, <1>6, <3>1 DEF SInv, Owners, Recorded
    <3>3. QED BY <1>5, <1>6, <1>7, <3>2
  <2>3. QED BY <1>1, <2>1, <2>2 DEF Recorded
<1>10. CancelSignedByOwner'
  BY <1>1 DEF SInv, Owners, CancelSignedByOwner
<1>11. QED BY <1>4, <1>8, <1>9, <1>10 DEF Owners

(* Each hop is refunded by the account that bought it. *)
LEMMA RefundOwners == ASSUME SInv, NEW k \in Sessions, StartRefund(k) PROVE Owners'
<1>1. /\ pc = "refund" /\ k \in paid
      /\ cancelBy' = [cancelBy EXCEPT ![<<k, "refund">>] = RefundSigner(k)]
      /\ UNCHANGED <<caller, pc, bought, owner, buys, saved, kept, paid>>
  BY DEF StartRefund, RefundTargets, ladder, refunds, chain, answers, doubts
<1>2. UNCHANGED <<activeWallet, wiped, kind, payer, first, exitPayer, entryId, exitId>>
  BY <1>1 DEF caller, request, signers
<1>3. k \in Mine /\ k <= bought /\ RefundSigner(k) = owner[k]
  BY <1>1 DEF SInv, Owners, Hops, Mine, Buyers, Buyer, RefundSigner
<1>4. Unswitched' /\ Ids' /\ Hops' /\ Buyers' /\ Recorded'
  BY <1>1, <1>2, SameOwners
     DEF SInv, Owners, Unswitched, AtRest, Ids, Chosen, RightIds, Hops, Recorded
<1>5. /\ \A j \in Cancels : j # <<k, "refund">> => cancelBy'[j] = cancelBy[j]
      /\ cancelBy'[<<k, "refund">>] = owner[k]
  BY <1>1, <1>3 DEF SInv, IInv, TypeOK, Cancels, Callers
<1>6. Unbought'
  <2>1. bought \in Nat
    BY BoundsAreNat DEF SInv, IInv, TypeOK
  <2>2. ASSUME NEW i \in Sessions, i > bought, NEW c \in {"refund", "user"}
        PROVE  cancelBy'[<<i, c>>] = "none"
    <3>1. i # k /\ <<i, c>> \in Cancels
      BY <1>3, <2>1, <2>2 DEF Cancels, Callers, Sessions
    <3>2. cancelBy[<<i, c>>] = "none"
      BY <2>2 DEF SInv, Owners, Unbought
    <3>3. QED BY <1>5, <3>1, <3>2
  <2>3. QED BY <1>1, <2>2 DEF SInv, Owners, Unbought
<1>7. CancelSignedByOwner'
  BY <1>1, <1>5 DEF SInv, Owners, CancelSignedByOwner
<1>8. QED BY <1>4, <1>6, <1>7 DEF Owners

LEMMA HandlerOwners == ASSUME SInv, HandlerStep PROVE Owners'
BY PlainOwners, ChosenOwners, BoughtOwners, ConfirmedOwners, HandshakeOwners,
   DeliveredOwners, FinalizeOwners, RefundOwners
   DEF HandlerStep, CheckStep, ConfirmStep, HandshakeStep, RefundStep

----------------------------------------------------------------------------
(* The user, the calls to endSession and the chain. *)

(* The End button finds the account in the file, or in the active wallet. *)
LEMMA UserOwners == ASSUME SInv, NEW k \in Sessions, UserEnds(k) PROVE Owners'
<1>1. /\ session[k] = "active"
      /\ cancelBy' = [cancelBy EXCEPT ![<<k, "user">>] = EndSigner(k)]
      /\ UNCHANGED <<caller, pc, bought, owner, buys, saved, kept, paid>>
  BY DEF UserEnds, ladder, refunds, chain, answers, doubts
<1>2. UNCHANGED <<activeWallet, wiped, kind, payer, first, exitPayer, entryId, exitId>>
  BY <1>1 DEF caller, request, signers
<1>3. EndSigner(k) = owner[k]
  BY DEF UserEnds, EndSigner, Visible, SInv, Owners, Recorded
<1>4. Unswitched' /\ Ids' /\ Hops' /\ Buyers' /\ Recorded'
  BY <1>1, <1>2, SameOwners
     DEF SInv, Owners, Unswitched, AtRest, Ids, Chosen, RightIds, Hops, Recorded
<1>5. /\ \A j \in Cancels : j # <<k, "user">> => cancelBy'[j] = cancelBy[j]
      /\ cancelBy'[<<k, "user">>] = owner[k]
  BY <1>1, <1>3 DEF SInv, IInv, TypeOK, Cancels, Callers
<1>6. Unbought'
  <2>1. ASSUME NEW i \in Sessions, i > bought, NEW c \in {"refund", "user"}
        PROVE  cancelBy'[<<i, c>>] = "none"
    <3>1. i # k /\ <<i, c>> \in Cancels
      BY <1>1, <2>1 DEF SInv, IInv, Fresh, Cancels, Callers
    <3>2. cancelBy[<<i, c>>] = "none"
      BY <2>1 DEF SInv, Owners, Unbought
    <3>3. QED BY <1>5, <3>1, <3>2
  <2>2. QED BY <1>1, <2>1 DEF SInv, Owners, Unbought
<1>7. CancelSignedByOwner'
  BY <1>1, <1>5 DEF SInv, Owners, CancelSignedByOwner
<1>8. QED BY <1>4, <1>6, <1>7 DEF Owners

(* Retiring a file keeps the owner it records. *)
LEMMA CancelOwners == ASSUME SInv, NEW j \in Cancels, CancelStep(j) PROVE Owners'
<1>1. UNCHANGED <<caller, pc, bought, owner, buys, kept, paid, cancelBy>>
  BY DEF CancelStep, CancelSent, CancelNotSent, CancelSucceeds, CancelRefused,
         CancelUnheard, ladder, refunds, chain, answers, doubts
<1>2. UNCHANGED <<activeWallet, wiped, kind, payer, first, exitPayer, entryId, exitId>>
  BY <1>1 DEF caller, request, signers
<1>3. \A k \in Sessions :
         \/ saved'[k] = saved[k]
         \/ saved'[k] = "none" /\ saved[k] \notin Wallets
  <2>1. CASE CancelSucceeds(j)
    <3>1. saved' = [saved EXCEPT ![j[1]] = IF saved[j[1]] \in Wallets THEN saved[j[1]]
                                          ELSE "none"]
      BY <2>1 DEF CancelSucceeds, Retire
    <3>2. DOMAIN saved = Sessions
      BY DEF SInv, IInv, TypeOK
    <3>3. QED BY <3>1, <3>2
  <2>2. CASE CancelSent(j) \/ CancelNotSent(j) \/ CancelRefused(j) \/ CancelUnheard(j)
    <3>1. saved' = saved
      BY <2>2 DEF CancelSent, CancelNotSent, CancelRefused, CancelUnheard
    <3>2. QED BY <3>1
  <2>3. QED BY <2>1, <2>2 DEF CancelStep
<1>4. Unswitched' /\ Ids' /\ Hops' /\ Buyers'
  BY <1>1, <1>2, SameOwners DEF SInv, Owners, Unswitched, AtRest, Ids, Chosen, RightIds, Hops
<1>5. Unbought'
  BY <1>1, <1>3 DEF SInv, Owners, Unbought
<1>6. Recorded'
  <2>1. kept \subseteq Sessions
    BY DEF SInv, IInv, TypeOK
  <2>2. QED BY <1>1, <1>3, <2>1, WalletsAssumption DEF SInv, Owners, Recorded
<1>7. CancelSignedByOwner'
  BY <1>1 DEF SInv, Owners, CancelSignedByOwner
<1>8. QED BY <1>4, <1>5, <1>6, <1>7 DEF Owners

LEMMA ChainOwners ==
  ASSUME SInv, \/ \E k \in Sessions : LandBuy(k) \/ DropBuy(k)
               \/ \E j \in Cancels : LandCancel(j) \/ DropCancel(j)
  PROVE  Owners'
<1>1. UNCHANGED <<caller, pc, bought, owner, buys, saved, kept, paid, cancelBy>>
  BY DEF LandBuy, DropBuy, LandCancel, DropCancel, caller, request, signers, ladder,
         refunds, chain, cancels, answers, doubts
<1>2. UNCHANGED <<activeWallet, wiped, kind, payer, first, exitPayer, entryId, exitId>>
  BY <1>1 DEF caller, request, signers
<1>3. Unswitched' /\ Ids' /\ Hops' /\ Buyers'
  BY <1>1, <1>2, SameOwners DEF SInv, Owners, Unswitched, AtRest, Ids, Chosen, RightIds, Hops
<1>4. QED BY <1>1, <1>3, SameFiles DEF Owners

(* A switch zeroes the key of the handler it interrupts. *)
LEMMA SwitchOwners == ASSUME SInv, NEW w \in Wallets, SwitchWallet(w) PROVE Owners'
<1>1. /\ wiped' = (wiped \/ ~AtRest)
      /\ UNCHANGED <<pc, kind, payer, first, exitPayer, entryId, exitId, bought, owner, buys,
                     saved, kept, paid, cancelBy>>
  BY DEF SwitchWallet, KeyWiped, request, signers, refunds, chain, cancels, answers, doubts
<1>2. Unswitched' /\ Ids'
  BY <1>1 DEF SInv, Owners, Unswitched, AtRest, Ids, Chosen, RightIds
<1>3. Hops' /\ Buyers'
  BY <1>1, SameOwners DEF SInv, Owners, Hops
<1>4. QED BY <1>1, <1>2, <1>3, SameFiles DEF Owners

LEMMA RequestOwners ==
  ASSUME SInv, \E knd \in {"single", "smart", "chain"}, asked \in Wallets \cup {"none"},
          n \in 1..MaxCandidates, sub \in BOOLEAN : Request(knd, asked, n, sub)
  PROVE  Owners'
<1>1. /\ bought \in Nat /\ first' = bought + 1 /\ paid' = {} /\ ~wiped'
      /\ pc' \in {"grade", "check"} /\ (kind' = "chain" => pc' = "grade")
      /\ payer' = activeWallet
      /\ UNCHANGED <<activeWallet, bought, owner, buys, saved, kept, cancelBy>>
  BY BoundsAreNat DEF Request, SInv, IInv, TypeOK, chain, cancels, answers, doubts
<1>2. Mine' = {}
  BY <1>1 DEF Mine, Sessions
<1>3. Unswitched' /\ Ids'
  BY <1>1 DEF Unswitched, Ids, Chosen
<1>4. Hops' /\ Buyers'
  BY <1>1, <1>2 DEF Hops, Buyers
<1>5. QED BY <1>1, <1>3, <1>4, SameFiles DEF Owners

----------------------------------------------------------------------------
LEMMA InitSInv == Init => SInv
BY InitHolds, InitOwners DEF SInv

LEMMA StepSInv == SInv /\ [Next]_vars => SInv'
<1>. SUFFICES ASSUME SInv, [Next]_vars PROVE SInv'
  OBVIOUS
<1>1. IInv'
  BY StepHolds DEF SInv
<1>2. CASE Next
  <2>1. Owners'
    BY <1>2, RequestOwners, SwitchOwners, HandlerOwners, UserOwners, CancelOwners, ChainOwners
       DEF Next
  <2>2. QED BY <1>1, <2>1 DEF SInv
<1>3. CASE UNCHANGED vars
  <2>1. UNCHANGED <<caller, pc, bought, owner, buys, saved, kept, paid, cancelBy>>
    BY <1>3 DEF vars, refunds, chain, cancels, answers, doubts
  <2>2. UNCHANGED <<activeWallet, wiped, kind, payer, first, exitPayer, entryId, exitId>>
    BY <2>1 DEF caller, request, signers
  <2>3. Unswitched' /\ Ids' /\ Hops' /\ Buyers'
    BY <2>1, <2>2, SameOwners
       DEF SInv, Owners, Unswitched, AtRest, Ids, Chosen, RightIds, Hops
  <2>4. QED BY <1>1, <2>1, <2>3, SameFiles DEF SInv, Owners
<1>4. QED BY <1>2, <1>3

(* Whatever wallet is active, and whenever it was switched, a cancel is signed
   by the account that bought the session (refundSessions, WALLET_END_SESSION). *)
THEOREM CancelsAreSigned == Spec => []CancelSignedByOwner
<1>1. SInv => CancelSignedByOwner
  BY DEF SInv, Owners
<1>2. QED BY <1>1, InitSInv, StepSInv, PTL DEF Spec

(* Both hops of a delivered chain stay listed and cancellable (finalizeChain). *)
THEOREM ChainsStayManageable == Spec => []ChainStaysManageable
<1>1. ASSUME SInv PROVE ChainStaysManageable
  BY <1>1 DEF SInv, IInv, TypeOK, Owners, Recorded, ChainStaysManageable, Visible, EndSigner
<1>2. QED BY <1>1, InitSInv, StepSInv, PTL DEF Spec
=============================================================================
