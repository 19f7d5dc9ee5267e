---------------------------- MODULE PaidSessions ----------------------------
(***************************************************************************)
(* What a purchase promises, whatever steps it takes: it answers only when  *)
(* the user knows of every session in which the user's money is locked, and  *)
(* money locks afterwards only in a session the user was told about.  One     *)
(* exception, for what the program could not read itself: of each purchase   *)
(* at most one session may be lost, live and named to nobody.  Purchase.tla, *)
(* which models the handlers that buy sessions, implements this module.       *)
(***************************************************************************)
CONSTANT Sessions      \* the sessions that may ever be bought

VARIABLES
    money,   \* "unspent", "locked" in a live session, or "back"
    known,   \* the sessions the user knows of: delivered, or named by a failure
    missed,  \* the session this purchase lost sight of, if any
    lost,    \* those of every purchase
    busy     \* a purchase is being worked on

vars == <<money, known, missed, lost, busy>>

Locked == {k \in Sessions : money[k] = "locked"}

Init ==
    /\ money = [k \in Sessions |-> "unspent"]
    /\ known = {} /\ missed = {} /\ lost = {}
    /\ busy = FALSE

Begin == ~busy /\ busy' = TRUE /\ missed' = {} /\ UNCHANGED <<money, known, lost>>

Lock(k) ==
    /\ money[k] = "unspent"
    /\ busy \/ k \in known \cup lost
    /\ money' = [money EXCEPT ![k] = "locked"]
    /\ UNCHANGED <<known, missed, lost, busy>>

Return(k) ==
    /\ money[k] = "locked"
    /\ money' = [money EXCEPT ![k] = "back"]
    /\ UNCHANGED <<known, missed, lost, busy>>

Tell(K) == known' = known \cup K

Miss(k) == missed = {} /\ missed' = {k} /\ lost' = lost \cup {k}

Work ==
    /\ busy
    /\ \E K \in SUBSET Sessions : Tell(K)
    /\ UNCHANGED <<missed, lost>> \/ \E k \in Sessions : Miss(k)
    /\ busy' = FALSE => Locked \subseteq known' \cup lost'
    /\ busy' \in BOOLEAN
    /\ UNCHANGED money

Next == Begin \/ Work \/ \E k \in Sessions : Lock(k) \/ Return(k)

Spec == Init /\ [][Next]_vars

=============================================================================
