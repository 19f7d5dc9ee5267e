------------------------ MODULE MCProviderConsole ------------------------
(* One node, two prices, a policy that always renews and one that renews     *)
(* at the same price or less; the wallet is no provider yet, or an active    *)
(* one with a lease, or without.                                             *)
EXTENDS ProviderConsole

MCPrices == {1, 2}
MCOffered == {2, 7}
Opening(status, lease) == [status |-> status, lease |-> [node \in Nodes |-> lease]]
MCOpenings ==
    {Opening("none", Nothing), Opening("active", Nothing),
     Opening("active", [id |-> 0, price |-> 1, policy |-> 7, by |-> 0])}
=============================================================================
