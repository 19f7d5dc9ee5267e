----------------------------- MODULE MCPurchase -----------------------------
(* Purchase with the wallets as interchangeable model values.                *)
EXTENDS Purchase, TLC

WalletSymmetry == Permutations(Wallets)

=============================================================================
