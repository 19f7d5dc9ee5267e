---------------------------- MODULE MCWalletStore ----------------------------
(* WalletStore with two phrases and two paths.                                *)
EXTENDS WalletStore

CONSTANTS s, t

=============================================================================
