----------------------------- MODULE MCWalletStore -----------------------------
(***************************************************************************)
(* A small instance of WalletStore for TLC.                                *)
(***************************************************************************)
EXTENDS WalletStore, TLC

CONSTANTS p1, p2, imported

Symmetric == Permutations({p1, p2})
=============================================================================
