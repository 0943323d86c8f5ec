---------------------------- MODULE MCWalletBatches ----------------------------
(***************************************************************************)
(* Small instances of WalletBatches for TLC.                               *)
(***************************************************************************)
EXTENDS WalletBatches, TLC

CONSTANTS b1, b2

\* Chunks of two: a last chunk that is not full, and one that is.
TwoTotals == (b1 :> 3) @@ (b2 :> 2)
OneTotal  == (b1 :> 3)
=============================================================================
