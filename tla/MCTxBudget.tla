------------------------------ MODULE MCTxBudget ------------------------------
(***************************************************************************)
(* A small instance of TxBudget for TLC.                                   *)
(***************************************************************************)
EXTENDS TxBudget, TLC

CONSTANTS l1, l2, p1

\* Two loops of one process, as with AIRDROP_EMBEDDED_QUEUE_WORKER_COUNT=2.
OneProcess == (l1 :> p1) @@ (l2 :> p1)

\* Two loops that check the global cap together exceed it.
Caps == [k \in Keys |-> IF k = Global THEN 1 ELSE 2]
=============================================================================
