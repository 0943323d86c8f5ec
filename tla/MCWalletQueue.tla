---------------------------- MODULE MCWalletQueue ----------------------------
(***************************************************************************)
(* Small instances of WalletQueue for TLC.                                 *)
(***************************************************************************)
EXTENDS WalletQueue, TLC

CONSTANTS r1, r2, j1, s1, s2

\* One job, one row of each of two signers.
PairJobOf    == (r1 :> j1) @@ (r2 :> j1)
PairSignerOf == (r1 :> s1) @@ (r2 :> s2)

\* One job with two rows of the same signer.
SameJobOf    == (r1 :> j1) @@ (r2 :> j1)
SameSignerOf == (r1 :> s1) @@ (r2 :> s1)

\* One job with one row.
LoneJobOf    == (r1 :> j1)
LoneSignerOf == (r1 :> s1)

\* Workers are interchangeable: no property of a safety run names one.
WorkerSymmetry == Permutations(Workers)
=============================================================================
