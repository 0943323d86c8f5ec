------------------------------ MODULE MCClaim ------------------------------
(***************************************************************************)
(* Small instances of ClaimProtocol for TLC.                               *)
(***************************************************************************)
EXTENDS ClaimProtocol, TLC

CONSTANTS a1, a2, b1, f1, s1, s2

\* Two wallet rows and a fund transfer of signer s1, one wallet row of s2.
MixQueueOf  == (a1 :> JobWallets) @@ (a2 :> JobWallets) @@ (b1 :> JobWallets) @@ (f1 :> FundTransfers)
MixSignerOf == (a1 :> s1) @@ (a2 :> s1) @@ (b1 :> s2) @@ (f1 :> s1)

\* One row of each table, of the same signer.
CrossQueueOf  == (a1 :> JobWallets) @@ (f1 :> FundTransfers)
CrossSignerOf == (a1 :> s1) @@ (f1 :> s1)
=============================================================================
