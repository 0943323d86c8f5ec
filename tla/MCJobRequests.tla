---------------------------- MODULE MCJobRequests ----------------------------
(***************************************************************************)
(* A small instance of JobRequests for TLC: two jobs of two recipients, two *)
(* requests and one worker at a time, all alike.           *)
(***************************************************************************)
EXTENDS JobRequests, TLC

Symmetry ==
    {j @@ p @@ s : j \in Permutations(Jobs), p \in Permutations(Payees), s \in Permutations(Slots)}
=============================================================================
