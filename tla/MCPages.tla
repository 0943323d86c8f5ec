------------------------------- MODULE MCPages -------------------------------
(***************************************************************************)
(* A small instance of Pages for TLC: two owners with up to three wallets,   *)
(* two jobs, at most two actions of the user and one fault; requests of four *)
(* recipients, totals that divide and that do not, totals too small to split *)
(* at random, a range whose ends are no multiples of the last decimal.      *)
(***************************************************************************)
EXTENDS Pages

CONSTANTS a, b, j1, j2, s1

AllRanges == {<<4, 8>>, <<2, 3>>}

Fixed(count, total, hd) ==
    [count |-> count, total |-> total, fixed |-> TRUE, hd |-> hd, range |-> <<2, 3>>]
Ranged(count, limits) ==
    [count |-> count, total |-> 0, fixed |-> FALSE, hd |-> FALSE, range |-> limits]

AllForms ==
    {Fixed(9, 13, TRUE), Fixed(4, 7, TRUE), Fixed(3, 2, TRUE), Fixed(1, 5, FALSE), Fixed(3, 2, FALSE),
     Fixed(2, 5, FALSE), Fixed(3, 9, FALSE), Fixed(3, 14, FALSE), Fixed(4, 11, FALSE), Fixed(5, 12, FALSE)}
    \cup {Ranged(c, r) : c \in {1, 5}, r \in AllRanges}

AllImports == {<<[to |-> 0, amount |-> 1], [to |-> 1, amount |-> 0]>>}
=============================================================================
