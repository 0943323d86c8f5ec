------------------------------ MODULE SignerLease ------------------------------
(***************************************************************************)
(* What a claim promises, whatever statements it is made of: in one step a *)
(* worker takes pending rows, at most one per key and only of keys that    *)
(* have no row in processing.  A taken row is settled by its worker, or    *)
(* abandoned when the worker dies and reclaimed later.                     *)
(***************************************************************************)
EXTENDS Naturals

CONSTANTS Rows, Workers, None, KeyOf

VARIABLES
    status,   \* per row
    owner     \* per row: the worker that took it, or None

leaseVars == <<status, owner>>

Init ==
    /\ status = [r \in Rows |-> "pending"]
    /\ owner = [r \in Rows |-> None]

KeyFree(r) == \A q \in Rows : status[q] = "processing" => KeyOf[q] # KeyOf[r]

Take(w, S) ==
    /\ \A r \in S : status[r] = "pending" /\ KeyFree(r)
    /\ \A r, q \in S : KeyOf[r] = KeyOf[q] => r = q
    /\ status' = [r \in Rows |-> IF r \in S THEN "processing" ELSE status[r]]
    /\ owner' = [r \in Rows |-> IF r \in S THEN w ELSE owner[r]]

Settle(w, r) ==
    /\ owner[r] = w
    /\ \E outcome \in {"done", "pending"} : status' = [status EXCEPT ![r] = outcome]
    /\ owner' = [owner EXCEPT ![r] = None]

Abandon(w) ==
    /\ owner' = [r \in Rows |-> IF owner[r] = w THEN None ELSE owner[r]]
    /\ UNCHANGED status

Reclaim(r) ==
    /\ status[r] = "processing"
    /\ owner[r] = None
    /\ status' = [status EXCEPT ![r] = "pending"]
    /\ UNCHANGED owner

Next ==
    \/ \E w \in Workers : Abandon(w)
    \/ \E w \in Workers : \E S \in SUBSET Rows : Take(w, S)
    \/ \E w \in Workers, r \in Rows : Settle(w, r)
    \/ \E r \in Rows : Reclaim(r)

Spec == Init /\ [][Next]_leaseVars
=============================================================================
