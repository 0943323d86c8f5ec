------------------------------ MODULE ClaimProofs ------------------------------
(***************************************************************************)
(* For any rows, signers, workers, candidate limit and batch size: the     *)
(* unique index and the row locks give each claimed row to one worker and  *)
(* each signer of a table one processing row, and the claim, statement by  *)
(* statement, implements the atomic claim of SignerLease.                  *)
(***************************************************************************)
EXTENDS ClaimProtocol, TLAPS

\* A row lock or a picked row belongs to the one transaction that is open on it,
\* and a locked row is pending: nobody else can change it.
LockInv ==
    \A w \in Workers : \A r \in Rows :
        /\ rowLock[r] = w => InClaim(w) /\ status[r] = "pending"
        /\ InClaim(w) /\ r \in mine[w] => rowLock[r] = w

\* What a sending worker holds is processing, and is held by it alone.
HoldInv ==
    \A w \in Workers : \A r \in Rows :
        Holds(w, r) => status[r] = "processing" /\ \A v \in Workers : Holds(v, r) => v = w

\* An updated claim has entered its rows in the unique index.
IndexInv ==
    \A w \in Workers : pc[w] = "commit" =>
        \A r \in mine[w] :
            /\ \A q \in Rows : status[q] = "processing" => ~SameKey(r, q)
            /\ \A q \in mine[w] : SameKey(r, q) => r = q
            /\ \A v \in Workers \ {w} : pc[v] = "commit" =>
                  \A q \in mine[v] : ~SameKey(r, q)

IdleInv == \A w \in Workers : pc[w] = "idle" => mine[w] = {}

ClaimInv == TypeOK /\ LockInv /\ HoldInv /\ IndexInv /\ IdleInv /\ OneProcessingPerKey

-----------------------------------------------------------------------------
\* The state of a claim stays in the shapes of the schema.
LEMMA TypeStep == TypeOK /\ [Next]_vars => TypeOK'
<1> SUFFICES ASSUME TypeOK, [Next]_vars PROVE TypeOK'
    OBVIOUS
<1> USE ClaimAssumption DEF TypeOK, PCs, RowStatuses, Queues
<1>1. ASSUME NEW w \in Workers, NEW next \in PCs, NEW held \in SUBSET Rows, EndClaim(w, next, held)
      PROVE  /\ rowLock' \in [Rows -> Workers \cup {None}]
             /\ keyLock' \in [Signers -> Workers \cup {None}]
             /\ pc' \in [Workers -> PCs]
             /\ seen' \in [Workers -> SUBSET Rows]
             /\ tried' \in [Workers -> SUBSET Rows]
             /\ mine' \in [Workers -> SUBSET Rows]
    BY <1>1 DEF EndClaim
<1>2. ASSUME NEW w \in Workers, NextQueue(w) \/ FirstQueue(w) PROVE queue' \in [Workers -> Queues]
    BY <1>2 DEF NextQueue, FirstQueue, Other
<1>3. CASE UNCHANGED vars
    BY <1>3 DEF vars
<1>4. ASSUME NEW r \in Rows, Reset(r) PROVE TypeOK'
    BY <1>4 DEF Reset, locals
<1>5. ASSUME NEW w \in Workers, Snapshot(w) PROVE TypeOK'
    BY <1>5 DEF Snapshot, Candidate
<1>6. ASSUME NEW w \in Workers, Pick(w) PROVE TypeOK'
  <2>1. PICK S \in Picks(w) : IF S = {}
            THEN EndClaim(w, "idle", {}) /\ NextQueue(w)
            ELSE /\ mine' = [mine EXCEPT ![w] = S]
                 /\ pc' = [pc EXCEPT ![w] = "update"]
                 /\ UNCHANGED <<rowLock, keyLock, queue, seen, tried>>
    BY <1>6 DEF Pick
  <2>2. S \in SUBSET Rows
    BY DEF Picks
  <2>3. UNCHANGED <<status, faults>>
    BY <1>6 DEF Pick
  <2>4. CASE S = {}
    BY <1>1, <1>2, <2>1, <2>3, <2>4
  <2>5. CASE S # {}
    BY <2>1, <2>2, <2>3, <2>5
  <2> QED BY <2>4, <2>5
<1>7. ASSUME NEW w \in Workers, Update(w) PROVE TypeOK'
  <2>1. UNCHANGED <<status, faults>>
    BY <1>7 DEF Update
  <2>2. CASE Refused(w)
    BY <1>1, <1>2, <2>1, <2>2 DEF Refused
  <2>3. CASE Updated(w)
    BY <2>1, <2>3 DEF Updated
  <2> QED BY <1>7, <2>2, <2>3 DEF Update
<1>8. ASSUME NEW w \in Workers, Commit(w) PROVE TypeOK'
  <2>1. mine[w] \in SUBSET Rows
    OBVIOUS
  <2> QED BY <1>1, <1>8, <2>1 DEF Commit
<1>9. ASSUME NEW w \in Workers, EndBatch(w) PROVE TypeOK'
    BY <1>2, <1>9 DEF EndBatch
<1>10. ASSUME NEW w \in Workers, NEW r \in Rows, Visit(w, r) PROVE TypeOK'
    BY <1>10 DEF Visit, Lockable
<1>11. ASSUME NEW w \in Workers, NEW r \in Rows, TryKey(w, r) PROVE TypeOK'
    BY <1>11 DEF TryKey, Locked
<1>12. ASSUME NEW w \in Workers, NEW r \in Rows, Succeed(w, r) PROVE TypeOK'
    BY <1>12 DEF Succeed
<1>13. ASSUME NEW w \in Workers, NEW r \in Rows, Fail(w, r) PROVE TypeOK'
    BY <1>13 DEF Fail, Fault
<1>14. ASSUME NEW w \in Workers, Rollback(w) PROVE TypeOK'
    BY <1>1, <1>2, <1>14 DEF Rollback, Fault
<1>15. ASSUME NEW w \in Workers, Crash(w) PROVE TypeOK'
    BY <1>2, <1>15 DEF Crash, Fault
<1> QED
    BY <1>3, <1>4, <1>5, <1>6, <1>7, <1>8, <1>9, <1>10, <1>11, <1>12, <1>13, <1>14, <1>15
    DEF Next, ClaimStep, FaultStep

-----------------------------------------------------------------------------
\* The steps that leave what the invariant speaks of alone, or only end a claim.

\* What the end of a claim without a commit does to the invariant's variables.
LEMMA Ended ==
    ASSUME ClaimInv, TypeOK', NEW w \in Workers, InClaim(w),
           EndClaim(w, "idle", {}), UNCHANGED status
    PROVE  ClaimInv'
<1> USE DEF ClaimInv, TypeOK, EndClaim, InClaim, Holds
<1>1. None \notin Workers
    BY ClaimAssumption
<1>2. LockInv'
    BY <1>1 DEF LockInv
<1>3. HoldInv'
    BY DEF HoldInv
<1>4. IndexInv'
    BY DEF IndexInv, SameKey
<1>5. IdleInv'
    BY DEF IdleInv
<1>6. OneProcessingPerKey'
    BY DEF OneProcessingPerKey, SameKey
<1> QED BY <1>2, <1>3, <1>4, <1>5, <1>6

LEMMA SnapshotStep ==
    ASSUME ClaimInv, TypeOK', NEW w \in Workers, Snapshot(w) PROVE ClaimInv'
<1> USE DEF ClaimInv, TypeOK, Snapshot, InClaim, Holds
<1>1. LockInv'
    BY DEF LockInv, IdleInv
<1>2. HoldInv'
    BY DEF HoldInv
<1>3. IndexInv'
    BY DEF IndexInv, SameKey
<1>4. IdleInv'
    BY DEF IdleInv
<1>5. OneProcessingPerKey'
    BY DEF OneProcessingPerKey, SameKey
<1> QED BY <1>1, <1>2, <1>3, <1>4, <1>5

LEMMA VisitStep ==
    ASSUME ClaimInv, TypeOK', NEW w \in Workers, NEW r \in Rows, Visit(w, r) PROVE ClaimInv'
<1> USE DEF ClaimInv, TypeOK, Visit, Scanning, InClaim, Holds
<1>1. None \notin Workers
    BY ClaimAssumption
<1>2. LockInv'
    BY <1>1 DEF LockInv, Lockable
<1>3. HoldInv'
    BY DEF HoldInv
<1>4. IndexInv'
    BY DEF IndexInv, SameKey
<1>5. IdleInv'
    BY DEF IdleInv
<1>6. OneProcessingPerKey'
    BY DEF OneProcessingPerKey, SameKey
<1> QED BY <1>2, <1>3, <1>4, <1>5, <1>6

LEMMA TryKeyStep ==
    ASSUME ClaimInv, TypeOK', NEW w \in Workers, NEW r \in Rows, TryKey(w, r) PROVE ClaimInv'
<1> USE DEF ClaimInv, TypeOK, TryKey, Locked, InClaim, Holds
<1>1. /\ rowLock[r] = w
      /\ mine' \in [Workers -> SUBSET Rows]
      /\ \A v \in Workers : \A q \in mine'[v] : (q \in mine[v] \/ (v = w /\ q = r))
      /\ \A v \in Workers \ {w} : mine'[v] = mine[v]
    OBVIOUS
<1>2. LockInv'
    BY <1>1 DEF LockInv
<1>3. HoldInv'
    BY <1>1 DEF HoldInv
<1>4. IndexInv'
    BY <1>1 DEF IndexInv, SameKey
<1>5. IdleInv'
    BY <1>1 DEF IdleInv
<1>6. OneProcessingPerKey'
    BY DEF OneProcessingPerKey, SameKey
<1> QED BY <1>2, <1>3, <1>4, <1>5, <1>6

LEMMA PickStep ==
    ASSUME ClaimInv, TypeOK', NEW w \in Workers, Pick(w) PROVE ClaimInv'
<1>1. PICK S \in Picks(w) :
        IF S = {}
        THEN EndClaim(w, "idle", {}) /\ NextQueue(w)
        ELSE /\ mine' = [mine EXCEPT ![w] = S]
             /\ pc' = [pc EXCEPT ![w] = "update"]
             /\ UNCHANGED <<rowLock, keyLock, queue, seen, tried>>
    BY DEF Pick
<1>2. InClaim(w) /\ UNCHANGED status /\ S \subseteq mine[w]
    BY DEF Pick, InClaim, Picks
<1>3. CASE S = {}
    BY Ended, <1>1, <1>2, <1>3
<1>4. CASE S # {}
  <2>1. /\ mine' = [mine EXCEPT ![w] = S]
        /\ pc' = [pc EXCEPT ![w] = "update"]
        /\ UNCHANGED <<status, rowLock>>
    BY <1>1, <1>2, <1>4
  <2> USE <1>2, <2>1 DEF ClaimInv, TypeOK, InClaim, Holds
  <2>2. LockInv'
    BY DEF LockInv
  <2>3. HoldInv'
    BY DEF HoldInv
  <2>4. IndexInv'
    BY DEF IndexInv, SameKey
  <2>5. IdleInv'
    BY DEF IdleInv
  <2>6. OneProcessingPerKey'
    BY DEF OneProcessingPerKey, SameKey
  <2> QED BY <2>2, <2>3, <2>4, <2>5, <2>6
<1> QED BY <1>3, <1>4

\* An accepted update meets no processing row of its keys and waits for the
\* other updates of them: this is where the unique index works.
LEMMA UpdateStep ==
    ASSUME ClaimInv, TypeOK', NEW w \in Workers, Update(w) PROVE ClaimInv'
<1>1. pc[w] = "update" /\ InClaim(w) /\ UNCHANGED status
    BY DEF Update, InClaim
<1>2. CASE Duplicate(w)
    BY Ended, <1>1, <1>2 DEF Update, Refused
<1>3. CASE ~Duplicate(w)
  <2>1. Updated(w)
    BY <1>3 DEF Update
  <2> USE <1>1, <2>1 DEF ClaimInv, TypeOK, InClaim, Holds, Updated
  <2>2. LockInv'
    BY DEF LockInv
  <2>3. HoldInv'
    BY DEF HoldInv
  <2>4. ASSUME NEW r \in mine[w], NEW q \in Rows, SameKey(r, q) PROVE status[q] # "processing"
    <3>1. status[r] = "pending"
      BY DEF LockInv
    <3>2. CASE q = r
      BY <3>1, <3>2
    <3>3. CASE q # r
      BY <1>3, <2>4, <3>3 DEF Duplicate
    <3> QED BY <3>2, <3>3
  <2>5. ASSUME NEW r \in mine[w], NEW q \in mine[w], SameKey(r, q) PROVE r = q
    BY <1>3, <2>5 DEF Duplicate
  <2>6. ASSUME NEW v \in Workers \ {w}, pc[v] = "commit", NEW r \in mine[w], NEW q \in mine[v]
        PROVE  ~SameKey(r, q) /\ ~SameKey(q, r)
    BY <2>6 DEF Update, MustWait, SameKey
  <2>7. IndexInv'
    BY <2>4, <2>5, <2>6 DEF IndexInv, SameKey
  <2>8. IdleInv'
    BY DEF IdleInv
  <2>9. OneProcessingPerKey'
    BY DEF OneProcessingPerKey, SameKey
  <2> QED BY <2>2, <2>3, <2>7, <2>8, <2>9
<1> QED BY <1>2, <1>3

\* What a commit makes visible.
LEMMA CommitStep ==
    ASSUME ClaimInv, TypeOK', NEW w \in Workers, Commit(w) PROVE ClaimInv'
<1> USE DEF ClaimInv, TypeOK, InClaim, Holds
<1>1. /\ pc[w] = "commit"
      /\ pc' = [pc EXCEPT ![w] = "sending"]
      /\ mine' = [mine EXCEPT ![w] = mine[w]]
      /\ mine' = mine
      /\ \A r \in Rows : status'[r] = IF r \in mine[w] THEN "processing" ELSE status[r]
      /\ \A r \in Rows : rowLock'[r] = IF rowLock[r] = w THEN None ELSE rowLock[r]
    BY DEF Commit, EndClaim
<1>2. None \notin Workers
    BY ClaimAssumption
<1>3. \A r \in mine[w] : rowLock[r] = w /\ status[r] = "pending"
    BY <1>1 DEF LockInv
<1>4. LockInv'
    BY <1>1, <1>2, <1>3 DEF LockInv
<1>5. HoldInv'
    BY <1>1, <1>3 DEF HoldInv
<1>6. IndexInv'
    BY <1>1 DEF IndexInv, SameKey
<1>7. IdleInv'
    BY <1>1 DEF IdleInv
<1>8. OneProcessingPerKey'
    BY <1>1 DEF OneProcessingPerKey, IndexInv, SameKey
<1> QED BY <1>4, <1>5, <1>6, <1>7, <1>8

\* A held row is settled by the worker that holds it.
LEMMA SettleStep ==
    ASSUME ClaimInv, TypeOK', NEW w \in Workers, NEW r \in Rows, Succeed(w, r) \/ Fail(w, r)
    PROVE  ClaimInv'
<1> USE DEF ClaimInv, TypeOK, InClaim, Holds
<1>1. /\ Holds(w, r)
      /\ status'[r] \in {"done", "pending"}
      /\ \A q \in Rows \ {r} : status'[q] = status[q]
      /\ \A v \in Workers \ {w} : mine'[v] = mine[v]
      /\ mine'[w] = mine[w] \ {r}
      /\ UNCHANGED <<rowLock, pc>>
    BY DEF Succeed, Fail
<1>2. LockInv'
    BY SMTT(40), <1>1 DEF LockInv, HoldInv
<1>3. HoldInv'
    BY SMTT(40), <1>1 DEF HoldInv
<1>4. IndexInv'
    BY <1>1 DEF IndexInv, SameKey
<1>5. IdleInv'
    BY <1>1 DEF IdleInv
<1>6. OneProcessingPerKey'
    BY <1>1 DEF OneProcessingPerKey, SameKey
<1> QED BY <1>2, <1>3, <1>4, <1>5, <1>6

LEMMA IdleStep ==
    ASSUME ClaimInv, TypeOK', NEW w \in Workers, EndBatch(w) \/ Crash(w) PROVE ClaimInv'
<1> USE DEF ClaimInv, TypeOK, InClaim, Holds
<1>1. /\ pc[w] = "sending"
      /\ pc' = [pc EXCEPT ![w] = "idle"]
      /\ mine'[w] = {}
      /\ \A v \in Workers \ {w} : mine'[v] = mine[v]
      /\ UNCHANGED <<rowLock, status>>
    BY DEF EndBatch, Crash
<1>2. LockInv'
    BY <1>1 DEF LockInv
<1>3. HoldInv'
    BY <1>1 DEF HoldInv
<1>4. IndexInv'
    BY <1>1 DEF IndexInv, SameKey
<1>5. IdleInv'
    BY <1>1 DEF IdleInv
<1>6. OneProcessingPerKey'
    BY <1>1 DEF OneProcessingPerKey, SameKey
<1> QED BY <1>2, <1>3, <1>4, <1>5, <1>6

LEMMA ResetStep ==
    ASSUME ClaimInv, TypeOK', NEW r \in Rows, Reset(r) PROVE ClaimInv'
<1> USE DEF ClaimInv, TypeOK, InClaim, Holds
<1>1. /\ \A w \in Workers : ~Holds(w, r)
      /\ status[r] = "processing" /\ status'[r] = "pending"
      /\ \A q \in Rows \ {r} : status'[q] = status[q]
      /\ UNCHANGED <<rowLock, pc, mine>>
    BY DEF Reset, locals
<1>2. LockInv'
    BY <1>1 DEF LockInv
<1>3. HoldInv'
    BY <1>1 DEF HoldInv
<1>4. IndexInv'
    BY <1>1 DEF IndexInv, SameKey
<1>5. IdleInv'
    BY <1>1 DEF IdleInv
<1>6. OneProcessingPerKey'
    BY <1>1 DEF OneProcessingPerKey, SameKey
<1> QED BY <1>2, <1>3, <1>4, <1>5, <1>6

LEMMA InvInit == Init => ClaimInv
<1> SUFFICES ASSUME Init PROVE ClaimInv
    OBVIOUS
<1> USE ClaimAssumption DEF Init
<1>1. TypeOK
    BY DEF TypeOK, RowStatuses, PCs, Queues
<1>2. LockInv /\ HoldInv
    BY DEF LockInv, HoldInv, InClaim, Holds
<1>3. IndexInv /\ IdleInv /\ OneProcessingPerKey
    BY DEF IndexInv, IdleInv, OneProcessingPerKey
<1> QED BY <1>1, <1>2, <1>3 DEF ClaimInv

LEMMA InvStep == ClaimInv /\ [Next]_vars => ClaimInv'
<1> SUFFICES ASSUME ClaimInv, [Next]_vars PROVE ClaimInv'
    OBVIOUS
<1>1. TypeOK'
    BY TypeStep DEF ClaimInv
<1>2. CASE UNCHANGED vars
    BY <1>2 DEF vars, ClaimInv, TypeOK, LockInv, HoldInv, IndexInv, IdleInv,
                OneProcessingPerKey, InClaim, Holds, SameKey
<1>3. ASSUME NEW w \in Workers, Rollback(w) PROVE ClaimInv'
    BY <1>1, <1>3, Ended DEF Rollback
<1> QED
    BY <1>1, <1>2, <1>3, SnapshotStep, VisitStep, TryKeyStep, PickStep, UpdateStep, CommitStep,
       SettleStep, IdleStep, ResetStep DEF Next, ClaimStep, FaultStep

\* Every variable keeps the shape the tables and the worker loop give it.
THEOREM ClaimTypeCorrect == Spec => []TypeOK
<1>1. ClaimInv => TypeOK
    BY DEF ClaimInv
<1> QED BY <1>1, InvInit, InvStep, PTL DEF Spec

\* The snapshot, the SKIP LOCKED re-read, the advisory key and the unique
\* index together leave one processing row per signer in each table,
\* whatever the limits and however many workers claim.
THEOREM OneProcessingAlways == Spec => []OneProcessingPerKey
<1>1. ClaimInv => OneProcessingPerKey
    BY DEF ClaimInv
<1> QED BY <1>1, InvInit, InvStep, PTL DEF Spec

\* A row is never in the hands of two workers.
THEOREM RowHeldOnceAlways == Spec => []RowHeldOnce
<1>1. ClaimInv => RowHeldOnce
    BY DEF ClaimInv, HoldInv, RowHeldOnce
<1> QED BY <1>1, InvInit, InvStep, PTL DEF Spec

-----------------------------------------------------------------------------
\* The refinement: a commit is the atomic claim, what precedes it stutters.

LEMMA OwnerIs ==
    ASSUME ClaimInv, NEW r \in Rows
    PROVE  /\ \A w \in Workers : Holds(w, r) <=> owner[r] = w
           /\ owner[r] = None <=> \A w \in Workers : ~Holds(w, r)
<1>1. None \notin Workers
    BY ClaimAssumption
<1>2. owner[r] = IF \E w \in Workers : Holds(w, r)
                 THEN CHOOSE w \in Workers : Holds(w, r) ELSE None
    BY DEF owner
<1>3. \A w, v \in Workers : Holds(w, r) /\ Holds(v, r) => w = v
    BY DEF ClaimInv, HoldInv
<1>4. CASE \E w \in Workers : Holds(w, r)
  <2>1. PICK w \in Workers : Holds(w, r)
    BY <1>4
  <2>2. owner[r] \in Workers /\ Holds(owner[r], r)
    BY <1>2, <1>4
  <2> QED BY <1>1, <1>3, <2>1, <2>2
<1>5. CASE ~\E w \in Workers : Holds(w, r)
    BY <1>1, <1>2, <1>5
<1> QED BY <1>4, <1>5

\* The owners of the next state, from who holds what there.
LEMMA OwnerNext ==
    ASSUME ClaimInv, ClaimInv', NEW r \in Rows
    PROVE  /\ \A w \in Workers : Holds(w, r)' => owner'[r] = w
           /\ (\A w \in Workers : ~Holds(w, r)') => owner'[r] = None
           /\ (\A w \in Workers : Holds(w, r)' <=> Holds(w, r)) => owner'[r] = owner[r]
<1>1. /\ \A w \in Workers : Holds(w, r)' => owner'[r] = w
      /\ (\A w \in Workers : ~Holds(w, r)') => owner'[r] = None
  <2>1. owner'[r] = IF \E w \in Workers : Holds(w, r)'
                    THEN CHOOSE w \in Workers : Holds(w, r)' ELSE None
    BY DEF owner
  <2>2. \A w, v \in Workers : Holds(w, r)' /\ Holds(v, r)' => w = v
    BY DEF ClaimInv, HoldInv
  <2> QED BY <2>1, <2>2
<1>2. /\ \A w \in Workers : Holds(w, r) <=> owner[r] = w
      /\ owner[r] = None <=> \A w \in Workers : ~Holds(w, r)
    BY OwnerIs
<1> QED BY <1>1, <1>2

LEMMA OwnerShape == owner = [r \in Rows |-> owner[r]] /\ owner' = [r \in Rows |-> owner'[r]]
BY DEF owner

Keys == [r \in Rows |-> <<QueueOf[r], SignerOf[r]>>]

LEMMA LeaseInit == Init => Lease!Init
<1> SUFFICES ASSUME Init PROVE Lease!Init
    OBVIOUS
<1>1. \A w \in Workers : \A r \in Rows : ~Holds(w, r)
    BY DEF Init, Holds
<1>2. owner = [r \in Rows |-> None]
    BY <1>1 DEF owner
<1> QED BY <1>2 DEF Init, Lease!Init

LEMMA LeaseStep == ClaimInv /\ ClaimInv' /\ [Next]_vars => [Lease!Next]_Lease!leaseVars
<1> SUFFICES ASSUME ClaimInv, ClaimInv', [Next]_vars PROVE [Lease!Next]_Lease!leaseVars
    OBVIOUS
<1> USE DEF Lease!leaseVars
<1>1. ASSUME UNCHANGED status, \A w \in Workers : \A r \in Rows : Holds(w, r)' <=> Holds(w, r)
      PROVE  UNCHANGED Lease!leaseVars
    BY <1>1, OwnerNext, OwnerShape
<1>2. CASE UNCHANGED vars
    BY <1>1, <1>2 DEF vars, Holds
<1>3. ASSUME NEW w \in Workers, pc[w] # "sending", pc'[w] # "sending", UNCHANGED status,
             \A v \in Workers \ {w} : pc'[v] = pc[v] /\ mine'[v] = mine[v]
      PROVE  UNCHANGED Lease!leaseVars
    BY <1>1, <1>3 DEF Holds
<1> USE DEF ClaimInv, TypeOK, PCs
<1>4. ASSUME NEW w \in Workers, NEW r \in Rows,
             Visit(w, r) \/ TryKey(w, r)
      PROVE  UNCHANGED Lease!leaseVars
    BY <1>3, <1>4 DEF Visit, Scanning, TryKey
<1>5. ASSUME NEW w \in Workers, Snapshot(w) \/ Rollback(w) PROVE UNCHANGED Lease!leaseVars
    BY <1>3, <1>5 DEF Snapshot, Rollback, InClaim, EndClaim
<1>6. ASSUME NEW w \in Workers, Pick(w) PROVE UNCHANGED Lease!leaseVars
    BY <1>3, <1>6 DEF Pick, EndClaim
<1>7. ASSUME NEW w \in Workers, Update(w) PROVE UNCHANGED Lease!leaseVars
    BY <1>3, <1>7 DEF Update, Refused, Updated, EndClaim
<1>8. ASSUME NEW w \in Workers, EndBatch(w) PROVE UNCHANGED Lease!leaseVars
    BY <1>1, <1>8 DEF EndBatch, Holds
<1>9. ASSUME NEW w \in Workers, Commit(w) PROVE Lease!Next
  <2>1. /\ pc[w] = "commit"
        /\ pc' = [pc EXCEPT ![w] = "sending"]
        /\ mine' = mine
        /\ status' = [r \in Rows |-> IF r \in mine[w] THEN "processing" ELSE status[r]]
    BY <1>9 DEF Commit, EndClaim
  <2>2. \A r \in mine[w] : status[r] = "pending" /\ Lease!KeyFree(r)
    <3>1. \A r \in mine[w] : status[r] = "pending"
      BY <2>1 DEF LockInv, InClaim
    <3>2. \A r \in mine[w], q \in Rows : status[q] = "processing" => ~SameKey(r, q)
      BY <2>1 DEF IndexInv
    <3> QED BY <3>1, <3>2 DEF Lease!KeyFree, SameKey
  <2>3. \A r, q \in mine[w] : Keys[r] = Keys[q] => r = q
    BY <2>1 DEF IndexInv, SameKey, Keys
  <2>4. \A r \in Rows : owner'[r] = IF r \in mine[w] THEN w ELSE owner[r]
    BY <2>1, OwnerNext DEF Holds
  <2>5. owner' = [r \in Rows |-> IF r \in mine[w] THEN w ELSE owner[r]]
    BY <2>4, OwnerShape
  <2>6. Lease!Take(w, mine[w])
    BY <2>1, <2>2, <2>3, <2>5 DEF Lease!Take, Keys
  <2> QED BY <2>6 DEF Lease!Next
<1>10. ASSUME NEW w \in Workers, NEW r \in Rows, Succeed(w, r) \/ Fail(w, r) PROVE Lease!Next
  <2>1. /\ Holds(w, r) /\ ~Holds(w, r)'
        /\ \E outcome \in {"done", "pending"} : status' = [status EXCEPT ![r] = outcome]
        /\ \A q \in Rows \ {r} : \A v \in Workers : Holds(v, q)' <=> Holds(v, q)
        /\ \A v \in Workers \ {w} : Holds(v, r)' <=> Holds(v, r)
    BY <1>10 DEF Succeed, Fail, Holds
  <2>2. owner[r] = w
    BY <2>1, OwnerIs
  <2>3. \A v \in Workers : ~Holds(v, r)'
    BY <2>1 DEF HoldInv
  <2>4. \A q \in Rows : owner'[q] = IF q = r THEN None ELSE owner[q]
    BY <2>1, <2>3, OwnerNext
  <2>5. owner' = [owner EXCEPT ![r] = None]
    BY <2>4, OwnerShape
  <2>6. Lease!Settle(w, r)
    BY <2>1, <2>2, <2>5 DEF Lease!Settle
  <2> QED BY <2>6 DEF Lease!Next
<1>11. ASSUME NEW w \in Workers, Crash(w) PROVE Lease!Next
  <2>1. /\ UNCHANGED status
        /\ \A r \in Rows : ~Holds(w, r)'
        /\ \A r \in Rows : \A v \in Workers \ {w} : Holds(v, r)' <=> Holds(v, r)
    BY <1>11 DEF Crash, Holds
  <2>2. \A r \in Rows : owner'[r] = IF owner[r] = w THEN None ELSE owner[r]
    <3> SUFFICES ASSUME NEW r \in Rows
                 PROVE  owner'[r] = IF owner[r] = w THEN None ELSE owner[r]
      OBVIOUS
    <3>1. CASE owner[r] = w
      <4>1. \A v \in Workers : ~Holds(v, r)'
        BY <2>1, <3>1, OwnerIs DEF HoldInv
      <4> QED BY <3>1, <4>1, OwnerNext
    <3>2. CASE owner[r] # w
      <4>1. \A v \in Workers : Holds(v, r)' <=> Holds(v, r)
        BY <2>1, <3>2, OwnerIs
      <4> QED BY <3>2, <4>1, OwnerNext
    <3> QED BY <3>1, <3>2
  <2>3. owner' = [r \in Rows |-> IF owner[r] = w THEN None ELSE owner[r]]
    BY <2>2, OwnerShape
  <2>4. Lease!Abandon(w)
    BY <2>1, <2>3 DEF Lease!Abandon
  <2> QED BY <2>4 DEF Lease!Next
<1>12. ASSUME NEW r \in Rows, Reset(r) PROVE Lease!Next
  <2>1. /\ status[r] = "processing" /\ status' = [status EXCEPT ![r] = "pending"]
        /\ \A w \in Workers : ~Holds(w, r)
        /\ \A w \in Workers : \A q \in Rows : Holds(w, q)' <=> Holds(w, q)
    BY <1>12 DEF Reset, Holds, locals
  <2>2. owner[r] = None
    BY <2>1, OwnerIs
  <2>3. \A q \in Rows : owner'[q] = owner[q]
    BY <2>1, OwnerNext
  <2>4. owner' = owner
    BY <2>3, OwnerShape
  <2>5. Lease!Reclaim(r)
    BY <2>1, <2>2, <2>4 DEF Lease!Reclaim
  <2> QED BY <2>5 DEF Lease!Next
<1>13. ASSUME NEW w \in Workers, ClaimStep(w) PROVE [Lease!Next]_Lease!leaseVars
    BY <1>4, <1>5, <1>6, <1>7, <1>8, <1>9, <1>10, <1>13, Zenon DEF ClaimStep
<1>14. ASSUME NEW w \in Workers, FaultStep(w) PROVE [Lease!Next]_Lease!leaseVars
    BY <1>5, <1>10, <1>11, <1>14, Zenon DEF FaultStep
<1> QED BY <1>2, <1>12, <1>13, <1>14, Zenon DEF Next

\* The claim transaction and the worker loop around it implement the atomic
\* claim: no interleaving of their statements shows what one step could not.
THEOREM ClaimRefinesLease == Spec => ImplementsLease
BY InvInit, InvStep, LeaseInit, LeaseStep, PTL DEF Spec, ImplementsLease, Lease!Spec
=============================================================================
