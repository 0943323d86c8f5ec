----------------------------- MODULE WalletBatches -----------------------------
(***************************************************************************)
(* Generation of wallet batches: poll loops, embedded or standalone, claim *)
(* a batch, take its advisory lock, read it again and insert its addresses *)
(* chunk by chunk; the owner may ask to resume an interrupted batch.       *)
(* Loops die and are started again; database calls fail.                   *)
(***************************************************************************)
EXTENDS Naturals

CONSTANTS
    Batches,     \* rows of generated_wallet_batches
    Total,       \* per batch: total_wallets
    Chunk,       \* walletGenerationInsertChunk()
    Loops,       \* poll loops
    Owners,      \* sessions that may call the resume route
    None,
    MaxFailures, \* bound: failed database calls and deaths of a loop
    MaxResumes   \* bound: accepted calls of the resume route

ASSUME BatchAssumption ==
    /\ Total \in [Batches -> Nat \ {0}]
    /\ Chunk \in Nat \ {0}
    /\ None \notin Batches \cup Loops
    /\ MaxFailures \in Nat
    /\ MaxResumes \in Nat

VARIABLES
    status,    \* per batch: status of its row, "none" before it is created
    inserted,  \* per batch: inserted_wallets
    wallets,   \* per batch: wallet_index of its rows of generated_wallets
    lock,      \* per batch: the loop whose session holds the advisory lock
    pc,        \* per loop
    batch,     \* per loop: the batch it claimed
    next,      \* per loop: nextIndex
    asked,     \* per owner: the batch it found resumable, or None
    failures,
    resumes

loop == <<pc, batch, next>>
batchVars == <<status, inserted, wallets, lock, pc, batch, next, asked, failures, resumes>>

Statuses == {"none", "pending", "running", "completed", "failed"}
PCs == {"idle", "lock", "fresh", "chunk", "txn", "failing", "unlock", "down"}

BatchInit ==
    /\ status   = [b \in Batches |-> "none"]
    /\ inserted = [b \in Batches |-> 0]
    /\ wallets  = [b \in Batches |-> {}]
    /\ lock     = [b \in Batches |-> None]
    /\ pc       = [p \in Loops |-> "idle"]
    /\ batch    = [p \in Loops |-> None]
    /\ next     = [p \in Loops |-> 1]
    /\ asked    = [o \in Owners |-> None]
    /\ failures = 0
    /\ resumes  = 0

BatchFault == failures < MaxFailures /\ failures' = failures + 1

\* The row of a batch is locked by the chunk transaction of a loop.
InTransaction(b) == \E p \in Loops : pc[p] = "txn" /\ batch[p] = b

Create(b) ==
    /\ status[b] = "none"
    /\ status' = [status EXCEPT ![b] = "pending"]
    /\ UNCHANGED <<inserted, wallets, lock, loop, asked, failures, resumes>>

Interrupted(b) == status[b] = "running" /\ inserted[b] < Total[b]

\* Mutant of Claimable: only batches that never started are generated.
ClaimablePending(b) == ~InTransaction(b) /\ status[b] = "pending"

\* SKIP LOCKED passes over a batch whose row is locked.
Claimable(b) == ~InTransaction(b) /\ (status[b] = "pending" \/ Interrupted(b))

\* Interrupted batches come first; by age among them.  The returned row has the
\* progress of that moment.
Claim(p) ==
    /\ pc[p] = "idle"
    /\ \E b \in Batches :
        /\ Claimable(b)
        /\ (\E c \in Batches : Claimable(c) /\ Interrupted(c)) => Interrupted(b)
        /\ status' = [status EXCEPT ![b] = "running"]
        /\ batch' = [batch EXCEPT ![p] = b]
        /\ next' = [next EXCEPT ![p] = inserted[b] + 1]
    /\ pc' = [pc EXCEPT ![p] = "lock"]
    /\ UNCHANGED <<inserted, wallets, lock, asked, failures, resumes>>

\* pg_advisory_lock waits.
Lock(p) ==
    /\ pc[p] = "lock"
    /\ lock[batch[p]] = None
    /\ lock' = [lock EXCEPT ![batch[p]] = p]
    /\ pc' = [pc EXCEPT ![p] = "fresh"]
    /\ UNCHANGED <<status, inserted, wallets, batch, next, asked, failures, resumes>>

\* Mutant of FirstIndex: the index follows from the row the claim returned.
FirstClaimed(p) == next[p]

\* The first index to generate, from the row read under the lock.
FirstIndex(p) == inserted[batch[p]] + 1

ReadAgain(p) ==
    /\ pc[p] = "fresh"
    /\ IF status[batch[p]] = "completed" \/ inserted[batch[p]] >= Total[batch[p]]
       THEN pc' = [pc EXCEPT ![p] = "unlock"] /\ UNCHANGED next
       ELSE pc' = [pc EXCEPT ![p] = "chunk"] /\ next' = [next EXCEPT ![p] = FirstIndex(p)]
    /\ UNCHANGED <<status, inserted, wallets, lock, batch, asked, failures, resumes>>

\* Mutant of Finished: the last index is left out.
FinishedEarly(p) == next[p] >= Total[batch[p]]

Finished(p) == next[p] > Total[batch[p]]

\* The index after the next chunk.
After(p) == IF next[p] + Chunk > Total[batch[p]] THEN Total[batch[p]] + 1 ELSE next[p] + Chunk

ChunkIndexes(p) == next[p] .. (After(p) - 1)

\* The INSERT of a chunk, refused by the unique constraint if an index is taken.
InsertChunk(p) ==
    /\ pc[p] = "chunk"
    /\ ~Finished(p)
    /\ ~InTransaction(batch[p])
    /\ pc' = [pc EXCEPT ![p] = IF ChunkIndexes(p) \cap wallets[batch[p]] = {} THEN "txn" ELSE "failing"]
    /\ UNCHANGED <<status, inserted, wallets, lock, batch, next, asked, failures, resumes>>

\* What the commit of a chunk stores: its rows and the counter.
Stored(p) ==
    /\ wallets' = [wallets EXCEPT ![batch[p]] = @ \cup ChunkIndexes(p)]
    /\ inserted' = [inserted EXCEPT ![batch[p]] = @ + (After(p) - next[p])]

CommitChunk(p) ==
    /\ pc[p] = "txn"
    /\ Stored(p)
    /\ next' = [next EXCEPT ![p] = After(p)]
    /\ pc' = [pc EXCEPT ![p] = "chunk"]
    /\ UNCHANGED <<status, lock, batch, asked, failures, resumes>>

\* Mutant of RolledBack: the INSERT is not in the transaction of the counter.
RolledBackPartly(p) ==
    /\ wallets' = [wallets EXCEPT ![batch[p]] = @ \cup ChunkIndexes(p)]
    /\ UNCHANGED inserted

RolledBack(p) == UNCHANGED <<wallets, inserted>>

\* A statement of the chunk fails and is rolled back, or the answer to its
\* COMMIT is lost.
ChunkError(p) ==
    /\ pc[p] = "txn"
    /\ BatchFault
    /\ RolledBack(p) \/ Stored(p)
    /\ pc' = [pc EXCEPT ![p] = "failing"]
    /\ UNCHANGED <<status, lock, batch, next, asked, resumes>>

Complete(p) ==
    /\ pc[p] = "chunk"
    /\ Finished(p)
    /\ status' = [status EXCEPT ![batch[p]] = "completed"]
    /\ pc' = [pc EXCEPT ![p] = "unlock"]
    /\ UNCHANGED <<inserted, wallets, lock, batch, next, asked, failures, resumes>>

\* Reading the row or marking it completed fails.
OtherError(p) ==
    /\ pc[p] = "fresh" \/ (pc[p] = "chunk" /\ Finished(p))
    /\ BatchFault
    /\ pc' = [pc EXCEPT ![p] = "failing"]
    /\ UNCHANGED <<status, inserted, wallets, lock, batch, next, asked, resumes>>

MarkFailed(p) ==
    /\ pc[p] = "failing"
    /\ status' = [status EXCEPT ![batch[p]] = "failed"]
    /\ pc' = [pc EXCEPT ![p] = "unlock"]
    /\ UNCHANGED <<inserted, wallets, lock, batch, next, asked, failures, resumes>>

Released(p) == [b \in Batches |-> IF lock[b] = p THEN None ELSE lock[b]]

Unlock(p) ==
    /\ pc[p] = "unlock"
    /\ lock' = Released(p)
    /\ pc' = [pc EXCEPT ![p] = "idle"]
    /\ batch' = [batch EXCEPT ![p] = None]
    /\ UNCHANGED <<status, inserted, wallets, next, asked, failures, resumes>>

\* The process dies, or markBatchFailed or the connection fails and the error
\* leaves the loop: the session ends, its transaction and lock with it.
Die(p) ==
    /\ pc[p] # "down"
    /\ BatchFault
    /\ lock' = Released(p)
    /\ pc' = [pc EXCEPT ![p] = "down"]
    /\ batch' = [batch EXCEPT ![p] = None]
    /\ UNCHANGED <<status, inserted, wallets, next, asked, resumes>>

\* A supervisor restarts the generator; startEmbeddedWalletGenerationIfEligible.
Restart(p) ==
    /\ pc[p] = "down"
    /\ pc' = [pc EXCEPT ![p] = "idle"]
    /\ UNCHANGED <<status, inserted, wallets, lock, batch, next, asked, failures, resumes>>

\* requeueInterruptedBatchForOwner: the check ...
Ask(o, b) ==
    /\ asked[o] = None
    /\ Interrupted(b)
    /\ resumes < MaxResumes
    /\ resumes' = resumes + 1
    /\ asked' = [asked EXCEPT ![o] = b]
    /\ UNCHANGED <<status, inserted, wallets, lock, loop, failures>>

\* ... and the write, which tests nothing.
Requeue(o) ==
    /\ asked[o] # None
    /\ ~InTransaction(asked[o])
    /\ status' = [status EXCEPT ![asked[o]] = "pending"]
    /\ asked' = [asked EXCEPT ![o] = None]
    /\ UNCHANGED <<inserted, wallets, lock, loop, failures, resumes>>

LoopStep(p) ==
    \/ Claim(p)
    \/ Lock(p)
    \/ ReadAgain(p)
    \/ InsertChunk(p)
    \/ CommitChunk(p)
    \/ Complete(p)
    \/ MarkFailed(p)
    \/ Unlock(p)
    \/ Restart(p)

BatchNext ==
    \/ \E b \in Batches : Create(b)
    \/ \E p \in Loops : LoopStep(p) \/ ChunkError(p) \/ OtherError(p) \/ Die(p)
    \/ \E o \in Owners : Requeue(o) \/ \E b \in Batches : Ask(o, b)

BatchSpec == BatchInit /\ [][BatchNext]_batchVars

\* Loops poll for ever and are restarted; a request that was accepted ends.
BatchFairSpec ==
    /\ BatchSpec
    /\ \A p \in Loops : WF_batchVars(LoopStep(p))
    /\ \A o \in Owners : WF_batchVars(Requeue(o))

-----------------------------------------------------------------------------
(* Properties. *)

\* Every variable has the shape the tables and the loop give it.
BatchTypeOK ==
    /\ status \in [Batches -> Statuses]
    /\ inserted \in [Batches -> Nat]
    /\ wallets \in [Batches -> SUBSET (Nat \ {0})]
    /\ lock \in [Batches -> Loops \cup {None}]
    /\ pc \in [Loops -> PCs]
    /\ batch \in [Loops -> Batches \cup {None}]
    /\ next \in [Loops -> Nat \ {0}]
    /\ asked \in [Owners -> Batches \cup {None}]
    /\ failures \in Nat
    /\ resumes \in Nat

\* The progress counter is never ahead of nor behind the stored addresses, and
\* they have no gap: jobs take recipients by index range up to the counter.
IndexesContiguous == \A b \in Batches : wallets[b] = 1 .. inserted[b] /\ inserted[b] <= Total[b]

\* A batch that job creation accepts as completed has all its addresses.
CompletedIsFull == \A b \in Batches : status[b] = "completed" => inserted[b] = Total[b]

\* A generator never meets an index that another one stored, whichever row its
\* claim returned and however long it waited for the lock: two generators of
\* one batch do not make it fail.
NoCollision ==
    \A p \in Loops : pc[p] = "chunk" => ChunkIndexes(p) \cap wallets[batch[p]] = {}

\* Whatever dies and whoever resumes, a created batch gets its addresses,
\* unless it fails.
WalletsMaterialize ==
    \A b \in Batches :
        status[b] # "none" ~> wallets[b] = 1 .. Total[b] \/ status[b] = "failed"

\* Every created batch comes to an end for good.
BatchesEnd ==
    \A b \in Batches : status[b] # "none" ~> [](status[b] \in {"completed", "failed"})
=============================================================================
