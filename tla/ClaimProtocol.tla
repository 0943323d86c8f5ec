---------------------------- MODULE ClaimProtocol ----------------------------
(***************************************************************************)
(* The claim transaction, statement by statement, of the two queues that   *)
(* send from the same distributor wallets: job_wallets and                 *)
(* fund_transfer_queue.  A claim selects on the snapshot taken when its    *)
(* statement starts, locks rows (SKIP LOCKED re-reads each one), try-locks *)
(* an advisory key per signer, keeps one row per signer, updates the rows  *)
(* under the partial unique index of its own table, and commits.           *)
(***************************************************************************)
EXTENDS Naturals, FiniteSets

CONSTANTS
    Rows,                       \* rows of both tables
    JobWallets, FundTransfers,  \* the two tables
    QueueOf,                    \* the table of each row
    Signers,                    \* distributor wallets
    SignerOf,                   \* the wallet that pays each row
    Workers,                    \* queue workers
    None,                       \* no owner
    Candidates,                 \* queueClaimCandidateLimit()
    BatchSize,                  \* queueEffectiveClaimBatchSize()
    MaxFaults                   \* bound: failed sends, rollbacks and crashes in a behaviour

Queues == {JobWallets, FundTransfers}

ASSUME ClaimAssumption ==
    /\ IsFiniteSet(Rows)
    /\ JobWallets # FundTransfers
    /\ QueueOf \in [Rows -> Queues]
    /\ SignerOf \in [Rows -> Signers]
    /\ None \notin Workers
    /\ Candidates \in Nat \ {0}
    /\ BatchSize \in Nat \ {0}
    /\ MaxFaults \in Nat

VARIABLES
    status,   \* per row: committed status
    rowLock,  \* per row: the transaction that locked it FOR UPDATE
    keyLock,  \* per signer: the transaction that holds its advisory lock
    pc,       \* per worker: where its loop is
    queue,    \* per worker: the table it claims from
    seen,     \* per worker: candidates of its snapshot it has still to visit
    tried,    \* per worker: locked rows whose signer's advisory lock it has tried
    mine,     \* per worker: tried rows whose lock it got, then picked, then held
    faults

locals == <<pc, queue, seen, tried, mine>>
vars == <<status, rowLock, keyLock, pc, queue, seen, tried, mine, faults>>

PCs == {"idle", "scan", "update", "commit", "sending"}

Init ==
    /\ status  = [r \in Rows |-> "pending"]
    /\ rowLock = [r \in Rows |-> None]
    /\ keyLock = [s \in Signers |-> None]
    /\ pc      = [w \in Workers |-> "idle"]
    /\ queue   = [w \in Workers |-> JobWallets]
    /\ seen    = [w \in Workers |-> {}]
    /\ tried   = [w \in Workers |-> {}]
    /\ mine    = [w \in Workers |-> {}]
    /\ faults  = 0

Locked(w) == {r \in Rows : rowLock[r] = w}

\* The worker is between BEGIN and COMMIT.
InClaim(w) == pc[w] \in {"scan", "update", "commit"}

\* Both claims look at the processing rows of both tables.
Candidate(q, r) ==
    /\ QueueOf[r] = q
    /\ status[r] = "pending"
    /\ \A p \in Rows : status[p] = "processing" => SignerOf[p] # SignerOf[r]

Snapshot(w) ==
    /\ pc[w] = "idle"
    /\ seen' = [seen EXCEPT ![w] = {r \in Rows : Candidate(queue[w], r)}]
    /\ pc' = [pc EXCEPT ![w] = "scan"]
    /\ UNCHANGED <<status, rowLock, keyLock, queue, tried, mine, faults>>

Scanning(w) ==
    /\ pc[w] = "scan"
    /\ Locked(w) = tried[w]
    /\ Cardinality(Locked(w)) < Candidates
    /\ seen[w] # {}

\* Mutant of Lockable: the locked row is not tested again.
LockableUnread(r) == rowLock[r] = None

\* FOR UPDATE SKIP LOCKED: a free row is tested again on its latest version;
\* the processing rows of the NOT EXISTS are still those of the snapshot.
Lockable(r) == rowLock[r] = None /\ status[r] = "pending"

\* The next candidate, in the order of a hash, is locked or passed over.
Visit(w, r) ==
    /\ Scanning(w)
    /\ r \in seen[w]
    /\ seen' = [seen EXCEPT ![w] = @ \ {r}]
    /\ rowLock' = IF Lockable(r) THEN [rowLock EXCEPT ![r] = w] ELSE rowLock
    /\ UNCHANGED <<status, keyLock, pc, queue, tried, mine, faults>>

\* pg_try_advisory_xact_lock of the locked row's signer: refused when another
\* transaction holds it.
TryKey(w, r) ==
    /\ pc[w] = "scan"
    /\ r \in Locked(w) \ tried[w]
    /\ tried' = [tried EXCEPT ![w] = @ \cup {r}]
    /\ IF keyLock[SignerOf[r]] \in {None, w}
       THEN /\ keyLock' = [keyLock EXCEPT ![SignerOf[r]] = w]
            /\ mine' = [mine EXCEPT ![w] = @ \cup {r}]
       ELSE UNCHANGED <<keyLock, mine>>
    /\ UNCHANGED <<status, rowLock, pc, queue, seen, faults>>

\* DISTINCT ON the signer, then LIMIT, over the rows whose lock was got.
Picks(w) ==
    LET got == {SignerOf[r] : r \in mine[w]} IN
    {S \in SUBSET mine[w] :
        /\ \A r, q \in S : SignerOf[r] = SignerOf[q] => r = q
        /\ Cardinality(S) = IF Cardinality(got) < BatchSize THEN Cardinality(got) ELSE BatchSize}

\* The transaction of w ends: its locks go, its local state is `next`.
EndClaim(w, next, held) ==
    /\ rowLock' = [r \in Rows |-> IF rowLock[r] = w THEN None ELSE rowLock[r]]
    /\ keyLock' = [s \in Signers |-> IF keyLock[s] = w THEN None ELSE keyLock[s]]
    /\ pc' = [pc EXCEPT ![w] = next]
    /\ seen' = [seen EXCEPT ![w] = {}]
    /\ tried' = [tried EXCEPT ![w] = {}]
    /\ mine' = [mine EXCEPT ![w] = held]

Other(q) == IF q = JobWallets THEN FundTransfers ELSE JobWallets

\* Mutant of NextQueue: every iteration claims from job_wallets only.
SameQueue(w) == queue' = [queue EXCEPT ![w] = JobWallets]

\* An iteration of the worker loop claims from one table, then from the other.
NextQueue(w) == queue' = [queue EXCEPT ![w] = Other(@)]

\* An exception or a restart begins the next iteration.
FirstQueue(w) == queue' = [queue EXCEPT ![w] = JobWallets]

Pick(w) ==
    /\ pc[w] = "scan"
    /\ Locked(w) = tried[w]
    /\ ~Scanning(w)
    /\ \E S \in Picks(w) :
        IF S = {}
        THEN EndClaim(w, "idle", {}) /\ NextQueue(w)
        ELSE /\ mine' = [mine EXCEPT ![w] = S]
             /\ pc' = [pc EXCEPT ![w] = "update"]
             /\ UNCHANGED <<rowLock, keyLock, queue, seen, tried>>
    /\ UNCHANGED <<status, faults>>

SameKey(r, q) == QueueOf[r] = QueueOf[q] /\ SignerOf[r] = SignerOf[q]

\* Mutant of Duplicate: the table has no unique index.
DuplicateNever(w) == FALSE

\* The partial unique index refuses a second processing row of the same table
\* and signer, committed or written by this statement.
Duplicate(w) ==
    \E r \in mine[w] : \E q \in Rows \ {r} :
        SameKey(r, q) /\ (status[q] = "processing" \/ q \in mine[w])

\* An insertion into the index waits for the uncommitted entry of another
\* transaction.
MustWait(w) ==
    \E v \in Workers \ {w} : pc[v] = "commit" /\ \E r \in mine[w], q \in mine[v] : SameKey(r, q)

Updated(w) ==
    /\ pc' = [pc EXCEPT ![w] = "commit"]
    /\ UNCHANGED <<rowLock, keyLock, queue, seen, tried, mine>>

\* Mutant of Refused: the claim is rolled back, its rows are sent all the same.
RefusedButSent(w) == EndClaim(w, "sending", mine[w]) /\ UNCHANGED queue

\* On a duplicate the whole claim is rolled back and the loop goes on.
Refused(w) == EndClaim(w, "idle", {}) /\ NextQueue(w)

Update(w) ==
    /\ pc[w] = "update"
    /\ ~MustWait(w)
    /\ IF Duplicate(w) THEN Refused(w) ELSE Updated(w)
    /\ UNCHANGED <<status, faults>>

Commit(w) ==
    /\ pc[w] = "commit"
    /\ status' = [r \in Rows |-> IF r \in mine[w] THEN "processing" ELSE status[r]]
    /\ EndClaim(w, "sending", mine[w])
    /\ UNCHANGED <<queue, faults>>

\* One transfer is over and its outcome recorded.
Succeed(w, r) ==
    /\ pc[w] = "sending"
    /\ r \in mine[w]
    /\ status' = [status EXCEPT ![r] = "done"]
    /\ mine' = [mine EXCEPT ![w] = @ \ {r}]
    /\ UNCHANGED <<rowLock, keyLock, pc, queue, seen, tried, faults>>

Fault == faults < MaxFaults /\ faults' = faults + 1

Fail(w, r) ==
    /\ pc[w] = "sending"
    /\ r \in mine[w]
    /\ Fault
    /\ status' = [status EXCEPT ![r] = "pending"]
    /\ mine' = [mine EXCEPT ![w] = @ \ {r}]
    /\ UNCHANGED <<rowLock, keyLock, pc, queue, seen, tried>>

EndBatch(w) ==
    /\ pc[w] = "sending"
    /\ mine[w] = {}
    /\ pc' = [pc EXCEPT ![w] = "idle"]
    /\ NextQueue(w)
    /\ UNCHANGED <<status, rowLock, keyLock, seen, tried, mine, faults>>

\* A database error rolls the claim back; a worker that dies in a claim loses
\* its connection, which does the same.
Rollback(w) ==
    /\ InClaim(w)
    /\ Fault
    /\ EndClaim(w, "idle", {})
    /\ FirstQueue(w)
    /\ UNCHANGED status

\* A worker that dies while sending leaves its rows processing.
Crash(w) ==
    /\ pc[w] = "sending"
    /\ Fault
    /\ pc' = [pc EXCEPT ![w] = "idle"]
    /\ mine' = [mine EXCEPT ![w] = {}]
    /\ FirstQueue(w)
    /\ UNCHANGED <<status, rowLock, keyLock, seen, tried>>

\* reconcileStaleProcessingRows and its twin of the fund queue; rows of live
\* workers do not reach the threshold here (WalletQueue covers those that do).
Reset(r) ==
    /\ status[r] = "processing"
    /\ \A w \in Workers : pc[w] = "sending" => r \notin mine[w]
    /\ status' = [status EXCEPT ![r] = "pending"]
    /\ UNCHANGED <<rowLock, keyLock, locals, faults>>

ClaimStep(w) ==
    \/ Snapshot(w)
    \/ Pick(w)
    \/ Update(w)
    \/ Commit(w)
    \/ EndBatch(w)
    \/ \E r \in Rows : Visit(w, r) \/ TryKey(w, r) \/ Succeed(w, r)

FaultStep(w) ==
    \/ Rollback(w)
    \/ Crash(w)
    \/ \E r \in Rows : Fail(w, r)

Next ==
    \/ \E w \in Workers : ClaimStep(w) \/ FaultStep(w)
    \/ \E r \in Rows : Reset(r)

Spec == Init /\ [][Next]_vars

\* Workers poll for ever; rows of dead workers get old.
Fairness ==
    /\ \A w \in Workers : WF_vars(ClaimStep(w))
    /\ \A r \in Rows : WF_vars(Reset(r))

FairSpec == Spec /\ Fairness

-----------------------------------------------------------------------------
(* Properties. *)

RowStatuses == {"pending", "processing", "done"}

\* Every variable has the shape the two tables and the worker loop give it.
TypeOK ==
    /\ status \in [Rows -> RowStatuses]
    /\ rowLock \in [Rows -> Workers \cup {None}]
    /\ keyLock \in [Signers -> Workers \cup {None}]
    /\ pc \in [Workers -> PCs]
    /\ queue \in [Workers -> Queues]
    /\ seen \in [Workers -> SUBSET Rows]
    /\ tried \in [Workers -> SUBSET Rows]
    /\ mine \in [Workers -> SUBSET Rows]
    /\ faults \in Nat

Holds(w, r) == pc[w] = "sending" /\ r \in mine[w]

\* A row is given to one worker only, although both selected it on snapshots
\* on which it was pending.
RowHeldOnce == \A w, v \in Workers : \A r \in Rows : Holds(w, r) /\ Holds(v, r) => w = v

\* Inside one table no two rows of a signer are processing: "preserving one
\* in-flight nonce per signer" (job-queue-repo.ts:597).
OneProcessingPerKey ==
    \A r, q \in Rows :
        status[r] = "processing" /\ status[q] = "processing" /\ SameKey(r, q) => r = q

\* The same over both tables ("cross-queue nonce safety").
OneProcessingPerSigner ==
    \A r, q \in Rows :
        status[r] = "processing" /\ status[q] = "processing" /\ SignerOf[r] = SignerOf[q] => r = q

\* The statements of a claim together are one atomic claim, per table.
owner == [r \in Rows |-> IF \E w \in Workers : Holds(w, r)
                         THEN CHOOSE w \in Workers : Holds(w, r) ELSE None]
Lease == INSTANCE SignerLease WITH KeyOf <- [r \in Rows |-> <<QueueOf[r], SignerOf[r]>>]
ImplementsLease == Lease!Spec

\* No claim, lock or rollback keeps a row from being sent for ever.
RowsGetDone == \A r \in Rows : <>(status[r] = "done")
=============================================================================
