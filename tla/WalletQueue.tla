----------------------------- MODULE WalletQueue -----------------------------
(***************************************************************************)
(* The normalized wallet queue: jobs split into recipient rows             *)
(* (job_wallets), queue workers that claim rows, send one transfer per row *)
(* and record the outcome, and the routes and admin commands that change   *)
(* the same rows and jobs while the workers run.                           *)
(*                                                                         *)
(* One action is one committed SQL statement or transaction, one chain     *)
(* event, or one step of a worker between two of them.  A statement that   *)
(* computes a value from a snapshot and writes it under a row lock later   *)
(* (READ COMMITTED) is two actions.                                        *)
(***************************************************************************)
EXTENDS Naturals, FiniteSets

CONSTANTS
    Rows,         \* job_wallets rows
    Jobs,         \* jobs
    Workers,      \* queue worker processes (embedded or standalone)
    Operators,    \* concurrent route handlers and queue-admin invocations
    None,         \* the absent job or saved record
    JobOf,        \* the job of each row
    SignerOf,     \* the distributor wallet that pays each row
    LoopJobs,     \* jobs created with loop_forever
    MaxAttempts,  \* queueMaxAttempts()
    BatchSize,    \* queueEffectiveClaimBatchSize()
    Commands,     \* the operator commands that may be issued
    Faults,       \* the kinds of fault that may happen
    MaxFaults,    \* bound: faults in a behaviour
    MaxCommands   \* bound: operator commands in a behaviour

Procs == Workers \cup Operators

ASSUME RowsAssumption ==
    /\ IsFiniteSet(Rows)
    /\ JobOf \in [Rows -> Jobs]
    /\ DOMAIN SignerOf = Rows
    /\ LoopJobs \subseteq Jobs

ASSUME ProcsAssumption == Workers \cap Operators = {}

ASSUME BoundsAssumption ==
    /\ MaxAttempts \in Nat \ {0}
    /\ BatchSize \in Nat \ {0}
    /\ MaxFaults \in Nat
    /\ MaxCommands \in Nat

VARIABLES
    row,       \* per row: status, retry_count, whether next_attempt_at is ahead,
               \*          whether updated_at is older than the stale threshold
    job,       \* per job: status, paused, processed_wallets, failed_wallets
    hand,      \* per worker and row: what the worker has done with its claim
    prev,      \* per worker and row: retryCount as claimed (0 when not held)
    at,        \* per process: control state and local variables
    paid,      \* history: transfers of this row the chain accepted
    doubt,     \* history: faults that hid an accepted transfer of this row
    faults,    \* faults so far
    commands   \* operator commands so far

rowVars  == <<row, paid, doubt>>
handVars == <<hand, prev>>
budget   == <<faults, commands>>
vars     == <<row, job, hand, prev, at, paid, doubt, faults, commands>>

RowStatuses == {"pending", "processing", "completed", "failed"}
JobStatuses == {"draft", "queued", "running", "paused", "completed", "failed", "cancelled"}
HandStates  == {"none", "claimed", "sent", "erred"}
PCs == {"idle", "sending", "write", "all", "writeAll", "refresh", "apply",
        "check", "rerun", "requeue", "save"}

RowRec  == [status : RowStatuses, retry : 0..MaxAttempts, backoff : BOOLEAN, stale : BOOLEAN]
JobRec  == [status : JobStatuses, paused : BOOLEAN, processed : Nat, failed : Nat]
SaveRec == [status : JobStatuses, paused : BOOLEAN]
AggRec  == [done : Nat, failed : Nat, open : BOOLEAN]
ProcRec == [pc : PCs, job : Jobs \cup {None}, todo : SUBSET Jobs,
            calc : [Jobs -> JobStatuses \cup {"keep"}], agg : AggRec,
            save : SaveRec \cup {None}]

ASSUME NoneAssumption == None \notin Jobs /\ None \notin SaveRec

Idle == [pc |-> "idle", job |-> None, todo |-> {}, calc |-> [j \in Jobs |-> "keep"],
         agg |-> [done |-> 0, failed |-> 0, open |-> FALSE], save |-> None]

Init ==
    /\ row  = [r \in Rows |-> [status |-> "pending", retry |-> 0, backoff |-> FALSE, stale |-> FALSE]]
    /\ job  = [j \in Jobs |-> [status |-> "draft", paused |-> FALSE, processed |-> 0, failed |-> 0]]
    /\ hand = [w \in Workers |-> [r \in Rows |-> "none"]]
    /\ prev = [w \in Workers |-> [r \in Rows |-> 0]]
    /\ at   = [p \in Procs |-> Idle]
    /\ paid  = [r \in Rows |-> 0]
    /\ doubt = [r \in Rows |-> 0]
    /\ faults = 0
    /\ commands = 0

-----------------------------------------------------------------------------
(* What a snapshot of the two tables says. *)

RowsOf(j) == {r \in Rows : JobOf[r] = j}
WithStatus(j, S) == {r \in RowsOf(j) : row[r].status \in S}

\* Mutant of HasOpen: rows in flight are forgotten.
HasPending(j) == WithStatus(j, {"pending"}) # {}

HasOpen(j) == WithStatus(j, {"pending", "processing"}) # {}

\* The CASE arms that keep the status a job has: paused, draft and cancelled
\* jobs are never moved by a recount.
Frozen(rec) == rec.paused \/ rec.status \in {"draft", "cancelled"}

\* Mutant of Outcome: a failed row keeps the job running.
OutcomeKeepsFailed(open, anyFailed) == IF open \/ anyFailed THEN "running" ELSE "completed"

Outcome(open, anyFailed) ==
    IF open THEN "running" ELSE IF anyFailed THEN "failed" ELSE "completed"

\* new_status of `computed`, or "keep" where it does not differ.
NewStatus(j) ==
    LET new == Outcome(HasOpen(j), WithStatus(j, {"failed"}) # {}) IN
    IF Frozen(job[j]) \/ new = job[j].status THEN "keep" ELSE new

Held(w) == {r \in Rows : hand[w][r] # "none"}
Unheld(r) == \A w \in Workers : hand[w][r] = "none"

Eligible(rec) == ~rec.paused /\ rec.status \in {"queued", "running"}

\* No row of the signer is processing: the NOT EXISTS of the claim, enforced
\* again by the partial unique index.
SignerFree(r) ==
    \A q \in Rows : row[q].status = "processing" => SignerOf[q] # SignerOf[r]

\* Mutant of Claimable: the retry cap is not tested.
ClaimableUncapped(r) ==
    row[r].status = "pending" /\ ~row[r].backoff /\ Eligible(job[JobOf[r]]) /\ SignerFree(r)

Claimable(r) ==
    /\ row[r].status = "pending"
    /\ ~row[r].backoff
    /\ row[r].retry < MaxAttempts
    /\ Eligible(job[JobOf[r]])
    /\ SignerFree(r)

\* What a claim may return: LIMIT rows, DISTINCT ON the signer.  SKIP LOCKED
\* and the signer try-lock may drop any candidate, so any subset is possible.
ClaimSets ==
    {S \in SUBSET {r \in Rows : Claimable(r)} :
        /\ S # {}
        /\ Cardinality(S) <= BatchSize
        /\ \A r, q \in S : SignerOf[r] = SignerOf[q] => r = q}

\* Mutants of StaleRows: the age is not tested; the cap is one attempt too low.
ProcessingRows ==
    {r \in Rows : row[r].status = "processing" /\ row[r].retry < MaxAttempts}
StaleRowsBelowLast ==
    {r \in Rows : row[r].status = "processing" /\ row[r].stale /\ row[r].retry + 1 < MaxAttempts}

StaleRows ==
    {r \in Rows : row[r].status = "processing" /\ row[r].stale /\ row[r].retry < MaxAttempts}

\* Rows of S go back to pending; whether the retry count and the backoff are
\* cleared differs between the callers.
ToPending(S, keepRetry, keepBackoff) ==
    [r \in Rows |->
        IF r \notin S THEN row[r]
        ELSE [status  |-> "pending",
              retry   |-> IF keepRetry THEN row[r].retry ELSE 0,
              backoff |-> keepBackoff /\ row[r].backoff,
              stale   |-> FALSE]]

\* Process p goes on with local state a.
Become(p, a) == at' = [at EXCEPT ![p] = a]

Fault(kind) == kind \in Faults /\ faults < MaxFaults /\ faults' = faults + 1

\* What a process does once a job is dealt with: the next job of its list, the
\* save a route still owes, or nothing.
AfterJob(a) ==
    IF a.todo # {} THEN {[a EXCEPT !.pc = "check", !.job = j, !.todo = @ \ {j}] : j \in a.todo}
    ELSE IF a.save # None THEN {[a EXCEPT !.pc = "save"]}
    ELSE {Idle}

-----------------------------------------------------------------------------
(* Time. *)

BackoffElapses(r) ==
    /\ row[r].backoff
    /\ row' = [row EXCEPT ![r].backoff = FALSE]
    /\ UNCHANGED <<job, hand, prev, at, paid, doubt, faults, commands>>

\* Nothing refreshes updated_at while a row is processed, so the row of a live
\* worker ages too; that it reaches the threshold is the fault "slow".
StaleElapses(r) ==
    /\ row[r].status = "processing"
    /\ ~row[r].stale
    /\ \/ Unheld(r) /\ UNCHANGED faults
       \/ ~Unheld(r) /\ Fault("slow")
    /\ row' = [row EXCEPT ![r].stale = TRUE]
    /\ UNCHANGED <<job, hand, prev, at, paid, doubt, commands>>

-----------------------------------------------------------------------------
(* A worker and its batch. *)

Claim(w) ==
    /\ at[w].pc = "idle"
    /\ \E S \in ClaimSets :
        LET touched == {JobOf[r] : r \in S} IN
        /\ row' = [r \in Rows |->
                     IF r \in S THEN [row[r] EXCEPT !.status = "processing", !.stale = FALSE] ELSE row[r]]
        /\ job' = [j \in Jobs |->
                     IF j \in touched /\ job[j].status = "queued"
                     THEN [job[j] EXCEPT !.status = "running"] ELSE job[j]]
        /\ hand' = [hand EXCEPT ![w] = [r \in Rows |-> IF r \in S THEN "claimed" ELSE "none"]]
        /\ prev' = [prev EXCEPT ![w] = [r \in Rows |-> IF r \in S THEN row[r].retry ELSE 0]]
        /\ Become(w, [at[w] EXCEPT !.pc = "sending", !.todo = touched])
    /\ UNCHANGED <<paid, doubt, faults, commands>>

\* The transfer is refused before the chain accepts it: no key, RPC rejection.
SendFails(w, r) ==
    /\ hand[w][r] = "claimed"
    /\ hand' = [hand EXCEPT ![w][r] = "erred"]
    /\ UNCHANGED <<row, job, prev, at, paid, doubt, faults, commands>>

Broadcast(w, r) ==
    /\ hand[w][r] = "claimed"
    /\ hand' = [hand EXCEPT ![w][r] = "sent"]
    /\ paid' = [paid EXCEPT ![r] = @ + 1]
    /\ UNCHANGED <<row, job, prev, at, doubt, faults, commands>>

\* A send whose answer is lost is repeated, on the same RPC or on the next.
Rebroadcast(w, r) ==
    /\ hand[w][r] = "sent"
    /\ Fault("resend")
    /\ paid' = [paid EXCEPT ![r] = @ + 1]
    /\ doubt' = [doubt EXCEPT ![r] = @ + 1]
    /\ UNCHANGED <<row, job, hand, prev, at, commands>>

\* Every RPC lost the answer, or the receipt wait timed out: executeEvmTransfer
\* throws though the chain has the transfer.
LoseReceipt(w, r) ==
    /\ hand[w][r] = "sent"
    /\ Fault("receipt")
    /\ hand' = [hand EXCEPT ![w][r] = "erred"]
    /\ doubt' = [doubt EXCEPT ![r] = @ + 1]
    /\ UNCHANGED <<row, job, prev, at, paid, commands>>

\* Mutant of CommitSuccess: the counter is left to a later recount.
CommitUncounted(r) ==
    /\ row' = [row EXCEPT ![r] = [@ EXCEPT !.status = "completed", !.backoff = FALSE, !.stale = FALSE]]
    /\ UNCHANGED job

\* The transaction of recordWalletSuccess; its WHERE names the row only.
CommitSuccess(r) ==
    /\ row' = [row EXCEPT ![r] = [@ EXCEPT !.status = "completed", !.backoff = FALSE, !.stale = FALSE]]
    /\ job' = [job EXCEPT ![JobOf[r]].processed = @ + 1]

RecordSuccess(w, r) ==
    /\ hand[w][r] = "sent"
    /\ CommitSuccess(r)
    /\ hand' = [hand EXCEPT ![w][r] = "none"]
    /\ prev' = [prev EXCEPT ![w][r] = 0]
    /\ UNCHANGED <<at, paid, doubt, faults, commands>>

\* The commit is applied but reported as an error, so the catch block of
\* processClaimedWalletRow records a failure of the completed row.
LoseCommitAck(w, r) ==
    /\ hand[w][r] = "sent"
    /\ Fault("ack")
    /\ CommitSuccess(r)
    /\ hand' = [hand EXCEPT ![w][r] = "erred"]
    /\ doubt' = [doubt EXCEPT ![r] = @ + 1]
    /\ UNCHANGED <<prev, at, paid, commands>>

Reopened(retryCount) ==
    [status |-> "pending", retry |-> retryCount, backoff |-> TRUE, stale |-> FALSE]
GivenUp(retryCount) ==
    [status |-> "failed", retry |-> retryCount, backoff |-> FALSE, stale |-> FALSE]

\* Mutants of FailedRow: one attempt too many, one too few, and a row that is
\* filed as completed when its attempts are used up.
FailedRowLate(retryCount) ==
    IF retryCount > MaxAttempts THEN GivenUp(retryCount) ELSE Reopened(retryCount)
FailedRowEarly(retryCount) ==
    IF retryCount + 1 >= MaxAttempts THEN GivenUp(retryCount) ELSE Reopened(retryCount)
FailedRowCompleted(retryCount) ==
    IF retryCount >= MaxAttempts THEN [GivenUp(retryCount) EXCEPT !.status = "completed"]
    ELSE Reopened(retryCount)

FailedRow(retryCount) ==
    IF retryCount >= MaxAttempts THEN GivenUp(retryCount) ELSE Reopened(retryCount)

RecordFailure(w, r) ==
    LET new == FailedRow(prev[w][r] + 1) IN
    /\ hand[w][r] = "erred"
    /\ row' = [row EXCEPT ![r] = new]
    /\ job' = IF new.status = "failed" THEN [job EXCEPT ![JobOf[r]].failed = @ + 1] ELSE job
    /\ hand' = [hand EXCEPT ![w][r] = "none"]
    /\ prev' = [prev EXCEPT ![w][r] = 0]
    /\ UNCHANGED <<at, paid, doubt, faults, commands>>

\* The worker dies, or its loop throws, with rows in hand.
Crash(w) ==
    /\ Held(w) # {}
    /\ Fault("crash")
    /\ doubt' = [r \in Rows |-> IF hand[w][r] = "sent" THEN doubt[r] + 1 ELSE doubt[r]]
    /\ hand' = [hand EXCEPT ![w] = [r \in Rows |-> "none"]]
    /\ prev' = [prev EXCEPT ![w] = [r \in Rows |-> 0]]
    /\ Become(w, Idle)
    /\ UNCHANGED <<row, job, paid, commands>>

-----------------------------------------------------------------------------
(* Reconciliation of job statuses: after a batch, and after a stale reset. *)

ReadStatuses(w) ==
    /\ at[w].pc = "sending"
    /\ Held(w) = {}
    /\ Become(w, [at[w] EXCEPT !.pc = "write",
         !.calc = [j \in Jobs |-> IF j \in at[w].todo THEN NewStatus(j) ELSE "keep"]])
    /\ UNCHANGED <<row, job, hand, prev, paid, doubt, faults, commands>>

ReadAllStatuses(p) ==
    /\ at[p].pc = "all"
    /\ Become(p, [at[p] EXCEPT !.pc = "writeAll",
         !.calc = [j \in Jobs |-> IF RowsOf(j) # {} THEN NewStatus(j) ELSE "keep"]])
    /\ UNCHANGED <<row, job, hand, prev, paid, doubt, faults, commands>>

\* The computed statuses are those of the snapshot, whatever the jobs are now.
\* Only the batch variant goes on to maybeAutoRerunLoopJob.
WriteStatuses(p) ==
    /\ at[p].pc \in {"write", "writeAll"}
    /\ job' = [j \in Jobs |->
                 IF at[p].calc[j] = "keep" THEN job[j] ELSE [job[j] EXCEPT !.status = at[p].calc[j]]]
    /\ \E a \in AfterJob([at[p] EXCEPT !.calc = Idle.calc]) : Become(p, a)
    /\ UNCHANGED <<row, hand, prev, paid, doubt, faults, commands>>

\* maybeAutoRerunLoopJob: the status is read, the rerun is a later transaction.
LoopCheck(p) ==
    LET j == at[p].job IN
    /\ at[p].pc = "check"
    /\ IF j \in LoopJobs /\ ~job[j].paused /\ job[j].status \in {"completed", "failed"}
       THEN Become(p, [at[p] EXCEPT !.pc = "rerun"])
       ELSE \E a \in AfterJob(at[p]) : Become(p, a)
    /\ UNCHANGED <<row, job, hand, prev, paid, doubt, faults, commands>>

\* A new cycle: what was paid before belongs to the cycle that ended.
Rerun(p) ==
    LET j == at[p].job IN
    /\ at[p].pc = "rerun"
    /\ row' = ToPending(RowsOf(j), FALSE, TRUE)
    /\ job' = [job EXCEPT ![j] = [@ EXCEPT !.status = "queued", !.paused = FALSE]]
    /\ paid'  = [r \in Rows |-> IF JobOf[r] = j THEN 0 ELSE paid[r]]
    /\ doubt' = [r \in Rows |-> IF JobOf[r] = j THEN 0 ELSE doubt[r]]
    /\ Become(p, [at[p] EXCEPT !.pc = "refresh"])
    /\ UNCHANGED <<hand, prev, faults, commands>>

\* refreshJobAggregates: the counts are sub-selects on the statement's snapshot ...
ReadAggregates(p) ==
    LET j == at[p].job IN
    /\ at[p].pc = "refresh"
    /\ Become(p, [at[p] EXCEPT !.pc = "apply",
         !.agg = [done   |-> Cardinality(WithStatus(j, {"completed"})),
                  failed |-> Cardinality(WithStatus(j, {"failed"})),
                  open   |-> HasOpen(j)]])
    /\ UNCHANGED <<row, job, hand, prev, paid, doubt, faults, commands>>

\* ... and the CASE looks at the job row as it is when its lock is granted.
WriteAggregates(p) ==
    LET j == at[p].job
        a == at[p].agg
        new == IF Frozen(job[j]) THEN job[j].status ELSE Outcome(a.open, a.failed > 0)
    IN
    /\ at[p].pc = "apply"
    /\ job' = [job EXCEPT ![j] = [@ EXCEPT !.processed = a.done, !.failed = a.failed, !.status = new]]
    /\ Become(p, [at[p] EXCEPT !.pc = "check", !.agg = Idle.agg])
    /\ UNCHANGED <<row, hand, prev, paid, doubt, faults, commands>>

\* Mutant of ResetStale: the retry count is reset with the row.
ResetStaleForgetting ==
    /\ row' = ToPending(StaleRows, FALSE, FALSE)
    /\ UNCHANGED <<hand, prev, paid, doubt>>

ResetStale ==
    /\ row' = ToPending(StaleRows, TRUE, FALSE)
    /\ UNCHANGED <<hand, prev, paid, doubt>>

\* Maintenance: all statuses are recomputed only when a row was reset.
ResetStaleRows(w) ==
    /\ at[w].pc = "idle"
    /\ StaleRows # {}
    /\ ResetStale
    /\ Become(w, [at[w] EXCEPT !.pc = "all"])
    /\ UNCHANGED <<job, faults, commands>>

\* A database error in a reconcile: the worker logs it and goes on, a route or
\* an admin command ends there.
StepFails(p) ==
    /\ \/ at[p].pc \notin {"idle", "sending"}
       \/ at[p].pc = "sending" /\ Held(p) = {}
    /\ Fault("dbError")
    /\ Become(p, Idle)
    /\ UNCHANGED <<row, job, hand, prev, paid, doubt, commands>>

-----------------------------------------------------------------------------
(* Routes and admin commands. *)

Issue(o, name) ==
    /\ at[o].pc = "idle"
    /\ name \in Commands
    /\ commands < MaxCommands
    /\ commands' = commands + 1

\* Both branches of the start route are one conditional UPDATE.
Start(o, j) ==
    /\ Issue(o, "start")
    /\ job[j].status = "draft"
    /\ job' = [job EXCEPT ![j] = [@ EXCEPT !.status = "queued", !.paused = FALSE]]
    /\ UNCHANGED <<row, hand, prev, at, paid, doubt, faults>>

StartNow(o, j) ==
    /\ Issue(o, "startNow")
    /\ job[j].status \in {"queued", "paused"}
    /\ HasOpen(j)
    /\ job' = [job EXCEPT ![j] = [@ EXCEPT !.status = "running", !.paused = FALSE]]
    /\ UNCHANGED <<row, hand, prev, at, paid, doubt, faults>>

\* The other routes read the job, decide, and write the whole record back.
ReadThenSave(o, j, next, rec) ==
    /\ Become(o, [at[o] EXCEPT !.pc = next, !.job = j, !.save = rec])
    /\ UNCHANGED <<row, job, hand, prev, paid, doubt, faults>>

PauseRoute(o, j) ==
    /\ Issue(o, "pause")
    /\ ReadThenSave(o, j, "save",
         [status |-> IF job[j].status \in {"queued", "running"} THEN "paused" ELSE job[j].status,
          paused |-> TRUE])

ResumeRoute(o, j) ==
    /\ Issue(o, "resume")
    /\ job[j].status \notin {"completed", "cancelled"}
    /\ job[j].paused \/ job[j].status # "running"
    /\ ReadThenSave(o, j, "save", [status |-> "queued", paused |-> FALSE])

CancelRoute(o, j) ==
    /\ Issue(o, "cancel")
    /\ job[j].status \notin {"completed", "cancelled"}
    /\ ReadThenSave(o, j, "save", [status |-> "cancelled", paused |-> TRUE])

EditRoute(o, j) ==
    /\ Issue(o, "edit")
    /\ job[j].status \in {"draft", "queued"}
    /\ ReadThenSave(o, j, "save", [status |-> job[j].status, paused |-> job[j].paused])

QueueRoute(o, j) ==
    /\ Issue(o, "queue")
    /\ job[j].status \notin {"running", "completed", "cancelled"}
    /\ ReadThenSave(o, j, "requeue", [status |-> "queued", paused |-> FALSE])

\* requeueIncompleteWallets: rows in flight included, retry_count kept.
Requeue(o) ==
    /\ at[o].pc = "requeue"
    /\ row' = ToPending(WithStatus(at[o].job, RowStatuses \ {"completed"}), TRUE, TRUE)
    /\ Become(o, [at[o] EXCEPT !.pc = "refresh"])
    /\ UNCHANGED <<job, hand, prev, paid, doubt, faults, commands>>

Save(o) ==
    LET a == at[o] IN
    /\ a.pc = "save"
    /\ job' = [job EXCEPT ![a.job] = [@ EXCEPT !.status = a.save.status, !.paused = a.save.paused]]
    /\ Become(o, Idle)
    /\ UNCHANGED <<row, hand, prev, paid, doubt, faults, commands>>

\* The queue-admin commands write, then refresh the job's aggregates.
ThenRefresh(o, j) == Become(o, [at[o] EXCEPT !.pc = "refresh", !.job = j])

AdminPause(o, j) ==
    /\ Issue(o, "adminPause")
    /\ \E flag \in BOOLEAN : job' = [job EXCEPT ![j].paused = flag]
    /\ ThenRefresh(o, j)
    /\ UNCHANGED <<row, hand, prev, paid, doubt, faults>>

\* Mutant of RetriedRows: every row with an outcome is tried again.
SettledRows(j) == WithStatus(j, {"failed", "completed"})

RetriedRows(j) == WithStatus(j, {"failed"})

RetryFailed(o, j) ==
    /\ Issue(o, "retryFailed")
    /\ RetriedRows(j) # {}
    /\ row' = ToPending(RetriedRows(j), FALSE, FALSE)
    /\ ThenRefresh(o, j)
    /\ UNCHANGED <<job, hand, prev, paid, doubt, faults>>

RequeueIncomplete(o, j) ==
    /\ Issue(o, "requeueIncomplete")
    /\ row' = ToPending(WithStatus(j, RowStatuses \ {"completed"}), FALSE, FALSE)
    /\ ThenRefresh(o, j)
    /\ UNCHANGED <<job, hand, prev, paid, doubt, faults>>

PromoteDraft(o, j) ==
    /\ Issue(o, "promoteDraft")
    /\ job[j].status = "draft"
    /\ job' = [job EXCEPT ![j] = [@ EXCEPT !.status = "queued", !.paused = FALSE]]
    /\ ThenRefresh(o, j)
    /\ UNCHANGED <<row, hand, prev, paid, doubt, faults>>

ReconcileJob(o, j) ==
    /\ Issue(o, "reconcileJob")
    /\ ThenRefresh(o, j)
    /\ UNCHANGED <<row, job, hand, prev, paid, doubt, faults>>

\* recover-stalled-queue recomputes every status whether or not a row was
\* reset; the drafts it then promotes are PromoteDraft commands of the same
\* operator.  The plain `stale` command stops after the reset.
RecoverStalled(o) ==
    /\ Issue(o, "recover")
    /\ ResetStale
    /\ \E next \in {"all", "idle"} : Become(o, [at[o] EXCEPT !.pc = next])
    /\ UNCHANGED <<job, faults>>

-----------------------------------------------------------------------------

WorkerRowStep(w, r) ==
    SendFails(w, r) \/ Broadcast(w, r) \/ RecordSuccess(w, r) \/ RecordFailure(w, r)

RowFault(w, r) == Rebroadcast(w, r) \/ LoseReceipt(w, r) \/ LoseCommitAck(w, r)

ReconcileStep(p) ==
    \/ ReadAllStatuses(p)
    \/ WriteStatuses(p)
    \/ LoopCheck(p)
    \/ Rerun(p)
    \/ ReadAggregates(p)
    \/ WriteAggregates(p)

WorkerStep(w) ==
    \/ Claim(w)
    \/ ReadStatuses(w)
    \/ ResetStaleRows(w)
    \/ ReconcileStep(w)
    \/ \E r \in Rows : WorkerRowStep(w, r)

CommandOn(o, j) ==
    \/ Start(o, j)
    \/ StartNow(o, j)
    \/ PauseRoute(o, j)
    \/ ResumeRoute(o, j)
    \/ CancelRoute(o, j)
    \/ EditRoute(o, j)
    \/ QueueRoute(o, j)
    \/ AdminPause(o, j)
    \/ RetryFailed(o, j)
    \/ RequeueIncomplete(o, j)
    \/ PromoteDraft(o, j)
    \/ ReconcileJob(o, j)

OperatorStep(o) ==
    \/ RecoverStalled(o)
    \/ Requeue(o)
    \/ Save(o)
    \/ ReconcileStep(o)
    \/ \E j \in Jobs : CommandOn(o, j)

FaultStep ==
    \/ \E w \in Workers : Crash(w) \/ \E r \in Rows : RowFault(w, r)
    \/ \E p \in Procs : StepFails(p)

Next ==
    \/ \E r \in Rows : BackoffElapses(r) \/ StaleElapses(r)
    \/ \E w \in Workers : WorkerStep(w)
    \/ \E o \in Operators : OperatorStep(o)
    \/ FaultStep

Spec == Init /\ [][Next]_vars

\* The worker loop polls for ever and is restarted when it ends; time passes.
\* A row of a dead worker gets old; nothing makes an operator act.
Fairness ==
    /\ \A w \in Workers : WF_vars(WorkerStep(w))
    /\ \A r \in Rows : WF_vars(BackoffElapses(r))
    /\ \A r \in Rows : WF_vars(StaleElapses(r) /\ Unheld(r))

FairSpec == Spec /\ Fairness

-----------------------------------------------------------------------------
(* Properties. *)

\* Every variable has the shape the code gives it.
TypeOK ==
    /\ row \in [Rows -> RowRec]
    /\ job \in [Jobs -> JobRec]
    /\ hand \in [Workers -> [Rows -> HandStates]]
    /\ prev \in [Workers -> [Rows -> 0..(MaxAttempts - 1)]]
    /\ at \in [Procs -> ProcRec]
    /\ paid \in [Rows -> Nat]
    /\ doubt \in [Rows -> Nat]
    /\ faults \in Nat
    /\ commands \in Nat

InFlight(w, r) == hand[w][r] \in {"claimed", "sent"}

\* "One in-flight nonce per signer" (claimWalletBatch): over all workers, at
\* most one claimed row of a signer is being sent.
OneInFlightPerSigner ==
    \A w, v \in Workers : \A r, q \in Rows :
        InFlight(w, r) /\ InFlight(v, q) /\ SignerOf[r] = SignerOf[q] => w = v /\ r = q

\* A recipient is paid again only after a fault that hid the first transfer:
\* claims, retries, stale resets and job commands alone never pay twice.
PaidOncePerDoubt == \A r \in Rows : paid[r] <= doubt[r] + 1

\* A row is marked completed only when the chain accepted a transfer of it.
CompletedWasPaid == \A r \in Rows : row[r].status = "completed" => paid[r] > 0

\* Every processing row is held by a worker or can be reset once it is stale:
\* reconcileStaleProcessingRows skips rows at the retry cap, for ever.
ProcessingRecoverable ==
    \A r \in Rows : row[r].status = "processing" => row[r].retry < MaxAttempts

\* A row is given up only after MaxAttempts recorded failures, and no row is
\* left pending with its attempts used up (the claim would never take it).
\* requeueIncompleteWallets says of itself "reset every wallet row that is not
\* completed".
PendingHasAttempts ==
    \A r \in Rows : row[r].status = "pending" => row[r].retry < MaxAttempts

\* A failed row has used every attempt, in whatever order workers, crashes and
\* stale resets interleave.
FailedIsExhausted ==
    \A r \in Rows : row[r].status = "failed" => row[r].retry = MaxAttempts

\* A job is completed or failed only when none of its rows is open.
TerminalJobHasNoOpenRow ==
    \A j \in Jobs : job[j].status \in {"completed", "failed"} => ~HasOpen(j)

\* The counters the hot path increments equal a recount of the rows.
CountersMatchRows ==
    \A j \in Jobs : /\ job[j].processed = Cardinality(WithStatus(j, {"completed"}))
                    /\ job[j].failed = Cardinality(WithStatus(j, {"failed"}))

\* Failures survive crashes and stale resets: only a row that was given up can
\* have its used attempts forgotten (retry-failed).
AttemptsNeverReturned ==
    [][\A r \in Rows : row[r].status # "failed" => row'[r].retry >= row[r].retry]_vars

\* A completed row stays completed, unless the worker that completed it was
\* told that its commit failed.
CompletedIsFinal ==
    [][\A r \in Rows : row[r].status = "completed" /\ Unheld(r) => row'[r].status = "completed"]_vars

\* "Paused/cancelled jobs never auto-rerun" (maybeAutoRerunLoopJob).
NeverRerunsStoppedJob ==
    [][\A p \in Procs : at[p].pc = "rerun" /\ at'[p].pc = "refresh" =>
          /\ ~job[at[p].job].paused
          /\ job[at[p].job].status # "cancelled"]_vars

Active(j) == Eligible(job[j])
Settled(r) == row[r].status \in {"completed", "failed"}

\* Whatever crashes, every row of a started job reaches an outcome.
RowsSettle == \A r \in Rows : Active(JobOf[r]) ~> Settled(r) \/ ~Active(JobOf[r])

\* Without a fault, a job all of whose rows have an outcome leaves the queue.
JobsSettle ==
    \A j \in Jobs : Active(j) /\ ~HasOpen(j) ~> ~Active(j) \/ faults > 0
=============================================================================
