-------------------------- MODULE WalletQueueProofs --------------------------
(***************************************************************************)
(* Theorems about WalletQueue, for every value of its constants: types,    *)
(* the retry cap, the lease of a row by one worker, what is paid, which    *)
(* outcomes are final, and when a job record agrees with its rows.         *)
(***************************************************************************)
EXTENDS WalletQueue, FiniteSetTheorems, TLAPS

-----------------------------------------------------------------------------
(* Type correctness. *)

\* A process about to save a job record has one to save.
SaveHasRecord == \A p \in Procs : at[p].pc = "save" => at[p].save # None

TypeInv == TypeOK /\ SaveHasRecord

LEMMA IdleType == Idle \in ProcRec
  BY DEF Idle, ProcRec, PCs, AggRec

LEMMA WorkerIsProc == Workers \subseteq Procs /\ Operators \subseteq Procs
  BY DEF Procs

\* A process that is done with a job has a well-formed local state.
LEMMA AfterJobType ==
  ASSUME NEW a \in ProcRec, NEW b \in AfterJob(a)
  PROVE  b \in ProcRec /\ (b.pc = "save" => b.save # None)
<1>1. CASE a.todo # {}
  <2>1. PICK j \in a.todo : b = [a EXCEPT !.pc = "check", !.job = j, !.todo = @ \ {j}]
    BY Zenon, <1>1 DEF AfterJob
  <2>. QED BY <2>1 DEF ProcRec, PCs
<1>2. CASE a.todo = {} /\ a.save # None
  BY <1>2 DEF AfterJob, ProcRec, PCs
<1>3. CASE a.todo = {} /\ a.save = None
  <2>1. b = Idle
    BY <1>3 DEF AfterJob
  <2>. QED BY <2>1, IdleType DEF Idle
<1>. QED BY <1>1, <1>2, <1>3

\* Resetting rows to pending keeps the table well-formed.
LEMMA ToPendingType ==
  ASSUME row \in [Rows -> RowRec], NEW S, NEW k \in BOOLEAN, NEW b \in BOOLEAN
  PROVE  ToPending(S, k, b) \in [Rows -> RowRec]
  BY BoundsAssumption DEF ToPending, RowRec, RowStatuses

\* A recount moves a job to one of its statuses, or leaves it.
LEMMA NewStatusType ==
  ASSUME NEW j PROVE NewStatus(j) \in JobStatuses \cup {"keep"}
  BY DEF NewStatus, Outcome, JobStatuses

\* A count of rows is a natural number.
LEMMA CountType ==
  ASSUME NEW j, NEW S PROVE Cardinality(WithStatus(j, S)) \in Nat
<1>1. WithStatus(j, S) \subseteq Rows
  BY DEF WithStatus, RowsOf
<1>2. IsFiniteSet(WithStatus(j, S))
  BY <1>1, RowsAssumption, FS_Subset
<1>. QED BY <1>2, FS_CardinalityType

\* Counting one more row keeps a job well-formed.
LEMMA CountedType ==
  ASSUME NEW a \in JobRec
  PROVE  /\ [a EXCEPT !.processed = @ + 1] \in JobRec
         /\ [a EXCEPT !.failed = @ + 1] \in JobRec
  BY DEF JobRec

LEMMA InitType == Init => TypeInv
<1>. SUFFICES ASSUME Init PROVE TypeInv
  OBVIOUS
<1>1. row \in [Rows -> RowRec]
  BY BoundsAssumption DEF Init, RowRec, RowStatuses
<1>2. job \in [Jobs -> JobRec]
  BY DEF Init, JobRec, JobStatuses
<1>3. hand \in [Workers -> [Rows -> HandStates]] /\ prev \in [Workers -> [Rows -> 0..(MaxAttempts - 1)]]
  BY BoundsAssumption DEF Init, HandStates
<1>4. at \in [Procs -> ProcRec] /\ SaveHasRecord
  <2>1. at = [p \in Procs |-> Idle]
    BY DEF Init
  <2>2. \A p \in Procs : at[p].pc = "idle"
    BY <2>1 DEF Idle
  <2>. QED BY <2>1, <2>2, IdleType DEF SaveHasRecord
<1>5. paid \in [Rows -> Nat] /\ doubt \in [Rows -> Nat] /\ faults \in Nat /\ commands \in Nat
  BY DEF Init
<1>. QED BY <1>1, <1>2, <1>3, <1>4, <1>5 DEF TypeInv, TypeOK

\* A process step to a well-formed local state keeps all of them well-formed.
LEMMA BecomeType ==
  ASSUME TypeInv, NEW p \in Procs, NEW a \in ProcRec, a.pc = "save" => a.save # None,
         Become(p, a)
  PROVE  at' \in [Procs -> ProcRec] /\ SaveHasRecord'
  BY DEF TypeInv, TypeOK, SaveHasRecord, Become

\* A command that ends in one job update, or goes on to a refresh.
LEMMA ThenRefreshType ==
  ASSUME TypeInv, NEW o \in Operators, NEW j \in Jobs, ThenRefresh(o, j)
  PROVE  at' \in [Procs -> ProcRec] /\ SaveHasRecord'
<1>0. at[o] \in ProcRec
  BY WorkerIsProc DEF TypeInv, TypeOK
<1>1. [at[o] EXCEPT !.pc = "refresh", !.job = j] \in ProcRec
  BY <1>0 DEF ProcRec, PCs
<1>. QED BY <1>1, WorkerIsProc, BecomeType DEF ThenRefresh, ProcRec, PCs, TypeInv, TypeOK

\* A route that saves later remembers a well-formed record.
LEMMA ReadThenSaveType ==
  ASSUME TypeInv, NEW o \in Operators, NEW j \in Jobs, NEW next \in {"save", "requeue"},
         NEW rec \in SaveRec, rec # None, ReadThenSave(o, j, next, rec), commands' \in Nat
  PROVE  TypeInv'
<1>0. at[o] \in ProcRec
  BY WorkerIsProc DEF TypeInv, TypeOK
<1>1. [at[o] EXCEPT !.pc = next, !.job = j, !.save = rec] \in ProcRec
  BY <1>0 DEF ProcRec, PCs
<1>2. [at[o] EXCEPT !.pc = next, !.job = j, !.save = rec].save # None
  BY <1>0 DEF ProcRec, PCs
<1>3. at' \in [Procs -> ProcRec] /\ SaveHasRecord'
  BY <1>1, <1>2, WorkerIsProc, BecomeType DEF ReadThenSave
<1>. QED BY <1>3 DEF ReadThenSave, TypeInv, TypeOK

LEMMA CommandType ==
  ASSUME TypeInv, NEW o \in Operators, NEW j \in Jobs, CommandOn(o, j)
  PROVE  TypeInv'
<1>0. commands' \in Nat /\ job[j] \in JobRec
  <2>1. commands' = commands + 1
    BY DEF CommandOn, Issue, Start, StartNow, PauseRoute, ResumeRoute, CancelRoute, EditRoute,
           QueueRoute, AdminPause, RetryFailed, RequeueIncomplete, PromoteDraft, ReconcileJob
  <2>. QED BY <2>1 DEF TypeInv, TypeOK
<1>1. CASE Start(o, j)
  BY <1>0, <1>1 DEF Start, JobRec, JobStatuses, TypeInv, TypeOK, SaveHasRecord
<1>2. CASE StartNow(o, j)
  BY <1>0, <1>2 DEF StartNow, JobRec, JobStatuses, TypeInv, TypeOK, SaveHasRecord
<1>3. CASE PauseRoute(o, j)
  <2>. DEFINE rec == [status |-> IF job[j].status \in {"queued", "running"} THEN "paused" ELSE job[j].status,
                  paused |-> TRUE]
  <2>1. rec \in SaveRec
    BY <1>0 DEF SaveRec, JobRec, JobStatuses
  <2>2. ReadThenSave(o, j, "save", rec)
    BY <1>3 DEF PauseRoute
  <2>. QED BY <1>0, <2>1, <2>2, ReadThenSaveType, NoneAssumption
<1>4. CASE ResumeRoute(o, j)
  <2>. DEFINE rec == [status |-> "queued", paused |-> FALSE]
  <2>1. rec \in SaveRec
    BY <1>0 DEF SaveRec, JobRec, JobStatuses
  <2>2. ReadThenSave(o, j, "save", rec)
    BY <1>4 DEF ResumeRoute
  <2>. QED BY <1>0, <2>1, <2>2, ReadThenSaveType, NoneAssumption
<1>5. CASE CancelRoute(o, j)
  <2>. DEFINE rec == [status |-> "cancelled", paused |-> TRUE]
  <2>1. rec \in SaveRec
    BY <1>0 DEF SaveRec, JobRec, JobStatuses
  <2>2. ReadThenSave(o, j, "save", rec)
    BY <1>5 DEF CancelRoute
  <2>. QED BY <1>0, <2>1, <2>2, ReadThenSaveType, NoneAssumption
<1>6. CASE EditRoute(o, j)
  <2>. DEFINE rec == [status |-> job[j].status, paused |-> job[j].paused]
  <2>1. rec \in SaveRec
    BY <1>0 DEF SaveRec, JobRec, JobStatuses
  <2>2. ReadThenSave(o, j, "save", rec)
    BY <1>6 DEF EditRoute
  <2>. QED BY <1>0, <2>1, <2>2, ReadThenSaveType, NoneAssumption
<1>7. CASE QueueRoute(o, j)
  <2>. DEFINE rec == [status |-> "queued", paused |-> FALSE]
  <2>1. rec \in SaveRec
    BY <1>0 DEF SaveRec, JobRec, JobStatuses
  <2>2. ReadThenSave(o, j, "requeue", rec)
    BY <1>7 DEF QueueRoute
  <2>. QED BY <1>0, <2>1, <2>2, ReadThenSaveType, NoneAssumption
<1>8. CASE AdminPause(o, j)
  <2>1. at' \in [Procs -> ProcRec] /\ SaveHasRecord'
    BY <1>8, ThenRefreshType DEF AdminPause
  <2>2. row' \in [Rows -> RowRec]
    BY <1>8, ToPendingType DEF AdminPause, TypeInv, TypeOK
  <2>3. job' \in [Jobs -> JobRec]
    <3>1. PICK flag \in BOOLEAN : job' = [job EXCEPT ![j].paused = flag]
      BY <1>8 DEF AdminPause
    <3>2. [job[j] EXCEPT !.paused = flag] \in JobRec
      BY <1>0 DEF JobRec
    <3>. QED BY <3>1, <3>2 DEF TypeInv, TypeOK
  <2>. QED BY <1>0, <1>8, <2>1, <2>2, <2>3 DEF AdminPause, TypeInv, TypeOK
<1>9. CASE RetryFailed(o, j)
  <2>1. at' \in [Procs -> ProcRec] /\ SaveHasRecord'
    BY <1>9, ThenRefreshType DEF RetryFailed
  <2>2. row' \in [Rows -> RowRec]
    BY <1>9, ToPendingType DEF RetryFailed, TypeInv, TypeOK
  <2>3. job' \in [Jobs -> JobRec]
    BY <1>0, <1>9 DEF RetryFailed, JobRec, JobStatuses, TypeInv, TypeOK
  <2>. QED BY <1>0, <1>9, <2>1, <2>2, <2>3 DEF RetryFailed, TypeInv, TypeOK
<1>10. CASE RequeueIncomplete(o, j)
  <2>1. at' \in [Procs -> ProcRec] /\ SaveHasRecord'
    BY <1>10, ThenRefreshType DEF RequeueIncomplete
  <2>2. row' \in [Rows -> RowRec]
    BY <1>10, ToPendingType DEF RequeueIncomplete, TypeInv, TypeOK
  <2>3. job' \in [Jobs -> JobRec]
    BY <1>0, <1>10 DEF RequeueIncomplete, JobRec, JobStatuses, TypeInv, TypeOK
  <2>. QED BY <1>0, <1>10, <2>1, <2>2, <2>3 DEF RequeueIncomplete, TypeInv, TypeOK
<1>11. CASE PromoteDraft(o, j)
  <2>1. at' \in [Procs -> ProcRec] /\ SaveHasRecord'
    BY <1>11, ThenRefreshType DEF PromoteDraft
  <2>2. row' \in [Rows -> RowRec]
    BY <1>11, ToPendingType DEF PromoteDraft, TypeInv, TypeOK
  <2>3. job' \in [Jobs -> JobRec]
    BY <1>0, <1>11 DEF PromoteDraft, JobRec, JobStatuses, TypeInv, TypeOK
  <2>. QED BY <1>0, <1>11, <2>1, <2>2, <2>3 DEF PromoteDraft, TypeInv, TypeOK
<1>12. CASE ReconcileJob(o, j)
  <2>1. at' \in [Procs -> ProcRec] /\ SaveHasRecord'
    BY <1>12, ThenRefreshType DEF ReconcileJob
  <2>2. row' \in [Rows -> RowRec]
    BY <1>12, ToPendingType DEF ReconcileJob, TypeInv, TypeOK
  <2>3. job' \in [Jobs -> JobRec]
    BY <1>0, <1>12 DEF ReconcileJob, JobRec, JobStatuses, TypeInv, TypeOK
  <2>. QED BY <1>0, <1>12, <2>1, <2>2, <2>3 DEF ReconcileJob, TypeInv, TypeOK
<1>. QED BY <1>1, <1>2, <1>3, <1>4, <1>5, <1>6, <1>7, <1>8, <1>9, <1>10, <1>11, <1>12 DEF CommandOn

LEMMA TypeStep == TypeInv /\ [Next]_vars => TypeInv'
<1>. SUFFICES ASSUME TypeInv, [Next]_vars PROVE TypeInv'
  OBVIOUS
<1>1. ASSUME NEW r \in Rows, BackoffElapses(r) PROVE TypeInv'
  <2>1. row' \in [Rows -> RowRec]
    BY <1>1 DEF BackoffElapses, RowRec, TypeInv, TypeOK
  <2>. QED BY <1>1, <2>1 DEF TypeInv, TypeOK, SaveHasRecord, BackoffElapses
<1>2. ASSUME NEW r \in Rows, StaleElapses(r) PROVE TypeInv'
  <2>1. row' \in [Rows -> RowRec]
    BY <1>2 DEF StaleElapses, RowRec, TypeInv, TypeOK
  <2>. QED BY <1>2, <2>1 DEF TypeInv, TypeOK, SaveHasRecord, StaleElapses, Fault
<1>3. ASSUME NEW w \in Workers, Claim(w) PROVE TypeInv'
  <2>. DEFINE Touched(S) == {JobOf[r] : r \in S}
  <2>1. PICK S \in ClaimSets :
          /\ row' = [r \in Rows |->
                IF r \in S THEN [row[r] EXCEPT !.status = "processing", !.stale = FALSE] ELSE row[r]]
          /\ job' = [j \in Jobs |->
                IF j \in Touched(S) /\ job[j].status = "queued"
                THEN [job[j] EXCEPT !.status = "running"] ELSE job[j]]
          /\ hand' = [hand EXCEPT ![w] = [r \in Rows |-> IF r \in S THEN "claimed" ELSE "none"]]
          /\ prev' = [prev EXCEPT ![w] = [r \in Rows |-> IF r \in S THEN row[r].retry ELSE 0]]
          /\ Become(w, [at[w] EXCEPT !.pc = "sending", !.todo = Touched(S)])
    BY Zenon, <1>3 DEF Claim
  <2>2. \A r \in S : r \in Rows /\ row[r].retry < MaxAttempts
    BY DEF ClaimSets, Claimable
  <2>3. row' \in [Rows -> RowRec]
    BY ZenonT(40), <2>1 DEF RowRec, RowStatuses, TypeInv, TypeOK
  <2>4. job' \in [Jobs -> JobRec]
    BY ZenonT(40), <2>1 DEF JobRec, JobStatuses, TypeInv, TypeOK
  <2>5. hand' \in [Workers -> [Rows -> HandStates]]
    BY Zenon, <2>1 DEF HandStates, TypeInv, TypeOK
  <2>6. prev' \in [Workers -> [Rows -> 0..(MaxAttempts - 1)]]
    <3>1. \A r \in Rows : (IF r \in S THEN row[r].retry ELSE 0) \in 0..(MaxAttempts - 1)
      BY <2>2, BoundsAssumption DEF RowRec, TypeInv, TypeOK
    <3>. QED BY Zenon, <2>1, <3>1 DEF TypeInv, TypeOK
  <2>7. at' \in [Procs -> ProcRec] /\ SaveHasRecord'
    <3>1. Touched(S) \subseteq Jobs
      BY <2>2, RowsAssumption
    <3>0. at[w] \in ProcRec
      BY WorkerIsProc DEF TypeInv, TypeOK
    <3>2. [at[w] EXCEPT !.pc = "sending", !.todo = Touched(S)] \in ProcRec
      BY Zenon, <3>0, <3>1 DEF ProcRec, PCs
    <3>. QED BY Zenon, <2>1, <3>2, WorkerIsProc, BecomeType DEF ProcRec, PCs, TypeInv, TypeOK
  <2>. QED BY ZenonT(40), <1>3, <2>3, <2>4, <2>5, <2>6, <2>7 DEF TypeInv, TypeOK, Claim
<1>4. ASSUME NEW w \in Workers, NEW r \in Rows, SendFails(w, r) PROVE TypeInv'
  <2>1. hand' \in [Workers -> [Rows -> HandStates]]
    BY <1>4 DEF SendFails, HandStates, TypeInv, TypeOK
  <2>. QED BY <1>4, <2>1 DEF TypeInv, TypeOK, SaveHasRecord, SendFails
<1>5. ASSUME NEW w \in Workers, NEW r \in Rows, Broadcast(w, r) PROVE TypeInv'
  <2>1. hand' \in [Workers -> [Rows -> HandStates]]
    BY <1>5 DEF Broadcast, HandStates, TypeInv, TypeOK
  <2>2. paid' \in [Rows -> Nat]
    BY <1>5 DEF Broadcast, TypeInv, TypeOK
  <2>. QED BY <1>5, <2>1, <2>2 DEF TypeInv, TypeOK, SaveHasRecord, Broadcast
<1>6. ASSUME NEW w \in Workers, NEW r \in Rows, RecordSuccess(w, r) PROVE TypeInv'
  <2>1. row' \in [Rows -> RowRec]
    BY ZenonT(40), <1>6 DEF RecordSuccess, CommitSuccess, RowRec, RowStatuses, TypeInv, TypeOK
  <2>2. job' \in [Jobs -> JobRec]
    <3>1. JobOf[r] \in Jobs /\ job[JobOf[r]] \in JobRec
      BY RowsAssumption DEF TypeInv, TypeOK
    <3>. QED BY <1>6, <3>1, CountedType DEF RecordSuccess, CommitSuccess, TypeInv, TypeOK
  <2>3. hand' \in [Workers -> [Rows -> HandStates]]
    BY <1>6 DEF RecordSuccess, HandStates, TypeInv, TypeOK
  <2>4. prev' \in [Workers -> [Rows -> 0..(MaxAttempts - 1)]]
    BY <1>6, BoundsAssumption DEF RecordSuccess, TypeInv, TypeOK
  <2>. QED BY <1>6, <2>1, <2>2, <2>3, <2>4 DEF TypeInv, TypeOK, SaveHasRecord, RecordSuccess
<1>7. ASSUME NEW w \in Workers, NEW r \in Rows, RecordFailure(w, r) PROVE TypeInv'
  <2>. DEFINE new == FailedRow(prev[w][r] + 1)
  <2>1. prev[w][r] \in 0..(MaxAttempts - 1)
    BY DEF TypeInv, TypeOK
  <2>2. new \in RowRec
    BY <2>1, BoundsAssumption DEF FailedRow, GivenUp, Reopened, RowRec, RowStatuses
  <2>3. row' \in [Rows -> RowRec]
    BY <1>7, <2>2 DEF RecordFailure, TypeInv, TypeOK
  <2>4. job' \in [Jobs -> JobRec]
    <3>1. JobOf[r] \in Jobs /\ job[JobOf[r]] \in JobRec
      BY RowsAssumption DEF TypeInv, TypeOK
    <3>2. job' = job \/ job' = [job EXCEPT ![JobOf[r]].failed = @ + 1]
      BY <1>7 DEF RecordFailure
    <3>. QED BY <3>1, <3>2, CountedType DEF TypeInv, TypeOK
  <2>5. hand' \in [Workers -> [Rows -> HandStates]]
    BY <1>7 DEF RecordFailure, HandStates, TypeInv, TypeOK
  <2>6. prev' \in [Workers -> [Rows -> 0..(MaxAttempts - 1)]]
    BY <1>7, BoundsAssumption DEF RecordFailure, TypeInv, TypeOK
  <2>. QED BY <1>7, <2>3, <2>4, <2>5, <2>6 DEF TypeInv, TypeOK, SaveHasRecord, RecordFailure
<1>8. ASSUME NEW w \in Workers, NEW r \in Rows, Rebroadcast(w, r) PROVE TypeInv'
  <2>1. paid' \in [Rows -> Nat]
    BY <1>8 DEF Rebroadcast, TypeInv, TypeOK
  <2>2. doubt' \in [Rows -> Nat]
    BY <1>8 DEF Rebroadcast, TypeInv, TypeOK
  <2>. QED BY <1>8, <2>1, <2>2 DEF TypeInv, TypeOK, SaveHasRecord, Rebroadcast, Fault
<1>9. ASSUME NEW w \in Workers, NEW r \in Rows, LoseReceipt(w, r) PROVE TypeInv'
  <2>1. hand' \in [Workers -> [Rows -> HandStates]]
    BY <1>9 DEF LoseReceipt, HandStates, TypeInv, TypeOK
  <2>2. doubt' \in [Rows -> Nat]
    BY <1>9 DEF LoseReceipt, TypeInv, TypeOK
  <2>. QED BY <1>9, <2>1, <2>2 DEF TypeInv, TypeOK, SaveHasRecord, LoseReceipt, Fault
<1>10. ASSUME NEW w \in Workers, NEW r \in Rows, LoseCommitAck(w, r) PROVE TypeInv'
  <2>1. row' \in [Rows -> RowRec]
    BY ZenonT(40), <1>10 DEF LoseCommitAck, CommitSuccess, RowRec, RowStatuses, TypeInv, TypeOK
  <2>2. job' \in [Jobs -> JobRec]
    <3>1. JobOf[r] \in Jobs /\ job[JobOf[r]] \in JobRec
      BY RowsAssumption DEF TypeInv, TypeOK
    <3>. QED BY <1>10, <3>1, CountedType DEF LoseCommitAck, CommitSuccess, TypeInv, TypeOK
  <2>3. hand' \in [Workers -> [Rows -> HandStates]]
    BY <1>10 DEF LoseCommitAck, HandStates, TypeInv, TypeOK
  <2>4. doubt' \in [Rows -> Nat]
    BY <1>10 DEF LoseCommitAck, TypeInv, TypeOK
  <2>. QED BY <1>10, <2>1, <2>2, <2>3, <2>4 DEF TypeInv, TypeOK, SaveHasRecord, LoseCommitAck, Fault
<1>11. ASSUME NEW w \in Workers, Crash(w) PROVE TypeInv'
  <2>1. hand' \in [Workers -> [Rows -> HandStates]]
    BY <1>11 DEF Crash, HandStates, TypeInv, TypeOK
  <2>2. prev' \in [Workers -> [Rows -> 0..(MaxAttempts - 1)]]
    BY <1>11, BoundsAssumption DEF Crash, TypeInv, TypeOK
  <2>3. doubt' \in [Rows -> Nat]
    BY <1>11 DEF Crash, TypeInv, TypeOK
  <2>4. at' \in [Procs -> ProcRec] /\ SaveHasRecord'
    <3>1. Idle \in ProcRec
      BY <1>11, WorkerIsProc, IdleType DEF ProcRec, PCs, TypeInv, TypeOK
    <3>2. Become(w, Idle)
      BY <1>11 DEF Crash
    <3>. QED BY <3>1, <3>2, <1>11, WorkerIsProc, BecomeType DEF TypeInv, TypeOK, ProcRec, SaveHasRecord, Idle
  <2>. QED BY <1>11, <2>1, <2>2, <2>3, <2>4 DEF TypeInv, TypeOK, SaveHasRecord, Crash, Fault
<1>12. ASSUME NEW w \in Workers, ReadStatuses(w) PROVE TypeInv'
  <2>1. at' \in [Procs -> ProcRec] /\ SaveHasRecord'
    <3>0. at[w] \in ProcRec
      BY WorkerIsProc DEF TypeInv, TypeOK
    <3>1. [at[w] EXCEPT !.pc = "write",
             !.calc = [j \in Jobs |-> IF j \in at[w].todo THEN NewStatus(j) ELSE "keep"]] \in ProcRec
      BY Zenon, <3>0, <1>12, NewStatusType DEF ProcRec, PCs
    <3>2. Become(w, [at[w] EXCEPT !.pc = "write",
             !.calc = [j \in Jobs |-> IF j \in at[w].todo THEN NewStatus(j) ELSE "keep"]])
      BY <1>12 DEF ReadStatuses
    <3>. QED BY Zenon, <3>1, <3>2, <1>12, WorkerIsProc, BecomeType DEF TypeInv, TypeOK, ProcRec, SaveHasRecord, Idle
  <2>. QED BY <1>12, <2>1 DEF TypeInv, TypeOK, SaveHasRecord, ReadStatuses
<1>13. ASSUME NEW p \in Procs, ReadAllStatuses(p) PROVE TypeInv'
  <2>1. at' \in [Procs -> ProcRec] /\ SaveHasRecord'
    <3>0. at[p] \in ProcRec
      BY WorkerIsProc DEF TypeInv, TypeOK
    <3>1. [at[p] EXCEPT !.pc = "writeAll",
             !.calc = [j \in Jobs |-> IF RowsOf(j) # {} THEN NewStatus(j) ELSE "keep"]] \in ProcRec
      BY Zenon, <3>0, <1>13, NewStatusType DEF ProcRec, PCs
    <3>2. Become(p, [at[p] EXCEPT !.pc = "writeAll",
             !.calc = [j \in Jobs |-> IF RowsOf(j) # {} THEN NewStatus(j) ELSE "keep"]])
      BY <1>13 DEF ReadAllStatuses
    <3>. QED BY Zenon, <3>1, <3>2, <1>13, WorkerIsProc, BecomeType DEF TypeInv, TypeOK, ProcRec, SaveHasRecord, Idle
  <2>. QED BY <1>13, <2>1 DEF TypeInv, TypeOK, SaveHasRecord, ReadAllStatuses
<1>14. ASSUME NEW p \in Procs, WriteStatuses(p) PROVE TypeInv'
  <2>1. at[p].calc \in [Jobs -> JobStatuses \cup {"keep"}]
    BY DEF ProcRec, TypeInv, TypeOK
  <2>2. job' \in [Jobs -> JobRec]
    BY SMTT(40), <1>14, <2>1 DEF WriteStatuses, JobRec, TypeInv, TypeOK
  <2>3. at' \in [Procs -> ProcRec] /\ SaveHasRecord'
    <3>0. at[p] \in ProcRec
      BY WorkerIsProc DEF TypeInv, TypeOK
    <3>1. [at[p] EXCEPT !.calc = Idle.calc] \in ProcRec
      BY <3>0, IdleType DEF ProcRec, PCs
    <3>2. PICK a \in AfterJob([at[p] EXCEPT !.calc = Idle.calc]) : Become(p, a)
      BY <1>14 DEF WriteStatuses
    <3>. QED BY <3>1, <3>2, AfterJobType, BecomeType
  <2>. QED BY <1>14, <2>2, <2>3 DEF TypeInv, TypeOK, WriteStatuses
<1>15. ASSUME NEW p \in Procs, LoopCheck(p) PROVE TypeInv'
  <2>0. at[p] \in ProcRec
    BY DEF TypeInv, TypeOK
  <2>1. at' \in [Procs -> ProcRec] /\ SaveHasRecord'
    <3>1. CASE Become(p, [at[p] EXCEPT !.pc = "rerun"])
      <4>1. [at[p] EXCEPT !.pc = "rerun"] \in ProcRec
        BY <2>0 DEF ProcRec, PCs
      <4>. QED BY <3>1, <4>1, BecomeType, <2>0 DEF ProcRec
    <3>2. CASE \E a \in AfterJob(at[p]) : Become(p, a)
      BY <3>2, <2>0, AfterJobType, BecomeType
    <3>. QED BY <1>15, <3>1, <3>2 DEF LoopCheck
  <2>. QED BY <1>15, <2>1 DEF TypeInv, TypeOK, LoopCheck
<1>16. ASSUME NEW p \in Procs, Rerun(p) PROVE TypeInv'
  <2>1. row' \in [Rows -> RowRec]
    BY <1>16, ToPendingType DEF Rerun, TypeInv, TypeOK
  <2>2. job' \in [Jobs -> JobRec]
    BY ZenonT(40), <1>16 DEF Rerun, JobRec, JobStatuses, TypeInv, TypeOK
  <2>3. paid' \in [Rows -> Nat]
    BY <1>16 DEF Rerun, TypeInv, TypeOK
  <2>4. doubt' \in [Rows -> Nat]
    BY <1>16 DEF Rerun, TypeInv, TypeOK
  <2>5. at' \in [Procs -> ProcRec] /\ SaveHasRecord'
    <3>0. at[p] \in ProcRec
      BY WorkerIsProc DEF TypeInv, TypeOK
    <3>1. [at[p] EXCEPT !.pc = "refresh"] \in ProcRec
      BY <3>0, <1>16 DEF ProcRec, PCs
    <3>2. Become(p, [at[p] EXCEPT !.pc = "refresh"])
      BY <1>16 DEF Rerun
    <3>. QED BY <3>1, <3>2, <1>16, WorkerIsProc, BecomeType DEF TypeInv, TypeOK, ProcRec, SaveHasRecord, Idle
  <2>. QED BY <1>16, <2>1, <2>2, <2>3, <2>4, <2>5 DEF TypeInv, TypeOK, SaveHasRecord, Rerun
<1>17. ASSUME NEW p \in Procs, ReadAggregates(p) PROVE TypeInv'
  <2>. DEFINE counts == [done   |-> Cardinality(WithStatus(at[p].job, {"completed"})),
                         failed |-> Cardinality(WithStatus(at[p].job, {"failed"})),
                         open   |-> HasOpen(at[p].job)]
  <2>1. counts \in AggRec
    BY CountType DEF AggRec, HasOpen
  <2>0. at[p] \in ProcRec
    BY WorkerIsProc DEF TypeInv, TypeOK
  <2>2. [at[p] EXCEPT !.pc = "apply", !.agg = counts] \in ProcRec
    BY <2>0, <2>1 DEF ProcRec, PCs
  <2>3. at' \in [Procs -> ProcRec] /\ SaveHasRecord'
    <3>1. Become(p, [at[p] EXCEPT !.pc = "apply", !.agg = counts])
      BY <1>17 DEF ReadAggregates
    <3>. QED BY <2>2, <3>1, BecomeType DEF ProcRec, PCs, TypeInv, TypeOK
  <2>. QED BY <1>17, <2>3 DEF TypeInv, TypeOK, ReadAggregates
<1>18. ASSUME NEW p \in Procs, WriteAggregates(p) PROVE TypeInv'
  <2>1. at[p].agg \in AggRec
    BY DEF ProcRec, TypeInv, TypeOK
  <2>2. job' \in [Jobs -> JobRec]
    <3>. DEFINE j == at[p].job
                st == IF Frozen(job[j]) THEN job[j].status ELSE Outcome(at[p].agg.open, at[p].agg.failed > 0)
                new == [job[j] EXCEPT !.processed = at[p].agg.done, !.failed = at[p].agg.failed,
                                      !.status = st]
    <3>1. job' = [job EXCEPT ![j] = new]
      BY <1>18 DEF WriteAggregates
    <3>2. CASE j \in Jobs
      <4>1. job[j] \in JobRec
        BY <3>2 DEF TypeInv, TypeOK
      <4>2. Outcome(at[p].agg.open, at[p].agg.failed > 0) \in JobStatuses
        BY DEF Outcome, JobStatuses
      <4>3. st \in JobStatuses
        BY <4>1, <4>2 DEF JobRec
      <4>4. new \in JobRec
        BY <2>1, <4>1, <4>3 DEF AggRec, JobRec
      <4>. QED BY <3>1, <4>4 DEF TypeInv, TypeOK
    <3>3. CASE j \notin Jobs
      BY <3>1, <3>3 DEF TypeInv, TypeOK
    <3>. QED BY <3>2, <3>3
  <2>3. at' \in [Procs -> ProcRec] /\ SaveHasRecord'
    <3>0. at[p] \in ProcRec
      BY WorkerIsProc DEF TypeInv, TypeOK
    <3>1. [at[p] EXCEPT !.pc = "check", !.agg = Idle.agg] \in ProcRec
      BY <3>0, IdleType DEF ProcRec, PCs
    <3>2. Become(p, [at[p] EXCEPT !.pc = "check", !.agg = Idle.agg])
      BY <1>18 DEF WriteAggregates
    <3>. QED BY <3>1, <3>2, BecomeType DEF ProcRec, PCs, TypeInv, TypeOK
  <2>. QED BY <1>18, <2>2, <2>3 DEF TypeInv, TypeOK, WriteAggregates
<1>19. ASSUME NEW w \in Workers, ResetStaleRows(w) PROVE TypeInv'
  <2>1. row' \in [Rows -> RowRec]
    BY <1>19, ToPendingType DEF ResetStaleRows, ResetStale, TypeInv, TypeOK
  <2>2. at' \in [Procs -> ProcRec] /\ SaveHasRecord'
    <3>0. at[w] \in ProcRec
      BY WorkerIsProc DEF TypeInv, TypeOK
    <3>1. [at[w] EXCEPT !.pc = "all"] \in ProcRec
      BY <3>0, <1>19 DEF ProcRec, PCs
    <3>2. Become(w, [at[w] EXCEPT !.pc = "all"])
      BY <1>19 DEF ResetStaleRows
    <3>. QED BY <3>1, <3>2, <1>19, WorkerIsProc, BecomeType DEF TypeInv, TypeOK, ProcRec, SaveHasRecord, Idle
  <2>. QED BY <1>19, <2>1, <2>2 DEF TypeInv, TypeOK, SaveHasRecord, ResetStaleRows, ResetStale
<1>20. ASSUME NEW p \in Procs, StepFails(p) PROVE TypeInv'
  <2>1. at' \in [Procs -> ProcRec] /\ SaveHasRecord'
    <3>1. Idle \in ProcRec
      BY <1>20, WorkerIsProc, IdleType DEF ProcRec, PCs, TypeInv, TypeOK
    <3>2. Become(p, Idle)
      BY <1>20 DEF StepFails
    <3>. QED BY <3>1, <3>2, <1>20, WorkerIsProc, BecomeType DEF TypeInv, TypeOK, ProcRec, SaveHasRecord, Idle
  <2>. QED BY <1>20, <2>1 DEF TypeInv, TypeOK, SaveHasRecord, StepFails, Fault
<1>21. ASSUME NEW o \in Operators, Requeue(o) PROVE TypeInv'
  <2>1. row' \in [Rows -> RowRec]
    BY <1>21, ToPendingType DEF Requeue, TypeInv, TypeOK
  <2>2. at' \in [Procs -> ProcRec] /\ SaveHasRecord'
    <3>0. at[o] \in ProcRec
      BY WorkerIsProc DEF TypeInv, TypeOK
    <3>1. [at[o] EXCEPT !.pc = "refresh"] \in ProcRec
      BY <3>0, <1>21 DEF ProcRec, PCs
    <3>2. Become(o, [at[o] EXCEPT !.pc = "refresh"])
      BY <1>21 DEF Requeue
    <3>. QED BY <3>1, <3>2, <1>21, WorkerIsProc, BecomeType DEF TypeInv, TypeOK, ProcRec, SaveHasRecord, Idle
  <2>. QED BY <1>21, <2>1, <2>2 DEF TypeInv, TypeOK, SaveHasRecord, Requeue
<1>22. ASSUME NEW o \in Operators, Save(o) PROVE TypeInv'
  <2>1. at[o].save \in SaveRec
    BY <1>22, WorkerIsProc DEF Save, SaveHasRecord, ProcRec, TypeInv, TypeOK
  <2>2. job' \in [Jobs -> JobRec]
    BY ZenonT(40), <1>22, <2>1 DEF Save, SaveRec, JobRec, TypeInv, TypeOK
  <2>3. at' \in [Procs -> ProcRec] /\ SaveHasRecord'
    BY <1>22, IdleType, WorkerIsProc, BecomeType DEF Save, Idle
  <2>. QED BY <1>22, <2>2, <2>3 DEF TypeInv, TypeOK, Save
<1>23. ASSUME NEW o \in Operators, RecoverStalled(o) PROVE TypeInv'
  <2>1. row' \in [Rows -> RowRec]
    BY <1>23, ToPendingType DEF RecoverStalled, ResetStale, TypeInv, TypeOK
  <2>2. at' \in [Procs -> ProcRec] /\ SaveHasRecord'
    <3>1. PICK next \in {"all", "idle"} : Become(o, [at[o] EXCEPT !.pc = next])
      BY <1>23 DEF RecoverStalled
    <3>0. at[o] \in ProcRec
      BY WorkerIsProc DEF TypeInv, TypeOK
    <3>2. [at[o] EXCEPT !.pc = next] \in ProcRec
      BY <3>0 DEF ProcRec, PCs
    <3>3. [at[o] EXCEPT !.pc = next].pc # "save"
      BY <3>0 DEF ProcRec
    <3>4. o \in Procs
      BY WorkerIsProc
    <3>. QED BY <3>1, <3>2, <3>3, <3>4, BecomeType
  <2>3. UNCHANGED <<job, hand, prev, paid, doubt, faults>> /\ commands' = commands + 1
    BY <1>23 DEF RecoverStalled, Issue, ResetStale
  <2>. QED BY <2>1, <2>2, <2>3 DEF TypeInv, TypeOK
<1>24. ASSUME NEW o \in Operators, NEW j \in Jobs, CommandOn(o, j) PROVE TypeInv'
  BY <1>24, CommandType
<1>25. CASE UNCHANGED vars
  BY <1>25 DEF vars, TypeInv, TypeOK, SaveHasRecord
<1>. QED
  BY <1>1, <1>2, <1>3, <1>4, <1>5, <1>6, <1>7, <1>8, <1>9, <1>10, <1>11, <1>12, <1>13, <1>14,
     <1>15, <1>16, <1>17, <1>18, <1>19, <1>20, <1>21, <1>22, <1>23, <1>24, <1>25, WorkerIsProc
     DEF Next, WorkerStep, OperatorStep, FaultStep, WorkerRowStep, RowFault, ReconcileStep

\* In every state reached, every variable has the shape the code gives it.
THEOREM TypeCorrect == Spec => []TypeOK
<1>1. TypeInv => TypeOK
  BY DEF TypeInv
<1>. QED BY InitType, TypeStep, <1>1, PTL DEF Spec
-----------------------------------------------------------------------------
(* The retry cap. *)

\* What every step keeps of the retry counts.
AttemptsInv == ProcessingRecoverable /\ FailedIsExhausted

\* Rows that go back to pending cannot break it.
LEMMA ToPendingAttempts ==
  ASSUME AttemptsInv, NEW S, NEW k, NEW b, row' = ToPending(S, k, b)
  PROVE  AttemptsInv'
  BY DEF AttemptsInv, ProcessingRecoverable, FailedIsExhausted, ToPending

LEMMA AttemptsStep == TypeInv /\ AttemptsInv /\ [Next]_vars => AttemptsInv'
<1>. SUFFICES ASSUME TypeInv, AttemptsInv, [Next]_vars PROVE AttemptsInv'
  OBVIOUS
<1>0. \A r \in Rows : row[r] \in RowRec
  BY DEF TypeInv, TypeOK
<1>1. ASSUME NEW r \in Rows, BackoffElapses(r) \/ StaleElapses(r) PROVE AttemptsInv'
  BY SMTT(40), <1>0, <1>1 DEF BackoffElapses, StaleElapses, AttemptsInv, ProcessingRecoverable,
                    FailedIsExhausted, RowRec, TypeInv, TypeOK
<1>2. ASSUME NEW w \in Workers, Claim(w) PROVE AttemptsInv'
  <2>1. PICK S \in ClaimSets : row' = [r \in Rows |->
            IF r \in S THEN [row[r] EXCEPT !.status = "processing", !.stale = FALSE] ELSE row[r]]
    BY Zenon, <1>2 DEF Claim
  <2>2. \A r \in S : row[r].retry < MaxAttempts
    BY DEF ClaimSets, Claimable
  <2>. QED BY Zenon, <1>0, <2>1, <2>2 DEF AttemptsInv, ProcessingRecoverable, FailedIsExhausted, RowRec
<1>3. ASSUME NEW w \in Workers, NEW r \in Rows, RecordSuccess(w, r) \/ LoseCommitAck(w, r)
      PROVE  AttemptsInv'
  <2>1. CommitSuccess(r)
    BY <1>3 DEF RecordSuccess, LoseCommitAck
  <2>. QED BY <1>0, <2>1 DEF CommitSuccess, AttemptsInv, ProcessingRecoverable, FailedIsExhausted,
                              RowRec, TypeInv, TypeOK
<1>4. ASSUME NEW w \in Workers, NEW r \in Rows, RecordFailure(w, r) PROVE AttemptsInv'
  <2>. DEFINE new == FailedRow(prev[w][r] + 1)
  <2>1. prev[w][r] + 1 \in 1..MaxAttempts
    BY BoundsAssumption DEF TypeInv, TypeOK
  <2>2. new.status # "processing" /\ (new.status = "failed" => new.retry = MaxAttempts)
    BY <2>1, BoundsAssumption DEF FailedRow, GivenUp, Reopened
  <2>3. row' = [row EXCEPT ![r] = new]
    BY <1>4 DEF RecordFailure
  <2>. QED BY <2>2, <2>3 DEF AttemptsInv, ProcessingRecoverable, FailedIsExhausted, TypeInv, TypeOK
<1>5. ASSUME NEW p \in Procs, Rerun(p) PROVE AttemptsInv'
  BY <1>5, ToPendingAttempts DEF Rerun
<1>6. ASSUME NEW w \in Workers, ResetStaleRows(w) PROVE AttemptsInv'
  BY <1>6, ToPendingAttempts DEF ResetStaleRows, ResetStale
<1>7. ASSUME NEW o \in Operators, RecoverStalled(o) PROVE AttemptsInv'
  BY <1>7, ToPendingAttempts DEF RecoverStalled, ResetStale
<1>8. ASSUME NEW o \in Operators, Requeue(o) PROVE AttemptsInv'
  BY <1>8, ToPendingAttempts DEF Requeue
<1>9. ASSUME NEW o \in Operators, NEW j \in Jobs, RetryFailed(o, j) \/ RequeueIncomplete(o, j)
      PROVE  AttemptsInv'
  BY <1>9, ToPendingAttempts DEF RetryFailed, RequeueIncomplete
<1>10. ASSUME UNCHANGED row PROVE AttemptsInv'
  BY <1>10 DEF AttemptsInv, ProcessingRecoverable, FailedIsExhausted
<1>11. CASE \E r \in Rows : BackoffElapses(r) \/ StaleElapses(r)
  BY <1>1, <1>11
<1>12. CASE \E w \in Workers : WorkerStep(w)
  BY <1>2, <1>3, <1>4, <1>5, <1>6, <1>10, <1>12, WorkerIsProc
     DEF WorkerStep, WorkerRowStep, ReconcileStep, SendFails, Broadcast, ReadStatuses,
         ReadAllStatuses, WriteStatuses, LoopCheck, ReadAggregates, WriteAggregates
<1>13. ASSUME NEW o \in Operators, OperatorStep(o) PROVE AttemptsInv'
  <2>1. ASSUME NEW j \in Jobs, CommandOn(o, j) PROVE AttemptsInv'
    <3>1. RetryFailed(o, j) \/ RequeueIncomplete(o, j) \/ UNCHANGED row
      BY <2>1 DEF CommandOn, Start, StartNow, PauseRoute, ResumeRoute, CancelRoute, EditRoute,
                  QueueRoute, ReadThenSave, AdminPause, PromoteDraft, ReconcileJob
    <3>. QED BY <1>9, <1>10, <3>1
  <2>2. CASE ReconcileStep(o)
    BY <1>5, <1>10, <2>2, WorkerIsProc
       DEF ReconcileStep, ReadAllStatuses, WriteStatuses, LoopCheck, ReadAggregates, WriteAggregates
  <2>3. CASE RecoverStalled(o) \/ Requeue(o) \/ Save(o)
    BY <1>7, <1>8, <1>10, <2>3 DEF Save
  <2>. QED BY <1>13, <2>1, <2>2, <2>3 DEF OperatorStep
<1>14. CASE FaultStep
  BY <1>3, <1>10, <1>14
     DEF FaultStep, RowFault, Crash, Rebroadcast, LoseReceipt, StepFails
<1>15. CASE UNCHANGED vars
  BY <1>10, <1>15 DEF vars
<1>. QED BY <1>11, <1>12, <1>13, <1>14, <1>15 DEF Next

LEMMA AttemptsAlways == Spec => [](TypeInv /\ AttemptsInv)
<1>1. Init => AttemptsInv
  BY DEF Init, AttemptsInv, ProcessingRecoverable, FailedIsExhausted
<1>. QED BY <1>1, InitType, TypeStep, AttemptsStep, PTL DEF Spec

\* Whatever operators, faults and loops do, no processing row is beyond the
\* reach of the stale reset: reconcileStaleProcessingRows can take it back.
THEOREM ProcessingAlwaysRecoverable == Spec => []ProcessingRecoverable
<1>1. AttemptsInv => ProcessingRecoverable
  BY DEF AttemptsInv
<1>. QED BY <1>1, AttemptsAlways, PTL

\* A row is marked failed only when its attempts are used up.
THEOREM FailedAlwaysExhausted == Spec => []FailedIsExhausted
<1>1. AttemptsInv => FailedIsExhausted
  BY DEF AttemptsInv
<1>. QED BY <1>1, AttemptsAlways, PTL

-----------------------------------------------------------------------------
(* Leases.  The queue keeps nonces and payments safe only where nobody     *)
(* takes a row out of the hands of a live worker: the assumption NoSeizure *)
(* names the ways the code has of doing that.                              *)

\* No loop job is rerun (a second reconciler reruns over rows in flight), no
\* row of a live worker outlives the stale threshold, and neither the queue
\* route nor requeue-incomplete is used while rows are processing.
NoSeizure ==
    /\ LoopJobs = {}
    /\ "slow" \notin Faults
    /\ "queue" \notin Commands
    /\ "requeueIncomplete" \notin Commands

NoRerun == \A p \in Procs : at[p].pc \notin {"rerun", "requeue"}

\* A row in a worker's hand is processing, fresh and unchanged since its claim;
\* only a row whose commit was applied but reported as failed is completed.
HeldIsLeased ==
    \A w \in Workers : \A r \in Rows : hand[w][r] # "none" =>
        /\ at[w].pc = "sending"
        /\ ~row[r].stale
        /\ prev[w][r] = row[r].retry
        /\ \/ row[r].status = "processing"
           \/ row[r].status = "completed" /\ hand[w][r] = "erred"

HolderIsUnique ==
    \A w, v \in Workers : \A r \in Rows : hand[w][r] # "none" /\ hand[v][r] # "none" => w = v

OneProcessingPerSigner ==
    \A r, q \in Rows :
        row[r].status = "processing" /\ row[q].status = "processing" /\ SignerOf[r] = SignerOf[q] => r = q

LeaseInv == NoRerun /\ HeldIsLeased /\ HolderIsUnique /\ OneProcessingPerSigner

-----------------------------------------------------------------------------

\* A process that holds no row may go anywhere but to a rerun or a requeue.
LEMMA FreeProcessStep ==
  ASSUME TypeInv, LeaseInv, NEW p \in Procs, NEW a, Become(p, a),
         a.pc \notin {"rerun", "requeue"},
         \A r \in Rows : p \in Workers => hand[p][r] = "none",
         UNCHANGED <<row, hand, prev>>
  PROVE  LeaseInv'
<1>1. at' = [at EXCEPT ![p] = a] /\ at \in [Procs -> ProcRec]
  BY DEF Become, TypeInv, TypeOK
<1>2. NoRerun'
  BY <1>1 DEF LeaseInv, NoRerun
<1>3. HeldIsLeased'
  BY <1>1, WorkerIsProc DEF LeaseInv, HeldIsLeased
<1>. QED BY <1>2, <1>3 DEF LeaseInv, HolderIsUnique, OneProcessingPerSigner

\* A process that holds no row may send rows that nobody holds back to pending.
LEMMA ToPendingStep ==
  ASSUME TypeInv, LeaseInv, NEW S, NEW k, NEW b, row' = ToPending(S, k, b),
         \A r \in S \cap Rows : Unheld(r), UNCHANGED <<hand, prev>>,
         NEW p \in Procs, NEW a, Become(p, a), a.pc \notin {"rerun", "requeue"},
         \A r \in Rows : p \in Workers => hand[p][r] = "none"
  PROVE  LeaseInv'
<1>1. \A r \in Rows : r \notin S => row'[r] = row[r]
  BY DEF ToPending
<1>2. \A r \in Rows : r \in S => row'[r].status = "pending"
  BY DEF ToPending
<1>3. at' = [at EXCEPT ![p] = a] /\ at \in [Procs -> ProcRec]
  BY DEF Become, TypeInv, TypeOK
<1>4. NoRerun'
  BY <1>3 DEF LeaseInv, NoRerun
<1>5. HeldIsLeased'
  <2>1. ASSUME NEW w \in Workers, NEW r \in Rows, hand[w][r] # "none"
        PROVE  at'[w] = at[w] /\ row'[r] = row[r]
    BY <1>1, <1>3, <2>1, WorkerIsProc DEF Unheld
  <2>. QED BY <2>1 DEF LeaseInv, HeldIsLeased
<1>6. OneProcessingPerSigner'
  BY <1>1, <1>2 DEF LeaseInv, OneProcessingPerSigner
<1>. QED BY <1>4, <1>5, <1>6 DEF LeaseInv, HolderIsUnique

\* A worker that does not hold a row cannot be sending it.
LEMMA OnlySendersHold ==
  ASSUME LeaseInv, NEW w \in Workers, at[w].pc # "sending"
  PROVE  \A r \in Rows : hand[w][r] = "none"
  BY DEF LeaseInv, HeldIsLeased

\* An operator is no worker, so it holds nothing.
LEMMA OperatorIsNoWorker == \A o \in Operators : o \notin Workers
  BY ProcsAssumption

\* The row a worker holds, or whose outcome it records, is its own.
LEMMA OwnRowStep ==
  ASSUME TypeInv, LeaseInv, NEW w \in Workers, NEW r \in Rows, hand[w][r] # "none",
         NEW new, row' = [row EXCEPT ![r] = new], new.status # "processing",
         hand' = [hand EXCEPT ![w][r] = "none"], UNCHANGED at,
         prev' = [prev EXCEPT ![w][r] = 0]
  PROVE  LeaseInv'
<1>1. \A q \in Rows : q # r => row'[q] = row[q]
  BY DEF TypeInv, TypeOK
<1>2. row'[r] = new
  BY DEF TypeInv, TypeOK
<1>3. \A v \in Workers : \A q \in Rows : hand'[v][q] = IF v = w /\ q = r THEN "none" ELSE hand[v][q]
  BY DEF TypeInv, TypeOK
<1>4. \A v \in Workers : \A q \in Rows : ~(v = w /\ q = r) => prev'[v][q] = prev[v][q]
  BY DEF TypeInv, TypeOK
<1>5. \A v \in Workers : hand'[v][r] = "none"
  BY <1>3 DEF LeaseInv, HolderIsUnique
<1>6. HeldIsLeased'
  <2>1. ASSUME NEW v \in Workers, NEW q \in Rows, hand'[v][q] # "none"
        PROVE  q # r /\ hand[v][q] # "none" /\ hand'[v][q] = hand[v][q]
    BY <2>1, <1>3, <1>5
  <2>. QED BY <2>1, <1>1, <1>4 DEF LeaseInv, HeldIsLeased
<1>7. OneProcessingPerSigner'
  BY <1>1, <1>2 DEF LeaseInv, OneProcessingPerSigner
<1>8. HolderIsUnique'
  BY <1>3 DEF LeaseInv, HolderIsUnique
<1>. QED BY <1>6, <1>7, <1>8 DEF LeaseInv, NoRerun

\* A claim takes pending rows of signers that have no row processing.
LEMMA ClaimStep ==
  ASSUME TypeInv, LeaseInv, NEW w \in Workers, Claim(w)
  PROVE  LeaseInv'
<1>1. PICK S \in ClaimSets :
        /\ row' = [r \in Rows |->
              IF r \in S THEN [row[r] EXCEPT !.status = "processing", !.stale = FALSE] ELSE row[r]]
        /\ hand' = [hand EXCEPT ![w] = [r \in Rows |-> IF r \in S THEN "claimed" ELSE "none"]]
        /\ prev' = [prev EXCEPT ![w] = [r \in Rows |-> IF r \in S THEN row[r].retry ELSE 0]]
        /\ Become(w, [at[w] EXCEPT !.pc = "sending", !.todo = {JobOf[r] : r \in S}])
  BY Zenon DEF Claim
<1>2. /\ S \subseteq Rows
      /\ \A r \in S : row[r].status = "pending" /\ SignerFree(r)
      /\ \A r, q \in S : SignerOf[r] = SignerOf[q] => r = q
  BY DEF ClaimSets, Claimable
<1>3. at[w].pc = "idle" /\ \A r \in Rows : hand[w][r] = "none"
  BY Zenon, OnlySendersHold DEF Claim
<1>4. \A r \in Rows : row[r] \in RowRec
  BY DEF TypeInv, TypeOK
<1>5. /\ \A r \in S : row'[r].status = "processing" /\ ~row'[r].stale /\ row'[r].retry = row[r].retry
      /\ \A r \in Rows : r \notin S => row'[r] = row[r]
  BY Zenon, <1>1, <1>2, <1>4 DEF RowRec
<1>6. /\ at'[w].pc = "sending"
      /\ \A p \in Procs : p # w => at'[p] = at[p]
  <2>1. at \in [Procs -> ProcRec] /\ at[w] \in ProcRec
    BY WorkerIsProc DEF TypeInv, TypeOK
  <2>2. [at[w] EXCEPT !.pc = "sending", !.todo = {JobOf[r] : r \in S}].pc = "sending"
    BY <2>1 DEF ProcRec
  <2>3. at' = [at EXCEPT ![w] = [at[w] EXCEPT !.pc = "sending", !.todo = {JobOf[r] : r \in S}]]
    BY Zenon, <1>1 DEF Become
  <2>. HIDE DEF ProcRec
  <2>. QED BY <2>1, <2>2, <2>3, WorkerIsProc
<1>7. \A v \in Workers : \A r \in Rows :
        /\ v = w => /\ hand'[v][r] = IF r \in S THEN "claimed" ELSE "none"
                    /\ r \in S => prev'[v][r] = row[r].retry
        /\ v # w => hand'[v][r] = hand[v][r] /\ prev'[v][r] = prev[v][r]
  BY Zenon, <1>1 DEF TypeInv, TypeOK
<1>8. \A v \in Workers : \A r \in S : hand[v][r] = "none"
  BY <1>2 DEF LeaseInv, HeldIsLeased
<1>9. NoRerun'
  BY <1>6, WorkerIsProc DEF LeaseInv, NoRerun
<1>10. HeldIsLeased'
  <2>. SUFFICES ASSUME NEW v \in Workers, NEW r \in Rows, hand'[v][r] # "none"
                PROVE  /\ at'[v].pc = "sending"
                       /\ ~row'[r].stale
                       /\ prev'[v][r] = row'[r].retry
                       /\ \/ row'[r].status = "processing"
                          \/ row'[r].status = "completed" /\ hand'[v][r] = "erred"
    BY DEF HeldIsLeased
  <2>1. CASE v = w
    BY <2>1, <1>5, <1>6, <1>7
  <2>2. CASE v # w
    BY <2>2, <1>5, <1>6, <1>7, <1>8, WorkerIsProc DEF LeaseInv, HeldIsLeased
  <2>. QED BY <2>1, <2>2
<1>11. HolderIsUnique'
  BY <1>3, <1>7, <1>8 DEF LeaseInv, HolderIsUnique
<1>12. OneProcessingPerSigner'
  BY <1>2, <1>5 DEF LeaseInv, OneProcessingPerSigner, SignerFree
<1>. QED BY SMTT(40), <1>9, <1>10, <1>11, <1>12 DEF LeaseInv

\* A worker that goes from one stage of a row to the next keeps its lease.
LEMMA SameLeaseStep ==
  ASSUME TypeInv, LeaseInv, NEW w \in Workers, NEW r \in Rows, hand[w][r] # "none",
         row[r].status = "processing", NEW h \in HandStates, hand' = [hand EXCEPT ![w][r] = h],
         UNCHANGED <<row, prev, at>>
  PROVE  LeaseInv'
<1>1. \A v \in Workers : \A q \in Rows : hand'[v][q] = IF v = w /\ q = r THEN h ELSE hand[v][q]
  BY DEF TypeInv, TypeOK
<1>2. \A v \in Workers : \A q \in Rows : hand'[v][q] # "none" => hand[v][q] # "none"
  BY <1>1
<1>3. HeldIsLeased'
  BY <1>1, <1>2 DEF LeaseInv, HeldIsLeased
<1>4. HolderIsUnique'
  BY <1>2 DEF LeaseInv, HolderIsUnique
<1>. QED BY <1>3, <1>4 DEF LeaseInv, NoRerun, OneProcessingPerSigner

\* A commit whose answer is lost leaves the row with its worker, completed.
LEMMA LoseCommitAckStep ==
  ASSUME TypeInv, LeaseInv, NEW w \in Workers, NEW r \in Rows, LoseCommitAck(w, r)
  PROVE  LeaseInv'
<1>1. row[r] \in RowRec
  BY DEF TypeInv, TypeOK
<1>2. /\ row'[r].status = "completed" /\ ~row'[r].stale /\ row'[r].retry = row[r].retry
      /\ \A q \in Rows : q # r => row'[q] = row[q]
  BY <1>1 DEF LoseCommitAck, CommitSuccess, TypeInv, TypeOK, RowRec
<1>3. \A v \in Workers : \A q \in Rows :
        hand'[v][q] = IF v = w /\ q = r THEN "erred" ELSE hand[v][q]
  BY DEF LoseCommitAck, TypeInv, TypeOK
<1>4. hand[w][r] = "sent" /\ UNCHANGED <<prev, at>>
  BY DEF LoseCommitAck
<1>5. \A v \in Workers : hand[v][r] # "none" => v = w
  BY <1>4 DEF LeaseInv, HolderIsUnique
<1>6. HeldIsLeased'
  BY <1>2, <1>3, <1>4, <1>5 DEF LeaseInv, HeldIsLeased
<1>7. HolderIsUnique'
  BY <1>3, <1>4 DEF LeaseInv, HolderIsUnique
<1>8. OneProcessingPerSigner'
  BY <1>2 DEF LeaseInv, OneProcessingPerSigner
<1>. QED BY <1>4, <1>6, <1>7, <1>8 DEF LeaseInv, NoRerun

\* A dead worker holds nothing.
LEMMA CrashStep ==
  ASSUME TypeInv, LeaseInv, NEW w \in Workers, Crash(w)
  PROVE  LeaseInv'
<1>1. \A v \in Workers : \A q \in Rows :
        /\ v = w => hand'[v][q] = "none"
        /\ v # w => hand'[v][q] = hand[v][q] /\ prev'[v][q] = prev[v][q]
  BY DEF Crash, TypeInv, TypeOK
<1>2. at' = [at EXCEPT ![w] = Idle] /\ at \in [Procs -> ProcRec] /\ UNCHANGED row
  BY DEF Crash, Become, TypeInv, TypeOK
<1>3. HeldIsLeased'
  BY <1>1, <1>2, WorkerIsProc DEF LeaseInv, HeldIsLeased
<1>4. HolderIsUnique'
  BY <1>1 DEF LeaseInv, HolderIsUnique
<1>5. NoRerun'
  BY <1>2 DEF LeaseInv, NoRerun, Idle
<1>. QED BY <1>2, <1>3, <1>4, <1>5 DEF LeaseInv, OneProcessingPerSigner

\* The steps of a reconcile touch no row and no hand, and never reach a rerun
\* when no job loops.
LEMMA ReconcileLease ==
  ASSUME NoSeizure, TypeInv, LeaseInv, NEW p \in Procs, ReconcileStep(p)
  PROVE  LeaseInv'
<1>0. at[p] \in ProcRec /\ at[p].pc # "rerun"
  BY DEF TypeInv, TypeOK, LeaseInv, NoRerun
<1>1. ASSUME at[p].pc # "sending" PROVE \A r \in Rows : p \in Workers => hand[p][r] = "none"
  BY <1>1, OnlySendersHold
<1>2. ASSUME NEW a \in ProcRec, NEW b \in AfterJob(a) PROVE b.pc \notin {"rerun", "requeue"}
  <2>1. b.pc = "check" \/ b.pc = "save" \/ b = Idle
    BY Zenon, <1>2 DEF AfterJob, ProcRec
  <2>. QED BY <2>1 DEF Idle
<1>3. CASE ReadAllStatuses(p)
  <2>. DEFINE a == [at[p] EXCEPT !.pc = "writeAll",
                      !.calc = [j \in Jobs |-> IF RowsOf(j) # {} THEN NewStatus(j) ELSE "keep"]]
  <2>1. a.pc = "writeAll"
    BY <1>0 DEF ProcRec
  <2>. QED BY <1>1, <1>3, <2>1, FreeProcessStep DEF ReadAllStatuses
<1>4. CASE WriteStatuses(p)
  <2>1. PICK b \in AfterJob([at[p] EXCEPT !.calc = Idle.calc]) : Become(p, b)
    BY <1>4 DEF WriteStatuses
  <2>2. [at[p] EXCEPT !.calc = Idle.calc] \in ProcRec
    BY <1>0, IdleType DEF ProcRec
  <2>3. at[p].pc # "sending" /\ UNCHANGED <<row, hand, prev>>
    BY <1>4 DEF WriteStatuses
  <2>. QED BY <1>1, <1>2, <2>1, <2>2, <2>3, FreeProcessStep
<1>5. CASE LoopCheck(p)
  <2>1. PICK b \in AfterJob(at[p]) : Become(p, b)
    BY <1>5 DEF LoopCheck, NoSeizure
  <2>2. at[p].pc # "sending" /\ UNCHANGED <<row, hand, prev>>
    BY <1>5 DEF LoopCheck
  <2>. QED BY <1>0, <1>1, <1>2, <2>1, <2>2, FreeProcessStep
<1>6. CASE ReadAggregates(p)
  <2>. DEFINE a == [at[p] EXCEPT !.pc = "apply",
         !.agg = [done   |-> Cardinality(WithStatus(at[p].job, {"completed"})),
                  failed |-> Cardinality(WithStatus(at[p].job, {"failed"})),
                  open   |-> HasOpen(at[p].job)]]
  <2>1. a.pc = "apply"
    BY <1>0 DEF ProcRec
  <2>2. Become(p, a) /\ at[p].pc # "sending" /\ UNCHANGED <<row, hand, prev>>
    BY <1>6 DEF ReadAggregates
  <2>. QED BY <1>1, <2>1, <2>2, FreeProcessStep
<1>7. CASE WriteAggregates(p)
  <2>. DEFINE a == [at[p] EXCEPT !.pc = "check", !.agg = Idle.agg]
  <2>1. a.pc = "check"
    BY <1>0 DEF ProcRec
  <2>. QED BY <1>1, <1>7, <2>1, FreeProcessStep DEF WriteAggregates
<1>8. ~Rerun(p)
  BY <1>0 DEF Rerun
<1>. QED BY <1>3, <1>4, <1>5, <1>6, <1>7, <1>8 DEF ReconcileStep

\* The commands that NoSeizure leaves reset only rows nobody holds.
LEMMA CommandLease ==
  ASSUME NoSeizure, TypeInv, LeaseInv, NEW o \in Operators, NEW j \in Jobs, CommandOn(o, j)
  PROVE  LeaseInv'
<1>0. o \in Procs /\ o \notin Workers /\ at[o] \in ProcRec /\ UNCHANGED <<hand, prev>>
  BY WorkerIsProc, OperatorIsNoWorker
     DEF TypeInv, TypeOK, CommandOn, Start, StartNow, PauseRoute, ResumeRoute, CancelRoute,
         EditRoute, QueueRoute, ReadThenSave, AdminPause, RetryFailed, RequeueIncomplete,
         PromoteDraft, ReconcileJob
<1>1. ~QueueRoute(o, j) /\ ~RequeueIncomplete(o, j)
  BY DEF NoSeizure, QueueRoute, RequeueIncomplete, Issue
<1>2. ASSUME NEW rec, ReadThenSave(o, j, "save", rec) PROVE LeaseInv'
  <2>. DEFINE a == [at[o] EXCEPT !.pc = "save", !.job = j, !.save = rec]
  <2>1. a.pc = "save"
    BY <1>0 DEF ProcRec
  <2>2. Become(o, a) /\ UNCHANGED <<row, hand, prev>>
    BY <1>2 DEF ReadThenSave
  <2>. QED BY <1>0, <2>1, <2>2, FreeProcessStep
<1>3. ASSUME ThenRefresh(o, j), UNCHANGED row PROVE LeaseInv'
  <2>. DEFINE a == [at[o] EXCEPT !.pc = "refresh", !.job = j]
  <2>1. a.pc = "refresh"
    BY <1>0 DEF ProcRec
  <2>. QED BY <1>0, <1>3, <2>1, FreeProcessStep DEF ThenRefresh
<1>4. CASE Start(o, j) \/ StartNow(o, j)
  <2>1. UNCHANGED <<row, hand, prev, at>>
    BY <1>4 DEF Start, StartNow
  <2>. QED BY <2>1 DEF LeaseInv, NoRerun, HeldIsLeased, HolderIsUnique, OneProcessingPerSigner
<1>5. CASE PauseRoute(o, j) \/ ResumeRoute(o, j) \/ CancelRoute(o, j) \/ EditRoute(o, j)
  BY <1>2, <1>5 DEF PauseRoute, ResumeRoute, CancelRoute, EditRoute
<1>6. CASE AdminPause(o, j) \/ PromoteDraft(o, j) \/ ReconcileJob(o, j)
  BY <1>3, <1>6 DEF AdminPause, PromoteDraft, ReconcileJob
<1>7. CASE RetryFailed(o, j)
  <2>. DEFINE a == [at[o] EXCEPT !.pc = "refresh", !.job = j]
  <2>1. Become(o, a) /\ row' = ToPending(RetriedRows(j), FALSE, FALSE)
    BY <1>7 DEF RetryFailed, ThenRefresh
  <2>2. a.pc = "refresh"
    BY <1>0 DEF ProcRec
  <2>3. \A r \in RetriedRows(j) \cap Rows : Unheld(r)
    BY DEF RetriedRows, WithStatus, RowsOf, LeaseInv, HeldIsLeased, Unheld
  <2>. HIDE DEF a
  <2>. QED BY <1>0, <2>1, <2>2, <2>3, ToPendingStep
<1>. QED BY <1>1, <1>4, <1>5, <1>6, <1>7 DEF CommandOn

\* Rows old enough to be reset are nobody's: the row of a live worker is fresh.
LEMMA StaleIsUnheld ==
  ASSUME LeaseInv
  PROVE  \A r \in StaleRows : r \in Rows /\ Unheld(r)
  BY DEF LeaseInv, HeldIsLeased, Unheld, StaleRows

\* A worker's own steps keep every lease, its own included.
LEMMA WorkerLease ==
  ASSUME NoSeizure, TypeInv, LeaseInv, NEW w \in Workers, WorkerStep(w)
  PROVE  LeaseInv'
<1>0. w \in Procs /\ at[w] \in ProcRec
  BY WorkerIsProc DEF TypeInv, TypeOK
<1>1. CASE Claim(w)
  BY <1>1, ClaimStep
<1>2. CASE ReadStatuses(w)
  <2>. DEFINE a == [at[w] EXCEPT !.pc = "write",
         !.calc = [j \in Jobs |-> IF j \in at[w].todo THEN NewStatus(j) ELSE "keep"]]
  <2>1. a.pc = "write"
    BY <1>0 DEF ProcRec
  <2>2. Become(w, a) /\ UNCHANGED <<row, hand, prev>> /\ Held(w) = {}
    BY <1>2 DEF ReadStatuses
  <2>3. \A r \in Rows : hand[w][r] = "none"
    BY <2>2 DEF Held
  <2>. QED BY <1>0, <2>1, <2>2, <2>3, FreeProcessStep
<1>3. CASE ResetStaleRows(w)
  <2>. DEFINE a == [at[w] EXCEPT !.pc = "all"]
  <2>1. Become(w, a) /\ row' = ToPending(StaleRows, TRUE, FALSE) /\ UNCHANGED <<hand, prev>>
        /\ at[w].pc = "idle"
    BY <1>3 DEF ResetStaleRows, ResetStale
  <2>2. a.pc = "all"
    BY <1>0 DEF ProcRec
  <2>3. \A r \in Rows : hand[w][r] = "none"
    BY <2>1, OnlySendersHold
  <2>. HIDE DEF a
  <2>. QED BY <1>0, <2>1, <2>2, <2>3, StaleIsUnheld, ToPendingStep
<1>4. CASE ReconcileStep(w)
  BY <1>0, <1>4, ReconcileLease
<1>5. ASSUME NEW r \in Rows, WorkerRowStep(w, r) PROVE LeaseInv'
  <2>1. CASE SendFails(w, r)
    BY <2>1, SameLeaseStep DEF SendFails, LeaseInv, HeldIsLeased, HandStates
  <2>2. CASE Broadcast(w, r)
    BY <2>2, SameLeaseStep DEF Broadcast, LeaseInv, HeldIsLeased, HandStates
  <2>3. CASE RecordSuccess(w, r)
    <3>. DEFINE new == [row[r] EXCEPT !.status = "completed", !.backoff = FALSE, !.stale = FALSE]
    <3>1. row[r] \in RowRec
      BY DEF TypeInv, TypeOK
    <3>2. new.status # "processing"
      BY <3>1 DEF RowRec
    <3>3. row' = [row EXCEPT ![r] = new]
      BY <2>3 DEF RecordSuccess, CommitSuccess
    <3>. HIDE DEF new
    <3>. QED BY <2>3, <3>2, <3>3, OwnRowStep DEF RecordSuccess
  <2>4. CASE RecordFailure(w, r)
    <3>. DEFINE new == FailedRow(prev[w][r] + 1)
    <3>1. new.status # "processing"
      BY DEF FailedRow, GivenUp, Reopened
    <3>. HIDE DEF new
    <3>2. row' = [row EXCEPT ![r] = new]
      BY <2>4 DEF RecordFailure, new
    <3>. QED BY <2>4, <3>1, <3>2, OwnRowStep DEF RecordFailure
  <2>. QED BY <1>5, <2>1, <2>2, <2>3, <2>4 DEF WorkerRowStep
<1>. QED BY <1>1, <1>2, <1>3, <1>4, <1>5 DEF WorkerStep

\* The operator commands that NoSeizure leaves keep every lease.
LEMMA OperatorLease ==
  ASSUME NoSeizure, TypeInv, LeaseInv, NEW o \in Operators, OperatorStep(o)
  PROVE  LeaseInv'
<1>0. o \in Procs /\ o \notin Workers /\ at[o] \in ProcRec
  BY WorkerIsProc, OperatorIsNoWorker DEF TypeInv, TypeOK
<1>1. CASE RecoverStalled(o)
  <2>1. PICK next \in {"all", "idle"} : Become(o, [at[o] EXCEPT !.pc = next])
    BY <1>1 DEF RecoverStalled
  <2>. DEFINE a == [at[o] EXCEPT !.pc = next]
  <2>2. a.pc = next
    BY <1>0 DEF ProcRec
  <2>3. row' = ToPending(StaleRows, TRUE, FALSE) /\ UNCHANGED <<hand, prev>>
    BY <1>1 DEF RecoverStalled, ResetStale
  <2>4. Become(o, a)
    BY <2>1
  <2>. HIDE DEF a
  <2>. QED BY <1>0, <2>2, <2>3, <2>4, StaleIsUnheld, ToPendingStep
<1>2. ~Requeue(o)
  BY <1>0 DEF Requeue, LeaseInv, NoRerun
<1>3. CASE Save(o)
  BY <1>0, <1>3, FreeProcessStep DEF Save, Idle
<1>4. CASE ReconcileStep(o)
  BY <1>0, <1>4, ReconcileLease
<1>5. CASE \E j \in Jobs : CommandOn(o, j)
  BY <1>5, CommandLease
<1>. QED BY <1>1, <1>2, <1>3, <1>4, <1>5 DEF OperatorStep

\* So do the faults that NoSeizure leaves.
LEMMA FaultLease ==
  ASSUME NoSeizure, TypeInv, LeaseInv, FaultStep
  PROVE  LeaseInv'
<1>1. ASSUME NEW w \in Workers, Crash(w) PROVE LeaseInv'
  BY <1>1, CrashStep
<1>2. ASSUME NEW w \in Workers, NEW r \in Rows, RowFault(w, r) PROVE LeaseInv'
  <2>1. CASE Rebroadcast(w, r)
    BY <2>1 DEF Rebroadcast, LeaseInv, NoRerun, HeldIsLeased, HolderIsUnique, OneProcessingPerSigner
  <2>2. CASE LoseReceipt(w, r)
    BY <2>2, SameLeaseStep DEF LoseReceipt, LeaseInv, HeldIsLeased, HandStates
  <2>3. CASE LoseCommitAck(w, r)
    BY <2>3, LoseCommitAckStep
  <2>. QED BY <1>2, <2>1, <2>2, <2>3 DEF RowFault
<1>3. ASSUME NEW p \in Procs, StepFails(p) PROVE LeaseInv'
  <2>1. Become(p, Idle) /\ UNCHANGED <<row, hand, prev>>
    BY <1>3 DEF StepFails
  <2>2. ASSUME p \in Workers PROVE \A r \in Rows : hand[p][r] = "none"
    BY <1>3, <2>2, OnlySendersHold DEF StepFails, Held
  <2>. QED BY <2>1, <2>2, FreeProcessStep DEF Idle
<1>. QED BY <1>1, <1>2, <1>3 DEF FaultStep

\* Time ages only rows that nobody holds.
LEMMA TimeLease ==
  ASSUME NoSeizure, TypeInv, LeaseInv, NEW r \in Rows, BackoffElapses(r) \/ StaleElapses(r)
  PROVE  LeaseInv'
<1>1. UNCHANGED <<hand, prev, at>>
  BY DEF BackoffElapses, StaleElapses
<1>2. \A q \in Rows : row'[q].status = row[q].status /\ row'[q].retry = row[q].retry
  <2>1. row \in [Rows -> RowRec]
    BY DEF TypeInv, TypeOK
  <2>2. CASE BackoffElapses(r)
    BY <2>1, <2>2 DEF BackoffElapses, RowRec
  <2>3. CASE StaleElapses(r)
    BY <2>1, <2>3 DEF StaleElapses, RowRec
  <2>. QED BY <2>2, <2>3
<1>3. \A q \in Rows : row'[q].stale = row[q].stale \/ Unheld(q)
  <2>1. CASE BackoffElapses(r)
    BY <2>1 DEF BackoffElapses, TypeInv, TypeOK, RowRec
  <2>2. CASE StaleElapses(r)
    BY <2>2 DEF StaleElapses, NoSeizure, Fault, TypeInv, TypeOK
  <2>. QED BY <2>1, <2>2
<1>4. HeldIsLeased'
  BY <1>1, <1>2, <1>3 DEF LeaseInv, HeldIsLeased, Unheld
<1>. QED BY <1>1, <1>2, <1>4 DEF LeaseInv, NoRerun, HolderIsUnique, OneProcessingPerSigner

LEMMA LeaseStep ==
  ASSUME NoSeizure, TypeInv, LeaseInv, [Next]_vars
  PROVE  LeaseInv'
<1>1. ASSUME UNCHANGED vars PROVE LeaseInv'
  BY <1>1 DEF vars, LeaseInv, NoRerun, HeldIsLeased, HolderIsUnique, OneProcessingPerSigner
<1>. QED BY <1>1, TimeLease, WorkerLease, OperatorLease, FaultLease DEF Next

LEMMA InitLease == Init => LeaseInv
  BY WorkerIsProc DEF Init, Idle, LeaseInv, NoRerun, HeldIsLeased, HolderIsUnique, OneProcessingPerSigner

\* What a worker holds is leased to it alone, for ever.
LEMMA LeaseAlways ==
  ASSUME NoSeizure
  PROVE  Spec => [](TypeInv /\ LeaseInv)
<1>1. Init => TypeInv /\ LeaseInv
  BY InitType, InitLease
<1>2. TypeInv /\ LeaseInv /\ [Next]_vars => (TypeInv /\ LeaseInv)'
  BY TypeStep, LeaseStep
<1>. QED BY <1>1, <1>2, PTL DEF Spec

\* No two rows of one signer are in flight, on any number of workers.
THEOREM OneInFlight ==
  ASSUME NoSeizure
  PROVE  Spec => []OneInFlightPerSigner
<1>1. LeaseInv => OneInFlightPerSigner
  BY DEF LeaseInv, HeldIsLeased, HolderIsUnique, OneProcessingPerSigner, OneInFlightPerSigner, InFlight
<1>. QED BY <1>1, LeaseAlways, PTL

-----------------------------------------------------------------------------
(* What is paid.  A transfer the chain accepted is known while its row is  *)
(* "sent", and recorded once the row is completed; it is hidden only by a  *)
(* fault that doubt counts.                                                *)

Sent(r) == \E w \in Workers : hand[w][r] = "sent"
Recorded(r) == row[r].status = "completed" /\ Unheld(r)

PayInv ==
    \A r \in Rows :
        /\ paid[r] <= doubt[r] + 1
        /\ ~Sent(r) /\ ~Recorded(r) => paid[r] <= doubt[r]
        /\ Sent(r) \/ row[r].status = "completed" => paid[r] > 0

\* A step that leaves hands, payments and doubts alone, and neither completes
\* nor reopens a completed row.
LEMMA QuietPay ==
  ASSUME PayInv, UNCHANGED <<hand, paid, doubt>>,
         \A r \in Rows : (row'[r].status = "completed") = (row[r].status = "completed")
  PROVE  PayInv'
  BY DEF PayInv, Sent, Recorded, Unheld

LEMMA WorkerPay ==
  ASSUME NoSeizure, TypeInv, LeaseInv, PayInv, NEW w \in Workers, NEW r \in Rows,
         WorkerRowStep(w, r) \/ RowFault(w, r)
  PROVE  PayInv'
<1>1. /\ hand[w][r] # "none"
      /\ \A q \in Rows : q # r => paid'[q] = paid[q] /\ doubt'[q] = doubt[q] /\ row'[q] = row[q]
  BY DEF WorkerRowStep, RowFault, SendFails, Broadcast, RecordSuccess, RecordFailure, Rebroadcast,
         LoseReceipt, LoseCommitAck, CommitSuccess, TypeInv, TypeOK
<1>2. PICK h \in HandStates : hand' = [hand EXCEPT ![w][r] = h]
  <2>1. CASE Rebroadcast(w, r)
    <3>1. hand' = [hand EXCEPT ![w][r] = hand[w][r]]
      BY <2>1 DEF Rebroadcast, TypeInv, TypeOK
    <3>. QED BY <3>1 DEF TypeInv, TypeOK
  <2>2. CASE ~Rebroadcast(w, r)
    BY <2>2 DEF WorkerRowStep, RowFault, SendFails, Broadcast, RecordSuccess, RecordFailure,
         LoseReceipt, LoseCommitAck, HandStates
  <2>. QED BY <2>1, <2>2
<1>3. \A v \in Workers : \A q \in Rows : hand'[v][q] = IF v = w /\ q = r THEN h ELSE hand[v][q]
  BY <1>2 DEF TypeInv, TypeOK
<1>4. \A v \in Workers : v # w => hand[v][r] = "none"
  BY <1>1 DEF LeaseInv, HolderIsUnique
<1>5. /\ Sent(r) <=> hand[w][r] = "sent"
      /\ Sent(r)' <=> h = "sent"
      /\ ~Unheld(r)
      /\ Unheld(r)' <=> h = "none"
  BY <1>1, <1>3, <1>4 DEF Sent, Unheld
<1>6. \A q \in Rows : q # r => /\ Sent(q)' <=> Sent(q)
                               /\ Recorded(q)' <=> Recorded(q)
  BY <1>1, <1>3 DEF Sent, Recorded, Unheld
<1>7. paid[r] \in Nat /\ doubt[r] \in Nat /\ row[r] \in RowRec
  BY DEF TypeInv, TypeOK
<1>8. /\ paid'[r] <= doubt'[r] + 1
      /\ h # "sent" /\ ~(row'[r].status = "completed" /\ h = "none") => paid'[r] <= doubt'[r]
      /\ h = "sent" \/ row'[r].status = "completed" => paid'[r] > 0
  <2>. DEFINE Goal == /\ paid'[r] <= doubt'[r] + 1
                      /\ h # "sent" /\ ~(row'[r].status = "completed" /\ h = "none") => paid'[r] <= doubt'[r]
                      /\ h = "sent" \/ row'[r].status = "completed" => paid'[r] > 0
  <2>0. /\ paid[r] <= doubt[r] + 1
        /\ hand[w][r] # "sent" => paid[r] <= doubt[r]
        /\ hand[w][r] = "sent" \/ row[r].status = "completed" => paid[r] > 0
    BY <1>5 DEF PayInv, Recorded
  <2>h. hand'[w][r] = h
    BY <1>3
  <2>1. CASE SendFails(w, r)
    <3>1. h = "erred" /\ hand[w][r] # "sent" /\ paid'[r] = paid[r] /\ doubt'[r] = doubt[r] /\ row' = row
      BY <2>1, <2>h DEF SendFails, TypeInv, TypeOK
    <3>. QED BY <1>7, <2>0, <3>1
  <2>2. CASE Broadcast(w, r)
    <3>1. h = "sent" /\ hand[w][r] # "sent" /\ paid'[r] = paid[r] + 1 /\ doubt'[r] = doubt[r]
      BY <2>2, <2>h DEF Broadcast, TypeInv, TypeOK
    <3>. QED BY <1>7, <2>0, <3>1
  <2>3. CASE RecordSuccess(w, r)
    <3>1. h = "none" /\ hand[w][r] = "sent" /\ paid'[r] = paid[r] /\ doubt'[r] = doubt[r]
      BY <2>3, <2>h DEF RecordSuccess, TypeInv, TypeOK
    <3>2. row'[r].status = "completed"
      BY <1>7, <2>3 DEF RecordSuccess, CommitSuccess, TypeInv, TypeOK, RowRec
    <3>. QED BY <1>7, <2>0, <3>1, <3>2
  <2>4. CASE RecordFailure(w, r)
    <3>1. h = "none" /\ hand[w][r] # "sent" /\ paid'[r] = paid[r] /\ doubt'[r] = doubt[r]
      BY <2>4, <2>h DEF RecordFailure, TypeInv, TypeOK
    <3>2. row'[r].status # "completed"
      BY <2>4 DEF RecordFailure, FailedRow, GivenUp, Reopened, TypeInv, TypeOK
    <3>. QED BY <1>7, <2>0, <3>1, <3>2
  <2>5. CASE Rebroadcast(w, r)
    <3>1. h = "sent" /\ hand[w][r] = "sent" /\ paid'[r] = paid[r] + 1 /\ doubt'[r] = doubt[r] + 1
      BY <2>5, <2>h DEF Rebroadcast, TypeInv, TypeOK
    <3>. QED BY <1>7, <2>0, <3>1
  <2>6. CASE LoseReceipt(w, r)
    <3>1. h = "erred" /\ hand[w][r] = "sent" /\ paid'[r] = paid[r] /\ doubt'[r] = doubt[r] + 1
      BY <2>6, <2>h DEF LoseReceipt, TypeInv, TypeOK
    <3>. QED BY <1>7, <2>0, <3>1
  <2>7. CASE LoseCommitAck(w, r)
    <3>1. h = "erred" /\ hand[w][r] = "sent" /\ paid'[r] = paid[r] /\ doubt'[r] = doubt[r] + 1
      BY <2>7, <2>h DEF LoseCommitAck, TypeInv, TypeOK
    <3>. QED BY <1>7, <2>0, <3>1
  <2>. QED BY <2>1, <2>2, <2>3, <2>4, <2>5, <2>6, <2>7 DEF WorkerRowStep, RowFault
<1>9. \A q \in Rows : q # r => /\ paid'[q] <= doubt'[q] + 1
                               /\ ~Sent(q)' /\ ~Recorded(q)' => paid'[q] <= doubt'[q]
                               /\ Sent(q)' \/ row'[q].status = "completed" => paid'[q] > 0
  BY <1>1, <1>6 DEF PayInv
<1>. QED BY <1>5, <1>8, <1>9 DEF PayInv, Recorded

\* The rows of a dead worker whose transfer is out become doubtful.
LEMMA CrashPay ==
  ASSUME TypeInv, LeaseInv, PayInv, NEW w \in Workers, Crash(w)
  PROVE  PayInv'
<1>. SUFFICES ASSUME NEW r \in Rows
              PROVE  /\ paid'[r] <= doubt'[r] + 1
                     /\ ~Sent(r)' /\ ~Recorded(r)' => paid'[r] <= doubt'[r]
                     /\ Sent(r)' \/ row'[r].status = "completed" => paid'[r] > 0
  BY DEF PayInv
<1>1. \A v \in Workers : \A q \in Rows : hand'[v][q] = IF v = w THEN "none" ELSE hand[v][q]
  BY DEF Crash, TypeInv, TypeOK
<1>2. /\ paid' = paid /\ row' = row
      /\ doubt'[r] = IF hand[w][r] = "sent" THEN doubt[r] + 1 ELSE doubt[r]
      /\ paid[r] \in Nat /\ doubt[r] \in Nat
  BY DEF Crash, TypeInv, TypeOK
<1>3. Sent(r)' => Sent(r)
  BY <1>1 DEF Sent
<1>4. CASE hand[w][r] = "sent"
  BY <1>2, <1>3, <1>4 DEF PayInv, Sent
<1>5. CASE hand[w][r] # "sent"
  <2>1. Sent(r)' <=> Sent(r)
    BY <1>1, <1>5 DEF Sent
  <2>2. Recorded(r) => Recorded(r)'
    BY <1>1, <1>2 DEF Recorded, Unheld
  <2>. QED BY <1>2, <1>5, <2>1, <2>2 DEF PayInv
<1>. QED BY <1>4, <1>5

LEMMA ClaimPay ==
  ASSUME TypeInv, LeaseInv, PayInv, NEW w \in Workers, Claim(w)
  PROVE  PayInv'
<1>1. PICK S \in ClaimSets :
        /\ row' = [r \in Rows |->
              IF r \in S THEN [row[r] EXCEPT !.status = "processing", !.stale = FALSE] ELSE row[r]]
        /\ hand' = [hand EXCEPT ![w] = [r \in Rows |-> IF r \in S THEN "claimed" ELSE "none"]]
  BY Zenon DEF Claim
<1>2. S \subseteq Rows /\ \A r \in S : row[r].status = "pending"
  BY DEF ClaimSets, Claimable
<1>3. \A r \in Rows : hand[w][r] = "none"
  BY Zenon, OnlySendersHold DEF Claim
<1>4. \A r \in Rows : row[r] \in RowRec
  BY DEF TypeInv, TypeOK
<1>5. \A r \in Rows : (row'[r].status = "completed") = (row[r].status = "completed")
  BY Zenon, <1>1, <1>2, <1>4 DEF RowRec
<1>6. \A v \in Workers : \A r \in Rows :
        hand'[v][r] = IF v = w THEN (IF r \in S THEN "claimed" ELSE "none") ELSE hand[v][r]
  BY Zenon, <1>1 DEF TypeInv, TypeOK
<1>7. \A r \in Rows : Sent(r)' <=> Sent(r)
  BY <1>3, <1>6 DEF Sent
<1>8. \A r \in Rows : Recorded(r) => Recorded(r)'
  BY <1>2, <1>5, <1>6 DEF Recorded, Unheld
<1>9. UNCHANGED <<paid, doubt>>
  BY Zenon DEF Claim
<1>. QED BY <1>5, <1>7, <1>8, <1>9 DEF PayInv

\* The other steps change no hand, no payment and no completed row.
LEMMA OtherPay ==
  ASSUME NoSeizure, TypeInv, LeaseInv, PayInv, [Next]_vars,
         \A w \in Workers : ~Claim(w) /\ ~Crash(w) /\ \A r \in Rows : ~WorkerRowStep(w, r) /\ ~RowFault(w, r)
  PROVE  PayInv'
<1>1. UNCHANGED <<hand, paid, doubt>>
  <2>1. ASSUME NEW p \in Procs, ReconcileStep(p) PROVE UNCHANGED <<hand, paid, doubt>>
    BY <2>1 DEF ReconcileStep, ReadAllStatuses, WriteStatuses, LoopCheck, Rerun, ReadAggregates,
                WriteAggregates, LeaseInv, NoRerun
  <2>2. ASSUME NEW w \in Workers, WorkerStep(w) PROVE UNCHANGED <<hand, paid, doubt>>
    BY <2>1, <2>2, WorkerIsProc DEF WorkerStep, ReadStatuses, ResetStaleRows, ResetStale
  <2>3. ASSUME NEW o \in Operators, NEW j \in Jobs, CommandOn(o, j) PROVE UNCHANGED <<hand, paid, doubt>>
    BY <2>3 DEF CommandOn, Start, StartNow, PauseRoute, ResumeRoute, CancelRoute,
         EditRoute, QueueRoute, ReadThenSave, AdminPause, RetryFailed, RequeueIncomplete,
         PromoteDraft, ReconcileJob
  <2>4. ASSUME NEW o \in Operators, OperatorStep(o) PROVE UNCHANGED <<hand, paid, doubt>>
    BY <2>1, <2>3, <2>4, WorkerIsProc DEF OperatorStep, RecoverStalled, ResetStale, Requeue, Save
  <2>. QED BY <2>2, <2>4 DEF Next, FaultStep, StepFails, BackoffElapses, StaleElapses, vars
<1>2. ASSUME NEW S, NEW k, NEW b, row' = ToPending(S, k, b),
             \A r \in S : row[r].status # "completed"
      PROVE  \A r \in Rows : (row'[r].status = "completed") = (row[r].status = "completed")
  BY <1>2 DEF ToPending
<1>3. \A r \in StaleRows : row[r].status # "completed"
  BY DEF StaleRows
<1>4. \A j \in Jobs : \A r \in RetriedRows(j) : row[r].status # "completed"
  BY DEF RetriedRows, WithStatus
<1>5. \A r \in Rows : (row'[r].status = "completed") = (row[r].status = "completed")
  <2>. DEFINE Kept == \A r \in Rows : (row'[r].status = "completed") = (row[r].status = "completed")
  <2>1. ASSUME NEW p \in Procs, ReconcileStep(p) PROVE Kept
    BY <2>1 DEF ReconcileStep, ReadAllStatuses, WriteStatuses, LoopCheck, Rerun, ReadAggregates,
                WriteAggregates, LeaseInv, NoRerun
  <2>2. ASSUME NEW w \in Workers, WorkerStep(w) PROVE Kept
    <3>1. CASE ReadStatuses(w)
      BY <3>1 DEF ReadStatuses
    <3>2. CASE ResetStaleRows(w)
      BY <1>2, <1>3, <3>2 DEF ResetStaleRows, ResetStale
    <3>. HIDE DEF Kept
    <3>. QED BY <2>1, <2>2, <3>1, <3>2, WorkerIsProc DEF WorkerStep
  <2>3. ASSUME NEW o \in Operators, NEW j \in Jobs, CommandOn(o, j) PROVE Kept
    <3>1. ~QueueRoute(o, j) /\ ~RequeueIncomplete(o, j)
      BY DEF NoSeizure, QueueRoute, RequeueIncomplete, Issue
    <3>2. CASE RetryFailed(o, j)
      BY <1>2, <1>4, <3>2 DEF RetryFailed
    <3>3. CASE ~RetryFailed(o, j)
      BY <2>3, <3>1, <3>3 DEF CommandOn, Start, StartNow, PauseRoute, ResumeRoute, CancelRoute,
         EditRoute, ReadThenSave, AdminPause, PromoteDraft, ReconcileJob
    <3>. QED BY <3>2, <3>3
  <2>4. ASSUME NEW o \in Operators, OperatorStep(o) PROVE Kept
    <3>1. ~Requeue(o)
      BY WorkerIsProc DEF Requeue, LeaseInv, NoRerun
    <3>2. CASE RecoverStalled(o)
      BY <1>2, <1>3, <3>2 DEF RecoverStalled, ResetStale
    <3>3. CASE Save(o)
      BY <3>3 DEF Save
    <3>. QED BY <2>1, <2>3, <2>4, <3>1, <3>2, <3>3, WorkerIsProc DEF OperatorStep
  <2>5. ASSUME NEW r \in Rows, BackoffElapses(r) \/ StaleElapses(r) PROVE Kept
    <3>1. row \in [Rows -> RowRec]
      BY DEF TypeInv, TypeOK
    <3>2. CASE BackoffElapses(r)
      BY <3>1, <3>2 DEF BackoffElapses, RowRec
    <3>3. CASE StaleElapses(r)
      BY <3>1, <3>3 DEF StaleElapses, RowRec
    <3>. QED BY <2>5, <3>2, <3>3
  <2>6. ASSUME UNCHANGED row PROVE Kept
    BY <2>6
  <2>7. ASSUME FaultStep \/ UNCHANGED vars PROVE UNCHANGED row
    BY <2>7 DEF FaultStep, StepFails, vars
  <2>8. Kept
    <3>. HIDE DEF Kept
    <3>. QED BY <2>2, <2>4, <2>5, <2>6, <2>7 DEF Next
  <2>. QED BY <2>8
<1>. QED BY <1>1, <1>5, QuietPay

LEMMA PayStep ==
  ASSUME NoSeizure, TypeInv, LeaseInv, PayInv, [Next]_vars
  PROVE  PayInv'
  BY WorkerPay, CrashPay, ClaimPay, OtherPay

LEMMA PayAlways ==
  ASSUME NoSeizure
  PROVE  Spec => []PayInv
<1>1. Init => PayInv
  BY DEF Init, PayInv, Sent, Recorded, Unheld
<1>2. TypeInv /\ LeaseInv /\ PayInv /\ [Next]_vars => PayInv'
  BY PayStep
<1>. QED BY <1>1, <1>2, LeaseAlways, PTL DEF Spec

\* No recipient is paid twice unless a fault hid the first transfer.
THEOREM NoDoublePayment ==
  ASSUME NoSeizure
  PROVE  Spec => []PaidOncePerDoubt
<1>1. PayInv => PaidOncePerDoubt
  BY DEF PayInv, PaidOncePerDoubt
<1>. QED BY <1>1, PayAlways, PTL

\* Completed means paid.
THEOREM CompletionImpliesPayment ==
  ASSUME NoSeizure
  PROVE  Spec => []CompletedWasPaid
<1>1. PayInv => CompletedWasPaid
  BY DEF PayInv, CompletedWasPaid
<1>. QED BY <1>1, PayAlways, PTL

-----------------------------------------------------------------------------
(* Rows with an outcome. *)

\* A step completes or reopens no row that nobody holds.
LEMMA OtherRows ==
  ASSUME NoSeizure, TypeInv, LeaseInv, [Next]_vars,
         \A w \in Workers : ~Claim(w) /\ \A r \in Rows : ~WorkerRowStep(w, r) /\ ~RowFault(w, r)
  PROVE  \A r \in Rows :
            \/ row'[r].status = row[r].status
            \/ row'[r].status = "pending" /\ row[r].status = "processing"
            \/ row'[r].status = "pending" /\ row[r].status = "failed" /\ "retryFailed" \in Commands
<1>. DEFINE Kept(r) ==
       \/ row'[r].status = row[r].status
       \/ row'[r].status = "pending" /\ row[r].status = "processing"
       \/ row'[r].status = "pending" /\ row[r].status = "failed" /\ "retryFailed" \in Commands
<1>1. ASSUME UNCHANGED row PROVE \A r \in Rows : Kept(r)
  BY <1>1
<1>2. ASSUME ResetStale PROVE \A r \in Rows : Kept(r)
  BY <1>2 DEF ResetStale, ToPending, StaleRows
<1>3. ASSUME NEW o \in Operators, NEW j \in Jobs, RetryFailed(o, j) PROVE \A r \in Rows : Kept(r)
  BY <1>3 DEF RetryFailed, Issue, ToPending, RetriedRows, WithStatus
<1>4. ASSUME NEW r \in Rows, BackoffElapses(r) \/ StaleElapses(r) PROVE \A q \in Rows : Kept(q)
  <2>1. row \in [Rows -> RowRec]
    BY DEF TypeInv, TypeOK
  <2>2. CASE BackoffElapses(r)
    BY <2>1, <2>2 DEF BackoffElapses, RowRec
  <2>3. CASE StaleElapses(r)
    BY <2>1, <2>3 DEF StaleElapses, RowRec
  <2>. QED BY <1>4, <2>2, <2>3
<1>. HIDE DEF Kept
<1>5. ASSUME NEW p \in Procs, ReconcileStep(p) PROVE UNCHANGED row
  BY <1>5 DEF ReconcileStep, ReadAllStatuses, WriteStatuses, LoopCheck, Rerun, ReadAggregates,
              WriteAggregates, LeaseInv, NoRerun
<1>6. ASSUME NEW w \in Workers, WorkerStep(w) PROVE \A r \in Rows : Kept(r)
  BY <1>1, <1>2, <1>5, <1>6, WorkerIsProc DEF WorkerStep, ReadStatuses, ResetStaleRows
<1>7. ASSUME NEW o \in Operators, NEW j \in Jobs, CommandOn(o, j) PROVE \A r \in Rows : Kept(r)
  <2>1. ~QueueRoute(o, j) /\ ~RequeueIncomplete(o, j)
    BY DEF NoSeizure, QueueRoute, RequeueIncomplete, Issue
  <2>2. CASE ~RetryFailed(o, j)
    BY <1>1, <1>7, <2>1, <2>2 DEF CommandOn, Start, StartNow, PauseRoute, ResumeRoute, CancelRoute,
       EditRoute, ReadThenSave, AdminPause, PromoteDraft, ReconcileJob
  <2>. QED BY <1>3, <2>2
<1>8. ASSUME NEW o \in Operators, OperatorStep(o) PROVE \A r \in Rows : Kept(r)
  <2>1. ~Requeue(o)
    BY WorkerIsProc DEF Requeue, LeaseInv, NoRerun
  <2>. QED BY <1>1, <1>2, <1>5, <1>7, <1>8, <2>1, WorkerIsProc DEF OperatorStep, RecoverStalled, Save
<1>9. ASSUME FaultStep \/ UNCHANGED vars PROVE UNCHANGED row
  BY <1>9 DEF FaultStep, StepFails, Crash, vars
<1>10. \A r \in Rows : Kept(r)
  BY <1>1, <1>4, <1>6, <1>8, <1>9 DEF Next
<1>. QED BY <1>10 DEF Kept

\* A completed row stays completed, unless its worker was told that the commit failed:
\* no claim, reset or command that NoSeizure leaves touches it.
THEOREM CompletedStaysCompleted ==
  ASSUME NoSeizure
  PROVE  Spec => CompletedIsFinal
<1>. DEFINE Final == \A r \in Rows : row[r].status = "completed" /\ Unheld(r) => row'[r].status = "completed"
<1>1. ASSUME TypeInv, LeaseInv, [Next]_vars PROVE Final
  <2>. SUFFICES ASSUME NEW r \in Rows, row[r].status = "completed", Unheld(r)
                PROVE  row'[r].status = "completed"
    OBVIOUS
  <2>1. ASSUME NEW w \in Workers, Claim(w) PROVE row'[r].status = "completed"
    BY Zenon, <2>1 DEF Claim, ClaimSets, Claimable
  <2>2. ASSUME NEW w \in Workers, NEW q \in Rows, WorkerRowStep(w, q) \/ RowFault(w, q)
        PROVE  row'[r].status = "completed"
    <3>1. hand[w][q] # "none" /\ q # r
      BY <2>2 DEF WorkerRowStep, RowFault, SendFails, Broadcast, RecordSuccess, RecordFailure,
                  Rebroadcast, LoseReceipt, LoseCommitAck, Unheld
    <3>2. row' = row \/ \E new : row' = [row EXCEPT ![q] = new]
      BY <2>2 DEF WorkerRowStep, RowFault, SendFails, Broadcast, RecordSuccess, RecordFailure,
                  Rebroadcast, LoseReceipt, LoseCommitAck, CommitSuccess
    <3>3. row'[r] = row[r]
      <4>1. CASE row' = row
        BY <4>1
      <4>2. ASSUME NEW new, row' = [row EXCEPT ![q] = new] PROVE row'[r] = row[r]
        BY <3>1, <4>2 DEF TypeInv, TypeOK
      <4>. QED BY <3>2, <4>1, <4>2
    <3>. QED BY <3>3
  <2>. QED BY <1>1, <2>1, <2>2, OtherRows
<1>2. TypeInv /\ LeaseInv /\ [Next]_vars => [Final]_vars
  BY <1>1
<1>. QED BY <1>2, LeaseAlways, PTL DEF Spec, CompletedIsFinal, Final

-----------------------------------------------------------------------------
(* Job records.  Every process that writes a job's status computed it from *)
(* an earlier snapshot.  The snapshot can only be too old in one direction *)
(* as long as no row with an outcome is opened again: NoReopening adds to  *)
(* NoSeizure the commit that is reported as failed and retry-failed.       *)

NoReopening ==
    /\ NoSeizure
    /\ "ack" \notin Faults
    /\ "retryFailed" \notin Commands

Terminal == {"completed", "failed"}

HeldIsOpen == \A w \in Workers : \A r \in Rows : hand[w][r] # "none" => row[r].status = "processing"

\* What a process is about to write was true of a snapshot, and still is.
SnapOK(a) ==
    /\ a.pc \in {"write", "writeAll"} => \A j \in Jobs : a.calc[j] \in Terminal => ~HasOpen(j)
    /\ a.pc = "apply" /\ ~a.agg.open => ~HasOpen(a.job)
    /\ a.save # None => a.pc = "save" /\ (a.save.status \in Terminal => ~HasOpen(a.job))

SnapInv == \A p \in Procs : SnapOK(at[p])

RecordInv == HeldIsOpen /\ SnapInv /\ TerminalJobHasNoOpenRow

\* A row with an outcome keeps it.
OutcomesStay == \A r \in Rows : row[r].status \in Terminal => row'[r].status = row[r].status

LEMMA OutcomesStep ==
  ASSUME NoReopening, TypeInv, LeaseInv, HeldIsOpen, [Next]_vars
  PROVE  OutcomesStay
<1>0. NoSeizure
  BY DEF NoReopening
<1>1. ASSUME NEW w \in Workers, Claim(w) PROVE OutcomesStay
  BY Zenon, <1>1 DEF Claim, ClaimSets, Claimable, OutcomesStay, Terminal
<1>2. ASSUME NEW w \in Workers, NEW q \in Rows, WorkerRowStep(w, q) \/ RowFault(w, q) PROVE OutcomesStay
  <2>1. hand[w][q] # "none"
    BY <1>2 DEF WorkerRowStep, RowFault, SendFails, Broadcast, RecordSuccess, RecordFailure,
                Rebroadcast, LoseReceipt, LoseCommitAck
  <2>2. row' = row \/ \E new : row' = [row EXCEPT ![q] = new]
    BY <1>2 DEF WorkerRowStep, RowFault, SendFails, Broadcast, RecordSuccess, RecordFailure,
                Rebroadcast, LoseReceipt, LoseCommitAck, CommitSuccess
  <2>3. row[q].status \notin Terminal
    BY <2>1 DEF HeldIsOpen, Terminal
  <2>4. CASE row' = row
    BY <2>4 DEF OutcomesStay
  <2>5. ASSUME NEW new, row' = [row EXCEPT ![q] = new] PROVE OutcomesStay
    BY <2>3, <2>5 DEF OutcomesStay, TypeInv, TypeOK
  <2>. QED BY <2>2, <2>4, <2>5
<1>3. CASE \A w \in Workers : ~Claim(w) /\ \A r \in Rows : ~WorkerRowStep(w, r) /\ ~RowFault(w, r)
  BY <1>0, <1>3, OtherRows DEF NoReopening, OutcomesStay, Terminal
<1>. QED BY <1>1, <1>2, <1>3

\* So a job without open rows gets none.
LEMMA SettledStaysSettled ==
  ASSUME TypeInv, OutcomesStay, NEW j, ~HasOpen(j)
  PROVE  ~HasOpen(j)'
<1>1. \A r \in Rows : row[r].status \in RowStatuses
  <2>1. \A r \in Rows : row[r] \in RowRec
    BY DEF TypeInv, TypeOK
  <2>. QED BY <2>1 DEF RowRec
<1>2. \A r \in RowsOf(j) : row'[r].status \in Terminal
  BY <1>1 DEF HasOpen, WithStatus, RowsOf, OutcomesStay, Terminal, RowStatuses
<1>. QED BY <1>2 DEF HasOpen, WithStatus, RowsOf, Terminal

LEMMA HeldIsOpenStep ==
  ASSUME NoReopening, TypeInv, LeaseInv, HeldIsOpen, [Next]_vars
  PROVE  HeldIsOpen'
<1>0. LeaseInv' /\ TypeInv'
  BY LeaseStep, TypeStep DEF NoReopening
<1>. SUFFICES ASSUME NEW v \in Workers, NEW q \in Rows, hand'[v][q] # "none"
              PROVE  row'[q].status = "processing"
  BY DEF HeldIsOpen
<1>1. CASE row'[q].status = row[q].status /\ hand[v][q] # "none"
  BY <1>1 DEF HeldIsOpen
<1>2. row'[q].status = "processing" \/ row'[q].status = "completed"
  BY <1>0 DEF LeaseInv, HeldIsLeased
<1>3. ASSUME NEW w \in Workers, Claim(w) PROVE row'[q].status = "processing"
  <2>1. PICK S \in ClaimSets :
          /\ row' = [r \in Rows |->
                IF r \in S THEN [row[r] EXCEPT !.status = "processing", !.stale = FALSE] ELSE row[r]]
          /\ hand' = [hand EXCEPT ![w] = [r \in Rows |-> IF r \in S THEN "claimed" ELSE "none"]]
    BY Zenon, <1>3 DEF Claim
  <2>2. row[q] \in RowRec
    BY DEF TypeInv, TypeOK
  <2>3. CASE q \in S
    BY Zenon, <2>1, <2>2, <2>3 DEF RowRec
  <2>4. CASE q \notin S
    BY Zenon, <1>1, <2>1, <2>4 DEF TypeInv, TypeOK
  <2>. QED BY <2>3, <2>4
<1>4. ASSUME NEW w \in Workers, NEW r \in Rows, WorkerRowStep(w, r) \/ RowFault(w, r)
      PROVE  row'[q].status = "processing"
  <2>1. /\ hand[w][r] # "none"
        /\ row' = row \/ hand' = [hand EXCEPT ![w][r] = "none"]
        /\ hand' = hand \/ \E h : hand' = [hand EXCEPT ![w][r] = h]
        /\ \A x \in Rows : x # r => row'[x] = row[x]
    BY <1>4 DEF WorkerRowStep, RowFault, SendFails, Broadcast, RecordSuccess, RecordFailure,
         Rebroadcast, LoseReceipt, LoseCommitAck, CommitSuccess, TypeInv, TypeOK, NoReopening, Fault
  <2>2. \A x \in Workers : \A y \in Rows : ~(x = w /\ y = r) => hand'[x][y] = hand[x][y]
    BY <2>1 DEF TypeInv, TypeOK
  <2>3. CASE q # r
    BY <1>1, <2>1, <2>2, <2>3
  <2>4. CASE q = r /\ v # w
    BY <2>1, <2>2, <2>4 DEF LeaseInv, HolderIsUnique
  <2>5. CASE q = r /\ v = w
    <3>1. hand' # [hand EXCEPT ![w][r] = "none"]
      BY <2>5 DEF TypeInv, TypeOK
    <3>. QED BY <1>1, <2>1, <2>5, <3>1
  <2>. QED BY <2>3, <2>4, <2>5
<1>5. CASE \A w \in Workers : ~Claim(w) /\ \A r \in Rows : ~WorkerRowStep(w, r) /\ ~RowFault(w, r)
  <2>1. hand[v][q] # "none"
    <3>1. hand' = hand \/ \E w \in Workers : hand' = [hand EXCEPT ![w] = [r \in Rows |-> "none"]]
      <4>1. ASSUME NEW p \in Procs, ReconcileStep(p) PROVE hand' = hand
        BY <4>1 DEF ReconcileStep, ReadAllStatuses, WriteStatuses, LoopCheck, Rerun, ReadAggregates,
                    WriteAggregates
      <4>2. ASSUME NEW w \in Workers, WorkerStep(w) PROVE hand' = hand
        BY <1>5, <4>1, <4>2, WorkerIsProc DEF WorkerStep, ReadStatuses, ResetStaleRows, ResetStale
      <4>3. ASSUME NEW o \in Operators, OperatorStep(o) PROVE hand' = hand
        BY Zenon, <4>1, <4>3, WorkerIsProc DEF OperatorStep, RecoverStalled, ResetStale, Requeue, Save,
             CommandOn, Start, StartNow, PauseRoute, ResumeRoute, CancelRoute, EditRoute, QueueRoute,
             ReadThenSave, AdminPause, RetryFailed, RequeueIncomplete, PromoteDraft, ReconcileJob
      <4>4. ASSUME FaultStep PROVE hand' = hand \/ \E w \in Workers : hand' = [hand EXCEPT ![w] = [r \in Rows |-> "none"]]
        BY <1>5, <4>4 DEF FaultStep, Crash, StepFails
      <4>. QED BY <4>2, <4>3, <4>4 DEF Next, BackoffElapses, StaleElapses, vars
    <3>2. ASSUME NEW w \in Workers, hand' = [hand EXCEPT ![w] = [r \in Rows |-> "none"]]
          PROVE  hand'[v][q] = "none" \/ hand'[v][q] = hand[v][q]
      BY <3>2 DEF TypeInv, TypeOK
    <3>. QED BY <3>1, <3>2
  <2>2. row[q].status = "processing"
    BY <2>1 DEF HeldIsOpen
  <2>3. row'[q].status # "completed"
    BY <1>5, <2>2, OtherRows DEF NoReopening
  <2>. QED BY <1>2, <2>3
<1>. QED BY <1>3, <1>4, <1>5

\* A snapshot that was true stays true, whoever holds it.
LEMMA SnapStays ==
  ASSUME TypeInv, OutcomesStay, NEW q, NEW b, SnapOK(b), at'[q] = b
  PROVE  SnapOK(at[q])'
<1>1. \A j : ~HasOpen(j) => ~HasOpen(j)'
  BY SettledStaysSettled
<1>. QED BY <1>1 DEF SnapOK

\* A process that goes on with a local state whose snapshot is true.
LEMMA SnapMove ==
  ASSUME TypeInv, SnapInv, OutcomesStay, NEW p \in Procs, NEW a, SnapOK(a), Become(p, a)
  PROVE  SnapInv'
<1>. SUFFICES ASSUME NEW q \in Procs PROVE SnapOK(at[q])'
  BY DEF SnapInv
<1>1. at'[q] = a \/ at'[q] = at[q]
  BY DEF Become, TypeInv, TypeOK
<1>2. PICK b : at'[q] = b /\ SnapOK(b)
  BY <1>1 DEF SnapInv
<1>. QED BY <1>2, SnapStays

LEMMA SnapQuiet ==
  ASSUME TypeInv, SnapInv, OutcomesStay, UNCHANGED at
  PROVE  SnapInv'
<1>. SUFFICES ASSUME NEW q \in Procs PROVE SnapOK(at[q])'
  BY DEF SnapInv
<1>1. PICK b : at'[q] = b /\ SnapOK(b)
  BY DEF SnapInv
<1>. QED BY <1>1, SnapStays

\* A local state with nothing to write holds no snapshot.
LEMMA SnapEmpty ==
  ASSUME NEW a, a.pc \notin {"write", "writeAll", "apply"}, a.save = None
  PROVE  SnapOK(a)
  BY DEF SnapOK

LEMMA AfterJobSnap ==
  ASSUME NEW a \in ProcRec, a.save = None, NEW b \in AfterJob(a)
  PROVE  SnapOK(b)
<1>1. b.pc \in {"check", "idle"} /\ b.save = None
  <2>1. CASE a.todo # {}
    <3>1. PICK j \in a.todo : b = [a EXCEPT !.pc = "check", !.job = j, !.todo = @ \ {j}]
      BY Zenon, <2>1 DEF AfterJob
    <3>. QED BY <3>1 DEF ProcRec
  <2>2. CASE a.todo = {}
    <3>1. b = Idle
      BY <2>2 DEF AfterJob
    <3>. QED BY <3>1 DEF Idle
  <2>. QED BY <2>1, <2>2
<1>. QED BY <1>1, SnapEmpty

\* A recount finds a job terminal only when it has no open row.
LEMMA RecountIsSnap ==
  ASSUME NEW j, NewStatus(j) \in Terminal
  PROVE  ~HasOpen(j)
  BY DEF NewStatus, Outcome, Terminal

LEMMA ReconcileSnap ==
  ASSUME NoReopening, TypeInv, LeaseInv, SnapInv, OutcomesStay, NEW p \in Procs, ReconcileStep(p)
  PROVE  SnapInv'
<1>0. at[p] \in ProcRec /\ at[p].pc # "rerun" /\ SnapOK(at[p])
  BY DEF TypeInv, TypeOK, LeaseInv, NoRerun, SnapInv
<1>1. CASE ReadAllStatuses(p)
  <2>. DEFINE c == [j \in Jobs |-> IF RowsOf(j) # {} THEN NewStatus(j) ELSE "keep"]
              a == [at[p] EXCEPT !.pc = "writeAll", !.calc = c]
  <2>1. a.pc = "writeAll" /\ a.calc = c /\ a.save = at[p].save
    BY <1>0 DEF ProcRec
  <2>2. at[p].save = None /\ Become(p, a)
    BY <1>0, <1>1 DEF ReadAllStatuses, SnapOK
  <2>3. \A j \in Jobs : c[j] \in Terminal => ~HasOpen(j)
    BY RecountIsSnap DEF Terminal
  <2>4. SnapOK(a)
    <3>. HIDE DEF a, c
    <3>. QED BY <2>1, <2>2, <2>3 DEF SnapOK
  <2>. HIDE DEF a, c
  <2>. QED BY <2>2, <2>4, SnapMove
<1>2. CASE WriteStatuses(p)
  <2>. DEFINE a == [at[p] EXCEPT !.calc = Idle.calc]
  <2>1. PICK b \in AfterJob(a) : Become(p, b)
    BY <1>2 DEF WriteStatuses
  <2>2. a \in ProcRec /\ a.save = at[p].save
    BY <1>0, IdleType DEF ProcRec
  <2>3. at[p].save = None
    BY <1>0, <1>2 DEF WriteStatuses, SnapOK
  <2>4. SnapOK(b)
    <3>. HIDE DEF a
    <3>. QED BY <2>2, <2>3, AfterJobSnap
  <2>. QED BY <2>1, <2>4, SnapMove
<1>3. CASE LoopCheck(p)
  <2>1. PICK b \in AfterJob(at[p]) : Become(p, b)
    BY <1>3 DEF LoopCheck, NoReopening, NoSeizure
  <2>2. at[p].save = None
    BY <1>0, <1>3 DEF LoopCheck, SnapOK
  <2>. QED BY <1>0, <2>1, <2>2, AfterJobSnap, SnapMove
<1>4. CASE ReadAggregates(p)
  <2>. DEFINE g == [done   |-> Cardinality(WithStatus(at[p].job, {"completed"})),
                    failed |-> Cardinality(WithStatus(at[p].job, {"failed"})),
                    open   |-> HasOpen(at[p].job)]
              a == [at[p] EXCEPT !.pc = "apply", !.agg = g]
  <2>1. a.pc = "apply" /\ a.agg.open = HasOpen(at[p].job) /\ a.job = at[p].job /\ a.save = at[p].save
    BY <1>0 DEF ProcRec
  <2>2. at[p].save = None /\ Become(p, a)
    BY <1>0, <1>4 DEF ReadAggregates, SnapOK
  <2>3. SnapOK(a)
    <3>. HIDE DEF a, g
    <3>. QED BY <2>1, <2>2 DEF SnapOK
  <2>. HIDE DEF a, g
  <2>. QED BY <2>2, <2>3, SnapMove
<1>5. CASE WriteAggregates(p)
  <2>. DEFINE a == [at[p] EXCEPT !.pc = "check", !.agg = Idle.agg]
  <2>1. a.pc = "check" /\ a.save = at[p].save
    BY <1>0 DEF ProcRec
  <2>2. at[p].save = None /\ Become(p, a)
    BY <1>0, <1>5 DEF WriteAggregates, SnapOK
  <2>. HIDE DEF a
  <2>. QED BY <2>1, <2>2, SnapEmpty, SnapMove
<1>6. ~Rerun(p)
  BY <1>0 DEF Rerun
<1>. QED BY <1>1, <1>2, <1>3, <1>4, <1>5, <1>6 DEF ReconcileStep

\* A route remembers the status it read, or one that is not terminal.
LEMMA CommandSnap ==
  ASSUME NoReopening, TypeInv, SnapInv, TerminalJobHasNoOpenRow, OutcomesStay,
         NEW o \in Operators, NEW j \in Jobs, CommandOn(o, j)
  PROVE  SnapInv'
<1>0. o \in Procs /\ at[o] \in ProcRec /\ SnapOK(at[o]) /\ at[o].pc = "idle" /\ at[o].save = None
  <2>1. o \in Procs /\ at[o] \in ProcRec /\ SnapOK(at[o])
    BY WorkerIsProc DEF TypeInv, TypeOK, SnapInv
  <2>2. at[o].pc = "idle"
    BY DEF CommandOn, Issue, Start, StartNow, PauseRoute, ResumeRoute, CancelRoute, EditRoute,
           QueueRoute, AdminPause, RetryFailed, RequeueIncomplete, PromoteDraft, ReconcileJob
  <2>. QED BY <2>1, <2>2 DEF SnapOK
<1>1. ~QueueRoute(o, j) /\ ~RequeueIncomplete(o, j) /\ ~RetryFailed(o, j)
  BY DEF NoReopening, NoSeizure, QueueRoute, RequeueIncomplete, RetryFailed, Issue
<1>2. ASSUME NEW rec, ReadThenSave(o, j, "save", rec),
             rec.status \in Terminal => ~HasOpen(j)
      PROVE  SnapInv'
  <2>. DEFINE a == [at[o] EXCEPT !.pc = "save", !.job = j, !.save = rec]
  <2>1. a.pc = "save" /\ a.job = j /\ a.save = rec
    BY <1>0 DEF ProcRec
  <2>2. Become(o, a)
    BY <1>2 DEF ReadThenSave
  <2>. HIDE DEF a
  <2>3. SnapOK(a)
    BY <1>2, <2>1 DEF SnapOK
  <2>. QED BY <1>0, <2>2, <2>3, SnapMove
<1>3. ASSUME ThenRefresh(o, j) PROVE SnapInv'
  <2>. DEFINE a == [at[o] EXCEPT !.pc = "refresh", !.job = j]
  <2>1. a.pc = "refresh" /\ a.save = None
    BY <1>0 DEF ProcRec
  <2>2. Become(o, a)
    BY <1>3 DEF ThenRefresh
  <2>. HIDE DEF a
  <2>. QED BY <1>0, <2>1, <2>2, SnapEmpty, SnapMove
<1>4. CASE Start(o, j) \/ StartNow(o, j)
  BY <1>4, SnapQuiet DEF Start, StartNow
<1>5. CASE PauseRoute(o, j) \/ ResumeRoute(o, j) \/ CancelRoute(o, j) \/ EditRoute(o, j)
  BY <1>2, <1>5 DEF PauseRoute, ResumeRoute, CancelRoute, EditRoute, Terminal, TerminalJobHasNoOpenRow
<1>6. CASE AdminPause(o, j) \/ PromoteDraft(o, j) \/ ReconcileJob(o, j)
  BY <1>3, <1>6 DEF AdminPause, PromoteDraft, ReconcileJob
<1>. QED BY <1>1, <1>4, <1>5, <1>6 DEF CommandOn

LEMMA SnapStep ==
  ASSUME NoReopening, TypeInv, LeaseInv, RecordInv, [Next]_vars
  PROVE  SnapInv'
<1>0. SnapInv /\ TerminalJobHasNoOpenRow /\ OutcomesStay
  BY OutcomesStep DEF RecordInv
<1>1. SnapOK(Idle)
  BY SnapEmpty DEF Idle
<1>2. ASSUME NEW w \in Workers, WorkerStep(w) PROVE SnapInv'
  <2>0. w \in Procs /\ at[w] \in ProcRec /\ SnapOK(at[w])
    BY <1>0, WorkerIsProc DEF TypeInv, TypeOK, SnapInv
  <2>1. CASE Claim(w)
    <3>1. PICK todo : Become(w, [at[w] EXCEPT !.pc = "sending", !.todo = todo])
      BY Zenon, <2>1 DEF Claim
    <3>2. at[w].save = None
      BY Zenon, <2>0, <2>1 DEF Claim, SnapOK
    <3>. DEFINE a == [at[w] EXCEPT !.pc = "sending", !.todo = todo]
    <3>3. a.pc = "sending" /\ a.save = None /\ Become(w, a)
      BY <2>0, <3>1, <3>2 DEF ProcRec
    <3>. HIDE DEF a
    <3>. QED BY <1>0, <2>0, <3>3, SnapEmpty, SnapMove
  <2>2. CASE ReadStatuses(w)
    <3>. DEFINE c == [j \in Jobs |-> IF j \in at[w].todo THEN NewStatus(j) ELSE "keep"]
                a == [at[w] EXCEPT !.pc = "write", !.calc = c]
    <3>1. a.pc = "write" /\ a.calc = c /\ a.save = at[w].save
      BY <2>0 DEF ProcRec
    <3>2. at[w].save = None /\ Become(w, a)
      BY <2>0, <2>2 DEF ReadStatuses, SnapOK
    <3>3. \A j \in Jobs : c[j] \in Terminal => ~HasOpen(j)
      BY RecountIsSnap DEF Terminal
    <3>. HIDE DEF a, c
    <3>4. SnapOK(a)
      BY <3>1, <3>2, <3>3 DEF SnapOK
    <3>. QED BY <1>0, <2>0, <3>2, <3>4, SnapMove
  <2>3. CASE ResetStaleRows(w)
    <3>. DEFINE a == [at[w] EXCEPT !.pc = "all"]
    <3>1. a.pc = "all" /\ a.save = at[w].save
      BY <2>0 DEF ProcRec
    <3>2. at[w].save = None /\ Become(w, a)
      BY <2>0, <2>3 DEF ResetStaleRows, SnapOK
    <3>. HIDE DEF a
    <3>. QED BY <1>0, <2>0, <3>1, <3>2, SnapEmpty, SnapMove
  <2>4. CASE ReconcileStep(w)
    BY <1>0, <2>0, <2>4, ReconcileSnap
  <2>5. CASE \E r \in Rows : WorkerRowStep(w, r)
    <3>1. UNCHANGED at
      BY <2>5 DEF WorkerRowStep, SendFails, Broadcast, RecordSuccess, RecordFailure
    <3>. QED BY <1>0, <3>1, SnapQuiet
  <2>. QED BY <1>2, <2>1, <2>2, <2>3, <2>4, <2>5 DEF WorkerStep
<1>3. ASSUME NEW o \in Operators, OperatorStep(o) PROVE SnapInv'
  <2>0. o \in Procs /\ at[o] \in ProcRec /\ SnapOK(at[o])
    BY <1>0, WorkerIsProc DEF TypeInv, TypeOK, SnapInv
  <2>1. CASE RecoverStalled(o)
    <3>1. PICK next \in {"all", "idle"} : Become(o, [at[o] EXCEPT !.pc = next])
      BY <2>1 DEF RecoverStalled
    <3>2. at[o].save = None
      BY <2>0, <2>1 DEF RecoverStalled, Issue, SnapOK
    <3>. DEFINE a == [at[o] EXCEPT !.pc = next]
    <3>3. a.pc = next /\ a.save = None /\ Become(o, a)
      BY <2>0, <3>1, <3>2 DEF ProcRec
    <3>. HIDE DEF a
    <3>. QED BY <1>0, <2>0, <3>3, SnapEmpty, SnapMove
  <2>2. ~Requeue(o)
    BY <2>0 DEF Requeue, LeaseInv, NoRerun
  <2>3. CASE Save(o)
    BY <1>0, <1>1, <2>0, <2>3, SnapMove DEF Save
  <2>4. CASE ReconcileStep(o)
    BY <1>0, <2>0, <2>4, ReconcileSnap
  <2>5. CASE \E j \in Jobs : CommandOn(o, j)
    BY <1>0, <2>5, CommandSnap
  <2>. QED BY <1>3, <2>1, <2>2, <2>3, <2>4, <2>5 DEF OperatorStep
<1>4. ASSUME FaultStep PROVE SnapInv'
  <2>1. UNCHANGED at \/ \E p \in Procs : Become(p, Idle)
    BY <1>4, WorkerIsProc DEF FaultStep, Crash, RowFault, Rebroadcast, LoseReceipt, LoseCommitAck, StepFails
  <2>. QED BY <1>0, <1>1, <2>1, SnapMove, SnapQuiet
<1>5. ASSUME UNCHANGED at PROVE SnapInv'
  BY <1>0, <1>5, SnapQuiet
<1>. QED BY <1>2, <1>3, <1>4, <1>5 DEF Next, BackoffElapses, StaleElapses, vars

\* A job's status is written only where the job is not terminal by it, or has
\* no open row.
StatusIsSound ==
    \A j \in Jobs : job'[j].status \in Terminal => job'[j].status = job[j].status \/ ~HasOpen(j)

LEMMA ReconcileStatus ==
  ASSUME TypeInv, LeaseInv, SnapInv, NEW p \in Procs, ReconcileStep(p)
  PROVE  StatusIsSound
<1>0. SnapOK(at[p]) /\ at[p].pc # "rerun" /\ at[p] \in ProcRec /\ job \in [Jobs -> JobRec]
  BY DEF TypeInv, TypeOK, LeaseInv, NoRerun, SnapInv
<1>1. CASE ReadAllStatuses(p) \/ LoopCheck(p) \/ ReadAggregates(p)
  BY <1>1 DEF ReadAllStatuses, LoopCheck, ReadAggregates, StatusIsSound
<1>2. CASE WriteStatuses(p)
  <2>. SUFFICES ASSUME NEW j \in Jobs, job'[j].status # job[j].status, job'[j].status \in Terminal
                PROVE  ~HasOpen(j)
    BY DEF StatusIsSound
  <2>0. job[j] \in JobRec
    BY <1>0
  <2>1. job'[j] = IF at[p].calc[j] = "keep" THEN job[j] ELSE [job[j] EXCEPT !.status = at[p].calc[j]]
    BY <1>2 DEF WriteStatuses
  <2>2. at[p].calc[j] \in Terminal
    BY <2>0, <2>1 DEF JobRec
  <2>. QED BY <1>0, <1>2, <2>2 DEF WriteStatuses, SnapOK
<1>3. CASE WriteAggregates(p)
  <2>. DEFINE k == at[p].job
              new == IF Frozen(job[k]) THEN job[k].status ELSE Outcome(at[p].agg.open, at[p].agg.failed > 0)
              rec == [job[k] EXCEPT !.processed = at[p].agg.done, !.failed = at[p].agg.failed, !.status = new]
  <2>. SUFFICES ASSUME NEW j \in Jobs, job'[j].status # job[j].status, job'[j].status \in Terminal
                PROVE  ~HasOpen(j)
    BY DEF StatusIsSound
  <2>1. job' = [job EXCEPT ![k] = rec]
    BY <1>3 DEF WriteAggregates
  <2>2. j = k /\ job'[j] = rec
    <3>. HIDE DEF rec, k
    <3>. QED BY <1>0, <2>1
  <2>3. rec.status = new
    <3>1. job[k] \in JobRec
      BY <1>0, <2>2
    <3>. HIDE DEF new, k
    <3>. QED BY <3>1 DEF JobRec
  <2>4. new = Outcome(at[p].agg.open, at[p].agg.failed > 0) /\ new \in Terminal
    <3>1. new # job[k].status /\ new \in Terminal
      <4>. HIDE DEF new, rec, k
      <4>. QED BY <2>2, <2>3
    <3>. QED BY <3>1
  <2>5. ~at[p].agg.open
    BY <2>4 DEF Outcome, Terminal
  <2>. QED BY <1>0, <1>3, <2>2, <2>5 DEF WriteAggregates, SnapOK
<1>4. ~Rerun(p)
  BY <1>0 DEF Rerun
<1>. QED BY <1>1, <1>2, <1>3, <1>4 DEF ReconcileStep

LEMMA StatusStep ==
  ASSUME NoReopening, TypeInv, LeaseInv, SnapInv, [Next]_vars
  PROVE  StatusIsSound
<1>0. job \in [Jobs -> JobRec] /\ \A r \in Rows : JobOf[r] \in Jobs
  BY RowsAssumption DEF TypeInv, TypeOK
<1>1. ASSUME UNCHANGED job PROVE StatusIsSound
  BY <1>1 DEF StatusIsSound
<1>2. ASSUME NEW r \in Rows, job' = [job EXCEPT ![JobOf[r]].processed = @ + 1] PROVE StatusIsSound
  BY <1>0, <1>2 DEF StatusIsSound, JobRec
<1>3. ASSUME NEW r \in Rows, job' = [job EXCEPT ![JobOf[r]].failed = @ + 1] PROVE StatusIsSound
  BY <1>0, <1>3 DEF StatusIsSound, JobRec
<1>4. ASSUME NEW w \in Workers, NEW r \in Rows, WorkerRowStep(w, r) \/ RowFault(w, r) PROVE StatusIsSound
  BY <1>1, <1>2, <1>3, <1>4 DEF WorkerRowStep, RowFault, SendFails, Broadcast, RecordSuccess,
       RecordFailure, Rebroadcast, LoseReceipt, LoseCommitAck, CommitSuccess
<1>5. ASSUME NEW w \in Workers, Claim(w) PROVE StatusIsSound
  <2>1. PICK T : job' = [j \in Jobs |-> IF j \in T /\ job[j].status = "queued"
                                       THEN [job[j] EXCEPT !.status = "running"] ELSE job[j]]
    BY Zenon, <1>5 DEF Claim
  <2>2. \A j \in Jobs : job'[j].status = job[j].status \/ job'[j].status = "running"
    BY <1>0, <2>1 DEF JobRec
  <2>. QED BY <2>2 DEF StatusIsSound, Terminal
<1>6. ASSUME NEW w \in Workers, WorkerStep(w) PROVE StatusIsSound
  BY <1>1, <1>4, <1>5, <1>6, ReconcileStatus, WorkerIsProc DEF WorkerStep, ReadStatuses, ResetStaleRows
<1>7. ASSUME NEW o \in Operators, NEW j \in Jobs, CommandOn(o, j) PROVE StatusIsSound
  <2>1. CASE Start(o, j) \/ StartNow(o, j) \/ PromoteDraft(o, j)
    BY ZenonT(40), <1>0, <2>1 DEF Start, StartNow, PromoteDraft, StatusIsSound, JobRec, Terminal
  <2>2. CASE AdminPause(o, j)
    <3>1. PICK flag \in BOOLEAN : job' = [job EXCEPT ![j].paused = flag]
      BY <2>2 DEF AdminPause
    <3>. QED BY <1>0, <3>1 DEF StatusIsSound, JobRec
  <2>3. CASE ~(Start(o, j) \/ StartNow(o, j) \/ PromoteDraft(o, j) \/ AdminPause(o, j))
    BY <1>1, <1>7, <2>3 DEF CommandOn, PauseRoute, ResumeRoute, CancelRoute, EditRoute, QueueRoute,
       ReadThenSave, RetryFailed, RequeueIncomplete, ReconcileJob
  <2>. QED BY <2>1, <2>2, <2>3
<1>8. ASSUME NEW o \in Operators, Save(o) PROVE StatusIsSound
  <2>1. at[o].save # None /\ SnapOK(at[o])
    BY <1>8, WorkerIsProc DEF Save, TypeInv, SaveHasRecord, SnapInv
  <2>2. job' = [job EXCEPT ![at[o].job] =
                  [@ EXCEPT !.status = at[o].save.status, !.paused = at[o].save.paused]]
    BY <1>8 DEF Save
  <2>3. \A j \in Jobs : job'[j].status = job[j].status \/ (j = at[o].job /\ job'[j].status = at[o].save.status)
    <3>. SUFFICES ASSUME NEW j \in Jobs
                  PROVE  job'[j].status = job[j].status \/ (j = at[o].job /\ job'[j].status = at[o].save.status)
      OBVIOUS
    <3>1. CASE j = at[o].job
      <4>1. job'[j] = [job[j] EXCEPT !.status = at[o].save.status, !.paused = at[o].save.paused]
        BY <1>0, <2>2, <3>1
      <4>2. job[j] \in JobRec
        BY <1>0
      <4>. QED BY <3>1, <4>1, <4>2 DEF JobRec
    <3>2. CASE j # at[o].job
      BY <1>0, <2>2, <3>2
    <3>. QED BY <3>1, <3>2
  <2>. QED BY <2>1, <2>3 DEF StatusIsSound, SnapOK
<1>9. ASSUME NEW o \in Operators, OperatorStep(o) PROVE StatusIsSound
  BY <1>1, <1>7, <1>8, <1>9, ReconcileStatus, WorkerIsProc DEF OperatorStep, RecoverStalled, Requeue
<1>10. ASSUME FaultStep PROVE StatusIsSound
  BY <1>1, <1>4, <1>10 DEF FaultStep, Crash, StepFails
<1>. QED BY <1>1, <1>6, <1>9, <1>10 DEF Next, BackoffElapses, StaleElapses, vars

LEMMA RecordStep ==
  ASSUME NoReopening, TypeInv, LeaseInv, RecordInv, [Next]_vars
  PROVE  RecordInv'
<1>1. HeldIsOpen' /\ SnapInv'
  BY HeldIsOpenStep, SnapStep DEF RecordInv
<1>2. OutcomesStay /\ StatusIsSound
  BY OutcomesStep, StatusStep DEF RecordInv
<1>3. TerminalJobHasNoOpenRow'
  <2>. SUFFICES ASSUME NEW j \in Jobs, job'[j].status \in Terminal PROVE ~HasOpen(j)'
    BY DEF TerminalJobHasNoOpenRow, Terminal
  <2>1. ~HasOpen(j)
    BY <1>2 DEF StatusIsSound, RecordInv, TerminalJobHasNoOpenRow, Terminal
  <2>. QED BY <1>2, <2>1, SettledStaysSettled
<1>. QED BY <1>1, <1>3 DEF RecordInv

LEMMA RecordAlways ==
  ASSUME NoReopening
  PROVE  Spec => [](TypeInv /\ LeaseInv /\ RecordInv)
<1>0. NoSeizure
  BY DEF NoReopening
<1>1. Init => RecordInv
  <2>1. SnapOK(Idle)
    BY SnapEmpty DEF Idle
  <2>. QED BY <2>1 DEF Init, RecordInv, HeldIsOpen, SnapInv, SnapOK, TerminalJobHasNoOpenRow
<1>2. TypeInv /\ LeaseInv /\ RecordInv /\ [Next]_vars => RecordInv'
  BY RecordStep
<1>. QED BY <1>0, <1>1, <1>2, LeaseAlways, PTL DEF Spec

\* A job is reported completed or failed only when none of its rows is open,
\* however late the status that a worker, a route or an admin command computed
\* is written.
THEOREM TerminalMeansSettled ==
  ASSUME NoReopening
  PROVE  Spec => []TerminalJobHasNoOpenRow
<1>1. RecordInv => TerminalJobHasNoOpenRow
  BY DEF RecordInv
<1>. QED BY <1>1, RecordAlways, PTL

-----------------------------------------------------------------------------
(* The counters of a job.  The hot path adds one per outcome; a refresh     *)
(* replaces both by a recount of an older snapshot, and loses the outcomes  *)
(* in between.  Without a refresh the counters are exact.                   *)

NoRecount ==
    /\ NoReopening
    /\ "adminPause" \notin Commands
    /\ "promoteDraft" \notin Commands
    /\ "reconcileJob" \notin Commands

NoRefresh == \A p \in Procs : at[p].pc \notin {"refresh", "apply"}

CountInv == NoRefresh /\ CountersMatchRows

\* Rows that neither enter nor leave a status leave its count alone.
LEMMA SameCount ==
  ASSUME NEW j, NEW s, \A r \in Rows : (row'[r].status = s) = (row[r].status = s)
  PROVE  Cardinality(WithStatus(j, {s}))' = Cardinality(WithStatus(j, {s}))
<1>1. WithStatus(j, {s})' = WithStatus(j, {s})
  BY DEF WithStatus, RowsOf
<1>. QED BY <1>1

\* A row that enters a status is counted once, for its own job only.
LEMMA OneMore ==
  ASSUME NEW j, NEW s, NEW q \in Rows, row[q].status # s, row'[q].status = s,
         \A r \in Rows : r # q => row'[r].status = row[r].status
  PROVE  Cardinality(WithStatus(j, {s}))' = Cardinality(WithStatus(j, {s})) + (IF JobOf[q] = j THEN 1 ELSE 0)
<1>0. Cardinality(WithStatus(j, {s})) \in Nat /\ IsFiniteSet(WithStatus(j, {s}))
  <2>1. WithStatus(j, {s}) \subseteq Rows
    BY DEF WithStatus, RowsOf
  <2>. QED BY <2>1, CountType, RowsAssumption, FS_Subset
<1>1. CASE JobOf[q] = j
  <2>1. WithStatus(j, {s})' = WithStatus(j, {s}) \cup {q} /\ q \notin WithStatus(j, {s})
    BY <1>1 DEF WithStatus, RowsOf
  <2>2. Cardinality(WithStatus(j, {s}) \cup {q}) = Cardinality(WithStatus(j, {s})) + 1
    BY <1>0, <2>1, FS_AddElement
  <2>. QED BY <1>1, <2>1, <2>2
<1>2. CASE JobOf[q] # j
  <2>1. WithStatus(j, {s})' = WithStatus(j, {s})
    BY <1>2 DEF WithStatus, RowsOf
  <2>. QED BY <1>0, <1>2, <2>1
<1>. QED BY <1>1, <1>2

\* The steps that write a job's record without recording an outcome.
CountersKept ==
    \A j \in Jobs : job'[j].processed = job[j].processed /\ job'[j].failed = job[j].failed

LEMMA OtherCounters ==
  ASSUME NoRecount, TypeInv, LeaseInv, NoRefresh, [Next]_vars,
         \A w \in Workers : \A r \in Rows : ~WorkerRowStep(w, r) /\ ~RowFault(w, r)
  PROVE  CountersKept
<1>0. job \in [Jobs -> JobRec]
  BY DEF TypeInv, TypeOK
<1>1. ASSUME UNCHANGED job PROVE CountersKept
  BY <1>1 DEF CountersKept
<1>2. ASSUME NEW p \in Procs, ReconcileStep(p) PROVE CountersKept
  <2>1. ~Rerun(p) /\ ~ReadAggregates(p) /\ ~WriteAggregates(p)
    BY DEF LeaseInv, NoRerun, NoRefresh, Rerun, ReadAggregates, WriteAggregates
  <2>2. CASE WriteStatuses(p)
    <3>1. PICK c : job' = [j \in Jobs |-> IF c[j] = "keep" THEN job[j] ELSE [job[j] EXCEPT !.status = c[j]]]
      BY <2>2 DEF WriteStatuses
    <3>. QED BY <1>0, <3>1 DEF CountersKept, JobRec
  <2>. QED BY <1>1, <1>2, <2>1, <2>2 DEF ReconcileStep, ReadAllStatuses, LoopCheck
<1>3. ASSUME NEW w \in Workers, WorkerStep(w) PROVE CountersKept
  <2>1. CASE Claim(w)
    <3>1. PICK T : job' = [j \in Jobs |-> IF j \in T /\ job[j].status = "queued"
                                         THEN [job[j] EXCEPT !.status = "running"] ELSE job[j]]
      BY Zenon, <2>1 DEF Claim
    <3>. QED BY <1>0, <3>1 DEF CountersKept, JobRec
  <2>. QED BY <1>1, <1>2, <1>3, <2>1, WorkerIsProc DEF WorkerStep, ReadStatuses, ResetStaleRows
<1>4. ASSUME NEW o \in Operators, NEW j \in Jobs, CommandOn(o, j) PROVE CountersKept
  <2>0. job[j] \in JobRec
    BY <1>0
  <2>1. CASE Start(o, j)
    BY <1>0, <2>0, <2>1 DEF Start, CountersKept, JobRec
  <2>2. CASE StartNow(o, j)
    BY <1>0, <2>0, <2>2 DEF StartNow, CountersKept, JobRec
  <2>3. ~AdminPause(o, j) /\ ~PromoteDraft(o, j) /\ ~ReconcileJob(o, j)
    BY DEF NoRecount, AdminPause, PromoteDraft, ReconcileJob, Issue
  <2>4. CASE ~Start(o, j) /\ ~StartNow(o, j)
    BY <1>1, <1>4, <2>3, <2>4 DEF CommandOn, PauseRoute, ResumeRoute, CancelRoute, EditRoute,
       QueueRoute, ReadThenSave, RetryFailed, RequeueIncomplete
  <2>. QED BY <2>1, <2>2, <2>4
<1>5. ASSUME NEW o \in Operators, Save(o) PROVE CountersKept
  <2>1. PICK k, st, fl : job' = [job EXCEPT ![k] = [@ EXCEPT !.status = st, !.paused = fl]]
    BY Zenon, <1>5 DEF Save
  <2>2. ASSUME NEW j \in Jobs PROVE job'[j].processed = job[j].processed /\ job'[j].failed = job[j].failed
    <3>1. job[j] \in JobRec
      BY <1>0
    <3>2. job'[j] = job[j] \/ job'[j] = [job[j] EXCEPT !.status = st, !.paused = fl]
      BY <1>0, <2>1
    <3>. QED BY <3>1, <3>2 DEF JobRec
  <2>. QED BY <2>2 DEF CountersKept
<1>6. ASSUME NEW o \in Operators, OperatorStep(o) PROVE CountersKept
  BY <1>1, <1>2, <1>4, <1>5, <1>6, WorkerIsProc DEF OperatorStep, RecoverStalled, Requeue
<1>7. ASSUME FaultStep PROVE CountersKept
  BY <1>1, <1>7 DEF FaultStep, Crash, StepFails
<1>. QED BY <1>1, <1>3, <1>6, <1>7 DEF Next, BackoffElapses, StaleElapses, vars

\* Nobody starts a refresh.
LEMMA NoRefreshStep ==
  ASSUME NoRecount, TypeInv, LeaseInv, NoRefresh, [Next]_vars
  PROVE  NoRefresh'
<1>1. ASSUME NEW p \in Procs, NEW a, Become(p, a), a.pc \notin {"refresh", "apply"} PROVE NoRefresh'
  BY <1>1 DEF Become, NoRefresh, TypeInv, TypeOK
<1>2. ASSUME UNCHANGED at PROVE NoRefresh'
  BY <1>2 DEF NoRefresh
<1>3. \A p \in Procs : at[p] \in ProcRec
  BY DEF TypeInv, TypeOK
<1>4. ASSUME NEW p \in Procs, NEW a \in ProcRec, NEW b \in AfterJob(a), Become(p, b) PROVE NoRefresh'
  <2>1. b.pc \in {"check", "save", "idle"}
    <3>1. CASE a.todo # {}
      <4>1. PICK j \in a.todo : b = [a EXCEPT !.pc = "check", !.job = j, !.todo = @ \ {j}]
        BY Zenon, <3>1 DEF AfterJob
      <4>. QED BY <4>1 DEF ProcRec
    <3>2. CASE a.todo = {}
      <4>1. b = Idle \/ b = [a EXCEPT !.pc = "save"]
        BY <3>2 DEF AfterJob
      <4>. QED BY <4>1 DEF Idle, ProcRec
    <3>. QED BY <3>1, <3>2
  <2>. QED BY <1>1, <1>4, <2>1
<1>5. ASSUME NEW p \in Procs, ReconcileStep(p) PROVE NoRefresh'
  <2>0. ~Rerun(p) /\ ~ReadAggregates(p) /\ ~WriteAggregates(p)
    BY DEF LeaseInv, NoRerun, NoRefresh, Rerun, ReadAggregates, WriteAggregates
  <2>1. CASE ReadAllStatuses(p)
    <3>1. PICK c : Become(p, [at[p] EXCEPT !.pc = "writeAll", !.calc = c])
      BY Zenon, <2>1 DEF ReadAllStatuses
    <3>2. [at[p] EXCEPT !.pc = "writeAll", !.calc = c].pc = "writeAll"
      BY <1>3 DEF ProcRec
    <3>. QED BY <1>1, <3>1, <3>2
  <2>2. CASE WriteStatuses(p)
    <3>1. [at[p] EXCEPT !.calc = Idle.calc] \in ProcRec
      BY <1>3, IdleType DEF ProcRec
    <3>. QED BY <1>4, <2>2, <3>1 DEF WriteStatuses
  <2>3. CASE LoopCheck(p)
    BY <1>3, <1>4, <2>3 DEF LoopCheck, NoRecount, NoReopening, NoSeizure
  <2>. QED BY <1>5, <2>0, <2>1, <2>2, <2>3 DEF ReconcileStep
<1>6. ASSUME NEW w \in Workers, WorkerStep(w) PROVE NoRefresh'
  <2>1. CASE Claim(w)
    <3>1. PICK todo : Become(w, [at[w] EXCEPT !.pc = "sending", !.todo = todo])
      BY Zenon, <2>1 DEF Claim
    <3>2. [at[w] EXCEPT !.pc = "sending", !.todo = todo].pc = "sending"
      BY <1>3, WorkerIsProc DEF ProcRec
    <3>. QED BY <1>1, <3>1, <3>2, WorkerIsProc
  <2>2. CASE ReadStatuses(w)
    <3>1. PICK c : Become(w, [at[w] EXCEPT !.pc = "write", !.calc = c])
      BY Zenon, <2>2 DEF ReadStatuses
    <3>2. [at[w] EXCEPT !.pc = "write", !.calc = c].pc = "write"
      BY <1>3, WorkerIsProc DEF ProcRec
    <3>. QED BY <1>1, <3>1, <3>2, WorkerIsProc
  <2>3. CASE ResetStaleRows(w)
    <3>1. Become(w, [at[w] EXCEPT !.pc = "all"])
      BY <2>3 DEF ResetStaleRows
    <3>2. [at[w] EXCEPT !.pc = "all"].pc = "all"
      BY <1>3, WorkerIsProc DEF ProcRec
    <3>. QED BY <1>1, <3>1, <3>2, WorkerIsProc
  <2>4. CASE \E r \in Rows : WorkerRowStep(w, r)
    BY <1>2, <2>4 DEF WorkerRowStep, SendFails, Broadcast, RecordSuccess, RecordFailure
  <2>. QED BY <1>5, <1>6, <2>1, <2>2, <2>3, <2>4, WorkerIsProc DEF WorkerStep
<1>7. ASSUME NEW o \in Operators, NEW j \in Jobs, CommandOn(o, j) PROVE NoRefresh'
  <2>1. ~AdminPause(o, j) /\ ~PromoteDraft(o, j) /\ ~ReconcileJob(o, j) /\ ~QueueRoute(o, j)
        /\ ~RequeueIncomplete(o, j) /\ ~RetryFailed(o, j)
    BY DEF NoRecount, NoReopening, NoSeizure, AdminPause, PromoteDraft, ReconcileJob, QueueRoute,
           RequeueIncomplete, RetryFailed, Issue
  <2>2. ASSUME NEW rec, ReadThenSave(o, j, "save", rec) PROVE NoRefresh'
    <3>1. Become(o, [at[o] EXCEPT !.pc = "save", !.job = j, !.save = rec])
      BY <2>2 DEF ReadThenSave
    <3>2. [at[o] EXCEPT !.pc = "save", !.job = j, !.save = rec].pc = "save"
      BY <1>3, WorkerIsProc DEF ProcRec
    <3>. QED BY <1>1, <3>1, <3>2, WorkerIsProc
  <2>3. CASE Start(o, j) \/ StartNow(o, j)
    BY <1>2, <2>3 DEF Start, StartNow
  <2>4. CASE PauseRoute(o, j) \/ ResumeRoute(o, j) \/ CancelRoute(o, j) \/ EditRoute(o, j)
    BY <2>2, <2>4 DEF PauseRoute, ResumeRoute, CancelRoute, EditRoute
  <2>. QED BY <1>7, <2>1, <2>3, <2>4 DEF CommandOn
<1>8. ASSUME NEW o \in Operators, OperatorStep(o) PROVE NoRefresh'
  <2>1. CASE RecoverStalled(o)
    <3>1. PICK next \in {"all", "idle"} : Become(o, [at[o] EXCEPT !.pc = next])
      BY <2>1 DEF RecoverStalled
    <3>2. [at[o] EXCEPT !.pc = next].pc = next
      BY <1>3, WorkerIsProc DEF ProcRec
    <3>. QED BY <1>1, <3>1, <3>2, WorkerIsProc
  <2>2. ~Requeue(o)
    BY WorkerIsProc DEF Requeue, LeaseInv, NoRerun
  <2>3. CASE Save(o)
    BY <1>1, <2>3, WorkerIsProc DEF Save, Idle
  <2>. QED BY <1>5, <1>7, <1>8, <2>1, <2>2, <2>3, WorkerIsProc DEF OperatorStep
<1>9. ASSUME FaultStep PROVE NoRefresh'
  <2>1. UNCHANGED at \/ \E p \in Procs : Become(p, Idle)
    BY <1>9, WorkerIsProc DEF FaultStep, Crash, RowFault, Rebroadcast, LoseReceipt, LoseCommitAck, StepFails
  <2>. QED BY <1>1, <1>2, <2>1 DEF Idle
<1>. QED BY <1>2, <1>6, <1>8, <1>9 DEF Next, BackoffElapses, StaleElapses, vars

\* An outcome is counted with the row it is recorded on.
LEMMA CountersStep ==
  ASSUME NoRecount, TypeInv, LeaseInv, HeldIsOpen, CountInv, [Next]_vars
  PROVE  CountersMatchRows'
<1>0. /\ job \in [Jobs -> JobRec] /\ row \in [Rows -> RowRec]
      /\ \A r \in Rows : JobOf[r] \in Jobs
      /\ NoReopening /\ NoSeizure /\ NoRefresh
  BY RowsAssumption DEF TypeInv, TypeOK, NoRecount, NoReopening, CountInv
<1>1. ASSUME CountersKept, \A r \in Rows : \A s \in Terminal : (row'[r].status = s) = (row[r].status = s)
      PROVE  CountersMatchRows'
  <2>. SUFFICES ASSUME NEW j \in Jobs
                PROVE  /\ job'[j].processed = Cardinality(WithStatus(j, {"completed"}))'
                       /\ job'[j].failed = Cardinality(WithStatus(j, {"failed"}))'
    BY DEF CountersMatchRows
  <2>1. /\ Cardinality(WithStatus(j, {"completed"}))' = Cardinality(WithStatus(j, {"completed"}))
        /\ Cardinality(WithStatus(j, {"failed"}))' = Cardinality(WithStatus(j, {"failed"}))
    BY <1>1, SameCount DEF Terminal
  <2>. QED BY <1>1, <2>1 DEF CountersKept, CountInv, CountersMatchRows
<1>2. ASSUME NEW w \in Workers, Claim(w) PROVE CountersMatchRows'
  <2>1. CountersKept
    <3>1. \A v \in Workers : \A r \in Rows : ~WorkerRowStep(v, r) /\ ~RowFault(v, r)
      <4>1. ASSUME NEW v \in Workers, NEW r \in Rows, WorkerRowStep(v, r) \/ RowFault(v, r) PROVE FALSE
        <5>1. UNCHANGED at
          BY <4>1 DEF WorkerRowStep, RowFault, SendFails, Broadcast, RecordSuccess, RecordFailure,
                      Rebroadcast, LoseReceipt, LoseCommitAck
        <5>2. at'[w].pc = "sending" /\ at[w].pc = "idle"
          <6>1. PICK todo : Become(w, [at[w] EXCEPT !.pc = "sending", !.todo = todo]) /\ at[w].pc = "idle"
            BY Zenon, <1>2 DEF Claim
          <6>2. at[w] \in ProcRec /\ at \in [Procs -> ProcRec] /\ w \in Procs
            BY WorkerIsProc DEF TypeInv, TypeOK
          <6>3. [at[w] EXCEPT !.pc = "sending", !.todo = todo].pc = "sending"
            BY <6>2 DEF ProcRec
          <6>. QED BY <6>1, <6>2, <6>3 DEF Become
        <5>. QED BY <5>1, <5>2
      <4>. QED BY <4>1
    <3>. QED BY <1>0, <3>1, OtherCounters
  <2>2. PICK S \in ClaimSets : row' = [r \in Rows |->
            IF r \in S THEN [row[r] EXCEPT !.status = "processing", !.stale = FALSE] ELSE row[r]]
    BY Zenon, <1>2 DEF Claim
  <2>3. \A r \in S : row[r].status = "pending"
    BY DEF ClaimSets, Claimable
  <2>4. \A r \in Rows : row'[r].status = row[r].status
                     \/ (row[r].status = "pending" /\ row'[r].status = "processing")
    BY Zenon, <1>0, <2>2, <2>3 DEF RowRec
  <2>. QED BY <1>1, <2>1, <2>4 DEF Terminal
<1>3. ASSUME NEW w \in Workers, NEW q \in Rows, WorkerRowStep(w, q) \/ RowFault(w, q)
      PROVE  CountersMatchRows'
  <2>0. hand[w][q] # "none" /\ row[q].status = "processing" /\ row[q] \in RowRec
    BY <1>0, <1>3 DEF HeldIsOpen, WorkerRowStep, RowFault, SendFails, Broadcast, RecordSuccess,
                      RecordFailure, Rebroadcast, LoseReceipt, LoseCommitAck
  <2>1. ASSUME UNCHANGED <<row, job>> PROVE CountersMatchRows'
    BY <1>1, <2>1 DEF CountersKept
  <2>2. ASSUME NEW new, row' = [row EXCEPT ![q] = new]
        PROVE  row'[q] = new /\ \A r \in Rows : r # q => row'[r].status = row[r].status
    BY <1>0, <2>2
  <2>3. ASSUME NEW new, row' = [row EXCEPT ![q] = new], new.status = "completed",
               job' = [job EXCEPT ![JobOf[q]].processed = @ + 1]
        PROVE  CountersMatchRows'
    <3>. SUFFICES ASSUME NEW j \in Jobs
                  PROVE  /\ job'[j].processed = Cardinality(WithStatus(j, {"completed"}))'
                         /\ job'[j].failed = Cardinality(WithStatus(j, {"failed"}))'
      BY DEF CountersMatchRows
    <3>1. Cardinality(WithStatus(j, {"completed"}))' = Cardinality(WithStatus(j, {"completed"}))
                                                     + (IF JobOf[q] = j THEN 1 ELSE 0)
      <4>1. row[q].status # "completed" /\ row'[q].status = "completed"
        BY <2>0, <2>2, <2>3
      <4>2. \A r \in Rows : r # q => row'[r].status = row[r].status
        BY <2>2, <2>3
      <4>. QED BY <4>1, <4>2, OneMore
    <3>2. Cardinality(WithStatus(j, {"failed"}))' = Cardinality(WithStatus(j, {"failed"}))
      <4>1. \A r \in Rows : (row'[r].status = "failed") = (row[r].status = "failed")
        BY <2>0, <2>2, <2>3
      <4>. QED BY <4>1, SameCount
    <3>3. /\ job'[j].processed = job[j].processed + (IF JobOf[q] = j THEN 1 ELSE 0)
          /\ job'[j].failed = job[j].failed
      <4>1. job[j] \in JobRec
        BY <1>0
      <4>2. CASE JobOf[q] = j
        <5>1. job'[j] = [job[j] EXCEPT !.processed = @ + 1]
          BY <1>0, <2>3, <4>2
        <5>. QED BY <4>1, <4>2, <5>1 DEF JobRec
      <4>3. CASE JobOf[q] # j
        <5>1. job'[j] = job[j]
          BY <1>0, <2>3, <4>3
        <5>. QED BY <4>1, <4>3, <5>1 DEF JobRec
      <4>. QED BY <4>2, <4>3
    <3>. QED BY <3>1, <3>2, <3>3 DEF CountInv, CountersMatchRows
  <2>4. ASSUME NEW new, row' = [row EXCEPT ![q] = new], new.status = "failed",
               job' = [job EXCEPT ![JobOf[q]].failed = @ + 1]
        PROVE  CountersMatchRows'
    <3>. SUFFICES ASSUME NEW j \in Jobs
                  PROVE  /\ job'[j].processed = Cardinality(WithStatus(j, {"completed"}))'
                         /\ job'[j].failed = Cardinality(WithStatus(j, {"failed"}))'
      BY DEF CountersMatchRows
    <3>1. Cardinality(WithStatus(j, {"failed"}))' = Cardinality(WithStatus(j, {"failed"}))
                                                  + (IF JobOf[q] = j THEN 1 ELSE 0)
      <4>1. row[q].status # "failed" /\ row'[q].status = "failed"
        BY <2>0, <2>2, <2>4
      <4>2. \A r \in Rows : r # q => row'[r].status = row[r].status
        BY <2>2, <2>4
      <4>. QED BY <4>1, <4>2, OneMore
    <3>2. Cardinality(WithStatus(j, {"completed"}))' = Cardinality(WithStatus(j, {"completed"}))
      <4>1. \A r \in Rows : (row'[r].status = "completed") = (row[r].status = "completed")
        BY <2>0, <2>2, <2>4
      <4>. QED BY <4>1, SameCount
    <3>3. /\ job'[j].failed = job[j].failed + (IF JobOf[q] = j THEN 1 ELSE 0)
          /\ job'[j].processed = job[j].processed
      <4>1. job[j] \in JobRec
        BY <1>0
      <4>2. CASE JobOf[q] = j
        <5>1. job'[j] = [job[j] EXCEPT !.failed = @ + 1]
          BY <1>0, <2>4, <4>2
        <5>. QED BY <4>1, <4>2, <5>1 DEF JobRec
      <4>3. CASE JobOf[q] # j
        <5>1. job'[j] = job[j]
          BY <1>0, <2>4, <4>3
        <5>. QED BY <4>1, <4>3, <5>1 DEF JobRec
      <4>. QED BY <4>2, <4>3
    <3>. QED BY <3>1, <3>2, <3>3 DEF CountInv, CountersMatchRows
  <2>5. ASSUME NEW new, row' = [row EXCEPT ![q] = new], new.status = "pending", UNCHANGED job
        PROVE  CountersMatchRows'
    <3>1. \A r \in Rows : \A s \in Terminal : (row'[r].status = s) = (row[r].status = s)
      BY <2>0, <2>2, <2>5 DEF Terminal
    <3>. QED BY <1>1, <2>5, <3>1 DEF CountersKept
  <2>6. CASE RecordSuccess(w, q)
    <3>1. [row[q] EXCEPT !.status = "completed", !.backoff = FALSE, !.stale = FALSE].status = "completed"
      BY <2>0 DEF RowRec
    <3>. QED BY <2>3, <2>6, <3>1 DEF RecordSuccess, CommitSuccess
  <2>7. CASE RecordFailure(w, q)
    <3>. DEFINE new == FailedRow(prev[w][q] + 1)
    <3>1. /\ row' = [row EXCEPT ![q] = new]
          /\ job' = IF new.status = "failed" THEN [job EXCEPT ![JobOf[q]].failed = @ + 1] ELSE job
      BY <2>7 DEF RecordFailure
    <3>2. new.status = "failed" \/ new.status = "pending"
      BY DEF FailedRow, GivenUp, Reopened
    <3>. HIDE DEF new
    <3>3. CASE new.status = "failed"
      BY <2>4, <3>1, <3>3
    <3>4. CASE new.status = "pending"
      BY <2>5, <3>1, <3>4
    <3>. QED BY <3>2, <3>3, <3>4
  <2>8. CASE SendFails(w, q) \/ Broadcast(w, q) \/ Rebroadcast(w, q) \/ LoseReceipt(w, q)
    BY <2>1, <2>8 DEF SendFails, Broadcast, Rebroadcast, LoseReceipt
  <2>9. ~LoseCommitAck(w, q)
    BY <1>0 DEF NoReopening, LoseCommitAck, Fault
  <2>. QED BY <1>3, <2>6, <2>7, <2>8, <2>9 DEF WorkerRowStep, RowFault
<1>4. CASE \A w \in Workers : ~Claim(w) /\ \A r \in Rows : ~WorkerRowStep(w, r) /\ ~RowFault(w, r)
  <2>1. CountersKept
    BY <1>0, <1>4, OtherCounters
  <2>2. \A r \in Rows : \A s \in Terminal : (row'[r].status = s) = (row[r].status = s)
    BY <1>0, <1>4, OtherRows DEF NoReopening, Terminal
  <2>. QED BY <1>1, <2>1, <2>2
<1>. QED BY <1>2, <1>3, <1>4

\* Whatever the workers interleave, crash or retry, a job's processed_wallets
\* and failed_wallets are what a recount of its rows would give.
THEOREM CountersAreExact ==
  ASSUME NoRecount
  PROVE  Spec => []CountersMatchRows
<1>0. NoReopening
  BY DEF NoRecount
<1>1. Init => CountInv
  <2>. SUFFICES ASSUME Init PROVE CountInv
    OBVIOUS
  <2>1. NoRefresh
    BY DEF Init, Idle, NoRefresh
  <2>2. \A j \in Jobs : WithStatus(j, {"completed"}) = {} /\ WithStatus(j, {"failed"}) = {}
    BY DEF Init, WithStatus, RowsOf
  <2>3. \A j \in Jobs : job[j].processed = 0 /\ job[j].failed = 0
    BY DEF Init
  <2>. QED BY <2>1, <2>2, <2>3, FS_EmptySet DEF CountInv, CountersMatchRows
<1>2. TypeInv /\ LeaseInv /\ RecordInv /\ CountInv /\ [Next]_vars => CountInv'
  <2>1. ASSUME TypeInv, LeaseInv, RecordInv, CountInv, [Next]_vars PROVE CountInv'
    BY <2>1, CountersStep, NoRefreshStep DEF CountInv, RecordInv
  <2>. QED BY <2>1
<1>3. CountInv => CountersMatchRows
  BY DEF CountInv
<1>. QED BY <1>0, <1>1, <1>2, <1>3, RecordAlways, PTL DEF Spec
=============================================================================
