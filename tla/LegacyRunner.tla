----------------------------- MODULE LegacyRunner -----------------------------
(***************************************************************************)
(* The legacy runner of one job: its record is one row of airdrop_jobs that *)
(* everyone reads as a whole, changes in memory and writes back as a whole. *)
(* Every process ticks: it requeues the job when its runner seems dead, and *)
(* claims it when it is queued.  The owner pauses, resumes, cancels, starts *)
(* and queues it; an operator migrates it to the normalized queue while it  *)
(* may be running.                                                         *)
(***************************************************************************)
EXTENDS Naturals, FiniteSets

CONSTANTS
    Processes,
    Runners,      \* bound: runs of executeJob at a time, over all processes
    Process,      \* per runner
    Recipients,   \* positions in results, numbers
    Wallets,      \* distributor wallets of the job: the size of a wave
    Target,       \* targetRunCount
    Nothing,      \* no record
    MaxCommands,  \* bound: commands of the owner, and the migration
    MaxFaults     \* bound: deaths, database errors, lost receipts, slow waves,
                  \* long waits in the queue

Passes == 1 .. Target

ASSUME LegacyAssumption ==
    /\ Process \in [Runners -> Processes]
    /\ Recipients \subseteq Nat
    /\ IsFiniteSet(Recipients)
    /\ Recipients # {}
    /\ Wallets \in Nat \ {0}
    /\ Target \in Nat \ {0}
    /\ MaxCommands \in Nat
    /\ MaxFaults \in Nat

VARIABLES
    db,        \* the record
    migrated,  \* its column migrated_to_queue, which no save writes
    old,       \* its updatedAt is older than the stale threshold
    rows,      \* per recipient: its row of job_wallets once migrated
    pc,        \* per runner
    mem,       \* per runner: its copy of the record
    todo,      \* per runner: pendingIndices not processed yet
    stale,     \* per process: the record it is about to requeue
    request,   \* the record a route of the owner is about to save
    paid,      \* per recipient and pass: transfers the chain accepted
    commands,
    faults,
    doubts,    \* history: faults that hid a payment
    overlap,   \* history: two runners may have sent at once, or a runner and the queue
    undone     \* history: a save took back the success of a recipient, or a pass

runner  == <<pc, mem, todo>>
history == <<doubts, overlap, undone>>
vars == <<db, migrated, old, rows, runner, stale, request, paid, commands, faults, history>>

JobStatuses == {"draft", "queued", "running", "paused", "completed", "failed", "cancelled"}
Results == {"queued", "pending", "success", "failed"}
Record == [status : JobStatuses, paused : BOOLEAN, run : Passes, res : [Recipients -> Results]]

ASSUME NothingAssumption == Nothing \notin Record

PCs == {"idle", "load", "second", "start", "wave", "mark", "send", "record", "stop",
        "snap", "pass", "quit", "last"}

NewJob(s) == [status |-> s, paused |-> FALSE, run |-> 1, res |-> [i \in Recipients |-> "queued"]]

Init ==
    /\ db \in {NewJob("draft"), NewJob("queued")}
    /\ migrated = FALSE
    /\ old = FALSE
    /\ rows = [i \in Recipients |-> "none"]
    /\ pc = [r \in Runners |-> "idle"]
    /\ mem = [r \in Runners |-> Nothing]
    /\ todo = [r \in Runners |-> {}]
    /\ stale = [p \in Processes |-> Nothing]
    /\ request = Nothing
    /\ paid = [i \in Recipients |-> [n \in Passes |-> 0]]
    /\ commands = 0
    /\ faults = 0
    /\ doubts = 0
    /\ overlap = FALSE
    /\ undone = FALSE

Fault == faults < MaxFaults /\ faults' = faults + 1

\* isJobRunActive: known to the process that runs the job, and to no other.
Active(p) == \E r \in Runners : Process[r] = p /\ pc[r] \notin {"idle", "last"}

\* The runners that may yet send without another look at the migration flag.
Sending == {r \in Runners : pc[r] \notin {"idle", "load", "last"}}

\* saveJob: the whole record but the migration flag.
Save(rec) ==
    /\ db' = rec
    /\ old' = FALSE
    /\ undone' = (undone \/ rec.run < db.run \/ \E i \in Recipients :
                      rec.run = db.run /\ db.res[i] = "success" /\ rec.res[i] # "success")

\* The runner knows of a payment that the record does not show.
Unsaved(r) ==
    mem[r] # Nothing /\ \E i \in Recipients : mem[r].res[i] = "success" /\ db.res[i] # "success"

-----------------------------------------------------------------------------
(* The queue tick of a process: it requeues what is stale and then claims     *)
(* what is queued.  One tick at a time; a poll, a route and the end of a run   *)
(* ask for one.                                                               *)

\* Mutant of Requeued: the recipients in flight keep their status "pending" and
\* the job its status.
RequeuedNot(rec) == rec

\* A stale job starts again, its recipients in flight too.
Requeued(rec) ==
    [rec EXCEPT !.status = "queued", !.paused = FALSE,
                !.res = [i \in Recipients |-> IF rec.res[i] = "pending" THEN "queued" ELSE rec.res[i]]]

\* listStaleRunningJobs, then the check of the process's own runners.
ListStale(p) ==
    /\ stale[p] = Nothing
    /\ db.status = "running" /\ old /\ ~migrated
    /\ ~Active(p)
    /\ stale' = [stale EXCEPT ![p] = Requeued(db)]
    /\ UNCHANGED <<db, migrated, old, rows, runner, request, paid, commands, faults, history>>

Requeue(p) ==
    /\ stale[p] # Nothing
    /\ Save(stale[p])
    /\ stale' = [stale EXCEPT ![p] = Nothing]
    /\ UNCHANGED <<migrated, rows, runner, request, paid, commands, faults, doubts, overlap>>

\* The WHERE of claimQueuedDueJob.
Due == db.status = "queued" /\ ~db.paused /\ ~migrated

\* The claim of a process that does not run the job, and executeJob in the
\* background.
Claim(p) ==
    /\ stale[p] = Nothing
    /\ Due
    /\ ~Active(p)
    /\ \E r \in Runners :
        /\ Process[r] = p
        /\ pc[r] = "idle"
        /\ pc' = [pc EXCEPT ![r] = "load"]
    /\ db' = [db EXCEPT !.status = "running", !.paused = FALSE]
    /\ overlap' = (overlap \/ \E r \in Runners : pc[r] \notin {"idle", "last"})
    /\ UNCHANGED <<migrated, old, rows, mem, todo, stale, request, paid, commands, faults, doubts, undone>>

-----------------------------------------------------------------------------
(* executeJob. *)

Goto(r, where) == pc' = [pc EXCEPT ![r] = where]
Keep(r, rec) == mem' = [mem EXCEPT ![r] = rec]

\* pendingIndices.
Unpaid(rec) == {i \in Recipients : rec.res[i] # "success"}

Stopped == db.status \in {"completed", "cancelled"} \/ (db.status = "paused" /\ db.paused)

\* The first getJob.
Load(r) ==
    /\ pc[r] = "load"
    /\ Keep(r, db)
    /\ Goto(r, IF migrated \/ Stopped THEN "last" ELSE "second")
    /\ UNCHANGED <<db, migrated, old, rows, todo, stale, request, paid, commands, faults, history>>

\* A distributor wallet of the job has lost its key.
NoKey(r) ==
    /\ pc[r] = "load"
    /\ ~migrated
    /\ ~Stopped
    /\ Fault
    /\ Keep(r, [db EXCEPT !.status = "failed",
           !.res = [i \in Recipients |-> IF db.res[i] = "success" THEN "success" ELSE "failed"]])
    /\ Goto(r, "quit")
    /\ UNCHANGED <<db, migrated, old, rows, todo, stale, request, paid, commands, history>>

\* The second getJob, after the token was looked at.
Second(r) ==
    /\ pc[r] = "second"
    /\ \/ db.status = "cancelled" /\ Keep(r, db) /\ Goto(r, "last") /\ UNCHANGED todo
       \/ /\ db.status # "cancelled" /\ db.paused
          /\ Keep(r, [db EXCEPT !.status = "paused"])
          /\ Goto(r, "quit")
          /\ UNCHANGED todo
       \/ /\ db.status # "cancelled" /\ ~db.paused
          /\ Keep(r, [db EXCEPT !.status = "running"])
          /\ todo' = [todo EXCEPT ![r] = Unpaid(db)]
          /\ Goto(r, "start")
    /\ UNCHANGED <<db, migrated, old, rows, stale, request, paid, commands, faults, history>>

\* The next recipients, as many as there are wallets.
Wave(r) == {i \in todo[r] : Cardinality({j \in todo[r] : j < i}) < Wallets}

\* Before a wave the status is looked at, for a pause or a cancel.
BeginWave(r) ==
    /\ pc[r] = "wave"
    /\ todo[r] # {}
    /\ \/ /\ db.status = "cancelled"
          /\ Keep(r, [mem[r] EXCEPT !.status = "cancelled", !.paused = TRUE])
          /\ Goto(r, "stop")
       \/ /\ db.status # "cancelled" /\ db.paused
          /\ Keep(r, [mem[r] EXCEPT !.status = "paused", !.paused = TRUE])
          /\ Goto(r, "stop")
       \/ /\ db.status # "cancelled" /\ ~db.paused
          /\ Keep(r, [mem[r] EXCEPT !.paused = FALSE,
                 !.res = [i \in Recipients |-> IF i \in Wave(r) THEN "pending" ELSE mem[r].res[i]]])
          /\ Goto(r, "mark")
    /\ UNCHANGED <<db, migrated, old, rows, todo, stale, request, paid, commands, faults, history>>

\* The transfers of a wave; the receipt of an accepted one may be lost.
Send(r) ==
    /\ pc[r] = "send"
    /\ \E accepted \in SUBSET Wave(r) : \E known \in SUBSET accepted :
        /\ IF known = accepted THEN UNCHANGED <<faults, doubts>> ELSE Fault /\ doubts' = doubts + 1
        /\ paid' = [i \in Recipients |->
               IF i \in accepted THEN [paid[i] EXCEPT ![mem[r].run] = @ + 1] ELSE paid[i]]
        /\ Keep(r, [mem[r] EXCEPT !.res = [i \in Recipients |->
               IF i \in known THEN "success" ELSE IF i \in Wave(r) THEN "failed" ELSE mem[r].res[i]]])
    /\ todo' = [todo EXCEPT ![r] = @ \ Wave(r)]
    /\ Goto(r, "record")
    /\ UNCHANGED <<db, migrated, old, rows, stale, request, commands, overlap, undone>>

\* Mutant of NextPass: the results of the last pass are kept.
NextPassKeeping(rec) == [rec EXCEPT !.run = @ + 1, !.status = "running"]

NextPass(rec) ==
    [rec EXCEPT !.run = @ + 1, !.status = "running", !.res = [i \in Recipients |-> "queued"]]

Outcome(rec) ==
    IF \E i \in Recipients : rec.res[i] = "failed" THEN "failed" ELSE "completed"

\* The record read after a pass replaces the runner's own, but for a cancelled
\* one.
Snap(r) ==
    /\ pc[r] = "snap" \/ (pc[r] = "wave" /\ todo[r] = {})
    /\ \/ db.status = "cancelled" /\ Goto(r, "last") /\ UNCHANGED <<mem, todo>>
       \/ /\ db.status # "cancelled" /\ db.paused
          /\ Keep(r, [db EXCEPT !.status = "paused"])
          /\ Goto(r, "quit")
          /\ UNCHANGED todo
       \/ /\ db.status # "cancelled" /\ ~db.paused /\ mem[r].run < Target
          /\ Keep(r, NextPass([db EXCEPT !.run = mem[r].run]))
          /\ todo' = [todo EXCEPT ![r] = Unpaid(NextPass([db EXCEPT !.run = mem[r].run]))]
          /\ Goto(r, "pass")
       \/ /\ db.status # "cancelled" /\ ~db.paused /\ mem[r].run = Target
          /\ Keep(r, [db EXCEPT !.status = Outcome(db)])
          /\ Goto(r, "quit")
          /\ UNCHANGED todo
    /\ UNCHANGED <<db, migrated, old, rows, stale, request, paid, commands, faults, history>>

\* The saves on the way.
After == [start |-> "wave", mark |-> "send", record |-> "wave", stop |-> "snap",
          pass |-> "wave", quit |-> "last"]

SaveStep(r) ==
    /\ pc[r] \in DOMAIN After
    /\ Save(mem[r])
    /\ Goto(r, After[pc[r]])
    /\ UNCHANGED <<migrated, rows, mem, todo, stale, request, paid, commands, faults, doubts, overlap>>

\* finally: the run was released and a tick passed; the copy is saved once more,
\* or that fails.
Last(r) ==
    /\ pc[r] = "last"
    /\ \/ Save(mem[r]) /\ UNCHANGED <<faults, doubts>>
       \/ /\ Fault
          /\ doubts' = IF Unsaved(r) THEN doubts + 1 ELSE doubts
          /\ UNCHANGED <<db, old, undone>>
    /\ Goto(r, "idle")
    /\ Keep(r, Nothing)
    /\ todo' = [todo EXCEPT ![r] = {}]
    /\ UNCHANGED <<migrated, rows, stale, request, paid, commands, overlap>>

\* A database call fails and the error leaves executeJob through finally.
RunError(r) ==
    /\ pc[r] \notin {"idle", "send", "last"}
    /\ Fault
    /\ doubts' = IF Unsaved(r) THEN doubts + 1 ELSE doubts
    /\ Goto(r, IF pc[r] = "load" THEN "idle" ELSE "last")
    /\ todo' = [todo EXCEPT ![r] = {}]
    /\ UNCHANGED <<db, migrated, old, rows, mem, stale, request, paid, commands, overlap, undone>>

\* A process dies with its runners, in flight or not, and starts again.
Crash(p) ==
    /\ \E r \in Runners : Process[r] = p /\ pc[r] # "idle"
    /\ Fault
    /\ doubts' = IF \E r \in Runners : Process[r] = p /\ Unsaved(r) THEN doubts + 1 ELSE doubts
    /\ pc' = [r \in Runners |-> IF Process[r] = p THEN "idle" ELSE pc[r]]
    /\ mem' = [r \in Runners |-> IF Process[r] = p THEN Nothing ELSE mem[r]]
    /\ todo' = [r \in Runners |-> IF Process[r] = p THEN {} ELSE todo[r]]
    /\ stale' = [stale EXCEPT ![p] = Nothing]
    /\ UNCHANGED <<db, migrated, old, rows, request, paid, commands, overlap, undone>>

\* Nobody saved the running job for the stale threshold: its runner is dead,
\* waits that long for a wave, or was claimed after a long wait in the queue, as
\* the claim does not renew updatedAt.
Age ==
    /\ db.status = "running"
    /\ ~old
    /\ old' = TRUE
    /\ IF \E r \in Runners : pc[r] # "idle" THEN Fault ELSE UNCHANGED faults
    /\ UNCHANGED <<db, migrated, rows, runner, stale, request, paid, commands, history>>

-----------------------------------------------------------------------------
(* The routes of the owner: the record is read and checked, and saved later. *)

Queued(rec) == [rec EXCEPT !.status = "queued", !.paused = FALSE]

Unsuccessful(rec) ==
    [i \in Recipients |-> IF rec.res[i] = "success" THEN "success" ELSE "queued"]

Ended == {"completed", "cancelled"}

Ask(rec) ==
    /\ request = Nothing
    /\ commands < MaxCommands
    /\ commands' = commands + 1
    /\ request' = rec
    /\ UNCHANGED <<db, migrated, old, rows, runner, stale, paid, faults, history>>

Pause == Ask([db EXCEPT !.paused = TRUE, !.status = IF @ \in {"queued", "running"} THEN "paused" ELSE @])

Resume(p) ==
    /\ db.status \notin Ended
    /\ ~(~db.paused /\ (db.status = "running" \/ Active(p)))
    /\ Ask(Queued(db))

Start(p) ==
    /\ db.status \notin Ended \cup {"running"}
    /\ ~Active(p)
    /\ Ask(Queued(db))

QueueAgain(p) ==
    /\ db.status \notin Ended \cup {"running"}
    /\ ~Active(p)
    /\ Ask([Queued(db) EXCEPT !.res = Unsuccessful(db)])

Cancel ==
    /\ db.status \notin Ended
    /\ Ask([db EXCEPT !.status = "cancelled", !.paused = TRUE])

Commit ==
    /\ request # Nothing
    /\ Save(request)
    /\ request' = Nothing
    /\ UNCHANGED <<migrated, rows, runner, stale, paid, commands, faults, doubts, overlap>>

-----------------------------------------------------------------------------
(* The migration. *)

\* Mutant of WalletRowStatus: who is not failed is paid by the queue.
WalletRowPending(result) == IF result = "failed" THEN "failed" ELSE "pending"

WalletRowStatus(result) ==
    IF result = "success" THEN "completed" ELSE IF result = "failed" THEN "failed" ELSE "pending"

\* migrateOneLegacyJobMutating: one transaction that locks the record.
Migrate ==
    /\ ~migrated
    /\ commands < MaxCommands
    /\ commands' = commands + 1
    /\ migrated' = TRUE
    /\ rows' = [i \in Recipients |-> WalletRowStatus(db.res[i])]
    /\ overlap' = (overlap \/ Sending # {})
    /\ UNCHANGED <<db, old, runner, stale, request, paid, faults, doubts, undone>>

\* The normalized queue sends a pending row of the migrated job, once.
QueuePays(i) ==
    /\ rows[i] = "pending"
    /\ rows' = [rows EXCEPT ![i] = "completed"]
    /\ paid' = [paid EXCEPT ![i][db.run] = @ + 1]
    /\ UNCHANGED <<db, migrated, old, runner, stale, request, commands, faults, history>>

-----------------------------------------------------------------------------
TickStep(p) == ListStale(p) \/ Requeue(p) \/ Claim(p)

RunStep(r) ==
    Load(r) \/ Second(r) \/ BeginWave(r) \/ Send(r) \/ Snap(r) \/ SaveStep(r) \/ Last(r)

Next ==
    \/ \E p \in Processes : TickStep(p) \/ Crash(p) \/ Resume(p) \/ Start(p) \/ QueueAgain(p)
    \/ \E r \in Runners : RunStep(r) \/ NoKey(r) \/ RunError(r)
    \/ Age \/ Pause \/ Cancel \/ Commit \/ Migrate
    \/ \E i \in Recipients : QueuePays(i)

Spec == Init /\ [][Next]_vars

\* Processes poll, runners and requests proceed, and a job that nobody runs ages.
FairSpec ==
    /\ Spec
    /\ \A p \in Processes : WF_vars(TickStep(p))
    /\ \A r \in Runners : WF_vars(RunStep(r))
    /\ WF_vars(Commit)
    /\ WF_vars(Age)

-----------------------------------------------------------------------------
(* Properties. *)

\* Every variable has the shape the record and the runner give it.
TypeOK ==
    /\ db \in Record
    /\ migrated \in BOOLEAN
    /\ old \in BOOLEAN
    /\ rows \in [Recipients -> {"none", "pending", "completed", "failed"}]
    /\ pc \in [Runners -> PCs]
    /\ mem \in [Runners -> Record \cup {Nothing}]
    /\ todo \in [Runners -> SUBSET Recipients]
    /\ stale \in [Processes -> Record \cup {Nothing}]
    /\ request \in Record \cup {Nothing}
    /\ paid \in [Recipients -> [Passes -> Nat]]

\* A recipient the record calls paid was paid in the pass the record names,
\* whoever wrote whatever stale copy of it back.
SuccessWasPaid == \A i \in Recipients : db.res[i] = "success" => paid[i][db.run] > 0

\* As long as no two runners send at once, and no stale copy takes a success
\* back, a recipient is paid twice in a pass only if a fault hid a payment:
\* pauses, requeues, restarts and the migration pay nobody again.
PaidOncePerDoubt ==
    ~overlap /\ ~undone => \A i \in Recipients, n \in Passes : paid[i][n] <= 1 + doubts

\* A job that is queued or running does not stay so, whoever dies.
JobEnds ==
    db.status \in {"queued", "running"} ~>
        db.status \notin {"queued", "running"} \/ migrated

\* What the outcome says: a completed job has paid all its recipients.
CompletedIsPaid ==
    db.status = "completed" => \A i \in Recipients : db.res[i] = "success"
=============================================================================
