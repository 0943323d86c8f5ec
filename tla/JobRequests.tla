----------------------------- MODULE JobRequests -----------------------------
(***************************************************************************)
(* Requests that create, edit and start jobs, against the workers that pay *)
(* their rows.  A page sends its list and waits for the answer; handlers   *)
(* of other tabs and API clients edit and start the same jobs.  Answers    *)
(* get lost, servers die and database calls fail between a handler's       *)
(* statements; its transactions commit whole or not at all.                *)
(***************************************************************************)
EXTENDS Naturals, FiniteSets

CONSTANTS
    Jobs,       \* identifiers randomUUID() may return
    Payees,     \* the recipients of the page's list
    Slots,      \* bound: requests being handled at a time
    Workers,
    None,
    MaxRequests, \* bound: requests accepted
    MaxEdits,   \* bound: recipient lists written by PATCH
    MaxFaults   \* bound: lost answers, failed database calls, deaths of a server

ASSUME RequestAssumption ==
    /\ None \notin Jobs \cup Slots \cup Workers
    /\ IsFiniteSet(Jobs) /\ IsFiniteSet(Slots) /\ IsFiniteSet(Workers)
    /\ MaxRequests \in Nat /\ MaxEdits \in Nat /\ MaxFaults \in Nat

VARIABLES
    status,   \* per job: status of its row, "none" before it is committed
    total,    \* per job: total_wallets
    rows,     \* committed rows of job_wallets and fund_transfer_queue
    pc,       \* per slot: what its handler does next
    on,       \* per slot: the job it works on
    seen,     \* per slot: status in the handler's copy of the job
    fresh,    \* per slot: rows inserted by its open transaction
    edit,     \* per slot: the number of its edit, 0 for a creation
    held,     \* per worker: the row it claimed, its payment still to come
    batch,    \* per worker: the job to reconcile after its batch, or None
    page,     \* the slot whose answer the page waits for (busy), or None
    served,   \* the page has its job
    requests,
    edits,
    faults,
    doubts,   \* history: creations that were committed and not answered with the job
    reopened, \* history: jobs that had been started and were saved as drafts
    paid      \* history: per recipient, transfers sent

handler == <<pc, on, seen, fresh, edit>>
tables == <<status, total, rows>>
worker == <<held, batch, paid>>
client == <<page, served>>
ghosts == <<doubts, reopened>>
vars == <<tables, handler, worker, client, requests, edits, faults, ghosts>>

Statuses == {"none", "draft", "queued", "running", "completed"}
PCs == {"idle", "insert", "fund", "start", "edit", "replace", "refresh", "save", "update", "unpause", "reply", "error"}
Rows == [job : Jobs, to : Payees, edit : 0 .. MaxEdits, state : {"pending", "processing", "completed"}]

ASSUME NoneAssumption == None \notin Rows

Init ==
    /\ status = [j \in Jobs |-> "none"]
    /\ total = [j \in Jobs |-> 0]
    /\ rows = {}
    /\ pc = [s \in Slots |-> "idle"]
    /\ on = [s \in Slots |-> None]
    /\ seen = [s \in Slots |-> "none"]
    /\ fresh = [s \in Slots |-> {}]
    /\ edit = [s \in Slots |-> 0]
    /\ held = [w \in Workers |-> None]
    /\ batch = [w \in Workers |-> None]
    /\ page = None
    /\ served = FALSE
    /\ requests = 0
    /\ edits = 0
    /\ faults = 0
    /\ doubts = 0
    /\ reopened = 0
    /\ paid = [p \in Payees |-> 0]

Fault == faults < MaxFaults /\ faults' = faults + 1

Request(s) == pc[s] = "idle" /\ requests < MaxRequests /\ requests' = requests + 1

RowsOf(j) == {r \in rows : r.job = j}
OpenRows(j) == {r \in RowsOf(j) : r.state # "completed"}

Goto(s, label) == pc' = [pc EXCEPT ![s] = label]

\* Mutant of Unlocked: the edit reads the job without FOR UPDATE.
UnlockedAlways(j) == TRUE

\* A statement that changes the job's row, or a SELECT ... FOR UPDATE of it,
\* waits for the transaction that locked the row.
Unlocked(j) == \A s \in Slots : on[s] = j => pc[s] # "replace"

-----------------------------------------------------------------------------
(* Creating a job.                                                          *)

\* The page sends its list and is busy until the answer comes.
Create(s, label) ==
    /\ page = None /\ ~served
    /\ Request(s)
    /\ \E j \in Jobs :
        /\ status[j] = "none" /\ \A t \in Slots : on[t] # j
        /\ on' = [on EXCEPT ![s] = j]
    /\ page' = s
    /\ Goto(s, label)
    /\ UNCHANGED <<tables, seen, fresh, edit, worker, served, edits, faults, ghosts>>

\* INSERT of one chunk of the recipients.
InsertChunk(s, list) ==
    \E p \in list :
        /\ \A r \in fresh[s] : r.to # p
        /\ fresh' = [fresh EXCEPT ![s] = @ \cup
                        {[job |-> on[s], to |-> p, edit |-> edit[s], state |-> "pending"]}]

Inserted(s, list) == {r.to : r \in fresh[s]} = list

CreateRow(s) ==
    /\ pc[s] \in {"insert", "fund"}
    /\ InsertChunk(s, Payees)
    /\ UNCHANGED <<tables, pc, on, seen, edit, worker, client, edits, faults, ghosts, requests>>

\* COMMIT makes the job and its rows visible, a wallet job as a draft; rows of a
\* fund transfer have no status but their own and may be claimed at once.  The
\* answer of COMMIT itself can be lost, which the handler takes for a failure.
CreateCommit(s) ==
    /\ pc[s] \in {"insert", "fund"}
    /\ Inserted(s, Payees)
    /\ status' = [status EXCEPT ![on[s]] = IF pc[s] = "fund" THEN "queued" ELSE "draft"]
    /\ total' = [total EXCEPT ![on[s]] = Cardinality(fresh[s])]
    /\ rows' = rows \cup fresh[s]
    /\ fresh' = [fresh EXCEPT ![s] = {}]
    /\ \/ Goto(s, IF pc[s] = "fund" THEN "reply" ELSE "start") /\ UNCHANGED faults
       \/ Goto(s, "error") /\ Fault
    /\ UNCHANGED <<on, seen, edit, worker, client, edits, ghosts, requests>>

\* startNormalizedJob: one UPDATE with its own test of the draft; the request
\* that created the job fails when someone else has started it.
StartDraft(s) ==
    /\ pc[s] \in {"start", "update"}
    /\ Unlocked(on[s])
    /\ IF status[on[s]] = "draft"
       THEN /\ status' = [status EXCEPT ![on[s]] = "queued"]
            /\ Goto(s, "reply")
       ELSE /\ Goto(s, "error")
            /\ UNCHANGED status
    /\ UNCHANGED <<total, rows, on, seen, fresh, edit, worker, client, edits, faults, ghosts, requests>>

-----------------------------------------------------------------------------
(* Starting and editing a job that exists.                                  *)

Visible == {j \in Jobs : status[j] # "none"}

\* The start route reads the job and chooses its UPDATE by what it read.
Start(s) ==
    /\ Request(s)
    /\ \E j \in Visible :
        /\ status[j] \in {"draft", "queued"}
        /\ on' = [on EXCEPT ![s] = j]
        /\ Goto(s, IF status[j] = "draft" THEN "update" ELSE "unpause")
    /\ UNCHANGED <<tables, seen, fresh, edit, worker, client, edits, faults, ghosts>>

Unpause(s) ==
    /\ pc[s] = "unpause"
    /\ Unlocked(on[s])
    /\ IF status[on[s]] = "queued" /\ OpenRows(on[s]) # {}
       THEN /\ status' = [status EXCEPT ![on[s]] = "running"]
            /\ Goto(s, "reply")
       ELSE /\ Goto(s, "error")
            /\ UNCHANGED status
    /\ UNCHANGED <<total, rows, on, seen, fresh, edit, worker, client, edits, faults, ghosts, requests>>

\* PATCH: the handler keeps the status it read; with recipients it goes on to
\* replace them, with a schedule only to save its copy.
Edit(s) ==
    /\ Request(s)
    /\ \E j \in Visible :
        /\ status[j] \in {"draft", "queued"}
        /\ on' = [on EXCEPT ![s] = j]
        /\ seen' = [seen EXCEPT ![s] = status[j]]
        /\ \E label \in {"edit", "save"} : Goto(s, label)
    /\ UNCHANGED <<tables, fresh, edit, worker, client, edits, faults, ghosts>>

\* Mutant of Editable: the handler's earlier test of the status is the only one.
EditableUnchecked(j) == TRUE

Editable(j) == status[j] = "draft"

\* replaceNormalizedDraftJobWallets: BEGIN and SELECT ... FOR UPDATE.
BeginReplace(s) ==
    /\ pc[s] = "edit"
    /\ edits < MaxEdits
    /\ Unlocked(on[s])
    /\ IF Editable(on[s]) THEN /\ edits' = edits + 1
                               /\ edit' = [edit EXCEPT ![s] = edits']
                               /\ Goto(s, "replace")
                          ELSE Goto(s, "error") /\ UNCHANGED <<edits, edit>>
    /\ UNCHANGED <<tables, on, seen, fresh, worker, client, faults, ghosts, requests>>

\* The list of the request is the page's, or a part of it.
ReplaceRow(s) ==
    /\ pc[s] = "replace"
    /\ InsertChunk(s, Payees)
    /\ UNCHANGED <<tables, pc, on, seen, edit, worker, client, edits, faults, ghosts, requests>>

\* DELETE removes the rows committed when the transaction locked the job (those
\* of an older edit); a row in a worker's hands goes as well.
Replaced(s) == {r \in RowsOf(on[s]) : r.edit < edit[s]}

ReplaceCommit(s) ==
    /\ pc[s] = "replace"
    /\ fresh[s] # {}
    /\ rows' = (rows \ Replaced(s)) \cup fresh[s]
    /\ total' = [total EXCEPT ![on[s]] = Cardinality(fresh[s])]
    /\ fresh' = [fresh EXCEPT ![s] = {}]
    /\ Goto(s, "refresh")
    /\ UNCHANGED <<status, on, seen, edit, worker, client, edits, faults, ghosts, requests>>

Settled(j, old) ==
    IF old = "draft" THEN old ELSE IF OpenRows(j) # {} THEN "running" ELSE "completed"

\* refreshJobAggregates counts the rows again.  A later test of the request may
\* still answer 400: the rows stay replaced and nothing is saved.
Refresh(s) ==
    /\ pc[s] = "refresh"
    /\ Unlocked(on[s])
    /\ total' = [total EXCEPT ![on[s]] = Cardinality(RowsOf(on[s]))]
    /\ status' = [status EXCEPT ![on[s]] = Settled(on[s], @)]
    /\ \E label \in {"save", "error"} : Goto(s, label)
    /\ UNCHANGED <<rows, on, seen, fresh, edit, worker, client, edits, faults, ghosts, requests>>

\* saveJob writes the handler's copy of the status over whatever it is now.
Save(s) ==
    /\ pc[s] = "save"
    /\ Unlocked(on[s])
    /\ status' = [status EXCEPT ![on[s]] = seen[s]]
    /\ reopened' = reopened + (IF seen[s] = "draft" /\ status[on[s]] # "draft" THEN 1 ELSE 0)
    /\ Goto(s, "reply")
    /\ UNCHANGED <<total, rows, on, seen, fresh, edit, worker, client, edits, faults, doubts, requests>>

-----------------------------------------------------------------------------
(* Answers.                                                                 *)

Finished(s) ==
    /\ Goto(s, "idle")
    /\ on' = [on EXCEPT ![s] = None]
    /\ seen' = [seen EXCEPT ![s] = "none"]
    /\ fresh' = [fresh EXCEPT ![s] = {}]
    /\ edit' = [edit EXCEPT ![s] = 0]

\* The page is told of a failure, or waits no more: the user may create again.
Doubted(s) ==
    /\ page' = IF page = s THEN None ELSE page
    /\ doubts' = doubts + (IF page = s THEN 1 ELSE 0)

Reply(s) ==
    /\ pc[s] = "reply"
    /\ served' = (served \/ page = s)
    /\ page' = IF page = s THEN None ELSE page
    /\ Finished(s)
    /\ UNCHANGED <<tables, worker, edits, faults, ghosts, requests>>

ReplyError(s) ==
    /\ pc[s] = "error"
    /\ Doubted(s)
    /\ Finished(s)
    /\ UNCHANGED <<tables, worker, served, edits, faults, reopened, requests>>

\* The connection of the page breaks; the handler goes on.
LoseAnswer(s) ==
    /\ page = s
    /\ Fault
    /\ Doubted(s)
    /\ UNCHANGED <<tables, handler, worker, served, edits, reopened, requests>>

\* A statement fails or the server dies: an open transaction leaves nothing.
\* Before COMMIT of a creation that is a plain failure.
Broken(s) ==
    /\ pc[s] \notin {"idle", "reply", "error"}
    /\ Fault
    /\ IF pc[s] \in {"insert", "fund"}
       THEN page' = (IF page = s THEN None ELSE page) /\ UNCHANGED doubts
       ELSE Doubted(s)
    /\ Finished(s)
    /\ UNCHANGED <<tables, worker, served, edits, reopened, requests>>

-----------------------------------------------------------------------------
(* Workers: a row is claimed, paid and recorded, its job reconciled.  The    *)
(* failures of this path are WalletQueue's.                                 *)

At(r, state) == [r EXCEPT !.state = state]

Claim(w) ==
    /\ held[w] = None /\ batch[w] = None
    /\ \E r \in rows :
        /\ r.state = "pending"
        /\ status[r.job] \in {"queued", "running"}
        /\ rows' = (rows \ {r}) \cup {At(r, "processing")}
        /\ held' = [held EXCEPT ![w] = At(r, "processing")]
        /\ status' = [status EXCEPT ![r.job] = "running"]
    /\ UNCHANGED <<total, handler, batch, paid, client, edits, faults, ghosts, requests>>

\* The record names the row: it changes nothing when the row was deleted.
Pay(w) ==
    /\ held[w] # None
    /\ paid' = [paid EXCEPT ![held[w].to] = @ + 1]
    /\ rows' = IF held[w] \in rows THEN (rows \ {held[w]}) \cup {At(held[w], "completed")} ELSE rows
    /\ batch' = [batch EXCEPT ![w] = held[w].job]
    /\ held' = [held EXCEPT ![w] = None]
    /\ UNCHANGED <<status, total, handler, client, edits, faults, ghosts, requests>>

Reconcile(w) ==
    /\ batch[w] # None
    /\ Unlocked(batch[w])
    /\ status' = [status EXCEPT ![batch[w]] = Settled(batch[w], @)]
    /\ batch' = [batch EXCEPT ![w] = None]
    /\ UNCHANGED <<total, rows, handler, held, paid, client, edits, faults, ghosts, requests>>

-----------------------------------------------------------------------------
Handle(s) ==
    \/ CreateRow(s) \/ CreateCommit(s) \/ StartDraft(s) \/ Unpause(s)
    \/ BeginReplace(s) \/ ReplaceRow(s) \/ ReplaceCommit(s) \/ Refresh(s) \/ Save(s)
    \/ Reply(s) \/ ReplyError(s)

Next ==
    \/ \E s \in Slots :
        \/ Create(s, "insert") \/ Create(s, "fund") \/ Start(s) \/ Edit(s)
        \/ Handle(s) \/ LoseAnswer(s) \/ Broken(s)
    \/ \E w \in Workers : Claim(w) \/ Pay(w) \/ Reconcile(w)

Spec == Init /\ [][Next]_vars

-----------------------------------------------------------------------------
(* Properties                                                               *)

TypeOK ==
    /\ status \in [Jobs -> Statuses]
    /\ total \in [Jobs -> Nat]
    /\ rows \subseteq Rows
    /\ pc \in [Slots -> PCs]
    /\ on \in [Slots -> Jobs \cup {None}]
    /\ seen \in [Slots -> Statuses]
    /\ \A s \in Slots : fresh[s] \subseteq Rows
    /\ edit \in [Slots -> 0 .. MaxEdits]
    /\ held \in [Workers -> Rows \cup {None}]
    /\ batch \in [Workers -> Jobs \cup {None}]
    /\ page \in Slots \cup {None}
    /\ served \in BOOLEAN
    /\ requests \in 0 .. MaxRequests /\ edits \in 0 .. MaxEdits /\ faults \in 0 .. MaxFaults
    /\ doubts \in Nat /\ reopened \in Nat
    /\ paid \in [Payees -> Nat]

\* A job anybody can see has all the rows of one list, once each, and counts
\* them in total_wallets, whatever edits ran at the same time and wherever a
\* handler died (createNormalizedJob, replaceNormalizedDraftJobWallets).
JobHasAllItsRows ==
    \A j \in Visible :
        /\ Cardinality(RowsOf(j)) = total[j]
        /\ \A q, r \in RowsOf(j) : q.to = r.to => q = r

\* A list the user wants paid once is paid twice only for a reason: the page was
\* left without the answer to a creation that may have been committed, or a stale
\* save turned a started job back into a draft (POST and PATCH of jobs, startNormalizedJob).
PaidOncePerReason == \A p \in Payees : paid[p] <= 1 + doubts + reopened

\* Without that second reason: nothing a request does has a started job paid again.
NeverReopened == reopened = 0
=============================================================================
