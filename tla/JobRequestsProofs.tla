--------------------------- MODULE JobRequestsProofs ---------------------------
(***************************************************************************)
(* Theorems about JobRequests, for every value of its constants.           *)
(***************************************************************************)
EXTENDS JobRequests, FiniteSetTheorems, TLAPS

-----------------------------------------------------------------------------
(* The invariant. *)

\* Every variable has its shape, and rows are finitely many.
Typed ==
    /\ TypeOK
    /\ fresh \in [Slots -> SUBSET Rows]
    /\ IsFiniteSet(rows)
    /\ \A s \in Slots : IsFiniteSet(fresh[s])

\* A list names a recipient once.
OnceEach(list) == \A q, r \in list : q.to = r.to => q = r

\* A handler works on a job: one that it creates itself and nobody sees, or one
\* that is there.  Its open transaction holds rows of that job only; a replacement
\* works on a draft, alone, and is later than every row of it.
SlotAt(s) ==
    /\ pc[s] # "idle" => on[s] \in Jobs
    /\ pc[s] \in {"insert", "fund"} =>
          status[on[s]] = "none" /\ \A t \in Slots \ {s} : on[t] # on[s]
    /\ pc[s] \notin {"idle", "insert", "fund"} => status[on[s]] # "none"
    /\ pc[s] \in {"edit", "replace", "refresh", "save"} => seen[s] \in {"draft", "queued"}
    /\ pc[s] = "replace" =>
          /\ status[on[s]] = "draft"
          /\ \A t \in Slots \ {s} : pc[t] = "replace" => on[t] # on[s]
          /\ \A r \in rows : r.job = on[s] => r.edit < edit[s]
    /\ pc[s] \notin {"insert", "fund", "replace"} => fresh[s] = {}
    /\ \A r \in fresh[s] : r.job = on[s] /\ r.edit = edit[s] /\ r.state = "pending"
    /\ OnceEach(fresh[s])
    /\ edit[s] <= edits

SlotInv == \A s \in Slots : SlotAt(s)

\* Rows, claims and batches are of jobs that are there.
RowInv ==
    /\ \A r \in rows : status[r.job] # "none" /\ r.edit <= edits
    /\ \A w \in Workers :
          /\ held[w] # None => status[held[w].job] # "none" /\ held[w].state = "processing"
          /\ batch[w] # None => status[batch[w]] # "none"

ListInv == SlotInv /\ RowInv /\ JobHasAllItsRows

\* The job would pay p when it runs.
Payable(j, p) ==
    status[j] = "draft" \/ \E r \in rows : r.job = j /\ r.to = p /\ r.state = "pending"

\* What may still pay p: a claim, a job that is a draft or has a pending row for p,
\* a creation under way, and a page that has no job and waits for none.
Tokens == ({"claim"} \X Workers) \cup ({"job"} \X Jobs) \cup ({"slot"} \X Slots) \cup ({"page"} \X {0})

Live(x, p) ==
    \/ x[1] = "claim" /\ held[x[2]] # None /\ held[x[2]].to = p
    \/ x[1] = "job" /\ Payable(x[2], p)
    \/ x[1] = "slot" /\ pc[x[2]] \in {"insert", "fund"}
    \/ x[1] = "page" /\ page = None /\ ~served

Owed(p) == {x \in Tokens : Live(x, p)}

\* Each transfer to p used up a reason to pay p, and a fault gives at most one more.
OwedInv == \A p \in Payees : paid[p] + Cardinality(Owed(p)) <= 1 + doubts + reopened

RequestInv == Typed /\ ListInv /\ OwedInv

-----------------------------------------------------------------------------
(* Rows, lists and counters. *)

LEMMA RowFields ==
  ASSUME NEW r \in Rows
  PROVE  /\ r.job \in Jobs /\ r.to \in Payees /\ r.edit \in 0 .. MaxEdits /\ r.edit \in Nat
         /\ r.state \in {"pending", "processing", "completed"}
         /\ r # None
  BY NoneAssumption, RequestAssumption DEF Rows

LEMMA AtFields ==
  ASSUME NEW r \in Rows, NEW state \in {"pending", "processing", "completed"}
  PROVE  /\ At(r, state) \in Rows
         /\ At(r, state).job = r.job /\ At(r, state).to = r.to /\ At(r, state).edit = r.edit
         /\ At(r, state).state = state
  BY DEF Rows, At

LEMMA Numbers ==
  /\ \A n \in Nat : n + 1 \in Nat /\ n + 0 \in Nat
  /\ \A n, m \in Nat : n < m => n + 1 \in 0 .. m
  /\ \A m \in Nat : \A n \in 0 .. m : n \in Nat /\ n <= m
  OBVIOUS

LEMMA CountIsNat ==
  ASSUME NEW S, IsFiniteSet(S)
  PROVE  Cardinality(S) \in Nat
  BY FS_CardinalityType

\* A set in which one element takes the place of another keeps its size.
LEMMA Exchange ==
  ASSUME NEW S, IsFiniteSet(S), NEW r \in S, NEW q, q \notin S \ {r}
  PROVE  /\ IsFiniteSet((S \ {r}) \cup {q})
         /\ Cardinality((S \ {r}) \cup {q}) = Cardinality(S)
<1>1. IsFiniteSet(S \ {r}) /\ Cardinality(S \ {r}) = Cardinality(S) - 1
  BY FS_RemoveElement
<1>2. /\ IsFiniteSet((S \ {r}) \cup {q})
      /\ Cardinality((S \ {r}) \cup {q}) = Cardinality(S \ {r}) + 1
  BY <1>1, FS_AddElement
<1>3. Cardinality(S) \in Nat
  BY CountIsNat
<1>. QED BY <1>1, <1>2, <1>3

LEMMA RowsFinite ==
  ASSUME IsFiniteSet(rows), NEW j
  PROVE  /\ IsFiniteSet(RowsOf(j)) /\ Cardinality(RowsOf(j)) \in Nat
<1>1. RowsOf(j) \in SUBSET rows
  BY DEF RowsOf
<1>. QED BY <1>1, FS_Subset, CountIsNat

-----------------------------------------------------------------------------
(* Types. *)

LEMMA InitTyped == Init => Typed
<1>. SUFFICES ASSUME Init PROVE Typed
  OBVIOUS
<1>1. IsFiniteSet({})
  BY FS_EmptySet
<1>2. TypeOK
  <2>1. 0 \in 0 .. MaxRequests /\ 0 \in 0 .. MaxEdits /\ 0 \in 0 .. MaxFaults
    BY RequestAssumption
  <2>2. status \in [Jobs -> Statuses] /\ seen \in [Slots -> Statuses] /\ pc \in [Slots -> PCs]
    BY DEF Init, Statuses, PCs
  <2>3. on \in [Slots -> Jobs \cup {None}] /\ held \in [Workers -> Rows \cup {None}]
    BY DEF Init
  <2>. QED BY <2>1, <2>2, <2>3 DEF Init, TypeOK
<1>3. fresh \in [Slots -> SUBSET Rows] /\ \A s \in Slots : fresh[s] = {}
  BY DEF Init
<1>. QED BY <1>1, <1>2, <1>3 DEF Init, Typed

\* What an action writes into the handler of s.
LEMMA HandlerTyped ==
  ASSUME Typed, NEW s \in Slots, NEW label \in PCs
  PROVE  [pc EXCEPT ![s] = label] \in [Slots -> PCs]
  BY DEF Typed, TypeOK

LEMMA FinishedTyped ==
  ASSUME Typed, NEW s \in Slots, Finished(s)
  PROVE  /\ pc' \in [Slots -> PCs] /\ on' \in [Slots -> Jobs \cup {None}]
         /\ seen' \in [Slots -> Statuses] /\ fresh' \in [Slots -> SUBSET Rows]
         /\ edit' \in [Slots -> 0 .. MaxEdits]
         /\ \A t \in Slots : IsFiniteSet(fresh'[t]) /\ fresh'[t] \subseteq Rows
<1>1. fresh' = [fresh EXCEPT ![s] = {}] /\ IsFiniteSet({})
  BY FS_EmptySet DEF Finished
<1>2. 0 \in 0 .. MaxEdits
  BY RequestAssumption
<1>. QED BY <1>1, <1>2 DEF Finished, Goto, Typed, TypeOK, PCs, Statuses

LEMMA DoubtedTyped ==
  ASSUME Typed, NEW s \in Slots, Doubted(s)
  PROVE  page' \in Slots \cup {None} /\ doubts' \in Nat
  BY DEF Doubted, Typed, TypeOK

LEMMA FaultTyped ==
  ASSUME Typed, Fault
  PROVE  faults' \in 0 .. MaxFaults
  BY RequestAssumption DEF Fault, Typed, TypeOK

LEMMA ChunkTyped ==
  ASSUME Typed, NEW s \in Slots, on[s] \in Jobs, InsertChunk(s, Payees)
  PROVE  /\ fresh' \in [Slots -> SUBSET Rows]
         /\ \A t \in Slots : IsFiniteSet(fresh'[t]) /\ fresh'[t] \subseteq Rows
<1>1. PICK p \in Payees : fresh' = [fresh EXCEPT ![s] = @ \cup
                {[job |-> on[s], to |-> p, edit |-> edit[s], state |-> "pending"]}]
  BY DEF InsertChunk
<1>2. [job |-> on[s], to |-> p, edit |-> edit[s], state |-> "pending"] \in Rows
  BY DEF Rows, Typed, TypeOK
<1>3. IsFiniteSet(fresh[s] \cup {[job |-> on[s], to |-> p, edit |-> edit[s], state |-> "pending"]})
  BY FS_AddElement DEF Typed
<1>. QED BY <1>1, <1>2, <1>3 DEF Typed

LEMMA SettledTyped ==
  ASSUME NEW old \in Statuses, NEW j
  PROVE  Settled(j, old) \in Statuses
  BY DEF Settled, Statuses

\* A handler at work has a job.
AtWork == \A s \in Slots : pc[s] # "idle" => on[s] \in Jobs

LEMMA SlotTypedStep ==
  ASSUME Typed, AtWork, NEW s \in Slots,
         Create(s, "insert") \/ Create(s, "fund") \/ Start(s) \/ Edit(s)
            \/ Handle(s) \/ LoseAnswer(s) \/ Broken(s)
  PROVE  Typed'
<1>. USE DEF vars, tables, handler, worker, client, ghosts
<1>0. TypeOK /\ IsFiniteSet(rows) /\ (\A t \in Slots : IsFiniteSet(fresh[t])) /\ fresh \in [Slots -> SUBSET Rows]
  BY DEF Typed
<1>1. ASSUME NEW label \in {"insert", "fund"}, Create(s, label)
      PROVE  Typed'
  <2>1. requests' \in 0 .. MaxRequests
    BY <1>0, <1>1, RequestAssumption DEF Create, Request, TypeOK
  <2>2. pc' \in [Slots -> PCs] /\ on' \in [Slots -> Jobs \cup {None}] /\ page' \in Slots \cup {None}
    BY <1>0, <1>1 DEF Create, Goto, TypeOK, PCs
  <2>. QED BY <1>0, <1>1, <2>1, <2>2 DEF Create, Typed, TypeOK
<1>2. ASSUME Start(s) \/ Edit(s)
      PROVE  Typed'
  <2>1. requests' \in 0 .. MaxRequests
    BY <1>0, <1>2, RequestAssumption DEF Start, Edit, Request, TypeOK
  <2>2. pc' \in [Slots -> PCs] /\ on' \in [Slots -> Jobs \cup {None}] /\ seen' \in [Slots -> Statuses]
    BY <1>0, <1>2 DEF Start, Edit, Goto, TypeOK, PCs, Visible, Statuses
  <2>. QED BY <1>0, <1>2, <2>1, <2>2 DEF Start, Edit, Typed, TypeOK
<1>3. ASSUME CreateRow(s) \/ ReplaceRow(s)
      PROVE  Typed'
  <2>1. on[s] \in Jobs /\ InsertChunk(s, Payees)
    BY <1>3 DEF AtWork, CreateRow, ReplaceRow
  <2>2. fresh' \in [Slots -> SUBSET Rows]
         /\ \A t \in Slots : IsFiniteSet(fresh'[t]) /\ fresh'[t] \subseteq Rows
    BY <2>1, ChunkTyped
  <2>. QED BY <1>0, <1>3, <2>2 DEF CreateRow, ReplaceRow, Typed, TypeOK
<1>4. ASSUME CreateCommit(s)
      PROVE  Typed'
  <2>1. on[s] \in Jobs /\ fresh[s] \in SUBSET Rows /\ IsFiniteSet(fresh[s])
    BY <1>0, <1>4 DEF AtWork, CreateCommit
  <2>2. status' \in [Jobs -> Statuses] /\ pc' \in [Slots -> PCs]
    BY <1>0, <1>4, <2>1 DEF CreateCommit, Goto, TypeOK, PCs, Statuses
  <2>3. total' \in [Jobs -> Nat]
    BY <1>0, <1>4, <2>1, CountIsNat DEF CreateCommit, TypeOK
  <2>4. rows' \subseteq Rows /\ IsFiniteSet(rows')
    BY <1>0, <1>4, <2>1, FS_Union DEF CreateCommit, TypeOK
  <2>5. fresh' \in [Slots -> SUBSET Rows]
         /\ \A t \in Slots : IsFiniteSet(fresh'[t]) /\ fresh'[t] \subseteq Rows
    BY <1>0, <1>4, FS_EmptySet DEF CreateCommit
  <2>6. faults' \in 0 .. MaxFaults
    BY <1>0, <1>4, FaultTyped DEF CreateCommit, TypeOK
  <2>. QED BY <1>0, <1>4, <2>2, <2>3, <2>4, <2>5, <2>6 DEF CreateCommit, Typed, TypeOK
<1>5. ASSUME StartDraft(s) \/ Unpause(s)
      PROVE  Typed'
  <2>1. status' \in [Jobs -> Statuses] /\ pc' \in [Slots -> PCs]
    BY <1>0, <1>5 DEF StartDraft, Unpause, Goto, TypeOK, PCs, Statuses
  <2>. QED BY <1>0, <1>5, <2>1 DEF StartDraft, Unpause, Typed, TypeOK
<1>6. ASSUME BeginReplace(s)
      PROVE  Typed'
  <2>1. edits' \in 0 .. MaxEdits /\ edit' \in [Slots -> 0 .. MaxEdits] /\ pc' \in [Slots -> PCs]
    BY <1>0, <1>6, RequestAssumption DEF BeginReplace, Goto, TypeOK, PCs
  <2>. QED BY <1>0, <1>6, <2>1 DEF BeginReplace, Typed, TypeOK
<1>7. ASSUME ReplaceCommit(s)
      PROVE  Typed'
  <2>1. fresh[s] \in SUBSET Rows /\ IsFiniteSet(fresh[s])
    BY <1>0
  <2>2. total' \in [Jobs -> Nat] /\ pc' \in [Slots -> PCs]
    BY <1>0, <1>7, <2>1, CountIsNat DEF ReplaceCommit, Goto, TypeOK, PCs
  <2>3. IsFiniteSet(rows \ Replaced(s))
    BY <1>0, FS_Difference
  <2>4. rows' \subseteq Rows /\ IsFiniteSet(rows')
    BY <1>0, <1>7, <2>1, <2>3, FS_Union DEF ReplaceCommit, TypeOK
  <2>5. fresh' \in [Slots -> SUBSET Rows]
         /\ \A t \in Slots : IsFiniteSet(fresh'[t]) /\ fresh'[t] \subseteq Rows
    BY <1>0, <1>7, FS_EmptySet DEF ReplaceCommit
  <2>. QED BY <1>0, <1>7, <2>2, <2>4, <2>5 DEF ReplaceCommit, Typed, TypeOK
<1>8. ASSUME Refresh(s)
      PROVE  Typed'
  <2>1. on[s] \in Jobs
    BY <1>8 DEF AtWork, Refresh
  <2>2. status[on[s]] \in Statuses
    BY <1>0, <2>1 DEF TypeOK
  <2>3. Settled(on[s], status[on[s]]) \in Statuses /\ Cardinality(RowsOf(on[s])) \in Nat
    BY <1>0, <2>2, SettledTyped, RowsFinite
  <2>4. status' = [status EXCEPT ![on[s]] = Settled(on[s], status[on[s]])]
    BY <1>0, <1>8, <2>1 DEF Refresh, TypeOK
  <2>5. status' \in [Jobs -> Statuses] /\ total' \in [Jobs -> Nat]
    BY <1>0, <1>8, <2>3, <2>4 DEF Refresh, TypeOK
  <2>6. pc' \in [Slots -> PCs]
    BY <1>0, <1>8 DEF Refresh, Goto, TypeOK, PCs
  <2>. QED BY <1>0, <1>8, <2>5, <2>6 DEF Refresh, Typed, TypeOK
<1>9. ASSUME Save(s)
      PROVE  Typed'
  <2>1. status' \in [Jobs -> Statuses] /\ pc' \in [Slots -> PCs]
    BY <1>0, <1>9 DEF Save, Goto, TypeOK, PCs
  <2>2. reopened' \in Nat
    BY <1>0, <1>9 DEF Save, TypeOK
  <2>. QED BY <1>0, <1>9, <2>1, <2>2 DEF Save, Typed, TypeOK
<1>10. ASSUME Reply(s) \/ ReplyError(s) \/ LoseAnswer(s) \/ Broken(s)
       PROVE  Typed'
  <2>1. /\ pc' \in [Slots -> PCs] /\ on' \in [Slots -> Jobs \cup {None}]
        /\ seen' \in [Slots -> Statuses] /\ fresh' \in [Slots -> SUBSET Rows]
        /\ edit' \in [Slots -> 0 .. MaxEdits]
        /\ \A t \in Slots : IsFiniteSet(fresh'[t]) /\ fresh'[t] \subseteq Rows
    BY <1>0, <1>10, FinishedTyped DEF Reply, ReplyError, LoseAnswer, Broken, TypeOK
  <2>2. page' \in Slots \cup {None} /\ doubts' \in Nat /\ served' \in BOOLEAN
    <3>1. CASE Reply(s)
      BY <1>0, <3>1 DEF Reply, TypeOK
    <3>2. CASE ReplyError(s) \/ LoseAnswer(s) \/ Broken(s)
      <4>1. served' = served /\ (Doubted(s) \/ (page' = (IF page = s THEN None ELSE page) /\ doubts' = doubts))
        BY <3>2 DEF ReplyError, LoseAnswer, Broken
      <4>. QED BY <1>0, <4>1, DoubtedTyped DEF TypeOK
    <3>. QED BY <1>10, <3>1, <3>2
  <2>3. faults' \in 0 .. MaxFaults
    BY <1>0, <1>10, FaultTyped DEF Reply, ReplyError, LoseAnswer, Broken, TypeOK
  <2>. QED BY <1>0, <1>10, <2>1, <2>2, <2>3 DEF Reply, ReplyError, LoseAnswer, Broken, Typed, TypeOK
<1>11. ASSUME Handle(s)
       PROVE  Typed'
  BY <1>11, <1>3, <1>4, <1>5, <1>6, <1>7, <1>8, <1>9, <1>10 DEF Handle
<1>12. ASSUME Create(s, "insert") \/ Create(s, "fund")
       PROVE  Typed'
  BY <1>12, <1>1
<1>. QED BY <1>2, <1>10, <1>11, <1>12

LEMMA WorkerTypedStep ==
  ASSUME Typed, NEW w \in Workers, Claim(w) \/ Pay(w) \/ Reconcile(w)
  PROVE  Typed'
<1>. USE DEF vars, tables, handler, worker, client, ghosts
<1>0. TypeOK /\ IsFiniteSet(rows) /\ (\A t \in Slots : IsFiniteSet(fresh[t])) /\ fresh \in [Slots -> SUBSET Rows]
  BY DEF Typed
<1>1. CASE Claim(w)
  <2>1. PICK r \in rows : /\ rows' = (rows \ {r}) \cup {At(r, "processing")}
                          /\ held' = [held EXCEPT ![w] = At(r, "processing")]
                          /\ status' = [status EXCEPT ![r.job] = "running"]
    BY <1>1 DEF Claim
  <2>2. r \in Rows /\ At(r, "processing") \in Rows
    BY <1>0, <2>1, AtFields DEF TypeOK
  <2>3. rows' \subseteq Rows /\ IsFiniteSet(rows')
    BY <1>0, <2>1, <2>2, FS_RemoveElement, FS_AddElement DEF TypeOK
  <2>4. held' \in [Workers -> Rows \cup {None}] /\ status' \in [Jobs -> Statuses]
    BY <1>0, <2>1, <2>2 DEF TypeOK, Statuses
  <2>. QED BY <1>0, <1>1, <2>3, <2>4 DEF Claim, Typed, TypeOK
<1>2. CASE Pay(w)
  <2>1. held[w] \in Rows
    BY <1>0, <1>2 DEF Pay, TypeOK
  <2>2. At(held[w], "completed") \in Rows /\ held[w].job \in Jobs /\ held[w].to \in Payees
    BY <2>1, AtFields, RowFields
  <2>3. rows' \subseteq Rows /\ IsFiniteSet(rows')
    <3>1. IsFiniteSet((rows \ {held[w]}) \cup {At(held[w], "completed")})
      BY <1>0, FS_RemoveElement, FS_AddElement
    <3>. QED BY <1>0, <1>2, <2>2, <3>1 DEF TypeOK, Pay
  <2>4. held' \in [Workers -> Rows \cup {None}] /\ batch' \in [Workers -> Jobs \cup {None}]
    BY <1>0, <1>2, <2>2 DEF TypeOK, Pay
  <2>5. paid' \in [Payees -> Nat]
    BY <1>0, <1>2, <2>2 DEF TypeOK, Pay
  <2>. QED BY <1>0, <1>2, <2>3, <2>4, <2>5 DEF Pay, Typed, TypeOK
<1>3. CASE Reconcile(w)
  <2>1. batch[w] \in Jobs
    BY <1>0, <1>3 DEF Reconcile, TypeOK
  <2>2. status' = [status EXCEPT ![batch[w]] = Settled(batch[w], status[batch[w]])]
    BY <1>0, <1>3, <2>1 DEF Reconcile, TypeOK
  <2>3. status' \in [Jobs -> Statuses] /\ batch' \in [Workers -> Jobs \cup {None}]
    BY <1>0, <1>3, <2>1, <2>2, SettledTyped DEF Reconcile, TypeOK
  <2>. QED BY <1>0, <1>3, <2>3 DEF Reconcile, Typed, TypeOK
<1>. QED BY <1>1, <1>2, <1>3

LEMMA TypedStep ==
  ASSUME Typed, AtWork, [Next]_vars
  PROVE  Typed'
<1>1. CASE UNCHANGED vars
  BY <1>1 DEF vars, tables, handler, worker, client, ghosts, Typed, TypeOK
<1>2. ASSUME NEW s \in Slots,
             Create(s, "insert") \/ Create(s, "fund") \/ Start(s) \/ Edit(s)
                \/ Handle(s) \/ LoseAnswer(s) \/ Broken(s)
      PROVE  Typed'
  BY <1>2, SlotTypedStep
<1>3. ASSUME NEW w \in Workers, Claim(w) \/ Pay(w) \/ Reconcile(w)
      PROVE  Typed'
  BY <1>3, WorkerTypedStep
<1>. QED BY <1>1, <1>2, <1>3 DEF Next

-----------------------------------------------------------------------------
(* The rows of a job. *)

\* The handler of t does nothing.
Kept(t) ==
    /\ pc'[t] = pc[t] /\ on'[t] = on[t] /\ seen'[t] = seen[t]
    /\ fresh'[t] = fresh[t] /\ edit'[t] = edit[t]

\* A step leaves the job of t in the state that t relies on.
TablesFor(t) ==
    /\ pc[t] # "idle" => (status'[on[t]] = "none" <=> status[on[t]] = "none")
    /\ pc[t] = "replace" =>
          /\ status'[on[t]] = "draft"
          /\ \A r \in rows' : r.job = on[t] => \E q \in rows : q.job = on[t] /\ q.edit = r.edit

\* Edits are numbered upwards.
EditsGrow == edits' \in Nat /\ edits <= edits'

\* The job that s works on next is not one that another handler has to itself.
Fits(s) ==
    \A t \in Slots \ {s} :
        /\ pc[t] \in {"insert", "fund"} => on'[s] # on[t]
        /\ pc'[s] = "replace" /\ pc[t] = "replace" => on'[s] # on[t]

LEMMA SlotsStep ==
  ASSUME Typed, Typed', SlotInv, EditsGrow,
         NEW A \in SUBSET Slots,
         \A t \in Slots \ A : Kept(t) /\ TablesFor(t),
         \A s \in A : Fits(s) /\ SlotAt(s)'
  PROVE  SlotInv'
<1>. SUFFICES ASSUME NEW t \in Slots \ A PROVE SlotAt(t)'
  BY DEF SlotInv
<1>1. Kept(t) /\ TablesFor(t) /\ SlotAt(t)
  BY DEF SlotInv
<1>2. \A u \in Slots \ {t} : (u \in A /\ Fits(u)) \/ Kept(u)
  OBVIOUS
<1>3. pc'[t] \in {"insert", "fund"} => status'[on'[t]] = "none" /\ \A u \in Slots \ {t} : on'[u] # on'[t]
  BY <1>1, <1>2 DEF Kept, TablesFor, SlotAt, Fits
<1>4. pc'[t] = "replace" =>
         /\ status'[on'[t]] = "draft"
         /\ \A u \in Slots \ {t} : pc'[u] = "replace" => on'[u] # on'[t]
         /\ \A r \in rows' : r.job = on'[t] => r.edit < edit'[t]
  BY <1>1, <1>2 DEF Kept, TablesFor, SlotAt, Fits
<1>5. edit'[t] <= edits'
  <2>1. edit'[t] = edit[t] /\ edit[t] <= edits
    BY <1>1 DEF Kept, SlotAt
  <2>2. edit[t] \in Nat /\ edits \in Nat /\ edits' \in Nat
    BY RequestAssumption DEF Typed, TypeOK
  <2>. QED BY <2>1, <2>2 DEF EditsGrow
<1>6. OnceEach(fresh'[t])
  BY <1>1 DEF Kept, SlotAt, OnceEach
<1>7. pc'[t] # "idle" => on'[t] \in Jobs
  BY <1>1 DEF Kept, SlotAt
<1>8. pc'[t] \notin {"idle", "insert", "fund"} => status'[on'[t]] # "none"
  BY <1>1 DEF Kept, SlotAt, TablesFor
<1>9. /\ pc'[t] \in {"edit", "replace", "refresh", "save"} => seen'[t] \in {"draft", "queued"}
      /\ pc'[t] \notin {"insert", "fund", "replace"} => fresh'[t] = {}
      /\ \A r \in fresh'[t] : r.job = on'[t] /\ r.edit = edit'[t] /\ r.state = "pending"
  BY <1>1 DEF Kept, SlotAt
<1>. QED BY <1>3, <1>4, <1>5, <1>6, <1>7, <1>8, <1>9 DEF SlotAt, OnceEach

LEMMA NoSlotMoves ==
  ASSUME Typed, Typed', SlotInv, EditsGrow, \A t \in Slots : Kept(t) /\ TablesFor(t)
  PROVE  SlotInv'
<1>. DEFINE A == {}
<1>1. A \in SUBSET Slots /\ \A s \in A : Fits(s) /\ SlotAt(s)'
  OBVIOUS
<1>2. \A t \in Slots \ A : Kept(t) /\ TablesFor(t)
  OBVIOUS
<1>. HIDE DEF A
<1>. QED BY <1>1, <1>2, SlotsStep

LEMMA OneSlotMoves ==
  ASSUME Typed, Typed', SlotInv, EditsGrow, NEW s \in Slots,
         \A t \in Slots \ {s} : Kept(t) /\ TablesFor(t),
         Fits(s), SlotAt(s)'
  PROVE  SlotInv'
<1>. DEFINE A == {s}
<1>1. A \in SUBSET Slots /\ \A t \in A : Fits(t) /\ SlotAt(t)'
  OBVIOUS
<1>2. \A t \in Slots \ A : Kept(t) /\ TablesFor(t)
  OBVIOUS
<1>. HIDE DEF A
<1>. QED BY <1>1, <1>2, SlotsStep

LEMMA QuietTables ==
  ASSUME Typed, SlotInv, UNCHANGED <<status, rows>>
  PROVE  \A t \in Slots : TablesFor(t)
  BY DEF TablesFor, SlotInv, SlotAt

\* A status other than the one of a locked draft changes, and no job goes.
LEMMA StatusTables ==
  ASSUME Typed, SlotInv, UNCHANGED rows, NEW j \in Jobs, NEW new \in Statuses,
         Unlocked(j), status[j] # "none", new # "none",
         status' = [status EXCEPT ![j] = new]
  PROVE  \A t \in Slots : TablesFor(t)
  BY DEF TablesFor, SlotInv, SlotAt, Unlocked, Typed, TypeOK

LEMMA AtWorkOK == SlotInv => AtWork
  BY DEF SlotInv, SlotAt, AtWork

\* A row was there before the step, in whatever state, or is of a job that is there now.
RowStays(r) == \E q \in rows : q.job = r.job /\ q.edit = r.edit
RowComes(r) == status'[r.job] # "none" /\ r.edit <= edits'

HeldComes(w) == status'[held'[w].job] # "none" /\ held'[w].state = "processing"

LEMMA RowsStep ==
  ASSUME Typed, Typed', RowInv, EditsGrow,
         \A j \in Jobs : status[j] # "none" => status'[j] # "none",
         \A r \in rows' : RowStays(r) \/ RowComes(r),
         \A w \in Workers :
            /\ held'[w] = None \/ held'[w] = held[w] \/ HeldComes(w)
            /\ batch'[w] = None \/ batch'[w] = batch[w] \/ status'[batch'[w]] # "none"
  PROVE  RowInv'
<1>1. edits \in Nat /\ edits' \in Nat /\ edits <= edits'
  BY RequestAssumption DEF EditsGrow, Typed, TypeOK
<1>2. ASSUME NEW r \in rows' PROVE status'[r.job] # "none" /\ r.edit <= edits'
  <2>1. CASE RowStays(r)
    <3>1. PICK q \in rows : q.job = r.job /\ q.edit = r.edit
      BY <2>1 DEF RowStays
    <3>2. q \in Rows /\ q.edit \in Nat /\ q.job \in Jobs
      BY <3>1, RowFields DEF Typed, TypeOK
    <3>3. status[q.job] # "none" /\ q.edit <= edits
      BY <3>1 DEF RowInv
    <3>. QED BY <1>1, <3>1, <3>2, <3>3
  <2>. QED BY <2>1 DEF RowComes
<1>3. ASSUME NEW w \in Workers
      PROVE  /\ held'[w] # None => status'[held'[w].job] # "none" /\ held'[w].state = "processing"
             /\ batch'[w] # None => status'[batch'[w]] # "none"
  <2>1. held[w] # None => held[w].job \in Jobs
    BY RowFields DEF Typed, TypeOK
  <2>2. batch[w] # None => batch[w] \in Jobs
    BY DEF Typed, TypeOK
  <2>. QED BY <2>1, <2>2 DEF RowInv, HeldComes
<1>. QED BY <1>2, <1>3 DEF RowInv

\* A step that gives one job a list, and leaves those of the others.
LEMMA ListsStep ==
  ASSUME Typed, Typed', JobHasAllItsRows, NEW j \in Jobs, NEW list,
         {r \in rows' : r.job = j} = list,
         OnceEach(list), Cardinality(list) = total'[j],
         \A k \in Jobs \ {j} :
            /\ {r \in rows' : r.job = k} = RowsOf(k)
            /\ total'[k] = total[k]
            /\ status[k] = "none" => status'[k] = "none"
  PROVE  JobHasAllItsRows'
<1>. SUFFICES ASSUME NEW k \in Jobs, status'[k] # "none"
              PROVE  /\ Cardinality({r \in rows' : r.job = k}) = total'[k]
                     /\ OnceEach({r \in rows' : r.job = k})
  BY DEF JobHasAllItsRows, Visible, RowsOf, OnceEach
<1>1. CASE k = j
  BY <1>1
<1>2. CASE k # j
  BY <1>2 DEF JobHasAllItsRows, Visible, RowsOf, OnceEach
<1>. QED BY <1>1, <1>2

LEMMA SameLists ==
  ASSUME JobHasAllItsRows, UNCHANGED <<rows, total>>,
         \A k \in Jobs : status[k] = "none" => status'[k] = "none"
  PROVE  JobHasAllItsRows'
  BY DEF JobHasAllItsRows, Visible, RowsOf

\* A row is replaced by the same row in another state.
LEMMA MoveRow ==
  ASSUME Typed, Typed', RowInv, JobHasAllItsRows, UNCHANGED total,
         \A k \in Jobs : status[k] = "none" => status'[k] = "none",
         NEW r \in rows, NEW state \in {"pending", "processing", "completed"},
         rows' = (rows \ {r}) \cup {At(r, state)}
  PROVE  JobHasAllItsRows'
<1>. DEFINE j == r.job
            list == (RowsOf(j) \ {r}) \cup {At(r, state)}
<1>1. r \in Rows /\ j \in Jobs /\ status[j] # "none"
  BY RowFields DEF Typed, TypeOK, RowInv
<1>2. /\ At(r, state) \in Rows /\ At(r, state).job = j /\ At(r, state).to = r.to
  BY <1>1, AtFields
<1>3. r \in RowsOf(j) /\ Cardinality(RowsOf(j)) = total[j] /\ OnceEach(RowsOf(j))
  BY <1>1 DEF RowsOf, JobHasAllItsRows, Visible, OnceEach
<1>4. At(r, state) \notin RowsOf(j) \ {r}
  BY <1>2, <1>3 DEF OnceEach
<1>5. Cardinality(list) = total'[j]
  BY <1>3, <1>4, Exchange, RowsFinite DEF Typed
<1>6. OnceEach(list)
  BY <1>2, <1>3 DEF OnceEach
<1>7. {q \in rows' : q.job = j} = list
  BY <1>2 DEF RowsOf
<1>8. \A k \in Jobs \ {j} : {q \in rows' : q.job = k} = RowsOf(k)
  BY <1>2 DEF RowsOf
<1>. HIDE DEF list, j
<1>. QED BY <1>1, <1>5, <1>6, <1>7, <1>8, ListsStep

LEMMA ReconcileList ==
  ASSUME Typed, Typed', ListInv, NEW w \in Workers, Reconcile(w)
  PROVE  ListInv'
<1>. USE DEF vars, tables, handler, worker, client, ghosts
<1>1. /\ batch[w] \in Jobs /\ Unlocked(batch[w]) /\ status[batch[w]] # "none"
      /\ status[batch[w]] \in Statuses
  BY DEF Reconcile, Typed, TypeOK, ListInv, RowInv
<1>2. PICK new \in Statuses : new = Settled(batch[w], status[batch[w]])
  BY <1>1, SettledTyped
<1>3. status' = [status EXCEPT ![batch[w]] = new] /\ new # "none"
  BY <1>1, <1>2 DEF Reconcile, Settled, Typed, TypeOK
<1>4. \A k \in Jobs : status[k] = "none" <=> status'[k] = "none"
  BY <1>1, <1>3 DEF Typed, TypeOK
<1>5. UNCHANGED <<rows, total, edits, held, handler>> /\ \A v \in Workers : batch'[v] = batch[v] \/ batch'[v] = None
  BY DEF Reconcile, Typed, TypeOK
<1>6. EditsGrow
  BY <1>5, RequestAssumption DEF EditsGrow, Typed, TypeOK
<1>7. SlotInv'
  <2>1. \A t \in Slots : TablesFor(t)
    BY <1>1, <1>3, <1>5, StatusTables DEF ListInv
  <2>2. \A t \in Slots : Kept(t) /\ TablesFor(t)
    BY <1>5, <2>1 DEF Kept
  <2>. QED BY <1>6, <2>2, NoSlotMoves DEF ListInv
<1>8. RowInv'
  <2>1. \A r \in rows' : RowStays(r)
    BY <1>5 DEF RowStays
  <2>. QED BY <1>4, <1>5, <1>6, <2>1, RowsStep DEF ListInv
<1>9. JobHasAllItsRows'
  BY <1>4, <1>5, SameLists DEF ListInv
<1>. QED BY <1>7, <1>8, <1>9 DEF ListInv

LEMMA MoveTables ==
  ASSUME Typed, SlotInv, NEW r \in rows, NEW state \in {"pending", "processing", "completed"},
         rows' = (rows \ {r}) \cup {At(r, state)},
         \A j \in Jobs : status'[j] = "none" <=> status[j] = "none",
         \A j \in Jobs : status[j] = "draft" => status'[j] = "draft"
  PROVE  \A t \in Slots : TablesFor(t)
<1>1. r \in Rows
  BY DEF Typed, TypeOK
<1>2. \A q \in rows' : \E x \in rows : x.job = q.job /\ x.edit = q.edit
  BY <1>1, AtFields
<1>. QED BY <1>2 DEF TablesFor, SlotInv, SlotAt

LEMMA ClaimList ==
  ASSUME Typed, Typed', ListInv, NEW w \in Workers, Claim(w)
  PROVE  ListInv'
<1>. USE DEF vars, tables, handler, worker, client, ghosts
<1>1. PICK r \in rows : /\ rows' = (rows \ {r}) \cup {At(r, "processing")}
                        /\ held' = [held EXCEPT ![w] = At(r, "processing")]
                        /\ status[r.job] \in {"queued", "running"}
                        /\ status' = [status EXCEPT ![r.job] = "running"]
  BY DEF Claim
<1>2. r \in Rows /\ r.job \in Jobs
  BY <1>1, RowFields DEF Typed, TypeOK
<1>3. At(r, "processing").job = r.job /\ At(r, "processing").edit = r.edit /\ At(r, "processing").state = "processing"
  BY <1>2, AtFields
<1>4. /\ \A k \in Jobs : status[k] = "none" <=> status'[k] = "none"
      /\ \A k \in Jobs : status[k] = "draft" => status'[k] = "draft"
  BY <1>1, <1>2 DEF Typed, TypeOK
<1>5. UNCHANGED <<total, edits, batch, handler>>
  BY DEF Claim
<1>6. EditsGrow
  BY <1>5, RequestAssumption DEF EditsGrow, Typed, TypeOK
<1>7. SlotInv'
  <2>1. \A t \in Slots : TablesFor(t)
    BY <1>1, <1>4, MoveTables DEF ListInv
  <2>2. \A t \in Slots : Kept(t) /\ TablesFor(t)
    BY <1>5, <2>1 DEF Kept
  <2>. QED BY <1>6, <2>2, NoSlotMoves DEF ListInv
<1>8. RowInv'
  <2>1. \A q \in rows' : RowStays(q)
    BY <1>1, <1>3 DEF RowStays
  <2>2. \A v \in Workers : held'[v] = held[v] \/ held'[v] = At(r, "processing")
    BY <1>1 DEF Typed, TypeOK
  <2>3. \A v \in Workers : held'[v] = held[v] \/ HeldComes(v)
    BY <1>1, <1>2, <1>3, <2>2 DEF Typed, TypeOK, HeldComes
  <2>. QED BY <1>3, <1>4, <1>5, <1>6, <2>1, <2>2, <2>3, RowsStep DEF ListInv
<1>9. JobHasAllItsRows'
  BY <1>1, <1>4, <1>5, MoveRow DEF ListInv
<1>. QED BY <1>7, <1>8, <1>9 DEF ListInv

LEMMA PayList ==
  ASSUME Typed, Typed', ListInv, NEW w \in Workers, Pay(w)
  PROVE  ListInv'
<1>. USE DEF vars, tables, handler, worker, client, ghosts
<1>1. PICK r \in Rows : r = held[w]
  BY DEF Pay, Typed, TypeOK
<1>2. /\ r.job \in Jobs /\ status[r.job] # "none"
      /\ At(r, "completed").job = r.job /\ At(r, "completed").edit = r.edit
  BY <1>1, RowFields, AtFields DEF ListInv, RowInv
<1>3. UNCHANGED <<status, total, edits, handler>>
  BY DEF Pay
<1>4. EditsGrow
  BY <1>3, RequestAssumption DEF EditsGrow, Typed, TypeOK
<1>5. \A v \in Workers : /\ held'[v] = held[v] \/ held'[v] = None
                         /\ batch'[v] = batch[v] \/ batch'[v] = r.job
  BY <1>1 DEF Pay, Typed, TypeOK
<1>6. CASE r \in rows
  <2>1. rows' = (rows \ {r}) \cup {At(r, "completed")}
    BY <1>1, <1>6 DEF Pay
  <2>2. SlotInv'
    <3>1. \A t \in Slots : TablesFor(t)
      BY <1>3, <1>6, <2>1, MoveTables DEF ListInv
    <3>2. \A t \in Slots : Kept(t) /\ TablesFor(t)
      BY <1>3, <3>1 DEF Kept
    <3>. QED BY <1>4, <3>2, NoSlotMoves DEF ListInv
  <2>3. RowInv'
    <3>1. \A q \in rows' : RowStays(q)
      BY <1>2, <1>6, <2>1 DEF RowStays
    <3>. QED BY <1>2, <1>3, <1>4, <1>5, <3>1, RowsStep DEF ListInv
  <2>4. JobHasAllItsRows'
    BY <1>3, <1>6, <2>1, MoveRow DEF ListInv
  <2>. QED BY <2>2, <2>3, <2>4 DEF ListInv
<1>7. CASE r \notin rows
  <2>1. rows' = rows
    BY <1>1, <1>7 DEF Pay
  <2>2. SlotInv'
    <3>1. \A t \in Slots : TablesFor(t)
      BY <1>3, <2>1, QuietTables DEF ListInv
    <3>2. \A t \in Slots : Kept(t) /\ TablesFor(t)
      BY <1>3, <3>1 DEF Kept
    <3>. QED BY <1>4, <3>2, NoSlotMoves DEF ListInv
  <2>3. RowInv'
    <3>1. \A q \in rows' : RowStays(q)
      BY <2>1 DEF RowStays
    <3>. QED BY <1>2, <1>3, <1>4, <1>5, <3>1, RowsStep DEF ListInv
  <2>4. JobHasAllItsRows'
    BY <1>3, <2>1, SameLists DEF ListInv
  <2>. QED BY <2>2, <2>3, <2>4 DEF ListInv
<1>. QED BY <1>6, <1>7

\* A step of one handler that leaves the tables and the workers alone.
LEMMA QuietSlot ==
  ASSUME Typed, Typed', ListInv, EditsGrow, NEW s \in Slots,
         UNCHANGED <<tables, worker>>,
         \A t \in Slots \ {s} : Kept(t), Fits(s), SlotAt(s)'
  PROVE  ListInv'
<1>. USE DEF tables, worker
<1>1. SlotInv'
  BY QuietTables, OneSlotMoves DEF ListInv
<1>2. RowInv'
  <2>1. \A r \in rows' : RowStays(r)
    BY DEF RowStays
  <2>. QED BY <2>1, RowsStep DEF ListInv
<1>3. JobHasAllItsRows'
  BY SameLists DEF ListInv
<1>. QED BY <1>1, <1>2, <1>3 DEF ListInv

\* A step of one handler that changes the status of its job, which nobody has locked.
LEMMA StatusSlot ==
  ASSUME Typed, Typed', ListInv, EditsGrow, NEW s \in Slots,
         UNCHANGED <<rows, total, worker>>,
         NEW j \in Jobs, NEW new \in Statuses,
         Unlocked(j), status[j] # "none", new # "none",
         status' = [status EXCEPT ![j] = new],
         \A t \in Slots \ {s} : Kept(t), Fits(s), SlotAt(s)'
  PROVE  ListInv'
<1>. USE DEF worker
<1>0. \A k \in Jobs : status[k] = "none" <=> status'[k] = "none"
  BY DEF Typed, TypeOK
<1>1. SlotInv'
  BY StatusTables, OneSlotMoves DEF ListInv
<1>2. RowInv'
  <2>1. \A r \in rows' : RowStays(r)
    BY DEF RowStays
  <2>. QED BY <1>0, <2>1, RowsStep DEF ListInv
<1>3. JobHasAllItsRows'
  BY <1>0, SameLists DEF ListInv
<1>. QED BY <1>1, <1>2, <1>3 DEF ListInv

LEMMA EditsStay ==
  ASSUME Typed, UNCHANGED edits
  PROVE  EditsGrow
  BY RequestAssumption DEF EditsGrow, Typed, TypeOK

LEMMA FinishedSlot ==
  ASSUME Typed, Typed', ListInv, NEW s \in Slots, Finished(s)
  PROVE  (\A t \in Slots \ {s} : Kept(t)) /\ Fits(s)
<1>1. pc'[s] = "idle" /\ on'[s] = None
  BY DEF Finished, Goto, Typed, TypeOK
<1>2. \A t \in Slots : pc[t] # "idle" => on[t] # None
  BY RequestAssumption DEF ListInv, SlotInv, SlotAt
<1>. QED BY <1>1, <1>2 DEF Kept, Fits, Finished, Goto, Typed, TypeOK

LEMMA FinishList ==
  ASSUME Typed, Typed', ListInv, NEW s \in Slots,
         Reply(s) \/ ReplyError(s) \/ Broken(s)
  PROVE  ListInv'
<1>. USE DEF vars, tables, handler, worker, client, ghosts
<1>1. Finished(s) /\ UNCHANGED <<tables, worker, edits>>
  BY DEF Reply, ReplyError, Broken
<1>2. (\A t \in Slots \ {s} : Kept(t)) /\ Fits(s)
  BY <1>1, FinishedSlot
<1>3. SlotAt(s)'
  <2>1. pc'[s] = "idle" /\ fresh'[s] = {} /\ edit'[s] = 0
    BY <1>1 DEF Finished, Goto, Typed, TypeOK
  <2>2. 0 <= edits'
    BY RequestAssumption DEF Typed, TypeOK
  <2>. QED BY <2>1, <2>2 DEF SlotAt, OnceEach
<1>. QED BY <1>1, <1>2, <1>3, EditsStay, QuietSlot

LEMMA CreateList ==
  ASSUME Typed, Typed', ListInv, NEW s \in Slots, NEW label \in {"insert", "fund"}, Create(s, label)
  PROVE  ListInv'
<1>. USE DEF vars, tables, handler, worker, client, ghosts
<1>1. PICK j \in Jobs : status[j] = "none" /\ (\A t \in Slots : on[t] # j) /\ on' = [on EXCEPT ![s] = j]
  BY DEF Create
<1>2. /\ pc[s] = "idle" /\ pc'[s] = label /\ on'[s] = j
      /\ UNCHANGED <<tables, worker, edits, seen, fresh, edit>>
      /\ \A t \in Slots \ {s} : pc'[t] = pc[t] /\ on'[t] = on[t]
  BY <1>1 DEF Create, Request, Goto, Typed, TypeOK
<1>3. (\A t \in Slots \ {s} : Kept(t)) /\ Fits(s)
  BY <1>1, <1>2 DEF Kept, Fits
<1>4. SlotAt(s)'
  <2>1. fresh'[s] = {} /\ edit'[s] <= edits' /\ status'[on'[s]] = "none" /\ \A t \in Slots \ {s} : on'[t] # on'[s]
    BY <1>1, <1>2 DEF ListInv, SlotInv, SlotAt
  <2>. QED BY <1>1, <1>2, <2>1 DEF SlotAt, OnceEach
<1>. QED BY <1>2, <1>3, <1>4, EditsStay, QuietSlot

LEMMA OpenList ==
  ASSUME Typed, Typed', ListInv, NEW s \in Slots, Start(s) \/ Edit(s)
  PROVE  ListInv'
<1>. USE DEF vars, tables, handler, worker, client, ghosts
<1>1. PICK j \in Jobs : status[j] \in {"draft", "queued"} /\ on' = [on EXCEPT ![s] = j]
  BY DEF Start, Edit, Visible
<1>2. /\ pc[s] = "idle" /\ pc'[s] \in {"update", "unpause", "edit", "save"} /\ on'[s] = j
      /\ UNCHANGED <<tables, worker, edits, fresh, edit>>
      /\ \A t \in Slots \ {s} : pc'[t] = pc[t] /\ on'[t] = on[t] /\ seen'[t] = seen[t]
  BY ZenonT(40), <1>1 DEF Start, Edit, Request, Goto, Typed, TypeOK
<1>3. pc'[s] \in {"edit", "save"} => seen'[s] \in {"draft", "queued"}
  <2>1. CASE Start(s)
    BY <2>1 DEF Start, Goto, Typed, TypeOK
  <2>2. CASE Edit(s)
    BY <2>2 DEF Edit, Typed, TypeOK
  <2>. QED BY <2>1, <2>2
<1>4. (\A t \in Slots \ {s} : Kept(t)) /\ Fits(s)
  BY <1>1, <1>2 DEF Kept, Fits, ListInv, SlotInv, SlotAt
<1>5. SlotAt(s)'
  <2>1. fresh'[s] = {} /\ edit'[s] <= edits' /\ status'[on'[s]] # "none"
    BY <1>1, <1>2 DEF ListInv, SlotInv, SlotAt
  <2>. QED BY <1>1, <1>2, <1>3, <2>1 DEF SlotAt, OnceEach
<1>. QED BY <1>2, <1>4, <1>5, EditsStay, QuietSlot

LEMMA ChunkList ==
  ASSUME Typed, Typed', ListInv, NEW s \in Slots, CreateRow(s) \/ ReplaceRow(s)
  PROVE  ListInv'
<1>. USE DEF vars, tables, handler, worker, client, ghosts
<1>1. PICK p \in Payees :
        /\ \A r \in fresh[s] : r.to # p
        /\ fresh' = [fresh EXCEPT ![s] = @ \cup
                {[job |-> on[s], to |-> p, edit |-> edit[s], state |-> "pending"]}]
  BY DEF CreateRow, ReplaceRow, InsertChunk
<1>. DEFINE r0 == [job |-> on[s], to |-> p, edit |-> edit[s], state |-> "pending"]
<1>2. r0.job = on[s] /\ r0.to = p /\ r0.edit = edit[s] /\ r0.state = "pending"
  OBVIOUS
<1>3. fresh' = [fresh EXCEPT ![s] = @ \cup {r0}]
  BY <1>1
<1>. HIDE DEF r0
<1>4. /\ UNCHANGED <<tables, worker, edits, pc, on, seen, edit>>
      /\ pc[s] \in {"insert", "fund", "replace"}
  BY DEF CreateRow, ReplaceRow
<1>5. fresh'[s] = fresh[s] \cup {r0} /\ \A t \in Slots \ {s} : fresh'[t] = fresh[t]
  BY <1>3 DEF Typed
<1>6. SlotAt(s)
  BY DEF ListInv, SlotInv
<1>7. (\A t \in Slots \ {s} : Kept(t)) /\ Fits(s)
  BY <1>4, <1>5 DEF Kept, Fits, ListInv, SlotInv, SlotAt
<1>8. OnceEach(fresh'[s])
  BY <1>1, <1>2, <1>5, <1>6 DEF SlotAt, OnceEach
<1>9. \A r \in fresh'[s] : r.job = on[s] /\ r.edit = edit[s] /\ r.state = "pending"
  BY <1>2, <1>5, <1>6 DEF SlotAt
<1>10. SlotAt(s)'
  BY <1>4, <1>6, <1>8, <1>9 DEF SlotAt, OnceEach
<1>. QED BY <1>4, <1>7, <1>10, EditsStay, QuietSlot

LEMMA BeginReplaceList ==
  ASSUME Typed, Typed', ListInv, NEW s \in Slots, BeginReplace(s)
  PROVE  ListInv'
<1>. USE DEF vars, tables, handler, worker, client, ghosts
<1>1. /\ UNCHANGED <<tables, worker, on, seen, fresh>> /\ pc[s] = "edit"
      /\ Unlocked(on[s]) /\ SlotAt(s) /\ fresh[s] = {} /\ edits \in Nat
      /\ on[s] \in Jobs /\ status[on[s]] # "none" /\ seen[s] \in {"draft", "queued"}
  BY RequestAssumption DEF BeginReplace, ListInv, SlotInv, SlotAt, Typed, TypeOK
<1>2. CASE Editable(on[s])
  <2>1. /\ edits' = edits + 1 /\ edit'[s] = edits + 1 /\ pc'[s] = "replace"
        /\ \A t \in Slots \ {s} : pc'[t] = pc[t] /\ edit'[t] = edit[t]
    BY <1>2 DEF BeginReplace, Goto, Typed, TypeOK
  <2>2. EditsGrow
    BY <1>1, <2>1 DEF EditsGrow
  <2>3. \A r \in rows : r.edit < edit'[s]
    <3>1. \A r \in rows : r.edit \in Nat /\ r.edit <= edits
      BY RowFields DEF ListInv, RowInv, Typed, TypeOK
    <3>. QED BY <1>1, <2>1, <3>1
  <2>4. (\A t \in Slots \ {s} : Kept(t)) /\ Fits(s)
    BY <1>1, <2>1 DEF Kept, Fits, Unlocked, ListInv, SlotInv, SlotAt
  <2>5. \A t \in Slots \ {s} : pc'[t] = "replace" => on'[t] # on'[s]
    BY <1>1, <2>1 DEF Unlocked
  <2>6. edit'[s] <= edits'
    BY <1>1, <2>1
  <2>7. SlotAt(s)'
    BY <1>1, <1>2, <2>1, <2>3, <2>5, <2>6 DEF SlotAt, OnceEach, Editable
  <2>. QED BY <1>1, <2>2, <2>4, <2>7, QuietSlot
<1>3. CASE ~Editable(on[s])
  <2>1. /\ UNCHANGED <<edits, edit>> /\ pc'[s] = "error"
        /\ \A t \in Slots \ {s} : pc'[t] = pc[t]
    BY <1>3 DEF BeginReplace, Goto, Typed, TypeOK
  <2>2. (\A t \in Slots \ {s} : Kept(t)) /\ Fits(s)
    BY <1>1, <2>1 DEF Kept, Fits, ListInv, SlotInv, SlotAt
  <2>3. SlotAt(s)'
    BY <1>1, <2>1 DEF SlotAt, OnceEach
  <2>. QED BY <1>1, <2>1, <2>2, <2>3, EditsStay, QuietSlot
<1>. QED BY <1>2, <1>3

LEMMA LoseAnswerList ==
  ASSUME Typed, Typed', ListInv, NEW s \in Slots, LoseAnswer(s)
  PROVE  ListInv'
<1>. USE DEF vars, tables, handler, worker, client, ghosts
<1>1. UNCHANGED <<tables, worker, handler, edits>>
  BY DEF LoseAnswer
<1>2. (\A t \in Slots \ {s} : Kept(t)) /\ Fits(s) /\ SlotAt(s)'
  BY <1>1 DEF Kept, Fits, ListInv, SlotInv, SlotAt, OnceEach
<1>. QED BY <1>1, <1>2, EditsStay, QuietSlot

\* The handler of s goes on to a later statement about the same job.
LEMMA GoesOn ==
  ASSUME Typed, Typed', ListInv, NEW s \in Slots,
         UNCHANGED <<on, seen, edit, edits>>,
         pc[s] # "idle", pc'[s] \in {"start", "refresh", "save", "reply", "error"},
         pc'[s] \in {"refresh", "save"} => seen[s] \in {"draft", "queued"},
         status'[on[s]] # "none", fresh'[s] = {}
  PROVE  SlotAt(s)'
<1>1. SlotAt(s)
  BY DEF ListInv, SlotInv
<1>. QED BY <1>1 DEF SlotAt, OnceEach

LEMMA StartsList ==
  ASSUME Typed, Typed', ListInv, NEW s \in Slots, StartDraft(s) \/ Unpause(s)
  PROVE  ListInv'
<1>. USE DEF vars, tables, handler, worker, client, ghosts
<1>1. /\ UNCHANGED <<total, rows, worker, on, seen, fresh, edit, edits>>
      /\ pc[s] \in {"start", "update", "unpause"} /\ pc'[s] \in {"reply", "error"}
      /\ \A t \in Slots \ {s} : pc'[t] = pc[t]
      /\ Unlocked(on[s])
  BY DEF StartDraft, Unpause, Goto, Typed, TypeOK
<1>2. on[s] \in Jobs /\ status[on[s]] # "none" /\ fresh[s] = {}
  BY <1>1 DEF ListInv, SlotInv, SlotAt
<1>3. (\A t \in Slots \ {s} : Kept(t)) /\ Fits(s)
  BY <1>1, <1>2 DEF Kept, Fits, ListInv, SlotInv, SlotAt
<1>4. CASE status' = status
  <2>1. SlotAt(s)'
    BY <1>1, <1>2, <1>4, GoesOn
  <2>. QED BY <1>1, <1>3, <1>4, <2>1, EditsStay, QuietSlot
<1>5. CASE status' # status
  <2>1. PICK new \in {"queued", "running"} : status' = [status EXCEPT ![on[s]] = new]
    BY <1>5 DEF StartDraft, Unpause
  <2>2. status'[on[s]] # "none" /\ new \in Statuses
    BY <1>2, <2>1 DEF Typed, TypeOK, Statuses
  <2>3. SlotAt(s)'
    BY <1>1, <1>2, <2>2, GoesOn
  <2>. QED BY <1>1, <1>2, <1>3, <2>1, <2>2, <2>3, EditsStay, StatusSlot
<1>. QED BY <1>4, <1>5

LEMMA SaveList ==
  ASSUME Typed, Typed', ListInv, NEW s \in Slots, Save(s)
  PROVE  ListInv'
<1>. USE DEF vars, tables, handler, worker, client, ghosts
<1>1. /\ UNCHANGED <<total, rows, worker, on, seen, fresh, edit, edits>>
      /\ pc[s] = "save" /\ pc'[s] = "reply"
      /\ \A t \in Slots \ {s} : pc'[t] = pc[t]
      /\ Unlocked(on[s]) /\ status' = [status EXCEPT ![on[s]] = seen[s]]
  BY DEF Save, Goto, Typed, TypeOK
<1>2. on[s] \in Jobs /\ status[on[s]] # "none" /\ fresh[s] = {} /\ seen[s] # "none" /\ seen[s] \in Statuses
  BY <1>1 DEF ListInv, SlotInv, SlotAt, Typed, TypeOK
<1>3. (\A t \in Slots \ {s} : Kept(t)) /\ Fits(s)
  BY <1>1, <1>2 DEF Kept, Fits, ListInv, SlotInv, SlotAt
<1>4. status'[on[s]] # "none"
  BY <1>1, <1>2 DEF Typed, TypeOK
<1>5. SlotAt(s)'
  BY <1>1, <1>2, <1>4, GoesOn
<1>6. PICK new \in Statuses : new = seen[s]
  BY <1>2
<1>. QED BY <1>1, <1>2, <1>3, <1>5, <1>6, EditsStay, StatusSlot

LEMMA RefreshList ==
  ASSUME Typed, Typed', ListInv, NEW s \in Slots, Refresh(s)
  PROVE  ListInv'
<1>. USE DEF vars, tables, handler, worker, client, ghosts
<1>1. /\ UNCHANGED <<rows, worker, on, seen, fresh, edit, edits>>
      /\ pc[s] = "refresh" /\ pc'[s] \in {"save", "error"}
      /\ \A t \in Slots \ {s} : pc'[t] = pc[t]
      /\ Unlocked(on[s])
      /\ total' = [total EXCEPT ![on[s]] = Cardinality(RowsOf(on[s]))]
  BY DEF Refresh, Goto, Typed, TypeOK
<1>2. /\ on[s] \in Jobs /\ status[on[s]] # "none" /\ fresh[s] = {} /\ seen[s] \in {"draft", "queued"}
      /\ status[on[s]] \in Statuses
  BY <1>1 DEF ListInv, SlotInv, SlotAt, Typed, TypeOK
<1>3. UNCHANGED total
  <2>1. total[on[s]] = Cardinality(RowsOf(on[s]))
    BY <1>2 DEF ListInv, JobHasAllItsRows, Visible
  <2>. QED BY <1>1, <2>1 DEF Typed, TypeOK
<1>4. (\A t \in Slots \ {s} : Kept(t)) /\ Fits(s)
  BY <1>1, <1>2 DEF Kept, Fits, ListInv, SlotInv, SlotAt
<1>5. PICK new \in Statuses : new = Settled(on[s], status[on[s]])
  BY <1>2, SettledTyped
<1>6. status' = [status EXCEPT ![on[s]] = new] /\ new # "none"
  BY <1>2, <1>5 DEF Refresh, Settled, Typed, TypeOK
<1>7. status'[on[s]] # "none"
  BY <1>2, <1>6 DEF Typed, TypeOK
<1>8. SlotAt(s)'
  BY <1>1, <1>2, <1>7, GoesOn
<1>. QED BY <1>1, <1>2, <1>3, <1>4, <1>6, <1>8, EditsStay, StatusSlot

LEMMA CreateCommitList ==
  ASSUME Typed, Typed', ListInv, NEW s \in Slots, CreateCommit(s)
  PROVE  ListInv'
<1>. USE DEF vars, tables, handler, worker, client, ghosts
<1>1. PICK j \in Jobs : j = on[s]
  BY DEF CreateCommit, ListInv, SlotInv, SlotAt
<1>2. PICK new \in {"queued", "draft"} : status' = [status EXCEPT ![j] = new]
  BY <1>1 DEF CreateCommit
<1>3. /\ UNCHANGED <<on, seen, edit, edits, worker>>
      /\ pc[s] \in {"insert", "fund"} /\ pc'[s] \in {"start", "reply", "error"} /\ fresh'[s] = {}
      /\ \A t \in Slots \ {s} : pc'[t] = pc[t] /\ fresh'[t] = fresh[t]
      /\ total' = [total EXCEPT ![j] = Cardinality(fresh[s])]
      /\ rows' = rows \cup fresh[s]
  BY <1>1 DEF CreateCommit, Goto, Typed, TypeOK
<1>4. status[j] = "none" /\ \A t \in Slots \ {s} : on[t] # j
  BY <1>1, <1>3 DEF ListInv, SlotInv, SlotAt
<1>5. /\ status'[j] = new /\ \A k \in Jobs \ {j} : status'[k] = status[k] /\ total'[k] = total[k]
      /\ total'[j] = Cardinality(fresh[s])
  BY <1>2, <1>3 DEF Typed, TypeOK
<1>6. /\ \A r \in fresh[s] : r.job = j /\ r.edit = edit[s]
      /\ OnceEach(fresh[s]) /\ edit[s] <= edits
  BY <1>1 DEF ListInv, SlotInv, SlotAt
<1>7. SlotInv'
  <2>1. (\A t \in Slots \ {s} : Kept(t)) /\ Fits(s)
    BY <1>1, <1>3, <1>4 DEF Kept, Fits
  <2>2. SlotAt(s)'
    BY <1>1, <1>2, <1>3, <1>5, GoesOn
  <2>3. \A t \in Slots \ {s} : TablesFor(t)
    <3>. SUFFICES ASSUME NEW t \in Slots \ {s}, pc[t] # "idle" PROVE TablesFor(t)
      BY DEF TablesFor
    <3>1. on[t] \in Jobs \ {j} /\ (pc[t] = "replace" => status[on[t]] = "draft")
      BY <1>4 DEF ListInv, SlotInv, SlotAt
    <3>. QED BY <1>3, <1>5, <1>6, <3>1 DEF TablesFor
  <2>. QED BY <1>3, <2>1, <2>2, <2>3, EditsStay, OneSlotMoves DEF ListInv
<1>8. RowInv'
  <2>1. \A r \in rows' : RowStays(r) \/ RowComes(r)
    BY <1>2, <1>3, <1>5, <1>6 DEF RowStays, RowComes
  <2>2. \A k \in Jobs : status[k] # "none" => status'[k] # "none"
    BY <1>4, <1>5
  <2>3. \A w \in Workers : held'[w] = held[w] /\ batch'[w] = batch[w]
    BY <1>3
  <2>. QED BY <1>3, <2>1, <2>2, <2>3, EditsStay, RowsStep DEF ListInv
<1>9. JobHasAllItsRows'
  <2>1. {r \in rows' : r.job = j} = fresh[s]
    BY <1>3, <1>4, <1>6 DEF ListInv, RowInv
  <2>2. \A k \in Jobs \ {j} : {r \in rows' : r.job = k} = RowsOf(k)
    BY <1>3, <1>6 DEF RowsOf
  <2>. QED BY <1>5, <1>6, <2>1, <2>2, ListsStep DEF ListInv
<1>. QED BY <1>7, <1>8, <1>9 DEF ListInv

LEMMA ReplaceCommitList ==
  ASSUME Typed, Typed', ListInv, NEW s \in Slots, ReplaceCommit(s)
  PROVE  ListInv'
<1>. USE DEF vars, tables, handler, worker, client, ghosts
<1>1. PICK j \in Jobs : j = on[s]
  BY DEF ReplaceCommit, ListInv, SlotInv, SlotAt
<1>2. /\ UNCHANGED <<status, on, seen, edit, edits, worker>>
      /\ pc[s] = "replace" /\ pc'[s] = "refresh" /\ fresh'[s] = {}
      /\ \A t \in Slots \ {s} : pc'[t] = pc[t] /\ fresh'[t] = fresh[t]
      /\ total' = [total EXCEPT ![j] = Cardinality(fresh[s])]
      /\ rows' = (rows \ Replaced(s)) \cup fresh[s]
  BY <1>1 DEF ReplaceCommit, Goto, Typed, TypeOK
<1>3. /\ status[j] = "draft" /\ seen[s] \in {"draft", "queued"}
      /\ \A t \in Slots \ {s} : pc[t] = "replace" => on[t] # j
      /\ \A r \in rows : r.job = j => r.edit < edit[s]
      /\ \A r \in fresh[s] : r.job = j /\ r.edit = edit[s]
      /\ OnceEach(fresh[s]) /\ edit[s] <= edits
  BY <1>1, <1>2 DEF ListInv, SlotInv, SlotAt
<1>4. /\ \A k \in Jobs \ {j} : total'[k] = total[k]
      /\ total'[j] = Cardinality(fresh[s])
  BY <1>2 DEF Typed, TypeOK
<1>5. Replaced(s) = RowsOf(j)
  BY <1>1, <1>3 DEF Replaced, RowsOf
<1>6. SlotInv'
  <2>1. (\A t \in Slots \ {s} : Kept(t)) /\ Fits(s)
    BY <1>2, <1>3, <1>1 DEF Kept, Fits, ListInv, SlotInv, SlotAt
  <2>2. SlotAt(s)'
    BY <1>1, <1>2, <1>3, GoesOn
  <2>3. \A t \in Slots \ {s} : TablesFor(t)
    BY <1>2, <1>3 DEF TablesFor, ListInv, SlotInv, SlotAt
  <2>. QED BY <1>2, <2>1, <2>2, <2>3, EditsStay, OneSlotMoves DEF ListInv
<1>7. RowInv'
  <2>1. \A r \in rows' : RowStays(r) \/ RowComes(r)
    BY <1>2, <1>3 DEF RowStays, RowComes
  <2>2. \A w \in Workers : held'[w] = held[w] /\ batch'[w] = batch[w]
    BY <1>2
  <2>. QED BY <1>2, <2>1, <2>2, EditsStay, RowsStep DEF ListInv
<1>8. JobHasAllItsRows'
  <2>1. {r \in rows' : r.job = j} = fresh[s]
    BY <1>2, <1>3, <1>5 DEF RowsOf
  <2>2. \A k \in Jobs \ {j} : {r \in rows' : r.job = k} = RowsOf(k)
    BY <1>2, <1>3, <1>5 DEF RowsOf
  <2>. QED BY <1>2, <1>3, <1>4, <2>1, <2>2, ListsStep DEF ListInv
<1>. QED BY <1>6, <1>7, <1>8 DEF ListInv

LEMMA InitList == Init => ListInv
<1>. SUFFICES ASSUME Init PROVE ListInv
  OBVIOUS
<1>1. SlotInv
  BY RequestAssumption DEF Init, SlotInv, SlotAt, OnceEach
<1>2. RowInv /\ JobHasAllItsRows
  BY DEF Init, RowInv, JobHasAllItsRows, Visible
<1>. QED BY <1>1, <1>2 DEF ListInv

LEMMA ListStep ==
  ASSUME Typed, ListInv, [Next]_vars
  PROVE  Typed' /\ ListInv'
<1>1. Typed'
  BY TypedStep, AtWorkOK DEF ListInv
<1>2. CASE UNCHANGED vars
  <2>1. SlotInv' /\ RowInv'
    BY <1>2 DEF vars, tables, handler, worker, client, ghosts, ListInv, SlotInv, SlotAt, OnceEach, RowInv
  <2>2. JobHasAllItsRows'
    BY <1>2, SameLists DEF vars, tables, handler, worker, client, ghosts, ListInv
  <2>. QED BY <1>1, <2>1, <2>2 DEF ListInv
<1>3. ASSUME NEW s \in Slots,
             Create(s, "insert") \/ Create(s, "fund") \/ Start(s) \/ Edit(s)
                \/ LoseAnswer(s) \/ Broken(s)
      PROVE  ListInv'
  BY <1>1, <1>3, CreateList, OpenList, LoseAnswerList, FinishList
<1>4. ASSUME NEW s \in Slots, Handle(s)
      PROVE  ListInv'
  BY <1>1, <1>4, ChunkList, CreateCommitList, StartsList, BeginReplaceList, ReplaceCommitList,
     RefreshList, SaveList, FinishList DEF Handle
<1>5. ASSUME NEW w \in Workers, Claim(w) \/ Pay(w) \/ Reconcile(w)
      PROVE  ListInv'
  BY <1>1, <1>5, ClaimList, PayList, ReconcileList
<1>. QED BY <1>1, <1>2, <1>3, <1>4, <1>5 DEF Next

LEMMA ListAlways == Spec => [](Typed /\ ListInv)
<1>1. Init => Typed /\ ListInv
  BY InitTyped, InitList
<1>2. Typed /\ ListInv /\ [Next]_vars => (Typed /\ ListInv)'
  BY ListStep
<1>. QED BY <1>1, <1>2, PTL DEF Spec

\* The tables, the handlers and the page keep the shape the code gives them, whichever
\* requests overlap.
THEOREM RequestTypeOK == Spec => []TypeOK
<1>1. Typed => TypeOK
  BY DEF Typed
<1>. QED BY <1>1, ListAlways, PTL

\* A job that anybody can see has all the rows of one list, each once, and counts
\* them, however its edits interleave and wherever a handler dies.
THEOREM AllRowsThere == Spec => []JobHasAllItsRows
<1>1. ListInv => JobHasAllItsRows
  BY DEF ListInv
<1>. QED BY <1>1, ListAlways, PTL

-----------------------------------------------------------------------------
(* Who is still owed a payment. *)

LEMMA TokenKinds ==
  ASSUME NEW x \in Tokens
  PROVE  \/ x[1] = "claim" /\ x[2] \in Workers /\ x = <<"claim", x[2]>>
         \/ x[1] = "job" /\ x[2] \in Jobs /\ x = <<"job", x[2]>>
         \/ x[1] = "slot" /\ x[2] \in Slots /\ x = <<"slot", x[2]>>
         \/ x[1] = "page" /\ x[2] = 0 /\ x = <<"page", 0>>
  BY DEF Tokens

LEMMA TokensFinite == IsFiniteSet(Tokens)
<1>1. \A k : IsFiniteSet({k})
  BY FS_Singleton
<1>2. /\ IsFiniteSet({"claim"} \X Workers) /\ IsFiniteSet({"job"} \X Jobs)
      /\ IsFiniteSet({"slot"} \X Slots) /\ IsFiniteSet({"page"} \X {0})
  BY <1>1, FS_Product, RequestAssumption
<1>. QED BY <1>2, FS_Union DEF Tokens

LEMMA OwedFinite ==
  ASSUME NEW p
  PROVE  IsFiniteSet(Owed(p)) /\ IsFiniteSet(Owed(p)')
<1>1. Owed(p) \in SUBSET Tokens /\ Owed(p)' \in SUBSET Tokens
  BY DEF Owed
<1>. QED BY <1>1, TokensFinite, FS_Subset

\* A set that loses an element, gains one, or changes one for another.
LEMMA Bounded ==
  ASSUME NEW S, IsFiniteSet(S), NEW T, IsFiniteSet(T)
  PROVE  /\ Cardinality(S) \in Nat /\ Cardinality(T) \in Nat
         /\ T \subseteq S => Cardinality(T) <= Cardinality(S)
         /\ \A b : T \subseteq S \cup {b} => Cardinality(T) <= Cardinality(S) + 1
         /\ \A a \in S : T \subseteq S \ {a} => Cardinality(T) + 1 <= Cardinality(S)
         /\ \A a \in S : \A b : T \subseteq (S \ {a}) \cup {b} => Cardinality(T) <= Cardinality(S)
<1>1. Cardinality(S) \in Nat /\ Cardinality(T) \in Nat
  BY CountIsNat
<1>2. ASSUME T \subseteq S PROVE Cardinality(T) <= Cardinality(S)
  BY <1>2, FS_Subset
<1>3. ASSUME NEW b, T \subseteq S \cup {b} PROVE Cardinality(T) <= Cardinality(S) + 1
  <2>1. /\ IsFiniteSet(S \cup {b})
        /\ Cardinality(S \cup {b}) = IF b \in S THEN Cardinality(S) ELSE Cardinality(S) + 1
    BY FS_AddElement
  <2>2. Cardinality(T) <= Cardinality(S \cup {b})
    BY <1>3, <2>1, FS_Subset
  <2>. QED BY <1>1, <2>1, <2>2
<1>4. ASSUME NEW a \in S, T \subseteq S \ {a} PROVE Cardinality(T) + 1 <= Cardinality(S)
  <2>1. IsFiniteSet(S \ {a}) /\ Cardinality(S \ {a}) = Cardinality(S) - 1
    BY FS_RemoveElement
  <2>2. Cardinality(T) <= Cardinality(S \ {a})
    BY <1>4, <2>1, FS_Subset
  <2>. QED BY <1>1, <2>1, <2>2
<1>5. ASSUME NEW a \in S, NEW b, T \subseteq (S \ {a}) \cup {b} PROVE Cardinality(T) <= Cardinality(S)
  <2>1. IsFiniteSet(S \ {a}) /\ Cardinality(S \ {a}) = Cardinality(S) - 1
    BY FS_RemoveElement
  <2>2. /\ IsFiniteSet((S \ {a}) \cup {b})
        /\ Cardinality((S \ {a}) \cup {b}) =
              IF b \in S \ {a} THEN Cardinality(S \ {a}) ELSE Cardinality(S \ {a}) + 1
    BY <2>1, FS_AddElement
  <2>3. Cardinality(T) <= Cardinality((S \ {a}) \cup {b})
    BY <1>5, <2>2, FS_Subset
  <2>. QED BY <1>1, <2>1, <2>2, <2>3
<1>. QED BY <1>1, <1>2, <1>3, <1>4, <1>5

\* The claims, jobs, creations and pages that may pay p change one at a time.
NoNewClaim(p) == \A w \in Workers : held'[w] # None /\ held'[w].to = p => held'[w] = held[w]
NoNewJob(p) == \A j \in Jobs : Payable(j, p)' => Payable(j, p)
NoNewSlot == \A s \in Slots : pc'[s] \in {"insert", "fund"} => pc[s] \in {"insert", "fund"}
NoNewPage == page' = None /\ ~served' => page = None /\ ~served

LEMMA NoNewToken ==
  ASSUME NEW p, NEW x \in Tokens, Live(x, p)'
  PROVE  /\ x[1] = "claim" /\ NoNewClaim(p) => Live(x, p)
         /\ x[1] = "job" /\ NoNewJob(p) => Live(x, p)
         /\ x[1] = "slot" /\ NoNewSlot => Live(x, p)
         /\ x[1] = "page" /\ NoNewPage => Live(x, p)
<1>1. ASSUME x[1] = "claim", NoNewClaim(p) PROVE Live(x, p)
  BY <1>1, TokenKinds DEF Live, NoNewClaim
<1>2. ASSUME x[1] = "job", NoNewJob(p) PROVE Live(x, p)
  <2>1. Payable(x[2], p)' /\ x[2] \in Jobs
    BY <1>2, TokenKinds DEF Live
  <2>. QED BY <1>2, <2>1 DEF Live, NoNewJob
<1>3. ASSUME x[1] = "slot", NoNewSlot PROVE Live(x, p)
  BY <1>3, TokenKinds DEF Live, NoNewSlot
<1>4. ASSUME x[1] = "page", NoNewPage PROVE Live(x, p)
  BY <1>4, TokenKinds DEF Live, NoNewPage
<1>. QED BY <1>1, <1>2, <1>3, <1>4

\* The reasons p has been given so far cover what p was paid and may still be.
Covered(p) == paid[p] + Cardinality(Owed(p)) <= 1 + doubts + reopened

LEMMA CoverNumbers ==
  ASSUME Typed, Typed', NEW p \in Payees
  PROVE  /\ paid[p] \in Nat /\ doubts \in Nat /\ reopened \in Nat
         /\ paid'[p] \in Nat /\ doubts' \in Nat /\ reopened' \in Nat
  BY DEF Typed, TypeOK

ReasonsStay == doubts' = doubts /\ reopened' = reopened
OneReasonMore == doubts' + reopened' = doubts + reopened + 1

\* Nothing new may pay p.
LEMMA NothingNew ==
  ASSUME Typed, Typed', NEW p \in Payees, Covered(p), paid'[p] = paid[p],
         ReasonsStay \/ OneReasonMore,
         NoNewClaim(p), NoNewJob(p), NoNewSlot, NoNewPage
  PROVE  Covered(p)'
<1>1. Owed(p)' \subseteq Owed(p)
  BY NoNewToken, TokenKinds DEF Owed
<1>2. /\ Cardinality(Owed(p)') <= Cardinality(Owed(p))
      /\ Cardinality(Owed(p)) \in Nat /\ Cardinality(Owed(p)') \in Nat
  BY <1>1, OwedFinite, Bounded
<1>. QED BY <1>2, CoverNumbers DEF Covered, ReasonsStay, OneReasonMore

\* One thing more may pay p, for one reason more.
LEMMA TokenComes ==
  ASSUME Typed, Typed', NEW p \in Payees, Covered(p), paid'[p] = paid[p], OneReasonMore,
         NEW b, \A x \in Tokens \ {b} : Live(x, p)' => Live(x, p)
  PROVE  Covered(p)'
<1>1. Owed(p)' \subseteq Owed(p) \cup {b}
  BY DEF Owed
<1>2. /\ Cardinality(Owed(p)') <= Cardinality(Owed(p)) + 1
      /\ Cardinality(Owed(p)) \in Nat /\ Cardinality(Owed(p)') \in Nat
  BY <1>1, OwedFinite, Bounded
<1>. QED BY <1>2, CoverNumbers DEF Covered, OneReasonMore

\* What may pay p takes another form.
LEMMA TokenTurns ==
  ASSUME Typed, Typed', NEW p \in Payees, Covered(p), paid'[p] = paid[p], ReasonsStay,
         NEW a \in Tokens, NEW b, Live(a, p),
         \A x \in Tokens \ {b} : Live(x, p)' => Live(x, p) /\ x # a
  PROVE  Covered(p)'
<1>1. Owed(p)' \subseteq (Owed(p) \ {a}) \cup {b} /\ a \in Owed(p)
  BY DEF Owed
<1>2. /\ Cardinality(Owed(p)') <= Cardinality(Owed(p))
      /\ Cardinality(Owed(p)) \in Nat /\ Cardinality(Owed(p)') \in Nat
  BY <1>1, OwedFinite, Bounded
<1>. QED BY <1>2, CoverNumbers DEF Covered, ReasonsStay

\* What may pay p has paid it.
LEMMA TokenPays ==
  ASSUME Typed, Typed', NEW p \in Payees, Covered(p), paid'[p] = paid[p] + 1, ReasonsStay,
         NEW a \in Tokens, Live(a, p),
         \A x \in Tokens : Live(x, p)' => Live(x, p) /\ x # a
  PROVE  Covered(p)'
<1>1. Owed(p)' \subseteq Owed(p) \ {a} /\ a \in Owed(p)
  BY DEF Owed
<1>2. /\ Cardinality(Owed(p)') + 1 <= Cardinality(Owed(p))
      /\ Cardinality(Owed(p)) \in Nat /\ Cardinality(Owed(p)') \in Nat
  BY <1>1, OwedFinite, Bounded
<1>. QED BY <1>2, CoverNumbers DEF Covered, ReasonsStay

LEMMA TokenNames ==
  /\ \A w \in Workers : <<"claim", w>> \in Tokens
  /\ \A j \in Jobs : <<"job", j>> \in Tokens
  /\ \A s \in Slots : <<"slot", s>> \in Tokens
  /\ <<"page", 0>> \in Tokens
  BY DEF Tokens

LEMMA LiveNames ==
  ASSUME NEW p
  PROVE  /\ \A w \in Workers : Live(<<"claim", w>>, p) <=> held[w] # None /\ held[w].to = p
         /\ \A j \in Jobs : Live(<<"job", j>>, p) <=> Payable(j, p)
         /\ \A s \in Slots : Live(<<"slot", s>>, p) <=> pc[s] \in {"insert", "fund"}
         /\ Live(<<"page", 0>>, p) <=> page = None /\ ~served
  BY DEF Live

LEMMA StatusJobs ==
  ASSUME NEW p, UNCHANGED rows, \A j \in Jobs : status'[j] = "draft" => status[j] = "draft"
  PROVE  NoNewJob(p)
  BY DEF NoNewJob, Payable

\* The steps of a handler after which nothing new may pay anybody.
LEMMA QuietOwed ==
  ASSUME Typed, Typed', ListInv, NEW p \in Payees, Covered(p), NEW s \in Slots,
         \/ Start(s) \/ Edit(s) \/ CreateRow(s) \/ ReplaceRow(s) \/ StartDraft(s) \/ Unpause(s)
         \/ BeginReplace(s) \/ ReplaceCommit(s) \/ Refresh(s) \/ Reply(s)
  PROVE  Covered(p)'
<1>. USE DEF vars, tables, handler, worker, client, ghosts
<1>1. UNCHANGED <<held, paid>> /\ ReasonsStay
  BY DEF Start, Edit, CreateRow, ReplaceRow, StartDraft, Unpause, BeginReplace, ReplaceCommit,
         Refresh, Reply, ReasonsStay
<1>2. NoNewClaim(p)
  BY <1>1 DEF NoNewClaim
<1>3. NoNewPage
  BY DEF Start, Edit, CreateRow, ReplaceRow, StartDraft, Unpause, BeginReplace, ReplaceCommit,
         Refresh, Reply, NoNewPage
<1>4. NoNewSlot
  BY DEF Start, Edit, CreateRow, ReplaceRow, StartDraft, Unpause, BeginReplace, ReplaceCommit,
         Refresh, Reply, Finished, Goto, NoNewSlot, Typed, TypeOK
<1>5. NoNewJob(p)
  <2>1. CASE ReplaceCommit(s)
    <3>1. PICK j \in Jobs : j = on[s]
      BY <2>1 DEF ReplaceCommit, ListInv, SlotInv, SlotAt
    <3>2. /\ status[j] = "draft" /\ \A r \in fresh[s] : r.job = j
      BY <2>1, <3>1 DEF ReplaceCommit, ListInv, SlotInv, SlotAt
    <3>3. status' = status /\ rows' \subseteq rows \cup fresh[s]
      BY <2>1 DEF ReplaceCommit
    <3>. QED BY <3>2, <3>3 DEF NoNewJob, Payable
  <2>2. CASE Refresh(s)
    <3>1. on[s] \in Jobs /\ rows' = rows
      BY <2>2 DEF Refresh, ListInv, SlotInv, SlotAt
    <3>2. status' = [status EXCEPT ![on[s]] = Settled(on[s], status[on[s]])]
      BY <2>2, <3>1 DEF Refresh, Typed, TypeOK
    <3>3. \A j \in Jobs : status'[j] = "draft" => status[j] = "draft"
      BY <3>1, <3>2 DEF Settled, Typed, TypeOK
    <3>. QED BY <3>1, <3>3, StatusJobs
  <2>3. CASE StartDraft(s) \/ Unpause(s)
    <3>1. rows' = rows /\ \A j \in Jobs : status'[j] = "draft" => status[j] = "draft"
      BY <2>3 DEF StartDraft, Unpause, Typed, TypeOK
    <3>. QED BY <3>1, StatusJobs
  <2>4. CASE \/ Start(s) \/ Edit(s) \/ CreateRow(s) \/ ReplaceRow(s) \/ BeginReplace(s) \/ Reply(s)
    <3>1. rows' = rows /\ status' = status
      BY <2>4 DEF Start, Edit, CreateRow, ReplaceRow, BeginReplace, Reply
    <3>. QED BY <3>1, StatusJobs
  <2>. QED BY <2>1, <2>2, <2>3, <2>4
<1>. QED BY <1>1, <1>2, <1>3, <1>4, <1>5, NothingNew

\* The page's right to a list becomes the creation under way.
LEMMA CreateOwed ==
  ASSUME Typed, Typed', NEW p \in Payees, Covered(p), NEW s \in Slots,
         NEW label \in {"insert", "fund"}, Create(s, label)
  PROVE  Covered(p)'
<1>. USE DEF vars, tables, handler, worker, client, ghosts
<1>1. /\ UNCHANGED <<held, paid, rows, status, served>> /\ ReasonsStay
      /\ page = None /\ ~served /\ page' = s /\ s # None
      /\ \A t \in Slots \ {s} : pc'[t] = pc[t]
  BY RequestAssumption DEF Create, Goto, ReasonsStay, Typed, TypeOK
<1>2. NoNewClaim(p) /\ NoNewJob(p)
  BY <1>1, StatusJobs DEF NoNewClaim
<1>3. ASSUME NEW x \in Tokens \ {<<"slot", s>>}, Live(x, p)'
      PROVE  Live(x, p) /\ x # <<"page", 0>>
  <2>1. CASE x[1] = "slot"
    BY <1>1, <1>3, <2>1, TokenKinds DEF Live
  <2>2. CASE x[1] = "page"
    BY <1>1, <1>3, <2>2 DEF Live
  <2>3. CASE x[1] \in {"claim", "job"}
    BY <1>2, <1>3, <2>3, NoNewToken
  <2>. QED BY <2>1, <2>2, <2>3, TokenKinds
<1>4. Live(<<"page", 0>>, p) /\ <<"page", 0>> \in Tokens
  BY <1>1, LiveNames, TokenNames
<1>. QED BY <1>1, <1>3, <1>4, TokenTurns

\* The creation under way becomes a job.
LEMMA CreateCommitOwed ==
  ASSUME Typed, Typed', ListInv, NEW p \in Payees, Covered(p), NEW s \in Slots, CreateCommit(s)
  PROVE  Covered(p)'
<1>. USE DEF vars, tables, handler, worker, client, ghosts
<1>1. PICK j \in Jobs : j = on[s]
  BY DEF CreateCommit, ListInv, SlotInv, SlotAt
<1>2. /\ UNCHANGED <<held, paid, page, served>> /\ ReasonsStay
      /\ pc[s] \in {"insert", "fund"} /\ pc'[s] \notin {"insert", "fund"}
      /\ \A t \in Slots \ {s} : pc'[t] = pc[t]
      /\ \A k \in Jobs \ {j} : status'[k] = status[k]
      /\ rows' = rows \cup fresh[s] /\ \A r \in fresh[s] : r.job = j
  BY <1>1 DEF CreateCommit, Goto, ReasonsStay, Typed, TypeOK, ListInv, SlotInv, SlotAt
<1>3. NoNewClaim(p) /\ NoNewPage
  BY <1>2 DEF NoNewClaim, NoNewPage
<1>4. ASSUME NEW x \in Tokens \ {<<"job", j>>}, Live(x, p)'
      PROVE  Live(x, p) /\ x # <<"slot", s>>
  <2>1. CASE x[1] = "slot"
    BY <1>2, <1>4, <2>1, TokenKinds DEF Live
  <2>2. CASE x[1] = "job"
    <3>1. PICK k \in Jobs \ {j} : x = <<"job", k>>
      BY <1>4, <2>2, TokenKinds
    <3>2. Payable(k, p)' => Payable(k, p)
      BY <1>2 DEF Payable
    <3>. QED BY <1>4, <3>1, <3>2 DEF Live
  <2>3. CASE x[1] \in {"claim", "page"}
    BY <1>3, <1>4, <2>3, NoNewToken
  <2>. QED BY <2>1, <2>2, <2>3, TokenKinds
<1>5. Live(<<"slot", s>>, p) /\ <<"slot", s>> \in Tokens
  BY <1>2, LiveNames, TokenNames
<1>. QED BY <1>2, <1>4, <1>5, TokenTurns

\* The page gives up, and is a reason for one more list.
LEMMA DoubtOwed ==
  ASSUME Typed, Typed', NEW p \in Payees, Covered(p), NEW s \in Slots, Doubted(s),
         UNCHANGED <<held, paid, rows, status, served, reopened>>, NoNewSlot
  PROVE  Covered(p)'
<1>1. NoNewClaim(p) /\ NoNewJob(p)
  BY StatusJobs DEF NoNewClaim
<1>2. CASE page = s
  <2>1. OneReasonMore
    BY <1>2 DEF Doubted, OneReasonMore, Typed, TypeOK
  <2>2. ASSUME NEW x \in Tokens \ {<<"page", 0>>}, Live(x, p)'
        PROVE  Live(x, p)
    BY <1>1, <2>2, NoNewToken, TokenKinds
  <2>. QED BY <2>1, <2>2, TokenComes
<1>3. CASE page # s
  <2>1. ReasonsStay /\ NoNewPage
    BY <1>3 DEF Doubted, ReasonsStay, NoNewPage, Typed, TypeOK
  <2>. QED BY <1>1, <2>1, NothingNew
<1>. QED BY <1>2, <1>3

LEMMA FailOwed ==
  ASSUME Typed, Typed', NEW p \in Payees, Covered(p), NEW s \in Slots,
         ReplyError(s) \/ LoseAnswer(s) \/ Broken(s)
  PROVE  Covered(p)'
<1>. USE DEF vars, tables, handler, worker, client, ghosts
<1>1. UNCHANGED <<held, paid, rows, status, served, reopened>>
  BY DEF ReplyError, LoseAnswer, Broken
<1>2. NoNewSlot
  BY DEF ReplyError, LoseAnswer, Broken, Finished, Goto, NoNewSlot, Typed, TypeOK
<1>3. CASE Doubted(s)
  BY <1>1, <1>2, <1>3, DoubtOwed
<1>4. CASE ~Doubted(s)
  <2>1. /\ pc[s] \in {"insert", "fund"} /\ pc' = [pc EXCEPT ![s] = "idle"] /\ ReasonsStay
        /\ page' = (IF page = s THEN None ELSE page)
    BY <1>1, <1>4 DEF ReplyError, LoseAnswer, Broken, Finished, Goto, ReasonsStay
  <2>2. pc'[s] = "idle"
    BY <2>1 DEF Typed, TypeOK
  <2>3. NoNewClaim(p) /\ NoNewJob(p)
    BY <1>1, StatusJobs DEF NoNewClaim
  <2>4. ASSUME NEW x \in Tokens \ {<<"page", 0>>}, Live(x, p)'
        PROVE  Live(x, p) /\ x # <<"slot", s>>
    <3>1. Live(x, p)
      BY <1>2, <2>3, <2>4, NoNewToken, TokenKinds
    <3>2. x # <<"slot", s>>
      BY <2>2, <2>4 DEF Live
    <3>. QED BY <3>1, <3>2
  <2>5. Live(<<"slot", s>>, p) /\ <<"slot", s>> \in Tokens
    BY <2>1, LiveNames, TokenNames
  <2>. QED BY <1>1, <2>1, <2>4, <2>5, TokenTurns
<1>. QED BY <1>3, <1>4

\* A stale save turns a started job into a draft.
LEMMA SaveOwed ==
  ASSUME Typed, Typed', ListInv, NEW p \in Payees, Covered(p), NEW s \in Slots, Save(s)
  PROVE  Covered(p)'
<1>. USE DEF vars, tables, handler, worker, client, ghosts
<1>1. PICK j \in Jobs : j = on[s]
  BY DEF Save, ListInv, SlotInv, SlotAt
<1>2. /\ UNCHANGED <<held, paid, rows, page, served, doubts>>
      /\ status' = [status EXCEPT ![j] = seen[s]]
      /\ reopened' = reopened + (IF seen[s] = "draft" /\ status[j] # "draft" THEN 1 ELSE 0)
      /\ \A t \in Slots : pc'[t] \in {"insert", "fund"} => pc[t] \in {"insert", "fund"}
  BY <1>1 DEF Save, Goto, Typed, TypeOK
<1>3. NoNewClaim(p) /\ NoNewSlot /\ NoNewPage
  BY <1>2 DEF NoNewClaim, NoNewSlot, NoNewPage
<1>4. CASE seen[s] = "draft" /\ status[j] # "draft"
  <2>1. OneReasonMore
    BY <1>2, <1>4 DEF OneReasonMore, Typed, TypeOK
  <2>2. ASSUME NEW x \in Tokens \ {<<"job", j>>}, Live(x, p)'
        PROVE  Live(x, p)
    <3>1. CASE x[1] = "job"
      <4>1. PICK k \in Jobs \ {j} : x = <<"job", k>>
        BY <2>2, <3>1, TokenKinds
      <4>2. Payable(k, p)' => Payable(k, p)
        BY <1>2 DEF Payable, Typed, TypeOK
      <4>. QED BY <2>2, <4>1, <4>2 DEF Live
    <3>2. CASE x[1] # "job"
      BY <1>3, <2>2, <3>2, NoNewToken, TokenKinds
    <3>. QED BY <3>1, <3>2
  <2>. QED BY <1>2, <2>1, <2>2, TokenComes
<1>5. CASE ~(seen[s] = "draft" /\ status[j] # "draft")
  <2>1. ReasonsStay
    BY <1>2, <1>5 DEF ReasonsStay, Typed, TypeOK
  <2>2. \A k \in Jobs : status'[k] = "draft" => status[k] = "draft"
    BY <1>2, <1>5 DEF Typed, TypeOK
  <2>3. NoNewJob(p)
    BY <1>2, <2>2, StatusJobs
  <2>. QED BY <1>2, <1>3, <2>1, <2>3, NothingNew
<1>. QED BY <1>4, <1>5

\* The pending row of p becomes a claim; another payee has nothing new.
LEMMA ClaimOwed ==
  ASSUME Typed, Typed', ListInv, NEW p \in Payees, Covered(p), NEW w \in Workers, Claim(w)
  PROVE  Covered(p)'
<1>. USE DEF vars, tables, handler, worker, client, ghosts
<1>1. PICK r \in rows : /\ r.state = "pending"
                        /\ status[r.job] \in {"queued", "running"}
                        /\ rows' = (rows \ {r}) \cup {At(r, "processing")}
                        /\ held' = [held EXCEPT ![w] = At(r, "processing")]
                        /\ status' = [status EXCEPT ![r.job] = "running"]
  BY DEF Claim
<1>2. PICK j \in Jobs : j = r.job
  BY <1>1, RowFields DEF Typed, TypeOK
<1>3. At(r, "processing").to = r.to /\ At(r, "processing").state = "processing"
  BY <1>1, AtFields DEF Typed, TypeOK
<1>4. UNCHANGED <<paid, page, served, pc>> /\ ReasonsStay
  BY DEF Claim, ReasonsStay
<1>5. NoNewSlot /\ NoNewPage
  BY <1>4 DEF NoNewSlot, NoNewPage
<1>6. \A q \in rows' : q.state = "pending" => q \in rows \ {r}
  BY <1>1, <1>3
<1>7. \A k \in Jobs : status'[k] = "draft" => status[k] = "draft"
  BY <1>1 DEF Typed, TypeOK
<1>8. NoNewJob(p)
  BY <1>6, <1>7 DEF NoNewJob, Payable
<1>9. held'[w].to = r.to /\ \A v \in Workers \ {w} : held'[v] = held[v]
  BY <1>1, <1>3 DEF Typed, TypeOK
<1>10. CASE r.to # p
  <2>1. NoNewClaim(p)
    BY <1>9, <1>10 DEF NoNewClaim
  <2>. QED BY <1>4, <1>5, <1>8, <2>1, NothingNew
<1>11. CASE r.to = p
  <2>1. OnceEach(RowsOf(j)) /\ r \in RowsOf(j)
    BY <1>1, <1>2 DEF ListInv, JobHasAllItsRows, Visible, OnceEach, RowsOf
  <2>2. status'[j] = "running"
    BY <1>1, <1>2 DEF Typed, TypeOK
  <2>3. ~Payable(j, p)'
    <3>. SUFFICES ASSUME NEW q \in rows', q.job = j, q.to = p, q.state = "pending" PROVE FALSE
      BY <2>2 DEF Payable
    <3>1. q \in RowsOf(j) /\ q # r
      BY <1>6 DEF RowsOf
    <3>. QED BY <1>11, <2>1, <3>1 DEF OnceEach
  <2>4. ASSUME NEW x \in Tokens \ {<<"claim", w>>}, Live(x, p)'
        PROVE  Live(x, p) /\ x # <<"job", j>>
    <3>1. x # <<"job", j>>
      BY <2>3, <2>4 DEF Live
    <3>2. CASE x[1] = "claim"
      <4>1. PICK v \in Workers \ {w} : x = <<"claim", v>>
        BY <2>4, <3>2, TokenKinds
      <4>. QED BY <1>9, <2>4, <3>1, <4>1 DEF Live
    <3>3. CASE x[1] # "claim"
      BY <1>5, <1>8, <2>4, <3>1, <3>3, NoNewToken, TokenKinds
    <3>. QED BY <3>2, <3>3
  <2>5. Live(<<"job", j>>, p) /\ <<"job", j>> \in Tokens
    <3>1. Payable(j, p)
      BY <1>1, <1>2, <1>11 DEF Payable
    <3>. QED BY <3>1, LiveNames, TokenNames
  <2>. QED BY <1>4, <2>4, <2>5, TokenTurns
<1>. QED BY <1>10, <1>11

\* The claim is paid.
LEMMA PayOwed ==
  ASSUME Typed, Typed', NEW p \in Payees, Covered(p), NEW w \in Workers, Pay(w)
  PROVE  Covered(p)'
<1>. USE DEF vars, tables, handler, worker, client, ghosts
<1>1. PICK r \in Rows : r = held[w]
  BY DEF Pay, Typed, TypeOK
<1>2. r.to \in Payees /\ r # None /\ At(r, "completed").state = "completed"
  BY <1>1, RowFields, AtFields
<1>3. UNCHANGED <<status, page, served, pc>> /\ ReasonsStay
  BY DEF Pay, ReasonsStay
<1>4. NoNewSlot /\ NoNewPage
  BY <1>3 DEF NoNewSlot, NoNewPage
<1>5. \A q \in rows' : q.state = "pending" => q \in rows
  BY <1>1, <1>2 DEF Pay
<1>6. NoNewJob(p)
  BY <1>3, <1>5 DEF NoNewJob, Payable
<1>7. /\ held'[w] = None /\ \A v \in Workers \ {w} : held'[v] = held[v]
      /\ paid' = [paid EXCEPT ![r.to] = @ + 1]
  BY <1>1 DEF Pay, Typed, TypeOK
<1>8. NoNewClaim(p)
  BY <1>7 DEF NoNewClaim
<1>9. CASE r.to # p
  <2>1. paid'[p] = paid[p]
    BY <1>7, <1>9 DEF Typed, TypeOK
  <2>. QED BY <1>3, <1>4, <1>6, <1>8, <2>1, NothingNew
<1>10. CASE r.to = p
  <2>1. paid'[p] = paid[p] + 1
    BY <1>7, <1>10 DEF Typed, TypeOK
  <2>2. ASSUME NEW x \in Tokens, Live(x, p)'
        PROVE  Live(x, p) /\ x # <<"claim", w>>
    <3>1. Live(x, p)
      BY <1>4, <1>6, <1>8, <2>2, NoNewToken, TokenKinds
    <3>2. x # <<"claim", w>>
      BY <1>7, <2>2 DEF Live
    <3>. QED BY <3>1, <3>2
  <2>3. Live(<<"claim", w>>, p) /\ <<"claim", w>> \in Tokens
    BY <1>1, <1>2, <1>10, LiveNames, TokenNames
  <2>. QED BY <1>3, <2>1, <2>2, <2>3, TokenPays
<1>. QED BY <1>9, <1>10

LEMMA ReconcileOwed ==
  ASSUME Typed, Typed', NEW p \in Payees, Covered(p), NEW w \in Workers, Reconcile(w)
  PROVE  Covered(p)'
<1>. USE DEF vars, tables, handler, worker, client, ghosts
<1>1. UNCHANGED <<rows, held, paid, page, served, pc>> /\ ReasonsStay /\ batch[w] \in Jobs
  BY DEF Reconcile, ReasonsStay, Typed, TypeOK
<1>2. status' = [status EXCEPT ![batch[w]] = Settled(batch[w], status[batch[w]])]
  BY <1>1 DEF Reconcile, Typed, TypeOK
<1>3. \A j \in Jobs : status'[j] = "draft" => status[j] = "draft"
  BY <1>1, <1>2 DEF Settled, Typed, TypeOK
<1>4. NoNewClaim(p) /\ NoNewSlot /\ NoNewPage /\ NoNewJob(p)
  BY <1>1, <1>3, StatusJobs DEF NoNewClaim, NoNewSlot, NoNewPage
<1>. QED BY <1>1, <1>4, NothingNew

LEMMA InitOwed == Init => OwedInv
<1>. SUFFICES ASSUME Init, NEW p \in Payees PROVE Covered(p)
  BY DEF OwedInv, Covered
<1>1. Owed(p) \subseteq {} \cup {<<"page", 0>>}
  BY TokenKinds DEF Owed, Live, Payable, Init
<1>2. Cardinality(Owed(p)) <= 0 + 1
  BY <1>1, FS_EmptySet, OwedFinite, Bounded
<1>3. Cardinality(Owed(p)) \in Nat
  BY OwedFinite, CountIsNat
<1>. QED BY <1>2, <1>3 DEF Init, Covered

LEMMA OwedStep ==
  ASSUME Typed, Typed', ListInv, OwedInv, [Next]_vars
  PROVE  OwedInv'
<1>. SUFFICES ASSUME NEW p \in Payees, Covered(p) PROVE Covered(p)'
  BY DEF OwedInv, Covered
<1>1. CASE UNCHANGED vars
  <2>1. UNCHANGED <<held, paid, rows, status, page, served, pc>> /\ ReasonsStay
    BY <1>1 DEF vars, tables, handler, worker, client, ghosts, ReasonsStay
  <2>2. NoNewClaim(p) /\ NoNewSlot /\ NoNewPage /\ NoNewJob(p)
    BY <2>1, StatusJobs DEF NoNewClaim, NoNewSlot, NoNewPage
  <2>. QED BY <2>1, <2>2, NothingNew
<1>2. ASSUME NEW s \in Slots, Create(s, "insert") \/ Create(s, "fund")
      PROVE  Covered(p)'
  BY <1>2, CreateOwed
<1>3. ASSUME NEW s \in Slots, Start(s) \/ Edit(s) \/ LoseAnswer(s) \/ Broken(s)
      PROVE  Covered(p)'
  BY <1>3, QuietOwed, FailOwed
<1>4. ASSUME NEW s \in Slots, Handle(s)
      PROVE  Covered(p)'
  BY <1>4, QuietOwed, CreateCommitOwed, SaveOwed, FailOwed DEF Handle
<1>5. ASSUME NEW w \in Workers, Claim(w) \/ Pay(w) \/ Reconcile(w)
      PROVE  Covered(p)'
  BY <1>5, ClaimOwed, PayOwed, ReconcileOwed
<1>. QED BY <1>1, <1>2, <1>3, <1>4, <1>5 DEF Next

LEMMA OwedIsEnough ==
  ASSUME Typed, OwedInv
  PROVE  PaidOncePerReason
<1>. SUFFICES ASSUME NEW p \in Payees PROVE paid[p] <= 1 + doubts + reopened
  BY DEF PaidOncePerReason
<1>1. Cardinality(Owed(p)) \in Nat
  BY OwedFinite, CountIsNat
<1>. QED BY <1>1 DEF OwedInv, Typed, TypeOK

\* Nobody is paid twice for one list unless a creation was left unanswered or a
\* stale save made a started job a draft again, and then once more at most for each.
THEOREM PaidForAReason == Spec => []PaidOncePerReason
<1>1. Init => RequestInv
  BY InitTyped, InitList, InitOwed DEF RequestInv
<1>2. RequestInv /\ [Next]_vars => RequestInv'
  BY ListStep, OwedStep DEF RequestInv
<1>3. RequestInv => PaidOncePerReason
  BY OwedIsEnough DEF RequestInv
<1>. QED BY <1>1, <1>2, <1>3, PTL DEF Spec
=============================================================================
