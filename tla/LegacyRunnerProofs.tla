-------------------------- MODULE LegacyRunnerProofs --------------------------
(***************************************************************************)
(* Theorems about LegacyRunner, for every value of its constants.          *)
(***************************************************************************)
EXTENDS LegacyRunner, TLAPS

-----------------------------------------------------------------------------
(* The invariant. *)

\* Every variable has its shape; a runner past its first read has a record.
Typed ==
    /\ TypeOK
    /\ doubts \in Nat
    /\ faults \in Nat
    /\ overlap \in BOOLEAN
    /\ undone \in BOOLEAN
    /\ \A r \in Runners : pc[r] \notin {"idle", "load"} => mem[r] \in Record

\* What a copy of the record calls paid was paid in the pass it names.
Honest(rec) == \A i \in Recipients : rec.res[i] = "success" => paid[i][rec.run] > 0

HonestInv ==
    /\ Honest(db)
    /\ \A r \in Runners : mem[r] # Nothing => Honest(mem[r])
    /\ \A p \in Processes : stale[p] # Nothing => Honest(stale[p])
    /\ request # Nothing => Honest(request)

RecordInv == Typed /\ HonestInv

\* No two runners send at once, and none once the job is migrated.
OneRunner ==
    \A r \in Runners :
        /\ \A s \in Runners \ {r} : pc[r] \in {"idle", "last"} \/ pc[s] \in {"idle", "last"}
        /\ migrated => r \notin Sending

\* The runner is in a pass.
InPass == {"start", "wave", "mark", "send", "record", "stop", "snap", "pass"}

\* The record reached the pass of the runner, which paid in no later one; whom it
\* has still to pay was paid in this one only where a fault hid it.
RunnerOK(r) ==
    pc[r] \in InPass =>
        /\ pc[r] # "pass" => mem[r].run <= db.run
        /\ \A i \in Recipients, n \in Passes : n > mem[r].run => paid[i][n] = 0
        /\ \A i \in todo[r] : paid[i][mem[r].run] <= doubts

RunnerInv == \A r \in Runners : RunnerOK(r)

\* Nobody was paid in a pass the record did not reach.
PastInv == \A i \in Recipients, n \in Passes : n > db.run => paid[i][n] = 0

\* Whom the queue has still to pay was paid only where a fault hid it.
RowsInv ==
    \A i \in Recipients :
        /\ ~migrated => rows[i] = "none"
        /\ rows[i] = "pending" => \A n \in Passes : n >= db.run => paid[i][n] <= doubts

\* The record shows that i was paid in pass n, or that the pass is over.
Shown(i, n) == db.run > n \/ (db.run = n /\ db.res[i] = "success")

\* Or its runner is about to write it, or the queue paid.
Known(i, n) ==
    \/ Shown(i, n)
    \/ \E r \in Runners : pc[r] = "record" /\ mem[r].run = n /\ mem[r].res[i] = "success"
    \/ rows[i] = "completed"

PaidInv ==
    \A i \in Recipients, n \in Passes : paid[i][n] <= doubts + (IF Known(i, n) THEN 1 ELSE 0)

Once == OneRunner /\ RunnerInv /\ PastInv /\ RowsInv /\ PaidInv

OnceInv == ~overlap /\ ~undone => Once

LegacyInv == RecordInv /\ OnceInv

-----------------------------------------------------------------------------
(* Records. *)

\* What a record is, and what the edits of this module make of it.
LEMMA RecordFields ==
  ASSUME NEW rec \in Record
  PROVE  /\ rec.status \in JobStatuses /\ rec.paused \in BOOLEAN /\ rec.run \in Passes
         /\ rec.res \in [Recipients -> Results]
         /\ \A i \in Recipients : rec.res[i] \in Results
         /\ rec # Nothing
  BY NothingAssumption DEF Record

LEMMA StatusEdit ==
  ASSUME NEW rec \in Record, NEW s \in JobStatuses, NEW b \in BOOLEAN
  PROVE  /\ [rec EXCEPT !.status = s] \in Record
         /\ [rec EXCEPT !.paused = b] \in Record
         /\ [rec EXCEPT !.status = s, !.paused = b] \in Record
         /\ [rec EXCEPT !.paused = b, !.status = s] \in Record
  BY DEF Record

LEMMA ResultEdit ==
  ASSUME NEW rec \in Record, NEW s \in JobStatuses, NEW b \in BOOLEAN,
         NEW f \in [Recipients -> Results]
  PROVE  /\ [rec EXCEPT !.res = f] \in Record
         /\ [rec EXCEPT !.status = s, !.res = f] \in Record
         /\ [rec EXCEPT !.paused = b, !.res = f] \in Record
         /\ [rec EXCEPT !.status = s, !.paused = b, !.res = f] \in Record
  BY DEF Record

LEMMA NextPassType ==
  ASSUME NEW rec \in Record, NEW n \in Passes, n < Target
  PROVE  /\ NextPass([rec EXCEPT !.run = n]) \in Record
         /\ NextPass([rec EXCEPT !.run = n]).run = n + 1
         /\ \A i \in Recipients : NextPass([rec EXCEPT !.run = n]).res[i] = "queued"
<1>1. n + 1 \in Passes
  BY LegacyAssumption DEF Passes
<1>2. [i \in Recipients |-> "queued"] \in [Recipients -> Results]
  BY DEF Results
<1>. QED BY <1>1, <1>2 DEF NextPass, Record, JobStatuses

LEMMA RequeuedType ==
  ASSUME NEW rec \in Record
  PROVE  /\ Requeued(rec) \in Record
         /\ Requeued(rec).run = rec.run
         /\ \A i \in Recipients : Requeued(rec).res[i] = "success" <=> rec.res[i] = "success"
<1>. DEFINE f == [i \in Recipients |-> IF rec.res[i] = "pending" THEN "queued" ELSE rec.res[i]]
<1>1. f \in [Recipients -> Results] /\ \A i \in Recipients : f[i] = "success" <=> rec.res[i] = "success"
  BY RecordFields DEF Results
<1>2. Requeued(rec) = [rec EXCEPT !.status = "queued", !.paused = FALSE, !.res = f]
  BY DEF Requeued
<1>. HIDE DEF f
<1>. QED BY <1>1, <1>2 DEF Record, JobStatuses

LEMMA NewJobType ==
  ASSUME NEW s \in JobStatuses
  PROVE  NewJob(s) \in Record /\ NewJob(s).run = 1 /\ \A i \in Recipients : NewJob(s).res[i] = "queued"
<1>1. 1 \in Passes
  BY LegacyAssumption DEF Passes
<1>. QED BY <1>1 DEF NewJob, Record, Results

\* The records that the actions write into a runner's copy or a request: each
\* keeps the pass of another one and calls no one paid beyond it.
Follows(rec, of) ==
    /\ rec \in Record
    /\ rec.run = of.run
    /\ \A i \in Recipients : rec.res[i] = "success" => of.res[i] = "success"

\* Their payments are then as honest.
LEMMA FollowsHonest ==
  ASSUME NEW rec, NEW of, Follows(rec, of), Honest(of)
  PROVE  Honest(rec)
  BY DEF Follows, Honest

LEMMA FollowsStatus ==
  ASSUME NEW rec \in Record, NEW s \in JobStatuses, NEW b \in BOOLEAN
  PROVE  /\ Follows(rec, rec)
         /\ Follows([rec EXCEPT !.status = s], rec)
         /\ Follows([rec EXCEPT !.status = s, !.paused = b], rec)
         /\ Follows([rec EXCEPT !.paused = b, !.status = s], rec)
  BY DEF Follows, Record

LEMMA FollowsResults ==
  ASSUME NEW rec \in Record, NEW s \in JobStatuses, NEW b \in BOOLEAN,
         NEW f \in [Recipients -> Results],
         \A i \in Recipients : f[i] = "success" => rec.res[i] = "success"
  PROVE  /\ Follows([rec EXCEPT !.status = s, !.res = f], rec)
         /\ Follows([rec EXCEPT !.paused = b, !.res = f], rec)
         /\ Follows([rec EXCEPT !.status = s, !.paused = b, !.res = f], rec)
  BY DEF Follows, Record

-----------------------------------------------------------------------------
(* Typing. *)

LEMMA Moved ==
  ASSUME Typed, NEW r \in Runners, NEW where \in PCs, Goto(r, where)
  PROVE  /\ pc' \in [Runners -> PCs] /\ pc'[r] = where
         /\ \A s \in Runners \ {r} : pc'[s] = pc[s]
  BY DEF Goto, Typed, TypeOK

LEMMA Kept ==
  ASSUME Typed, NEW r \in Runners, NEW rec, Keep(r, rec)
  PROVE  /\ mem'[r] = rec
         /\ \A s \in Runners \ {r} : mem'[s] = mem[s]
         /\ rec \in Record \cup {Nothing} => mem' \in [Runners -> Record \cup {Nothing}]
  BY DEF Keep, Typed, TypeOK

\* A step of runner r that keeps its record, or writes one, is well typed.
LEMMA RunnerTyped ==
  ASSUME Typed, NEW r \in Runners, NEW where \in PCs, Goto(r, where),
         UNCHANGED mem \/ \E rec \in Record \cup {Nothing} : Keep(r, rec),
         mem'[r] \in Record \/ where \in {"idle", "load"}
  PROVE  /\ pc' \in [Runners -> PCs]
         /\ mem' \in [Runners -> Record \cup {Nothing}]
         /\ \A s \in Runners : pc'[s] \notin {"idle", "load"} => mem'[s] \in Record
<1>1. /\ pc' \in [Runners -> PCs] /\ pc'[r] = where
      /\ \A s \in Runners \ {r} : pc'[s] = pc[s]
  BY Moved
<1>2. /\ mem' \in [Runners -> Record \cup {Nothing}]
      /\ \A s \in Runners \ {r} : mem'[s] = mem[s]
  <2>1. CASE UNCHANGED mem
    BY <2>1 DEF Typed, TypeOK
  <2>2. CASE \E rec \in Record \cup {Nothing} : Keep(r, rec)
    BY <2>2, Kept
  <2>. QED BY <2>1, <2>2
<1>3. \A s \in Runners : pc[s] \notin {"idle", "load"} => mem[s] \in Record
  BY DEF Typed
<1>. QED BY <1>1, <1>2, <1>3

\* Saving a record leaves one.
LEMMA SaveType ==
  ASSUME Typed, NEW rec \in Record, Save(rec)
  PROVE  db' \in Record /\ db' = rec /\ old' \in BOOLEAN /\ undone' \in BOOLEAN
  BY DEF Save, Typed

LEMMA FaultType == ASSUME Typed, Fault PROVE faults' \in Nat /\ faults' = faults + 1
  BY DEF Fault, Typed

\* What a route of the owner is about to save follows the record it read.
LEMMA Asked ==
  ASSUME Typed, \/ Pause \/ Cancel
                \/ \E p \in Processes : Resume(p) \/ Start(p) \/ QueueAgain(p)
  PROVE  /\ Follows(request', db) /\ request' \in Record
         /\ UNCHANGED <<db, migrated, old, rows, runner, stale, paid, faults, history>>
<1>1. db \in Record
  BY DEF Typed, TypeOK
<1>. SUFFICES ASSUME NEW rec, Ask(rec), Follows(rec, db)
              PROVE  Follows(request', db) /\ request' \in Record
  <2>1. CASE Pause
    <3>1. (IF db.status \in {"queued", "running"} THEN "paused" ELSE db.status) \in JobStatuses
      BY <1>1, RecordFields DEF JobStatuses
    <3>2. PICK s \in JobStatuses : s = IF db.status \in {"queued", "running"} THEN "paused" ELSE db.status
      BY <3>1
    <3>3. Ask([db EXCEPT !.paused = TRUE, !.status = s])
      BY SMTT(40), <2>1, <3>2 DEF Pause
    <3>. QED BY Zenon, <1>1, <3>3, FollowsStatus DEF Ask
  <2>2. CASE Cancel
    BY ZenonT(40), <1>1, <2>2, FollowsStatus DEF Cancel, Ask, JobStatuses
  <2>3. ASSUME NEW p \in Processes, Resume(p) \/ Start(p)
        PROVE  Ask(Queued(db)) /\ Follows(Queued(db), db)
    BY Zenon, <1>1, <2>3, FollowsStatus DEF Resume, Start, Queued, JobStatuses
  <2>4. ASSUME NEW p \in Processes, QueueAgain(p)
        PROVE  \E rec : Ask(rec) /\ Follows(rec, db)
    <3>. DEFINE f == Unsuccessful(db)
    <3>1. f \in [Recipients -> Results] /\ \A i \in Recipients : f[i] = "success" => db.res[i] = "success"
      BY DEF Unsuccessful, Results
    <3>2. Ask([db EXCEPT !.status = "queued", !.paused = FALSE, !.res = f])
      BY SMTT(40), <1>1, <2>4 DEF QueueAgain, Queued, Record
    <3>. HIDE DEF f
    <3>3. Follows([db EXCEPT !.status = "queued", !.paused = FALSE, !.res = f], db)
      BY Zenon, <1>1, <3>1, FollowsResults DEF JobStatuses
    <3>. QED BY <3>2, <3>3
  <2>. QED BY <2>1, <2>2, <2>3, <2>4 DEF Ask
<1>. QED BY DEF Ask, Follows

LEMMA InitTyped == Init => Typed
<1>. SUFFICES ASSUME Init PROVE Typed
  OBVIOUS
<1>1. db \in Record
  BY NewJobType DEF Init, JobStatuses
<1>2. pc \in [Runners -> PCs] /\ \A r \in Runners : pc[r] = "idle"
  BY DEF Init, PCs
<1>. QED BY Zenon, <1>1, <1>2 DEF Init, Typed, TypeOK

\* A status that a runner gives its copy.
LEMMA OutcomeType == ASSUME NEW rec PROVE Outcome(rec) \in JobStatuses
  BY DEF Outcome, JobStatuses

\* The recipients a runner marks are in its copy as others are.
LEMMA MarkType ==
  ASSUME Typed, NEW r \in Runners, mem[r] \in Record
  PROVE  /\ [mem[r] EXCEPT !.paused = FALSE,
                !.res = [i \in Recipients |-> IF i \in Wave(r) THEN "pending" ELSE mem[r].res[i]]] \in Record
         /\ Follows([mem[r] EXCEPT !.paused = FALSE,
                !.res = [i \in Recipients |-> IF i \in Wave(r) THEN "pending" ELSE mem[r].res[i]]], mem[r])
<1>. DEFINE f == [i \in Recipients |-> IF i \in Wave(r) THEN "pending" ELSE mem[r].res[i]]
<1>1. f \in [Recipients -> Results] /\ \A i \in Recipients : f[i] = "success" => mem[r].res[i] = "success"
  BY RecordFields DEF Results
<1>. HIDE DEF f
<1>2. Follows([mem[r] EXCEPT !.paused = FALSE, !.res = f], mem[r])
  BY Zenon, <1>1, FollowsResults DEF JobStatuses
<1>3. [mem[r] EXCEPT !.paused = FALSE, !.res = f] \in Record
  BY <1>2 DEF Follows
<1>. QED BY <1>2, <1>3 DEF f

LEMMA NoKeyType ==
  ASSUME Typed, NEW r \in Runners, NoKey(r)
  PROVE  Keep(r, mem'[r]) /\ Follows(mem'[r], db)
<1>. DEFINE f == [i \in Recipients |-> IF db.res[i] = "success" THEN "success" ELSE "failed"]
<1>0. db \in Record
  BY DEF Typed, TypeOK
<1>1. f \in [Recipients -> Results] /\ \A i \in Recipients : f[i] = "success" => db.res[i] = "success"
  BY DEF Results
<1>2. Keep(r, [db EXCEPT !.status = "failed", !.res = f])
  BY SMTT(40) DEF NoKey
<1>. HIDE DEF f
<1>3. Follows([db EXCEPT !.status = "failed", !.res = f], db)
  BY Zenon, <1>0, <1>1, FollowsResults DEF JobStatuses
<1>. QED BY <1>2, <1>3, Kept

\* What the transfers of a wave leave.
Sent(r, accepted, known) ==
    /\ known \subseteq accepted
    /\ IF known = accepted THEN UNCHANGED <<faults, doubts>> ELSE Fault /\ doubts' = doubts + 1
    /\ Keep(r, mem'[r]) /\ mem'[r] \in Record /\ mem'[r].run = mem[r].run
    /\ \A i \in Recipients : mem'[r].res[i] = "success" =>
          i \in known \/ (i \notin Wave(r) /\ mem[r].res[i] = "success")
    /\ \A i \in known : mem'[r].res[i] = "success"
    /\ paid' \in [Recipients -> [Passes -> Nat]]
    /\ \A i \in Recipients, n \in Passes :
          paid'[i][n] = paid[i][n] + (IF i \in accepted /\ n = mem[r].run THEN 1 ELSE 0)

LEMMA SendType ==
  ASSUME Typed, NEW r \in Runners, Send(r), mem[r] \in Record
  PROVE  \E accepted, known \in SUBSET Wave(r) : Sent(r, accepted, known)
<1>1. PICK accepted \in SUBSET Wave(r), known \in SUBSET Wave(r) :
        /\ known \subseteq accepted
        /\ IF known = accepted THEN UNCHANGED <<faults, doubts>> ELSE Fault /\ doubts' = doubts + 1
        /\ paid' = [i \in Recipients |->
               IF i \in accepted THEN [paid[i] EXCEPT ![mem[r].run] = @ + 1] ELSE paid[i]]
        /\ Keep(r, [mem[r] EXCEPT !.res = [i \in Recipients |->
               IF i \in known THEN "success" ELSE IF i \in Wave(r) THEN "failed" ELSE mem[r].res[i]]])
  BY DEF Send
<1>. DEFINE f == [i \in Recipients |->
               IF i \in known THEN "success" ELSE IF i \in Wave(r) THEN "failed" ELSE mem[r].res[i]]
<1>2. Wave(r) \subseteq Recipients
  BY DEF Wave, Typed, TypeOK
<1>3. /\ f \in [Recipients -> Results]
      /\ \A i \in Recipients : f[i] = "success" => i \in known \/ (i \notin Wave(r) /\ mem[r].res[i] = "success")
      /\ \A i \in known : f[i] = "success"
  BY <1>2, RecordFields DEF Results
<1>4. Keep(r, [mem[r] EXCEPT !.res = f])
  BY <1>1
<1>. HIDE DEF f
<1>5. [mem[r] EXCEPT !.res = f] \in Record /\ [mem[r] EXCEPT !.res = f].run = mem[r].run
      /\ [mem[r] EXCEPT !.res = f].res = f
  BY <1>3 DEF Record
<1>6. mem'[r] = [mem[r] EXCEPT !.res = f]
  BY <1>4, Kept
<1>7. mem[r].run \in Passes
  BY RecordFields
<1>8. ASSUME NEW i \in Recipients
      PROVE  /\ paid'[i] \in [Passes -> Nat]
             /\ \A n \in Passes :
                   paid'[i][n] = paid[i][n] + (IF i \in accepted /\ n = mem[r].run THEN 1 ELSE 0)
  <2>1. paid[i] \in [Passes -> Nat]
    BY DEF Typed, TypeOK
  <2>2. paid'[i] = IF i \in accepted THEN [paid[i] EXCEPT ![mem[r].run] = @ + 1] ELSE paid[i]
    BY <1>1
  <2>3. CASE i \in accepted
    <3>1. paid'[i] = [paid[i] EXCEPT ![mem[r].run] = @ + 1]
      BY <2>2, <2>3
    <3>. QED BY <1>7, <2>1, <2>3, <3>1
  <2>4. CASE i \notin accepted
    BY <2>1, <2>2, <2>4
  <2>. QED BY <2>3, <2>4
<1>9. paid' \in [Recipients -> [Passes -> Nat]]
  BY <1>1, <1>8
<1>10. Sent(r, accepted, known)
  BY <1>1, <1>3, <1>4, <1>5, <1>6, <1>8, <1>9 DEF Sent
<1>. QED BY <1>10

\* The queue pays a pending row.
LEMMA QueuePaysType ==
  ASSUME Typed, NEW i \in Recipients, QueuePays(i)
  PROVE  /\ paid' \in [Recipients -> [Passes -> Nat]]
         /\ \A j \in Recipients, n \in Passes :
               paid'[j][n] = paid[j][n] + (IF j = i /\ n = db.run THEN 1 ELSE 0)
<1>1. db.run \in Passes /\ paid[i] \in [Passes -> Nat] /\ paid \in [Recipients -> [Passes -> Nat]]
  BY RecordFields DEF Typed, TypeOK
<1>. DEFINE f == [paid[i] EXCEPT ![db.run] = @ + 1]
<1>2. f \in [Passes -> Nat] /\ \A n \in Passes : f[n] = paid[i][n] + (IF n = db.run THEN 1 ELSE 0)
  BY <1>1
<1>3. paid' = [paid EXCEPT ![i] = f]
  BY DEF QueuePays
<1>. HIDE DEF f
<1>4. \A j \in Recipients : paid'[j] = IF j = i THEN f ELSE paid[j]
  BY <1>1, <1>3
<1>5. \A j \in Recipients, n \in Passes : paid[j][n] \in Nat
  BY <1>1
<1>. QED BY <1>1, <1>2, <1>3, <1>4, <1>5

LEMMA CrashType ==
  ASSUME Typed, NEW p \in Processes, Crash(p)
  PROVE  /\ pc' \in [Runners -> PCs] /\ mem' \in [Runners -> Record \cup {Nothing}]
         /\ todo' \in [Runners -> SUBSET Recipients]
         /\ \A r \in Runners : IF Process[r] = p THEN pc'[r] = "idle" /\ mem'[r] = Nothing
                               ELSE pc'[r] = pc[r] /\ mem'[r] = mem[r] /\ todo'[r] = todo[r]
         /\ stale' \in [Processes -> Record \cup {Nothing}]
         /\ \A q \in Processes : stale'[q] = IF q = p THEN Nothing ELSE stale[q]
  BY DEF Crash, Typed, TypeOK, PCs

\* A runner at work has a copy of the record, and saves it.
LEMMA SaveStepType ==
  ASSUME Typed, NEW r \in Runners, SaveStep(r)
  PROVE  /\ pc[r] \in {"start", "mark", "record", "stop", "pass", "quit"}
         /\ mem[r] \in Record /\ Save(mem[r])
         /\ pc[r] = "start" => Goto(r, "wave")
         /\ pc[r] = "mark" => Goto(r, "send")
         /\ pc[r] = "record" => Goto(r, "wave")
         /\ pc[r] = "stop" => Goto(r, "snap")
         /\ pc[r] = "pass" => Goto(r, "wave")
         /\ pc[r] = "quit" => Goto(r, "last")
  BY DEF SaveStep, After, Typed

LEMMA TypedStep == Typed /\ [Next]_vars => Typed'
<1>. SUFFICES ASSUME Typed, [Next]_vars PROVE Typed'
  OBVIOUS
<1>0. /\ db \in Record
      /\ \A r \in Runners : pc[r] \notin {"idle", "load"} => mem[r] \in Record
  BY DEF Typed, TypeOK
<1>1. ASSUME NEW p \in Processes, ListStale(p) PROVE Typed'
  <2>1. Requeued(db) \in Record
    BY <1>0, RequeuedType
  <2>2. stale' \in [Processes -> Record \cup {Nothing}]
    BY <1>1, <2>1 DEF ListStale, Typed, TypeOK
  <2>. QED BY <1>1, <2>2 DEF ListStale, runner, history, Typed, TypeOK
<1>2. ASSUME NEW p \in Processes, Requeue(p) PROVE Typed'
  <2>1. stale[p] \in Record /\ Save(stale[p])
    BY <1>2 DEF Requeue, Typed, TypeOK
  <2>2. db' \in Record /\ old' \in BOOLEAN /\ undone' \in BOOLEAN
    BY <2>1, SaveType
  <2>3. stale' \in [Processes -> Record \cup {Nothing}]
    BY <1>2 DEF Requeue, Typed, TypeOK
  <2>. QED BY <1>2, <2>2, <2>3 DEF Requeue, runner, Typed, TypeOK
<1>3. ASSUME NEW p \in Processes, Claim(p) PROVE Typed'
  <2>1. PICK r \in Runners : pc[r] = "idle" /\ pc' = [pc EXCEPT ![r] = "load"]
    BY Zenon, <1>3 DEF Claim
  <2>2. pc' \in [Runners -> PCs] /\ \A s \in Runners : pc'[s] \notin {"idle", "load"} => mem[s] \in Record
    BY <1>0, <2>1 DEF Typed, TypeOK, PCs
  <2>3. db' \in Record
    BY Zenon, <1>0, <1>3, StatusEdit DEF Claim, JobStatuses
  <2>. QED BY <1>3, <2>2, <2>3 DEF Claim, Typed, TypeOK
<1>4. ASSUME NEW p \in Processes, Crash(p) PROVE Typed'
  <2>1. doubts' \in Nat /\ faults' \in Nat
    BY <1>4, FaultType DEF Crash, Typed
  <2>. QED BY <1>4, <2>1, CrashType DEF Crash, Typed, TypeOK
<1>5. ASSUME \/ Pause \/ Cancel
             \/ \E p \in Processes : Resume(p) \/ Start(p) \/ QueueAgain(p)
      PROVE  Typed'
  BY <1>5, Asked DEF runner, history, Typed, TypeOK
<1>6. ASSUME NEW r \in Runners, Load(r) PROVE Typed'
  <2>1. PICK where \in {"second", "last"} : Keep(r, db) /\ Goto(r, where)
    BY <1>6 DEF Load
  <2>2. mem'[r] \in Record
    BY <1>0, <2>1, Kept
  <2>. QED BY <1>0, <1>6, <2>1, <2>2, RunnerTyped DEF Load, history, PCs, Typed, TypeOK
<1>7. ASSUME NEW r \in Runners, NoKey(r) PROVE Typed'
  <2>1. Keep(r, mem'[r]) /\ mem'[r] \in Record
    BY <1>7, NoKeyType DEF Follows
  <2>2. Goto(r, "quit") /\ faults' \in Nat
    BY <1>7, FaultType DEF NoKey
  <2>. QED BY <1>7, <2>1, <2>2, RunnerTyped DEF NoKey, history, PCs, Typed, TypeOK
<1>8. ASSUME NEW r \in Runners, Second(r) PROVE Typed'
  <2>1. \E rec \in Record : Keep(r, rec)
    BY Zenon, <1>0, <1>8, StatusEdit DEF Second, JobStatuses
  <2>2. \E where \in {"last", "quit", "start"} : Goto(r, where)
    BY <1>8 DEF Second
  <2>3. todo' \in [Runners -> SUBSET Recipients]
    <3>1. Unpaid(db) \subseteq Recipients
      BY DEF Unpaid
    <3>. QED BY <1>8, <3>1 DEF Second, Typed, TypeOK
  <2>4. mem'[r] \in Record
    BY <2>1, Kept
  <2>. QED BY SMTT(40), <1>8, <2>1, <2>2, <2>3, <2>4, RunnerTyped DEF Second, history, PCs, Typed, TypeOK
<1>9. ASSUME NEW r \in Runners, BeginWave(r) PROVE Typed'
  <2>0. mem[r] \in Record
    BY SMTT(40), <1>0, <1>9 DEF BeginWave
  <2>1. \E rec \in Record : Keep(r, rec)
    BY Zenon, <1>9, <2>0, StatusEdit, MarkType DEF BeginWave, JobStatuses
  <2>2. \E where \in {"stop", "mark"} : Goto(r, where)
    BY <1>9 DEF BeginWave
  <2>3. mem'[r] \in Record
    BY <2>1, Kept
  <2>. QED BY <1>9, <2>1, <2>2, <2>3, RunnerTyped DEF BeginWave, history, PCs, Typed, TypeOK
<1>10. ASSUME NEW r \in Runners, Send(r) PROVE Typed'
  <2>0. mem[r] \in Record
    BY <1>0, <1>10 DEF Send
  <2>1. PICK accepted, known \in SUBSET Wave(r) : Sent(r, accepted, known)
    BY <1>10, <2>0, SendType
  <2>2. faults' \in Nat /\ doubts' \in Nat
    BY <2>1, FaultType DEF Sent, Typed
  <2>3. Keep(r, mem'[r]) /\ mem'[r] \in Record /\ paid' \in [Recipients -> [Passes -> Nat]]
    BY <2>1 DEF Sent
  <2>4. todo' \in [Runners -> SUBSET Recipients]
    BY <1>10 DEF Send, Typed, TypeOK
  <2>. QED BY <1>10, <2>2, <2>3, <2>4, RunnerTyped DEF Send, PCs, Typed, TypeOK
<1>11. ASSUME NEW r \in Runners, Snap(r) PROVE Typed'
  <2>0. mem[r] \in Record /\ pc[r] \in {"snap", "wave"}
    BY SMTT(40), <1>0, <1>11 DEF Snap
  <2>1. UNCHANGED mem \/ \E rec \in Record : Keep(r, rec)
    <3>1. mem[r].run \in Passes
      BY <2>0, RecordFields
    <3>. QED BY Zenon, <1>0, <1>11, <3>1, StatusEdit, NextPassType, OutcomeType DEF Snap, JobStatuses
  <2>2. \E where \in {"last", "quit", "pass"} : Goto(r, where)
    BY <1>11 DEF Snap
  <2>3. todo' \in [Runners -> SUBSET Recipients]
    <3>1. \A rec : Unpaid(rec) \subseteq Recipients
      BY DEF Unpaid
    <3>. QED BY <1>11, <3>1 DEF Snap, Typed, TypeOK
  <2>4. mem'[r] \in Record
    BY <2>0, <2>1, Kept
  <2>. QED BY <1>11, <2>1, <2>2, <2>3, <2>4, RunnerTyped DEF Snap, history, PCs, Typed, TypeOK
<1>12. ASSUME NEW r \in Runners, SaveStep(r) PROVE Typed'
  <2>1. mem[r] \in Record /\ Save(mem[r]) /\ \E where \in {"wave", "send", "snap", "last"} : Goto(r, where)
    BY <1>12, SaveStepType
  <2>2. db' \in Record /\ old' \in BOOLEAN /\ undone' \in BOOLEAN
    BY <2>1, SaveType
  <2>. QED BY <1>12, <2>1, <2>2, RunnerTyped DEF SaveStep, PCs, Typed, TypeOK
<1>13. ASSUME NEW r \in Runners, Last(r) PROVE Typed'
  <2>1. mem[r] \in Record
    BY <1>0, <1>13 DEF Last
  <2>2. db' \in Record /\ old' \in BOOLEAN /\ undone' \in BOOLEAN /\ faults' \in Nat /\ doubts' \in Nat
    BY <1>13, <2>1, SaveType, FaultType DEF Last, Typed, TypeOK
  <2>3. todo' \in [Runners -> SUBSET Recipients]
    BY <1>13 DEF Last, Typed, TypeOK
  <2>4. Keep(r, Nothing) /\ Goto(r, "idle")
    BY <1>13 DEF Last
  <2>. QED BY <1>13, <2>2, <2>3, <2>4, RunnerTyped DEF Last, PCs, Typed, TypeOK
<1>14. ASSUME NEW r \in Runners, RunError(r) PROVE Typed'
  <2>1. \E where \in {"idle", "last"} : Goto(r, where) /\ (mem[r] \in Record \/ where = "idle")
    BY <1>0, <1>14 DEF RunError
  <2>2. faults' \in Nat /\ doubts' \in Nat
    BY <1>14, FaultType DEF RunError, Typed
  <2>3. todo' \in [Runners -> SUBSET Recipients]
    BY <1>14 DEF RunError, Typed, TypeOK
  <2>. QED BY <1>14, <2>1, <2>2, <2>3, RunnerTyped DEF RunError, PCs, Typed, TypeOK
<1>15. CASE Age
  <2>1. faults' \in Nat
    BY <1>15, FaultType DEF Age, Typed
  <2>. QED BY <1>15, <2>1 DEF Age, runner, history, Typed, TypeOK
<1>16. CASE Commit
  <2>1. request \in Record /\ Save(request)
    BY <1>16 DEF Commit, Typed, TypeOK
  <2>2. db' \in Record /\ old' \in BOOLEAN /\ undone' \in BOOLEAN
    BY <2>1, SaveType
  <2>. QED BY <1>16, <2>2 DEF Commit, runner, Typed, TypeOK
<1>17. CASE Migrate
  <2>1. rows' \in [Recipients -> {"none", "pending", "completed", "failed"}]
    BY <1>17 DEF Migrate, WalletRowStatus
  <2>. QED BY <1>17, <2>1 DEF Migrate, runner, Typed, TypeOK
<1>18. ASSUME NEW i \in Recipients, QueuePays(i) PROVE Typed'
  <2>1. rows' \in [Recipients -> {"none", "pending", "completed", "failed"}]
    BY <1>18 DEF QueuePays, Typed, TypeOK
  <2>. QED BY <1>18, <2>1, QueuePaysType DEF QueuePays, runner, history, Typed, TypeOK
<1>19. CASE UNCHANGED vars
  BY <1>19 DEF vars, runner, history, Typed, TypeOK
<1>. QED
  BY <1>1, <1>2, <1>3, <1>4, <1>5, <1>6, <1>7, <1>8, <1>9, <1>10, <1>11, <1>12, <1>13, <1>14, <1>15,
     <1>16, <1>17, <1>18, <1>19 DEF Next, TickStep, RunStep

-----------------------------------------------------------------------------
(* Honest records. *)

LEMMA InitHonest == Init => HonestInv
<1>. SUFFICES ASSUME Init PROVE HonestInv
  OBVIOUS
<1>1. Honest(db)
  BY NewJobType DEF Init, Honest, JobStatuses
<1>. QED BY <1>1 DEF Init, HonestInv

\* Payments are not taken back, so a copy stays honest; a step gives its runner,
\* process or request an honest one.
LEMMA HonestFrame ==
  ASSUME Typed, Typed', HonestInv,
         \A i \in Recipients, n \in Passes : paid'[i][n] >= paid[i][n],
         Honest(db)',
         \A r \in Runners : mem'[r] # mem[r] /\ mem'[r] # Nothing => Honest(mem[r])',
         \A p \in Processes : stale'[p] # stale[p] /\ stale'[p] # Nothing => Honest(stale[p])',
         request' # request /\ request' # Nothing => Honest(request)'
  PROVE  HonestInv'
<1>1. ASSUME NEW rec \in Record, Honest(rec) PROVE Honest(rec)'
  <2>. SUFFICES ASSUME NEW i \in Recipients, rec.res[i] = "success" PROVE paid'[i][rec.run] > 0
    BY DEF Honest
  <2>1. rec.run \in Passes /\ paid[i][rec.run] > 0
    BY <1>1, RecordFields DEF Honest
  <2>2. paid[i][rec.run] \in Nat /\ paid'[i][rec.run] \in Nat
    BY <2>1 DEF Typed, TypeOK
  <2>. QED BY <2>1, <2>2
<1>2. ASSUME NEW r \in Runners, mem'[r] # Nothing PROVE Honest(mem[r])'
  <2>1. CASE mem'[r] = mem[r]
    <3>1. mem[r] \in Record /\ Honest(mem[r])
      BY <1>2, <2>1 DEF HonestInv, Typed, TypeOK
    <3>2. PICK rec \in Record : rec = mem[r]
      BY <3>1
    <3>. QED BY <1>1, <2>1, <3>1, <3>2 DEF Honest
  <2>. QED BY <1>2, <2>1
<1>3. ASSUME NEW p \in Processes, stale'[p] # Nothing PROVE Honest(stale[p])'
  <2>1. CASE stale'[p] = stale[p]
    <3>1. stale[p] \in Record /\ Honest(stale[p])
      BY <1>3, <2>1 DEF HonestInv, Typed, TypeOK
    <3>2. PICK rec \in Record : rec = stale[p]
      BY <3>1
    <3>. QED BY <1>1, <2>1, <3>1, <3>2 DEF Honest
  <2>. QED BY <1>3, <2>1
<1>4. ASSUME request' # Nothing PROVE Honest(request)'
  <2>1. CASE request' = request
    <3>1. request \in Record /\ Honest(request)
      BY <1>4, <2>1 DEF HonestInv, Typed, TypeOK
    <3>2. PICK rec \in Record : rec = request
      BY <3>1
    <3>. QED BY <1>1, <2>1, <3>1, <3>2 DEF Honest
  <2>. QED BY <1>4, <2>1
<1>. QED BY <1>2, <1>3, <1>4 DEF HonestInv

LEMMA HonestStep == Typed /\ Typed' /\ HonestInv /\ [Next]_vars => HonestInv'
<1>. SUFFICES ASSUME Typed, Typed', HonestInv, [Next]_vars PROVE HonestInv'
  OBVIOUS
<1>0. /\ db \in Record /\ Honest(db)
      /\ \A r \in Runners : pc[r] \notin {"idle", "load"} => mem[r] \in Record /\ Honest(mem[r])
      /\ \A i \in Recipients, n \in Passes : paid[i][n] \in Nat
  BY RecordFields DEF Typed, TypeOK, HonestInv
\* Without a payment: what the copies are, and that they were honest before.
<1>1. ASSUME UNCHANGED paid, Honest(db'),
             \A r \in Runners : mem'[r] # mem[r] /\ mem'[r] # Nothing => Honest(mem'[r]),
             \A p \in Processes : stale'[p] # stale[p] /\ stale'[p] # Nothing => Honest(stale'[p]),
             request' # request /\ request' # Nothing => Honest(request')
      PROVE  HonestInv'
  <2>1. \A i \in Recipients, n \in Passes : paid'[i][n] >= paid[i][n]
    BY <1>0, <1>1
  <2>. QED BY <1>1, <2>1, HonestFrame DEF Honest
<1>2. ASSUME NEW p \in Processes, ListStale(p) PROVE HonestInv'
  <2>1. Honest(Requeued(db))
    BY <1>0, RequeuedType DEF Honest
  <2>2. stale'[p] = Requeued(db) /\ \A q \in Processes \ {p} : stale'[q] = stale[q]
    BY <1>2 DEF ListStale, Typed, TypeOK
  <2>. QED BY <1>0, <1>1, <1>2, <2>1, <2>2 DEF ListStale, runner
<1>3. ASSUME NEW p \in Processes, Requeue(p) PROVE HonestInv'
  <2>1. db' = stale[p] /\ Honest(stale[p])
    BY <1>3 DEF Requeue, Save, HonestInv
  <2>2. stale'[p] = Nothing /\ \A q \in Processes \ {p} : stale'[q] = stale[q]
    BY <1>3 DEF Requeue, Typed, TypeOK
  <2>. QED BY <1>1, <1>3, <2>1, <2>2 DEF Requeue, runner
<1>4. ASSUME NEW p \in Processes, Claim(p) PROVE HonestInv'
  <2>1. Follows(db', db)
    BY Zenon, <1>0, <1>4, FollowsStatus DEF Claim, JobStatuses
  <2>. QED BY SMTT(40), <1>0, <1>1, <1>4, <2>1, FollowsHonest DEF Claim
<1>5. ASSUME NEW p \in Processes, Crash(p) PROVE HonestInv'
  BY <1>0, <1>1, <1>5, CrashType DEF Crash
<1>6. ASSUME \/ Pause \/ Cancel
             \/ \E p \in Processes : Resume(p) \/ Start(p) \/ QueueAgain(p)
      PROVE  HonestInv'
  BY <1>0, <1>1, <1>6, Asked, FollowsHonest DEF runner
<1>7. ASSUME NEW r \in Runners, UNCHANGED <<db, stale, request, paid>>,
             NEW rec, Honest(rec), Keep(r, rec)
      PROVE  HonestInv'
  <2>1. mem'[r] = rec /\ \A s \in Runners \ {r} : mem'[s] = mem[s]
    BY <1>7, Kept
  <2>. QED BY <1>0, <1>1, <1>7, <2>1
<1>8. ASSUME NEW r \in Runners, Load(r) \/ NoKey(r) \/ Second(r) PROVE HonestInv'
  <2>1. UNCHANGED <<db, stale, request, paid>>
    BY <1>8 DEF Load, NoKey, Second
  <2>2. CASE Load(r)
    BY <1>0, <1>7, <2>1, <2>2 DEF Load
  <2>3. CASE NoKey(r)
    BY <1>0, <1>7, <2>1, <2>3, NoKeyType, FollowsHonest
  <2>4. CASE Second(r)
    <3>1. PICK s \in JobStatuses : Keep(r, db) \/ Keep(r, [db EXCEPT !.status = s])
      BY SMTT(40), <2>4 DEF Second, JobStatuses
    <3>2. Honest([db EXCEPT !.status = s])
      BY Zenon, <1>0, FollowsStatus, FollowsHonest
    <3>. QED BY <1>0, <1>7, <2>1, <3>1, <3>2
  <2>. QED BY <1>8, <2>2, <2>3, <2>4
<1>9. ASSUME NEW r \in Runners, BeginWave(r) PROVE HonestInv'
  <2>1. UNCHANGED <<db, stale, request, paid>> /\ mem[r] \in Record /\ Honest(mem[r])
    BY SMTT(40), <1>0, <1>9 DEF BeginWave
  <2>2. \E rec : Keep(r, rec) /\ Follows(rec, mem[r])
    BY Zenon, <1>9, <2>1, FollowsStatus, MarkType DEF BeginWave, JobStatuses
  <2>. QED BY <1>7, <2>1, <2>2, FollowsHonest
<1>10. ASSUME NEW r \in Runners, Send(r) PROVE HonestInv'
  <2>0. mem[r] \in Record /\ Honest(mem[r]) /\ UNCHANGED <<db, stale, request>>
    BY <1>0, <1>10 DEF Send
  <2>1. PICK accepted, known \in SUBSET Wave(r) : Sent(r, accepted, known)
    BY <1>10, <2>0, SendType
  <2>2. \A i \in Recipients, n \in Passes :
            paid'[i][n] = paid[i][n] + (IF i \in accepted /\ n = mem[r].run THEN 1 ELSE 0)
    BY <2>1 DEF Sent
  <2>3. \A i \in Recipients, n \in Passes : paid'[i][n] >= paid[i][n]
    BY <1>0, <2>2
  <2>4. Honest(mem[r])'
    <3>. SUFFICES ASSUME NEW i \in Recipients, mem'[r].res[i] = "success" PROVE paid'[i][mem'[r].run] > 0
      BY DEF Honest
    <3>1. mem'[r].run = mem[r].run /\ mem[r].run \in Passes
      BY <2>0, <2>1, RecordFields DEF Sent
    <3>2. i \in known \/ mem[r].res[i] = "success"
      BY <2>1 DEF Sent
    <3>3. CASE i \in known
      BY <1>0, <2>1, <2>2, <3>1, <3>3 DEF Sent
    <3>4. CASE mem[r].res[i] = "success"
      <4>1. paid[i][mem[r].run] > 0
        BY <2>0, <3>4 DEF Honest
      <4>2. paid'[i][mem[r].run] >= paid[i][mem[r].run] /\ paid[i][mem[r].run] \in Nat
            /\ paid'[i][mem[r].run] \in Nat
        BY <1>0, <2>2, <2>3, <3>1
      <4>. QED BY <3>1, <4>1, <4>2
    <3>. QED BY <3>2, <3>3, <3>4
  <2>5. \A s \in Runners \ {r} : mem'[s] = mem[s]
    BY <2>1, Kept DEF Sent
  <2>6. Honest(db)'
    <3>1. ASSUME NEW i \in Recipients, db.res[i] = "success" PROVE paid'[i][db.run] > 0
      <4>1. paid[i][db.run] > 0 /\ db.run \in Passes
        BY <1>0, <3>1, RecordFields DEF Honest
      <4>. QED BY <1>0, <2>2, <4>1
    <3>. QED BY <2>0, <3>1 DEF Honest
  <2>. QED BY <2>0, <2>3, <2>4, <2>5, <2>6, HonestFrame
<1>11. ASSUME NEW r \in Runners, Snap(r) PROVE HonestInv'
  <2>1. UNCHANGED <<db, stale, request, paid>> /\ mem[r] \in Record
    BY <1>0, <1>11 DEF Snap
  <2>2. UNCHANGED mem \/ \E rec : Keep(r, rec) /\ Honest(rec)
    <3>1. mem[r].run \in Passes
      BY <2>1, RecordFields
    <3>2. \A s \in JobStatuses : Honest([db EXCEPT !.status = s])
      BY Zenon, <1>0, FollowsStatus, FollowsHonest
    <3>3. mem[r].run < Target => Honest(NextPass([db EXCEPT !.run = mem[r].run]))
      BY <1>0, <3>1, NextPassType DEF Honest
    <3>. QED BY SMTT(40), <1>11, <3>2, <3>3, OutcomeType DEF Snap, JobStatuses
  <2>3. CASE UNCHANGED mem
    BY <1>0, <1>1, <2>1, <2>3
  <2>. QED BY <1>7, <2>1, <2>2, <2>3
<1>12. ASSUME NEW r \in Runners, SaveStep(r) \/ Last(r) \/ RunError(r) PROVE HonestInv'
  <2>1. /\ UNCHANGED <<stale, request, paid>>
        /\ db' = db \/ (db' = mem[r] /\ pc[r] \notin {"idle", "load"})
        /\ UNCHANGED mem \/ Keep(r, Nothing)
    BY <1>12, SaveStepType DEF SaveStep, Last, RunError, Save
  <2>2. \A s \in Runners : mem'[s] \in {mem[s], Nothing}
    BY <2>1, Kept
  <2>. QED BY <1>0, <1>1, <2>1, <2>2
<1>13. CASE Age \/ Migrate \/ UNCHANGED vars
  <2>1. UNCHANGED <<db, mem, stale, request, paid>>
    BY <1>13 DEF Age, Migrate, vars, runner
  <2>. QED BY <1>0, <1>1, <2>1
<1>14. CASE Commit
  <2>1. db' = request /\ Honest(request) /\ request' = Nothing
    BY <1>14 DEF Commit, Save, HonestInv
  <2>. QED BY <1>1, <1>14, <2>1 DEF Commit, runner
<1>15. ASSUME NEW i \in Recipients, QueuePays(i) PROVE HonestInv'
  <2>1. \A j \in Recipients, n \in Passes : paid'[j][n] >= paid[j][n] /\ paid'[j][n] \in Nat
    BY <1>0, <1>15, QueuePaysType
  <2>2. UNCHANGED <<db, mem, stale, request>>
    BY <1>15 DEF QueuePays, runner
  <2>3. Honest(db)'
    <3>1. ASSUME NEW j \in Recipients, db.res[j] = "success" PROVE paid'[j][db.run] > 0
      <4>1. paid[j][db.run] > 0 /\ db.run \in Passes
        BY <1>0, <3>1, RecordFields DEF Honest
      <4>. QED BY <1>0, <2>1, <4>1
    <3>. QED BY <2>2, <3>1 DEF Honest
  <2>. QED BY <2>1, <2>2, <2>3, HonestFrame
<1>. QED
  BY <1>2, <1>3, <1>4, <1>5, <1>6, <1>8, <1>9, <1>10, <1>11, <1>12, <1>13, <1>14, <1>15
     DEF Next, TickStep, RunStep

LEMMA RecordInvariant == Spec => []RecordInv
<1>1. Init => RecordInv
  BY InitTyped, InitHonest DEF RecordInv
<1>2. RecordInv /\ [Next]_vars => RecordInv'
  BY TypedStep, HonestStep DEF RecordInv
<1>. QED BY <1>1, <1>2, PTL DEF Spec

\* The record keeps its shape, whoever writes which copy of it back.
THEOREM LegacyTypeOK == Spec => []TypeOK
<1>1. RecordInv => TypeOK
  BY DEF RecordInv, Typed
<1>. QED BY <1>1, RecordInvariant, PTL

\* A recipient the record calls paid was paid in the pass it names, for any
\* number of processes, runners, recipients and passes, whatever fails.
THEOREM SuccessIsPaid == Spec => []SuccessWasPaid
<1>1. RecordInv => SuccessWasPaid
  BY DEF RecordInv, HonestInv, Honest, SuccessWasPaid
<1>. QED BY <1>1, RecordInvariant, PTL

-----------------------------------------------------------------------------
(* Paid once. *)

\* A step that pays nobody, and leaves the record no further back.
Forward ==
    /\ UNCHANGED <<migrated, rows, paid>>
    /\ doubts <= doubts'
    /\ db.run <= db'.run
    /\ \A i \in Recipients, n \in Passes : Shown(i, n) => Shown(i, n)'

\* The numbers of the invariant.
LEMMA Numbers ==
  ASSUME Typed
  PROVE  /\ db \in Record /\ db.run \in Passes /\ db.run \in Nat /\ doubts \in Nat
         /\ \A i \in Recipients, n \in Passes : paid[i][n] \in Nat
         /\ \A r \in Runners : pc[r] \notin {"idle", "load"} =>
               mem[r] \in Record /\ mem[r].run \in Passes /\ mem[r].run \in Nat
         /\ \A n \in Passes : n \in Nat /\ n > 0
         /\ \A r \in Runners : todo[r] \subseteq Recipients
<1>1. db \in Record /\ \A r \in Runners : pc[r] \notin {"idle", "load"} => mem[r] \in Record
  BY DEF Typed, TypeOK
<1>2. \A rec \in Record : rec.run \in Passes
  BY RecordFields
<1>3. \A n \in Passes : n \in Nat /\ n > 0
  BY DEF Passes
<1>. QED BY <1>1, <1>2, <1>3 DEF Typed, TypeOK

\* A save that takes nothing back shows what the record showed.
LEMMA SaveForward ==
  ASSUME Typed, NEW rec \in Record, Save(rec), ~undone',
         UNCHANGED <<migrated, rows, paid>>, doubts <= doubts'
  PROVE  /\ Forward /\ db' = rec
         /\ \A i \in Recipients, n \in Passes : rec.run = n /\ rec.res[i] = "success" => Shown(i, n)'
<1>1. /\ db' = rec /\ ~(rec.run < db.run)
      /\ \A i \in Recipients : rec.run = db.run /\ db.res[i] = "success" => rec.res[i] = "success"
  BY DEF Save
<1>2. rec.run \in Nat /\ db.run \in Nat /\ rec.run >= db.run
  BY <1>1, Numbers, RecordFields
<1>3. ASSUME NEW i \in Recipients, NEW n \in Passes, Shown(i, n) PROVE Shown(i, n)'
  <2>1. n \in Nat
    BY Numbers
  <2>2. \/ rec.run > n \/ (rec.run = n /\ rec.res[i] = "success")
    BY <1>1, <1>2, <1>3, <2>1 DEF Shown
  <2>. QED BY <1>1, <2>2 DEF Shown
<1>. QED BY <1>1, <1>2, <1>3 DEF Forward, Shown

\* A step that leaves the record's pass and results alone.
LEMMA StayForward ==
  ASSUME Typed, UNCHANGED <<migrated, rows, paid>>, doubts <= doubts',
         db'.run = db.run, \A i \in Recipients : db'.res[i] = db.res[i]
  PROVE  Forward
  BY Numbers DEF Forward, Shown

\* A step forward in which every runner stays, rests or satisfies its part of the
\* invariant, and none forgets a payment that the record does not show.
LEMMA ForwardKeeps ==
  ASSUME Typed, Typed', Once, Forward,
         \A s \in Runners :
            \/ pc'[s] = pc[s] /\ mem'[s] = mem[s] /\ todo'[s] = todo[s]
            \/ pc'[s] \in {"idle", "last"}
            \/ /\ pc[s] \notin {"idle", "last"}
               /\ pc[s] = "load" => ~migrated
               /\ RunnerOK(s)',
         \A s \in Runners, i \in Recipients, n \in Passes :
            pc[s] = "record" /\ mem[s].run = n /\ mem[s].res[i] = "success" =>
               \/ doubts' > doubts
               \/ Shown(i, n)'
               \/ pc'[s] = "record" /\ mem'[s] = mem[s]
  PROVE  Once'
<1>1. /\ \A i \in Recipients, n \in Passes : paid'[i][n] = paid[i][n] /\ paid[i][n] \in Nat
      /\ db.run \in Nat /\ db'.run \in Nat /\ db.run <= db'.run
      /\ doubts \in Nat /\ doubts' \in Nat /\ doubts <= doubts'
      /\ migrated' = migrated /\ rows' = rows
      /\ \A n \in Passes : n \in Nat
      /\ \A r \in Runners : pc[r] \in InPass => mem[r].run \in Nat /\ mem[r].run \in Passes
      /\ \A r \in Runners : todo[r] \subseteq Recipients
  <2>1. db'.run \in Nat /\ doubts' \in Nat
    <3>1. db' \in Record /\ doubts' \in Nat
      BY DEF Typed, TypeOK
    <3>. QED BY <3>1, RecordFields DEF Passes
  <2>2. \A r \in Runners : pc[r] \in InPass => pc[r] \notin {"idle", "load"}
    BY DEF InPass
  <2>. QED BY <2>1, <2>2, Numbers DEF Forward
<1>2. OneRunner'
  <2>1. \A s \in Runners : pc[s] \in {"idle", "last"} => pc'[s] \in {"idle", "last"}
    OBVIOUS
  <2>2. \A s \in Runners : migrated /\ s \notin Sending => pc'[s] \in {"idle", "load", "last"}
    BY DEF Sending
  <2>. QED BY <1>1, <2>1, <2>2 DEF Once, OneRunner, Sending
<1>3. RunnerInv'
  <2>. SUFFICES ASSUME NEW s \in Runners, pc'[s] = pc[s], mem'[s] = mem[s], todo'[s] = todo[s],
                       pc[s] \in InPass
                PROVE  RunnerOK(s)'
    BY DEF RunnerInv, RunnerOK, InPass
  <2>1. RunnerOK(s)
    BY DEF Once, RunnerInv
  <2>2. ASSUME NEW i \in Recipients, NEW n \in Passes, n > mem[s].run PROVE paid'[i][n] = 0
    BY <1>1, <2>1, <2>2 DEF RunnerOK
  <2>3. ASSUME NEW i \in todo[s] PROVE paid'[i][mem[s].run] <= doubts'
    <3>1. i \in Recipients /\ mem[s].run \in Passes /\ paid[i][mem[s].run] <= doubts
      BY <1>1, <2>1 DEF RunnerOK
    <3>2. paid'[i][mem[s].run] = paid[i][mem[s].run] /\ paid[i][mem[s].run] \in Nat
      BY <1>1, <3>1
    <3>. QED BY <1>1, <3>1, <3>2
  <2>4. pc[s] # "pass" => mem[s].run <= db'.run
    BY <1>1, <2>1 DEF RunnerOK
  <2>. QED BY <2>2, <2>3, <2>4 DEF RunnerOK
<1>4. PastInv'
  BY <1>1 DEF Once, PastInv
<1>5. RowsInv'
  <2>1. ASSUME NEW i \in Recipients, rows[i] = "pending", NEW n \in Passes, n >= db'.run
        PROVE  paid'[i][n] <= doubts'
    <3>1. n >= db.run
      BY <1>1, <2>1
    <3>2. paid[i][n] <= doubts
      BY <2>1, <3>1 DEF Once, RowsInv
    <3>. QED BY <1>1, <3>2
  <2>. QED BY <1>1, <2>1 DEF Once, RowsInv
<1>6. PaidInv'
  <2>. SUFFICES ASSUME NEW i \in Recipients, NEW n \in Passes
                PROVE  paid'[i][n] <= doubts' + (IF Known(i, n)' THEN 1 ELSE 0)
    BY DEF PaidInv
  <2>1. paid[i][n] <= doubts + (IF Known(i, n) THEN 1 ELSE 0)
    BY DEF Once, PaidInv
  <2>2. Known(i, n) => Known(i, n)' \/ doubts' > doubts
    <3>1. CASE Shown(i, n)
      BY <3>1 DEF Forward, Known
    <3>2. CASE rows[i] = "completed"
      BY <1>1, <3>2 DEF Known
    <3>3. ASSUME NEW s \in Runners, pc[s] = "record", mem[s].run = n, mem[s].res[i] = "success"
          PROVE  Known(i, n)' \/ doubts' > doubts
      BY <3>3 DEF Known
    <3>. QED BY <3>1, <3>2, <3>3 DEF Known
  <2>. QED BY <1>1, <2>1, <2>2
<1>. QED BY <1>2, <1>3, <1>4, <1>5, <1>6 DEF Once

\* While a runner is under way no other one is.
LEMMA Alone ==
  ASSUME Once, NEW r \in Runners, pc[r] \notin {"idle", "last"}
  PROVE  /\ \A s \in Runners \ {r} : pc[s] \in {"idle", "last"}
         /\ pc[r] # "load" => ~migrated /\ \A i \in Recipients : rows[i] = "none"
  BY DEF Once, OneRunner, RowsInv, Sending

LEMMA InitOnce == Init => Once
<1>. SUFFICES ASSUME Init PROVE Once
  OBVIOUS
<1>1. \A i \in Recipients, n \in Passes : paid[i][n] = 0
  BY DEF Init
<1>2. \A r \in Runners : pc[r] \notin InPass
  BY DEF Init, InPass
<1>. QED BY <1>1, <1>2 DEF Init, Once, OneRunner, RunnerInv, RunnerOK, PastInv, RowsInv, PaidInv, Sending

\* A step that leaves everything of the invariant alone.
LEMMA OnceFrame ==
  ASSUME Once, UNCHANGED <<db, migrated, rows, pc, mem, todo, paid, doubts>>
  PROVE  Once'
  BY DEF Once, OneRunner, RunnerInv, RunnerOK, PastInv, RowsInv, PaidInv, Sending, Known, Shown

\* The claim finds no other runner under way.
LEMMA ClaimOnce ==
  ASSUME Typed, Typed', Once, NEW p \in Processes, Claim(p), ~overlap'
  PROVE  Once'
<1>1. PICK r \in Runners : pc[r] = "idle" /\ pc' = [pc EXCEPT ![r] = "load"]
  BY DEF Claim
<1>2. \A s \in Runners : pc[s] \in {"idle", "last"} /\ pc'[s] \in {"idle", "last", "load"}
                         /\ (s # r => pc'[s] \in {"idle", "last"})
  BY <1>1 DEF Claim, Typed, TypeOK
<1>3. ~migrated /\ UNCHANGED <<migrated, rows, mem, todo, paid, doubts>>
  BY DEF Claim, Due
<1>4. db' = [db EXCEPT !.status = "running", !.paused = FALSE] /\ db \in Record
  BY DEF Claim, Typed, TypeOK
<1>5. db'.run = db.run /\ db'.res = db.res
  BY <1>4 DEF Record
<1>6. OneRunner'
  BY <1>2, <1>3 DEF OneRunner
<1>7. RunnerInv'
  BY <1>2 DEF RunnerInv, RunnerOK, InPass
<1>8. PastInv' /\ RowsInv'
  BY <1>3, <1>5 DEF Once, PastInv, RowsInv
<1>9. PaidInv'
  <2>. SUFFICES ASSUME NEW i \in Recipients, NEW n \in Passes
                PROVE  paid'[i][n] <= doubts' + (IF Known(i, n)' THEN 1 ELSE 0)
    BY DEF PaidInv
  <2>1. Known(i, n) => Known(i, n)'
    BY <1>2, <1>3, <1>5 DEF Known, Shown
  <2>2. paid[i][n] <= doubts + (IF Known(i, n) THEN 1 ELSE 0)
    BY DEF Once, PaidInv
  <2>. QED BY <1>3, <2>1, <2>2, Numbers
<1>. QED BY <1>6, <1>7, <1>8, <1>9 DEF Once

\* Whom the runner finds unpaid at its second read was paid only where a fault
\* hid it.
LEMMA SecondOnce ==
  ASSUME Typed, Typed', Once, NEW r \in Runners, Second(r)
  PROVE  Once'
<1>1. pc[r] = "second" /\ UNCHANGED <<db, migrated, rows, paid, doubts>>
  BY DEF Second, history
<1>2. \A s \in Runners \ {r} : pc'[s] = pc[s] /\ mem'[s] = mem[s] /\ todo'[s] = todo[s]
  BY DEF Second, Goto, Keep, Typed, TypeOK
<1>3. Forward
  BY <1>1, StayForward, Numbers
<1>4. pc'[r] # "last" => RunnerOK(r)'
  <2>1. CASE pc'[r] = "quit"
    BY <2>1 DEF RunnerOK, InPass
  <2>2. CASE Keep(r, [db EXCEPT !.status = "running"]) /\ todo' = [todo EXCEPT ![r] = Unpaid(db)]
             /\ Goto(r, "start")
    <3>1. mem'[r] = [db EXCEPT !.status = "running"] /\ todo'[r] = Unpaid(db)
      BY <2>2, Kept DEF Typed, TypeOK
    <3>2. mem'[r].run = db.run
      BY <3>1, Numbers DEF Record
    <3>3. ASSUME NEW i \in Recipients, db.res[i] # "success" PROVE paid[i][db.run] <= doubts
      <4>1. ~Known(i, db.run)
        BY <1>1, <3>3, Alone, Numbers DEF Known, Shown
      <4>2. paid[i][db.run] <= doubts + 0
        BY <4>1, Numbers DEF Once, PaidInv
      <4>. QED BY <4>2, Numbers
    <3>4. \A i \in todo'[r] : i \in Recipients /\ db.res[i] # "success"
      BY <3>1 DEF Unpaid
    <3>. QED BY <1>1, <3>2, <3>3, <3>4, Numbers DEF RunnerOK, Once, PastInv
  <2>3. Goto(r, "quit") \/ Goto(r, "last") => pc'[r] \in {"quit", "last"}
    BY DEF Goto, Typed, TypeOK
  <2>. QED BY <2>1, <2>2, <2>3 DEF Second
<1>. QED BY <1>1, <1>2, <1>3, <1>4, ForwardKeeps

\* A wave keeps the pass of the runner.
LEMMA BeginWaveOnce ==
  ASSUME Typed, Typed', Once, NEW r \in Runners, BeginWave(r)
  PROVE  Once'
<1>1. pc[r] = "wave" /\ UNCHANGED <<db, migrated, rows, todo, paid, doubts>> /\ mem[r] \in Record
  BY DEF BeginWave, history, Typed
<1>2. \A s \in Runners \ {r} : pc'[s] = pc[s] /\ mem'[s] = mem[s] /\ todo'[s] = todo[s]
  BY DEF BeginWave, Goto, Keep, Typed, TypeOK
<1>3. Forward
  BY SMTT(40), <1>1, StayForward, Numbers
<1>4. \E rec : Keep(r, rec) /\ Follows(rec, mem[r])
  BY Zenon, <1>1, FollowsStatus, MarkType DEF BeginWave, JobStatuses
<1>5. mem'[r].run = mem[r].run
  BY <1>4, Kept DEF Follows
<1>6. pc'[r] \in {"stop", "mark"}
  BY DEF BeginWave, Goto, Typed, TypeOK
<1>7. RunnerOK(r)
  BY DEF Once, RunnerInv
<1>8. RunnerOK(r)'
  BY <1>1, <1>5, <1>6, <1>7 DEF RunnerOK, InPass
<1>. QED BY <1>1, <1>2, <1>3, <1>8, ForwardKeeps

\* A wave pays, once, whom the runner has still to pay, and knows it or doubts it.
LEMMA SendOnce ==
  ASSUME Typed, Typed', Once, NEW r \in Runners, Send(r)
  PROVE  Once'
<1>1. pc[r] = "send" /\ UNCHANGED <<db, migrated, rows>> /\ mem[r] \in Record
  BY DEF Send, Typed
<1>2. PICK accepted, known \in SUBSET Wave(r) : Sent(r, accepted, known)
  BY <1>1, SendType
<1>3. /\ doubts' \in Nat /\ doubts <= doubts'
      /\ known # accepted => doubts' = doubts + 1
  BY <1>2, Numbers DEF Sent
<1>4. /\ \A i \in Recipients, n \in Passes :
            paid'[i][n] = paid[i][n] + (IF i \in accepted /\ n = mem[r].run THEN 1 ELSE 0)
      /\ mem'[r].run = mem[r].run
      /\ \A i \in known : mem'[r].res[i] = "success"
  BY <1>2 DEF Sent
<1>5. /\ pc'[r] = "record" /\ todo'[r] = todo[r] \ Wave(r)
      /\ \A s \in Runners \ {r} : pc'[s] = pc[s] /\ mem'[s] = mem[s] /\ todo'[s] = todo[s]
  <2>1. \A s \in Runners \ {r} : mem'[s] = mem[s]
    BY <1>2, Kept DEF Sent
  <2>. QED BY <2>1 DEF Send, Goto, Typed, TypeOK
<1>6. /\ mem[r].run <= db.run
      /\ \A i \in Recipients, n \in Passes : n > mem[r].run => paid[i][n] = 0
      /\ \A i \in todo[r] : paid[i][mem[r].run] <= doubts
  BY <1>1 DEF Once, RunnerInv, RunnerOK, InPass
<1>7. accepted \subseteq todo[r] /\ accepted \subseteq Wave(r)
  BY DEF Wave
<1>8. /\ \A s \in Runners \ {r} : pc[s] \in {"idle", "last"}
      /\ ~migrated /\ \A i \in Recipients : rows[i] = "none"
  BY <1>1, Alone
<1>9. OneRunner'
  BY <1>1, <1>5, <1>8 DEF OneRunner
<1>10. RunnerInv'
  <2>1. ASSUME NEW i \in todo'[r] PROVE paid'[i][mem'[r].run] <= doubts'
    <3>1. i \in Recipients /\ i \in todo[r] /\ i \notin accepted /\ mem[r].run \in Passes
      BY <1>1, <1>5, <1>7, <2>1, Numbers
    <3>2. paid'[i][mem'[r].run] = paid[i][mem[r].run] + 0
      BY <1>4, <3>1
    <3>. QED BY <1>3, <1>6, <3>1, <3>2, Numbers
  <2>2. RunnerOK(r)'
    BY <1>1, <1>4, <1>6, <2>1, Numbers DEF RunnerOK
  <2>3. \A s \in Runners \ {r} : RunnerOK(s)'
    BY <1>5, <1>8 DEF RunnerOK, InPass
  <2>. QED BY <2>2, <2>3 DEF RunnerInv
<1>11. PastInv'
  BY <1>1, <1>4, <1>6, Numbers DEF Once, PastInv
<1>12. RowsInv'
  BY <1>1, <1>8 DEF RowsInv
<1>13. PaidInv'
  <2>. SUFFICES ASSUME NEW i \in Recipients, NEW n \in Passes
                PROVE  paid'[i][n] <= doubts' + (IF Known(i, n)' THEN 1 ELSE 0)
    BY DEF PaidInv
  <2>1. CASE i \in accepted /\ n = mem[r].run
    <3>1. paid'[i][n] = paid[i][n] + 1 /\ paid[i][n] <= doubts
      BY <1>4, <1>6, <1>7, <2>1
    <3>2. i \in known => Known(i, n)'
      BY <1>4, <1>5, <2>1 DEF Known
    <3>. QED BY <1>3, <2>1, <3>1, <3>2, Numbers
  <2>2. CASE ~(i \in accepted /\ n = mem[r].run)
    <3>1. paid'[i][n] = paid[i][n] + 0
      BY <1>4, <2>2
    <3>2. paid[i][n] <= doubts + (IF Known(i, n) THEN 1 ELSE 0)
      BY DEF Once, PaidInv
    <3>3. Known(i, n) => Known(i, n)'
      BY <1>1, <1>8 DEF Known, Shown
    <3>. QED BY <1>3, <3>1, <3>2, <3>3, Numbers
  <2>. QED BY <2>1, <2>2
<1>. QED BY <1>9, <1>10, <1>11, <1>12, <1>13 DEF Once

\* The next pass starts where nobody was paid.
LEMMA SnapOnce ==
  ASSUME Typed, Typed', Once, NEW r \in Runners, Snap(r)
  PROVE  Once'
<1>1. pc[r] \in {"snap", "wave"} /\ UNCHANGED <<db, migrated, rows, paid, doubts>> /\ mem[r] \in Record
  BY DEF Snap, history, Typed
<1>2. \A s \in Runners \ {r} : pc'[s] = pc[s] /\ mem'[s] = mem[s] /\ todo'[s] = todo[s]
  BY DEF Snap, Goto, Keep, Typed, TypeOK
<1>3. Forward
  BY <1>1, StayForward, Numbers
<1>4. pc'[r] # "last" => RunnerOK(r)'
  <2>1. CASE pc'[r] = "quit"
    BY <2>1 DEF RunnerOK, InPass
  <2>2. CASE /\ mem[r].run < Target
             /\ Keep(r, NextPass([db EXCEPT !.run = mem[r].run]))
             /\ todo' = [todo EXCEPT ![r] = Unpaid(NextPass([db EXCEPT !.run = mem[r].run]))]
             /\ Goto(r, "pass")
    <3>0. mem[r].run \in Passes /\ mem[r].run \in Nat
      BY <1>1, Numbers
    <3>1. mem'[r].run = mem[r].run + 1 /\ mem[r].run + 1 \in Passes /\ pc'[r] = "pass"
      <4>1. mem'[r] = NextPass([db EXCEPT !.run = mem[r].run]) /\ pc'[r] = "pass"
        BY <2>2, Kept, Moved DEF PCs
      <4>2. mem[r].run + 1 \in Passes
        BY <2>2, <3>0, LegacyAssumption DEF Passes
      <4>3. NextPass([db EXCEPT !.run = mem[r].run]).run = mem[r].run + 1
        BY <2>2, <3>0, NextPassType, Numbers
      <4>. QED BY <4>1, <4>2, <4>3
    <3>2. todo'[r] \subseteq Recipients
      BY DEF Typed, TypeOK
    <3>3. \A i \in Recipients, n \in Passes : n > mem[r].run => paid[i][n] = 0
      BY <1>1 DEF Once, RunnerInv, RunnerOK, InPass
    <3>4. \A i \in Recipients : paid[i][mem[r].run + 1] = 0
      BY <3>0, <3>1, <3>3
    <3>. QED BY <1>1, <3>0, <3>1, <3>2, <3>3, <3>4, Numbers DEF RunnerOK
  <2>3. Goto(r, "quit") \/ Goto(r, "last") => pc'[r] \in {"quit", "last"}
    BY DEF Goto, Typed, TypeOK
  <2>. QED BY <2>1, <2>2, <2>3 DEF Snap
<1>. QED BY <1>1, <1>2, <1>3, <1>4, ForwardKeeps

\* A save of a runner: the results it knows of are shown from then on.
LEMMA SaveStepOnce ==
  ASSUME Typed, Typed', Once, NEW r \in Runners, SaveStep(r), ~undone'
  PROVE  Once'
<1>1. /\ pc[r] \in {"start", "mark", "record", "stop", "pass", "quit"}
      /\ mem[r] \in Record /\ Save(mem[r])
  BY SaveStepType
<1>2. UNCHANGED <<migrated, rows, mem, todo, paid, doubts>>
  BY DEF SaveStep
<1>3. PICK rec \in Record : rec = mem[r]
  BY <1>1
<1>4. doubts <= doubts'
  BY <1>2, Numbers
<1>5. /\ Forward /\ db' = rec
      /\ \A i \in Recipients, n \in Passes : rec.run = n /\ rec.res[i] = "success" => Shown(i, n)'
  BY <1>1, <1>2, <1>3, <1>4, SaveForward
<1>6. /\ pc'[r] \in {"wave", "send", "snap", "last"} /\ \A s \in Runners \ {r} : pc'[s] = pc[s]
      /\ pc[r] = "quit" => pc'[r] = "last"
  BY SaveStepType DEF Goto, Typed, TypeOK
<1>7. pc'[r] # "last" => RunnerOK(r)'
  <2>1. CASE pc[r] = "quit"
    BY <1>6, <2>1
  <2>2. CASE pc[r] # "quit"
    <3>1. mem'[r].run <= db'.run
      BY <1>2, <1>3, <1>5, RecordFields, Numbers DEF Passes
    <3>2. RunnerOK(r) /\ pc[r] \in InPass
      BY <1>1, <2>2 DEF Once, RunnerInv, InPass
    <3>. QED BY <1>2, <3>1, <3>2 DEF RunnerOK
  <2>. QED BY <2>1, <2>2
<1>8. \A s \in Runners \ {r} : pc[s] # "record"
  BY <1>1, Alone
<1>9. \A s \in Runners, i \in Recipients, n \in Passes :
         pc[s] = "record" /\ mem[s].run = n /\ mem[s].res[i] = "success" => Shown(i, n)'
  BY <1>3, <1>5, <1>8
<1>10. pc[r] \notin {"idle", "last", "load"}
  BY <1>1
<1>11. \A s \in Runners :
         \/ pc'[s] = pc[s] /\ mem'[s] = mem[s] /\ todo'[s] = todo[s]
         \/ pc'[s] \in {"idle", "last"}
         \/ /\ pc[s] \notin {"idle", "last"}
            /\ pc[s] = "load" => ~migrated
            /\ RunnerOK(s)'
  BY <1>2, <1>6, <1>7, <1>10
<1>. QED BY <1>5, <1>9, <1>11, ForwardKeeps

LEMMA LastOnce ==
  ASSUME Typed, Typed', Once, NEW r \in Runners, Last(r), ~undone'
  PROVE  Once'
<1>1. pc[r] = "last" /\ mem[r] \in Record /\ UNCHANGED <<migrated, rows, paid>>
  BY DEF Last, Typed
<1>2. pc'[r] = "idle" /\ \A s \in Runners \ {r} : pc'[s] = pc[s] /\ mem'[s] = mem[s] /\ todo'[s] = todo[s]
  BY DEF Last, Goto, Keep, Typed, TypeOK
<1>3. doubts <= doubts'
  BY Numbers DEF Last
<1>4. Forward
  <2>1. CASE Save(mem[r])
    <3>1. PICK rec \in Record : rec = mem[r]
      BY <1>1
    <3>. QED BY <1>1, <1>3, <2>1, <3>1, SaveForward
  <2>2. CASE UNCHANGED db
    BY <1>1, <1>3, <2>2, StayForward, Numbers
  <2>. QED BY <2>1, <2>2 DEF Last
<1>. QED BY <1>1, <1>2, <1>4, ForwardKeeps

\* A copy of whose successes the record lacks none.
LEMMA AllSaved ==
  ASSUME Typed, Typed', Once, Forward, NEW r \in Runners, pc[r] = "record", ~Unsaved(r),
         NEW i \in Recipients, NEW n \in Passes, mem[r].run = n, mem[r].res[i] = "success"
  PROVE  Shown(i, n)'
<1>1. mem[r] \in Record /\ mem[r] # Nothing
  BY RecordFields DEF Typed
<1>2. mem[r].run <= db.run /\ db.res[i] = "success"
  BY <1>1 DEF Once, RunnerInv, RunnerOK, InPass, Unsaved
<1>3. Shown(i, n)
  BY <1>2, Numbers DEF Shown
<1>. QED BY <1>3 DEF Forward

\* What a failing run or a dying process leaves unsaved is doubted.
LEMMA RunErrorOnce ==
  ASSUME Typed, Typed', Once, NEW r \in Runners, RunError(r)
  PROVE  Once'
<1>1. /\ pc[r] \notin {"idle", "send", "last"} /\ UNCHANGED <<db, migrated, rows, mem, paid>>
      /\ doubts' = IF Unsaved(r) THEN doubts + 1 ELSE doubts
  BY DEF RunError
<1>2. /\ pc'[r] \in {"idle", "last"}
      /\ \A s \in Runners \ {r} : pc'[s] = pc[s] /\ mem'[s] = mem[s] /\ todo'[s] = todo[s]
  BY DEF RunError, Goto, Typed, TypeOK
<1>3. Forward
  BY <1>1, StayForward, Numbers
<1>4. \A s \in Runners, i \in Recipients, n \in Passes :
         pc[s] = "record" /\ mem[s].run = n /\ mem[s].res[i] = "success" =>
            doubts' > doubts \/ Shown(i, n)' \/ (pc'[s] = "record" /\ mem'[s] = mem[s])
  BY <1>1, <1>2, <1>3, AllSaved, Numbers
<1>. QED BY <1>2, <1>3, <1>4, ForwardKeeps

LEMMA CrashOnce ==
  ASSUME Typed, Typed', Once, NEW p \in Processes, Crash(p)
  PROVE  Once'
<1>1. /\ UNCHANGED <<db, migrated, rows, paid>>
      /\ doubts' = IF \E r \in Runners : Process[r] = p /\ Unsaved(r) THEN doubts + 1 ELSE doubts
  BY DEF Crash
<1>2. \A s \in Runners : \/ Process[s] = p /\ pc'[s] = "idle"
                         \/ pc'[s] = pc[s] /\ mem'[s] = mem[s] /\ todo'[s] = todo[s]
  BY CrashType
<1>3. Forward
  BY <1>1, StayForward, Numbers
<1>4. \A s \in Runners, i \in Recipients, n \in Passes :
         pc[s] = "record" /\ mem[s].run = n /\ mem[s].res[i] = "success" =>
            doubts' > doubts \/ Shown(i, n)' \/ (pc'[s] = "record" /\ mem'[s] = mem[s])
  BY <1>1, <1>2, <1>3, AllSaved, Numbers
<1>. QED BY <1>2, <1>3, <1>4, ForwardKeeps

\* The migration finds no runner at work, and pending are those whom the record
\* does not call paid.
LEMMA MigrateOnce ==
  ASSUME Typed, Typed', Once, Migrate, ~overlap'
  PROVE  Once'
<1>1. /\ ~migrated /\ UNCHANGED <<db, pc, mem, todo, paid, doubts>>
      /\ rows' = [i \in Recipients |-> WalletRowStatus(db.res[i])]
      /\ Sending = {}
  BY DEF Migrate, runner
<1>2. \A r \in Runners : pc[r] \notin InPass
  BY <1>1 DEF Sending, InPass
<1>3. OneRunner'
  BY <1>1 DEF Once, OneRunner, Sending
<1>4. RunnerInv' /\ PastInv'
  BY <1>1, <1>2 DEF Once, PastInv, RunnerInv, RunnerOK
<1>5. \A i \in Recipients, n \in Passes : Known(i, n) <=> Shown(i, n)
  BY <1>1, <1>2 DEF Once, RowsInv, Known, InPass
<1>6. RowsInv'
  <2>. SUFFICES ASSUME NEW i \in Recipients, rows'[i] = "pending", NEW n \in Passes, n >= db.run
                PROVE  paid[i][n] <= doubts
    BY <1>1 DEF Migrate, RowsInv
  <2>1. db.res[i] # "success"
    BY <1>1 DEF WalletRowStatus
  <2>2. CASE n = db.run
    <3>1. ~Known(i, n)
      BY <1>5, <2>1, <2>2, Numbers DEF Shown
    <3>2. paid[i][n] <= doubts + 0
      BY <3>1 DEF Once, PaidInv
    <3>. QED BY <3>2, Numbers
  <2>3. CASE n # db.run
    BY <2>3, Numbers DEF Once, PastInv
  <2>. QED BY <2>2, <2>3
<1>7. PaidInv'
  <2>. SUFFICES ASSUME NEW i \in Recipients, NEW n \in Passes
                PROVE  paid[i][n] <= doubts + (IF Known(i, n)' THEN 1 ELSE 0)
    BY <1>1 DEF PaidInv
  <2>1. Known(i, n) => Known(i, n)'
    BY <1>1, <1>5 DEF Known, Shown
  <2>2. paid[i][n] <= doubts + (IF Known(i, n) THEN 1 ELSE 0)
    BY DEF Once, PaidInv
  <2>. QED BY <2>1, <2>2, Numbers
<1>. QED BY <1>3, <1>4, <1>6, <1>7 DEF Once

\* The queue pays a pending row, once.
LEMMA QueuePaysOnce ==
  ASSUME Typed, Typed', Once, NEW i \in Recipients, QueuePays(i)
  PROVE  Once'
<1>1. /\ rows[i] = "pending" /\ UNCHANGED <<db, migrated, pc, mem, todo, doubts>>
      /\ rows' = [rows EXCEPT ![i] = "completed"]
  BY DEF QueuePays, runner, history
<1>2. \A j \in Recipients, n \in Passes :
         paid'[j][n] = paid[j][n] + (IF j = i /\ n = db.run THEN 1 ELSE 0)
  BY QueuePaysType
<1>3. migrated /\ \A r \in Runners : pc[r] \notin InPass
  BY <1>1 DEF Once, OneRunner, RowsInv, Sending, InPass
<1>4. rows'[i] = "completed" /\ \A j \in Recipients \ {i} : rows'[j] = rows[j]
  BY <1>1 DEF Typed, TypeOK
<1>5. OneRunner'
  BY <1>1 DEF Once, OneRunner, Sending
<1>6. RunnerInv'
  BY <1>1, <1>3 DEF RunnerInv, RunnerOK
<1>7. PastInv'
  BY <1>1, <1>2, Numbers DEF Once, PastInv
<1>8. RowsInv'
  <2>. SUFFICES ASSUME NEW j \in Recipients \ {i}, rows[j] = "pending", NEW n \in Passes, n >= db.run
                PROVE  paid'[j][n] <= doubts
    BY <1>1, <1>3, <1>4 DEF RowsInv
  <2>. QED BY <1>2, Numbers DEF Once, RowsInv
<1>9. PaidInv'
  <2>. SUFFICES ASSUME NEW j \in Recipients, NEW n \in Passes
                PROVE  paid'[j][n] <= doubts + (IF Known(j, n)' THEN 1 ELSE 0)
    BY <1>1 DEF PaidInv
  <2>1. CASE j = i /\ n = db.run
    <3>1. paid[i][n] <= doubts /\ Known(i, n)'
      BY <1>1, <1>4, <2>1, Numbers DEF Once, RowsInv, Known
    <3>. QED BY <1>2, <2>1, <3>1, Numbers
  <2>2. CASE ~(j = i /\ n = db.run)
    <3>1. Known(j, n) => Known(j, n)'
      BY <1>1, <1>3, <1>4 DEF Known, Shown, InPass
    <3>2. paid[j][n] <= doubts + (IF Known(j, n) THEN 1 ELSE 0)
      BY DEF Once, PaidInv
    <3>. QED BY <1>2, <2>2, <3>1, <3>2, Numbers
  <2>. QED BY <2>1, <2>2
<1>. QED BY <1>5, <1>6, <1>7, <1>8, <1>9 DEF Once

\* The saves of the tick and of the routes.
LEMMA OthersSaveOnce ==
  ASSUME Typed, Typed', Once, NEW rec \in Record, Save(rec), ~undone',
         UNCHANGED <<migrated, rows, pc, mem, todo, paid, doubts>>
  PROVE  Once'
<1>1. doubts <= doubts'
  BY Numbers
<1>2. Forward
  BY <1>1, SaveForward
<1>. QED BY <1>2, ForwardKeeps

LEMMA OnceStep == Typed /\ Typed' /\ OnceInv /\ [Next]_vars => OnceInv'
<1>. SUFFICES ASSUME Typed, Typed', OnceInv, [Next]_vars, ~overlap', ~undone' PROVE Once'
  BY SMTT(40) DEF OnceInv
<1>0. ~overlap /\ ~undone
  BY ZenonT(40) DEF Next, TickStep, RunStep, ListStale, Requeue, Claim, Save, Crash, Resume, Start, QueueAgain, Ask,
         Load, NoKey, Second, BeginWave, Send, Snap, SaveStep, Last, RunError, Age, Pause, Cancel,
         Commit, Migrate, QueuePays, history, vars, Typed
<1>. USE <1>0 DEF OnceInv
<1>1. ASSUME NEW p \in Processes, ListStale(p) PROVE Once'
  BY <1>1, OnceFrame DEF ListStale, runner, history
<1>2. ASSUME NEW p \in Processes, Requeue(p) PROVE Once'
  BY <1>2, OthersSaveOnce DEF Requeue, runner, Typed, TypeOK
<1>3. CASE Commit
  BY <1>3, OthersSaveOnce DEF Commit, runner, Typed, TypeOK
<1>4. ASSUME \/ Pause \/ Cancel
             \/ \E p \in Processes : Resume(p) \/ Start(p) \/ QueueAgain(p)
      PROVE  Once'
  BY <1>4, Asked, OnceFrame DEF runner, history
<1>5. CASE Age
  BY <1>5, OnceFrame DEF Age, runner, history
<1>6. ASSUME NEW r \in Runners, Load(r) \/ NoKey(r) PROVE Once'
  <2>1. pc[r] = "load" /\ UNCHANGED <<db, migrated, rows, paid, doubts>>
    BY <1>6 DEF Load, NoKey, history
  <2>2. \A s \in Runners \ {r} : pc'[s] = pc[s] /\ mem'[s] = mem[s] /\ todo'[s] = todo[s]
    BY <1>6 DEF Load, NoKey, Goto, Keep, Typed, TypeOK
  <2>3. pc'[r] = "last" \/ (pc'[r] \in {"second", "quit"} /\ ~migrated)
    BY <1>6 DEF Load, NoKey, Goto, Typed, TypeOK
  <2>4. Forward
    BY <2>1, StayForward, Numbers
  <2>5. pc'[r] \in {"second", "quit"} => RunnerOK(r)'
    BY DEF RunnerOK, InPass
  <2>. QED BY <2>1, <2>2, <2>3, <2>4, <2>5, ForwardKeeps
<1>. QED
  BY <1>1, <1>2, <1>3, <1>4, <1>5, <1>6, ClaimOnce, CrashOnce, SecondOnce, BeginWaveOnce, SendOnce,
     SnapOnce, SaveStepOnce, LastOnce, RunErrorOnce, MigrateOnce, QueuePaysOnce, OnceFrame
     DEF Next, TickStep, RunStep, vars, runner, history

\* As long as no two runners send at once, and no stale copy takes a success
\* back, each transfer of a recipient in a pass but one answers to a fault that
\* hid a payment, for any number of processes, runners, recipients and passes.
THEOREM PaidOnce == Spec => []PaidOncePerDoubt
<1>1. Init => LegacyInv
  BY InitTyped, InitHonest, InitOnce DEF LegacyInv, RecordInv, OnceInv
<1>2. LegacyInv /\ [Next]_vars => LegacyInv'
  BY TypedStep, HonestStep, OnceStep DEF LegacyInv, RecordInv
<1>3. LegacyInv => PaidOncePerDoubt
  <2>. SUFFICES ASSUME LegacyInv, ~overlap, ~undone, NEW i \in Recipients, NEW n \in Passes
                PROVE  paid[i][n] <= 1 + doubts
    BY DEF PaidOncePerDoubt
  <2>1. paid[i][n] <= doubts + (IF Known(i, n) THEN 1 ELSE 0)
    BY DEF LegacyInv, OnceInv, Once, PaidInv
  <2>. QED BY <2>1, Numbers DEF LegacyInv, RecordInv
<1>. QED BY <1>1, <1>2, <1>3, PTL DEF Spec
=============================================================================
