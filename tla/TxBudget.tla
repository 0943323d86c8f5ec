------------------------------- MODULE TxBudget -------------------------------
(***************************************************************************)
(* The send rate limiter: before each send a worker loop takes a slot of   *)
(* the minute from two Redis counters, the global one and its signer's;    *)
(* without Redis it counts completed rows in PostgreSQL and reserves in    *)
(* snapshots its process shares; after 90 seconds it sends anyway.  Every  *)
(* await is a step boundary.                                               *)
(***************************************************************************)
EXTENDS Integers, Sequences, FiniteSets, Functions

CONSTANTS
    Loops,      \* worker loops
    Processes,
    Process,    \* per loop: the process whose module state it shares
    Signers,
    Global,     \* the key of the global cap, beside those of the signers
    Limit,      \* per key: globalTxsPerMinuteLimit, signerTxsPerMinuteLimit
    MaxMinute,  \* bound: minutes that pass
    MaxCalls,   \* bound: calls of acquireTxSendBudget
    MaxFaults,  \* bound: sendings of a Redis command whose effect or answer is lost
    MaxSnaps    \* bound: counts read from PostgreSQL

Keys == Signers \cup {Global}
Minutes == 0 .. MaxMinute

ASSUME BudgetAssumption ==
    /\ Process \in [Loops -> Processes]
    /\ Global \notin Signers
    /\ Limit \in [Keys -> Nat \ {0}]
    /\ MaxMinute \in Nat
    /\ MaxCalls \in Nat
    /\ MaxFaults \in Nat
    /\ MaxSnaps \in Nat
    /\ IsFiniteSet(Loops)

VARIABLES
    minute,   \* the clock: minuteBucket()
    count,    \* per key and minute: the counter in Redis
    snaps,    \* the snapshot objects made so far
    current,  \* per process and key: globalPgBudget, signerPgBudgets; 0 if none
    sent,     \* per signer: calls that returned, each before one send
    pc,       \* per loop
    signer,   \* per loop: the signer it sends from
    started,  \* per loop: the minute of its call
    bucket,   \* per loop: the minutes in gKey and in sKey
    key,      \* per loop: the key whose snapshot it wants
    reading,  \* per loop: existing and bucket when it began to count
    held,     \* per loop: the snapshots gc and sc, 0 if none
    calls,
    faults,
    lost,     \* history, per minute: faults of calls on its global key
    granted,  \* history, per key and minute: grants of Redis
    softly,   \* history, per process, key and minute: grants of the fallback
    dropped   \* history, likewise: reservations a concurrent refresh forgot

redis   == <<count, granted, lost>>
budget  == <<snaps, current, softly, dropped>>
call    == <<signer, started, calls>>
soft    == <<key, reading, held>>
vars == <<minute, redis, budget, sent, pc, call, bucket, soft, faults>>

PCs == {"idle", "top", "signerKey", "globalTry", "signerTry", "release",
        "releaseSoft", "count", "store", "check"}

Snapshot == [bucket : Minutes, completed : Nat, reserved : Nat]

Init ==
    /\ minute  = 0
    /\ count   = [k \in Keys |-> [m \in Minutes |-> 0]]
    /\ snaps   = <<>>
    /\ current = [p \in Processes |-> [k \in Keys |-> 0]]
    /\ sent    = [s \in Signers |-> 0]
    /\ pc      = [l \in Loops |-> "idle"]
    /\ signer  \in {[l \in Loops |-> s] : s \in Signers}
    /\ started = [l \in Loops |-> 0]
    /\ bucket  = [l \in Loops |-> [g |-> 0, s |-> 0]]
    /\ key     = [l \in Loops |-> Global]
    /\ reading = [l \in Loops |-> [existing |-> 0, bucket |-> 0]]
    /\ held    = [l \in Loops |-> [g |-> 0, s |-> 0]]
    /\ calls   = 0
    /\ faults  = 0
    /\ lost    = [m \in Minutes |-> 0]
    /\ granted = [k \in Keys |-> [m \in Minutes |-> 0]]
    /\ softly  = [p \in Processes |-> [k \in Keys |-> [m \in Minutes |-> 0]]]
    /\ dropped = [p \in Processes |-> [k \in Keys |-> [m \in Minutes |-> 0]]]

Goto(l, where) == pc' = [pc EXCEPT ![l] = where]

\* The variables of an iteration go out of scope.
Forget(l) ==
    /\ bucket' = [bucket EXCEPT ![l] = [g |-> 0, s |-> 0]]
    /\ key' = [key EXCEPT ![l] = Global]
    /\ reading' = [reading EXCEPT ![l] = [existing |-> 0, bucket |-> 0]]
    /\ held' = [held EXCEPT ![l] = [g |-> 0, s |-> 0]]

\* sleep, continue.
Again(l) == Goto(l, "top") /\ Forget(l)

\* The call returns: its loop sends.
Return(l) ==
    /\ Goto(l, "idle")
    /\ Forget(l)
    /\ sent' = [sent EXCEPT ![signer[l]] = @ + 1]

\* A worker is about to send a row of some signer.
Call(l) ==
    /\ pc[l] = "idle"
    /\ calls < MaxCalls
    /\ minute < MaxMinute
    /\ \E s \in Signers : signer' = [signer EXCEPT ![l] = s]
    /\ calls' = calls + 1
    /\ started' = [started EXCEPT ![l] = minute]
    /\ Goto(l, "top")
    /\ UNCHANGED <<minute, redis, budget, sent, bucket, soft, faults>>

\* Mutant of Overdue: the call waits without a limit.
OverdueNever(l) == FALSE

\* 90 s have passed since the call, so its minute is over.
Overdue(l) == minute > started[l]

\* "sending anyway".
SendAnyway(l) ==
    /\ pc[l] = "top"
    /\ Overdue(l)
    /\ Return(l)
    /\ UNCHANGED <<minute, redis, budget, call, faults>>

\* The two keys of an iteration are made one after the other.
GlobalKey(l) ==
    /\ pc[l] = "top"
    /\ bucket' = [bucket EXCEPT ![l].g = minute]
    /\ Goto(l, "signerKey")
    /\ UNCHANGED <<minute, redis, budget, sent, call, soft, faults>>

SignerKey(l) ==
    /\ pc[l] = "signerKey"
    /\ bucket' = [bucket EXCEPT ![l].s = minute]
    /\ Goto(l, "globalTry")
    /\ UNCHANGED <<minute, redis, budget, sent, call, soft, faults>>

-----------------------------------------------------------------------------
(* Redis. *)

HasSlot(k, m) == count[k][m] < Limit[k]

Incr(k, m) == count' = [count EXCEPT ![k][m] = @ + 1]

Fault == faults < MaxFaults /\ faults' = faults + 1

\* The fallback begins with the global snapshot.
ToSoft(l) ==
    /\ Goto(l, "count")
    /\ key' = [key EXCEPT ![l] = Global]
    /\ bucket' = [bucket EXCEPT ![l] = [g |-> 0, s |-> 0]]
    /\ UNCHANGED <<reading, held>>

\* The script runs, or it gives no answer: there is no client, or it gave up.
GlobalTry(l) ==
    LET m == bucket[l].g IN
    /\ pc[l] = "globalTry"
    /\ \/ HasSlot(Global, m) /\ Incr(Global, m) /\ Goto(l, "signerTry") /\ UNCHANGED <<bucket, soft>>
       \/ ~HasSlot(Global, m) /\ UNCHANGED count /\ Again(l)
       \/ UNCHANGED count /\ ToSoft(l)
    /\ UNCHANGED <<minute, granted, lost, budget, sent, call, faults>>

SignerTaken(l) ==
    LET m == bucket[l].s IN
    /\ pc[l] = "signerTry"
    /\ HasSlot(signer[l], m)
    /\ Incr(signer[l], m)
    /\ granted' = [granted EXCEPT ![Global][bucket[l].g] = @ + 1, ![signer[l]][m] = @ + 1]
    /\ Return(l)
    /\ UNCHANGED <<minute, lost, budget, call, faults>>

SignerRefused(l) ==
    /\ pc[l] = "signerTry"
    /\ \/ ~HasSlot(signer[l], bucket[l].s) /\ Goto(l, "release")
       \/ Goto(l, "releaseSoft")
    /\ UNCHANGED <<minute, redis, budget, sent, call, bucket, soft, faults>>

\* Mutant of Freed: the key is made again, perhaps in the next minute.
FreedNow(l) == [count EXCEPT ![Global][minute] = @ - 1]

\* Mutant of Freed: the slot is given back only if the signer was refused.
FreedOnRefusal(l) ==
    IF pc[l] = "release" THEN [count EXCEPT ![Global][bucket[l].g] = @ - 1] ELSE count

\* DECR of the key that was taken.
Freed(l) == [count EXCEPT ![Global][bucket[l].g] = @ - 1]

Lose(m) == lost' = [lost EXCEPT ![m] = @ + 1]

\* safeRedisDecr: its failure is swallowed.
Release(l) ==
    /\ pc[l] \in {"release", "releaseSoft"}
    /\ \/ count' = Freed(l) /\ UNCHANGED <<lost, faults>>
       \/ Fault /\ Lose(bucket[l].g) /\ UNCHANGED count
    /\ IF pc[l] = "release" THEN Again(l) ELSE ToSoft(l)
    /\ UNCHANGED <<minute, granted, budget, sent, call>>

\* A command took effect but the connection lost its answer: ioredis reconnects
\* and, as is its default, sends it again.
Resend(l) ==
    LET m == bucket[l].g
        n == bucket[l].s
        s == signer[l]
    IN
    /\ \/ pc[l] = "globalTry" /\ HasSlot(Global, m) /\ Incr(Global, m) /\ Lose(m)
       \/ pc[l] = "signerTry" /\ HasSlot(s, n) /\ Incr(s, n) /\ UNCHANGED lost
       \/ pc[l] \in {"release", "releaseSoft"} /\ count' = Freed(l) /\ Lose(m)
    /\ Fault
    /\ UNCHANGED <<minute, granted, budget, sent, pc, call, bucket, soft>>

-----------------------------------------------------------------------------
(* The PostgreSQL fallback. *)

Mine(l) == current[Process[l]][key[l]]

Hold(l, i) ==
    held' = [held EXCEPT ![l] = IF key[l] = Global THEN [@ EXCEPT !.g = i] ELSE [@ EXCEPT !.s = i]]

\* pgBudgetSnapshot: a snapshot of this minute that is fresh enough is shared ...
Reuse(l) ==
    /\ pc[l] = "count"
    /\ Mine(l) # 0
    /\ snaps[Mine(l)].bucket = minute
    /\ Hold(l, Mine(l))
    /\ Goto(l, "check")
    /\ UNCHANGED <<minute, redis, budget, sent, call, bucket, key, reading, faults>>

\* ... and otherwise the completed rows are counted, which takes a while.
BeginCount(l) ==
    /\ pc[l] = "count"
    /\ Len(snaps) < MaxSnaps
    /\ reading' = [reading EXCEPT ![l] = [existing |-> Mine(l), bucket |-> minute]]
    /\ Goto(l, "store")
    /\ UNCHANGED <<minute, redis, budget, sent, call, bucket, key, held, faults>>

\* What the query may find: sends that completed by now, are not fund transfers,
\* and are not older than 60 s.
Counted(k) == 0 .. (IF k = Global THEN SumFunction(sent) ELSE sent[k])

\* The reservations a refresh takes over.
Inherited(l) ==
    LET r == reading[l] IN
    IF r.existing # 0 /\ snaps[r.existing].bucket = r.bucket THEN snaps[r.existing].reserved ELSE 0

\* What a refresh loses: reservations of its minute that it does not take over,
\* for another refresh was stored since it looked, or an older one too late.
Forgotten(l) ==
    LET m == reading[l].bucket
        live == softly[Process[l]][key[l]][m] - dropped[Process[l]][key[l]][m]
    IN IF live > Inherited(l) THEN live - Inherited(l) ELSE 0

Store(l) ==
    LET p == Process[l] IN
    /\ pc[l] = "store"
    /\ Len(snaps) < MaxSnaps
    /\ \E n \in Counted(key[l]) :
           snaps' = Append(snaps, [bucket |-> reading[l].bucket, completed |-> n,
                                   reserved |-> Inherited(l)])
    /\ current' = [current EXCEPT ![p][key[l]] = Len(snaps')]
    /\ dropped' = [dropped EXCEPT ![p][key[l]][reading[l].bucket] = @ + Forgotten(l)]
    /\ Hold(l, Len(snaps'))
    /\ reading' = [reading EXCEPT ![l] = [existing |-> 0, bucket |-> 0]]
    /\ Goto(l, "check")
    /\ UNCHANGED <<minute, redis, softly, sent, call, bucket, key, faults>>

\* There is no connection, or the count fails: the error leaves the call and its
\* loop, and nothing is sent.
CountFails(l) ==
    /\ pc[l] \in {"count", "store"}
    /\ Goto(l, "idle") /\ Forget(l)
    /\ UNCHANGED <<minute, redis, budget, sent, call, faults>>

\* Mutant of Full: the cap itself is still free.
FullBeyond(k, i) == snaps[i].completed + snaps[i].reserved > Limit[k]

Full(k, i) == snaps[i].completed + snaps[i].reserved >= Limit[k]

GlobalCheck(l) ==
    /\ pc[l] = "check"
    /\ key[l] = Global
    /\ \/ Full(Global, held[l].g) /\ Again(l)
       \/ /\ ~Full(Global, held[l].g)
          /\ Goto(l, "count")
          /\ key' = [key EXCEPT ![l] = signer[l]]
          /\ UNCHANGED <<bucket, reading, held>>
    /\ UNCHANGED <<minute, redis, budget, sent, call, faults>>

SignerFull(l) ==
    /\ pc[l] = "check"
    /\ key[l] # Global
    /\ Full(signer[l], held[l].s)
    /\ Again(l)
    /\ UNCHANGED <<minute, redis, budget, sent, call, faults>>

\* gc.reserved++; sc.reserved++, with no second look at gc.
Reserve(l) ==
    LET p == Process[l]
        g == held[l].g
        s == held[l].s
        n == signer[l]
        orphan(k, i) == IF current[p][k] = i THEN 0 ELSE 1
    IN
    /\ pc[l] = "check"
    /\ key[l] # Global
    /\ ~Full(n, s)
    /\ snaps' = [snaps EXCEPT ![g].reserved = @ + 1, ![s].reserved = @ + 1]
    /\ softly' = [softly EXCEPT ![p][Global][snaps[g].bucket] = @ + 1, ![p][n][snaps[s].bucket] = @ + 1]
    /\ dropped' = [dropped EXCEPT ![p][Global][snaps[g].bucket] = @ + orphan(Global, g),
                                  ![p][n][snaps[s].bucket] = @ + orphan(n, s)]
    /\ Return(l)
    /\ UNCHANGED <<minute, redis, current, call, faults>>

-----------------------------------------------------------------------------
(* The clock. *)

Tick ==
    /\ minute < MaxMinute
    /\ minute' = minute + 1
    /\ UNCHANGED <<redis, budget, sent, pc, call, bucket, soft, faults>>

LoopStep(l) ==
    \/ GlobalKey(l)
    \/ SignerKey(l)
    \/ GlobalTry(l)
    \/ SignerTaken(l)
    \/ SignerRefused(l)
    \/ Release(l)
    \/ Reuse(l)
    \/ BeginCount(l)
    \/ Store(l)
    \/ CountFails(l)
    \/ GlobalCheck(l)
    \/ SignerFull(l)
    \/ Reserve(l)

Next ==
    \/ \E l \in Loops : Call(l) \/ SendAnyway(l) \/ LoopStep(l) \/ Resend(l)
    \/ Tick

Spec == Init /\ [][Next]_vars

\* Time passes, awaits return, and an overdue call that tests the deadline again
\* and again finds it passed.
FairSpec ==
    /\ Spec
    /\ WF_vars(Tick)
    /\ \A l \in Loops : WF_vars(LoopStep(l)) /\ SF_vars(SendAnyway(l))

-----------------------------------------------------------------------------
(* Properties. *)

\* Every variable has the shape the limiter gives it.
TypeOK ==
    /\ minute \in Minutes
    /\ count \in [Keys -> [Minutes -> Int]]
    /\ snaps \in Seq(Snapshot)
    /\ current \in [Processes -> [Keys -> 0 .. Len(snaps)]]
    /\ pc \in [Loops -> PCs]
    /\ signer \in [Loops -> Signers]
    /\ started \in [Loops -> Minutes]
    /\ bucket \in [Loops -> [g : Minutes, s : Minutes]]
    /\ key \in [Loops -> Keys]
    /\ held \in [Loops -> [g : 0 .. Len(snaps), s : 0 .. Len(snaps)]]
    /\ granted \in [Keys -> [Minutes -> Nat]]
    /\ lost \in [Minutes -> Nat]

\* The loops that hold a global slot of minute m and have no grant yet.
Holding(m) ==
    {l \in Loops : pc[l] \in {"signerTry", "release", "releaseSoft"} /\ bucket[l].g = m}

\* Redis grants no more sends of a minute than the caps, whatever minute it is
\* when a slot is given back: exactly for a signer; the global cap is exceeded
\* only by the calls on its key of that minute that lost an answer or failed,
\* for a DECR sent again gives back a slot that another loop holds.
RedisWithinLimit ==
    /\ \A s \in Signers, m \in Minutes : granted[s][m] <= Limit[s]
    /\ \A m \in Minutes : granted[Global][m] <= Limit[Global] + lost[m]

\* Not kept: the global cap itself.
RedisNeverAbove == \A m \in Minutes : granted[Global][m] <= Limit[Global]

\* A slot that no send used is given back, but for as many calls on its key that
\* lost an answer or failed: refusals of a signer do not eat the cap of the others.
NoSlotLost ==
    \A m \in Minutes : count[Global][m] - granted[Global][m] - Cardinality(Holding(m)) <= lost[m]

OthersOf(p) == Cardinality({l \in Loops : Process[l] = p}) - 1

\* Without Redis a process keeps the cap of a signer in every minute, for it
\* checks and reserves it in one go, and exceeds the global cap only by the loops
\* that had passed its check before; more only if concurrent refreshes forget
\* reservations.
FallbackOvershoot ==
    \A p \in Processes, k \in Keys, m \in Minutes :
        LET beyond == softly[p][k][m] - Limit[k] - dropped[p][k][m] IN
        beyond > 0 => k = Global /\ beyond <= OthersOf(p)

\* Every call comes to an end, whatever the caps and Redis do: a row in hand is
\* sent or its loop fails.
AcquireEnds == \A l \in Loops : pc[l] # "idle" ~> pc[l] = "idle"
=============================================================================
