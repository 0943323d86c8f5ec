----------------------------- MODULE RuntimeFlags -----------------------------
(***************************************************************************)
(* The runtime settings of the queue: one row of PostgreSQL, a copy of it in *)
(* Redis that lives two seconds, and a cache in every process.  Requests of  *)
(* the dashboard change the row; worker loops look at the cache before every *)
(* claim.  A process of the web app starts and stops its own loops, a        *)
(* standalone worker has one; a watchdog restarts a worker that shows no     *)
(* sign of life.                                                           *)
(***************************************************************************)
EXTENDS Integers, FiniteSets, TLC

CONSTANTS
    Apps,         \* processes of the web app
    Workers,      \* processes of the standalone worker
    Slots,        \* bound: loops that run or drain at a time
    Requests,     \* bound: PATCH requests at a time
    Process,      \* per slot and request
    Patches,      \* what a request may set: functions from some fields to values
    MaxLoops,     \* the most loops a process may be told to run
    Nothing,      \* no copy, a cleared cache
    MaxPatches,   \* bound: requests, and graceful stops of a worker
    MaxFaults     \* bound: failed calls, deaths, batches that hang or take too long

Processes == Apps \cup Workers
Actors == Processes \cup Slots \cup Requests
Switches == {"processingEnabled", "normalizedQueueV2", "embeddedWorker"}
Fields == Switches \cup {"embeddedWorkerCount"}

ASSUME RuntimeAssumption ==
    /\ Apps \cap Workers = {}
    /\ Processes \cap (Slots \cup Requests) = {}
    /\ Slots \cap Requests = {}
    /\ Process \in [Slots \cup Requests -> Processes]
    /\ \A q \in Requests : Process[q] \in Apps
    /\ \A f \in Patches : \A x \in DOMAIN f :
          x \in Fields /\ (IF x \in Switches THEN f[x] \in BOOLEAN ELSE f[x] \in Int)
    /\ MaxLoops \in Nat \ {0}
    /\ MaxPatches \in Nat
    /\ MaxFaults \in Nat

VARIABLES
    row,      \* queue_runtime_settings, id 1
    redis,    \* its copy, or nothing
    cache,    \* per process
    pc,       \* per actor; the actor of a process is its startup
    back,     \* per actor: where it goes on after a refresh
    got,      \* per actor: the row it has read and not applied yet
    patch,    \* per request: what it sets
    armed,    \* per process: its loops that were not told to stop
    beats,    \* processes that wrote a heartbeat within the watchdog's window
    patches,
    faults,
    overlap,  \* history: a request met another one, or a refresh, in flight
    lost      \* history: a request changed a field it does not set

actors == <<pc, back, got, patch>>
vars == <<row, redis, cache, actors, armed, beats, patches, faults, overlap, lost>>

Row == [processingEnabled : BOOLEAN, normalizedQueueV2 : BOOLEAN, embeddedWorker : BOOLEAN,
        embeddedWorkerCount : 1 .. MaxLoops]

ASSUME NothingAssumption == Nothing \notin Row

DefaultFlags == [processingEnabled |-> TRUE, normalizedQueueV2 |-> TRUE, embeddedWorker |-> TRUE,
                 embeddedWorkerCount |-> 1]

Init ==
    /\ row = DefaultFlags
    /\ redis = Nothing
    /\ cache = [p \in Processes |-> Nothing]
    /\ pc = [a \in Actors |-> "off"]
    /\ back = [a \in Actors |-> "off"]
    /\ got = [a \in Actors |-> Nothing]
    /\ patch = [q \in Requests |-> <<>>]
    /\ armed = [p \in Processes |-> {}]
    /\ beats = {}
    /\ patches = 0
    /\ faults = 0
    /\ overlap = FALSE
    /\ lost = FALSE

Fault == faults < MaxFaults /\ faults' = faults + 1

Of(a) == IF a \in Processes THEN a ELSE Process[a]
SlotsOf(p) == {s \in Slots : Process[s] = p}
Goto(a, where) == pc' = [pc EXCEPT ![a] = where]

\* What getQueueRuntimeFlagsSync returns: a cleared cache reads as the defaults.
FlagsOf(p) == IF cache[p] = Nothing THEN DefaultFlags ELSE cache[p]

ClaimAllowed(p) == FlagsOf(p).normalizedQueueV2 /\ FlagsOf(p).processingEnabled
EmbeddedAllowed(p) == FlagsOf(p).normalizedQueueV2 /\ FlagsOf(p).embeddedWorker

-----------------------------------------------------------------------------
(* refreshQueueRuntimeCache: an actor asks for it with Refresh and goes on at *)
(* back.                                                                    *)

Refresh(a, then) ==
    /\ Goto(a, "get")
    /\ back' = [back EXCEPT ![a] = then]

Return(a) ==
    /\ Goto(a, back[a])
    /\ back' = [back EXCEPT ![a] = "off"]
    /\ got' = [got EXCEPT ![a] = Nothing]

Cached(p, flags) == cache' = [cache EXCEPT ![p] = flags]

\* The copy of Redis; it may not answer, and then counts as missing.
Get(a) ==
    /\ pc[a] = "get"
    /\ \/ redis # Nothing /\ Cached(Of(a), redis) /\ Return(a) /\ UNCHANGED faults
       \/ /\ IF redis = Nothing THEN UNCHANGED faults ELSE Fault
          /\ Goto(a, "select")
          /\ UNCHANGED <<cache, back, got>>
    /\ UNCHANGED <<row, redis, patch, armed, beats, patches, overlap, lost>>

\* The row; it is applied when the answer comes.
Select(a) ==
    /\ pc[a] = "select"
    /\ got' = [got EXCEPT ![a] = row]
    /\ Goto(a, "apply")
    /\ UNCHANGED <<row, redis, cache, back, patch, armed, beats, patches, faults, overlap, lost>>

\* The database does not answer: the defaults.
Defaulted(a) ==
    /\ pc[a] = "select"
    /\ Fault
    /\ Cached(Of(a), DefaultFlags)
    /\ Return(a)
    /\ UNCHANGED <<row, redis, patch, armed, beats, patches, overlap, lost>>

\* The answer is cached and copied to Redis, even if the row changed meanwhile.
Apply(a) ==
    /\ pc[a] = "apply"
    /\ Cached(Of(a), got[a])
    /\ redis' = got[a]
    /\ Return(a)
    /\ UNCHANGED <<row, patch, armed, beats, patches, faults, overlap, lost>>

Expire ==
    /\ redis # Nothing
    /\ redis' = Nothing
    /\ UNCHANGED <<row, cache, actors, armed, beats, patches, faults, overlap, lost>>

-----------------------------------------------------------------------------
(* Processes. *)

\* process.exit, or death: the loops and the requests of the process are gone.
Gone(p) ==
    /\ pc' = [a \in Actors |-> IF Of(a) = p THEN "off" ELSE pc[a]]
    /\ back' = [a \in Actors |-> IF Of(a) = p THEN "off" ELSE back[a]]
    /\ got' = [a \in Actors |-> IF Of(a) = p THEN Nothing ELSE got[a]]
    /\ patch' = [q \in Requests |-> IF Of(q) = p THEN <<>> ELSE patch[q]]
    /\ cache' = [cache EXCEPT ![p] = Nothing]
    /\ armed' = [armed EXCEPT ![p] = {}]
    /\ overlap' = (overlap \/ \E q \in Requests : Process[q] = p /\ pc[q] # "off")

\* The supervisor starts what is down.
Boot(p) ==
    /\ pc[p] = "off"
    /\ \A s \in SlotsOf(p) : pc[s] = "off"
    /\ Refresh(p, "start")
    /\ UNCHANGED <<row, redis, cache, got, patch, armed, beats, patches, faults, overlap, lost>>

\* New loops for the process, in slots that are free.
Arm(p, n, who, where) ==
    \E new \in SUBSET {s \in SlotsOf(p) : pc[s] = "off"} :
        /\ Cardinality(new) = n
        /\ armed' = [armed EXCEPT ![p] = new]
        /\ pc' = [a \in Actors |-> IF a = who THEN where ELSE IF a \in new THEN "ready" ELSE pc[a]]

\* startEmbeddedQueueWorkerIfEligible stops the loops there are, which finish
\* what they claimed, and starts others; or it only stops them.
StartEmbedded(p, who, where) ==
    IF EmbeddedAllowed(p)
      THEN Arm(p, FlagsOf(p).embeddedWorkerCount, who, where)
      ELSE armed' = [armed EXCEPT ![p] = {}] /\ Goto(who, where)

StartApp(p) ==
    /\ p \in Apps
    /\ pc[p] = "start"
    /\ StartEmbedded(p, p, "up")
    /\ UNCHANGED <<row, redis, cache, back, got, patch, beats, patches, faults, overlap, lost>>

\* A worker that may not claim exits at once, to be started again.
StartWorker(p) ==
    /\ p \in Workers
    /\ pc[p] = "start"
    /\ IF ClaimAllowed(p)
         THEN Arm(p, 1, p, "up") /\ UNCHANGED <<cache, back, got, patch, overlap>>
         ELSE Gone(p)
    /\ UNCHANGED <<row, redis, beats, patches, faults, lost>>

Crash(p) ==
    /\ pc[p] # "off"
    /\ Fault
    /\ Gone(p)
    /\ UNCHANGED <<row, redis, beats, patches, lost>>

\* SIGTERM: the worker drains its batch and stops.
Terminate(p) ==
    /\ p \in Workers
    /\ pc[p] = "up"
    /\ patches < MaxPatches
    /\ patches' = patches + 1
    /\ armed' = [armed EXCEPT ![p] = {}]
    /\ Goto(p, "stop")
    /\ UNCHANGED <<row, redis, cache, back, got, patch, beats, faults, overlap, lost>>

Stopped(p) ==
    /\ p \in Workers
    /\ pc[p] = "stop"
    /\ \A s \in SlotsOf(p) : pc[s] = "off"
    /\ Gone(p)
    /\ beats' = beats \ {p}
    /\ UNCHANGED <<row, redis, patches, faults, lost>>

-----------------------------------------------------------------------------
(* A worker loop. *)

\* Mutant of Iterate: the flags are looked at without a refresh.
IterateUnrefreshed(s) ==
    /\ pc[s] = "ready"
    /\ Goto(s, IF s \in armed[Process[s]] THEN "claim" ELSE "off")
    /\ UNCHANGED <<row, redis, cache, back, got, patch, armed, beats, patches, faults, overlap, lost>>

\* The top of the loop: an aborted one ends.
Iterate(s) ==
    /\ pc[s] = "ready"
    /\ IF s \in armed[Process[s]]
         THEN Refresh(s, "claim")
         ELSE Goto(s, "off") /\ UNCHANGED back
    /\ UNCHANGED <<row, redis, cache, got, patch, armed, beats, patches, faults, overlap, lost>>

\* claimWalletBatch and claimFundTransferBatch look at the flags after a refresh.
Claim(s) ==
    /\ pc[s] = "claim"
    /\ \/ ClaimAllowed(Process[s]) /\ Goto(s, "busy")
       \/ Goto(s, "idle")
    /\ UNCHANGED <<row, redis, cache, back, got, patch, armed, beats, patches, faults, overlap, lost>>

\* A batch ends with a heartbeat.
BatchEnds(s) ==
    /\ pc[s] \in {"busy", "slow"}
    /\ Goto(s, "ready")
    /\ beats' = beats \cup {Process[s]}
    /\ UNCHANGED <<row, redis, cache, back, got, patch, armed, patches, faults, overlap, lost>>

\* A batch takes longer than the watchdog waits, or never ends.
Delay(s) ==
    /\ pc[s] = "busy"
    /\ Fault
    /\ Goto(s, "slow") \/ Goto(s, "hung")
    /\ UNCHANGED <<row, redis, cache, back, got, patch, armed, beats, patches, overlap, lost>>

Idle(s) ==
    /\ pc[s] = "idle"
    /\ Goto(s, "ready")
    /\ beats' = beats \cup {Process[s]}
    /\ UNCHANGED <<row, redis, cache, back, got, patch, armed, patches, faults, overlap, lost>>

\* Every fifteenth time it is idle a loop refreshes once more.
IdleCheck(s) ==
    /\ pc[s] = "idle"
    /\ Refresh(s, "check")
    /\ UNCHANGED <<row, redis, cache, got, patch, armed, beats, patches, faults, overlap, lost>>

\* If claims are blocked, the process exits, whatever else runs in it.
Check(s) ==
    /\ pc[s] = "check"
    /\ IF ClaimAllowed(Process[s])
         THEN /\ Goto(s, "ready")
              /\ beats' = beats \cup {Process[s]}
              /\ UNCHANGED <<cache, back, got, patch, armed, overlap>>
         ELSE Gone(Process[s]) /\ UNCHANGED beats
    /\ UNCHANGED <<row, redis, patches, faults, lost>>

-----------------------------------------------------------------------------
(* The watchdog. *)

\* Mutant of Silent: a loop that hangs looks alive.
SilentOff(p) == \A s \in SlotsOf(p) : pc[s] = "off"

\* Nothing in the process is quicker than a batch that takes too long.
Silent(p) == \A s \in SlotsOf(p) : pc[s] \in {"off", "slow", "hung"}

BeatAges(p) ==
    /\ p \in beats
    /\ Silent(p)
    /\ pc[p] \in {"up", "stop"}
    /\ beats' = beats \ {p}
    /\ UNCHANGED <<row, redis, cache, actors, armed, patches, faults, overlap, lost>>

\* Nobody's heartbeat is fresh, and there is something to claim.
Watchdog(p) ==
    /\ p \in Workers
    /\ beats = {}
    /\ Silent(p)
    /\ pc[p] \in {"up", "stop"}
    /\ Gone(p)
    /\ UNCHANGED <<row, redis, beats, patches, faults, lost>>

-----------------------------------------------------------------------------
(* PATCH: setQueueRuntimeFlagsPartial, then the loops. *)

InFlight(q) == \E r \in Requests \ {q} : pc[r] # "off"

Patch(q) ==
    /\ pc[q] = "off"
    /\ pc[Process[q]] = "up"
    /\ patches < MaxPatches
    /\ patches' = patches + 1
    /\ \E f \in Patches : patch' = [patch EXCEPT ![q] = f]
    /\ overlap' = (overlap \/ InFlight(q))
    /\ Refresh(q, "merge")
    /\ UNCHANGED <<row, redis, cache, got, armed, beats, faults, lost>>

Clamp(f, value) ==
    IF f \in Switches THEN value
    ELSE IF value < 1 THEN 1
    ELSE IF value > MaxLoops THEN MaxLoops
    ELSE value

Merged(flags, f) ==
    [x \in Fields |-> IF x \in DOMAIN f THEN Clamp(x, f[x]) ELSE flags[x]]

\* The whole row is written, from the flags of the cache.
Merge(q) ==
    LET new == Merged(FlagsOf(Process[q]), patch[q])
    IN  /\ pc[q] = "merge"
        /\ row' = new
        /\ lost' = (lost \/ \E x \in Fields \ DOMAIN patch[q] : new[x] # row[x])
        /\ overlap' = (overlap \/ \E a \in Actors : pc[a] = "apply")
        /\ Goto(q, "del")
        /\ UNCHANGED <<redis, cache, back, got, patch, armed, beats, patches, faults>>

\* The upsert fails: the request answers an error.
MergeFails(q) ==
    /\ pc[q] = "merge"
    /\ Fault
    /\ Goto(q, "off")
    /\ patch' = [patch EXCEPT ![q] = <<>>]
    /\ UNCHANGED <<row, redis, cache, back, got, armed, beats, patches, overlap, lost>>

\* Mutant of Uncopied: the copy stays until it expires.
UncopiedNot(copy) == copy

Uncopied(copy) == Nothing

\* The copy of Redis and the cache are dropped; a lost DEL is not noticed.
Drop(q) ==
    /\ pc[q] = "del"
    /\ \/ redis' = Uncopied(redis) /\ UNCHANGED faults
       \/ redis # Nothing /\ Fault /\ UNCHANGED redis
    /\ Cached(Process[q], Nothing)
    /\ Refresh(q, "answer")
    /\ UNCHANGED <<row, got, patch, armed, beats, patches, overlap, lost>>

\* Mutant of LoopsChanged: only the switch counts.
LoopsChangedBySwitch(f) == "embeddedWorker" \in DOMAIN f

LoopsChanged(f) == DOMAIN f \cap {"embeddedWorker", "embeddedWorkerCount"} # {}

Answer(q) ==
    /\ pc[q] = "answer"
    /\ IF LoopsChanged(patch[q])
         THEN StartEmbedded(Process[q], q, "off")
         ELSE UNCHANGED armed /\ Goto(q, "off")
    /\ patch' = [patch EXCEPT ![q] = <<>>]
    /\ UNCHANGED <<row, redis, cache, back, got, beats, patches, faults, overlap, lost>>

-----------------------------------------------------------------------------
RefreshStep(a) == Get(a) \/ Select(a) \/ Defaulted(a) \/ Apply(a)
ProcessStep(p) == Boot(p) \/ StartApp(p) \/ StartWorker(p) \/ Stopped(p) \/ RefreshStep(p)
LoopStep(s) == Iterate(s) \/ Claim(s) \/ BatchEnds(s) \/ Idle(s) \/ IdleCheck(s) \/ Check(s) \/ RefreshStep(s)
RequestStep(q) == Merge(q) \/ Drop(q) \/ Answer(q) \/ RefreshStep(q)

Next ==
    \/ \E p \in Processes : ProcessStep(p) \/ Crash(p) \/ Terminate(p) \/ BeatAges(p) \/ Watchdog(p)
    \/ \E s \in Slots : LoopStep(s) \/ Delay(s)
    \/ \E q \in Requests : Patch(q) \/ RequestStep(q) \/ MergeFails(q)
    \/ Expire

Spec == Init /\ [][Next]_vars

\* The supervisor restarts what exits, processes run, the copy expires and the
\* watchdog is scheduled.  A batch that hangs is not a step of its loop.
FairSpec ==
    /\ Spec
    /\ WF_vars(Expire)
    /\ \A p \in Processes : WF_vars(ProcessStep(p)) /\ WF_vars(BeatAges(p)) /\ WF_vars(Watchdog(p))
    /\ \A s \in Slots : WF_vars(LoopStep(s))
    /\ \A q \in Requests : WF_vars(RequestStep(q))

-----------------------------------------------------------------------------
(* Properties. *)

\* Every variable has the shape the code gives it; the row keeps the number of
\* loops within its limits whatever a request asks for.
TypeOK ==
    /\ row \in Row
    /\ redis \in Row \cup {Nothing}
    /\ cache \in [Processes -> Row \cup {Nothing}]
    /\ got \in [Actors -> Row \cup {Nothing}]
    /\ DOMAIN pc = Actors
    /\ DOMAIN back = Actors
    /\ armed \in [Processes -> SUBSET Slots]
    /\ beats \subseteq Processes

\* A request changes a field it does not set only if it met another request or
\* a refresh in flight, or a call failed: requests that follow each other lose
\* nothing, whatever copies of the row are about.
LostOnlyByOverlap == lost => overlap \/ faults > 0

\* When no request is being served and none overlapped, an app that is up runs
\* the loops the row asks for, as many, and no others but those that drain.  This
\* is about a single app, which sees every request, and requests that leave the
\* switch normalizedQueueV2 alone: no loop is started or stopped for it.
LoopsFollowRow ==
    \A p \in Apps :
        (pc[p] = "up" /\ faults = 0 /\ ~overlap /\ \A q \in Requests : pc[q] = "off") =>
            Cardinality(armed[p]) =
                IF row.embeddedWorker /\ row.normalizedQueueV2 THEN row.embeddedWorkerCount ELSE 0

Paused == ~(row.processingEnabled /\ row.normalizedQueueV2)

\* A cache that was cleared and not filled again does not let a loop claim from
\* a paused queue.
ClearedCacheIsPaused ==
    \A s \in Slots : pc[s] = "claim" /\ cache[Process[s]] = Nothing => ~Paused

\* A queue that stays paused is claimed by nobody in the end, whatever copies
\* are still about when it is paused.
PauseReachesLoops == <>[]Paused => <>[](\A s \in Slots : pc[s] \notin {"busy", "slow"})

\* A queue that stays open is looked at again and again, although its workers
\* die, stop and hang.
QueueIsPolled ==
    <>[]~Paused => []<>(\E s \in Slots : pc[s] = "claim" /\ ClaimAllowed(Process[s]))
=============================================================================
