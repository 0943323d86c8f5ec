-------------------------- MODULE RuntimeFlagsProofs --------------------------
(***************************************************************************)
(* Theorems about RuntimeFlags, for every value of its constants.          *)
(***************************************************************************)
EXTENDS RuntimeFlags, FiniteSetTheorems, TLAPS

-----------------------------------------------------------------------------
(* The invariant. *)

RefreshPCs == {"get", "select", "apply"}

\* Where an actor may be, and where a refresh may take it.
Places(a) ==
    IF a \in Requests THEN RefreshPCs \cup {"off", "merge", "del", "answer"}
    ELSE IF a \in Slots THEN RefreshPCs \cup {"off", "ready", "claim", "busy", "slow", "hung", "idle", "check"}
    ELSE RefreshPCs \cup {"off", "start", "up", "stop"}

Backs(a) ==
    IF a \in Requests THEN {"merge", "answer"}
    ELSE IF a \in Slots THEN {"claim", "check"}
    ELSE {"start"}

PlacedAt(a) ==
    /\ pc[a] \in Places(a)
    /\ pc[a] \in RefreshPCs => back[a] \in Backs(a)
    /\ pc[a] = "apply" => got[a] \in Row

Placed == \A a \in Actors : PlacedAt(a)

\* Every variable has its shape; a request under way sets something.
Typed ==
    /\ TypeOK
    /\ Placed
    /\ DOMAIN patch = Requests
    /\ \A q \in Requests : pc[q] # "off" => patch[q] \in Patches
    /\ faults \in Nat
    /\ overlap \in BOOLEAN
    /\ lost \in BOOLEAN

\* A request that has not written the row yet.
Before(q) == pc[q] = "merge" \/ (pc[q] \in RefreshPCs /\ back[q] = "merge")

\* One request at a time; what was read is the row; the copy of Redis is, but
\* for a request that has written and not deleted it; so is the cache of a
\* process whose request has refreshed it.
Fresh ==
    /\ \A q \in Requests : \A r \in Requests \ {q} : pc[q] = "off" \/ pc[r] = "off"
    /\ \A a \in Actors : pc[a] = "apply" => got[a] = row
    /\ redis \in {Nothing, row} \/ \E q \in Requests : pc[q] = "del"
    /\ \A q \in Requests : pc[q] \in {"merge", "answer"} => cache[Process[q]] = row
    /\ ~lost

Calm == ~overlap /\ faults = 0

FreshInv == Calm => Fresh

\* How many loops the row asks for.
Wanted(flags) ==
    IF flags.embeddedWorker /\ flags.normalizedQueueV2 THEN flags.embeddedWorkerCount ELSE 0

\* The request has changed what the row asks for, and not the loops.
Changing(q) == pc[q] # "off" /\ ~Before(q) /\ LoopsChanged(patch[q])

\* Requests are those of a process that is up; one that starts has the row in
\* its cache, and one that is up has the loops of the row, but for a request that
\* is about to change them.
Looped ==
    /\ \A q \in Requests : pc[q] # "off" => pc[Process[q]] = "up"
    /\ \A p \in Apps : pc[p] = "start" => cache[p] = row
    /\ \A p \in Apps :
          pc[p] = "up" /\ (\A q \in Requests : ~Changing(q)) => Cardinality(armed[p]) = Wanted(row)

LoopInv == Calm => Looped

-----------------------------------------------------------------------------
(* Rows. *)

LEMMA RowFields ==
  ASSUME NEW flags \in Row
  PROVE  /\ \A x \in Switches : flags[x] \in BOOLEAN
         /\ flags.embeddedWorkerCount \in 1 .. MaxLoops
         /\ flags # Nothing
  BY NothingAssumption DEF Row, Switches

LEMMA DefaultRow == DefaultFlags \in Row
  BY RuntimeAssumption DEF DefaultFlags, Row

\* A function over the fields is a row.
LEMMA RowIs ==
  ASSUME NEW g, g = [x \in Fields |-> g[x]], \A x \in Switches : g[x] \in BOOLEAN,
         g["embeddedWorkerCount"] \in 1 .. MaxLoops
  PROVE  g \in Row
<1>1. g = [processingEnabled |-> g["processingEnabled"], normalizedQueueV2 |-> g["normalizedQueueV2"],
           embeddedWorker |-> g["embeddedWorker"], embeddedWorkerCount |-> g["embeddedWorkerCount"]]
  BY DEF Fields, Switches
<1>. QED BY <1>1 DEF Row, Switches

\* What a request makes of a row is one, and what it does not set stays.
LEMMA MergedRow ==
  ASSUME NEW flags \in Row, NEW f \in Patches
  PROVE  /\ Merged(flags, f) \in Row
         /\ \A x \in Fields \ DOMAIN f : Merged(flags, f)[x] = flags[x]
<1>1. PICK g : g = Merged(flags, f)
  OBVIOUS
<1>2. g = [x \in Fields |-> g[x]] /\ \A x \in Fields : g[x] = IF x \in DOMAIN f THEN Clamp(x, f[x]) ELSE flags[x]
  BY <1>1 DEF Merged
<1>3. \A x \in Switches : x \in Fields /\ flags[x] \in BOOLEAN
  BY RowFields DEF Fields
<1>4. \A x \in Switches : x \in DOMAIN f => f[x] \in BOOLEAN
  BY RuntimeAssumption
<1>5. \A x \in Switches : g[x] \in BOOLEAN
  BY <1>2, <1>3, <1>4 DEF Clamp
<1>6. "embeddedWorkerCount" \in Fields /\ "embeddedWorkerCount" \notin Switches
  BY DEF Switches, Fields
<1>7. flags["embeddedWorkerCount"] \in 1 .. MaxLoops
  BY RowFields
<1>8. "embeddedWorkerCount" \in DOMAIN f => f["embeddedWorkerCount"] \in Int
  BY <1>6, RuntimeAssumption
<1>9. g["embeddedWorkerCount"] \in 1 .. MaxLoops
  BY <1>2, <1>6, <1>7, <1>8, RuntimeAssumption DEF Clamp
<1>. QED BY <1>1, <1>2, <1>5, <1>9, RowIs

LEMMA FlagsAreRow ==
  ASSUME Typed, NEW p \in Processes
  PROVE  FlagsOf(p) \in Row
  BY DefaultRow DEF Typed, TypeOK, FlagsOf

-----------------------------------------------------------------------------
(* Actors. *)

LEMMA Kinds ==
  /\ \A q \in Requests : /\ q \in Actors /\ q \notin Slots /\ q \notin Processes
                         /\ Of(q) = Process[q] /\ Process[q] \in Apps
  /\ \A s \in Slots : /\ s \in Actors /\ s \notin Requests /\ s \notin Processes
                      /\ Of(s) = Process[s] /\ Process[s] \in Processes
  /\ \A p \in Processes : p \in Actors /\ p \notin Slots /\ p \notin Requests /\ Of(p) = p
  /\ \A p \in Apps : p \in Processes /\ p \notin Workers
  /\ \A p \in Workers : p \in Processes /\ p \notin Apps
  /\ \A a \in Actors : Of(a) \in Processes
  BY RuntimeAssumption DEF Actors, Processes, Of

\* An actor moves, and nobody else.
Only(a) ==
    /\ DOMAIN pc' = Actors /\ DOMAIN back' = Actors
    /\ \A b \in Actors \ {a} : pc'[b] = pc[b] /\ back'[b] = back[b] /\ got'[b] = got[b]

LEMMA OnlyPlaced ==
  ASSUME Typed, NEW a \in Actors, Only(a), PlacedAt(a)'
  PROVE  Placed'
  BY DEF Typed, Placed, PlacedAt, Only

LEMMA GoPlaced ==
  ASSUME Typed, NEW a \in Actors, NEW where \in Places(a) \ RefreshPCs, Goto(a, where),
         UNCHANGED <<back, got>>
  PROVE  Only(a) /\ pc'[a] = where /\ Placed'
<1>1. Only(a) /\ pc'[a] = where
  BY DEF Goto, Only, Typed, TypeOK
<1>2. PlacedAt(a)'
  BY <1>1 DEF PlacedAt, RefreshPCs, Places
<1>. QED BY <1>1, <1>2, OnlyPlaced

LEMMA RefreshPlaced ==
  ASSUME Typed, NEW a \in Actors, NEW then \in Backs(a), Refresh(a, then), UNCHANGED got
  PROVE  Only(a) /\ pc'[a] = "get" /\ back'[a] = then /\ Placed'
<1>1. Only(a) /\ pc'[a] = "get" /\ back'[a] = then
  BY DEF Refresh, Goto, Only, Typed, TypeOK
<1>2. PlacedAt(a)'
  BY <1>1 DEF PlacedAt, RefreshPCs, Places, Backs
<1>. QED BY <1>1, <1>2, OnlyPlaced

LEMMA ReturnPlaced ==
  ASSUME Typed, NEW a \in Actors, pc[a] \in RefreshPCs, Return(a)
  PROVE  /\ Only(a) /\ pc'[a] = back[a] /\ back[a] \in Backs(a) /\ Placed'
         /\ got' \in [Actors -> Row \cup {Nothing}]
<1>1. Only(a) /\ pc'[a] = back[a] /\ got' \in [Actors -> Row \cup {Nothing}]
  BY DEF Return, Goto, Only, Typed, TypeOK
<1>2. back[a] \in Backs(a)
  BY DEF Typed, Placed, PlacedAt
<1>3. PlacedAt(a)'
  BY <1>1, <1>2 DEF PlacedAt, RefreshPCs, Places, Backs
<1>. QED BY <1>1, <1>2, <1>3, OnlyPlaced

\* The process and its actors are gone.
LEMMA GonePlaced ==
  ASSUME Typed, NEW p \in Processes, Gone(p)
  PROVE  /\ Placed' /\ DOMAIN pc' = Actors /\ DOMAIN back' = Actors
         /\ got' \in [Actors -> Row \cup {Nothing}]
         /\ cache' \in [Processes -> Row \cup {Nothing}] /\ cache'[p] = Nothing
         /\ \A r \in Processes \ {p} : cache'[r] = cache[r] /\ armed'[r] = armed[r]
         /\ armed' \in [Processes -> SUBSET Slots]
         /\ \A a \in Actors : IF Of(a) = p THEN pc'[a] = "off"
                              ELSE pc'[a] = pc[a] /\ back'[a] = back[a] /\ got'[a] = got[a]
         /\ \A q \in Requests : pc'[q] # "off" => pc'[q] = pc[q] /\ patch'[q] = patch[q]
         /\ overlap' \in BOOLEAN /\ DOMAIN patch' = Requests
<1>1. /\ DOMAIN pc' = Actors /\ DOMAIN back' = Actors
      /\ \A a \in Actors : IF Of(a) = p THEN pc'[a] = "off"
                           ELSE pc'[a] = pc[a] /\ back'[a] = back[a] /\ got'[a] = got[a]
  BY DEF Gone
<1>2. Placed'
  <2>. SUFFICES ASSUME NEW a \in Actors PROVE PlacedAt(a)'
    BY DEF Placed
  <2>1. CASE Of(a) = p
    BY <1>1, <2>1 DEF PlacedAt, RefreshPCs, Places
  <2>2. CASE Of(a) # p
    <3>1. PlacedAt(a)
      BY DEF Typed, Placed
    <3>. QED BY <1>1, <2>2, <3>1 DEF PlacedAt
  <2>. QED BY <2>1, <2>2
<1>3. got' \in [Actors -> Row \cup {Nothing}]
  BY DEF Gone, Typed, TypeOK
<1>4. /\ cache' \in [Processes -> Row \cup {Nothing}] /\ cache'[p] = Nothing
      /\ \A r \in Processes \ {p} : cache'[r] = cache[r] /\ armed'[r] = armed[r]
      /\ armed' \in [Processes -> SUBSET Slots]
  BY DEF Gone, Typed, TypeOK
<1>5. \A q \in Requests : pc'[q] # "off" => pc'[q] = pc[q] /\ patch'[q] = patch[q]
  BY <1>1, Kinds DEF Gone
<1>6. overlap' \in BOOLEAN /\ DOMAIN patch' = Requests
  BY DEF Gone, Typed
<1>. QED BY <1>1, <1>2, <1>3, <1>4, <1>5, <1>6

\* Loops start in free slots.
LEMMA ArmPlaced ==
  ASSUME Typed, NEW p \in Processes, NEW n, NEW who \in Actors \ Slots,
         NEW where \in Places(who) \ RefreshPCs, Arm(p, n, who, where), UNCHANGED <<back, got>>
  PROVE  /\ Placed' /\ DOMAIN pc' = Actors /\ DOMAIN back' = Actors /\ pc'[who] = where
         /\ \A a \in Actors \ Slots : a # who => pc'[a] = pc[a]
         /\ \A s \in Slots : pc'[s] = pc[s] \/ pc'[s] = "ready"
         /\ armed' \in [Processes -> SUBSET Slots]
         /\ Cardinality(armed'[p]) = n /\ \A r \in Processes \ {p} : armed'[r] = armed[r]
<1>1. PICK new \in SUBSET {s \in SlotsOf(p) : pc[s] = "off"} :
        /\ Cardinality(new) = n
        /\ armed' = [armed EXCEPT ![p] = new]
        /\ pc' = [a \in Actors |-> IF a = who THEN where ELSE IF a \in new THEN "ready" ELSE pc[a]]
  BY DEF Arm
<1>2. new \subseteq Slots
  BY DEF SlotsOf
<1>3. /\ armed' \in [Processes -> SUBSET Slots]
      /\ armed'[p] = new /\ \A r \in Processes \ {p} : armed'[r] = armed[r]
  BY <1>1, <1>2 DEF Typed, TypeOK
<1>4. Placed'
  <2>. SUFFICES ASSUME NEW a \in Actors PROVE PlacedAt(a)'
    BY DEF Placed
  <2>1. CASE a = who
    BY <1>1, <2>1 DEF PlacedAt, RefreshPCs
  <2>2. CASE a # who /\ a \in new
    <3>1. a \in Slots /\ a \notin Requests /\ pc'[a] = "ready"
      BY <1>1, <1>2, <2>2, Kinds
    <3>. QED BY <3>1 DEF PlacedAt, RefreshPCs, Places
  <2>3. CASE a # who /\ a \notin new
    <3>1. PlacedAt(a) /\ pc'[a] = pc[a]
      BY <1>1, <2>3 DEF Typed, Placed
    <3>. QED BY <3>1 DEF PlacedAt
  <2>. QED BY <2>1, <2>2, <2>3
<1>5. \A s \in Slots : s \in Actors
  BY Kinds
<1>. QED BY <1>1, <1>2, <1>3, <1>4, <1>5 DEF Typed, TypeOK

LEMMA StartPlaced ==
  ASSUME Typed, NEW p \in Processes, NEW who \in Actors \ Slots,
         NEW where \in Places(who) \ RefreshPCs, StartEmbedded(p, who, where), UNCHANGED <<back, got>>
  PROVE  /\ Placed' /\ DOMAIN pc' = Actors /\ DOMAIN back' = Actors /\ pc'[who] = where
         /\ \A a \in Actors \ Slots : a # who => pc'[a] = pc[a]
         /\ \A s \in Slots : pc'[s] = pc[s] \/ pc'[s] = "ready"
         /\ armed' \in [Processes -> SUBSET Slots]
         /\ Cardinality(armed'[p]) = Wanted(FlagsOf(p))
<1>1. EmbeddedAllowed(p) = (FlagsOf(p).embeddedWorker /\ FlagsOf(p).normalizedQueueV2)
  BY FlagsAreRow DEF EmbeddedAllowed, Row
<1>2. CASE EmbeddedAllowed(p)
  <2>1. Arm(p, FlagsOf(p).embeddedWorkerCount, who, where)
    BY <1>2 DEF StartEmbedded
  <2>2. PICK n : n = FlagsOf(p).embeddedWorkerCount
    OBVIOUS
  <2>3. /\ Placed' /\ DOMAIN pc' = Actors /\ DOMAIN back' = Actors /\ pc'[who] = where
        /\ \A a \in Actors \ Slots : a # who => pc'[a] = pc[a]
        /\ \A s \in Slots : pc'[s] = pc[s] \/ pc'[s] = "ready"
        /\ armed' \in [Processes -> SUBSET Slots]
        /\ Cardinality(armed'[p]) = n
    BY ZenonT(40), <2>1, <2>2, ArmPlaced
  <2>. QED BY <1>1, <1>2, <2>2, <2>3 DEF Wanted
<1>3. CASE ~EmbeddedAllowed(p)
  <2>1. armed' = [armed EXCEPT ![p] = {}] /\ Goto(who, where)
    BY <1>3 DEF StartEmbedded
  <2>2. Only(who) /\ pc'[who] = where /\ Placed'
    BY <2>1, GoPlaced
  <2>3. armed' \in [Processes -> SUBSET Slots] /\ armed'[p] = {}
    BY <2>1 DEF Typed, TypeOK
  <2>4. Cardinality(armed'[p]) = 0
    BY <2>3, FS_EmptySet
  <2>5. \A s \in Slots : s \in Actors \ {who}
    BY Kinds
  <2>. QED BY <1>1, <1>3, <2>2, <2>3, <2>4, <2>5 DEF Only, Wanted
<1>. QED BY <1>2, <1>3

-----------------------------------------------------------------------------
(* Typing. *)

LEMMA InitTyped == Init => Typed
<1>. SUFFICES ASSUME Init PROVE Typed
  OBVIOUS
<1>1. \A a \in Actors : pc[a] = "off"
  BY DEF Init
<1>2. Placed
  BY <1>1 DEF Placed, PlacedAt, Places, RefreshPCs
<1>3. \A q \in Requests : pc[q] = "off"
  BY <1>1, Kinds
<1>. QED BY <1>2, <1>3, DefaultRow DEF Init, Typed, TypeOK

LEMMA FaultType == ASSUME Typed, Fault PROVE faults' \in Nat /\ faults' > 0
  BY DEF Fault, Typed

LEMMA CachedType ==
  ASSUME Typed, NEW p \in Processes, NEW flags \in Row \cup {Nothing}, Cached(p, flags)
  PROVE  /\ cache' \in [Processes -> Row \cup {Nothing}] /\ cache'[p] = flags
         /\ \A r \in Processes \ {p} : cache'[r] = cache[r]
  BY DEF Cached, Typed, TypeOK

\* Nothing else of the types moves.
Still == UNCHANGED <<row, redis, cache, armed, beats, patch, faults, overlap, lost>>

\* The steps of a refresh.
LEMMA RefreshTyped ==
  ASSUME Typed, NEW a \in Actors, RefreshStep(a)
  PROVE  Typed' /\ Only(a) /\ UNCHANGED <<patch, armed>>
<1>0. Of(a) \in Processes /\ pc[a] \in RefreshPCs
  BY Kinds DEF RefreshStep, Get, Select, Defaulted, Apply, RefreshPCs
<1>1. ASSUME Return(a), NEW flags \in Row, Cached(Of(a), flags), redis' \in Row \cup {Nothing},
             faults' \in Nat, UNCHANGED <<row, patch, armed, beats, patches, overlap, lost>>
      PROVE  Typed' /\ Only(a)
  <2>1. /\ Only(a) /\ pc'[a] = back[a] /\ Placed' /\ got' \in [Actors -> Row \cup {Nothing}]
    BY <1>0, <1>1, ReturnPlaced
  <2>2. cache' \in [Processes -> Row \cup {Nothing}]
    BY <1>0, <1>1, CachedType
  <2>3. pc[a] # "off"
    BY <1>0 DEF RefreshPCs
  <2>4. \A q \in Requests : pc'[q] # "off" => patch'[q] \in Patches
    BY <1>1, <2>1, <2>3, Kinds DEF Typed, Only
  <2>. QED BY <1>1, <2>1, <2>2, <2>4 DEF Typed, TypeOK, Only
<1>2. CASE Get(a)
  <2>1. CASE redis # Nothing /\ Cached(Of(a), redis) /\ Return(a) /\ UNCHANGED faults
    <3>1. PICK flags \in Row : flags = redis
      BY <2>1 DEF Typed, TypeOK
    <3>. QED BY <1>1, <1>2, <2>1, <3>1 DEF Get, Typed, TypeOK
  <2>2. CASE /\ IF redis = Nothing THEN UNCHANGED faults ELSE Fault
             /\ Goto(a, "select")
             /\ UNCHANGED <<cache, back, got>>
    <3>1. Only(a) /\ pc'[a] = "select"
      BY <2>2 DEF Goto, Only, Typed, TypeOK
    <3>2. PlacedAt(a) /\ pc[a] = "get"
      BY <1>2 DEF Typed, Placed, Get
    <3>3. PlacedAt(a)'
      BY <2>2, <3>1, <3>2 DEF PlacedAt, Places, RefreshPCs
    <3>4. faults' \in Nat
      BY <2>2, FaultType DEF Typed
    <3>5. \A q \in Requests : pc'[q] # "off" => patch'[q] \in Patches
      BY <1>2, <3>1, <3>2, Kinds DEF Get, Typed, Only
    <3>. QED BY <1>2, <2>2, <3>1, <3>3, <3>4, <3>5, OnlyPlaced DEF Get, Typed, TypeOK, Only
  <2>. QED BY <1>2, <2>1, <2>2 DEF Get
<1>3. CASE Select(a)
  <2>1. Only(a) /\ pc'[a] = "apply" /\ got' \in [Actors -> Row \cup {Nothing}] /\ got'[a] = row
    BY <1>3 DEF Select, Goto, Only, Typed, TypeOK
  <2>2. PlacedAt(a) /\ pc[a] = "select"
    BY <1>3 DEF Typed, Placed, Select
  <2>3. PlacedAt(a)'
    BY <1>3, <2>1, <2>2 DEF PlacedAt, Places, RefreshPCs, Select, Typed, TypeOK
  <2>4. \A q \in Requests : pc'[q] # "off" => patch'[q] \in Patches
    BY <1>3, <2>1, <2>2, Kinds DEF Select, Typed, Only
  <2>. QED BY <1>3, <2>1, <2>3, <2>4, OnlyPlaced DEF Select, Typed, TypeOK, Only
<1>4. CASE Defaulted(a)
  BY <1>1, <1>4, DefaultRow, FaultType DEF Defaulted, Typed, TypeOK
<1>5. CASE Apply(a)
  <2>1. got[a] \in Row
    BY <1>5 DEF Apply, Typed, Placed, PlacedAt
  <2>2. PICK flags \in Row : flags = got[a]
    BY <2>1
  <2>. QED BY <1>1, <1>5, <2>2 DEF Apply, Typed
<1>6. UNCHANGED <<patch, armed>>
  BY DEF RefreshStep, Get, Select, Defaulted, Apply
<1>. QED BY <1>2, <1>3, <1>4, <1>5, <1>6 DEF RefreshStep

\* The death of a process.
LEMMA GoneTyped ==
  ASSUME Typed, NEW p \in Processes, Gone(p), UNCHANGED <<row, redis, lost>>,
         faults' \in Nat, beats' \subseteq Processes
  PROVE  Typed'
<1>1. \A q \in Requests : pc'[q] # "off" => patch'[q] \in Patches
  BY GonePlaced DEF Typed
<1>2. /\ Placed' /\ DOMAIN pc' = Actors /\ DOMAIN back' = Actors
      /\ got' \in [Actors -> Row \cup {Nothing}]
      /\ cache' \in [Processes -> Row \cup {Nothing}]
      /\ armed' \in [Processes -> SUBSET Slots]
      /\ overlap' \in BOOLEAN /\ DOMAIN patch' = Requests
  BY GonePlaced
<1>. QED BY <1>1, <1>2 DEF Typed, TypeOK

\* A step of an actor that is no request, or a request that ends.
LEMMA WalkTyped ==
  ASSUME Typed, Placed', DOMAIN pc' = Actors, DOMAIN back' = Actors, UNCHANGED <<row, redis, cache, got, lost>>,
         overlap' \in BOOLEAN, faults' \in Nat, DOMAIN patch' = Requests,
         beats' \subseteq Processes, armed' \in [Processes -> SUBSET Slots],
         \A q \in Requests : pc'[q] # "off" => pc[q] # "off" /\ patch'[q] = patch[q]
  PROVE  Typed'
  BY DEF Typed, TypeOK

\* A step of a loop that goes elsewhere without a refresh, or with one.
LEMMA LoopTyped ==
  ASSUME Typed, NEW s \in Slots, LoopStep(s) \/ Delay(s), ~RefreshStep(s), ~(Check(s) /\ Gone(Process[s]))
  PROVE  /\ Typed' /\ Only(s) /\ UNCHANGED <<row, redis, cache, got, patch, armed, overlap, lost>>
         /\ faults' >= faults /\ pc'[s] # "apply"
<1>1. /\ UNCHANGED <<row, redis, cache, got, patch, armed, overlap, lost>>
      /\ beats' \subseteq Processes /\ faults' \in Nat /\ faults' >= faults
  <2>1. beats' \subseteq Processes
    BY Kinds DEF LoopStep, Iterate, Claim, BatchEnds, Idle, IdleCheck, Check, Delay, Gone, Typed, TypeOK
  <2>2. faults' = faults \/ Fault
    BY DEF LoopStep, Iterate, Claim, BatchEnds, Idle, IdleCheck, Check, Delay
  <2>3. faults' \in Nat /\ faults' >= faults
    BY <2>2 DEF Fault, Typed
  <2>4. UNCHANGED <<row, redis, cache, got, patch, armed, overlap, lost>>
    BY DEF LoopStep, Iterate, Claim, BatchEnds, Idle, IdleCheck, Check, Delay
  <2>. QED BY <2>1, <2>3, <2>4
<1>2. \/ /\ \E where \in {"off", "ready", "busy", "slow", "hung", "idle"} : Goto(s, where)
         /\ UNCHANGED back
      \/ \E then \in {"claim", "check"} : Refresh(s, then)
  BY DEF LoopStep, Iterate, Claim, BatchEnds, Idle, IdleCheck, Check, Delay
<1>3. s \in Actors /\ s \notin Requests
  BY Kinds
<1>4. Placed' /\ Only(s) /\ pc'[s] # "apply"
  <2>1. ASSUME NEW where \in {"off", "ready", "busy", "slow", "hung", "idle"}, Goto(s, where), UNCHANGED back
        PROVE  Placed' /\ Only(s) /\ pc'[s] # "apply"
    <3>1. where \in Places(s) \ RefreshPCs
      BY <1>3 DEF Places, RefreshPCs
    <3>2. Placed' /\ Only(s) /\ pc'[s] = where
      BY <1>1, <1>3, <2>1, <3>1, GoPlaced
    <3>. QED BY <3>2
  <2>2. ASSUME NEW then \in {"claim", "check"}, Refresh(s, then)
        PROVE  Placed' /\ Only(s) /\ pc'[s] # "apply"
    <3>1. then \in Backs(s)
      BY <1>3 DEF Backs
    <3>. QED BY <1>1, <1>3, <2>2, <3>1, RefreshPlaced
  <2>. QED BY <1>2, <2>1, <2>2
<1>5. \A q \in Requests : pc'[q] = pc[q]
  BY <1>3, <1>4, Kinds DEF Only
<1>. QED BY <1>1, <1>4, <1>5, WalkTyped DEF Only, Typed, TypeOK

LEMMA TypedStep == Typed /\ [Next]_vars => Typed'
<1>. SUFFICES ASSUME Typed, [Next]_vars PROVE Typed'
  OBVIOUS
<1>1. ASSUME NEW a \in Actors, RefreshStep(a) PROVE Typed'
  BY <1>1, RefreshTyped
<1>2. ASSUME NEW p \in Processes, Boot(p) PROVE Typed'
  <2>1. p \in Actors /\ p \notin Requests /\ "start" \in Backs(p)
    BY Kinds DEF Backs
  <2>2. Only(p) /\ Placed'
    BY <1>2, <2>1, RefreshPlaced DEF Boot
  <2>3. \A q \in Requests : pc'[q] = pc[q]
    BY <2>1, <2>2, Kinds DEF Only
  <2>. QED BY <1>2, <2>2, <2>3, WalkTyped DEF Boot, Only, Typed, TypeOK
<1>3. ASSUME NEW p \in Processes, StartApp(p) PROVE Typed'
  <2>1. p \in Actors \ Slots /\ p \notin Requests /\ "up" \in Places(p) \ RefreshPCs
    BY Kinds DEF Places, RefreshPCs
  <2>2. /\ Placed' /\ DOMAIN pc' = Actors /\ DOMAIN back' = Actors
        /\ \A a \in Actors \ Slots : a # p => pc'[a] = pc[a]
        /\ armed' \in [Processes -> SUBSET Slots]
    BY <1>3, <2>1, StartPlaced DEF StartApp
  <2>3. \A q \in Requests : pc'[q] = pc[q]
    BY <2>1, <2>2, Kinds
  <2>. QED BY <1>3, <2>2, <2>3, WalkTyped DEF StartApp, Typed, TypeOK
<1>4. ASSUME NEW p \in Processes, StartWorker(p) PROVE Typed'
  <2>1. p \in Actors \ Slots /\ p \notin Requests /\ "up" \in Places(p) \ RefreshPCs
    BY Kinds DEF Places, RefreshPCs
  <2>2. CASE Gone(p)
    BY <1>4, <2>2, GoneTyped DEF StartWorker, Typed, TypeOK
  <2>3. CASE Arm(p, 1, p, "up") /\ UNCHANGED <<cache, back, got, patch, overlap>>
    <3>1. /\ Placed' /\ DOMAIN pc' = Actors /\ DOMAIN back' = Actors
          /\ \A a \in Actors \ Slots : a # p => pc'[a] = pc[a]
          /\ armed' \in [Processes -> SUBSET Slots]
      BY <2>1, <2>3, ArmPlaced
    <3>2. \A q \in Requests : pc'[q] = pc[q]
      BY <2>1, <3>1, Kinds
    <3>. QED BY <1>4, <2>3, <3>1, <3>2, WalkTyped DEF StartWorker, Typed, TypeOK
  <2>. QED BY <1>4, <2>2, <2>3 DEF StartWorker
<1>5. ASSUME NEW p \in Processes, Crash(p) \/ Stopped(p) \/ Watchdog(p) PROVE Typed'
  <2>1. Gone(p) /\ UNCHANGED <<row, redis, lost>> /\ beats' \subseteq beats
    BY <1>5 DEF Crash, Stopped, Watchdog
  <2>2. faults' \in Nat
    BY <1>5, FaultType DEF Crash, Stopped, Watchdog, Typed
  <2>. QED BY <2>1, <2>2, GoneTyped DEF Typed, TypeOK
<1>6. ASSUME NEW p \in Processes, Terminate(p) PROVE Typed'
  <2>1. p \in Actors /\ p \notin Requests /\ "stop" \in Places(p) \ RefreshPCs
    BY Kinds DEF Places, RefreshPCs
  <2>2. Only(p) /\ Placed'
    BY <1>6, <2>1, GoPlaced DEF Terminate
  <2>3. \A q \in Requests : pc'[q] = pc[q]
    BY <2>1, <2>2, Kinds DEF Only
  <2>4. armed' \in [Processes -> SUBSET Slots]
    BY <1>6 DEF Terminate, Typed, TypeOK
  <2>. QED BY <1>6, <2>2, <2>3, <2>4, WalkTyped DEF Terminate, Only, Typed, TypeOK
<1>7. ASSUME NEW p \in Processes, BeatAges(p) PROVE Typed'
  <2>1. Placed'
    BY <1>7 DEF BeatAges, actors, Placed, PlacedAt, Typed
  <2>. QED BY <1>7, <2>1, WalkTyped DEF BeatAges, actors, Typed, TypeOK
<1>8. ASSUME NEW s \in Slots, LoopStep(s) \/ Delay(s) PROVE Typed'
  <2>1. CASE RefreshStep(s)
    BY <1>1, <2>1, Kinds
  <2>2. CASE Check(s) /\ Gone(Process[s])
    <3>1. PICK p \in Processes : p = Process[s]
      BY Kinds
    <3>2. faults' \in Nat /\ beats' \subseteq Processes /\ UNCHANGED <<row, redis, lost>>
      BY <2>2, <3>1 DEF Check, Typed, TypeOK
    <3>. QED BY <2>2, <3>1, <3>2, GoneTyped
  <2>. QED BY <1>8, <2>1, <2>2, LoopTyped
<1>9. ASSUME NEW q \in Requests, Patch(q) PROVE Typed'
  <2>1. q \in Actors /\ "merge" \in Backs(q)
    BY Kinds DEF Backs
  <2>2. Only(q) /\ Placed'
    BY <1>9, <2>1, RefreshPlaced DEF Patch
  <2>3. \A r \in Requests \ {q} : pc'[r] = pc[r] /\ patch'[r] = patch[r]
    BY <1>9, <2>2, Kinds DEF Only, Patch
  <2>4. patch'[q] \in Patches /\ DOMAIN patch' = Requests
    BY <1>9 DEF Patch, Typed
  <2>. QED BY <1>9, <2>2, <2>3, <2>4 DEF Patch, Only, Typed, TypeOK
<1>10. ASSUME NEW q \in Requests, Merge(q) PROVE Typed'
  <2>1. q \in Actors /\ "del" \in Places(q) \ RefreshPCs /\ Process[q] \in Processes
    BY Kinds DEF Places, RefreshPCs
  <2>2. Only(q) /\ Placed'
    BY <1>10, <2>1, GoPlaced DEF Merge
  <2>3. row' \in Row
    <3>1. patch[q] \in Patches
      BY <1>10 DEF Merge, Typed
    <3>2. PICK flags \in Row : flags = FlagsOf(Process[q])
      BY <2>1, FlagsAreRow
    <3>. QED BY <1>10, <3>1, <3>2, MergedRow DEF Merge
  <2>4. lost' \in BOOLEAN /\ overlap' \in BOOLEAN
    BY <1>10 DEF Merge, Typed
  <2>5. \A r \in Requests : pc'[r] # "off" => pc[r] # "off"
    BY <1>10, <2>2, Kinds DEF Only, Merge
  <2>. QED BY <1>10, <2>2, <2>3, <2>4, <2>5 DEF Merge, Only, Typed, TypeOK
<1>11. ASSUME NEW q \in Requests, MergeFails(q) PROVE Typed'
  <2>1. q \in Actors /\ "off" \in Places(q) \ RefreshPCs
    BY Kinds DEF Places, RefreshPCs
  <2>2. Only(q) /\ Placed' /\ pc'[q] = "off"
    BY <1>11, <2>1, GoPlaced DEF MergeFails
  <2>3. /\ DOMAIN patch' = Requests
        /\ \A r \in Requests : pc'[r] # "off" => pc[r] # "off" /\ patch'[r] = patch[r]
    BY <1>11, <2>2, Kinds DEF Only, MergeFails, Typed
  <2>4. faults' \in Nat
    BY <1>11, FaultType DEF MergeFails
  <2>. QED BY <1>11, <2>2, <2>3, <2>4, WalkTyped DEF MergeFails, Only, Typed, TypeOK
<1>12. ASSUME NEW q \in Requests, Drop(q) PROVE Typed'
  <2>1. q \in Actors /\ "answer" \in Backs(q) /\ Process[q] \in Processes
    BY Kinds DEF Backs
  <2>2. Only(q) /\ Placed'
    BY <1>12, <2>1, RefreshPlaced DEF Drop
  <2>3. cache' \in [Processes -> Row \cup {Nothing}]
    BY <1>12, <2>1, CachedType DEF Drop
  <2>4. redis' \in Row \cup {Nothing} /\ faults' \in Nat
    BY <1>12, FaultType DEF Drop, Uncopied, Typed, TypeOK
  <2>5. \A r \in Requests : pc'[r] # "off" => pc[r] # "off"
    BY <1>12, <2>2, Kinds DEF Only, Drop
  <2>. QED BY <1>12, <2>2, <2>3, <2>4, <2>5 DEF Drop, Only, Typed, TypeOK
<1>13. ASSUME NEW q \in Requests, Answer(q) PROVE Typed'
  <2>1. q \in Actors \ Slots /\ "off" \in Places(q) \ RefreshPCs /\ Process[q] \in Processes
    BY Kinds DEF Places, RefreshPCs
  <2>2. /\ Placed' /\ DOMAIN pc' = Actors /\ DOMAIN back' = Actors /\ pc'[q] = "off"
        /\ \A a \in Actors \ Slots : a # q => pc'[a] = pc[a]
        /\ armed' \in [Processes -> SUBSET Slots]
    <3>1. CASE LoopsChanged(patch[q])
      BY <1>13, <2>1, <3>1, StartPlaced DEF Answer
    <3>2. CASE ~LoopsChanged(patch[q])
      <4>1. Goto(q, "off") /\ UNCHANGED <<armed, back, got>>
        BY <1>13, <3>2 DEF Answer
      <4>2. Only(q) /\ Placed' /\ pc'[q] = "off"
        BY <2>1, <4>1, GoPlaced
      <4>. QED BY <4>1, <4>2 DEF Only, Typed, TypeOK
    <3>. QED BY <3>1, <3>2
  <2>3. /\ DOMAIN patch' = Requests
        /\ \A r \in Requests : pc'[r] # "off" => pc[r] # "off" /\ patch'[r] = patch[r]
    BY <1>13, <2>2, Kinds DEF Answer, Typed
  <2>. QED BY <1>13, <2>2, <2>3, WalkTyped DEF Answer, Typed, TypeOK
<1>14. CASE Expire
  <2>1. Placed'
    BY <1>14 DEF Expire, actors, Placed, PlacedAt, Typed
  <2>. QED BY <1>14, <2>1 DEF Expire, actors, Typed, TypeOK
<1>15. CASE UNCHANGED vars
  <2>1. Placed'
    BY <1>15 DEF vars, actors, Placed, PlacedAt, Typed
  <2>. QED BY <1>15, <2>1 DEF vars, actors, Typed, TypeOK
<1>. QED
  BY <1>1, <1>2, <1>3, <1>4, <1>5, <1>6, <1>7, <1>8, <1>9, <1>10, <1>11, <1>12, <1>13, <1>14, <1>15,
     Kinds DEF Next, ProcessStep, RequestStep

-----------------------------------------------------------------------------
(* Fresh copies. *)

\* While a request is under way no other one is; one that is not at the deletion
\* finds no copy in Redis but the row.
LEMMA Single ==
  ASSUME Fresh, NEW q \in Requests, pc[q] # "off"
  PROVE  /\ \A r \in Requests \ {q} : pc[r] = "off"
         /\ pc[q] # "del" => redis \in {Nothing, row}
  BY DEF Fresh

\* A step in which no request moves and nothing is read but the row.
LEMMA QuietFresh ==
  ASSUME Fresh, UNCHANGED <<row, lost>>, \A q \in Requests : pc'[q] = pc[q],
         redis' \in {redis, Nothing, row},
         \A a \in Actors : pc'[a] = "apply" => (pc[a] = "apply" /\ got'[a] = got[a]) \/ got'[a] = row,
         \A q \in Requests : pc[q] \in {"merge", "answer"} =>
            cache'[Process[q]] \in {cache[Process[q]], row}
  PROVE  Fresh'
  BY DEF Fresh

\* A step of the request under way.
LEMMA RequestFresh ==
  ASSUME NEW q \in Requests, \A r \in Requests \ {q} : pc'[r] = "off",
         \A a \in Actors : pc'[a] = "apply" => got'[a] = row',
         redis' \in {Nothing, row'} \/ pc'[q] = "del",
         pc'[q] \in {"merge", "answer"} => cache'[Process[q]] = row',
         ~lost'
  PROVE  Fresh'
  BY DEF Fresh

\* A step of a loop or a process that is no refresh.
LEMMA WalkFresh ==
  ASSUME Fresh, UNCHANGED <<row, lost, redis, cache, got>>,
         \A q \in Requests : pc'[q] = pc[q],
         \A a \in Actors : pc'[a] = "apply" => pc[a] = "apply"
  PROVE  Fresh'
  BY DEF Fresh

\* A process that is gone had no request, or it counts as one that was met.
LEMMA GoneFresh ==
  ASSUME Typed, Fresh, NEW p \in Processes, Gone(p), ~overlap', UNCHANGED <<row, redis, lost>>
  PROVE  Fresh'
<1>1. \A q \in Requests : Process[q] = p => pc[q] = "off"
  BY DEF Gone
<1>2. \A a \in Actors : IF Of(a) = p THEN pc'[a] = "off"
                        ELSE pc'[a] = pc[a] /\ back'[a] = back[a] /\ got'[a] = got[a]
  BY GonePlaced
<1>3. \A q \in Requests : pc'[q] = pc[q]
  BY <1>1, <1>2, Kinds
<1>4. \A q \in Requests : pc[q] \in {"merge", "answer"} => cache'[Process[q]] = cache[Process[q]]
  <2>1. \A r \in Processes \ {p} : cache'[r] = cache[r]
    BY GonePlaced
  <2>. QED BY <1>1, <2>1, Kinds
<1>. QED BY <1>2, <1>3, <1>4, QuietFresh

\* What a refresh does to its actor, and to the copies.
LEMMA RefreshEffect ==
  ASSUME Typed, Fresh, NEW a \in Actors, RefreshStep(a), faults = 0, faults' = 0
  PROVE  /\ Only(a) /\ pc[a] \in RefreshPCs /\ Of(a) \in Processes
         /\ UNCHANGED <<row, lost, patch, armed>>
         /\ \/ /\ Return(a) /\ pc'[a] = back[a] /\ back[a] \in Backs(a)
               /\ \/ redis # Nothing /\ Cached(Of(a), redis) /\ UNCHANGED redis
                  \/ Cached(Of(a), row) /\ redis' = row
            \/ /\ pc'[a] \in {"select", "apply"} /\ UNCHANGED <<redis, cache, back>>
               /\ pc'[a] = "apply" => got'[a] = row
<1>1. Only(a) /\ pc[a] \in RefreshPCs /\ Of(a) \in Processes
  BY RefreshTyped, Kinds DEF RefreshStep, Get, Select, Defaulted, Apply, RefreshPCs
<1>2. ~Defaulted(a) /\ ~Fault
  BY DEF Defaulted, Fault
<1>3. UNCHANGED <<row, lost, patch, armed>>
  BY DEF RefreshStep, Get, Select, Defaulted, Apply
<1>4. \/ /\ Return(a) /\ pc'[a] = back[a] /\ back[a] \in Backs(a)
         /\ \/ redis # Nothing /\ Cached(Of(a), redis) /\ UNCHANGED redis
            \/ Cached(Of(a), row) /\ redis' = row
      \/ /\ pc'[a] \in {"select", "apply"} /\ UNCHANGED <<redis, cache, back>>
         /\ pc'[a] = "apply" => got'[a] = row
  <2>1. CASE Get(a)
    <3>1. CASE redis # Nothing /\ Cached(Of(a), redis) /\ Return(a)
      <4>1. pc'[a] = back[a] /\ back[a] \in Backs(a)
        BY <1>1, <3>1, ReturnPlaced
      <4>. QED BY <2>1, <3>1, <4>1 DEF Get
    <3>2. CASE Goto(a, "select") /\ UNCHANGED <<cache, back>>
      BY <2>1, <3>2 DEF Get, Goto, Typed, TypeOK
    <3>. QED BY <2>1, <3>1, <3>2 DEF Get
  <2>2. CASE Select(a)
    BY <2>2 DEF Select, Goto, Typed, TypeOK
  <2>3. CASE Apply(a)
    <3>1. got[a] = row
      BY <2>3 DEF Fresh, Apply
    <3>2. Return(a) /\ Cached(Of(a), row) /\ redis' = row
      BY <2>3, <3>1 DEF Apply
    <3>3. pc'[a] = back[a] /\ back[a] \in Backs(a)
      BY <1>1, <3>2, ReturnPlaced
    <3>. QED BY <3>2, <3>3
  <2>. QED BY <1>2, <2>1, <2>2, <2>3 DEF RefreshStep
<1>. QED BY <1>1, <1>3, <1>4

\* A refresh, of a request or of another actor.
LEMMA RefreshFresh ==
  ASSUME Typed, Fresh, NEW a \in Actors, RefreshStep(a), faults = 0, faults' = 0
  PROVE  Fresh'
<1>1. Only(a) /\ pc[a] \in RefreshPCs /\ Of(a) \in Processes
  BY RefreshEffect
<1>3. UNCHANGED <<row, lost>>
  BY RefreshEffect
<1>4. \/ /\ Return(a) /\ pc'[a] = back[a] /\ back[a] \in Backs(a)
         /\ \/ redis # Nothing /\ Cached(Of(a), redis) /\ UNCHANGED redis
            \/ Cached(Of(a), row) /\ redis' = row
      \/ /\ pc'[a] \in {"select", "apply"} /\ UNCHANGED <<redis, cache>>
         /\ pc'[a] = "apply" => got'[a] = row
  BY RefreshEffect
<1>5. /\ row \in Row /\ redis \in Row \cup {Nothing}
      /\ \A b \in Actors : pc'[b] = "apply" =>
            (pc[b] = "apply" /\ b # a /\ got'[b] = got[b]) \/ got'[b] = row
  <2>1. "apply" \notin Backs(a)
    BY DEF Backs
  <2>. QED BY <1>1, <1>4, <2>1 DEF Only, Typed, TypeOK
<1>6. CASE a \in Requests
  <2>1. /\ \A r \in Requests \ {a} : pc'[r] = "off"
        /\ redis \in {Nothing, row} /\ Of(a) = Process[a]
    <3>1. pc[a] # "off" /\ pc[a] # "del"
      BY <1>1 DEF RefreshPCs
    <3>. QED BY <1>1, <1>6, <3>1, Single, Kinds DEF Only
  <2>2. redis' \in {Nothing, row}
    BY <1>4, <2>1
  <2>3. pc'[a] \in {"merge", "answer"} => cache'[Process[a]] = row
    <3>1. CASE Return(a)
      <4>1. Cached(Of(a), row) \/ pc'[a] \in {"select", "apply"}
        BY <1>4, <2>1
      <4>2. CASE Cached(Of(a), row)
        BY <1>1, <1>5, <2>1, <4>2, CachedType
      <4>. QED BY <4>1, <4>2
    <3>. QED BY <1>4, <3>1
  <2>. QED BY <1>3, <1>5, <1>6, <2>1, <2>2, <2>3, RequestFresh DEF Fresh
<1>7. CASE a \notin Requests
  <2>1. \A q \in Requests : pc'[q] = pc[q]
    BY <1>1, <1>7, Kinds DEF Only
  <2>2. ASSUME NEW q \in Requests, pc[q] \in {"merge", "answer"}
        PROVE  cache'[Process[q]] \in {cache[Process[q]], row}
    <3>1. redis \in {Nothing, row}
      BY <2>2, Single
    <3>2. UNCHANGED cache \/ Cached(Of(a), row)
      BY <1>4, <3>1
    <3>. QED BY <1>1, <1>5, <3>2, CachedType, Kinds
  <2>3. redis' \in {redis, row}
    BY <1>4
  <2>4. \A b \in Actors : pc'[b] = "apply" => (pc[b] = "apply" /\ got'[b] = got[b]) \/ got'[b] = row
    BY <1>5
  <2>. QED BY <1>3, <2>1, <2>2, <2>3, <2>4, QuietFresh
<1>. QED BY <1>6, <1>7

LEMMA InitFresh == Init => Fresh
<1>. SUFFICES ASSUME Init PROVE Fresh
  OBVIOUS
<1>1. \A a \in Actors : pc[a] = "off"
  BY DEF Init
<1>. QED BY <1>1, Kinds DEF Init, Fresh

\* A request merges what it sets into the row, as no refresh is under way that
\* read the row before.
LEMMA MergeFresh ==
  ASSUME Typed, Fresh, NEW q \in Requests, Merge(q), ~overlap'
  PROVE  /\ Fresh' /\ FlagsOf(Process[q]) = row
         /\ \A x \in Fields \ DOMAIN patch[q] : row'[x] = row[x]
<1>1. pc[q] = "merge" /\ patch[q] \in Patches /\ row \in Row
  BY DEF Merge, Typed, TypeOK
<1>2. FlagsOf(Process[q]) = row
  BY <1>1, RowFields DEF Fresh, FlagsOf
<1>3. /\ row' = Merged(row, patch[q])
      /\ lost' = (lost \/ \E x \in Fields \ DOMAIN patch[q] : Merged(row, patch[q])[x] # row[x])
      /\ UNCHANGED <<got, redis, cache>> /\ \A a \in Actors : pc[a] # "apply"
  BY <1>2 DEF Merge
<1>4. \A x \in Fields \ DOMAIN patch[q] : row'[x] = row[x]
  BY <1>1, <1>3, MergedRow
<1>5. ~lost'
  BY <1>3, <1>4 DEF Fresh
<1>6. Only(q) /\ pc'[q] = "del"
  BY Kinds DEF Merge, Goto, Only, Typed, TypeOK
<1>7. \A r \in Requests \ {q} : pc'[r] = "off"
  BY <1>1, <1>6, Single, Kinds DEF Only
<1>8. \A a \in Actors : pc'[a] # "apply"
  BY <1>3, <1>6 DEF Only
<1>9. Fresh'
  BY <1>5, <1>6, <1>7, <1>8, RequestFresh
<1>. QED BY <1>2, <1>4, <1>9

\* A step into a calm state is one from a calm state.
LEMMA CalmBefore ==
  ASSUME Typed, [Next]_vars, ~overlap', faults' = 0
  PROVE  ~overlap /\ faults = 0
<1>1. overlap => overlap'
  BY ZenonT(40) DEF Next, ProcessStep, LoopStep, RequestStep, RefreshStep, Get, Select, Defaulted, Apply, Boot, StartApp,
         StartWorker, Crash, Terminate, Stopped, BeatAges, Watchdog, Iterate, Claim, BatchEnds, Delay,
         Idle, IdleCheck, Check, Patch, Merge, MergeFails, Drop, Answer, Expire, Gone, vars
<1>2. faults' = faults \/ Fault
  BY DEF Next, ProcessStep, LoopStep, RequestStep, RefreshStep, Get, Select, Defaulted, Apply, Boot, StartApp,
         StartWorker, Crash, Terminate, Stopped, BeatAges, Watchdog, Iterate, Claim, BatchEnds, Delay,
         Idle, IdleCheck, Check, Patch, Merge, MergeFails, Drop, Answer, Expire, vars
<1>3. ~Fault
  BY DEF Fault, Typed
<1>. QED BY <1>1, <1>2, <1>3

LEMMA FreshStep == Typed /\ FreshInv /\ [Next]_vars => FreshInv'
<1>. SUFFICES ASSUME Typed, FreshInv, [Next]_vars, ~overlap', faults' = 0 PROVE Fresh'
  BY DEF FreshInv, Calm
<1>0. ~overlap /\ faults = 0
  BY CalmBefore
<1>00. Fresh /\ ~Fault
  BY <1>0 DEF FreshInv, Calm, Fault
<1>1. ASSUME NEW a \in Actors, RefreshStep(a) PROVE Fresh'
  BY <1>0, <1>00, <1>1, RefreshFresh
<1>2. ASSUME NEW p \in Processes, Boot(p) \/ Terminate(p) PROVE Fresh'
  <2>1. /\ UNCHANGED <<row, lost, redis, cache, got>>
        /\ \A a \in Actors : a # p => pc'[a] = pc[a]
        /\ pc'[p] # "apply"
    BY <1>2, Kinds DEF Boot, Terminate, Refresh, Goto, Typed, TypeOK
  <2>. QED BY <1>00, <2>1, WalkFresh, Kinds
<1>3. ASSUME NEW p \in Processes, StartApp(p) PROVE Fresh'
  <2>1. p \in Actors \ Slots /\ p \notin Requests /\ "up" \in Places(p) \ RefreshPCs
    BY Kinds DEF Places, RefreshPCs
  <2>2. /\ pc'[p] = "up" /\ \A a \in Actors \ Slots : a # p => pc'[a] = pc[a]
        /\ \A s \in Slots : pc'[s] = pc[s] \/ pc'[s] = "ready"
    BY <1>3, <2>1, StartPlaced DEF StartApp
  <2>3. \A a \in Actors : pc'[a] = "apply" => pc[a] = "apply"
    BY <2>2
  <2>. QED BY <1>00, <1>3, <2>1, <2>2, <2>3, WalkFresh, Kinds DEF StartApp
<1>4. ASSUME NEW p \in Processes, StartWorker(p) PROVE Fresh'
  <2>1. p \in Actors \ Slots /\ p \notin Requests /\ "up" \in Places(p) \ RefreshPCs
    BY Kinds DEF Places, RefreshPCs
  <2>2. CASE Gone(p)
    BY <1>00, <1>4, <2>2, GoneFresh DEF StartWorker
  <2>3. CASE Arm(p, 1, p, "up") /\ UNCHANGED <<cache, back, got, patch, overlap>>
    <3>1. /\ pc'[p] = "up" /\ \A a \in Actors \ Slots : a # p => pc'[a] = pc[a]
          /\ \A s \in Slots : pc'[s] = pc[s] \/ pc'[s] = "ready"
      BY ZenonT(40), <2>1, <2>3, ArmPlaced
    <3>2. \A a \in Actors : pc'[a] = "apply" => pc[a] = "apply"
      BY <3>1
    <3>. QED BY <1>00, <1>4, <2>1, <2>3, <3>1, <3>2, WalkFresh, Kinds DEF StartWorker
  <2>. QED BY <1>4, <2>2, <2>3 DEF StartWorker
<1>5. ASSUME NEW p \in Processes, Crash(p) \/ Stopped(p) \/ Watchdog(p) PROVE Fresh'
  BY <1>00, <1>5, GoneFresh DEF Crash, Stopped, Watchdog
<1>6. ASSUME NEW p \in Processes, BeatAges(p) PROVE Fresh'
  BY <1>00, <1>6, WalkFresh DEF BeatAges, actors
<1>7. ASSUME NEW s \in Slots, LoopStep(s) \/ Delay(s) PROVE Fresh'
  <2>1. CASE RefreshStep(s)
    BY <1>1, <2>1, Kinds
  <2>2. CASE Check(s) /\ Gone(Process[s])
    <3>1. PICK p \in Processes : p = Process[s]
      BY Kinds
    <3>. QED BY <1>00, <2>2, <3>1, GoneFresh DEF Check
  <2>3. CASE ~RefreshStep(s) /\ ~(Check(s) /\ Gone(Process[s]))
    <3>1. /\ Only(s) /\ UNCHANGED <<row, redis, cache, got, patch, armed, overlap, lost>>
          /\ pc'[s] # "apply"
      BY <1>7, <2>3, LoopTyped
    <3>2. \A q \in Requests : pc'[q] = pc[q]
      BY <3>1, Kinds DEF Only
    <3>3. \A a \in Actors : pc'[a] = "apply" => pc[a] = "apply"
      BY <3>1 DEF Only
    <3>. QED BY <1>00, <3>1, <3>2, <3>3, WalkFresh
  <2>. QED BY <2>1, <2>2, <2>3
<1>8. ASSUME NEW q \in Requests, Patch(q) PROVE Fresh'
  <2>1. \A r \in Requests \ {q} : pc[r] = "off"
    BY <1>8 DEF Patch, InFlight
  <2>2. pc[q] = "off" /\ redis \in {Nothing, row}
    BY <1>00, <1>8, <2>1 DEF Patch, Fresh
  <2>3. /\ Only(q) /\ pc'[q] = "get"
    BY <1>8, Kinds DEF Patch, Refresh, Goto, Only, Typed, TypeOK
  <2>4. UNCHANGED <<row, redis, got, lost>>
    BY <1>8 DEF Patch
  <2>5. \A r \in Requests \ {q} : pc'[r] = "off"
    BY <2>1, <2>3, Kinds DEF Only
  <2>6. \A a \in Actors : pc'[a] = "apply" => got'[a] = row'
    BY <1>00, <2>3, <2>4 DEF Only, Fresh
  <2>. QED BY <1>00, <2>2, <2>3, <2>4, <2>5, <2>6, RequestFresh DEF Fresh
<1>9. ASSUME NEW q \in Requests, Merge(q) PROVE Fresh'
  BY <1>00, <1>9, MergeFresh
<1>10. ASSUME NEW q \in Requests, Drop(q) PROVE Fresh'
  <2>1. pc[q] = "del" /\ redis' = Nothing /\ UNCHANGED <<row, got, lost>>
    BY <1>00, <1>10 DEF Drop, Uncopied
  <2>2. Only(q) /\ pc'[q] = "get"
    BY <1>10, Kinds DEF Drop, Refresh, Goto, Only, Typed, TypeOK
  <2>3. \A r \in Requests \ {q} : pc'[r] = "off"
    BY <1>00, <2>1, <2>2, Single, Kinds DEF Only
  <2>4. \A a \in Actors : pc'[a] = "apply" => got'[a] = row'
    BY <1>00, <2>1, <2>2 DEF Only, Fresh
  <2>. QED BY <1>00, <2>1, <2>2, <2>3, <2>4, RequestFresh DEF Fresh
<1>11. ASSUME NEW q \in Requests, Answer(q) PROVE Fresh'
  <2>1. pc[q] = "answer" /\ UNCHANGED <<row, redis, cache, got, back, lost>>
    BY <1>11 DEF Answer
  <2>2. q \in Actors \ Slots /\ "off" \in Places(q) \ RefreshPCs /\ Process[q] \in Processes
    BY Kinds DEF Places, RefreshPCs
  <2>3. /\ pc'[q] = "off" /\ \A a \in Actors \ Slots : a # q => pc'[a] = pc[a]
        /\ \A s \in Slots : pc'[s] = pc[s] \/ pc'[s] = "ready"
    <3>1. CASE LoopsChanged(patch[q])
      BY <1>11, <2>2, <3>1, StartPlaced DEF Answer
    <3>2. CASE ~LoopsChanged(patch[q])
      BY <1>11, <2>2, <3>2, Kinds DEF Answer, Goto, Typed, TypeOK
    <3>. QED BY <3>1, <3>2
  <2>4. redis \in {Nothing, row} /\ \A r \in Requests \ {q} : pc[r] = "off"
    BY <1>00, <2>1, Single
  <2>5. \A r \in Requests \ {q} : pc'[r] = "off"
    BY <2>3, <2>4, Kinds
  <2>6. \A a \in Actors : pc'[a] = "apply" => got'[a] = row'
    BY <1>00, <2>1, <2>3 DEF Fresh
  <2>. QED BY <1>00, <2>1, <2>3, <2>4, <2>5, <2>6, RequestFresh DEF Fresh
<1>12. CASE Expire
  BY <1>00, <1>12, QuietFresh DEF Expire, actors
<1>13. CASE UNCHANGED vars
  BY <1>00, <1>13, WalkFresh DEF vars, actors
<1>14. ASSUME NEW q \in Requests PROVE ~MergeFails(q)
  BY <1>00 DEF MergeFails
<1>. QED
  BY <1>1, <1>2, <1>3, <1>4, <1>5, <1>6, <1>7, <1>8, <1>9, <1>10, <1>11, <1>12, <1>13, <1>14,
     Kinds DEF Next, ProcessStep, RequestStep

LEMMA FreshInvariant == Spec => [](Typed /\ FreshInv)
<1>1. Init => Typed /\ FreshInv
  BY InitTyped, InitFresh DEF FreshInv
<1>2. Typed /\ FreshInv /\ [Next]_vars => Typed' /\ FreshInv'
  BY TypedStep, FreshStep
<1>. QED BY <1>1, <1>2, PTL DEF Spec

\* The row and its copies keep their shape, the number of loops its limits.
THEOREM RuntimeTypeOK == Spec => []TypeOK
<1>1. Typed => TypeOK
  BY DEF Typed
<1>. QED BY <1>1, FreshInvariant, PTL

\* Requests that follow each other take no field back that another one set, for
\* any number of processes, loops and requests, whatever copies are about.
THEOREM NothingLost == Spec => []LostOnlyByOverlap
<1>1. Typed /\ FreshInv => LostOnlyByOverlap
  BY DEF FreshInv, Calm, Fresh, LostOnlyByOverlap, Typed
<1>. QED BY <1>1, FreshInvariant, PTL

-----------------------------------------------------------------------------
(* The loops of the one app. *)

OneApp == \A p, r \in Apps : p = r

\* No request sets the switch of the queue, on which the answer does not look.
SwitchLeft == \A f \in Patches : "normalizedQueueV2" \notin DOMAIN f

\* A step in which neither the row, nor a request, nor the app moves.
LEMMA QuietLooped ==
  ASSUME Looped, UNCHANGED row,
         \A q \in Requests : (pc'[q] # "off" <=> pc[q] # "off") /\ (Changing(q)' <=> Changing(q)),
         \A p \in Apps : /\ pc'[p] = pc[p] /\ armed'[p] = armed[p]
                         /\ pc[p] = "start" => cache'[p] \in {cache[p], row}
  PROVE  Looped'
<1>1. \A q \in Requests : pc'[q] # "off" => pc'[Process[q]] = "up"
  BY Kinds DEF Looped
<1>2. \A p \in Apps : pc'[p] = "start" => cache'[p] = row
  BY DEF Looped
<1>3. ASSUME NEW p \in Apps, pc'[p] = "up", \A q \in Requests : ~Changing(q)'
      PROVE  Cardinality(armed'[p]) = Wanted(row)
  BY <1>3 DEF Looped
<1>. QED BY <1>1, <1>2, <1>3 DEF Looped

\* Nobody asks anything of an app that is not up.
LEMMA Unasked ==
  ASSUME OneApp, Looped, NEW p \in Apps, pc[p] # "up"
  PROVE  \A q \in Requests : pc[q] = "off"
  BY Kinds DEF OneApp, Looped

\* A step after which the app is not up, or nobody asked anything of it before.
LEMMA RestLooped ==
  ASSUME OneApp, NEW p \in Apps, \A q \in Requests : pc'[q] = "off",
         pc'[p] = "start" => cache'[p] = row',
         pc'[p] = "up" => Cardinality(armed'[p]) = Wanted(row')
  PROVE  Looped'
  BY DEF OneApp, Looped, Wanted

LEMMA InitLooped == Init => Looped
<1>. SUFFICES ASSUME Init PROVE Looped
  OBVIOUS
<1>1. \A a \in Actors : pc[a] = "off"
  BY DEF Init
<1>. QED BY <1>1, Kinds DEF Looped

\* What a refresh leaves in the cache of an app that starts is the row.
LEMMA StartingFresh ==
  ASSUME OneApp, Fresh, Looped, NEW p \in Apps, pc[p] # "up"
  PROVE  redis \in {Nothing, row}
  BY Unasked DEF Fresh

\* The refresh of an actor.
LEMMA RefreshLooped ==
  ASSUME OneApp, Typed, Fresh, Looped, NEW a \in Actors, RefreshStep(a), faults = 0, faults' = 0
  PROVE  Looped'
<1>1. /\ Only(a) /\ pc[a] \in RefreshPCs /\ Of(a) \in Processes
      /\ UNCHANGED <<row, lost, patch, armed>>
  BY RefreshEffect
<1>2. \/ /\ Return(a) /\ pc'[a] = back[a] /\ back[a] \in Backs(a)
         /\ \/ redis # Nothing /\ Cached(Of(a), redis) /\ UNCHANGED redis
            \/ Cached(Of(a), row) /\ redis' = row
      \/ pc'[a] \in {"select", "apply"} /\ UNCHANGED <<redis, cache, back>>
  BY RefreshEffect
<1>3. ASSUME NEW p \in Apps, pc[p] # "up" PROVE UNCHANGED cache \/ Cached(Of(a), row)
  BY <1>2, <1>3, StartingFresh
<1>4. row \in Row
  BY DEF Typed, TypeOK
<1>5. CASE a \in Apps
  <2>1. pc[a] # "up" /\ Of(a) = a
    BY <1>1, <1>5, Kinds DEF RefreshPCs
  <2>2. \A q \in Requests : pc'[q] = "off"
    BY <1>1, <1>5, <2>1, Unasked, Kinds DEF Only
  <2>3. pc'[a] \in {"select", "apply"} \/ (pc'[a] = "start" /\ cache'[a] = row)
    <3>1. CASE Return(a)
      <4>1. pc'[a] \in {"select", "apply"} \/ (pc'[a] = "start" /\ Cached(Of(a), row))
        BY <1>2, <1>5, <2>1, StartingFresh, Kinds DEF Backs
      <4>. QED BY <1>1, <1>4, <2>1, <4>1, CachedType
    <3>. QED BY <1>2, <3>1
  <2>. QED BY <1>1, <1>5, <2>2, <2>3, RestLooped
<1>6. CASE a \in Requests
  <2>1. /\ \A r \in Requests \ {a} : pc'[r] = pc[r] /\ back'[r] = back[r]
        /\ \A p \in Apps : pc'[p] = pc[p]
    BY <1>1, <1>6, Kinds DEF Only
  <2>2. pc[a] # "off" /\ pc'[a] # "off"
    BY <1>1, <1>2, <1>6 DEF RefreshPCs, Backs
  <2>3. \A p \in Apps : pc[p] = "up"
    BY <1>6, <2>2, Unasked
  <2>4. Before(a)' <=> Before(a)
    <3>1. CASE Return(a) /\ pc'[a] = back[a] /\ back[a] \in Backs(a)
      <4>1. pc'[a] \in {"merge", "answer"} /\ pc'[a] \notin RefreshPCs
        BY <1>6, <3>1 DEF Backs, RefreshPCs
      <4>. QED BY <1>1, <3>1, <4>1 DEF Before, RefreshPCs
    <3>2. CASE pc'[a] \in {"select", "apply"} /\ UNCHANGED back
      BY <1>1, <3>2 DEF Before, RefreshPCs
    <3>. QED BY <1>2, <3>1, <3>2
  <2>5. \A q \in Requests : (pc'[q] # "off" <=> pc[q] # "off") /\ (Changing(q)' <=> Changing(q))
    BY <1>1, <2>1, <2>2, <2>4 DEF Changing, Before
  <2>. QED BY <1>1, <2>1, <2>3, <2>5, QuietLooped
<1>7. CASE a \notin Apps /\ a \notin Requests
  <2>1. /\ \A q \in Requests : pc'[q] = pc[q] /\ back'[q] = back[q]
        /\ \A p \in Apps : pc'[p] = pc[p]
    BY <1>1, <1>7, Kinds DEF Only
  <2>2. \A q \in Requests : (pc'[q] # "off" <=> pc[q] # "off") /\ (Changing(q)' <=> Changing(q))
    BY <1>1, <2>1 DEF Changing, Before
  <2>3. ASSUME NEW p \in Apps, pc[p] = "start" PROVE cache'[p] \in {cache[p], row}
    <3>1. UNCHANGED cache \/ Cached(Of(a), row)
      BY <1>3, <2>3
    <3>. QED BY <1>1, <1>4, <3>1, CachedType, Kinds
  <2>. QED BY <1>1, <2>1, <2>2, <2>3, QuietLooped
<1>. QED BY <1>5, <1>6, <1>7

\* A step that leaves the app and its requests alone.
LEMMA AsideLooped ==
  ASSUME Looped, UNCHANGED <<row, cache>>,
         \A q \in Requests : pc'[q] = pc[q] /\ (pc[q] # "off" => back'[q] = back[q] /\ patch'[q] = patch[q]),
         \A p \in Apps : pc'[p] = pc[p] /\ armed'[p] = armed[p]
  PROVE  Looped'
<1>1. \A q \in Requests : Changing(q)' <=> Changing(q)
  BY DEF Changing, Before
<1>. QED BY <1>1, QuietLooped

\* The app is gone, or a worker.
LEMMA GoneLooped ==
  ASSUME OneApp, Typed, Looped, NEW p \in Processes, Gone(p), ~overlap', UNCHANGED row
  PROVE  Looped'
<1>1. \A q \in Requests : Process[q] = p => pc[q] = "off"
  BY DEF Gone
<1>2. \A a \in Actors : IF Of(a) = p THEN pc'[a] = "off"
                        ELSE pc'[a] = pc[a] /\ back'[a] = back[a] /\ got'[a] = got[a]
  BY GonePlaced
<1>3. CASE p \in Apps
  <2>1. \A q \in Requests : Process[q] = p /\ Of(q) = p
    BY <1>3, Kinds DEF OneApp
  <2>2. \A q \in Requests : pc'[q] = "off"
    BY <1>2, <2>1, Kinds
  <2>3. pc'[p] = "off"
    BY <1>2, Kinds
  <2>. QED BY <1>3, <2>2, <2>3, RestLooped
<1>4. CASE p \notin Apps
  <2>1. \A q \in Requests : Of(q) # p /\ q \in Actors
    BY <1>4, Kinds
  <2>2. \A r \in Apps : r # p /\ Of(r) = r /\ r \in Processes /\ r \in Actors
    BY <1>4, Kinds
  <2>3. \A q \in Requests : pc'[q] = pc[q] /\ back'[q] = back[q] /\ patch'[q] = patch[q]
    BY <1>2, <2>1 DEF Gone
  <2>4. \A r \in Apps : pc'[r] = pc[r] /\ armed'[r] = armed[r] /\ cache'[r] = cache[r]
    BY <1>2, <2>2, GonePlaced
  <2>5. \A q \in Requests : Changing(q)' <=> Changing(q)
    BY <2>3 DEF Changing, Before
  <2>. QED BY <2>3, <2>4, <2>5, QuietLooped
<1>. QED BY <1>3, <1>4

\* A request that does not set the loops leaves alone what the row asks for.
LEMMA MergeLooped ==
  ASSUME OneApp, SwitchLeft, Typed, Fresh, Looped, NEW q \in Requests, Merge(q), ~overlap'
  PROVE  Looped'
<1>1. pc[q] = "merge" /\ patch[q] \in Patches /\ UNCHANGED <<cache, patch, armed>>
  BY DEF Merge, Typed
<1>2. Only(q) /\ pc'[q] = "del"
  BY Kinds DEF Merge, Goto, Only, Typed, TypeOK
<1>3. /\ \A r \in Requests \ {q} : pc'[r] = "off" /\ pc[r] = "off"
      /\ \A p \in Apps : pc'[p] = pc[p] /\ pc[p] = "up"
  BY <1>1, <1>2, Single, Unasked, Kinds DEF Only
<1>4. ~LoopsChanged(patch[q]) => Wanted(row') = Wanted(row)
  <2>. SUFFICES ASSUME ~LoopsChanged(patch[q]) PROVE Wanted(row') = Wanted(row)
    OBVIOUS
  <2>1. /\ "embeddedWorker" \in Fields \ DOMAIN patch[q]
        /\ "embeddedWorkerCount" \in Fields \ DOMAIN patch[q]
        /\ "normalizedQueueV2" \in Fields \ DOMAIN patch[q]
    BY <1>1 DEF LoopsChanged, SwitchLeft, Fields, Switches
  <2>2. \A x \in Fields \ DOMAIN patch[q] : row'[x] = row[x]
    BY MergeFresh
  <2>3. /\ row'["embeddedWorker"] = row["embeddedWorker"]
        /\ row'["embeddedWorkerCount"] = row["embeddedWorkerCount"]
        /\ row'["normalizedQueueV2"] = row["normalizedQueueV2"]
    BY <2>1, <2>2
  <2>. QED BY <2>3 DEF Wanted
<1>5. Changing(q)' <=> LoopsChanged(patch[q])
  BY <1>1, <1>2 DEF Changing, Before, RefreshPCs
<1>6. \A r \in Requests : ~Changing(r)
  BY <1>1, <1>3 DEF Changing, Before
<1>7. ASSUME NEW p \in Apps, \A r \in Requests : ~Changing(r)' PROVE Cardinality(armed'[p]) = Wanted(row')
  <2>1. Cardinality(armed[p]) = Wanted(row)
    BY <1>3, <1>6 DEF Looped
  <2>. QED BY <1>1, <1>4, <1>5, <1>7, <2>1
<1>8. \A r \in Requests : pc'[Process[r]] = "up"
  BY <1>3, Kinds
<1>9. \A p \in Apps : pc'[p] # "start"
  BY <1>3
<1>. QED BY <1>7, <1>8, <1>9 DEF Looped

\* The answer starts the loops that the row asks for.
LEMMA AnswerLooped ==
  ASSUME OneApp, Typed, Fresh, Looped, NEW q \in Requests, Answer(q)
  PROVE  Looped'
<1>1. pc[q] = "answer" /\ UNCHANGED <<row, cache, got, back>>
  BY DEF Answer
<1>2. q \in Actors \ Slots /\ "off" \in Places(q) \ RefreshPCs /\ Process[q] \in Processes /\ Process[q] \in Apps
  BY Kinds DEF Places, RefreshPCs
<1>3. /\ \A r \in Requests \ {q} : pc[r] = "off"
      /\ \A p \in Apps : pc[p] = "up"
  BY <1>1, Single, Unasked
<1>4. row \in Row /\ FlagsOf(Process[q]) = row
  BY <1>1, RowFields DEF Fresh, FlagsOf, Typed, TypeOK
<1>5. /\ pc'[q] = "off" /\ \A a \in Actors \ Slots : a # q => pc'[a] = pc[a]
      /\ Cardinality(armed'[Process[q]]) = Wanted(row)
  <2>1. CASE LoopsChanged(patch[q])
    <3>1. PICK p \in Processes : p = Process[q]
      BY <1>2
    <3>2. StartEmbedded(p, q, "off")
      BY <2>1, <3>1 DEF Answer
    <3>3. /\ pc'[q] = "off" /\ \A a \in Actors \ Slots : a # q => pc'[a] = pc[a]
          /\ Cardinality(armed'[p]) = Wanted(FlagsOf(p))
      BY <1>1, <1>2, <3>2, StartPlaced
    <3>. QED BY <1>4, <3>1, <3>3
  <2>2. CASE ~LoopsChanged(patch[q])
    <3>1. UNCHANGED armed /\ Goto(q, "off")
      BY <2>2 DEF Answer
    <3>2. \A r \in Requests : ~Changing(r)
      BY <1>3, <2>2 DEF Changing
    <3>3. Cardinality(armed[Process[q]]) = Wanted(row)
      BY <1>2, <1>3, <3>2 DEF Looped
    <3>. QED BY <1>2, <3>1, <3>3 DEF Goto, Typed, TypeOK
  <2>. QED BY <2>1, <2>2
<1>6. \A r \in Requests : pc'[r] = "off"
  BY <1>3, <1>5, Kinds
<1>7. pc'[Process[q]] = "up"
  BY <1>2, <1>3, <1>5, Kinds
<1>. QED BY <1>1, <1>2, <1>5, <1>6, <1>7, RestLooped

LEMMA LoopedStep ==
  ASSUME OneApp, SwitchLeft
  PROVE  Typed /\ FreshInv /\ LoopInv /\ [Next]_vars => LoopInv'
<1>. SUFFICES ASSUME Typed, FreshInv, LoopInv, [Next]_vars, ~overlap', faults' = 0 PROVE Looped'
  BY DEF LoopInv, Calm
<1>0. ~overlap /\ faults = 0
  BY CalmBefore
<1>00. Fresh /\ Looped /\ ~Fault
  BY <1>0 DEF FreshInv, LoopInv, Calm, Fault
<1>1. ASSUME NEW a \in Actors, RefreshStep(a) PROVE Looped'
  BY <1>0, <1>00, <1>1, RefreshLooped
<1>2. ASSUME NEW p \in Processes, Boot(p) PROVE Looped'
  <2>1. /\ pc[p] = "off" /\ UNCHANGED <<row, cache, patch, armed>> /\ Only(p) /\ pc'[p] = "get"
    BY <1>2, Kinds DEF Boot, Refresh, Goto, Only, Typed, TypeOK
  <2>2. CASE p \in Apps
    <3>1. \A q \in Requests : pc'[q] = "off"
      BY <1>00, <2>1, <2>2, Unasked, Kinds DEF Only
    <3>. QED BY <2>1, <2>2, <3>1, RestLooped
  <2>3. CASE p \notin Apps
    BY <1>00, <2>1, <2>3, AsideLooped, Kinds DEF Only
  <2>. QED BY <2>2, <2>3
<1>3. ASSUME NEW p \in Processes, StartApp(p) PROVE Looped'
  <2>1. p \in Actors \ Slots /\ p \notin Requests /\ "up" \in Places(p) \ RefreshPCs
    BY Kinds DEF Places, RefreshPCs
  <2>2. /\ pc'[p] = "up" /\ \A a \in Actors \ Slots : a # p => pc'[a] = pc[a]
        /\ Cardinality(armed'[p]) = Wanted(FlagsOf(p))
    BY <1>3, <2>1, StartPlaced DEF StartApp
  <2>3. p \in Apps /\ pc[p] = "start" /\ UNCHANGED row
    BY <1>3 DEF StartApp
  <2>4. FlagsOf(p) = row
    BY <1>00, <2>3, RowFields DEF Looped, FlagsOf, Typed, TypeOK
  <2>5. \A q \in Requests : pc'[q] = "off"
    BY <1>00, <2>2, <2>3, Unasked, Kinds
  <2>. QED BY <2>2, <2>3, <2>4, <2>5, RestLooped
<1>4. ASSUME NEW p \in Processes, StartWorker(p) PROVE Looped'
  <2>1. p \in Actors \ Slots /\ p \notin Requests /\ p \notin Apps /\ "up" \in Places(p) \ RefreshPCs
        /\ UNCHANGED row
    BY <1>4, Kinds DEF StartWorker, Places, RefreshPCs
  <2>2. CASE Gone(p)
    BY <1>00, <2>1, <2>2, GoneLooped
  <2>3. CASE Arm(p, 1, p, "up") /\ UNCHANGED <<cache, back, got, patch, overlap>>
    <3>1. /\ \A a \in Actors \ Slots : a # p => pc'[a] = pc[a]
          /\ \A r \in Processes \ {p} : armed'[r] = armed[r]
      BY <2>1, <2>3, ArmPlaced
    <3>2. \A q \in Requests : pc'[q] = pc[q] /\ back'[q] = back[q] /\ patch'[q] = patch[q]
      BY <2>1, <2>3, <3>1, Kinds
    <3>3. \A r \in Apps : pc'[r] = pc[r] /\ armed'[r] = armed[r]
      BY <2>1, <3>1, Kinds
    <3>. QED BY <1>00, <2>1, <2>3, <3>2, <3>3, AsideLooped
  <2>. QED BY <1>4, <2>2, <2>3 DEF StartWorker
<1>5. ASSUME NEW p \in Processes, Crash(p) \/ Stopped(p) \/ Watchdog(p) PROVE Looped'
  BY <1>00, <1>5, GoneLooped DEF Crash, Stopped, Watchdog
<1>6. ASSUME NEW p \in Processes, Terminate(p) \/ BeatAges(p) PROVE Looped'
  <2>1. CASE Terminate(p)
    <3>1. /\ p \notin Apps /\ UNCHANGED <<row, cache, back, patch>>
          /\ \A a \in Actors \ {p} : pc'[a] = pc[a]
          /\ \A r \in Processes \ {p} : armed'[r] = armed[r]
      BY <2>1, Kinds DEF Terminate, Goto, Typed, TypeOK
    <3>2. \A q \in Requests : pc'[q] = pc[q] /\ back'[q] = back[q] /\ patch'[q] = patch[q]
      BY <3>1, Kinds
    <3>3. \A r \in Apps : pc'[r] = pc[r] /\ armed'[r] = armed[r]
      BY <3>1, Kinds
    <3>. QED BY <1>00, <3>1, <3>2, <3>3, AsideLooped
  <2>2. CASE BeatAges(p)
    BY <1>00, <2>2, AsideLooped DEF BeatAges, actors
  <2>. QED BY <1>6, <2>1, <2>2
<1>7. ASSUME NEW s \in Slots, LoopStep(s) \/ Delay(s) PROVE Looped'
  <2>1. CASE RefreshStep(s)
    BY <1>1, <2>1, Kinds
  <2>2. CASE Check(s) /\ Gone(Process[s])
    <3>1. PICK p \in Processes : p = Process[s]
      BY Kinds
    <3>. QED BY <1>00, <2>2, <3>1, GoneLooped DEF Check
  <2>3. CASE ~RefreshStep(s) /\ ~(Check(s) /\ Gone(Process[s]))
    <3>1. Only(s) /\ UNCHANGED <<row, cache, patch, armed>>
      BY <1>7, <2>3, LoopTyped
    <3>2. \A q \in Requests : pc'[q] = pc[q] /\ back'[q] = back[q] /\ patch'[q] = patch[q]
      BY <3>1, Kinds DEF Only
    <3>3. \A r \in Apps : pc'[r] = pc[r] /\ armed'[r] = armed[r]
      BY <3>1, Kinds DEF Only
    <3>. QED BY <1>00, <3>1, <3>2, <3>3, AsideLooped
  <2>. QED BY <2>1, <2>2, <2>3
<1>8. ASSUME NEW q \in Requests, Patch(q) PROVE Looped'
  <2>1. /\ \A r \in Requests \ {q} : pc[r] = "off"
        /\ pc[q] = "off" /\ pc[Process[q]] = "up" /\ UNCHANGED <<row, cache, armed>>
    BY <1>8 DEF Patch, InFlight
  <2>2. Only(q) /\ pc'[q] = "get" /\ back'[q] = "merge"
    BY <1>8, Kinds DEF Patch, Refresh, Goto, Only, Typed, TypeOK
  <2>3. \A r \in Requests \ {q} : pc'[r] = "off"
    BY <2>1, <2>2, Kinds DEF Only
  <2>4. \A p \in Apps : pc'[p] = pc[p] /\ pc[p] = "up"
    BY <2>1, <2>2, Kinds DEF Only, OneApp
  <2>5. \A r \in Requests : ~Changing(r)
    BY <2>1 DEF Changing
  <2>6. \A p \in Apps : Cardinality(armed[p]) = Wanted(row)
    BY <1>00, <2>4, <2>5 DEF Looped
  <2>. QED BY <2>1, <2>4, <2>6, Kinds DEF Looped
<1>9. ASSUME NEW q \in Requests, Drop(q) PROVE Looped'
  <2>1. pc[q] = "del" /\ UNCHANGED <<row, patch, armed>>
    BY <1>9 DEF Drop
  <2>2. Only(q) /\ pc'[q] = "get" /\ back'[q] = "answer"
    BY <1>9, Kinds DEF Drop, Refresh, Goto, Only, Typed, TypeOK
  <2>3. \A p \in Apps : pc'[p] = pc[p] /\ pc[p] = "up"
    BY <1>00, <2>1, <2>2, Unasked, Kinds DEF Only
  <2>4. \A r \in Requests \ {q} : pc'[r] = pc[r] /\ back'[r] = back[r]
    BY <2>2, Kinds DEF Only
  <2>5. Changing(q)' <=> Changing(q)
    BY <2>1, <2>2 DEF Changing, Before, RefreshPCs
  <2>6. \A r \in Requests : (pc'[r] # "off" <=> pc[r] # "off") /\ (Changing(r)' <=> Changing(r))
    BY <2>1, <2>2, <2>4, <2>5 DEF Changing, Before
  <2>. QED BY <1>00, <2>1, <2>3, <2>6, QuietLooped
<1>10. CASE Expire \/ UNCHANGED vars
  BY <1>00, <1>10, AsideLooped DEF Expire, vars, actors
<1>11. ASSUME NEW q \in Requests PROVE ~MergeFails(q)
  BY <1>00 DEF MergeFails
<1>. QED
  BY <1>00, <1>1, <1>2, <1>3, <1>4, <1>5, <1>6, <1>7, <1>8, <1>9, <1>10, <1>11, MergeLooped, AnswerLooped,
     Kinds DEF Next, ProcessStep, RequestStep

\* An app that is up runs as many loops as the row asks for when nothing is asked
\* of it, if it is the only app and requests leave the switch of the queue alone.
THEOREM LoopsAlwaysFollow ==
  ASSUME OneApp, SwitchLeft
  PROVE  Spec => []LoopsFollowRow
<1>1. Init => LoopInv
  BY InitLooped DEF LoopInv
<1>2. Typed /\ FreshInv /\ LoopInv /\ [Next]_vars => LoopInv'
  BY LoopedStep
<1>3. Typed /\ LoopInv => LoopsFollowRow
  <2>. SUFFICES ASSUME Typed, Looped, NEW p \in Apps, pc[p] = "up", \A q \in Requests : pc[q] = "off"
                PROVE  Cardinality(armed[p]) =
                         IF row.embeddedWorker /\ row.normalizedQueueV2 THEN row.embeddedWorkerCount ELSE 0
    BY DEF LoopInv, Calm, LoopsFollowRow
  <2>. QED BY DEF Looped, Wanted, Changing
<1>. QED BY <1>1, <1>2, <1>3, FreshInvariant, PTL DEF Spec
=============================================================================
