---------------------------- MODULE TxBudgetProofs ----------------------------
(***************************************************************************)
(* Theorems about TxBudget, for every value of its constants.              *)
(***************************************************************************)
EXTENDS TxBudget, FiniteSetTheorems, TLAPS

-----------------------------------------------------------------------------
(* The invariant. *)

\* Every variable has its shape, those TypeOK leaves to the properties too.
Typed ==
    /\ TypeOK
    /\ sent \in [Signers -> Nat]
    /\ reading \in [Loops -> [existing : 0 .. Len(snaps), bucket : Minutes]]
    /\ faults \in Nat
    /\ softly \in [Processes -> [Keys -> [Minutes -> Nat]]]
    /\ dropped \in [Processes -> [Keys -> [Minutes -> Nat]]]

\* What the variables of a call say in the states of the call.
CallShape(l) ==
    /\ key[l] \in {Global, signer[l]}
    /\ pc[l] \notin {"count", "store", "check"} => key[l] = Global /\ held[l].g = 0 /\ held[l].s = 0
    /\ pc[l] # "store" => reading[l].existing = 0
    /\ pc[l] = "check" => IF key[l] = Global THEN held[l].g # 0 ELSE held[l].s # 0
    /\ key[l] # Global => held[l].g # 0

CallInv == \A l \in Loops : CallShape(l)

\* Redis: no counter is beyond its cap; a slot of a minute is granted or held, but
\* for those that lost calls took or gave back once too often.
GlobalSlots(m) ==
    LET astray == count[Global][m] - granted[Global][m] - Cardinality(Holding(m))
    IN  -lost[m] <= astray /\ astray <= lost[m]

SlotInv ==
    /\ \A k \in Keys, m \in Minutes : count[k][m] <= Limit[k]
    /\ \A s \in Signers, m \in Minutes : granted[s][m] <= count[s][m]
    /\ \A m \in Minutes : GlobalSlots(m)

RedisInv == Typed /\ CallInv /\ SlotInv

\* The loops that passed the global check of snapshot i and did not reserve yet.
Passed(i) == {l \in Loops : key[l] # Global /\ held[l].g = i}

\* How far a key's reservations of a minute may go in a process.
Bound(p, k) == Limit[k] + (IF k = Global THEN OthersOf(p) ELSE 0)

\* Whose snapshot is whose: none is shared by two processes or two keys.
Owns(owner) ==
    /\ owner \in [1 .. Len(snaps) -> Processes \X Keys]
    /\ \A p \in Processes, k \in Keys : current[p][k] # 0 => owner[current[p][k]] = <<p, k>>
    /\ \A l \in Loops :
        /\ held[l].g # 0 => owner[held[l].g] = <<Process[l], Global>>
        /\ held[l].s # 0 => owner[held[l].s] = <<Process[l], signer[l]>>
        /\ reading[l].existing # 0 => owner[reading[l].existing] = <<Process[l], key[l]>>

\* A signer's snapshot is never filled beyond the cap; a global one only by the
\* loops that passed its check.
Filled(owner) ==
    \A i \in 1 .. Len(snaps) :
        LET p == owner[i][1]
            k == owner[i][2]
        IN snaps[i].reserved + (IF k = Global THEN Cardinality(Passed(i)) ELSE 0) <= Bound(p, k)

SnapInv == \E owner : Owns(owner) /\ Filled(owner)

\* The reservations of a minute that were not forgotten.
Live(p, k, m) == softly[p][k][m] - dropped[p][k][m]

\* They are within the bound, and the current snapshot knows those of its minute.
LiveInv ==
    \A p \in Processes, k \in Keys :
        /\ \A m \in Minutes : Live(p, k, m) <= Bound(p, k)
        /\ current[p][k] # 0 =>
               Live(p, k, snaps[current[p][k]].bucket) <= snaps[current[p][k]].reserved

FallbackInv == Typed /\ CallInv /\ SnapInv /\ LiveInv

-----------------------------------------------------------------------------
(* Typing. *)

LEMMA KeyTypes ==
    /\ Signers \subseteq Keys /\ Global \in Keys
    /\ \A k \in Keys : Limit[k] \in Nat /\ Limit[k] > 0
    /\ \A l \in Loops : Process[l] \in Processes
    /\ 0 \in Minutes
    /\ Minutes \subseteq Nat
  BY BudgetAssumption DEF Keys, Minutes

\* One value of a table, or two in different rows of it, go up.
Table == [Keys -> [Minutes -> Nat]]

RaisedOnce(f, h, k, m, x) ==
    \A i \in Keys, z \in Minutes : h[i][z] = f[i][z] + (IF i = k /\ z = m THEN x ELSE 0)

RaisedTwice(f, h, k, m, x, j, n, y) ==
    \A i \in Keys, z \in Minutes :
        h[i][z] = f[i][z] + (IF i = k /\ z = m THEN x ELSE IF i = j /\ z = n THEN y ELSE 0)

LEMMA AddOnce ==
  ASSUME NEW f \in Table, NEW k \in Keys, NEW m \in Minutes, NEW x \in Nat
  PROVE  /\ [f EXCEPT ![k][m] = @ + x] \in Table
         /\ RaisedOnce(f, [f EXCEPT ![k][m] = @ + x], k, m, x)
<1>1. f[k] \in [Minutes -> Nat]
  BY DEF Table
<1>. DEFINE g == [f[k] EXCEPT ![m] = @ + x]
            h == [f EXCEPT ![k][m] = @ + x]
<1>2. g \in [Minutes -> Nat] /\ \A n \in Minutes : g[n] = IF n = m THEN f[k][m] + x ELSE f[k][n]
  BY <1>1
<1>3. h = [f EXCEPT ![k] = g]
  OBVIOUS
<1>. HIDE DEF g, h
<1>4. h \in Table
  BY <1>2, <1>3 DEF Table
<1>5. \A i \in Keys : h[i] = IF i = k THEN g ELSE f[i]
  BY <1>3 DEF Table
<1>6. \A i \in Keys, z \in Minutes : f[i][z] \in Nat
  BY DEF Table
<1>7. RaisedOnce(f, h, k, m, x)
  BY <1>2, <1>5, <1>6 DEF RaisedOnce
<1>. QED BY <1>4, <1>7 DEF h

\* The same of a counter, which may go below zero.
LEMMA AddToCount ==
  ASSUME NEW f \in [Keys -> [Minutes -> Int]], NEW k \in Keys, NEW m \in Minutes, NEW x \in Int
  PROVE  /\ [f EXCEPT ![k][m] = @ + x] \in [Keys -> [Minutes -> Int]]
         /\ RaisedOnce(f, [f EXCEPT ![k][m] = @ + x], k, m, x)
<1>1. f[k] \in [Minutes -> Int]
  OBVIOUS
<1>. DEFINE g == [f[k] EXCEPT ![m] = @ + x]
            h == [f EXCEPT ![k][m] = @ + x]
<1>2. g \in [Minutes -> Int] /\ \A n \in Minutes : g[n] = IF n = m THEN f[k][m] + x ELSE f[k][n]
  BY <1>1
<1>3. h = [f EXCEPT ![k] = g]
  OBVIOUS
<1>. HIDE DEF g, h
<1>4. h \in [Keys -> [Minutes -> Int]]
  BY <1>2, <1>3
<1>5. \A i \in Keys : h[i] = IF i = k THEN g ELSE f[i]
  BY <1>3
<1>6. \A i \in Keys, z \in Minutes : f[i][z] \in Int
  OBVIOUS
<1>7. RaisedOnce(f, h, k, m, x)
  BY <1>2, <1>5, <1>6 DEF RaisedOnce
<1>. QED BY <1>4, <1>7 DEF h

LEMMA AddTwice ==
  ASSUME NEW f \in Table, NEW k \in Keys, NEW m \in Minutes, NEW x \in Nat,
         NEW j \in Keys, NEW n \in Minutes, NEW y \in Nat, j # k
  PROVE  /\ [f EXCEPT ![k][m] = @ + x, ![j][n] = @ + y] \in Table
         /\ RaisedTwice(f, [f EXCEPT ![k][m] = @ + x, ![j][n] = @ + y], k, m, x, j, n, y)
<1>1. f[k] \in [Minutes -> Nat] /\ f[j] \in [Minutes -> Nat]
  BY DEF Table
<1>. DEFINE a == [f[k] EXCEPT ![m] = @ + x]
            b == [f[j] EXCEPT ![n] = @ + y]
            h == [f EXCEPT ![k][m] = @ + x, ![j][n] = @ + y]
<1>2. /\ a \in [Minutes -> Nat] /\ \A z \in Minutes : a[z] = f[k][z] + (IF z = m THEN x ELSE 0)
      /\ b \in [Minutes -> Nat] /\ \A z \in Minutes : b[z] = f[j][z] + (IF z = n THEN y ELSE 0)
  BY <1>1
<1>3. h = [f EXCEPT ![k] = a, ![j] = b]
  BY DEF Table
<1>. HIDE DEF a, b, h
<1>4. h \in Table
  BY <1>2, <1>3 DEF Table
<1>5. \A i \in Keys : h[i] = IF i = k THEN a ELSE IF i = j THEN b ELSE f[i]
  BY <1>3 DEF Table
<1>6. \A i \in Keys, z \in Minutes : f[i][z] \in Nat
  BY DEF Table
<1>7. RaisedTwice(f, h, k, m, x, j, n, y)
  BY <1>2, <1>5, <1>6 DEF RaisedTwice
<1>. QED BY <1>4, <1>7 DEF h

\* What the variables of a loop and of a counter are.
LEMMA LoopTypes ==
  ASSUME Typed, NEW l \in Loops
  PROVE  /\ bucket[l].g \in Minutes /\ bucket[l].s \in Minutes
         /\ signer[l] \in Signers /\ signer[l] \in Keys /\ signer[l] # Global
         /\ key[l] \in Keys /\ Process[l] \in Processes
         /\ held[l].g \in 0 .. Len(snaps) /\ held[l].s \in 0 .. Len(snaps)
         /\ reading[l].existing \in 0 .. Len(snaps) /\ reading[l].bucket \in Minutes
<1>1. bucket[l] \in [g : Minutes, s : Minutes]
  BY DEF Typed, TypeOK
<1>2. held[l] \in [g : 0 .. Len(snaps), s : 0 .. Len(snaps)]
  BY DEF Typed, TypeOK
<1>3. reading[l] \in [existing : 0 .. Len(snaps), bucket : Minutes]
  BY DEF Typed
<1>4. signer[l] \in Signers /\ key[l] \in Keys
  BY DEF Typed, TypeOK
<1>. QED BY <1>1, <1>2, <1>3, <1>4, KeyTypes, BudgetAssumption

LEMMA CountTypes ==
  ASSUME Typed, NEW k \in Keys, NEW m \in Minutes
  PROVE  count[k][m] \in Int /\ granted[k][m] \in Nat /\ lost[m] \in Nat
  BY DEF Typed, TypeOK

LEMMA BudgetTypes ==
  ASSUME Typed, NEW p \in Processes, NEW k \in Keys
  PROVE  /\ current[p][k] \in 0 .. Len(snaps)
         /\ \A m \in Minutes : softly[p][k][m] \in Nat /\ dropped[p][k][m] \in Nat
<1>1. current[p][k] \in 0 .. Len(snaps)
  BY DEF Typed, TypeOK
<1>2. softly[p][k] \in [Minutes -> Nat] /\ dropped[p][k] \in [Minutes -> Nat]
  BY DEF Typed
<1>. QED BY <1>1, <1>2

LEMMA HistoryTypes ==
  ASSUME Typed, NEW p \in Processes
  PROVE  softly[p] \in Table /\ dropped[p] \in Table
  BY DEF Typed, Table

LEMMA RedisTables == Typed => count \in [Keys -> [Minutes -> Int]] /\ granted \in Table
  BY DEF Typed, TypeOK, Table

\* A snapshot of the sequence is one.
LEMMA SnapType ==
  ASSUME Typed, NEW i \in 0 .. Len(snaps), i # 0
  PROVE  snaps[i] \in Snapshot /\ snaps[i].bucket \in Minutes /\ snaps[i].reserved \in Nat
         /\ snaps[i].completed \in Nat
<1>1. snaps \in Seq(Snapshot) /\ i \in 1 .. Len(snaps)
  BY DEF Typed, TypeOK
<1>2. snaps[i] \in Snapshot
  BY <1>1
<1>. QED BY <1>2 DEF Snapshot

\* The reservations a refresh takes over are a number.
LEMMA InheritedType ==
  ASSUME Typed, NEW l \in Loops
  PROVE  Inherited(l) \in Nat
<1>1. reading[l].existing \in 0 .. Len(snaps)
  BY DEF Typed
<1>. QED BY <1>1, SnapType DEF Inherited

\* So is what it forgets.
LEMMA ForgottenType ==
  ASSUME Typed, NEW l \in Loops
  PROVE  Forgotten(l) \in Nat
<1>. DEFINE m == reading[l].bucket
<1>1. softly[Process[l]][key[l]][m] \in Nat /\ dropped[Process[l]][key[l]][m] \in Nat
  BY LoopTypes, BudgetTypes
<1>. QED BY <1>1, InheritedType DEF Forgotten

\* The variables of an iteration are well-formed once forgotten.
LEMMA ForgetType ==
  ASSUME Typed, NEW l \in Loops, Forget(l), Len(snaps') = Len(snaps)
  PROVE  /\ bucket' \in [Loops -> [g : Minutes, s : Minutes]]
         /\ key' \in [Loops -> Keys]
         /\ reading' \in [Loops -> [existing : 0 .. Len(snaps'), bucket : Minutes]]
         /\ held' \in [Loops -> [g : 0 .. Len(snaps'), s : 0 .. Len(snaps')]]
<1>1. Len(snaps) \in Nat /\ snaps \in Seq(Snapshot)
  BY DEF Typed, TypeOK
<1>2. 0 \in 0 .. Len(snaps')
  BY <1>1
<1>3. bucket' \in [Loops -> [g : Minutes, s : Minutes]] /\ key' \in [Loops -> Keys]
  BY KeyTypes DEF Forget, Typed, TypeOK
<1>4. reading' \in [Loops -> [existing : 0 .. Len(snaps'), bucket : Minutes]]
  BY <1>2, KeyTypes DEF Forget, Typed, TypeOK
<1>5. held' \in [Loops -> [g : 0 .. Len(snaps'), s : 0 .. Len(snaps')]]
  BY <1>2, KeyTypes DEF Forget, Typed, TypeOK
<1>. QED BY <1>3, <1>4, <1>5

LEMMA InitTyped == Init => Typed
<1>. SUFFICES ASSUME Init PROVE Typed
  OBVIOUS
<1>1. snaps \in Seq(Snapshot) /\ Len(snaps) = 0
  BY DEF Init
<1>2. signer \in [Loops -> Signers]
  BY DEF Init
<1>. QED BY <1>1, <1>2, KeyTypes DEF Init, Typed, TypeOK, PCs

\* Going somewhere is going to a place of the program.
LEMMA GotoType ==
  ASSUME Typed, NEW l \in Loops, NEW where \in PCs, Goto(l, where)
  PROVE  pc' \in [Loops -> PCs]
  BY DEF Goto, Typed, TypeOK

\* A counter that goes up stays a number.
LEMMA IncrType ==
  ASSUME Typed, NEW k \in Keys, NEW m \in Minutes, Incr(k, m)
  PROVE  count' \in [Keys -> [Minutes -> Int]]
  BY DEF Incr, Typed, TypeOK

\* A lost call counts for its minute.
LEMMA LoseType ==
  ASSUME Typed, NEW m \in Minutes, Lose(m)
  PROVE  /\ lost' \in [Minutes -> Nat]
         /\ \A z \in Minutes : lost'[z] = lost[z] + (IF z = m THEN 1 ELSE 0)
  BY DEF Lose, Typed, TypeOK

LEMMA FaultType ==
  ASSUME Typed, Fault PROVE faults' \in Nat /\ faults' = faults + 1
  BY DEF Fault, Typed

\* A returning call forgets its iteration and counts a send.
LEMMA ReturnType ==
  ASSUME Typed, NEW l \in Loops, Return(l), Len(snaps') = Len(snaps)
  PROVE  /\ pc' \in [Loops -> PCs]
         /\ sent' \in [Signers -> Nat]
         /\ bucket' \in [Loops -> [g : Minutes, s : Minutes]]
         /\ key' \in [Loops -> Keys]
         /\ reading' \in [Loops -> [existing : 0 .. Len(snaps'), bucket : Minutes]]
         /\ held' \in [Loops -> [g : 0 .. Len(snaps'), s : 0 .. Len(snaps')]]
<1>1. Goto(l, "idle") /\ "idle" \in PCs /\ Forget(l)
  BY DEF Return, PCs
<1>2. sent' \in [Signers -> Nat]
  BY SMTT(40) DEF Return, Typed, TypeOK
<1>. QED BY <1>1, <1>2, GotoType, ForgetType

\* Sleeping and trying again, and turning to the fallback.
LEMMA AgainType ==
  ASSUME Typed, NEW l \in Loops, Again(l) \/ ToSoft(l), Len(snaps') = Len(snaps)
  PROVE  /\ pc' \in [Loops -> PCs]
         /\ bucket' \in [Loops -> [g : Minutes, s : Minutes]]
         /\ key' \in [Loops -> Keys]
         /\ reading' \in [Loops -> [existing : 0 .. Len(snaps'), bucket : Minutes]]
         /\ held' \in [Loops -> [g : 0 .. Len(snaps'), s : 0 .. Len(snaps')]]
<1>1. CASE Again(l)
  <2>1. Goto(l, "top") /\ "top" \in PCs /\ Forget(l)
    BY <1>1 DEF Again, PCs
  <2>. QED BY <2>1, GotoType, ForgetType
<1>2. CASE ToSoft(l)
  <2>1. Goto(l, "count") /\ "count" \in PCs
    BY <1>2 DEF ToSoft, PCs
  <2>2. key' \in [Loops -> Keys] /\ bucket' \in [Loops -> [g : Minutes, s : Minutes]]
    BY <1>2, KeyTypes DEF ToSoft, Typed, TypeOK
  <2>3. UNCHANGED <<reading, held>>
    BY <1>2 DEF ToSoft
  <2>. QED BY <2>1, <2>2, <2>3, GotoType DEF Typed, TypeOK
<1>. QED BY <1>1, <1>2

\* Taking hold of a snapshot there is.
LEMMA HoldType ==
  ASSUME Typed, NEW l \in Loops, Len(snaps') >= Len(snaps), Len(snaps') \in Nat,
         NEW i \in 0 .. Len(snaps'), Hold(l, i)
  PROVE  held' \in [Loops -> [g : 0 .. Len(snaps'), s : 0 .. Len(snaps')]]
<1>0. held \in [Loops -> [g : 0 .. Len(snaps), s : 0 .. Len(snaps)]] /\ snaps \in Seq(Snapshot)
  BY DEF Typed, TypeOK
<1>2. 0 .. Len(snaps) \subseteq 0 .. Len(snaps')
  BY <1>0
<1>1. held \in [Loops -> [g : 0 .. Len(snaps'), s : 0 .. Len(snaps')]]
  BY <1>0, <1>2
<1>. QED BY <1>1 DEF Hold

\* A slot given back is one less of its minute.
LEMMA FreedType ==
  ASSUME Typed, NEW l \in Loops
  PROVE  /\ Freed(l) \in [Keys -> [Minutes -> Int]]
         /\ \A k \in Keys, z \in Minutes :
                Freed(l)[k][z] = count[k][z] - (IF k = Global /\ z = bucket[l].g THEN 1 ELSE 0)
<1>. DEFINE m == bucket[l].g
<1>1. m \in Minutes /\ count \in [Keys -> [Minutes -> Int]] /\ Global \in Keys
  BY KeyTypes, LoopTypes, RedisTables
<1>0. PICK x \in Int : x = -1
  OBVIOUS
<1>2. Freed(l) = [count EXCEPT ![Global][m] = @ + x]
  BY <1>0, <1>1 DEF Freed
<1>. HIDE DEF m
<1>. DEFINE h == [count EXCEPT ![Global][m] = @ + x]
<1>5. h \in [Keys -> [Minutes -> Int]] /\ RaisedOnce(count, h, Global, m, x)
  BY Zenon, <1>1, <1>0, AddToCount
<1>6. Freed(l) = h
  BY <1>2
<1>. HIDE DEF h
<1>3. Freed(l) \in [Keys -> [Minutes -> Int]] /\ RaisedOnce(count, Freed(l), Global, m, x)
  BY <1>5, <1>6
<1>4. \A k \in Keys, z \in Minutes : count[k][z] \in Int
  BY <1>1
<1>. QED BY <1>0, <1>3, <1>4 DEF RaisedOnce, m

LEMMA TypedStep == Typed /\ CallInv /\ [Next]_vars => Typed'
<1>. SUFFICES ASSUME Typed, CallInv, [Next]_vars PROVE Typed'
  OBVIOUS
<1>0. Len(snaps) \in Nat /\ snaps \in Seq(Snapshot)
  BY DEF Typed, TypeOK
<1>1. ASSUME NEW l \in Loops, Call(l) PROVE Typed'
  <2>1. signer' \in [Loops -> Signers] /\ started' \in [Loops -> Minutes]
    BY SMTT(40), <1>1 DEF Call, Typed, TypeOK
  <2>2. pc' \in [Loops -> PCs]
    BY <1>1, GotoType DEF Call, PCs
  <2>. QED BY <1>1, <2>1, <2>2 DEF Call, redis, budget, soft, Typed, TypeOK
<1>2. ASSUME NEW l \in Loops, SendAnyway(l) PROVE Typed'
  <2>1. Return(l) /\ UNCHANGED <<minute, redis, budget, call, faults>>
    BY <1>2 DEF SendAnyway
  <2>. QED BY <2>1, ReturnType DEF redis, budget, call, Typed, TypeOK
<1>3. ASSUME NEW l \in Loops, GlobalKey(l) \/ SignerKey(l) PROVE Typed'
  <2>1. bucket' \in [Loops -> [g : Minutes, s : Minutes]]
    <3>1. bucket[l] \in [g : Minutes, s : Minutes] /\ minute \in Minutes
      BY DEF Typed, TypeOK
    <3>2. [bucket[l] EXCEPT !.g = minute] \in [g : Minutes, s : Minutes]
          /\ [bucket[l] EXCEPT !.s = minute] \in [g : Minutes, s : Minutes]
      BY <3>1
    <3>3. bucket' = [bucket EXCEPT ![l] = [bucket[l] EXCEPT !.g = minute]]
          \/ bucket' = [bucket EXCEPT ![l] = [bucket[l] EXCEPT !.s = minute]]
      BY <1>3 DEF GlobalKey, SignerKey
    <3>. QED BY <3>2, <3>3 DEF Typed, TypeOK
  <2>2. pc' \in [Loops -> PCs]
    BY <1>3, GotoType DEF GlobalKey, SignerKey, PCs
  <2>. QED BY <1>3, <2>1, <2>2 DEF GlobalKey, SignerKey, redis, budget, call, soft, Typed, TypeOK
<1>4. ASSUME NEW l \in Loops, GlobalTry(l) PROVE Typed'
  <2>. DEFINE m == bucket[l].g
  <2>0. m \in Minutes
    BY LoopTypes
  <2>1. UNCHANGED <<minute, granted, lost, budget, sent, call, faults>>
    BY <1>4 DEF GlobalTry
  <2>2. count' \in [Keys -> [Minutes -> Int]]
    <3>1. Incr(Global, m) \/ UNCHANGED count
      BY <1>4 DEF GlobalTry
    <3>. QED BY <2>0, <3>1, KeyTypes, IncrType DEF Typed, TypeOK
  <2>3. CASE Goto(l, "signerTry") /\ UNCHANGED <<bucket, soft>>
    BY <2>1, <2>2, <2>3, GotoType DEF budget, call, soft, PCs, Typed, TypeOK
  <2>4. CASE Again(l) \/ ToSoft(l)
    BY <2>1, <2>2, <2>4, AgainType DEF budget, call, Typed, TypeOK
  <2>. QED BY <1>4, <2>3, <2>4 DEF GlobalTry
<1>5. ASSUME NEW l \in Loops, SignerTaken(l) PROVE Typed'
  <2>0. bucket[l].g \in Minutes /\ bucket[l].s \in Minutes /\ signer[l] \in Keys /\ signer[l] # Global
    BY LoopTypes
  <2>1. count' \in [Keys -> [Minutes -> Int]]
    BY <1>5, <2>0, KeyTypes, IncrType DEF SignerTaken
  <2>2. granted' \in [Keys -> [Minutes -> Nat]]
    <3>1. granted' = [granted EXCEPT ![Global][bucket[l].g] = @ + 1, ![signer[l]][bucket[l].s] = @ + 1]
      BY <1>5 DEF SignerTaken
    <3>2. granted' \in Table
      BY <2>0, <3>1, KeyTypes, RedisTables, AddTwice, 1 \in Nat
    <3>. QED BY <3>2 DEF Table
  <2>3. Return(l) /\ UNCHANGED <<minute, lost, budget, call, faults>>
    BY <1>5 DEF SignerTaken
  <2>. QED BY <2>1, <2>2, <2>3, ReturnType DEF budget, call, Typed, TypeOK
<1>6. ASSUME NEW l \in Loops, SignerRefused(l) PROVE Typed'
  <2>1. pc' \in [Loops -> PCs]
    BY <1>6, GotoType DEF SignerRefused, PCs
  <2>2. UNCHANGED <<minute, redis, budget, sent, call, bucket, soft, faults>>
    BY <1>6 DEF SignerRefused
  <2>. QED BY <2>1, <2>2 DEF redis, budget, call, soft, Typed, TypeOK
<1>7. ASSUME NEW l \in Loops, Release(l) PROVE Typed'
  <2>1. count' \in [Keys -> [Minutes -> Int]] /\ faults' \in Nat
    BY <1>7, FreedType, FaultType DEF Release, Typed, TypeOK
  <2>2. lost' \in [Minutes -> Nat]
    BY <1>7, LoopTypes, LoseType DEF Release, Typed, TypeOK
  <2>3. (Again(l) \/ ToSoft(l)) /\ UNCHANGED <<minute, granted, budget, sent, call>>
    BY <1>7 DEF Release
  <2>. QED BY <2>1, <2>2, <2>3, AgainType DEF budget, call, Typed, TypeOK
<1>8. ASSUME NEW l \in Loops, Reuse(l) PROVE Typed'
  <2>1. Mine(l) \in 0 .. Len(snaps)
    BY LoopTypes, BudgetTypes DEF Mine
  <2>2. UNCHANGED <<minute, redis, budget, sent, call, bucket, key, reading, faults>> /\ Hold(l, Mine(l))
    BY <1>8 DEF Reuse
  <2>3. held' \in [Loops -> [g : 0 .. Len(snaps'), s : 0 .. Len(snaps')]]
    BY <1>0, <2>1, <2>2, HoldType DEF budget
  <2>4. pc' \in [Loops -> PCs]
    BY <1>8, GotoType DEF Reuse, PCs
  <2>. QED BY <2>2, <2>3, <2>4 DEF redis, budget, call, Typed, TypeOK
<1>9. ASSUME NEW l \in Loops, BeginCount(l) PROVE Typed'
  <2>1. Mine(l) \in 0 .. Len(snaps) /\ minute \in Minutes
    <3>1. Mine(l) \in 0 .. Len(snaps)
      BY LoopTypes, BudgetTypes DEF Mine
    <3>2. minute \in Minutes
      BY DEF Typed, TypeOK
    <3>. QED BY <3>1, <3>2
  <2>2. reading' \in [Loops -> [existing : 0 .. Len(snaps), bucket : Minutes]]
    BY <1>9, <2>1 DEF BeginCount, Typed
  <2>3. pc' \in [Loops -> PCs]
    BY <1>9, GotoType DEF BeginCount, PCs
  <2>. QED BY <1>9, <2>2, <2>3 DEF BeginCount, redis, budget, call, Typed, TypeOK
<1>10. ASSUME NEW l \in Loops, Store(l) PROVE Typed'
  <2>1. PICK n \in Counted(key[l]) :
          snaps' = Append(snaps, [bucket |-> reading[l].bucket, completed |-> n, reserved |-> Inherited(l)])
    BY <1>10 DEF Store
  <2>2. [bucket |-> reading[l].bucket, completed |-> n, reserved |-> Inherited(l)] \in Snapshot
    BY InheritedType DEF Counted, Snapshot, Typed
  <2>3. snaps' \in Seq(Snapshot) /\ Len(snaps') = Len(snaps) + 1 /\ Len(snaps') \in Nat
    BY <1>0, <2>1, <2>2
  <2>4. 0 .. Len(snaps) \subseteq 0 .. Len(snaps')
    BY <1>0, <2>3
  <2>5. current' \in [Processes -> [Keys -> 0 .. Len(snaps')]]
    <3>1. current \in [Processes -> [Keys -> 0 .. Len(snaps')]]
      BY <2>4 DEF Typed, TypeOK
    <3>2. current' = [current EXCEPT ![Process[l]][key[l]] = Len(snaps')]
      BY <1>10 DEF Store
    <3>3. Process[l] \in Processes /\ key[l] \in Keys
      BY LoopTypes
    <3>4. [current[Process[l]] EXCEPT ![key[l]] = Len(snaps')] \in [Keys -> 0 .. Len(snaps')]
      BY <2>3, <3>1, <3>3
    <3>. QED BY <3>1, <3>2, <3>3, <3>4
  <2>6. dropped' \in [Processes -> [Keys -> [Minutes -> Nat]]]
    <3>1. dropped' = [dropped EXCEPT ![Process[l]][key[l]][reading[l].bucket] = @ + Forgotten(l)]
      BY <1>10 DEF Store
    <3>2. Process[l] \in Processes /\ key[l] \in Keys /\ reading[l].bucket \in Minutes
      BY LoopTypes
    <3>. DEFINE t == [dropped[Process[l]] EXCEPT ![key[l]][reading[l].bucket] = @ + Forgotten(l)]
    <3>3. dropped[Process[l]] \in Table
      BY <3>2, HistoryTypes
    <3>4. Forgotten(l) \in Nat
      BY ForgottenType
    <3>5. t \in Table
      BY <3>2, <3>3, <3>4, AddOnce
    <3>6. dropped' = [dropped EXCEPT ![Process[l]] = t]
      BY <3>1
    <3>. HIDE DEF t
    <3>. QED BY <3>2, <3>5, <3>6 DEF Typed, Table
  <2>7. held' \in [Loops -> [g : 0 .. Len(snaps'), s : 0 .. Len(snaps')]]
    <3>1. Hold(l, Len(snaps'))
      BY <1>10 DEF Store
    <3>2. Len(snaps') >= Len(snaps) /\ Len(snaps') \in 0 .. Len(snaps')
      BY <1>0, <2>3
    <3>. QED BY <2>3, <3>1, <3>2, HoldType
  <2>8. reading' \in [Loops -> [existing : 0 .. Len(snaps'), bucket : Minutes]]
    <3>1. reading \in [Loops -> [existing : 0 .. Len(snaps'), bucket : Minutes]]
      BY <2>4 DEF Typed
    <3>2. reading' = [reading EXCEPT ![l] = [existing |-> 0, bucket |-> 0]]
      BY <1>10 DEF Store
    <3>. QED BY <2>3, <3>1, <3>2, KeyTypes
  <2>9. pc' \in [Loops -> PCs]
    BY <1>10, GotoType DEF Store, PCs
  <2>10. UNCHANGED <<minute, redis, softly, sent, call, bucket, key, faults>>
    BY <1>10 DEF Store
  <2>. QED BY <2>3, <2>5, <2>6, <2>7, <2>8, <2>9, <2>10 DEF redis, call, Typed, TypeOK
<1>11. ASSUME NEW l \in Loops, CountFails(l) PROVE Typed'
  <2>1. Goto(l, "idle") /\ Forget(l) /\ UNCHANGED <<minute, redis, budget, sent, call, faults>>
    BY <1>11 DEF CountFails
  <2>2. pc' \in [Loops -> PCs]
    BY <2>1, GotoType DEF PCs
  <2>. QED BY <2>1, <2>2, ForgetType DEF redis, budget, call, Typed, TypeOK
<1>12. ASSUME NEW l \in Loops, GlobalCheck(l) PROVE Typed'
  <2>1. UNCHANGED <<minute, redis, budget, sent, call, faults>>
    BY <1>12 DEF GlobalCheck
  <2>2. CASE Again(l)
    BY <2>1, <2>2, AgainType DEF redis, budget, call, Typed, TypeOK
  <2>3. CASE Goto(l, "count") /\ key' = [key EXCEPT ![l] = signer[l]] /\ UNCHANGED <<bucket, reading, held>>
    <3>1. pc' \in [Loops -> PCs]
      BY <2>3, GotoType DEF PCs
    <3>2. key' \in [Loops -> Keys]
      BY <2>3, KeyTypes DEF Typed, TypeOK
    <3>. QED BY <2>1, <2>3, <3>1, <3>2 DEF redis, budget, call, Typed, TypeOK
  <2>. QED BY <1>12, <2>2, <2>3 DEF GlobalCheck
<1>13. ASSUME NEW l \in Loops, SignerFull(l) PROVE Typed'
  <2>1. Again(l) /\ UNCHANGED <<minute, redis, budget, sent, call, faults>>
    BY <1>13 DEF SignerFull
  <2>. QED BY <2>1, AgainType DEF redis, budget, call, Typed, TypeOK
<1>14. ASSUME NEW l \in Loops, Reserve(l) PROVE Typed'
  <2>. DEFINE p == Process[l]
              g == held[l].g
              s == held[l].s
              n == signer[l]
              bg == snaps[g].bucket
              bs == snaps[s].bucket
              orphan(k, i) == IF current[p][k] = i THEN 0 ELSE 1
  <2>1. p \in Processes /\ n \in Keys /\ g \in 1 .. Len(snaps) /\ s \in 1 .. Len(snaps)
    <3>1. p \in Processes /\ n \in Keys /\ g \in 0 .. Len(snaps) /\ s \in 0 .. Len(snaps)
      BY LoopTypes
    <3>2. g # 0 /\ s # 0
      BY Zenon, <1>14 DEF Reserve, CallInv, CallShape
    <3>. QED BY <1>0, <3>1, <3>2
  <2>2. bg \in Minutes /\ bs \in Minutes /\ snaps[g] \in Snapshot /\ snaps[s] \in Snapshot
    BY SMTT(40), <1>0, <2>1, SnapType
  <2>3. snaps' \in Seq(Snapshot) /\ Len(snaps') = Len(snaps)
    <3>0. DOMAIN snaps = 1 .. Len(snaps) /\ snaps = [i \in 1 .. Len(snaps) |-> snaps[i]]
      BY <1>0
    <3>1. snaps' = [snaps EXCEPT ![g].reserved = @ + 1, ![s].reserved = @ + 1]
      BY Zenon, <1>14 DEF Reserve
    <3>2. \A i \in 1 .. Len(snaps) : snaps[i] \in Snapshot
      BY <1>0
    <3>3. \A i \in 1 .. Len(snaps) : snaps'[i] \in Snapshot
      BY SMTT(40), <3>1, <3>2 DEF Snapshot
    <3>4. DOMAIN snaps' = 1 .. Len(snaps) /\ snaps' = [i \in 1 .. Len(snaps) |-> snaps'[i]]
      BY <3>0, <3>1
    <3>. QED BY <1>0, <3>3, <3>4
  <2>4. softly' \in [Processes -> [Keys -> [Minutes -> Nat]]]
    <3>1. softly' = [softly EXCEPT ![p][Global][bg] = @ + 1, ![p][n][bs] = @ + 1]
      BY ZenonT(40), <1>14 DEF Reserve
    <3>. DEFINE t == [softly[p] EXCEPT ![Global][bg] = @ + 1, ![n][bs] = @ + 1]
    <3>3. softly' = [softly EXCEPT ![p] = t]
      BY ZenonT(40), <3>1
    <3>4. t \in Table
      BY Zenon, <2>1, <2>2, KeyTypes, LoopTypes, HistoryTypes, AddTwice, 1 \in Nat
    <3>. HIDE DEF t
    <3>. QED BY <2>1, <3>3, <3>4 DEF Typed, Table
  <2>5. dropped' \in [Processes -> [Keys -> [Minutes -> Nat]]]
    <3>1. dropped' = [dropped EXCEPT ![p][Global][bg] = @ + orphan(Global, g), ![p][n][bs] = @ + orphan(n, s)]
      BY Zenon, <1>14 DEF Reserve
    <3>2. orphan(Global, g) \in Nat /\ orphan(n, s) \in Nat
      BY SMTT(40)
    <3>. HIDE DEF orphan
    <3>. DEFINE t == [dropped[p] EXCEPT ![Global][bg] = @ + orphan(Global, g), ![n][bs] = @ + orphan(n, s)]
    <3>3. dropped' = [dropped EXCEPT ![p] = t]
      BY ZenonT(40), <3>1
    <3>4. t \in Table
      BY ZenonT(40), <2>1, <2>2, <3>2, KeyTypes, LoopTypes, HistoryTypes, AddTwice, 1 \in Nat
    <3>. HIDE DEF t
    <3>. QED BY SMTT(40), <2>1, <3>3, <3>4 DEF Typed, Table
  <2>6. Return(l) /\ UNCHANGED <<minute, redis, current, call, faults>>
    BY Zenon, <1>14 DEF Reserve
  <2>. QED BY <2>3, <2>4, <2>5, <2>6, ReturnType DEF redis, call, Typed, TypeOK
<1>15. CASE Tick
  <2>1. minute' \in Minutes
    BY <1>15, BudgetAssumption DEF Tick, Minutes, Typed, TypeOK
  <2>. QED BY <1>15, <2>1 DEF Tick, redis, budget, call, soft, Typed, TypeOK
<1>16. CASE UNCHANGED vars
  BY <1>16 DEF vars, redis, budget, call, soft, Typed, TypeOK
<1>17. ASSUME NEW l \in Loops, Resend(l) PROVE Typed'
  <2>1. /\ bucket[l].g \in Minutes /\ bucket[l].s \in Minutes
        /\ signer[l] \in Keys /\ Global \in Keys
    BY LoopTypes, KeyTypes
  <2>2. count' \in [Keys -> [Minutes -> Int]]
    BY <1>17, <2>1, IncrType, FreedType DEF Resend
  <2>3. lost' \in [Minutes -> Nat]
    BY <1>17, <2>1, LoseType DEF Resend, Typed, TypeOK
  <2>4. faults' \in Nat
    BY <1>17, FaultType DEF Resend
  <2>5. UNCHANGED <<minute, granted, budget, sent, pc, call, bucket, soft>>
    BY <1>17 DEF Resend
  <2>. QED BY <2>2, <2>3, <2>4, <2>5 DEF budget, call, soft, Typed, TypeOK
<1>. QED
  BY <1>1, <1>2, <1>3, <1>4, <1>5, <1>6, <1>7, <1>8, <1>9, <1>10, <1>11, <1>12, <1>13, <1>14, <1>15, <1>16,
     <1>17
     DEF Next, LoopStep

-----------------------------------------------------------------------------
(* What the variables of a call say. *)

LEMMA InitCall == Init => CallInv
<1>. SUFFICES ASSUME Init, NEW l \in Loops PROVE CallShape(l)
  BY DEF CallInv
<1>. QED BY KeyTypes DEF Init, CallShape

\* It is enough to look at the loop that moved.
LEMMA OthersStay ==
  ASSUME CallInv, NEW l \in Loops, CallShape(l)',
         \A j \in Loops \ {l} : /\ pc'[j] = pc[j] /\ signer'[j] = signer[j] /\ key'[j] = key[j]
                                /\ reading'[j] = reading[j] /\ held'[j] = held[j]
  PROVE  CallInv'
<1>. SUFFICES ASSUME NEW j \in Loops PROVE CallShape(j)'
  BY DEF CallInv
<1>1. CASE j = l
  BY <1>1
<1>2. CASE j # l
  BY <1>2 DEF CallInv, CallShape
<1>. QED BY <1>1, <1>2

\* A loop that left the iteration, wherever it is now.
LEMMA ForgetShape ==
  ASSUME Typed, CallInv, NEW l \in Loops, NEW where \in PCs \ {"count", "store", "check"},
         Goto(l, where), Forget(l), UNCHANGED signer
  PROVE  CallInv'
<1>1. CallShape(l)'
  BY DEF Goto, Forget, CallShape, Typed, TypeOK
<1>. QED BY <1>1, OthersStay DEF Goto, Forget, Typed, TypeOK

LEMMA ToSoftShape ==
  ASSUME Typed, CallInv, NEW l \in Loops, pc[l] \notin {"count", "store", "check"},
         ToSoft(l), UNCHANGED signer
  PROVE  CallInv'
<1>1. CallShape(l)'
  BY DEF Goto, ToSoft, CallInv, CallShape, Typed, TypeOK
<1>. QED BY <1>1, OthersStay DEF Goto, ToSoft, Typed, TypeOK

LEMMA CallStep == Typed /\ CallInv /\ [Next]_vars => CallInv'
<1>. SUFFICES ASSUME Typed, CallInv, [Next]_vars PROVE CallInv'
  OBVIOUS
<1>0. Len(snaps) \in Nat /\ snaps \in Seq(Snapshot)
  BY DEF Typed, TypeOK
<1>1. ASSUME NEW l \in Loops, Call(l) PROVE CallInv'
  <2>1. CallShape(l)'
    BY Zenon, <1>1, LoopTypes DEF Call, Goto, soft, CallInv, CallShape, Typed, TypeOK
  <2>. QED BY <1>1, <2>1, OthersStay DEF Call, Goto, soft, Typed, TypeOK
<1>2. ASSUME NEW l \in Loops, SendAnyway(l) \/ SignerTaken(l) \/ Reserve(l) PROVE CallInv'
  <2>1. Return(l) /\ UNCHANGED call
    BY Zenon, <1>2 DEF SendAnyway, SignerTaken, Reserve
  <2>. QED BY <2>1, ForgetShape DEF Return, call, PCs
<1>3. ASSUME NEW l \in Loops, GlobalKey(l) \/ SignerKey(l) \/ SignerRefused(l) PROVE CallInv'
  <2>1. /\ UNCHANGED <<call, soft>> /\ pc[l] \notin {"count", "store", "check"}
        /\ \E where \in PCs \ {"count", "store", "check"} : Goto(l, where)
    BY <1>3 DEF GlobalKey, SignerKey, SignerRefused, PCs
  <2>2. CallShape(l)'
    BY <2>1 DEF Goto, call, soft, CallInv, CallShape, Typed, TypeOK
  <2>. QED BY <2>1, <2>2, OthersStay DEF Goto, call, soft, Typed, TypeOK
<1>4. ASSUME NEW l \in Loops, GlobalTry(l) PROVE CallInv'
  <2>1. UNCHANGED call /\ pc[l] = "globalTry"
    BY <1>4 DEF GlobalTry
  <2>2. CASE Goto(l, "signerTry") /\ UNCHANGED <<bucket, soft>>
    <3>1. CallShape(l)'
      BY <2>1, <2>2 DEF Goto, call, soft, CallInv, CallShape, Typed, TypeOK
    <3>. QED BY <2>1, <2>2, <3>1, OthersStay DEF Goto, call, soft, Typed, TypeOK
  <2>3. CASE Again(l)
    BY <2>1, <2>3, ForgetShape DEF Again, call, PCs
  <2>4. CASE ToSoft(l)
    BY <2>1, <2>4, ToSoftShape DEF call
  <2>. QED BY <1>4, <2>2, <2>3, <2>4 DEF GlobalTry
<1>5. ASSUME NEW l \in Loops, Release(l) PROVE CallInv'
  <2>1. /\ UNCHANGED call /\ pc[l] \notin {"count", "store", "check"}
        /\ Again(l) \/ ToSoft(l)
    BY <1>5 DEF Release
  <2>. QED BY <2>1, ForgetShape, ToSoftShape DEF Again, call, PCs
<1>6. ASSUME NEW l \in Loops, CountFails(l) \/ SignerFull(l) PROVE CallInv'
  <2>1. /\ UNCHANGED call /\ Forget(l)
        /\ \E where \in PCs \ {"count", "store", "check"} : Goto(l, where)
    BY <1>6 DEF CountFails, SignerFull, Again, PCs
  <2>. QED BY <2>1, ForgetShape DEF call
<1>7. ASSUME NEW l \in Loops, Reuse(l) PROVE CallInv'
  <2>1. /\ UNCHANGED <<call, key, reading>> /\ pc[l] = "count" /\ Mine(l) # 0
        /\ Hold(l, Mine(l)) /\ Goto(l, "check")
    BY <1>7 DEF Reuse
  <2>. HIDE DEF Mine
  <2>2. CallShape(l)'
    BY SMTT(40), <2>1 DEF Hold, Goto, call, CallInv, CallShape, Typed, TypeOK
  <2>. QED BY <2>1, <2>2, OthersStay DEF Hold, Goto, call, Typed, TypeOK
<1>8. ASSUME NEW l \in Loops, BeginCount(l) PROVE CallInv'
  <2>1. CallShape(l)'
    BY <1>8 DEF BeginCount, Goto, call, CallInv, CallShape, Typed, TypeOK
  <2>. QED BY <1>8, <2>1, OthersStay DEF BeginCount, Goto, call, Typed, TypeOK
<1>9. ASSUME NEW l \in Loops, Store(l) PROVE CallInv'
  <2>1. /\ UNCHANGED <<call, key>> /\ pc[l] = "store" /\ Goto(l, "check")
        /\ Hold(l, Len(snaps')) /\ reading' = [reading EXCEPT ![l] = [existing |-> 0, bucket |-> 0]]
    BY <1>9 DEF Store
  <2>2. Len(snaps') # 0
    BY <1>0, <1>9 DEF Store
  <2>3. CallShape(l)'
    BY SMTT(40), <2>1, <2>2 DEF Hold, Goto, call, CallInv, CallShape, Typed, TypeOK
  <2>. QED BY <2>1, <2>3, OthersStay DEF Hold, Goto, call, Typed, TypeOK
<1>10. ASSUME NEW l \in Loops, GlobalCheck(l) PROVE CallInv'
  <2>1. UNCHANGED call /\ pc[l] = "check" /\ key[l] = Global
    BY <1>10 DEF GlobalCheck
  <2>2. CASE Again(l)
    BY <2>1, <2>2, ForgetShape DEF Again, call, PCs
  <2>3. CASE Goto(l, "count") /\ key' = [key EXCEPT ![l] = signer[l]] /\ UNCHANGED <<bucket, reading, held>>
    <3>1. CallShape(l)'
      BY <2>1, <2>3, LoopTypes DEF Goto, call, CallInv, CallShape, Typed, TypeOK
    <3>. QED BY <2>1, <2>3, <3>1, OthersStay DEF Goto, call, Typed, TypeOK
  <2>. QED BY <1>10, <2>2, <2>3 DEF GlobalCheck
<1>11. CASE Tick \/ UNCHANGED vars
  BY <1>11 DEF Tick, vars, call, soft, CallInv, CallShape
<1>12. ASSUME NEW l \in Loops, Resend(l) PROVE CallInv'
  BY <1>12 DEF Resend, call, soft, CallInv, CallShape
<1>. QED
  BY <1>1, <1>2, <1>3, <1>4, <1>5, <1>6, <1>7, <1>8, <1>9, <1>10, <1>11, <1>12 DEF Next, LoopStep

-----------------------------------------------------------------------------
(* The counters in Redis. *)

LEMMA InitSlots == Init => SlotInv
<1>. SUFFICES ASSUME Init PROVE SlotInv
  OBVIOUS
<1>1. \A m \in Minutes : Holding(m) = {}
  BY DEF Init, Holding
<1>2. Cardinality({}) = 0
  BY FS_EmptySet
<1>3. \A k \in Keys, m \in Minutes : count[k][m] = 0 /\ granted[k][m] = 0
  BY DEF Init
<1>4. \A m \in Minutes : lost[m] = 0
  BY DEF Init
<1>5. ASSUME NEW m \in Minutes PROVE GlobalSlots(m)
  <2>1. Cardinality(Holding(m)) = 0
    BY <1>1, <1>2
  <2>2. count[Global][m] = 0 /\ granted[Global][m] = 0 /\ lost[m] = 0
    BY <1>3, <1>4, KeyTypes
  <2>. QED BY <2>1, <2>2 DEF GlobalSlots
<1>. QED BY <1>3, <1>5, KeyTypes DEF SlotInv

\* The loops that hold a slot of m are as many as before, but for the one that moved.
LEMMA HoldingCount ==
  ASSUME NEW l \in Loops, NEW m \in Minutes,
         \A j \in Loops \ {l} : pc'[j] = pc[j] /\ bucket'[j] = bucket[j]
  PROVE  /\ Cardinality(Holding(m)) \in Nat
         /\ Cardinality(Holding(m)') = Cardinality(Holding(m))
               + (IF l \in Holding(m)' THEN 1 ELSE 0) - (IF l \in Holding(m) THEN 1 ELSE 0)
<1>. DEFINE rest == Holding(m) \ {l}
<1>1. rest = Holding(m)' \ {l}
  BY DEF Holding
<1>2. IsFiniteSet(Holding(m)) /\ IsFiniteSet(Holding(m)')
  BY BudgetAssumption, FS_Subset DEF Holding
<1>3. IsFiniteSet(rest) /\ Cardinality(rest) \in Nat /\ Cardinality(Holding(m)) \in Nat
  BY <1>2, FS_Subset, FS_CardinalityType
<1>4. Cardinality(Holding(m)) = Cardinality(rest) + (IF l \in Holding(m) THEN 1 ELSE 0)
  <2>1. CASE l \in Holding(m)
    BY <1>2, <1>3, <2>1, FS_RemoveElement, FS_CardinalityType
  <2>2. CASE l \notin Holding(m)
    <3>1. rest = Holding(m)
      BY <2>2
    <3>. QED BY <1>3, <2>2, <3>1
  <2>. QED BY <2>1, <2>2
<1>5. Cardinality(Holding(m)') = Cardinality(rest) + (IF l \in Holding(m)' THEN 1 ELSE 0)
  <2>1. CASE l \in Holding(m)'
    <3>1. Cardinality(Holding(m)' \ {l}) = Cardinality(Holding(m)') - 1 /\ Cardinality(Holding(m)') \in Nat
      BY <1>2, <2>1, FS_RemoveElement, FS_CardinalityType
    <3>2. Cardinality(rest) = Cardinality(Holding(m)') - 1
      BY <1>1, <3>1
    <3>. HIDE DEF rest
    <3>. QED BY <2>1, <3>1, <3>2
  <2>2. CASE l \notin Holding(m)'
    <3>1. rest = Holding(m)'
      BY <1>1, <2>2
    <3>. QED BY <1>3, <2>2, <3>1
  <2>. QED BY <2>1, <2>2
<1>. HIDE DEF rest
<1>. QED BY <1>3, <1>4, <1>5

\* A slot was free and is taken.
LEMMA CountUp ==
  ASSUME Typed, SlotInv, NEW k \in Keys, NEW m \in Minutes, HasSlot(k, m), Incr(k, m)
  PROVE  \A i \in Keys, z \in Minutes :
            /\ count'[i][z] = count[i][z] + (IF i = k /\ z = m THEN 1 ELSE 0)
            /\ count'[i][z] <= Limit[i]
<1>1. count \in [Keys -> [Minutes -> Int]]
  BY DEF Typed, TypeOK
<1>2. \A i \in Keys, z \in Minutes : count'[i][z] = count[i][z] + (IF i = k /\ z = m THEN 1 ELSE 0)
  BY <1>1 DEF Incr
<1>3. \A i \in Keys, z \in Minutes : count[i][z] \in Int
  BY <1>1
<1>. QED BY <1>2, <1>3, KeyTypes DEF SlotInv, HasSlot

\* A step of a loop that holds no slot, and takes none.
LEMMA Quiet ==
  ASSUME Typed, SlotInv, NEW l \in Loops, UNCHANGED <<count, granted, lost>>,
         \A j \in Loops \ {l} : pc'[j] = pc[j] /\ bucket'[j] = bucket[j],
         pc[l] \notin {"signerTry", "release", "releaseSoft"},
         pc'[l] \notin {"signerTry", "release", "releaseSoft"}
  PROVE  SlotInv'
<1>1. \A m \in Minutes : Holding(m)' = Holding(m)
  BY DEF Holding
<1>. QED BY <1>1 DEF SlotInv, GlobalSlots

\* The loops beside l keep their place and their keys.
LEMMA OthersKeep ==
  ASSUME Typed, NEW l \in Loops, NEW where \in PCs, Goto(l, where),
         Forget(l) \/ UNCHANGED bucket \/ \E b : bucket' = [bucket EXCEPT ![l] = b]
  PROVE  /\ pc'[l] = where
         /\ \A j \in Loops \ {l} : pc'[j] = pc[j] /\ bucket'[j] = bucket[j]
  BY ZenonT(40) DEF Goto, Forget, Typed, TypeOK

LEMMA SlotStep == Typed /\ CallInv /\ SlotInv /\ [Next]_vars => SlotInv'
<1>. SUFFICES ASSUME Typed, CallInv, SlotInv, [Next]_vars PROVE SlotInv'
  OBVIOUS
<1>0. \A k \in Keys, m \in Minutes : count[k][m] \in Int /\ granted[k][m] \in Nat /\ lost[m] \in Nat
  BY CountTypes
<1>1. ASSUME NEW l \in Loops,
             Call(l) \/ SendAnyway(l) \/ GlobalKey(l) \/ SignerKey(l) \/ Reuse(l) \/ BeginCount(l)
                 \/ Store(l) \/ CountFails(l) \/ GlobalCheck(l) \/ SignerFull(l) \/ Reserve(l)
      PROVE  SlotInv'
  <2>1. UNCHANGED <<count, granted, lost>> /\ pc[l] \notin {"signerTry", "release", "releaseSoft"}
    BY Zenon, <1>1 DEF Call, SendAnyway, GlobalKey, SignerKey, Reuse, BeginCount, Store, CountFails,
                GlobalCheck, SignerFull, Reserve, redis
  <2>2. \E where \in PCs \ {"signerTry", "release", "releaseSoft"} : Goto(l, where)
    BY Zenon, <1>1 DEF Call, SendAnyway, GlobalKey, SignerKey, Reuse, BeginCount, Store, CountFails,
                GlobalCheck, SignerFull, Reserve, Again, Return, PCs
  <2>3. Forget(l) \/ UNCHANGED bucket \/ \E b : bucket' = [bucket EXCEPT ![l] = b]
    <3>1. CASE GlobalKey(l) \/ SignerKey(l)
      BY SMTT(40), <3>1 DEF GlobalKey, SignerKey
    <3>2. CASE ~(GlobalKey(l) \/ SignerKey(l))
      BY Zenon, <1>1, <3>2 DEF Call, SendAnyway, Reuse, BeginCount, Store, CountFails,
                GlobalCheck, SignerFull, Reserve, Again, Return
    <3>. QED BY <3>1, <3>2
  <2>. QED BY <2>1, <2>2, <2>3, OthersKeep, Quiet
<1>2. ASSUME NEW l \in Loops, GlobalTry(l) PROVE SlotInv'
  <2>. DEFINE m == bucket[l].g
  <2>1. m \in Minutes /\ pc[l] = "globalTry" /\ UNCHANGED <<granted, lost>>
    BY <1>2, LoopTypes DEF GlobalTry
  <2>2. CASE HasSlot(Global, m) /\ Incr(Global, m) /\ Goto(l, "signerTry")
             /\ UNCHANGED <<bucket, soft>>
    <3>1. pc'[l] = "signerTry" /\ \A j \in Loops \ {l} : pc'[j] = pc[j] /\ bucket'[j] = bucket[j]
      BY <2>2, OthersKeep DEF PCs
    <3>2. \A i \in Keys, z \in Minutes :
              /\ count'[i][z] = count[i][z] + (IF i = Global /\ z = m THEN 1 ELSE 0)
              /\ count'[i][z] <= Limit[i]
      BY <2>1, <2>2, CountUp, KeyTypes
    <3>3. ASSUME NEW z \in Minutes PROVE GlobalSlots(z)'
      <4>1. l \notin Holding(z) /\ (l \in Holding(z)' <=> z = m)
        BY <2>1, <2>2, <3>1 DEF Holding
      <4>2. /\ Cardinality(Holding(z)) \in Nat
            /\ Cardinality(Holding(z)') = Cardinality(Holding(z)) + (IF z = m THEN 1 ELSE 0)
        BY <3>1, <4>1, HoldingCount
      <4>. HIDE DEF m
      <4>3. count'[Global][z] = count[Global][z] + (IF z = m THEN 1 ELSE 0)
        BY <3>2, KeyTypes
      <4>4. granted'[Global][z] = granted[Global][z] /\ lost'[z] = lost[z] /\ GlobalSlots(z)
        BY <2>1, <2>2 DEF SlotInv
      <4>. QED BY <1>0, <4>2, <4>3, <4>4, KeyTypes DEF GlobalSlots
    <3>4. \A s \in Signers, z \in Minutes : granted'[s][z] <= count'[s][z]
      BY <1>0, <2>1, <3>2, KeyTypes, BudgetAssumption DEF SlotInv
    <3>. QED BY <3>2, <3>3, <3>4 DEF SlotInv
  <2>3. CASE UNCHANGED count /\ Again(l)
    <3>1. pc'[l] = "top" /\ \A j \in Loops \ {l} : pc'[j] = pc[j] /\ bucket'[j] = bucket[j]
      BY <2>3, OthersKeep DEF Again, PCs
    <3>. QED BY <2>1, <2>3, <3>1, Quiet
  <2>4. CASE UNCHANGED count /\ ToSoft(l)
    <3>1. pc'[l] = "count" /\ \A j \in Loops \ {l} : pc'[j] = pc[j] /\ bucket'[j] = bucket[j]
      BY <2>4, OthersKeep DEF ToSoft, PCs
    <3>. QED BY <2>1, <2>4, <3>1, Quiet
  <2>. QED BY <1>2, <2>2, <2>3, <2>4 DEF GlobalTry
<1>3. ASSUME NEW l \in Loops, SignerTaken(l) PROVE SlotInv'
  <2>. DEFINE m == bucket[l].g
              n == bucket[l].s
              s == signer[l]
  <2>1. /\ m \in Minutes /\ n \in Minutes /\ s \in Keys /\ s \in Signers /\ s # Global
        /\ pc[l] = "signerTry" /\ UNCHANGED lost /\ Return(l)
        /\ HasSlot(s, n) /\ Incr(s, n)
        /\ granted' = [granted EXCEPT ![Global][m] = @ + 1, ![s][n] = @ + 1]
    BY <1>3, LoopTypes DEF SignerTaken
  <2>2. \A i \in Keys, z \in Minutes :
            granted'[i][z] = granted[i][z] + (IF i = Global /\ z = m THEN 1 ELSE IF i = s /\ z = n THEN 1 ELSE 0)
    <3>1. granted \in Table /\ Global \in Keys
      BY RedisTables, KeyTypes
    <3>2. RaisedTwice(granted, granted', Global, m, 1, s, n, 1)
      BY <2>1, <3>1, AddTwice, 1 \in Nat
    <3>. QED BY <3>2 DEF RaisedTwice
  <2>3. pc'[l] = "idle" /\ \A j \in Loops \ {l} : pc'[j] = pc[j] /\ bucket'[j] = bucket[j]
    BY <2>1, OthersKeep DEF Return, PCs
  <2>4. \A i \in Keys, z \in Minutes :
            /\ count'[i][z] = count[i][z] + (IF i = s /\ z = n THEN 1 ELSE 0)
            /\ count'[i][z] <= Limit[i]
    BY <2>1, CountUp
  <2>5. ASSUME NEW z \in Minutes PROVE GlobalSlots(z)'
    <3>1. (l \in Holding(z) <=> z = m) /\ l \notin Holding(z)'
      BY <2>1, <2>3 DEF Holding
    <3>2. /\ Cardinality(Holding(z)) \in Nat
          /\ Cardinality(Holding(z)') = Cardinality(Holding(z)) - (IF z = m THEN 1 ELSE 0)
      BY <2>3, <3>1, HoldingCount
    <3>. HIDE DEF m, n, s
    <3>3. count'[Global][z] = count[Global][z]
      BY <1>0, <2>1, <2>4, KeyTypes
    <3>4. granted'[Global][z] = granted[Global][z] + (IF z = m THEN 1 ELSE 0)
      BY ZenonT(40), <1>0, <2>1, <2>2, KeyTypes
    <3>5. lost'[z] = lost[z] /\ GlobalSlots(z)
      BY <2>1 DEF SlotInv
    <3>. QED BY <1>0, <3>2, <3>3, <3>4, <3>5, KeyTypes DEF GlobalSlots
  <2>6. \A i \in Signers, z \in Minutes : granted'[i][z] <= count'[i][z]
    <3>. HIDE DEF m, n, s
    <3>. TAKE i \in Signers, z \in Minutes
    <3>1. i \in Keys /\ i # Global
      BY BudgetAssumption, KeyTypes
    <3>2. granted'[i][z] = granted[i][z] + (IF i = s /\ z = n THEN 1 ELSE 0)
      BY <2>2, <3>1
    <3>3. count'[i][z] = count[i][z] + (IF i = s /\ z = n THEN 1 ELSE 0)
      BY <2>4, <3>1
    <3>4. granted[i][z] <= count[i][z] /\ granted[i][z] \in Nat /\ count[i][z] \in Int
      BY <1>0, <3>1 DEF SlotInv
    <3>. QED BY <3>2, <3>3, <3>4
  <2>. QED BY <2>4, <2>5, <2>6 DEF SlotInv
<1>4. ASSUME NEW l \in Loops, SignerRefused(l) PROVE SlotInv'
  <2>1. pc[l] = "signerTry" /\ UNCHANGED <<count, granted, lost, bucket>>
    BY <1>4 DEF SignerRefused, redis
  <2>2. \E where \in {"release", "releaseSoft"} : Goto(l, where)
    BY <1>4 DEF SignerRefused
  <2>3. pc'[l] \in {"release", "releaseSoft"} /\ \A j \in Loops \ {l} : pc'[j] = pc[j] /\ bucket'[j] = bucket[j]
    BY <2>1, <2>2, OthersKeep DEF PCs
  <2>4. \A z \in Minutes : Holding(z)' = Holding(z)
    BY <2>1, <2>3 DEF Holding
  <2>. QED BY <2>1, <2>4 DEF SlotInv, GlobalSlots
<1>5. ASSUME NEW l \in Loops, Release(l) PROVE SlotInv'
  <2>. DEFINE m == bucket[l].g
  <2>1. m \in Minutes /\ pc[l] \in {"release", "releaseSoft"} /\ UNCHANGED granted
    BY <1>5, LoopTypes DEF Release
  <2>2. /\ pc'[l] \in {"top", "count"}
        /\ \A j \in Loops \ {l} : pc'[j] = pc[j] /\ bucket'[j] = bucket[j]
    <3>1. Again(l) \/ ToSoft(l)
      BY <1>5 DEF Release
    <3>. QED BY <3>1, OthersKeep DEF Again, ToSoft, PCs
  <2>3. ASSUME NEW z \in Minutes
        PROVE  /\ Cardinality(Holding(z)) \in Nat
               /\ Cardinality(Holding(z)') = Cardinality(Holding(z)) - (IF z = m THEN 1 ELSE 0)
    <3>1. (l \in Holding(z) <=> z = m) /\ l \notin Holding(z)'
      BY <2>1, <2>2 DEF Holding
    <3>. QED BY <2>2, <3>1, HoldingCount
  <2>4. CASE count' = Freed(l) /\ UNCHANGED lost
    <3>1. \A k \in Keys, z \in Minutes :
              count'[k][z] = count[k][z] - (IF k = Global /\ z = m THEN 1 ELSE 0)
      BY <2>1, <2>4, FreedType
    <3>. HIDE DEF m
    <3>2. ASSUME NEW z \in Minutes PROVE GlobalSlots(z)'
      <4>1. count'[Global][z] = count[Global][z] - (IF z = m THEN 1 ELSE 0)
        BY <3>1, KeyTypes
      <4>2. granted'[Global][z] = granted[Global][z] /\ lost'[z] = lost[z] /\ GlobalSlots(z)
        BY <2>1, <2>4 DEF SlotInv
      <4>. QED BY <1>0, <2>3, <4>1, <4>2, KeyTypes DEF GlobalSlots
    <3>3. \A k \in Keys, z \in Minutes : count'[k][z] <= Limit[k]
      BY <1>0, <3>1, KeyTypes DEF SlotInv
    <3>4. \A i \in Signers, z \in Minutes : granted'[i][z] <= count'[i][z]
      <4>. TAKE i \in Signers, z \in Minutes
      <4>1. i \in Keys /\ i # Global
        BY KeyTypes, BudgetAssumption
      <4>2. count'[i][z] = count[i][z]
        BY <1>0, <3>1, <4>1
      <4>. QED BY <2>1, <4>2 DEF SlotInv
    <3>. QED BY <3>2, <3>3, <3>4 DEF SlotInv
  <2>5. CASE Lose(m) /\ UNCHANGED count
    <3>0. lost'[m] = lost[m] + 1 /\ \A z \in Minutes : lost'[z] = lost[z] + (IF z = m THEN 1 ELSE 0)
      BY <1>0, <2>1, <2>5, LoseType
    <3>. HIDE DEF m
    <3>1. ASSUME NEW z \in Minutes PROVE GlobalSlots(z)'
      <4>1. /\ count'[Global][z] = count[Global][z] /\ granted'[Global][z] = granted[Global][z]
            /\ lost'[z] = lost[z] + (IF z = m THEN 1 ELSE 0) /\ GlobalSlots(z)
        BY <2>1, <2>5, <3>0 DEF SlotInv
      <4>. QED BY <1>0, <2>3, <4>1, KeyTypes DEF GlobalSlots
    <3>. QED BY <2>1, <2>5, <3>1 DEF SlotInv
  <2>. QED BY <1>5, <2>4, <2>5 DEF Release
<1>6. ASSUME NEW l \in Loops, Resend(l) PROVE SlotInv'
  <2>. DEFINE m == bucket[l].g
              n == bucket[l].s
              s == signer[l]
  <2>1. /\ m \in Minutes /\ n \in Minutes /\ s \in Keys /\ s # Global
        /\ UNCHANGED <<granted, pc, bucket>>
    BY <1>6, LoopTypes DEF Resend
  <2>2. ASSUME NEW z \in Minutes
        PROVE  Holding(z)' = Holding(z) /\ Cardinality(Holding(z)) \in Nat
    BY <2>1, BudgetAssumption, FS_Subset, FS_CardinalityType DEF Holding
  <2>3. CASE HasSlot(Global, m) /\ Incr(Global, m) /\ Lose(m)
    <3>1. \A i \in Keys, z \in Minutes :
              /\ count'[i][z] = count[i][z] + (IF i = Global /\ z = m THEN 1 ELSE 0)
              /\ count'[i][z] <= Limit[i]
      BY <2>1, <2>3, CountUp, KeyTypes
    <3>2. \A z \in Minutes : lost'[z] = lost[z] + (IF z = m THEN 1 ELSE 0)
      BY <2>1, <2>3, LoseType
    <3>. HIDE DEF m, n, s
    <3>3. ASSUME NEW z \in Minutes PROVE GlobalSlots(z)'
      <4>1. /\ count'[Global][z] = count[Global][z] + (IF z = m THEN 1 ELSE 0)
            /\ granted'[Global][z] = granted[Global][z] /\ GlobalSlots(z)
        BY <2>1, <3>1, KeyTypes DEF SlotInv
      <4>. QED BY <1>0, <2>2, <3>2, <4>1, KeyTypes DEF GlobalSlots
    <3>4. \A i \in Signers, z \in Minutes : granted'[i][z] <= count'[i][z]
      BY <1>0, <2>1, <3>1, KeyTypes, BudgetAssumption DEF SlotInv
    <3>. QED BY <3>1, <3>3, <3>4 DEF SlotInv
  <2>4. CASE HasSlot(s, n) /\ Incr(s, n) /\ UNCHANGED lost
    <3>1. \A i \in Keys, z \in Minutes :
              /\ count'[i][z] = count[i][z] + (IF i = s /\ z = n THEN 1 ELSE 0)
              /\ count'[i][z] <= Limit[i]
      BY <2>1, <2>4, CountUp
    <3>. HIDE DEF m, n, s
    <3>2. ASSUME NEW z \in Minutes PROVE GlobalSlots(z)'
      <4>1. /\ count'[Global][z] = count[Global][z] /\ granted'[Global][z] = granted[Global][z]
            /\ lost'[z] = lost[z] /\ GlobalSlots(z)
        BY <1>0, <2>1, <2>4, <3>1, KeyTypes DEF SlotInv
      <4>. QED BY <2>2, <4>1 DEF GlobalSlots
    <3>3. \A i \in Signers, z \in Minutes : granted'[i][z] <= count'[i][z]
      <4>. TAKE i \in Signers, z \in Minutes
      <4>1. count'[i][z] >= count[i][z] /\ count'[i][z] \in Int
        BY <1>0, <3>1, KeyTypes
      <4>2. granted'[i][z] = granted[i][z] /\ granted[i][z] <= count[i][z]
        BY <2>1 DEF SlotInv
      <4>. QED BY <1>0, <4>1, <4>2, KeyTypes
    <3>. QED BY <3>1, <3>2, <3>3 DEF SlotInv
  <2>5. CASE count' = Freed(l) /\ Lose(m)
    <3>1. \A k \in Keys, z \in Minutes :
              count'[k][z] = count[k][z] - (IF k = Global /\ z = m THEN 1 ELSE 0)
      BY <2>1, <2>5, FreedType
    <3>2. \A z \in Minutes : lost'[z] = lost[z] + (IF z = m THEN 1 ELSE 0)
      BY <2>1, <2>5, LoseType
    <3>. HIDE DEF m, n, s
    <3>3. ASSUME NEW z \in Minutes PROVE GlobalSlots(z)'
      <4>1. /\ count'[Global][z] = count[Global][z] - (IF z = m THEN 1 ELSE 0)
            /\ granted'[Global][z] = granted[Global][z] /\ GlobalSlots(z)
        BY <2>1, <3>1, KeyTypes DEF SlotInv
      <4>. QED BY <1>0, <2>2, <3>2, <4>1, KeyTypes DEF GlobalSlots
    <3>4. \A k \in Keys, z \in Minutes : count'[k][z] <= Limit[k]
      BY <1>0, <3>1, KeyTypes DEF SlotInv
    <3>5. \A i \in Signers, z \in Minutes : granted'[i][z] <= count'[i][z]
      <4>. TAKE i \in Signers, z \in Minutes
      <4>1. i \in Keys /\ i # Global
        BY KeyTypes, BudgetAssumption
      <4>2. count'[i][z] = count[i][z]
        BY <1>0, <3>1, <4>1
      <4>. QED BY <2>1, <4>2 DEF SlotInv
    <3>. QED BY <3>3, <3>4, <3>5 DEF SlotInv
  <2>. QED BY <1>6, <2>3, <2>4, <2>5 DEF Resend
<1>7. CASE Tick \/ UNCHANGED vars
  <2>1. UNCHANGED <<count, granted, lost, pc, bucket>>
    BY <1>7 DEF Tick, vars, redis
  <2>. QED BY <2>1 DEF SlotInv, GlobalSlots, Holding
<1>. QED
  BY <1>1, <1>2, <1>3, <1>4, <1>5, <1>6, <1>7 DEF Next, LoopStep

LEMMA RedisInvariant == Spec => []RedisInv
<1>1. Init => RedisInv
  BY InitTyped, InitCall, InitSlots DEF RedisInv
<1>2. RedisInv /\ [Next]_vars => RedisInv'
  BY TypedStep, CallStep, SlotStep DEF RedisInv
<1>. QED BY <1>1, <1>2, PTL DEF Spec

\* Every variable of the limiter keeps its shape; only the counters in Redis may
\* go below zero, when a DECR is sent again.
THEOREM BudgetTypeOK == Spec => []TypeOK
<1>1. RedisInv => TypeOK
  BY DEF RedisInv, Typed
<1>. QED BY <1>1, RedisInvariant, PTL

\* Redis grants no more sends of a minute than a signer's cap, and exceeds the
\* global cap at most by the calls on that minute's key that lost an answer or
\* failed: for any number of loops, signers and processes, whatever commands are
\* sent again or given up.
THEOREM RedisKeepsLimit == Spec => []RedisWithinLimit
<1>1. ASSUME RedisInv, NEW s \in Signers, NEW m \in Minutes PROVE granted[s][m] <= Limit[s]
  <2>1. granted[s][m] <= count[s][m] /\ count[s][m] <= Limit[s]
    BY <1>1, KeyTypes DEF RedisInv, SlotInv
  <2>2. granted[s][m] \in Nat /\ count[s][m] \in Int /\ Limit[s] \in Nat
    BY <1>1, KeyTypes, CountTypes DEF RedisInv
  <2>. QED BY <2>1, <2>2
<1>2. ASSUME RedisInv, NEW m \in Minutes PROVE granted[Global][m] <= Limit[Global] + lost[m]
  <2>1. Cardinality(Holding(m)) \in Nat
    BY BudgetAssumption, FS_Subset, FS_CardinalityType DEF Holding
  <2>2. GlobalSlots(m) /\ count[Global][m] <= Limit[Global]
    BY <1>2, KeyTypes DEF RedisInv, SlotInv
  <2>3. granted[Global][m] \in Nat /\ count[Global][m] \in Int /\ lost[m] \in Nat /\ Limit[Global] \in Nat
    BY <1>2, KeyTypes, CountTypes DEF RedisInv
  <2>. QED BY <2>1, <2>2, <2>3 DEF GlobalSlots
<1>3. RedisInv => RedisWithinLimit
  BY <1>1, <1>2 DEF RedisWithinLimit
<1>. QED BY <1>3, RedisInvariant, PTL

\* A global slot that no send used is given back, but for a lost call each.
THEOREM SlotsComeBack == Spec => []NoSlotLost
<1>1. RedisInv => NoSlotLost
  BY DEF RedisInv, SlotInv, GlobalSlots, NoSlotLost
<1>. QED BY <1>1, RedisInvariant, PTL

-----------------------------------------------------------------------------
(* The snapshots of the fallback. *)

LEMMA LoopCounts ==
  ASSUME NEW p \in Processes
  PROVE  /\ OthersOf(p) \in Int /\ OthersOf(p) >= -1
         /\ \A l \in Loops : Process[l] = p => OthersOf(p) \in Nat
         /\ \A k \in Keys : Bound(p, k) \in Nat
<1>. DEFINE own == {l \in Loops : Process[l] = p}
<1>1. IsFiniteSet(own) /\ Cardinality(own) \in Nat
  BY BudgetAssumption, FS_Subset, FS_CardinalityType
<1>2. OthersOf(p) \in Int /\ OthersOf(p) >= -1
  BY <1>1 DEF OthersOf
<1>3. ASSUME NEW l \in Loops, Process[l] = p PROVE OthersOf(p) \in Nat
  <2>1. own # {}
    BY <1>3
  <2>2. Cardinality(own) # 0
    BY <1>1, <2>1, FS_EmptySet
  <2>. QED BY <1>1, <2>2 DEF OthersOf
<1>4. \A k \in Keys : Bound(p, k) \in Nat
  BY <1>2, KeyTypes DEF Bound
<1>. QED BY <1>2, <1>3, <1>4

LEMMA PassedFinite ==
  ASSUME NEW i PROVE IsFiniteSet(Passed(i)) /\ Cardinality(Passed(i)) \in Nat
  BY BudgetAssumption, FS_Subset, FS_CardinalityType DEF Passed

\* Only loops of the process that owns a snapshot hold it.
LEMMA PassedOfOwner ==
  ASSUME Typed, NEW owner, Owns(owner), NEW i \in 1 .. Len(snaps)
  PROVE  Passed(i) \subseteq {l \in Loops : Process[l] = owner[i][1]}
<1>. SUFFICES ASSUME NEW l \in Passed(i) PROVE Process[l] = owner[i][1]
  BY DEF Passed
<1>1. held[l].g # 0 /\ owner[held[l].g] = <<Process[l], Global>> /\ held[l].g = i
  BY LoopTypes, KeyTypes DEF Passed, Owns
<1>. QED BY <1>1

\* The snapshots stay, and l holds and reads only its own.
LEMMA OwnsKept ==
  ASSUME Typed, NEW owner, Owns(owner), UNCHANGED <<snaps, current>>, NEW l \in Loops,
         \A j \in Loops \ {l} : /\ signer'[j] = signer[j] /\ key'[j] = key[j]
                                /\ reading'[j] = reading[j] /\ held'[j] = held[j],
         held'[l].g # 0 => owner[held'[l].g] = <<Process[l], Global>>,
         held'[l].s # 0 => owner[held'[l].s] = <<Process[l], signer'[l]>>,
         reading'[l].existing # 0 => owner[reading'[l].existing] = <<Process[l], key'[l]>>
  PROVE  Owns(owner)'
  BY ZenonT(40) DEF Owns

\* No more loops passed than before.
LEMMA FilledKept ==
  ASSUME Typed, NEW owner, Owns(owner), Filled(owner), UNCHANGED snaps,
         \A i \in 1 .. Len(snaps) : Passed(i)' \subseteq Passed(i)
  PROVE  Filled(owner)'
<1>1. Len(snaps) \in Nat
  BY DEF Typed, TypeOK
<1>. SUFFICES ASSUME NEW i \in 1 .. Len(snaps)
              PROVE  LET p == owner[i][1]
                         k == owner[i][2]
                     IN snaps[i].reserved + (IF k = Global THEN Cardinality(Passed(i)') ELSE 0) <= Bound(p, k)
  BY DEF Filled, Bound, OthersOf
<1>2. owner[i][1] \in Processes /\ owner[i][2] \in Keys
  BY DEF Owns
<1>3. Bound(owner[i][1], owner[i][2]) \in Nat /\ snaps[i].reserved \in Nat
  BY <1>1, <1>2, LoopCounts, SnapType
<1>4. Cardinality(Passed(i)') <= Cardinality(Passed(i)) /\ Cardinality(Passed(i)) \in Nat
      /\ Cardinality(Passed(i)') \in Nat
  BY PassedFinite, FS_Subset, FS_CardinalityType
<1>. QED BY <1>3, <1>4 DEF Filled

\* A step of l that makes no snapshot, reserves nothing and passes no check.
LEMMA SnapsKept ==
  ASSUME Typed, NEW owner, Owns(owner), Filled(owner), UNCHANGED <<snaps, current>>, NEW l \in Loops,
         \A j \in Loops \ {l} : /\ signer'[j] = signer[j] /\ key'[j] = key[j]
                                /\ reading'[j] = reading[j] /\ held'[j] = held[j],
         held'[l].g # 0 => owner[held'[l].g] = <<Process[l], Global>>,
         held'[l].s # 0 => owner[held'[l].s] = <<Process[l], signer'[l]>>,
         reading'[l].existing # 0 => owner[reading'[l].existing] = <<Process[l], key'[l]>>,
         key'[l] = Global \/ (key'[l] = key[l] /\ held'[l].g = held[l].g)
  PROVE  SnapInv'
<1>1. Owns(owner)'
  BY OwnsKept
<1>2. \A i \in 1 .. Len(snaps) : Passed(i)' \subseteq Passed(i)
  BY DEF Passed
<1>3. Filled(owner)'
  BY <1>2, FilledKept
<1>. QED BY <1>1, <1>3 DEF SnapInv

LEMMA LetGo ==
  ASSUME Typed, NEW owner, Owns(owner), Filled(owner), NEW l \in Loops, Forget(l),
         UNCHANGED <<snaps, current, signer>>
  PROVE  SnapInv'
<1>1. /\ held'[l].g = 0 /\ held'[l].s = 0 /\ reading'[l].existing = 0 /\ key'[l] = Global
      /\ \A j \in Loops \ {l} : /\ signer'[j] = signer[j] /\ key'[j] = key[j]
                                /\ reading'[j] = reading[j] /\ held'[j] = held[j]
  BY DEF Forget, Typed, TypeOK
<1>. QED BY <1>1, SnapsKept

\* A step that leaves the variables of the fallback alone, or turns to it.
LEMMA StaysAside ==
  ASSUME Typed, CallInv, NEW owner, Owns(owner), Filled(owner), NEW l \in Loops,
         key[l] = Global, reading[l].existing = 0,
         UNCHANGED <<snaps, current, signer, reading, held>>,
         key' = key \/ key' = [key EXCEPT ![l] = Global]
  PROVE  SnapInv'
<1>1. key' = key
  BY DEF Typed, TypeOK
<1>2. /\ held[l].g # 0 => owner[held[l].g] = <<Process[l], Global>>
      /\ held[l].s # 0 => owner[held[l].s] = <<Process[l], signer[l]>>
  BY DEF Owns
<1>. QED BY <1>1, <1>2, SnapsKept

LEMMA InitSnaps == Init => SnapInv
<1>. SUFFICES ASSUME Init PROVE SnapInv
  OBVIOUS
<1>. DEFINE owner == [i \in 1 .. Len(snaps) |-> <<>>]
<1>1. Len(snaps) = 0 /\ 1 .. Len(snaps) = {}
  BY DEF Init
<1>2. owner \in [1 .. Len(snaps) -> Processes \X Keys]
  BY <1>1
<1>. HIDE DEF owner
<1>3. Owns(owner)
  BY <1>2 DEF Owns, Init
<1>4. Filled(owner)
  BY <1>1 DEF Filled
<1>. QED BY <1>3, <1>4 DEF SnapInv

LEMMA SnapReuse ==
  ASSUME Typed, CallInv, NEW owner, Owns(owner), Filled(owner), NEW l \in Loops, Reuse(l)
  PROVE  SnapInv'
<1>1. /\ Mine(l) # 0 /\ Hold(l, Mine(l)) /\ UNCHANGED <<snaps, current, signer, key, reading>>
  BY DEF Reuse, budget, call
<1>2. owner[Mine(l)] = <<Process[l], key[l]>>
  BY <1>1, LoopTypes DEF Owns, Mine
<1>3. /\ key[l] \in {Global, signer[l]} /\ signer[l] # Global
  BY LoopTypes DEF CallInv, CallShape
<1>. HIDE DEF Mine
<1>4. \A j \in Loops \ {l} : held'[j] = held[j]
  BY <1>1 DEF Hold, Typed, TypeOK
<1>5. /\ held'[l].g = IF key[l] = Global THEN Mine(l) ELSE held[l].g
      /\ held'[l].s = IF key[l] = Global THEN held[l].s ELSE Mine(l)
  BY <1>1 DEF Hold, Typed, TypeOK
<1>6. /\ held[l].g # 0 => owner[held[l].g] = <<Process[l], Global>>
      /\ held[l].s # 0 => owner[held[l].s] = <<Process[l], signer[l]>>
      /\ reading[l].existing # 0 => owner[reading[l].existing] = <<Process[l], key[l]>>
  BY DEF Owns
<1>. QED BY <1>1, <1>2, <1>3, <1>4, <1>5, <1>6, SnapsKept

LEMMA SnapBeginCount ==
  ASSUME Typed, NEW owner, Owns(owner), Filled(owner), NEW l \in Loops, BeginCount(l)
  PROVE  SnapInv'
<1>1. /\ reading' = [reading EXCEPT ![l] = [existing |-> Mine(l), bucket |-> minute]]
      /\ UNCHANGED <<snaps, current, signer, key, held>>
  BY DEF BeginCount, budget, call
<1>2. Mine(l) # 0 => owner[Mine(l)] = <<Process[l], key[l]>>
  BY LoopTypes DEF Owns, Mine
<1>. HIDE DEF Mine
<1>3. reading'[l].existing = Mine(l) /\ \A j \in Loops \ {l} : reading'[j] = reading[j]
  BY <1>1 DEF Typed
<1>4. /\ held[l].g # 0 => owner[held[l].g] = <<Process[l], Global>>
      /\ held[l].s # 0 => owner[held[l].s] = <<Process[l], signer[l]>>
  BY DEF Owns
<1>. QED BY <1>1, <1>2, <1>3, <1>4, SnapsKept

\* A refresh takes over no more than the bound.
LEMMA InheritedBound ==
  ASSUME Typed, NEW owner, Owns(owner), Filled(owner), NEW l \in Loops
  PROVE  Inherited(l) <= Bound(Process[l], key[l])
<1>. DEFINE e == reading[l].existing
<1>1. Bound(Process[l], key[l]) \in Nat
  BY LoopTypes, LoopCounts
<1>2. CASE e = 0
  BY <1>1, <1>2 DEF Inherited
<1>3. CASE e # 0
  <2>1. e \in 1 .. Len(snaps) /\ snaps[e].reserved \in Nat
    BY <1>3, LoopTypes, SnapType
  <2>2. owner[e] = <<Process[l], key[l]>>
    BY <1>3 DEF Owns
  <2>. HIDE DEF e
  <2>3. snaps[e].reserved + (IF key[l] = Global THEN Cardinality(Passed(e)) ELSE 0) <= Bound(Process[l], key[l])
    BY <2>1, <2>2 DEF Filled
  <2>4. snaps[e].reserved <= Bound(Process[l], key[l])
    BY <1>1, <2>1, <2>3, PassedFinite
  <2>. USE DEF e
  <2>. QED BY <1>1, <2>4 DEF Inherited
<1>. QED BY <1>2, <1>3

LEMMA SnapStore ==
  ASSUME Typed, CallInv, NEW owner, Owns(owner), Filled(owner), NEW l \in Loops, Store(l)
  PROVE  SnapInv'
<1>. DEFINE p == Process[l]
            k == key[l]
            n == Len(snaps) + 1
<1>0. Len(snaps) \in Nat /\ snaps \in Seq(Snapshot)
  BY DEF Typed, TypeOK
<1>1. /\ p \in Processes /\ k \in Keys /\ k \in {Global, signer[l]} /\ signer[l] # Global
  BY LoopTypes DEF CallInv, CallShape
<1>2. /\ Len(snaps') = n
      /\ \A i \in 1 .. Len(snaps) : snaps'[i] = snaps[i]
      /\ snaps'[n].reserved = Inherited(l)
  BY <1>0 DEF Store
<1>3. /\ current' = [current EXCEPT ![p][k] = n]
      /\ Hold(l, n)
      /\ reading' = [reading EXCEPT ![l] = [existing |-> 0, bucket |-> 0]]
      /\ UNCHANGED <<signer, key>>
  BY <1>2 DEF Store, call
<1>4. \E o \in [1 .. n -> Processes \X Keys] :
          o[n] = <<p, k>> /\ \A i \in 1 .. Len(snaps) : o[i] = owner[i]
  <2>. DEFINE o == [i \in 1 .. n |-> IF i = n THEN <<p, k>> ELSE owner[i]]
  <2>1. o \in [1 .. n -> Processes \X Keys]
    BY <1>0, <1>1 DEF Owns
  <2>2. o[n] = <<p, k>> /\ \A i \in 1 .. Len(snaps) : o[i] = owner[i]
    BY <1>0
  <2>. QED BY <2>1, <2>2
<1>5. PICK owner2 \in [1 .. n -> Processes \X Keys] :
          owner2[n] = <<p, k>> /\ \A i \in 1 .. Len(snaps) : owner2[i] = owner[i]
  BY <1>4
<1>6. \A j \in Loops \ {l} : held'[j] = held[j] /\ reading'[j] = reading[j]
  BY <1>3 DEF Hold, Typed, TypeOK
<1>7. /\ held'[l].g = IF k = Global THEN n ELSE held[l].g
      /\ held'[l].s = IF k = Global THEN held[l].s ELSE n
      /\ reading'[l].existing = 0
  BY <1>3 DEF Hold, Typed, TypeOK
<1>8. \A q \in Processes, x \in Keys : current'[q][x] = IF q = p /\ x = k THEN n ELSE current[q][x]
  <2>1. current \in [Processes -> [Keys -> 0 .. Len(snaps)]]
    BY DEF Typed, TypeOK
  <2>. HIDE DEF p, k, n
  <2>. QED BY <1>1, <1>3, <2>1
<1>. HIDE DEF p, k, n
<1>9. Owns(owner2)'
  <2>1. ASSUME NEW q \in Processes, NEW x \in Keys, current'[q][x] # 0
        PROVE  owner2[current'[q][x]] = <<q, x>>
    <3>1. CASE q = p /\ x = k
      BY <1>5, <1>8, <3>1
    <3>2. CASE ~(q = p /\ x = k)
      <4>1. current'[q][x] = current[q][x] /\ current[q][x] \in 1 .. Len(snaps)
        BY <1>0, <1>8, <2>1, <3>2, BudgetTypes
      <4>. QED BY <1>5, <2>1, <4>1 DEF Owns
    <3>. QED BY <3>1, <3>2
  <2>2. ASSUME NEW j \in Loops, held'[j].g # 0 PROVE owner2[held'[j].g] = <<Process[j], Global>>
    <3>1. CASE j = l /\ k = Global
      BY <1>5, <1>7, <3>1 DEF p
    <3>2. CASE ~(j = l /\ k = Global)
      <4>1. held'[j].g = held[j].g
        BY <1>6, <1>7, <3>2
      <4>2. held[j].g \in 1 .. Len(snaps)
        BY <1>0, <2>2, <4>1, LoopTypes
      <4>. QED BY <1>5, <2>2, <4>1, <4>2 DEF Owns
    <3>. QED BY <3>1, <3>2
  <2>3. ASSUME NEW j \in Loops, held'[j].s # 0 PROVE owner2[held'[j].s] = <<Process[j], signer'[j]>>
    <3>1. CASE j = l /\ k # Global
      BY <1>1, <1>3, <1>5, <1>7, <3>1 DEF p
    <3>2. CASE ~(j = l /\ k # Global)
      <4>1. held'[j].s = held[j].s
        BY <1>6, <1>7, <3>2
      <4>2. held[j].s \in 1 .. Len(snaps)
        BY <1>0, <2>3, <4>1, LoopTypes
      <4>. QED BY <1>3, <1>5, <2>3, <4>1, <4>2 DEF Owns
    <3>. QED BY <3>1, <3>2
  <2>4. ASSUME NEW j \in Loops, reading'[j].existing # 0
        PROVE  owner2[reading'[j].existing] = <<Process[j], key'[j]>>
    <3>1. j # l
      BY <1>7, <2>4
    <3>2. reading'[j].existing = reading[j].existing
      BY <1>6, <3>1
    <3>3. reading[j].existing \in 1 .. Len(snaps)
      BY <1>0, <2>4, <3>2, LoopTypes
    <3>. QED BY <1>3, <1>5, <2>4, <3>2, <3>3 DEF Owns
  <2>. QED BY <1>2, <1>5, <2>1, <2>2, <2>3, <2>4 DEF Owns
<1>10. Filled(owner2)'
  <2>. SUFFICES ASSUME NEW i \in 1 .. n
                PROVE  snaps'[i].reserved + (IF owner2[i][2] = Global THEN Cardinality(Passed(i)') ELSE 0)
                           <= Bound(owner2[i][1], owner2[i][2])
    BY <1>2 DEF Filled, Bound, OthersOf
  <2>1. CASE i = n
    <3>1. Passed(i)' = {}
      <4>. SUFFICES ASSUME NEW j \in Loops, key'[j] # Global, held'[j].g = n PROVE FALSE
        BY <2>1 DEF Passed
      <4>1. held'[j].g = held[j].g
        BY <1>3, <1>6, <1>7 DEF k
      <4>. QED BY <1>0, <4>1, LoopTypes DEF n
    <3>2. Cardinality(Passed(i)') = 0
      BY <3>1, FS_EmptySet
    <3>3. Inherited(l) <= Bound(p, k) /\ Inherited(l) \in Nat /\ Bound(p, k) \in Nat
      BY <1>1, InheritedBound, InheritedType, LoopCounts DEF p, k
    <3>4. snaps'[i].reserved = Inherited(l) /\ owner2[i][1] = p /\ owner2[i][2] = k
      BY <1>2, <1>5, <2>1
    <3>. QED BY <3>2, <3>3, <3>4
  <2>2. CASE i # n
    <3>1. i \in 1 .. Len(snaps)
      BY <1>0, <2>2 DEF n
    <3>2. Passed(i)' = Passed(i)
      <4>1. \A j \in Loops \ {l} : held'[j].g = held[j].g /\ key'[j] = key[j]
        BY <1>3, <1>6
      <4>2. key'[l] = key[l] /\ (key[l] # Global => held'[l].g = held[l].g)
        BY <1>3, <1>7 DEF k
      <4>. QED BY <4>1, <4>2 DEF Passed
    <3>. QED BY <1>2, <1>5, <3>1, <3>2 DEF Filled
  <2>. QED BY <2>1, <2>2
<1>. QED BY <1>9, <1>10 DEF SnapInv

\* The global check is passed by fewer loops than the process has, each of which
\* adds one at most.
LEMMA SnapGlobalCheck ==
  ASSUME Typed, CallInv, NEW owner, Owns(owner), Filled(owner), NEW l \in Loops,
         key[l] = Global, pc[l] = "check", NEW g, g = held[l].g, ~Full(Global, g),
         key' = [key EXCEPT ![l] = signer[l]],
         UNCHANGED <<snaps, current, signer, reading, held>>
  PROVE  SnapInv'
<1>. DEFINE own == {j \in Loops : Process[j] = Process[l]}
<1>0. Len(snaps) \in Nat
  BY DEF Typed, TypeOK
<1>1. /\ g \in 1 .. Len(snaps) /\ snaps[g].reserved \in Nat /\ snaps[g].completed \in Nat
      /\ reading[l].existing = 0 /\ signer[l] # Global
  <2>1. g # 0 /\ reading[l].existing = 0
    BY DEF CallInv, CallShape
  <2>. QED BY <2>1, LoopTypes, SnapType
<1>2. owner[g] = <<Process[l], Global>>
  BY <1>1 DEF Owns
<1>3. Owns(owner)'
  <2>1. /\ held[l].g # 0 => owner[held[l].g] = <<Process[l], Global>>
        /\ held[l].s # 0 => owner[held[l].s] = <<Process[l], signer[l]>>
    BY DEF Owns
  <2>2. \A j \in Loops \ {l} : key'[j] = key[j]
    BY DEF Typed, TypeOK
  <2>. QED BY <1>1, <2>1, <2>2, OwnsKept
<1>4. Passed(g)' \subseteq own
  <2>1. Passed(g)' \subseteq Passed(g) \cup {l}
    BY DEF Passed, Typed, TypeOK
  <2>2. Passed(g) \subseteq own
    BY <1>1, <1>2, PassedOfOwner
  <2>. QED BY <2>1, <2>2
<1>5. Cardinality(Passed(g)') <= OthersOf(Process[l]) + 1 /\ Cardinality(Passed(g)') \in Nat
      /\ OthersOf(Process[l]) \in Nat
  <2>1. IsFiniteSet(own) /\ Cardinality(own) \in Nat /\ OthersOf(Process[l]) = Cardinality(own) - 1
    BY BudgetAssumption, FS_Subset, FS_CardinalityType DEF OthersOf
  <2>2. IsFiniteSet(Passed(g)') /\ Cardinality(Passed(g)') <= Cardinality(own) /\ Cardinality(Passed(g)') \in Nat
    BY <1>4, <2>1, FS_Subset, FS_CardinalityType
  <2>3. OthersOf(Process[l]) \in Nat
    BY LoopTypes, LoopCounts
  <2>. QED BY <2>1, <2>2, <2>3
<1>6. snaps[g].reserved < Limit[Global] /\ Limit[Global] \in Nat
  BY <1>1, KeyTypes DEF Full
<1>. HIDE DEF own
<1>7. \A i \in 1 .. Len(snaps) : i # g => Passed(i)' \subseteq Passed(i)
  BY DEF Passed, Typed, TypeOK
<1>8. Filled(owner)'
  <2>. SUFFICES ASSUME NEW i \in 1 .. Len(snaps)
                PROVE  snaps[i].reserved + (IF owner[i][2] = Global THEN Cardinality(Passed(i)') ELSE 0)
                           <= Bound(owner[i][1], owner[i][2])
    BY DEF Filled, Bound, OthersOf
  <2>1. CASE i = g
    <3>1. owner[i][1] = Process[l] /\ owner[i][2] = Global
      BY <1>2, <2>1
    <3>2. Bound(owner[i][1], owner[i][2]) = Limit[Global] + OthersOf(Process[l])
      BY <3>1 DEF Bound
    <3>. QED BY SMTT(40), <1>1, <1>5, <1>6, <2>1, <3>1, <3>2
  <2>2. CASE i # g
    <3>1. owner[i][1] \in Processes /\ owner[i][2] \in Keys
      BY DEF Owns
    <3>2. Bound(owner[i][1], owner[i][2]) \in Nat /\ snaps[i].reserved \in Nat
      BY <1>0, <3>1, LoopCounts, SnapType
    <3>3. Cardinality(Passed(i)') <= Cardinality(Passed(i)) /\ Cardinality(Passed(i)) \in Nat
          /\ Cardinality(Passed(i)') \in Nat
      BY <1>7, <2>2, PassedFinite, FS_Subset, FS_CardinalityType
    <3>. QED BY <3>2, <3>3 DEF Filled
  <2>. QED BY <2>1, <2>2
<1>. QED BY <1>3, <1>8 DEF SnapInv

\* What a reservation does to the snapshots.
LEMMA ReserveSnaps ==
  ASSUME Typed, CallInv, NEW owner, Owns(owner), NEW l \in Loops, Reserve(l)
  PROVE  LET g == held[l].g
             s == held[l].s
         IN  /\ g \in 1 .. Len(snaps) /\ s \in 1 .. Len(snaps) /\ g # s
             /\ owner[g] = <<Process[l], Global>> /\ owner[s] = <<Process[l], signer[l]>>
             /\ signer[l] # Global /\ key[l] = signer[l]
             /\ snaps[s].reserved < Limit[signer[l]]
             /\ Len(snaps') = Len(snaps)
             /\ \A i \in 1 .. Len(snaps) :
                   /\ snaps'[i].bucket = snaps[i].bucket
                   /\ snaps'[i].reserved = snaps[i].reserved + (IF i \in {g, s} THEN 1 ELSE 0)
<1>. DEFINE g == held[l].g
            s == held[l].s
<1>0. Len(snaps) \in Nat /\ snaps \in Seq(Snapshot)
  BY SMTT(40) DEF Typed, TypeOK
<1>1. g # 0 /\ s # 0 /\ key[l] = signer[l] /\ signer[l] # Global
  BY Zenon, LoopTypes DEF Reserve, CallInv, CallShape
<1>2. g \in 1 .. Len(snaps) /\ s \in 1 .. Len(snaps)
  BY <1>0, <1>1, LoopTypes
<1>3. owner[g] = <<Process[l], Global>> /\ owner[s] = <<Process[l], signer[l]>>
  BY <1>1 DEF Owns
<1>4. g # s
  BY <1>1, <1>3
<1>5. snaps[s].reserved < Limit[signer[l]]
  <2>1. snaps[s].reserved \in Nat /\ snaps[s].completed \in Nat /\ Limit[signer[l]] \in Nat
    BY SMTT(40), <1>1, <1>2, LoopTypes, KeyTypes, SnapType
  <2>2. ~(snaps[s].completed + snaps[s].reserved >= Limit[signer[l]])
    BY ZenonT(40) DEF Reserve, Full
  <2>. QED BY <2>1, <2>2
<1>6. snaps' = [snaps EXCEPT ![g].reserved = @ + 1, ![s].reserved = @ + 1]
  BY Zenon DEF Reserve
<1>. HIDE DEF g, s
<1>7. DOMAIN snaps = 1 .. Len(snaps) /\ \A i \in 1 .. Len(snaps) : snaps[i] \in Snapshot
  BY <1>0
<1>8. DOMAIN snaps' = 1 .. Len(snaps)
  BY <1>6, <1>7
<1>9. ASSUME NEW i \in 1 .. Len(snaps)
      PROVE  /\ snaps'[i].bucket = snaps[i].bucket
             /\ snaps'[i].reserved = snaps[i].reserved + (IF i \in {g, s} THEN 1 ELSE 0)
  <2>1. snaps[i] \in Snapshot
    BY <1>7
  <2>2. CASE i = g
    BY <1>2, <1>4, <1>6, <1>7, <2>1, <2>2 DEF Snapshot
  <2>3. CASE i = s
    BY <1>2, <1>4, <1>6, <1>7, <2>1, <2>3 DEF Snapshot
  <2>4. CASE i \notin {g, s}
    BY <1>2, <1>6, <1>7, <2>1, <2>4 DEF Snapshot
  <2>. QED BY <2>2, <2>3, <2>4
<1>10. Len(snaps') = Len(snaps)
  <2>1. snaps' = [i \in 1 .. Len(snaps) |-> snaps'[i]]
    BY <1>0, <1>6, <1>7, <1>8
  <2>. QED BY <1>0, <2>1
<1>. QED BY <1>1, <1>2, <1>3, <1>4, <1>5, <1>9, <1>10 DEF g, s

LEMMA SnapReserve ==
  ASSUME Typed, CallInv, NEW owner, Owns(owner), Filled(owner), NEW l \in Loops, Reserve(l)
  PROVE  SnapInv' /\ Filled(owner)'
<1>. DEFINE g == held[l].g
            s == held[l].s
<1>0. Len(snaps) \in Nat
  BY DEF Typed, TypeOK
<1>1. /\ g \in 1 .. Len(snaps) /\ s \in 1 .. Len(snaps) /\ g # s
      /\ owner[g] = <<Process[l], Global>> /\ owner[s] = <<Process[l], signer[l]>>
      /\ signer[l] # Global /\ key[l] = signer[l]
      /\ snaps[s].reserved < Limit[signer[l]]
      /\ Len(snaps') = Len(snaps)
  BY Zenon, ReserveSnaps
<1>2. \A i \in 1 .. Len(snaps) :
          snaps'[i].reserved = snaps[i].reserved + (IF i \in {g, s} THEN 1 ELSE 0)
  BY ReserveSnaps
<1>3. Return(l) /\ UNCHANGED <<current, signer>>
  BY Zenon DEF Reserve, call
<1>4. /\ held'[l].g = 0 /\ held'[l].s = 0 /\ reading'[l].existing = 0 /\ key'[l] = Global
      /\ \A j \in Loops \ {l} : key'[j] = key[j] /\ reading'[j] = reading[j] /\ held'[j] = held[j]
  BY <1>3 DEF Return, Forget, Typed, TypeOK
<1>5. Owns(owner)'
  BY ZenonT(40), <1>1, <1>3, <1>4 DEF Owns
<1>6. Filled(owner)'
  <2>. SUFFICES ASSUME NEW i \in 1 .. Len(snaps)
                PROVE  snaps'[i].reserved + (IF owner[i][2] = Global THEN Cardinality(Passed(i)') ELSE 0)
                           <= Bound(owner[i][1], owner[i][2])
    BY <1>1 DEF Filled, Bound, OthersOf
  <2>. HIDE DEF g, s
  <2>0. owner[i][1] \in Processes /\ owner[i][2] \in Keys
    BY DEF Owns
  <2>1. Bound(owner[i][1], owner[i][2]) \in Nat /\ snaps[i].reserved \in Nat
    BY <1>0, <2>0, LoopCounts, SnapType
  <2>2. Passed(i)' = Passed(i) \ {l}
    BY <1>4 DEF Passed
  <2>3. IsFiniteSet(Passed(i)) /\ Cardinality(Passed(i)) \in Nat /\ Cardinality(Passed(i)') \in Nat
    BY <2>2, PassedFinite, FS_Subset, FS_CardinalityType
  <2>4. snaps[i].reserved + (IF owner[i][2] = Global THEN Cardinality(Passed(i)) ELSE 0)
            <= Bound(owner[i][1], owner[i][2])
    BY DEF Filled
  <2>5. CASE i = g
    <3>1. l \in Passed(i)
      BY <1>1, <2>5 DEF Passed, g
    <3>2. Cardinality(Passed(i) \ {l}) = Cardinality(Passed(i)) - 1
      BY <2>3, <3>1, FS_RemoveElement
    <3>3. Cardinality(Passed(i)') = Cardinality(Passed(i)) - 1
      BY <2>2, <3>2
    <3>4. owner[i][2] = Global /\ snaps'[i].reserved = snaps[i].reserved + 1
      BY <1>1, <1>2, <2>5
    <3>. QED BY <2>1, <2>3, <2>4, <3>3, <3>4
  <2>6. CASE i = s
    <3>1. owner[i][2] = signer[l] /\ owner[i][2] # Global /\ snaps'[i].reserved = snaps[i].reserved + 1
      BY <1>1, <1>2, <2>6
    <3>2. Bound(owner[i][1], owner[i][2]) = Limit[signer[l]] + 0
      BY <3>1 DEF Bound
    <3>3. snaps[i].reserved < Limit[signer[l]] /\ Limit[signer[l]] \in Nat
      BY <1>1, <2>6, LoopTypes, KeyTypes
    <3>. QED BY <2>1, <3>1, <3>2, <3>3
  <2>7. CASE i \notin {g, s}
    <3>1. snaps'[i].reserved = snaps[i].reserved
      BY <1>2, <2>1, <2>7
    <3>2. Cardinality(Passed(i)') <= Cardinality(Passed(i))
      BY <2>2, <2>3, FS_Subset
    <3>. QED BY <2>1, <2>3, <2>4, <3>1, <3>2
  <2>. QED BY <2>5, <2>6, <2>7
<1>. QED BY <1>5, <1>6 DEF SnapInv

LEMMA SnapStep == Typed /\ CallInv /\ SnapInv /\ [Next]_vars => SnapInv'
<1>. SUFFICES ASSUME Typed, CallInv, [Next]_vars, NEW owner, Owns(owner), Filled(owner) PROVE SnapInv'
  BY DEF SnapInv
<1>1. ASSUME NEW l \in Loops, Call(l) PROVE SnapInv'
  <2>1. UNCHANGED <<snaps, current, key, reading, held>> /\ pc[l] = "idle"
        /\ \E s \in Signers : signer' = [signer EXCEPT ![l] = s]
    BY <1>1 DEF Call, budget, soft
  <2>2. key[l] = Global /\ held[l].g = 0 /\ held[l].s = 0 /\ reading[l].existing = 0
    BY <2>1 DEF CallInv, CallShape
  <2>3. \A j \in Loops \ {l} : signer'[j] = signer[j]
    BY <2>1 DEF Typed, TypeOK
  <2>. QED BY <2>1, <2>2, <2>3, SnapsKept
<1>2. ASSUME NEW l \in Loops, SendAnyway(l) \/ SignerTaken(l) \/ CountFails(l) \/ SignerFull(l) PROVE SnapInv'
  <2>1. UNCHANGED <<snaps, current, signer>> /\ Forget(l)
    BY <1>2 DEF SendAnyway, SignerTaken, CountFails, SignerFull, Return, Again, budget, call
  <2>. QED BY <2>1, LetGo
<1>3. ASSUME NEW l \in Loops, GlobalKey(l) \/ SignerKey(l) \/ SignerRefused(l) \/ Resend(l)
      PROVE  SnapInv'
  <2>1. /\ UNCHANGED <<snaps, current, signer, key, reading, held>>
        /\ pc[l] \in {"top", "signerKey", "globalTry", "signerTry", "release", "releaseSoft"}
    BY <1>3 DEF GlobalKey, SignerKey, SignerRefused, Resend, budget, call, soft
  <2>2. key[l] = Global /\ reading[l].existing = 0
    BY <2>1 DEF CallInv, CallShape
  <2>. QED BY <2>1, <2>2, StaysAside
<1>4. ASSUME NEW l \in Loops, GlobalTry(l) \/ Release(l) PROVE SnapInv'
  <2>1. /\ UNCHANGED <<snaps, current, signer>>
        /\ pc[l] \in {"globalTry", "release", "releaseSoft"}
        /\ UNCHANGED <<key, reading, held>> \/ Again(l) \/ ToSoft(l)
    BY <1>4 DEF GlobalTry, Release, budget, call, soft
  <2>2. key[l] = Global /\ reading[l].existing = 0
    BY <2>1 DEF CallInv, CallShape
  <2>3. CASE Again(l)
    BY <2>1, <2>3, LetGo DEF Again
  <2>4. CASE UNCHANGED <<key, reading, held>> \/ ToSoft(l)
    BY <2>1, <2>2, <2>4, StaysAside DEF ToSoft
  <2>. QED BY <2>1, <2>3, <2>4
<1>5. ASSUME NEW l \in Loops, Reuse(l) PROVE SnapInv'
  BY <1>5, SnapReuse
<1>6. ASSUME NEW l \in Loops, BeginCount(l) PROVE SnapInv'
  BY <1>6, SnapBeginCount
<1>7. ASSUME NEW l \in Loops, Store(l) PROVE SnapInv'
  BY <1>7, SnapStore
<1>8. ASSUME NEW l \in Loops, GlobalCheck(l) PROVE SnapInv'
  <2>1. UNCHANGED <<snaps, current, signer>> /\ pc[l] = "check" /\ key[l] = Global
    BY <1>8 DEF GlobalCheck, budget, call
  <2>2. CASE Again(l)
    BY <2>1, <2>2, LetGo DEF Again
  <2>3. CASE ~Full(Global, held[l].g) /\ key' = [key EXCEPT ![l] = signer[l]] /\ UNCHANGED <<bucket, reading, held>>
    BY <2>1, <2>3, SnapGlobalCheck
  <2>. QED BY <1>8, <2>2, <2>3 DEF GlobalCheck
<1>9. ASSUME NEW l \in Loops, Reserve(l) PROVE SnapInv'
  BY <1>9, SnapReserve
<1>10. CASE Tick \/ UNCHANGED vars
  <2>1. UNCHANGED <<snaps, current, signer, key, reading, held>>
    BY <1>10 DEF Tick, vars, budget, call, soft
  <2>2. Owns(owner)' /\ Filled(owner)'
    BY <2>1 DEF Owns, Filled, Passed, Bound, OthersOf
  <2>. QED BY <2>2 DEF SnapInv
<1>. QED
  BY <1>1, <1>2, <1>3, <1>4, <1>5, <1>6, <1>7, <1>8, <1>9, <1>10 DEF Next, LoopStep

-----------------------------------------------------------------------------
(* The reservations. *)

LEMMA InitLive == Init => LiveInv
<1>. SUFFICES ASSUME Init, NEW p \in Processes, NEW k \in Keys
              PROVE  current[p][k] = 0 /\ \A m \in Minutes : Live(p, k, m) <= Bound(p, k)
  BY DEF LiveInv
<1>1. \A m \in Minutes : softly[p][k][m] = 0 /\ dropped[p][k][m] = 0
  BY DEF Init
<1>2. Bound(p, k) \in Nat
  BY LoopCounts
<1>. QED BY <1>1, <1>2 DEF Init, Live

\* A refresh that is stored knows the reservations of its minute, but for those
\* it forgets.
LEMMA LiveStore ==
  ASSUME Typed, LiveInv, NEW owner, Owns(owner), Filled(owner), NEW l \in Loops, Store(l)
  PROVE  LiveInv'
<1>0. Len(snaps) \in Nat /\ snaps \in Seq(Snapshot)
  BY DEF Typed, TypeOK
<1>1. PICK p \in Processes, k \in Keys, m \in Minutes, n \in Nat :
          p = Process[l] /\ k = key[l] /\ m = reading[l].bucket /\ n = Len(snaps) + 1
  BY <1>0, LoopTypes
<1>2. /\ \A i \in 1 .. Len(snaps) : snaps'[i] = snaps[i]
      /\ snaps'[n].reserved = Inherited(l) /\ snaps'[n].bucket = m
      /\ Len(snaps') = n
  BY <1>0, <1>1 DEF Store
<1>3. /\ current' = [current EXCEPT ![p][k] = n]
      /\ dropped' = [dropped EXCEPT ![p][k][m] = @ + Forgotten(l)]
      /\ UNCHANGED softly
  BY <1>1, <1>2 DEF Store
<1>4. Inherited(l) <= Bound(p, k) /\ Inherited(l) \in Nat /\ Bound(p, k) \in Nat
  BY <1>1, InheritedBound, InheritedType, LoopCounts
<1>5. Forgotten(l) = (IF Live(p, k, m) > Inherited(l) THEN Live(p, k, m) - Inherited(l) ELSE 0)
  BY <1>1 DEF Forgotten, Live
<1>6. \A q \in Processes, x \in Keys : current'[q][x] = IF q = p /\ x = k THEN n ELSE current[q][x]
  BY <1>1, <1>3 DEF Typed, TypeOK
<1>7. \A q \in Processes, x \in Keys, z \in Minutes :
          dropped'[q][x][z] = dropped[q][x][z] + (IF q = p /\ x = k /\ z = m THEN Forgotten(l) ELSE 0)
  <2>1. dropped[p] \in Table /\ Forgotten(l) \in Nat
    BY <1>1, HistoryTypes, ForgottenType
  <2>. DEFINE t == [dropped[p] EXCEPT ![k][m] = @ + Forgotten(l)]
  <2>2. RaisedOnce(dropped[p], t, k, m, Forgotten(l))
    BY <1>1, <2>1, AddOnce
  <2>3. dropped' = [dropped EXCEPT ![p] = t]
    BY <1>3
  <2>. HIDE DEF t
  <2>4. \A q \in Processes : dropped'[q] = IF q = p THEN t ELSE dropped[q]
    BY <2>3 DEF Typed
  <2>5. \A q \in Processes, x \in Keys, z \in Minutes : dropped[q][x][z] \in Nat
    BY BudgetTypes
  <2>. QED BY <2>2, <2>4, <2>5 DEF RaisedOnce
<1>8. ASSUME NEW q \in Processes, NEW x \in Keys, NEW z \in Minutes
      PROVE  /\ Live(q, x, z)' = Live(q, x, z) - (IF q = p /\ x = k /\ z = m THEN Forgotten(l) ELSE 0)
             /\ Live(q, x, z) \in Int
  <2>1. softly[q][x][z] \in Nat /\ dropped[q][x][z] \in Nat /\ Forgotten(l) \in Nat
    BY BudgetTypes, ForgottenType
  <2>2. softly'[q][x][z] = softly[q][x][z]
    BY <1>3
  <2>. QED BY <1>7, <2>1, <2>2 DEF Live
<1>9. Live(p, k, m)' <= Inherited(l)
  <2>1. Live(p, k, m)' = Live(p, k, m) - Forgotten(l) /\ Live(p, k, m) \in Int
    BY <1>8
  <2>. QED BY <1>4, <1>5, <2>1
<1>. SUFFICES ASSUME NEW q \in Processes, NEW x \in Keys
              PROVE  /\ \A z \in Minutes : Live(q, x, z)' <= Bound(q, x)
                     /\ current'[q][x] # 0 =>
                           Live(q, x, snaps[current[q][x]].bucket)' <= snaps'[current'[q][x]].reserved
  BY DEF LiveInv, Bound, OthersOf
<1>10. ASSUME NEW z \in Minutes PROVE Live(q, x, z)' <= Bound(q, x)
  <2>1. CASE q = p /\ x = k /\ z = m
    <3>1. Live(p, k, m)' = Live(p, k, m) - Forgotten(l) /\ Live(p, k, m) \in Int /\ Forgotten(l) \in Nat
      BY <1>8, ForgottenType
    <3>2. Live(p, k, m)' <= Bound(p, k)
      BY <1>4, <1>9, <3>1
    <3>. QED BY <2>1, <3>2
  <2>2. CASE ~(q = p /\ x = k /\ z = m)
    <3>1. Live(q, x, z)' = Live(q, x, z)
      BY <1>8, <2>2
    <3>. QED BY <3>1 DEF LiveInv
  <2>. QED BY <2>1, <2>2
<1>11. ASSUME current'[q][x] # 0
       PROVE  Live(q, x, snaps[current[q][x]].bucket)' <= snaps'[current'[q][x]].reserved
  <2>1. CASE q = p /\ x = k
    <3>1. current'[q][x] = n /\ snaps'[current'[q][x]].bucket = m
      BY <1>2, <1>6, <2>1
    <3>2. Live(q, x, snaps[current[q][x]].bucket)' = Live(p, k, m)'
      BY <2>1, <3>1 DEF Live
    <3>. QED BY <1>2, <1>9, <3>1, <3>2
  <2>2. CASE ~(q = p /\ x = k)
    <3>1. current'[q][x] = current[q][x] /\ current[q][x] \in 1 .. Len(snaps)
      BY <1>0, <1>6, <1>11, <2>2, BudgetTypes
    <3>2. snaps'[current'[q][x]] = snaps[current[q][x]]
      BY <1>2, <3>1
    <3>. DEFINE z == snaps[current[q][x]].bucket
    <3>3. z \in Minutes /\ z' = z
      BY <1>0, <3>1, <3>2, SnapType
    <3>4. Live(q, x, z) <= snaps[current[q][x]].reserved
      BY <1>0, <3>1 DEF LiveInv
    <3>. HIDE DEF z
    <3>5. PICK w \in Minutes : w = z
      BY <3>3
    <3>6. Live(q, x, w)' = Live(q, x, w)
      BY <1>8, <2>2
    <3>7. Live(q, x, z)' <= snaps[current[q][x]].reserved
      BY <3>3, <3>4, <3>5, <3>6 DEF Live
    <3>. QED BY <3>2, <3>7 DEF z
  <2>. QED BY <2>1, <2>2
<1>. QED BY <1>10, <1>11

\* A reservation in a snapshot that is no longer current is forgotten at once;
\* otherwise the snapshot counts it too.
LEMMA LiveReserve ==
  ASSUME Typed, CallInv, LiveInv, NEW owner, Owns(owner), Filled(owner), Filled(owner)',
         NEW l \in Loops, Reserve(l)
  PROVE  LiveInv'
<1>0. Len(snaps) \in Nat /\ snaps \in Seq(Snapshot)
  BY DEF Typed, TypeOK
<1>1. PICK p \in Processes, n \in Keys, g \in 1 .. Len(snaps), s \in 1 .. Len(snaps) :
          p = Process[l] /\ n = signer[l] /\ g = held[l].g /\ s = held[l].s
  BY LoopTypes, ReserveSnaps
<1>2. /\ g # s /\ n # Global /\ owner[g] = <<p, Global>> /\ owner[s] = <<p, n>>
      /\ \A i \in 1 .. Len(snaps) :
            /\ snaps'[i].bucket = snaps[i].bucket
            /\ snaps'[i].reserved = snaps[i].reserved + (IF i \in {g, s} THEN 1 ELSE 0)
      /\ Len(snaps') = Len(snaps)
  <2>1. /\ g # s /\ n # Global /\ owner[g] = <<p, Global>> /\ owner[s] = <<p, n>>
        /\ Len(snaps') = Len(snaps)
    BY ZenonT(40), <1>1, ReserveSnaps
  <2>2. ASSUME NEW i \in 1 .. Len(snaps)
        PROVE  /\ snaps'[i].bucket = snaps[i].bucket
               /\ snaps'[i].reserved = snaps[i].reserved + (IF i \in {held[l].g, held[l].s} THEN 1 ELSE 0)
    BY ReserveSnaps
  <2>. QED BY <1>1, <2>1, <2>2
<1>3. PICK bg \in Minutes, bs \in Minutes : bg = snaps[g].bucket /\ bs = snaps[s].bucket
  BY <1>0, SnapType
<1>4. PICK og \in {0, 1}, os \in {0, 1} :
          /\ og = (IF current[p][Global] = g THEN 0 ELSE 1)
          /\ os = (IF current[p][n] = s THEN 0 ELSE 1)
  BY SMTT(40)
<1>5. /\ softly' = [softly EXCEPT ![p][Global][bg] = @ + 1, ![p][n][bs] = @ + 1]
      /\ dropped' = [dropped EXCEPT ![p][Global][bg] = @ + og, ![p][n][bs] = @ + os]
      /\ UNCHANGED current
  BY Zenon, <1>1, <1>3, <1>4 DEF Reserve
<1>6. \A q \in Processes : q # p => softly'[q] = softly[q] /\ dropped'[q] = dropped[q]
  BY <1>5 DEF Typed
<1>7. RaisedTwice(softly[p], softly'[p], Global, bg, 1, n, bs, 1)
  <2>. DEFINE t == [softly[p] EXCEPT ![Global][bg] = @ + 1, ![n][bs] = @ + 1]
  <2>1. RaisedTwice(softly[p], t, Global, bg, 1, n, bs, 1)
    BY <1>2, HistoryTypes, KeyTypes, AddTwice, 1 \in Nat
  <2>2. softly' = [softly EXCEPT ![p] = t]
    BY <1>5
  <2>. HIDE DEF t
  <2>3. softly'[p] = t
    BY <2>2 DEF Typed
  <2>. QED BY <2>1, <2>3
<1>8. RaisedTwice(dropped[p], dropped'[p], Global, bg, og, n, bs, os)
  <2>. DEFINE t == [dropped[p] EXCEPT ![Global][bg] = @ + og, ![n][bs] = @ + os]
  <2>0. og \in Nat /\ os \in Nat
    OBVIOUS
  <2>1. RaisedTwice(dropped[p], t, Global, bg, og, n, bs, os)
    BY <1>2, <2>0, HistoryTypes, KeyTypes, AddTwice
  <2>2. dropped' = [dropped EXCEPT ![p] = t]
    BY <1>5
  <2>. HIDE DEF t
  <2>3. dropped'[p] = t
    BY <2>2 DEF Typed
  <2>. QED BY <2>1, <2>3
<1>9. ASSUME NEW q \in Processes, NEW x \in Keys, NEW z \in Minutes
      PROVE  /\ Live(q, x, z) \in Int
             /\ Live(q, x, z)' = Live(q, x, z)
                   + (IF q = p /\ x = Global /\ z = bg THEN 1 - og
                      ELSE IF q = p /\ x = n /\ z = bs THEN 1 - os ELSE 0)
  <2>1. softly[q][x][z] \in Nat /\ dropped[q][x][z] \in Nat
    BY BudgetTypes
  <2>2. CASE q # p
    <3>1. softly'[q][x][z] = softly[q][x][z] /\ dropped'[q][x][z] = dropped[q][x][z]
      BY <1>6, <2>2
    <3>. QED BY <2>1, <2>2, <3>1 DEF Live
  <2>3. CASE q = p
    <3>1. softly'[q][x][z] = softly[q][x][z]
              + (IF x = Global /\ z = bg THEN 1 ELSE IF x = n /\ z = bs THEN 1 ELSE 0)
      BY <1>7, <2>3 DEF RaisedTwice
    <3>2. dropped'[q][x][z] = dropped[q][x][z]
              + (IF x = Global /\ z = bg THEN og ELSE IF x = n /\ z = bs THEN os ELSE 0)
      BY <1>8, <2>3 DEF RaisedTwice
    <3>. QED BY SMTT(40), <2>1, <2>3, <3>1, <3>2 DEF Live
  <2>. QED BY <2>2, <2>3
\* What the current snapshot knows of a minute, and the bound it respects.
<1>10. ASSUME NEW q \in Processes, NEW x \in Keys, NEW i \in 1 .. Len(snaps), current[q][x] = i
       PROVE  /\ Live(q, x, snaps[i].bucket) <= snaps[i].reserved
              /\ snaps[i].reserved \in Nat /\ snaps'[i].reserved \in Nat
              /\ snaps'[i].reserved <= Bound(q, x)
  <2>1. Live(q, x, snaps[i].bucket) <= snaps[i].reserved
    BY <1>0, <1>10 DEF LiveInv
  <2>2. snaps[i].reserved \in Nat /\ snaps'[i].reserved \in Nat
    BY <1>0, <1>2, SnapType
  <2>3. owner[i] = <<q, x>>
    BY <1>0, <1>10 DEF Owns
  <2>4. snaps'[i].reserved + (IF x = Global THEN Cardinality(Passed(i)') ELSE 0) <= Bound(q, x)
    <3>1. owner[i][1] = q /\ owner[i][2] = x /\ i \in 1 .. Len(snaps')
      BY <1>2, <2>3
    <3>. QED BY <3>1 DEF Filled, Bound, OthersOf
  <2>5. IsFiniteSet(Passed(i)') /\ Cardinality(Passed(i)') \in Nat
    BY BudgetAssumption, FS_Subset, FS_CardinalityType DEF Passed
  <2>6. Bound(q, x) \in Nat
    BY LoopCounts
  <2>. QED BY <2>1, <2>2, <2>4, <2>5, <2>6
<1>11. ASSUME NEW q \in Processes, NEW x \in Keys, NEW z \in Minutes PROVE Live(q, x, z)' <= Bound(q, x)
  <2>0. Live(q, x, z) <= Bound(q, x) /\ Bound(q, x) \in Nat /\ Live(q, x, z) \in Int
    BY <1>9, LoopCounts DEF LiveInv
  <2>1. CASE q = p /\ x = Global /\ z = bg /\ og = 0
    <3>1. current[p][Global] = g
      BY <1>4, <2>1
    <3>2. /\ Live(q, x, bg) <= snaps[g].reserved /\ snaps'[g].reserved <= Bound(q, x)
          /\ snaps[g].reserved \in Nat
      BY <1>3, <1>10, <2>1, <3>1
    <3>3. snaps'[g].reserved = snaps[g].reserved + 1
      BY <1>2
    <3>4. Live(q, x, z)' = Live(q, x, z) + 1
      BY <1>9, <2>1
    <3>. QED BY <2>0, <2>1, <3>2, <3>3, <3>4
  <2>2. CASE q = p /\ x = n /\ z = bs /\ os = 0
    <3>1. current[p][n] = s
      BY <1>4, <2>2
    <3>2. /\ Live(q, x, bs) <= snaps[s].reserved /\ snaps'[s].reserved <= Bound(q, x)
          /\ snaps[s].reserved \in Nat
      BY <1>3, <1>10, <2>2, <3>1
    <3>3. snaps'[s].reserved = snaps[s].reserved + 1
      BY <1>2
    <3>4. Live(q, x, z)' = Live(q, x, z) + 1
      BY <1>2, <1>9, <2>2
    <3>. QED BY <2>0, <2>2, <3>2, <3>3, <3>4
  <2>3. CASE ~(q = p /\ x = Global /\ z = bg /\ og = 0) /\ ~(q = p /\ x = n /\ z = bs /\ os = 0)
    <3>1. Live(q, x, z)' = Live(q, x, z)
      BY <1>9, <2>3
    <3>. QED BY <2>0, <3>1
  <2>. QED BY <2>1, <2>2, <2>3
<1>12. ASSUME NEW q \in Processes, NEW x \in Keys, NEW i \in 1 .. Len(snaps), current[q][x] = i,
              NEW z \in Minutes, z = snaps[i].bucket
       PROVE  Live(q, x, z)' <= snaps'[i].reserved
  <2>0. Live(q, x, z) <= snaps[i].reserved /\ snaps[i].reserved \in Nat /\ snaps'[i].reserved \in Nat
        /\ Live(q, x, z) \in Int
    BY <1>9, <1>10, <1>12
  <2>1. CASE q = p /\ x = Global /\ z = bg /\ og = 0
    <3>1. i = g
      BY <1>4, <1>12, <2>1
    <3>2. snaps'[i].reserved = snaps[i].reserved + 1
      BY <1>2, <3>1
    <3>3. Live(q, x, z)' = Live(q, x, z) + 1
      BY <1>9, <2>1
    <3>. QED BY <2>0, <3>2, <3>3
  <2>2. CASE q = p /\ x = n /\ z = bs /\ os = 0
    <3>1. i = s
      BY <1>4, <1>12, <2>2
    <3>2. snaps'[i].reserved = snaps[i].reserved + 1
      BY <1>2, <3>1
    <3>3. Live(q, x, z)' = Live(q, x, z) + 1
      BY <1>2, <1>9, <2>2
    <3>. QED BY <2>0, <3>2, <3>3
  <2>3. CASE ~(q = p /\ x = Global /\ z = bg /\ og = 0) /\ ~(q = p /\ x = n /\ z = bs /\ os = 0)
    <3>1. Live(q, x, z)' = Live(q, x, z)
      BY SMTT(40), <1>9, <2>3
    <3>2. snaps'[i].reserved >= snaps[i].reserved
      BY <1>2, <2>0
    <3>. QED BY <2>0, <3>1, <3>2
  <2>. QED BY <2>1, <2>2, <2>3
<1>. SUFFICES ASSUME NEW q \in Processes, NEW x \in Keys, current'[q][x] # 0
              PROVE  Live(q, x, snaps[current[q][x]].bucket)' <= snaps'[current'[q][x]].reserved
  BY <1>11 DEF LiveInv, Bound, OthersOf
<1>13. PICK i \in 1 .. Len(snaps) : current[q][x] = i /\ current'[q][x] = i
  BY <1>0, <1>5, BudgetTypes
<1>14. PICK z \in Minutes : z = snaps[i].bucket
  BY <1>0, SnapType
<1>15. Live(q, x, z)' <= snaps'[i].reserved
  BY <1>12, <1>13, <1>14
<1>16. snaps'[i].bucket = z
  BY <1>2, <1>14
<1>. QED BY <1>13, <1>15, <1>16 DEF Live

LEMMA LiveStep == Typed /\ CallInv /\ SnapInv /\ LiveInv /\ [Next]_vars => LiveInv'
<1>. SUFFICES ASSUME Typed, CallInv, LiveInv, [Next]_vars, NEW owner, Owns(owner), Filled(owner)
              PROVE  LiveInv'
  BY DEF SnapInv
<1>1. ASSUME NEW l \in Loops, Store(l) PROVE LiveInv'
  BY <1>1, LiveStore
<1>2. ASSUME NEW l \in Loops, Reserve(l) PROVE LiveInv'
  BY <1>2, SnapReserve, LiveReserve
<1>3. ASSUME UNCHANGED budget PROVE LiveInv'
  BY <1>3 DEF budget, LiveInv, Live, Bound, OthersOf
<1>4. ASSUME NEW l \in Loops, Call(l) \/ SendAnyway(l) \/ LoopStep(l) \/ Resend(l), ~Store(l), ~Reserve(l)
      PROVE  UNCHANGED budget
  BY <1>4 DEF Call, SendAnyway, LoopStep, GlobalKey, SignerKey, GlobalTry, SignerTaken, SignerRefused,
              Release, Resend, Reuse, BeginCount, CountFails, GlobalCheck, SignerFull
<1>5. CASE Tick \/ UNCHANGED vars
  BY <1>3, <1>5 DEF Tick, vars
<1>. QED BY <1>1, <1>2, <1>3, <1>4, <1>5 DEF Next

\* Without Redis a process keeps every signer's cap, and exceeds the global one
\* by the loops it has beside the first at most, reservations that a concurrent
\* refresh forgot apart: however many refreshes and minutes.
THEOREM FallbackBound == Spec => []FallbackOvershoot
<1>1. Init => RedisInv /\ FallbackInv
  BY InitTyped, InitCall, InitSlots, InitSnaps, InitLive DEF RedisInv, FallbackInv
<1>2. RedisInv /\ FallbackInv /\ [Next]_vars => RedisInv' /\ FallbackInv'
  BY TypedStep, CallStep, SlotStep, SnapStep, LiveStep DEF RedisInv, FallbackInv
<1>3. FallbackInv => FallbackOvershoot
  <2>. SUFFICES ASSUME FallbackInv, NEW p \in Processes, NEW k \in Keys, NEW m \in Minutes
                PROVE  LET beyond == softly[p][k][m] - Limit[k] - dropped[p][k][m]
                       IN  beyond > 0 => k = Global /\ beyond <= OthersOf(p)
    BY DEF FallbackOvershoot
  <2>1. Live(p, k, m) <= Bound(p, k)
    BY DEF FallbackInv, LiveInv
  <2>2. softly[p][k][m] \in Nat /\ dropped[p][k][m] \in Nat /\ Limit[k] \in Nat /\ OthersOf(p) \in Int
    BY BudgetTypes, KeyTypes, LoopCounts DEF FallbackInv
  <2>. QED BY <2>1, <2>2 DEF Live, Bound
<1>. QED BY <1>1, <1>2, <1>3, PTL DEF Spec
=============================================================================
