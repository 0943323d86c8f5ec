----------------------------- MODULE PagesProofs -----------------------------
(***************************************************************************)
(* Proofs about Pages: what the lists of recipients, the random splits, the *)
(* draws and the rows of a job are worth after any requests, and what the   *)
(* console shows whatever answer comes last.  Sums and shares are reached   *)
(* by induction over the length of a list, from finite sets alone.          *)
(***************************************************************************)
EXTENDS Pages, FiniteSetTheorems, SequenceTheorems, TLAPS

-----------------------------------------------------------------------------
(* Induction and sums.                                                      *)

\* Induction over the naturals: a set with 0 that is closed under successor has them all.
LEMMA Induction == ASSUME NEW T \in SUBSET Nat, 0 \in T, \A n \in T : n + 1 \in T PROVE T = Nat
<1> SUFFICES ASSUME NEW n \in Nat, n \notin T PROVE FALSE
    OBVIOUS
<1> DEFINE B == (0 .. n) \ T
           f == [m \in B |-> m - 1]
<1>1. IsFiniteSet(B)
  <2>1. IsFiniteSet(0 .. n)
    BY FS_Interval
  <2> QED BY <2>1, FS_Difference
<1>2. \A m \in B : m - 1 \in B
  <2> TAKE m \in B
  <2>1. m # 0 /\ m - 1 \in Nat /\ m - 1 + 1 = m
    OBVIOUS
  <2>2. m - 1 \notin T
    BY <2>1
  <2> QED BY <2>1, <2>2
<1>3. f \in Injection(B, B)
    BY <1>2 DEF Injection, IsInjective
<1>4. f \in Surjection(B, B)
  <2> HIDE DEF B, f
  <2> QED BY <1>1, <1>3, FS_Injection
<1>5. n \in B
    OBVIOUS
<1>6. PICK m \in B : f[m] = n
    BY <1>4, <1>5 DEF Surjection
<1> QED BY <1>6

Folded(s, D, g) ==
    g = [S \in SUBSET D |-> IF S = {} THEN 0 ELSE g[S \ {Plan!Max(S)}] + s[Plan!Max(S)]]

\* The fold of a prefix exists.
LEMMA FoldExists ==
    ASSUME NEW s
    PROVE  \A n \in Nat : \E g : Folded(s, 1 .. n, g)
<1> DEFINE T == {n \in Nat : \E g : Folded(s, 1 .. n, g)}
<1>1. 0 \in T
  <2> DEFINE g == [S \in SUBSET (1 .. 0) |-> 0]
  <2>1. \A S \in SUBSET (1 .. 0) : S = {}
    OBVIOUS
  <2>2. Folded(s, 1 .. 0, g)
    BY <2>1 DEF Folded
  <2> QED BY <2>2
<1>2. ASSUME NEW n \in T PROVE n + 1 \in T
  <2>1. PICK g : Folded(s, 1 .. n, g)
    OBVIOUS
  <2> DEFINE k == n + 1
             h == [S \in SUBSET (1 .. k) |-> IF k \in S THEN g[S \ {k}] + s[k] ELSE g[S]]
  <2>2. ASSUME NEW S \in SUBSET (1 .. k)
        PROVE  h[S] = IF S = {} THEN 0 ELSE h[S \ {Plan!Max(S)}] + s[Plan!Max(S)]
    <3>1. CASE S = {}
      BY <2>1, <3>1 DEF Folded
    <3>2. CASE k \in S
      <4>1. Plan!Max(S) = k
        <5>1. k \in S /\ \A y \in S : k >= y
          BY <3>2
        <5>2. \A x \in S : (\A y \in S : x >= y) => x = k
          BY <5>1
        <5> QED BY <5>1, <5>2 DEF Plan!Max
      <4>2. S \ {k} \in SUBSET (1 .. k) /\ k \notin S \ {k}
        OBVIOUS
      <4> QED BY <3>2, <4>1, <4>2
    <3>3. CASE S # {} /\ k \notin S
      <4>1. S \in SUBSET (1 .. n)
        BY <3>3
      <4>2. g[S] = g[S \ {Plan!Max(S)}] + s[Plan!Max(S)]
        BY <2>1, <3>3, <4>1 DEF Folded
      <4>3. S \ {Plan!Max(S)} \in SUBSET (1 .. k) /\ k \notin S \ {Plan!Max(S)}
        BY <3>3
      <4> QED BY <3>3, <4>2, <4>3
    <3> QED BY <3>1, <3>2, <3>3
  <2>3. Folded(s, 1 .. k, h)
    BY <2>2 DEF Folded
  <2> QED BY <2>3
<1>3. T = Nat
  <2> HIDE DEF T
  <2>1. T \in SUBSET Nat
    BY DEF T
  <2> QED BY <1>1, <1>2, <2>1, Induction
<1> QED BY <1>3

\* run is the running total of s.
Running(s, run) ==
    /\ run[0] = 0
    /\ \A i \in 1 .. Len(s) : run[i] = run[i - 1] + s[i]

LEMMA SumFolds ==
    ASSUME NEW s
    PROVE  Plan!Sum(s) = (CHOOSE g : Folded(s, DOMAIN s, g))[DOMAIN s]
BY DEF Plan!Sum, Plan!FoldLeft, Plan!MapThenFoldSet, Folded

LEMMA MaxOfFirst ==
    ASSUME NEW i \in Nat \ {0}
    PROVE  Plan!Max(1 .. i) = i
<1>1. i \in 1 .. i /\ \A y \in 1 .. i : i >= y
    OBVIOUS
<1>2. \A x \in 1 .. i : (\A y \in 1 .. i : x >= y) => x = i
    BY <1>1
<1> QED BY <1>1, <1>2 DEF Plan!Max

\* A list of amounts has a running total, whose end is its sum.
LEMMA SumRuns ==
    ASSUME NEW s \in Seq(Nat)
    PROVE  \E run \in [0 .. Len(s) -> Nat] : Running(s, run) /\ Plan!Sum(s) = run[Len(s)]
<1>1. Len(s) \in Nat /\ DOMAIN s = 1 .. Len(s) /\ \A i \in 1 .. Len(s) : s[i] \in Nat
    BY LenProperties, ElementOfSeq
<1>2. PICK it : Folded(s, 1 .. Len(s), it) /\ Plan!Sum(s) = it[1 .. Len(s)]
  <2>1. \E g : Folded(s, 1 .. Len(s), g)
    BY <1>1, FoldExists
  <2> QED BY <1>1, <2>1, SumFolds
<1>3. it[{}] = 0
  <2>1. {} \in SUBSET (1 .. Len(s))
    OBVIOUS
  <2> QED BY <1>2, <2>1 DEF Folded
<1>4. ASSUME NEW i \in 1 .. Len(s) PROVE it[1 .. i] = it[1 .. (i - 1)] + s[i]
  <2>1. i \in Nat \ {0} /\ (1 .. i) \ {i} = 1 .. (i - 1) /\ 1 .. i # {}
    BY <1>1
  <2>2. 1 .. i \in SUBSET (1 .. Len(s))
    BY <1>1
  <2>3. Plan!Max(1 .. i) = i
    BY <2>1, MaxOfFirst
  <2> HIDE <1>1
  <2>4. it[1 .. i] = it[(1 .. i) \ {Plan!Max(1 .. i)}] + s[Plan!Max(1 .. i)]
    BY <1>2, <2>1, <2>2 DEF Folded
  <2> QED BY <2>1, <2>3, <2>4
<1> DEFINE run == [i \in 0 .. Len(s) |-> it[1 .. i]]
<1>5. run[0] = 0
  <2>1. 1 .. 0 = {}
    OBVIOUS
  <2> QED BY <1>1, <1>3, <2>1
<1>6. \A i \in 1 .. Len(s) : run[i] = run[i - 1] + s[i]
  <2> TAKE i \in 1 .. Len(s)
  <2>1. i \in 0 .. Len(s) /\ i - 1 \in 0 .. Len(s)
    BY <1>1
  <2> QED BY <1>4, <2>1
<1>7. Plan!Sum(s) = run[Len(s)]
    BY <1>1, <1>2
<1>8. DOMAIN run = 0 .. Len(s) /\ run = [i \in 0 .. Len(s) |-> run[i]]
    OBVIOUS
<1> HIDE DEF run
<1> DEFINE T == {i \in Nat : i <= Len(s) => run[i] \in Nat}
<1>9. 0 \in T
    BY <1>5
<1>10. ASSUME NEW i \in T PROVE i + 1 \in T
  <2> SUFFICES ASSUME i + 1 <= Len(s) PROVE run[i + 1] \in Nat
    OBVIOUS
  <2>1. i + 1 \in 1 .. Len(s) /\ i + 1 - 1 = i /\ run[i] \in Nat
    BY <1>1
  <2>2. run[i + 1] = run[i] + s[i + 1]
    BY <1>6, <2>1
  <2> QED BY <1>1, <2>1, <2>2
<1> HIDE DEF T
<1>11. T \in SUBSET Nat
    BY DEF T
<1>12. T = Nat
    BY <1>9, <1>10, <1>11, Induction
<1>13. \A i \in 0 .. Len(s) : run[i] \in Nat
    BY <1>1, <1>12 DEF T
<1>14. run \in [0 .. Len(s) -> Nat]
    BY <1>8, <1>13
<1> QED BY <1>5, <1>6, <1>7, <1>14 DEF Running

\* Whatever runs like the running total ends like it.
LEMMA SumIs ==
    ASSUME NEW s \in Seq(Nat), NEW r, Running(s, r)
    PROVE  Plan!Sum(s) = r[Len(s)]
<1>1. PICK run \in [0 .. Len(s) -> Nat] : Running(s, run) /\ Plan!Sum(s) = run[Len(s)]
    BY SumRuns
<1>2. Len(s) \in Nat
    BY LenProperties
<1> DEFINE T == {i \in Nat : i <= Len(s) => r[i] = run[i]}
<1>3. 0 \in T
    BY <1>1 DEF Running
<1>4. ASSUME NEW i \in T PROVE i + 1 \in T
  <2> SUFFICES ASSUME i + 1 <= Len(s) PROVE r[i + 1] = run[i + 1]
    OBVIOUS
  <2>1. i + 1 \in 1 .. Len(s) /\ i + 1 - 1 = i /\ r[i] = run[i]
    BY <1>2
  <2> QED BY <1>1, <2>1 DEF Running
<1> HIDE DEF T
<1>5. T \in SUBSET Nat
    BY DEF T
<1>6. T = Nat
    BY <1>3, <1>4, <1>5, Induction
<1> QED BY <1>1, <1>2, <1>6 DEF T

LEMMA DivMod ==
    ASSUME NEW a \in Nat, NEW b \in Nat \ {0}
    PROVE  /\ a \div b \in Nat /\ a % b \in 0 .. b - 1
           /\ a = b * (a \div b) + (a % b)
OBVIOUS

LEMMA DivBounds ==
    ASSUME NEW a \in Nat, NEW b \in Nat \ {0}
    PROVE  b * (a \div b) <= a /\ a < b * (a \div b) + b
BY DivMod

LEMMA SumEmpty == Plan!Sum(<<>>) = 0
<1> DEFINE r == [i \in {0} |-> 0]
<1>1. Running(<<>>, r)
    BY DEF Running
<1>2. <<>> \in Seq(Nat) /\ Len(<<>>) = 0
    OBVIOUS
<1> HIDE DEF r
<1>3. Plan!Sum(<<>>) = r[0]
    BY <1>1, <1>2, SumIs
<1> QED BY <1>3 DEF r

LEMMA SumNat ==
    ASSUME NEW s \in Seq(Nat)
    PROVE  Plan!Sum(s) \in Nat
BY SumRuns, LenProperties

LEMMA SumAppend ==
    ASSUME NEW s \in Seq(Nat), NEW x \in Nat
    PROVE  Plan!Sum(Append(s, x)) = Plan!Sum(s) + x
<1>1. PICK run \in [0 .. Len(s) -> Nat] : Running(s, run) /\ Plan!Sum(s) = run[Len(s)]
    BY SumRuns
<1> DEFINE t == Append(s, x)
           r == [i \in 0 .. Len(s) + 1 |-> IF i <= Len(s) THEN run[i] ELSE run[Len(s)] + x]
<1>2. Len(s) \in Nat /\ t \in Seq(Nat) /\ Len(t) = Len(s) + 1
    BY AppendProperties, LenProperties
<1>3. t[Len(s) + 1] = x /\ \A i \in 1 .. Len(s) : t[i] = s[i]
    BY AppendProperties, LenProperties
<1>4. r[0] = 0
    BY <1>1, <1>2 DEF Running
<1>5. ASSUME NEW i \in 1 .. Len(t) PROVE r[i] = r[i - 1] + t[i]
  <2>1. CASE i <= Len(s)
    <3>1. r[i] = run[i] /\ r[i - 1] = run[i - 1] /\ i \in 1 .. Len(s)
      BY <1>2, <2>1
    <3> QED BY <1>1, <1>3, <3>1 DEF Running
  <2>2. CASE i = Len(s) + 1
    <3>1. r[i] = run[Len(s)] + x /\ r[i - 1] = run[Len(s)]
      BY <1>2, <2>2
    <3> QED BY <1>3, <2>2, <3>1
  <2> QED BY <1>2, <2>1, <2>2
<1>6. Running(t, r)
    BY <1>4, <1>5 DEF Running
<1>7. r[Len(s) + 1] = run[Len(s)] + x
    BY <1>2
<1> HIDE DEF r, t
<1>8. Plan!Sum(t) = r[Len(t)]
    BY <1>2, <1>6, SumIs
<1> QED BY <1>1, <1>2, <1>7, <1>8 DEF t

\* The even shares of a total sum to it.
LEMMA EvenSum ==
    ASSUME NEW total \in Nat, NEW count \in Nat \ {0}, NEW s \in Seq(Nat), Len(s) = count,
           \A i \in 1 .. count : s[i] = Plan!EvenShare(total, count, i - 1)
    PROVE  Plan!Sum(s) = total
<1> DEFINE q == total \div count
           m == total % count
           r == [i \in 0 .. count |-> i * q + Plan!MinOf(i, m)]
<1>1. q \in Nat /\ m \in 0 .. count - 1 /\ total = count * q + m
    BY DivMod
<1>2. \A i \in 1 .. count : s[i] = q + (IF i - 1 < m THEN 1 ELSE 0)
    BY DEF Plan!EvenShare
<1> HIDE DEF q, m
<1>3. r[0] = 0
    BY <1>1 DEF Plan!MinOf
<1>4. ASSUME NEW i \in 1 .. count PROVE r[i] = r[i - 1] + s[i]
  <2>1. r[i] = i * q + Plan!MinOf(i, m) /\ r[i - 1] = (i - 1) * q + Plan!MinOf(i - 1, m)
    OBVIOUS
  <2>2. i * q = (i - 1) * q + q
    BY <1>1
  <2>3. Plan!MinOf(i, m) = Plan!MinOf(i - 1, m) + (IF i - 1 < m THEN 1 ELSE 0)
    BY <1>1 DEF Plan!MinOf
  <2>4. (i - 1) * q \in Nat /\ Plan!MinOf(i - 1, m) \in Nat
    BY <1>1 DEF Plan!MinOf
  <2>5. s[i] = q + (IF i - 1 < m THEN 1 ELSE 0)
    BY <1>2
  <2> DEFINE x == (i - 1) * q
             y == Plan!MinOf(i - 1, m)
             z == IF i - 1 < m THEN 1 ELSE 0
  <2>6. x \in Nat /\ y \in Nat /\ z \in {0, 1} /\ q \in Nat
    BY <1>1, <2>4
  <2>7. r[i] = (x + q) + (y + z) /\ r[i - 1] = x + y /\ s[i] = q + z
    <3> HIDE DEF r
    <3> QED BY <2>1, <2>2, <2>3, <2>5
  <2> HIDE DEF r, x, y, z
  <2> QED BY <2>6, <2>7
<1>5. r[count] = total
    BY <1>1 DEF Plan!MinOf
<1>6. Running(s, r)
    BY <1>3, <1>4 DEF Running
<1> HIDE DEF r
<1> QED BY <1>5, <1>6, SumIs

LEMMA PaidNear ==
    ASSUME NEW a \in Nat, Unit \in Nat \ {0}
    PROVE  Plan!Paid(a) \in Nat /\ 2 * Plan!Distance(Plan!Paid(a), a) <= Unit
<1> DEFINE k == (2 * a + Unit) \div (2 * Unit)
<1>1. k \in Nat /\ (2 * Unit) * k <= 2 * a + Unit /\ 2 * a + Unit < (2 * Unit) * k + 2 * Unit
  <2>1. 2 * a + Unit \in Nat /\ 2 * Unit \in Nat \ {0}
    OBVIOUS
  <2> QED BY <2>1, DivMod, DivBounds
<1>2. Plan!Paid(a) = k * Unit
    BY DEF Plan!Paid
<1> HIDE DEF k
<1>3. k * Unit \in Nat /\ (2 * Unit) * k = 2 * (k * Unit)
    BY <1>1
<1> DEFINE p == k * Unit
<1>4. p \in Nat /\ 2 * p <= 2 * a + Unit /\ 2 * a + Unit < 2 * p + 2 * Unit
    BY <1>1, <1>3
<1> HIDE DEF p
<1>5. 2 * Plan!Distance(p, a) <= Unit
    BY <1>4 DEF Plan!Distance
<1> QED BY <1>2, <1>4, <1>5 DEF p

LEMMA NearAdds ==
    ASSUME NEW a \in Nat, NEW b \in Nat, NEW c \in Nat, NEW d \in Nat, NEW v \in Nat, NEW w \in Nat,
           2 * Plan!Distance(a, b) <= v, 2 * Plan!Distance(c, d) <= w
    PROVE  2 * Plan!Distance(a + c, b + d) <= v + w
BY DEF Plan!Distance

\* Amounts that are near each other one by one have sums that are near.
LEMMA SumsNear ==
    ASSUME NEW s \in Seq(Nat), NEW p \in Seq(Nat), Len(p) = Len(s), NEW u \in Nat,
           \A i \in 1 .. Len(s) : 2 * Plan!Distance(p[i], s[i]) <= u
    PROVE  2 * Plan!Distance(Plan!Sum(p), Plan!Sum(s)) <= Len(s) * u
<1>1. PICK rs \in [0 .. Len(s) -> Nat] : Running(s, rs) /\ Plan!Sum(s) = rs[Len(s)]
    BY SumRuns
<1>2. PICK rp \in [0 .. Len(p) -> Nat] : Running(p, rp) /\ Plan!Sum(p) = rp[Len(p)]
    BY SumRuns
<1>3. Len(s) \in Nat /\ \A i \in 1 .. Len(s) : s[i] \in Nat /\ p[i] \in Nat
    BY LenProperties, ElementOfSeq
<1> DEFINE T == {i \in Nat : i <= Len(s) => 2 * Plan!Distance(rp[i], rs[i]) <= i * u}
<1>4. 0 \in T
    BY <1>1, <1>2 DEF Running, Plan!Distance
<1>5. ASSUME NEW i \in T PROVE i + 1 \in T
  <2> SUFFICES ASSUME i + 1 <= Len(s)
               PROVE  2 * Plan!Distance(rp[i + 1], rs[i + 1]) <= (i + 1) * u
    OBVIOUS
  <2>1. i + 1 \in 1 .. Len(s) /\ i + 1 - 1 = i /\ i \in 0 .. Len(s)
    BY <1>3
  <2>2. rs[i + 1] = rs[i] + s[i + 1] /\ rp[i + 1] = rp[i] + p[i + 1]
    BY <1>1, <1>2, <2>1 DEF Running
  <2>3. rs[i] \in Nat /\ rp[i] \in Nat /\ s[i + 1] \in Nat /\ p[i + 1] \in Nat
    BY <1>3, <2>1
  <2>4. 2 * Plan!Distance(rp[i], rs[i]) <= i * u /\ 2 * Plan!Distance(p[i + 1], s[i + 1]) <= u
    BY <1>3, <2>1
  <2>5. (i + 1) * u = i * u + u /\ i * u \in Nat
    OBVIOUS
  <2>6. 2 * Plan!Distance(rp[i] + p[i + 1], rs[i] + s[i + 1]) <= i * u + u
    BY <2>3, <2>4, <2>5, NearAdds
  <2> QED BY <2>2, <2>5, <2>6
<1> HIDE DEF T
<1>6. T \in SUBSET Nat
    BY DEF T
<1>7. T = Nat
    BY <1>4, <1>5, <1>6, Induction
<1>8. 2 * Plan!Distance(rp[Len(s)], rs[Len(s)]) <= Len(s) * u
  <2>1. Len(s) \in T
    BY <1>3, <1>7
  <2> QED BY <1>3, <2>1 DEF T
<1> QED BY <1>1, <1>2, <1>8

-----------------------------------------------------------------------------
(* The lists of recipients.                                                 *)

\* What is assumed of the forms.
LEMMA FormTypes ==
    ASSUME NEW f \in Forms
    PROVE  /\ f.count \in Nat \ {0} /\ f.total \in Nat /\ f.fixed \in BOOLEAN /\ f.hd \in BOOLEAN
           /\ f.range \in Nat \X Nat /\ f.range[1] \in Nat /\ f.range[2] \in Nat
<1>1. f.range \in Nat \X Nat
    BY Plan!PlanAssumption DEF Plan!PlanAssumption
<1> QED BY <1>1, Plan!PlanAssumption DEF Plan!PlanAssumption

Near(amount, limits) == amount <= limits[2] /\ amount > limits[1] - Step

\* An amount drawn from a range is near it.
LEMMA DrawnNear ==
    ASSUME NEW limits \in Nat \X Nat, NEW a \in Plan!Drawn(limits)
    PROVE  a \in Nat /\ Near(a, limits)
<1>1. Step \in Nat \ {0}
    BY Plan!PlanAssumption DEF Plan!PlanAssumption
<1>2. limits[1] \in Nat /\ limits[2] \in Nat
    OBVIOUS
<1>3. PICK raw \in limits[1] .. limits[2] :
          a = Plan!Formatted(Plan!Clamped(Plan!Rounded(raw), limits))
    BY DEF Plan!Drawn
<1> DEFINE c == Plan!Clamped(Plan!Rounded(raw), limits)
<1>4. Plan!Rounded(raw) \in Nat
  <2>1. raw \in Nat /\ raw + Step \div 2 \in Nat
    BY <1>1, <1>2
  <2>2. (raw + Step \div 2) \div Step \in Nat
    BY <1>1, <2>1, DivMod
  <2> QED BY <1>1, <2>1, <2>2 DEF Plan!Rounded
<1>5. c \in limits[1] .. limits[2]
    BY <1>2, <1>4 DEF Plan!Clamped
<1> HIDE DEF c
<1> DEFINE k == c \div Step
<1>6. c \in Nat
    BY <1>2, <1>5
<1>7. k \in Nat /\ Step * k <= c /\ c < Step * k + Step
    BY <1>1, <1>6, DivMod, DivBounds
<1>8. a = k * Step
    BY <1>3 DEF Plan!Formatted, c
<1> HIDE DEF k
<1>9. k * Step = Step * k
    BY <1>1, <1>7
<1>10. a \in Nat /\ a <= c /\ c < a + Step
    BY <1>1, <1>6, <1>7, <1>8, <1>9
<1> QED BY <1>1, <1>2, <1>5, <1>10 DEF Near

\* The amounts of a list of recipients.
LEMMA ToOthersAre ==
    ASSUME NEW amounts \in Seq(Nat)
    PROVE  /\ Plan!ToOthers(amounts) \in Seq(Plan!Recipient)
           /\ Len(Plan!ToOthers(amounts)) = Len(amounts)
           /\ \A i \in 1 .. Len(amounts) : Plan!ToOthers(amounts)[i].amount = amounts[i]
<1>1. Wallets \in Nat
    BY Plan!PlanAssumption DEF Plan!PlanAssumption
<1>2. Len(amounts) \in Nat /\ DOMAIN amounts = 1 .. Len(amounts)
      /\ \A i \in 1 .. Len(amounts) : amounts[i] \in Nat
    BY LenProperties, ElementOfSeq
<1>3. Plan!ToOthers(amounts) = [i \in 1 .. Len(amounts) |-> [to |-> 0, amount |-> amounts[i]]]
    BY <1>2 DEF Plan!ToOthers
<1>4. \A i \in 1 .. Len(amounts) : [to |-> 0, amount |-> amounts[i]] \in Plan!Recipient
    BY <1>1, <1>2 DEF Plan!Recipient
<1> QED BY <1>2, <1>3, <1>4, LenProperties

LEMMA AmountsAre ==
    ASSUME NEW list \in Seq(Plan!Recipient)
    PROVE  /\ Plan!AmountsOf(list) \in Seq(Nat) /\ Len(Plan!AmountsOf(list)) = Len(list)
           /\ Len(list) \in Nat /\ DOMAIN list = 1 .. Len(list)
           /\ \A i \in 1 .. Len(list) :
                /\ list[i] \in Plan!Recipient /\ list[i].amount \in Nat
                /\ Plan!AmountsOf(list)[i] = list[i].amount
<1>1. Len(list) \in Nat /\ DOMAIN list = 1 .. Len(list)
      /\ \A i \in 1 .. Len(list) : list[i] \in Plan!Recipient
    BY LenProperties, ElementOfSeq
<1>2. \A i \in 1 .. Len(list) : list[i].amount \in Nat
    BY <1>1 DEF Plan!Recipient
<1>3. Plan!AmountsOf(list) = [i \in 1 .. Len(list) |-> list[i].amount]
    BY <1>1 DEF Plan!AmountsOf
<1> QED BY <1>1, <1>2, <1>3

\* A list made of two has the elements of both, in order.
LEMMA Joined ==
    ASSUME NEW S, NEW s \in Seq(S), NEW t \in Seq(S)
    PROVE  /\ s \o t \in Seq(S) /\ Len(s) \in Nat /\ Len(t) \in Nat
           /\ Len(s \o t) = Len(s) + Len(t)
           /\ \A i \in 1 .. Len(s) : (s \o t)[i] = s[i]
           /\ \A i \in 1 .. Len(t) : (s \o t)[Len(s) + i] = t[i]
<1>1. s \o t \in Seq(S) /\ Len(s) \in Nat /\ Len(t) \in Nat /\ Len(s \o t) = Len(s) + Len(t)
    BY ConcatProperties, LenProperties
<1>2. \A i \in 1 .. Len(s) + Len(t) : (s \o t)[i] = IF i <= Len(s) THEN s[i] ELSE t[i - Len(s)]
    BY ConcatProperties
<1>3. ASSUME NEW i \in 1 .. Len(t) PROVE (s \o t)[Len(s) + i] = t[i]
  <2>1. Len(s) + i \in 1 .. Len(s) + Len(t) /\ ~(Len(s) + i <= Len(s)) /\ (Len(s) + i) - Len(s) = i
    BY <1>1
  <2> QED BY <1>2, <2>1
<1>4. ASSUME NEW i \in 1 .. Len(s) PROVE (s \o t)[i] = s[i]
  <2>1. i \in 1 .. Len(s) + Len(t) /\ i <= Len(s)
    BY <1>1
  <2> QED BY <1>2, <2>1
<1> QED BY <1>1, <1>3, <1>4

\* What a request adds to the generation that runs.
LEMMA Gathered ==
    ASSUME gen \in Plan!Generation, NEW amounts \in Seq(Nat), Plan!Gather(amounts)
    PROVE  /\ gen' \in Plan!Generation
           /\ gen'.form = gen.form /\ gen'.offset = gen.offset + Len(amounts) /\ gen'.split = Nothing
           /\ Len(gen'.list) = Len(gen.list) + Len(amounts)
           /\ \A i \in 1 .. Len(gen.list) : gen'.list[i] = gen.list[i]
           /\ \A i \in 1 .. Len(amounts) : gen'.list[Len(gen.list) + i].amount = amounts[i]
<1> DEFINE base == gen.list
           more == Plan!ToOthers(amounts)
<1>1. more \in Seq(Plan!Recipient) /\ Len(more) = Len(amounts) /\ Len(amounts) \in Nat
    BY ToOthersAre, LenProperties
<1>2. base \in Seq(Plan!Recipient) /\ gen.offset \in Nat
    BY DEF Plan!Generation
<1>3. gen' = [gen EXCEPT !.list = base \o more, !.offset = gen.offset + Len(amounts), !.split = Nothing]
    BY DEF Plan!Gather, Plan!Generation
<1>4. /\ base \o more \in Seq(Plan!Recipient) /\ Len(base) \in Nat
      /\ Len(base \o more) = Len(base) + Len(amounts)
      /\ \A i \in 1 .. Len(base) : (base \o more)[i] = base[i]
      /\ \A i \in 1 .. Len(amounts) : (base \o more)[Len(base) + i] = more[i]
  <2> HIDE DEF base, more
  <2>1. /\ base \o more \in Seq(Plan!Recipient) /\ Len(base) \in Nat
        /\ Len(base \o more) = Len(base) + Len(more)
    BY <1>1, <1>2, Joined
  <2>2. \A i \in 1 .. Len(base) : (base \o more)[i] = base[i]
    BY <1>1, <1>2, Joined
  <2>3. \A i \in 1 .. Len(more) : (base \o more)[Len(base) + i] = more[i]
    BY <1>1, <1>2, Joined
  <2> QED BY <1>1, <2>1, <2>2, <2>3
<1>5. \A i \in 1 .. Len(amounts) : more[i].amount = amounts[i]
    BY ToOthersAre
<1> HIDE DEF more
<1>6. gen' = [form |-> gen.form, offset |-> gen.offset + Len(amounts), list |-> base \o more,
              split |-> Nothing]
    BY <1>3 DEF Plan!Generation
<1>7. gen' \in Plan!Generation
    BY <1>1, <1>2, <1>4, <1>6 DEF Plan!Generation
<1> QED BY <1>4, <1>5, <1>6, <1>7

\* The parts drawn so far lie in the bounds of a part, and so would all that are left on average.
SplitFits ==
    LET f == gen.form
        left == f.count - Len(gen.split) IN
    /\ gen.offset = 0 /\ f.fixed /\ ~f.hd /\ f.count > 1 /\ Plan!Least(f) > 0
    /\ left > 0
    /\ \A i \in 1 .. Len(gen.split) : gen.split[i] \in Plan!Least(f) .. Plan!Greatest(f)
    /\ left * Plan!Least(f) <= Plan!Remaining
    /\ Plan!Remaining <= left * Plan!Greatest(f)

\* The shares of recipients gathered so far.
Shares ==
    LET f == gen.form IN
    \/ \A i \in 1 .. gen.offset : gen.list[i].amount = Plan!EvenShare(f.total, f.count, i - 1)
    \/ gen.offset = f.count /\ Plan!Sum(Plan!AmountsOf(gen.list)) = f.total

\* A random split does not span requests.
GenFits ==
    gen # Nothing =>
        /\ gen \in Plan!Generation
        /\ Len(gen.list) = gen.offset /\ gen.offset <= gen.form.count
        /\ gen.form.fixed /\ ~gen.form.hd => gen.form.count <= Batch /\ gen.offset \in {0, gen.form.count}
        /\ gen.form.fixed => Shares
        /\ ~gen.form.fixed => \A i \in 1 .. Len(gen.list) : Near(gen.list[i].amount, gen.form.range)
        /\ gen.split # Nothing => SplitFits

PageFits ==
    made # Nothing =>
        /\ made.fixed => Len(page) = made.count /\ Plan!Sum(Plan!AmountsOf(page)) = made.total
        /\ ~made.fixed => \A i \in 1 .. Len(page) : Near(page[i].amount, made.range)

ListInv ==
    /\ page \in Seq(Plan!Recipient)
    /\ made \in Forms \cup {Nothing}
    /\ GenFits
    /\ PageFits

LEMMA ListInit == ASSUME Plan!Init PROVE ListInv
<1>1. <<>> \in Seq(Plan!Recipient)
    OBVIOUS
<1> QED BY <1>1 DEF Plan!Init, ListInv, GenFits, PageFits

LEMMA ListSame == ASSUME ListInv, UNCHANGED <<page, made, gen>> PROVE ListInv'
BY DEF ListInv, GenFits, PageFits, SplitFits, Shares, Plan!Remaining

\* The size of a request that is due.
LEMMA LengthIs ==
    ASSUME ListInv, gen # Nothing, gen.offset < gen.form.count
    PROVE  /\ gen.form \in Forms /\ gen.offset \in Nat /\ gen.form.count \in Nat \ {0}
           /\ Plan!Length \in Nat /\ gen.offset + Plan!Length <= gen.form.count
           /\ gen.form.fixed /\ ~gen.form.hd => gen.offset = 0 /\ Plan!Length = gen.form.count
<1>1. gen.form \in Forms /\ gen.offset \in Nat
    BY DEF ListInv, GenFits, Plan!Generation
<1>2. gen.form.count \in Nat \ {0} /\ Batch \in Nat
    BY <1>1, FormTypes, Plan!PlanAssumption DEF Plan!PlanAssumption
<1>3. gen.form.fixed /\ ~gen.form.hd => gen.offset = 0 /\ gen.form.count <= Batch
    BY <1>1, <1>2 DEF ListInv, GenFits
<1> QED BY <1>1, <1>2, <1>3 DEF Plan!Length, Plan!MinOf

LEMMA EvenAmountsAre ==
    ASSUME ListInv, gen # Nothing, gen.offset < gen.form.count
    PROVE  /\ Plan!EvenAmounts \in Seq(Nat) /\ Len(Plan!EvenAmounts) = Plan!Length
           /\ \A i \in 1 .. Plan!Length :
                Plan!EvenAmounts[i] = Plan!EvenShare(gen.form.total, gen.form.count, gen.offset + i - 1)
<1>1. gen.form \in Forms /\ gen.offset \in Nat /\ gen.form.count \in Nat \ {0} /\ Plan!Length \in Nat
    BY LengthIs
<1>2. gen.form.total \in Nat
    BY <1>1, FormTypes
<1>3. gen.form.total \div gen.form.count \in Nat
    BY <1>1, <1>2, DivMod
<1>4. \A g : Plan!EvenShare(gen.form.total, gen.form.count, g) \in Nat
    BY <1>3 DEF Plan!EvenShare
<1>5. Plan!EvenAmounts =
        [i \in 1 .. Plan!Length |-> Plan!EvenShare(gen.form.total, gen.form.count, gen.offset + i - 1)]
    BY DEF Plan!EvenAmounts, Plan!EvenSlice
<1> QED BY <1>1, <1>4, <1>5

LEMMA GenerateList == ASSUME ListInv, NEW form \in Forms, Plan!Generate(form) PROVE ListInv'
<1>1. gen' = [form |-> form, offset |-> 0, list |-> <<>>, split |-> Nothing] /\ UNCHANGED <<page, made>>
      /\ (form.fixed /\ ~form.hd => form.count <= Batch)
    BY DEF Plan!Generate
<1>2. gen' \in Plan!Generation
    BY <1>1 DEF Plan!Generation
<1>3. form.count \in Nat \ {0}
    BY FormTypes
<1>4. GenFits'
  <2>1. Shares'
    BY <1>1 DEF Shares
  <2> QED BY <1>1, <1>2, <1>3, <2>1 DEF GenFits
<1> QED BY <1>1, <1>4 DEF ListInv, PageFits

LEMMA AnswerEvenList == ASSUME ListInv, Plan!AnswerEven PROVE ListInv'
<1>1. gen # Nothing /\ gen.offset < gen.form.count /\ gen.form.fixed
      /\ Plan!Gather(Plan!EvenAmounts) /\ UNCHANGED <<page, made>>
    BY DEF Plan!AnswerEven, Plan!More, Plan!Asked
<1>2. /\ gen.form \in Forms /\ gen.offset \in Nat /\ gen.form.count \in Nat
      /\ Plan!Length \in Nat /\ gen.offset + Plan!Length <= gen.form.count
      /\ (gen.form.fixed /\ ~gen.form.hd => gen.offset = 0 /\ Plan!Length = gen.form.count)
    BY <1>1, LengthIs
<1>3. /\ gen \in Plan!Generation /\ Len(gen.list) = gen.offset
      /\ Shares /\ (gen.form.fixed /\ ~gen.form.hd => gen.form.count <= Batch)
    BY <1>1 DEF ListInv, GenFits
<1>4. /\ Plan!EvenAmounts \in Seq(Nat) /\ Len(Plan!EvenAmounts) = Plan!Length
      /\ \A i \in 1 .. Plan!Length :
            Plan!EvenAmounts[i] = Plan!EvenShare(gen.form.total, gen.form.count, gen.offset + i - 1)
    BY <1>1, EvenAmountsAre
<1>5. /\ gen' \in Plan!Generation
      /\ gen'.form = gen.form /\ gen'.offset = gen.offset + Plan!Length /\ gen'.split = Nothing
      /\ Len(gen'.list) = Len(gen.list) + Plan!Length
      /\ \A i \in 1 .. Len(gen.list) : gen'.list[i] = gen.list[i]
      /\ \A i \in 1 .. Plan!Length : gen'.list[Len(gen.list) + i].amount = Plan!EvenAmounts[i]
    BY <1>1, <1>3, <1>4, Gathered
<1>6. \A i \in 1 .. gen'.offset :
         gen'.list[i].amount = Plan!EvenShare(gen.form.total, gen.form.count, i - 1)
  <2> TAKE i \in 1 .. gen'.offset
  <2>1. CASE i <= gen.offset
    <3>1. i \in 1 .. gen.offset /\ gen'.list[i] = gen.list[i]
      BY <1>2, <1>3, <1>5, <2>1
    <3> QED BY <1>1, <1>2, <1>3, <3>1 DEF Shares
  <2>2. CASE i > gen.offset
    <3> DEFINE k == i - gen.offset
    <3>1. k \in 1 .. Plan!Length /\ i = Len(gen.list) + k /\ gen.offset + k - 1 = i - 1
      BY <1>2, <1>3, <1>5, <2>2
    <3> HIDE DEF k
    <3>2. gen'.list[i].amount = Plan!EvenAmounts[k]
      BY <1>5, <3>1
    <3> QED BY <1>4, <3>1, <3>2
  <2> QED BY <1>2, <2>1, <2>2
<1>7. Shares'
    BY <1>5, <1>6 DEF Shares
<1>8. GenFits'
    BY <1>1, <1>2, <1>3, <1>5, <1>7 DEF GenFits
<1> QED BY <1>1, <1>8 DEF ListInv, PageFits

LEMMA AnswerRangeList == ASSUME ListInv, Plan!AnswerRange PROVE ListInv'
<1>1. gen # Nothing /\ gen.offset < gen.form.count /\ ~gen.form.fixed /\ UNCHANGED <<page, made>>
    BY DEF Plan!AnswerRange, Plan!More, Plan!Asked
<1>2. PICK amounts \in [1 .. Plan!Length -> Plan!Drawn(gen.form.range)] : Plan!Gather(amounts)
    BY DEF Plan!AnswerRange
<1>3. /\ gen.form \in Forms /\ gen.offset \in Nat /\ gen.form.count \in Nat
      /\ Plan!Length \in Nat /\ gen.offset + Plan!Length <= gen.form.count
    BY <1>1, LengthIs
<1>4. /\ gen \in Plan!Generation /\ Len(gen.list) = gen.offset
      /\ \A i \in 1 .. Len(gen.list) : Near(gen.list[i].amount, gen.form.range)
    BY <1>1 DEF ListInv, GenFits
<1>5. \A i \in 1 .. Plan!Length : amounts[i] \in Nat /\ Near(amounts[i], gen.form.range)
    BY <1>2, <1>3, FormTypes, DrawnNear
<1>6. amounts \in Seq(Nat) /\ Len(amounts) = Plan!Length
    BY <1>2, <1>3, <1>5
<1>7. /\ gen' \in Plan!Generation
      /\ gen'.form = gen.form /\ gen'.offset = gen.offset + Plan!Length /\ gen'.split = Nothing
      /\ Len(gen'.list) = Len(gen.list) + Plan!Length
      /\ \A i \in 1 .. Len(gen.list) : gen'.list[i] = gen.list[i]
      /\ \A i \in 1 .. Plan!Length : gen'.list[Len(gen.list) + i].amount = amounts[i]
    BY <1>2, <1>4, <1>6, Gathered
<1>8. \A i \in 1 .. Len(gen'.list) : Near(gen'.list[i].amount, gen.form.range)
  <2> TAKE i \in 1 .. Len(gen'.list)
  <2>1. CASE i <= gen.offset
    <3>1. i \in 1 .. Len(gen.list) /\ gen'.list[i] = gen.list[i]
      BY <1>3, <1>4, <1>7, <2>1
    <3> QED BY <1>4, <3>1
  <2>2. CASE i > gen.offset
    <3> DEFINE k == i - gen.offset
    <3>1. k \in 1 .. Plan!Length /\ i = Len(gen.list) + k
      BY <1>3, <1>4, <1>7, <2>2
    <3> HIDE DEF k
    <3>2. gen'.list[i].amount = amounts[k]
      BY <1>7, <3>1
    <3> QED BY <1>5, <3>1, <3>2
  <2> QED BY <1>3, <1>4, <1>7, <2>1, <2>2
<1>9. GenFits'
    BY <1>1, <1>3, <1>4, <1>7, <1>8 DEF GenFits
<1> QED BY <1>1, <1>9 DEF ListInv, PageFits

\* The arithmetic of one part: the bounds are met, and what is left fits the parts after it.
LEMMA PartFits ==
    ASSUME NEW n \in Nat \ {0}, NEW lo \in Nat, NEW hi \in Nat, NEW rem \in Int, lo <= hi,
           n * lo <= rem, rem <= n * hi
    PROVE  /\ (n = 1 => lo <= rem /\ rem <= hi)
           /\ Plan!MaxOf(lo, rem - (n - 1) * hi) <= Plan!MinOf(hi, rem - (n - 1) * lo)
           /\ \A p \in Plan!MaxOf(lo, rem - (n - 1) * hi) .. Plan!MinOf(hi, rem - (n - 1) * lo) :
                 /\ p \in lo .. hi
                 /\ (n - 1) * lo <= rem - p /\ rem - p <= (n - 1) * hi
<1> DEFINE a == (n - 1) * lo
           b == (n - 1) * hi
<1>1. a \in Nat /\ b \in Nat /\ n * lo = a + lo /\ n * hi = b + hi
    OBVIOUS
<1>2. a <= b
  <2>1. n - 1 \in Nat /\ hi - lo \in Nat
    OBVIOUS
  <2>2. (n - 1) * (hi - lo) \in Nat
    BY <2>1
  <2>3. b = a + (n - 1) * (hi - lo)
    OBVIOUS
  <2> HIDE DEF a, b
  <2> QED BY <1>1, <2>2, <2>3
<1>3. n = 1 => a = 0 /\ b = 0
    OBVIOUS
<1> HIDE DEF a, b
<1>4. a + lo <= rem /\ rem <= b + hi
    BY <1>1
<1>5. Plan!MaxOf(lo, rem - b) \in Int /\ Plan!MinOf(hi, rem - a) \in Int
      /\ lo <= Plan!MaxOf(lo, rem - b) /\ rem - b <= Plan!MaxOf(lo, rem - b)
      /\ Plan!MinOf(hi, rem - a) <= hi /\ Plan!MinOf(hi, rem - a) <= rem - a
      /\ Plan!MaxOf(lo, rem - b) <= Plan!MinOf(hi, rem - a)
    BY <1>1, <1>2, <1>4 DEF Plan!MaxOf, Plan!MinOf
<1>6. \A p \in Plan!MaxOf(lo, rem - b) .. Plan!MinOf(hi, rem - a) :
         p \in lo .. hi /\ a <= rem - p /\ rem - p <= b
    BY <1>1, <1>5
<1>7. n = 1 => lo <= rem /\ rem <= hi
    BY <1>3, <1>4
<1> QED BY <1>5, <1>6, <1>7 DEF a, b

LEMMA ShareBounds ==
    ASSUME NEW f \in Forms
    PROVE  /\ Plan!Least(f) \in Nat /\ Plan!Greatest(f) \in Nat /\ Plan!Least(f) <= Plan!Greatest(f)
           /\ f.count * Plan!Least(f) <= f.total
           /\ Plan!Least(f) > 0 => f.total <= f.count * Plan!Greatest(f)
<1> DEFINE q == f.total \div f.count
           h == q \div 2
           c == f.count
           t == f.total
<1>1. c \in Nat \ {0} /\ t \in Nat
    BY FormTypes
<1>2. q \in Nat /\ c * q <= t /\ t < c * q + c
    BY <1>1, DivMod, DivBounds
<1>3. Plan!Least(f) = h /\ Plan!Greatest(f) = q * 3
    BY DEF Plan!Least, Plan!Greatest
<1> HIDE DEF q, c, t
<1>4. h \in Nat /\ 2 * h <= q
    BY <1>2
<1> HIDE DEF h
<1>5. c * h <= c * q
    BY <1>1, <1>2, <1>4
<1>6. h > 0 => c <= c * q
    BY <1>1, <1>2, <1>4
<1>7. c * (q * 3) = 3 * (c * q) /\ c * q \in Nat /\ c * h \in Nat
    BY <1>1, <1>2, <1>4
<1>8. c * h <= t /\ (h > 0 => t <= c * (q * 3))
    BY <1>1, <1>2, <1>5, <1>6, <1>7
<1>9. q * 3 \in Nat /\ h <= q * 3
    BY <1>2, <1>4
<1> QED BY <1>3, <1>4, <1>8, <1>9 DEF c, t

\* What a split that was begun is made of.
LEMMA SplitTypes ==
    ASSUME ListInv, gen # Nothing, gen.split # Nothing
    PROVE  /\ gen \in Plan!Generation /\ gen.form \in Forms /\ gen.split \in Seq(Nat) /\ SplitFits
           /\ Len(gen.split) \in Nat /\ gen.form.count \in Nat \ {0} /\ gen.form.total \in Nat
           /\ Plan!Sum(gen.split) \in Nat /\ Plan!Remaining \in Int
           /\ gen.form.count - Len(gen.split) \in Nat \ {0}
           /\ Plan!After = gen.form.count - Len(gen.split) - 1
           /\ Len(gen.list) = 0 /\ gen.list \in Seq(Plan!Recipient)
<1>1. /\ gen \in Plan!Generation /\ gen.form \in Forms /\ gen.split \in Seq(Nat) /\ SplitFits
      /\ Len(gen.list) = gen.offset /\ gen.list \in Seq(Plan!Recipient)
    BY DEF ListInv, GenFits, Plan!Generation
<1>2. Len(gen.split) \in Nat /\ gen.form.count \in Nat \ {0} /\ gen.form.total \in Nat
      /\ Plan!Sum(gen.split) \in Nat
    BY <1>1, FormTypes, LenProperties, SumNat
<1>3. Plan!Remaining \in Int /\ gen.form.count - Len(gen.split) \in Nat \ {0}
    BY <1>1, <1>2 DEF Plan!Remaining, SplitFits
<1> QED BY <1>1, <1>2, <1>3 DEF Plan!After, SplitFits

\* The bounds always leave a part.
LEMMA BoundsMeet ==
    ASSUME ListInv, gen # Nothing, gen.split # Nothing
    PROVE  LET n == gen.form.count - Len(gen.split) IN
           /\ n = 1 => Plan!LastFits
           /\ Plan!Low <= Plan!High
           /\ \A p \in Plan!Low .. Plan!High :
                /\ p \in Plan!Least(gen.form) .. Plan!Greatest(gen.form)
                /\ (n - 1) * Plan!Least(gen.form) <= Plan!Remaining - p
                /\ Plan!Remaining - p <= (n - 1) * Plan!Greatest(gen.form)
<1> DEFINE n == gen.form.count - Len(gen.split)
           lo == Plan!Least(gen.form)
           hi == Plan!Greatest(gen.form)
           rem == Plan!Remaining
<1>1. n \in Nat \ {0} /\ rem \in Int /\ SplitFits /\ Plan!After = n - 1 /\ gen.form \in Forms
    BY SplitTypes
<1>2. lo \in Nat /\ hi \in Nat /\ lo <= hi
    BY <1>1, ShareBounds
<1>3. n * lo <= rem /\ rem <= n * hi
    BY <1>1 DEF SplitFits
<1>4. Plan!Low = Plan!MaxOf(lo, rem - (n - 1) * hi) /\ Plan!High = Plan!MinOf(hi, rem - (n - 1) * lo)
    BY <1>1 DEF Plan!Low, Plan!High, Plan!LowBound, Plan!HighBound
<1>5. Plan!LastFits <=> lo <= rem /\ rem <= hi
    BY DEF Plan!LastFits
<1> HIDE DEF n, lo, hi, rem
<1>6. /\ (n = 1 => lo <= rem /\ rem <= hi)
      /\ Plan!Low <= Plan!High
      /\ \A p \in Plan!Low .. Plan!High :
            p \in lo .. hi /\ (n - 1) * lo <= rem - p /\ rem - p <= (n - 1) * hi
    BY <1>1, <1>2, <1>3, <1>4, PartFits
<1> QED BY <1>5, <1>6 DEF n, lo, hi, rem

LEMMA BeginSplitList == ASSUME ListInv, Plan!BeginSplit PROVE ListInv'
<1>1. /\ gen # Nothing /\ gen.offset < gen.form.count /\ gen.split = Nothing
      /\ gen.form.fixed /\ ~gen.form.hd /\ gen.form.count > 1 /\ Plan!Least(gen.form) > 0
      /\ gen' = [gen EXCEPT !.split = <<>>] /\ UNCHANGED <<page, made>>
    BY DEF Plan!BeginSplit, Plan!More, Plan!Asked
<1>2. gen \in Plan!Generation
    BY <1>1 DEF ListInv, GenFits
<1>3. gen' \in Plan!Generation /\ gen'.form = gen.form /\ gen'.offset = gen.offset
      /\ gen'.list = gen.list /\ gen'.split = <<>>
  <2>1. <<>> \in Seq(Nat)
    OBVIOUS
  <2> QED BY <1>1, <1>2, <2>1 DEF Plan!Generation
<1>4. gen.form \in Forms /\ gen.offset = 0 /\ gen.form.count \in Nat /\ gen.form.total \in Nat
    BY <1>1, LengthIs, FormTypes
<1>5. Plan!Remaining' = gen.form.total
    BY <1>3, <1>4, SumEmpty DEF Plan!Remaining
<1>6. SplitFits'
    BY <1>1, <1>3, <1>4, <1>5, ShareBounds DEF SplitFits
<1>7. Shares'
    BY <1>1, <1>3 DEF ListInv, GenFits, Shares
<1>8. GenFits'
    BY <1>1, <1>3, <1>6, <1>7 DEF ListInv, GenFits
<1> QED BY <1>1, <1>8 DEF ListInv, PageFits

LEMMA DrawPartList == ASSUME ListInv, Plan!DrawPart PROVE ListInv'
<1>1. gen # Nothing /\ gen.split # Nothing /\ Plan!After > 0 /\ UNCHANGED <<page, made>>
    BY DEF Plan!DrawPart, Plan!Splitting, Plan!Asked
<1>2. Plan!Low <= Plan!High
    BY <1>1, BoundsMeet
<1> DEFINE n == gen.form.count - Len(gen.split)
<1>3. /\ gen \in Plan!Generation /\ gen.form \in Forms /\ gen.split \in Seq(Nat) /\ SplitFits
      /\ Len(gen.split) \in Nat /\ gen.form.count \in Nat /\ gen.form.total \in Nat
      /\ Plan!Sum(gen.split) \in Nat /\ Plan!Remaining \in Int /\ n \in Nat \ {0} /\ n - 1 > 0
      /\ Plan!Least(gen.form) \in Nat /\ Plan!Greatest(gen.form) \in Nat
    BY <1>1, SplitTypes, ShareBounds
<1>4. Plan!Low \in Int /\ Plan!High \in Int
    BY <1>3, SplitTypes, <1>1
       DEF Plan!Low, Plan!High, Plan!LowBound, Plan!HighBound, Plan!MaxOf, Plan!MinOf
<1>5. PICK part \in Plan!Low .. Plan!High : gen' = [gen EXCEPT !.split = Append(gen.split, part)]
    BY <1>2, <1>3, <1>4 DEF Plan!DrawPart, Plan!Generation
<1>6. /\ part \in Plan!Least(gen.form) .. Plan!Greatest(gen.form)
      /\ (n - 1) * Plan!Least(gen.form) <= Plan!Remaining - part
      /\ Plan!Remaining - part <= (n - 1) * Plan!Greatest(gen.form)
    BY <1>1, BoundsMeet
<1>7. part \in Nat
    BY <1>3, <1>6
<1>8. /\ Append(gen.split, part) \in Seq(Nat) /\ Len(Append(gen.split, part)) = Len(gen.split) + 1
      /\ Append(gen.split, part)[Len(gen.split) + 1] = part
      /\ \A i \in 1 .. Len(gen.split) : Append(gen.split, part)[i] = gen.split[i]
    BY <1>3, <1>7, AppendProperties
<1>9. gen' \in Plan!Generation /\ gen'.form = gen.form /\ gen'.offset = gen.offset
      /\ gen'.list = gen.list /\ gen'.split = Append(gen.split, part)
    BY <1>3, <1>5, <1>8 DEF Plan!Generation
<1>10. Plan!Remaining' = Plan!Remaining - part
  <2>1. Plan!Sum(gen'.split) = Plan!Sum(gen.split) + part
    BY <1>3, <1>7, <1>9, SumAppend
  <2>2. Plan!Remaining' = gen.form.total - Plan!Sum(gen'.split)
    BY <1>9 DEF Plan!Remaining
  <2>3. Plan!Remaining = gen.form.total - Plan!Sum(gen.split)
    BY DEF Plan!Remaining
  <2>4. gen.form.total \in Nat /\ Plan!Sum(gen.split) \in Nat
    BY <1>3
  <2> QED BY <1>7, <2>1, <2>2, <2>3, <2>4
<1>11. gen.form.count - Len(gen'.split) = n - 1
    BY <1>3, <1>8, <1>9
<1>12. \A i \in 1 .. Len(gen'.split) :
          gen'.split[i] \in Plan!Least(gen.form) .. Plan!Greatest(gen.form)
  <2> TAKE i \in 1 .. Len(gen'.split)
  <2>1. i \in 1 .. Len(gen.split) \/ i = Len(gen.split) + 1
    BY <1>3, <1>8, <1>9
  <2> QED BY <1>3, <1>6, <1>8, <1>9, <2>1 DEF SplitFits
<1>13. SplitFits'
  <2> HIDE DEF n
  <2> QED BY <1>3, <1>6, <1>9, <1>10, <1>11, <1>12 DEF SplitFits
<1>14. GenFits'
    BY <1>1, <1>9, <1>13 DEF ListInv, GenFits, Shares
<1> QED BY <1>1, <1>14 DEF ListInv, PageFits

LEMMA EndSplitList == ASSUME ListInv, Plan!EndSplit PROVE ListInv'
<1>1. gen # Nothing /\ gen.split # Nothing /\ Plan!After = 0 /\ UNCHANGED <<page, made>>
    BY DEF Plan!EndSplit, Plan!Splitting, Plan!Asked
<1>2. /\ gen \in Plan!Generation /\ gen.form \in Forms /\ gen.split \in Seq(Nat) /\ SplitFits
      /\ Len(gen.split) \in Nat /\ gen.form.count \in Nat \ {0} /\ gen.form.total \in Nat
      /\ Plan!Sum(gen.split) \in Nat /\ Plan!Remaining \in Int /\ gen.form.count - Len(gen.split) = 1
      /\ Plan!Least(gen.form) \in Nat /\ Len(gen.list) = 0
    BY <1>1, SplitTypes, ShareBounds
<1>3. Plan!LastFits
    BY <1>1, <1>2, BoundsMeet
<1>4. Plan!Remaining \in Nat
    BY <1>2, <1>3 DEF Plan!LastFits
<1> DEFINE parts == Append(gen.split, Plan!Remaining)
<1>5. Plan!Gather(parts)
    BY <1>3 DEF Plan!EndSplit
<1>6. parts \in Seq(Nat) /\ Len(parts) = gen.form.count
    BY <1>2, <1>4, AppendProperties
<1>7. Plan!Sum(parts) = gen.form.total
  <2>1. Plan!Sum(parts) = Plan!Sum(gen.split) + Plan!Remaining
    BY <1>2, <1>4, SumAppend
  <2> QED BY <1>2, <2>1 DEF Plan!Remaining
<1> HIDE DEF parts
<1>8. /\ gen' \in Plan!Generation
      /\ gen'.form = gen.form /\ gen'.offset = gen.offset + Len(parts) /\ gen'.split = Nothing
      /\ Len(gen'.list) = Len(gen.list) + Len(parts)
      /\ \A i \in 1 .. Len(parts) : gen'.list[Len(gen.list) + i].amount = parts[i]
    BY <1>2, <1>5, <1>6, Gathered
<1>9. gen'.offset = gen.form.count /\ Len(gen'.list) = gen.form.count
    BY <1>2, <1>6, <1>8 DEF SplitFits
<1>10. gen'.list \in Seq(Plan!Recipient)
    BY <1>8 DEF Plan!Generation
<1>11. Plan!AmountsOf(gen'.list) = parts
  <2>1. Plan!AmountsOf(gen'.list) \in Seq(Nat) /\ Len(Plan!AmountsOf(gen'.list)) = Len(gen'.list)
        /\ \A i \in 1 .. Len(gen'.list) : Plan!AmountsOf(gen'.list)[i] = gen'.list[i].amount
    BY <1>10, AmountsAre
  <2>2. ASSUME NEW i \in 1 .. Len(parts) PROVE Plan!AmountsOf(gen'.list)[i] = parts[i]
    <3>1. Len(gen.list) + i = i /\ i \in 1 .. Len(gen'.list)
      BY <1>2, <1>6, <1>9
    <3>2. gen'.list[Len(gen.list) + i].amount = parts[i]
      BY <1>8
    <3> QED BY <2>1, <3>1, <3>2
  <2> QED BY <1>6, <1>9, <2>1, <2>2, SeqEqual
<1>12. Shares'
    BY <1>7, <1>8, <1>9, <1>11 DEF Shares
<1>13. gen.form.fixed /\ ~gen.form.hd /\ gen.form.count <= Batch
    BY <1>1, <1>2 DEF SplitFits, ListInv, GenFits
<1>14. GenFits'
    BY <1>2, <1>8, <1>9, <1>12, <1>13 DEF GenFits
<1> QED BY <1>1, <1>14 DEF ListInv, PageFits

\* A list that answers a form whole.
LEMMA ShowListList == ASSUME ListInv, Plan!ShowList PROVE ListInv'
<1>1. gen # Nothing /\ gen.offset >= gen.form.count
      /\ page' = gen.list /\ made' = gen.form /\ gen' = Nothing
    BY DEF Plan!ShowList, Plan!Asked
<1>2. /\ gen \in Plan!Generation /\ gen.form \in Forms /\ gen.list \in Seq(Plan!Recipient)
      /\ gen.offset \in Nat /\ Len(gen.list) = gen.offset /\ gen.offset <= gen.form.count
    BY <1>1 DEF ListInv, GenFits, Plan!Generation
<1>3. gen.form.count \in Nat \ {0} /\ gen.form.total \in Nat /\ gen.offset = gen.form.count
    BY <1>1, <1>2, FormTypes
<1>4. ASSUME gen.form.fixed PROVE Plan!Sum(Plan!AmountsOf(gen.list)) = gen.form.total
  <2>1. CASE \A i \in 1 .. gen.offset :
                gen.list[i].amount = Plan!EvenShare(gen.form.total, gen.form.count, i - 1)
    <3> DEFINE s == Plan!AmountsOf(gen.list)
    <3>1. s \in Seq(Nat) /\ Len(s) = Len(gen.list)
          /\ \A i \in 1 .. Len(gen.list) : s[i] = gen.list[i].amount
      BY <1>2, AmountsAre
    <3> HIDE DEF s
    <3>2. Len(s) = gen.form.count
          /\ \A i \in 1 .. gen.form.count : s[i] = Plan!EvenShare(gen.form.total, gen.form.count, i - 1)
      BY <1>2, <1>3, <2>1, <3>1
    <3>3. Plan!Sum(s) = gen.form.total
      BY <1>3, <3>1, <3>2, EvenSum
    <3> QED BY <3>3 DEF s
  <2>2. CASE gen.offset = gen.form.count /\ Plan!Sum(Plan!AmountsOf(gen.list)) = gen.form.total
    BY <2>2
  <2> QED BY <1>1, <1>4, <2>1, <2>2 DEF ListInv, GenFits, Shares
<1>5. PageFits'
    BY <1>1, <1>2, <1>3, <1>4 DEF PageFits, ListInv, GenFits
<1> QED BY <1>1, <1>2, <1>5 DEF ListInv, GenFits

LEMMA EditList ==
    ASSUME ListInv, NEW list \in Seq(Plan!Recipient), Plan!Edit(list)
    PROVE  ListInv'
BY DEF Plan!Edit, ListInv, GenFits, PageFits, SplitFits, Shares, Plan!Remaining

-----------------------------------------------------------------------------
(* The rows of a job.                                                       *)

\* Quotient and remainder are unique.
LEMMA DivUnique ==
    ASSUME NEW b \in Nat \ {0}, NEW q \in Nat, NEW r \in 0 .. b - 1
    PROVE  (b * q + r) \div b = q /\ (b * q + r) % b = r
<1> DEFINE a == b * q + r
           d == a \div b
           m == a % b
<1>1. a \in Nat
    OBVIOUS
<1>2. a = b * q + r
    OBVIOUS
<1> HIDE DEF a
<1>3. d \in Nat /\ m \in 0 .. b - 1 /\ a = b * d + m
    BY <1>1, DivMod
<1> HIDE DEF d, m
<1>4. d = q
  <2>1. ASSUME d < q PROVE FALSE
    <3>1. q - d \in Nat /\ q - d >= 1 /\ b * q = b * d + b * (q - d)
      BY <1>3, <2>1
    <3>2. b * (q - d) >= b
      BY <3>1
    <3> QED BY <1>2, <1>3, <3>1, <3>2
  <2>2. ASSUME q < d PROVE FALSE
    <3>1. d - q \in Nat /\ d - q >= 1 /\ b * d = b * q + b * (d - q)
      BY <1>3, <2>2
    <3>2. b * (d - q) >= b
      BY <3>1
    <3> QED BY <1>2, <1>3, <3>1, <3>2
  <2> QED BY <1>3, <2>1, <2>2
<1>5. m = r
    BY <1>2, <1>3, <1>4
<1> QED BY <1>4, <1>5 DEF a, d, m

\* Place k of a list falls in block (k - 1) \div m + 1 at (k - 1) % m + 1.
LEMMA PlaceIs ==
    ASSUME NEW m \in Nat \ {0}, NEW c \in Nat, NEW k \in 1 .. m * c
    PROVE  /\ (k - 1) \div m + 1 \in 1 .. c /\ ((k - 1) % m) + 1 \in 1 .. m
           /\ k = m * ((k - 1) \div m) + (((k - 1) % m) + 1)
<1> DEFINE d == (k - 1) \div m
           r == (k - 1) % m
<1>1. m * c \in Nat /\ k - 1 \in Nat /\ k - 1 < m * c
    OBVIOUS
<1>2. d \in Nat /\ r \in 0 .. m - 1 /\ k - 1 = m * d + r
    BY <1>1, DivMod
<1> HIDE DEF d, r
<1>3. d < c
  <2>1. ASSUME c <= d PROVE FALSE
    <3>1. d - c \in Nat /\ m * d = m * c + m * (d - c) /\ m * (d - c) \in Nat
      BY <1>2, <2>1
    <3> QED BY <1>1, <1>2, <3>1
  <2> QED BY <1>2, <2>1
<1>4. d + 1 \in 1 .. c /\ r + 1 \in 1 .. m /\ k = m * d + (r + 1)
    BY <1>1, <1>2, <1>3
<1> QED BY <1>4 DEF d, r

\* One place in each block: there are as many as blocks.
LEMMA BlockCount ==
    ASSUME NEW m \in Nat \ {0}, NEW c \in Nat, NEW at \in [1 .. c -> 1 .. m]
    PROVE  LET K == {k \in 1 .. m * c : ((k - 1) % m) + 1 = at[(k - 1) \div m + 1]} IN
           IsFiniteSet(K) /\ Cardinality(K) = c
<1> DEFINE K == {k \in 1 .. m * c : ((k - 1) % m) + 1 = at[(k - 1) \div m + 1]}
           f == [l \in 1 .. c |-> m * (l - 1) + at[l]]
<1>1. ASSUME NEW l \in 1 .. c
      PROVE  /\ f[l] \in 1 .. m * c
             /\ (f[l] - 1) \div m = l - 1
             /\ ((f[l] - 1) % m) + 1 = at[l]
  <2> DEFINE x == m * (l - 1)
             r == at[l] - 1
             y == m * (c - l)
             z == m * c
  <2>1. l - 1 \in Nat /\ at[l] \in 1 .. m /\ r \in 0 .. m - 1 /\ c - l \in Nat
    OBVIOUS
  <2>2. x \in Nat /\ y \in Nat /\ z = x + m + y
    BY <2>1
  <2>3. (x + r) \div m = l - 1 /\ (x + r) % m = r
    BY <2>1, DivUnique
  <2>4. f[l] = x + at[l] /\ at[l] = r + 1
    BY <2>1
  <2> HIDE DEF x, r, y, z, f
  <2>5. f[l] - 1 = x + r
    BY <2>1, <2>2, <2>4
  <2>6. f[l] \in 1 .. z
    BY <2>1, <2>2, <2>4
  <2> QED BY <2>3, <2>4, <2>5, <2>6 DEF z
<1>2. \A l \in 1 .. c : f[l] \in K
  <2> TAKE l \in 1 .. c
  <2> HIDE DEF f
  <2>1. f[l] \in 1 .. m * c /\ (f[l] - 1) \div m + 1 = l /\ ((f[l] - 1) % m) + 1 = at[l]
    BY <1>1
  <2> QED BY <2>1
<1>3. \A l, n \in 1 .. c : f[l] = f[n] => l = n
  <2> TAKE l, n \in 1 .. c
  <2> HIDE DEF f
  <2>1. (f[l] - 1) \div m = l - 1 /\ (f[n] - 1) \div m = n - 1
    BY <1>1
  <2> QED BY <2>1
<1>4. \A k \in K : \E l \in 1 .. c : f[l] = k
  <2> TAKE k \in K
  <2> DEFINE d == (k - 1) \div m
  <2>1. d + 1 \in 1 .. c /\ k = m * d + at[d + 1]
    BY PlaceIs
  <2>2. f[d + 1] = m * (d + 1 - 1) + at[d + 1] /\ d + 1 - 1 = d
    BY <2>1
  <2> QED BY <2>1, <2>2
<1>5. f \in [1 .. c -> K]
    BY <1>2
<1> HIDE DEF f, K
<1>6. ExistsBijection(1 .. c, K)
  <2>1. f \in Injection(1 .. c, K)
    BY <1>3, <1>5 DEF Injection, IsInjective
  <2>2. f \in Surjection(1 .. c, K)
    BY <1>4, <1>5 DEF Surjection
  <2> QED BY <2>1, <2>2 DEF ExistsBijection, Bijection
<1>7. IsFiniteSet(1 .. c) /\ Cardinality(1 .. c) = c
    BY FS_Interval
<1>8. IsFiniteSet(K) /\ Cardinality(K) = c
    BY <1>6, <1>7, FS_Bijection
<1> QED BY <1>8 DEF K

\* A permutation of 1 .. m takes every value.
LEMMA PermutedOnto ==
    ASSUME NEW m \in Nat \ {0}, NEW p \in Plan!Permuted(m), NEW s \in 1 .. m
    PROVE  \E i \in 1 .. m : p[i] = s
<1>1. p \in Injection(1 .. m, 1 .. m)
    BY DEF Plan!Permuted, Injection, IsInjective
<1>2. IsFiniteSet(1 .. m)
    BY FS_Interval
<1>3. p \in Surjection(1 .. m, 1 .. m)
    BY <1>1, <1>2, FS_Injection
<1> QED BY <1>3 DEF Surjection

\* The rows are signed in turn by m wallets; a rotation is made of shuffles of them.
Turned(m) ==
    /\ \A k \in 1 .. Len(rows) : rows[k].signer = ((k - 1) % m) + 1
    /\ mixed > 0 =>
        /\ Len(rows) = m * mixed
        /\ \E turns \in [1 .. mixed -> Plan!Deranged(m)] :
              \A k \in 1 .. Len(rows) : rows[k].to = turns[(k - 1) \div m + 1][((k - 1) % m) + 1]

RowsInv ==
    /\ rows \in Seq(Plan!Row) /\ mixed \in 0 .. MaxLoops
    /\ \E m \in 1 .. Wallets : Turned(m)

LEMMA CardinalityIs ==
    ASSUME NEW S
    PROVE  Plan!Cardinality(S) = Cardinality(S)
BY DEF Plan!Cardinality, Cardinality

\* The ring of two or more is a shuffle nobody of which pays itself.
LEMMA RingDeranges ==
    ASSUME NEW m \in Nat, m > 1
    PROVE  Plan!Turns(m) = Plan!Deranged(m)
<1>1. \A i \in 1 .. m : i % m = IF i = m THEN 0 ELSE i
  <2> TAKE i \in 1 .. m
  <2>1. CASE i = m
    <3>1. (m * 1 + 0) % m = 0
      BY DivUnique
    <3> QED BY <2>1, <3>1
  <2>2. CASE i # m
    <3>1. i \in 0 .. m - 1 /\ m * 0 + i = i
      BY <2>2
    <3>2. (m * 0 + i) % m = i
      BY <3>1, DivUnique
    <3> QED BY <2>2, <3>1, <3>2
  <2> QED BY <2>1, <2>2
<1>2. \A i \in 1 .. m : Plan!Ring(m)[i] = IF i = m THEN 1 ELSE i + 1
    BY <1>1 DEF Plan!Ring
<1>3. Plan!Ring(m) \in [1 .. m -> 1 .. m]
    BY <1>1 DEF Plan!Ring
<1>4. \A i, j \in 1 .. m : Plan!Ring(m)[i] = Plan!Ring(m)[j] => i = j
    BY <1>2
<1>5. \A i \in 1 .. m : Plan!Ring(m)[i] # i
    BY <1>2
<1> QED BY <1>3, <1>4, <1>5 DEF Plan!Turns, Plan!Deranged, Plan!Permuted

LEMMA NoRows == ASSUME rows' = <<>>, mixed' = 0 PROVE RowsInv'
<1>1. Wallets \in Nat \ {0} /\ MaxLoops \in Nat
    BY Plan!PlanAssumption DEF Plan!PlanAssumption
<1>2. <<>> \in Seq(Plan!Row) /\ Len(<<>>) = 0
    OBVIOUS
<1> QED BY <1>1, <1>2 DEF RowsInv, Turned

LEMMA RowsInit == ASSUME Plan!Init PROVE RowsInv
<1>1. Wallets \in Nat \ {0} /\ MaxLoops \in Nat
    BY Plan!PlanAssumption DEF Plan!PlanAssumption
<1>2. <<>> \in Seq(Plan!Row) /\ Len(<<>>) = 0
    OBVIOUS
<1> QED BY <1>1, <1>2 DEF Plan!Init, RowsInv, Turned

LEMMA RowsSame == ASSUME RowsInv, UNCHANGED <<rows, mixed>> PROVE RowsInv'
BY DEF RowsInv, Turned

LEMMA SignedRows ==
    ASSUME NEW list \in Seq(Plan!Recipient), NEW m \in 1 .. Wallets
    PROVE  /\ Plan!Signed(list, m) \in Seq(Plan!Row) /\ Len(Plan!Signed(list, m)) = Len(list)
           /\ \A k \in 1 .. Len(list) :
                /\ Plan!Signed(list, m)[k].signer = ((k - 1) % m) + 1
                /\ Plan!Signed(list, m)[k].to = list[k].to
<1>1. Wallets \in Nat \ {0} /\ m \in Nat \ {0}
    BY Plan!PlanAssumption DEF Plan!PlanAssumption
<1>2. /\ Len(list) \in Nat /\ DOMAIN list = 1 .. Len(list)
      /\ \A k \in 1 .. Len(list) : list[k].to \in 0 .. Wallets /\ list[k].amount \in Nat
    BY AmountsAre DEF Plan!Recipient
<1>3. \A k \in 1 .. Len(list) : ((k - 1) % m) + 1 \in 1 .. Wallets
  <2> TAKE k \in 1 .. Len(list)
  <2>1. k - 1 \in Nat
    BY <1>2
  <2>2. (k - 1) % m \in 0 .. m - 1
    BY <1>1, <2>1, DivMod
  <2> QED BY <1>1, <2>2
<1>4. Plan!Signed(list, m) =
        [k \in 1 .. Len(list) |->
            [to |-> list[k].to, amount |-> list[k].amount, signer |-> ((k - 1) % m) + 1]]
    BY <1>2 DEF Plan!Signed
<1>5. \A k \in 1 .. Len(list) :
         [to |-> list[k].to, amount |-> list[k].amount, signer |-> ((k - 1) % m) + 1] \in Plan!Row
    BY <1>2, <1>3 DEF Plan!Row
<1>6. Plan!Signed(list, m) \in Seq(Plan!Row) /\ Len(Plan!Signed(list, m)) = Len(list)
    BY <1>2, <1>4, <1>5
<1>7. \A k \in 1 .. Len(list) : Plan!Signed(list, m)[k].signer = ((k - 1) % m) + 1
                                /\ Plan!Signed(list, m)[k].to = list[k].to
    BY <1>4
<1> QED BY <1>6, <1>7

LEMMA CreateFromPageRows ==
    ASSUME page \in Seq(Plan!Recipient), Plan!CreateFromPage
    PROVE  RowsInv'
<1>1. PICK m \in 1 .. Wallets : rows' = Plan!Signed(page, m) /\ mixed' = 0
    BY DEF Plan!CreateFromPage, Plan!Create
<1>2. Turned(m)'
    BY <1>1, SignedRows DEF Turned
<1>3. MaxLoops \in Nat /\ rows' \in Seq(Plan!Row)
    BY <1>1, SignedRows, Plan!PlanAssumption DEF Plan!PlanAssumption
<1> QED BY <1>1, <1>2, <1>3 DEF RowsInv

LEMMA CreateMixRows == ASSUME Plan!CreateMix PROVE RowsInv'
<1>1. Wallets \in Nat \ {0} /\ MaxLoops \in Nat /\ Ranges \subseteq Nat \X Nat
    BY Plan!PlanAssumption DEF Plan!PlanAssumption
<1>2. PICK m \in 2 .. Wallets, loops \in 1 .. MaxLoops, limits \in Ranges :
         \E turns \in [1 .. loops -> Plan!Turns(m)],
            amounts \in [1 .. m * loops -> Plan!Drawn(limits)] :
            Plan!Create(Plan!Signed([k \in 1 .. m * loops |->
                              [to |-> turns[((k - 1) \div m) + 1][((k - 1) % m) + 1],
                               amount |-> amounts[k]]], m), loops)
    BY DEF Plan!CreateMix
<1>3. PICK turns \in [1 .. loops -> Plan!Turns(m)], amounts \in [1 .. m * loops -> Plan!Drawn(limits)] :
            Plan!Create(Plan!Signed([k \in 1 .. m * loops |->
                              [to |-> turns[((k - 1) \div m) + 1][((k - 1) % m) + 1],
                               amount |-> amounts[k]]], m), loops)
    BY <1>2
<1> DEFINE to(k) == turns[((k - 1) \div m) + 1][((k - 1) % m) + 1]
           list == [k \in 1 .. m * loops |-> [to |-> to(k), amount |-> amounts[k]]]
<1>4. m \in Nat \ {0} /\ m > 1 /\ m \in 1 .. Wallets /\ loops \in Nat \ {0} /\ m * loops \in Nat
    BY <1>1
<1>5. rows' = Plan!Signed(list, m) /\ mixed' = loops
    BY <1>3 DEF Plan!Create
<1>6. turns \in [1 .. loops -> Plan!Deranged(m)]
    BY <1>4, RingDeranges
<1>7. ASSUME NEW k \in 1 .. m * loops
      PROVE  [to |-> to(k), amount |-> amounts[k]] \in Plan!Recipient
  <2>1. (k - 1) \div m + 1 \in 1 .. loops /\ ((k - 1) % m) + 1 \in 1 .. m
    BY <1>4, PlaceIs
  <2>2. turns[(k - 1) \div m + 1] \in [1 .. m -> 1 .. m]
    BY <1>6, <2>1 DEF Plan!Deranged, Plan!Permuted
  <2>3. to(k) \in 1 .. m
    BY <2>1, <2>2
  <2>4. amounts[k] \in Nat
    BY <1>1, DrawnNear
  <2> HIDE DEF to
  <2> QED BY <1>1, <1>4, <2>3, <2>4 DEF Plan!Recipient
<1>8. list \in Seq(Plan!Recipient) /\ Len(list) = m * loops
    BY <1>4, <1>7
<1>9. \A k \in 1 .. m * loops : list[k].to = to(k)
    OBVIOUS
<1> HIDE DEF list
<1>10. /\ rows' \in Seq(Plan!Row) /\ Len(rows') = m * loops
       /\ \A k \in 1 .. m * loops : rows'[k].signer = ((k - 1) % m) + 1 /\ rows'[k].to = to(k)
    BY <1>4, <1>5, <1>8, <1>9, SignedRows
<1>11. Turned(m)'
    BY <1>4, <1>5, <1>6, <1>10 DEF Turned
<1> QED BY <1>1, <1>4, <1>5, <1>10, <1>11 DEF RowsInv

LEMMA CreateFromBatchRows == ASSUME Plan!CreateFromBatch PROVE RowsInv'
<1>1. Wallets \in Nat \ {0} /\ MaxLoops \in Nat /\ Ranges \subseteq Nat \X Nat /\ BatchSize \in Nat
    BY Plan!PlanAssumption DEF Plan!PlanAssumption
<1>2. PICK from \in 1 .. BatchSize : \E to \in from .. BatchSize :
       \E signers \in 1 .. Wallets, limits \in Ranges, uniform \in BOOLEAN :
       \E amounts \in [from .. to -> IF uniform THEN {limits[1]} ELSE Plan!Drawn(limits)] :
          Plan!Create([k \in 1 .. to - from + 1 |->
                    [to |-> 0, amount |-> amounts[from + k - 1],
                     signer |-> Plan!BatchSigner(from + k - 1, from, signers)]], 0)
    BY DEF Plan!CreateFromBatch
<1>3. PICK to \in from .. BatchSize :
       \E signers \in 1 .. Wallets, limits \in Ranges, uniform \in BOOLEAN :
       \E amounts \in [from .. to -> IF uniform THEN {limits[1]} ELSE Plan!Drawn(limits)] :
          Plan!Create([k \in 1 .. to - from + 1 |->
                    [to |-> 0, amount |-> amounts[from + k - 1],
                     signer |-> Plan!BatchSigner(from + k - 1, from, signers)]], 0)
    BY <1>2
<1>4. PICK m \in 1 .. Wallets, limits \in Ranges, uniform \in BOOLEAN :
       \E amounts \in [from .. to -> IF uniform THEN {limits[1]} ELSE Plan!Drawn(limits)] :
          Plan!Create([k \in 1 .. to - from + 1 |->
                    [to |-> 0, amount |-> amounts[from + k - 1],
                     signer |-> Plan!BatchSigner(from + k - 1, from, m)]], 0)
    BY <1>3
<1>5. PICK amounts \in [from .. to -> IF uniform THEN {limits[1]} ELSE Plan!Drawn(limits)] :
          Plan!Create([k \in 1 .. to - from + 1 |->
                    [to |-> 0, amount |-> amounts[from + k - 1],
                     signer |-> Plan!BatchSigner(from + k - 1, from, m)]], 0)
    BY <1>4
<1> DEFINE n == to - from + 1
           row(k) == [to |-> 0, amount |-> amounts[from + k - 1],
                      signer |-> Plan!BatchSigner(from + k - 1, from, m)]
<1>6. n \in Nat /\ from \in Nat /\ m \in Nat \ {0}
    BY <1>1
<1>7. rows' = [k \in 1 .. n |-> row(k)] /\ mixed' = 0
    BY <1>5 DEF Plan!Create
<1>8. ASSUME NEW k \in 1 .. n PROVE row(k) \in Plan!Row /\ row(k).signer = ((k - 1) % m) + 1
  <2>1. from + k - 1 \in from .. to /\ from + k - 1 - from = k - 1 /\ k - 1 \in Nat
    BY <1>1, <1>6
  <2>2. amounts[from + k - 1] \in Nat
    BY <1>1, <2>1, DrawnNear
  <2>3. Plan!BatchSigner(from + k - 1, from, m) = ((k - 1) % m) + 1
    BY <2>1 DEF Plan!BatchSigner
  <2>4. (k - 1) % m \in 0 .. m - 1
    BY <1>6, <2>1, DivMod
  <2>5. ((k - 1) % m) + 1 \in 1 .. Wallets
    BY <1>1, <2>4
  <2> QED BY <1>1, <2>2, <2>3, <2>5 DEF Plan!Row
<1> HIDE DEF n, row
<1>9. /\ rows' \in Seq(Plan!Row) /\ Len(rows') = n
      /\ \A k \in 1 .. n : rows'[k].signer = ((k - 1) % m) + 1
    BY <1>6, <1>7, <1>8
<1>10. Turned(m)'
    BY <1>6, <1>7, <1>9 DEF Turned
<1> QED BY <1>1, <1>7, <1>9, <1>10 DEF RowsInv

\* A signer in turn signs the whole rounds, and one row more or not.
LEMMA RoundsShared ==
    ASSUME RowsInv, NEW m \in 1 .. Wallets, Turned(m), NEW s \in 1 .. m
    PROVE  /\ Plan!SignerRows(s) \in Len(rows) \div m .. Len(rows) \div m + 1
           /\ \A c \in Nat : Len(rows) = m * c => Plan!SignerRows(s) = c
<1> DEFINE n == Len(rows)
           q == n \div m
           at(c) == [l \in 1 .. c |-> s]
           K(c) == {k \in 1 .. m * c : ((k - 1) % m) + 1 = at(c)[(k - 1) \div m + 1]}
           S == {k \in 1 .. n : ((k - 1) % m) + 1 = s}
<1>1. n \in Nat /\ m \in Nat \ {0} /\ DOMAIN rows = 1 .. n
    BY Plan!PlanAssumption, LenProperties DEF Plan!PlanAssumption, RowsInv
<1>2. Plan!SignerRows(s) = Cardinality(S)
  <2>1. {k \in DOMAIN rows : rows[k].signer = s} = S
    BY <1>1 DEF Turned
  <2> QED BY <2>1, CardinalityIs DEF Plan!SignerRows
<1>3. ASSUME NEW c \in Nat PROVE IsFiniteSet(K(c)) /\ Cardinality(K(c)) = c
  <2>1. at(c) \in [1 .. c -> 1 .. m]
    OBVIOUS
  <2> HIDE DEF at
  <2> QED BY <1>1, <2>1, BlockCount
<1>4. ASSUME NEW c \in Nat PROVE K(c) = {k \in 1 .. m * c : ((k - 1) % m) + 1 = s}
  <2>1. \A k \in 1 .. m * c : at(c)[(k - 1) \div m + 1] = s
    BY <1>1, PlaceIs
  <2> HIDE DEF at
  <2> QED BY <2>1
<1>5. q \in Nat /\ m * q <= n /\ n < m * q + m
    BY <1>1, DivMod, DivBounds
<1> HIDE DEF K, q
<1>6. m * (q + 1) = m * q + m /\ m * q \in Nat
    BY <1>1, <1>5
<1>7. K(q) \subseteq S /\ S \subseteq K(q + 1)
  <2>1. K(q) = {k \in 1 .. m * q : ((k - 1) % m) + 1 = s}
    BY <1>4, <1>5
  <2>2. K(q + 1) = {k \in 1 .. m * (q + 1) : ((k - 1) % m) + 1 = s}
    BY <1>4, <1>5
  <2>3. 1 .. m * q \subseteq 1 .. n /\ 1 .. n \subseteq 1 .. m * (q + 1)
    BY <1>1, <1>5, <1>6
  <2> QED BY <2>1, <2>2, <2>3
<1>8. Cardinality(S) \in Nat /\ q <= Cardinality(S) /\ Cardinality(S) <= q + 1
  <2>1. IsFiniteSet(K(q)) /\ Cardinality(K(q)) = q
    BY <1>3, <1>5
  <2>2. IsFiniteSet(K(q + 1)) /\ Cardinality(K(q + 1)) = q + 1
    BY <1>3, <1>5
  <2>3. IsFiniteSet(S) /\ Cardinality(S) <= q + 1
    BY <1>7, <2>2, FS_Subset
  <2>4. q <= Cardinality(S)
    BY <1>7, <2>1, <2>3, FS_Subset
  <2>5. Cardinality(S) \in Nat
    BY <2>3, FS_CardinalityType
  <2> QED BY <2>3, <2>4, <2>5
<1>9. ASSUME NEW c \in Nat, n = m * c PROVE Cardinality(S) = c
  <2>1. S = K(c)
    BY <1>4, <1>9
  <2> QED BY <1>3, <2>1
<1> QED BY <1>2, <1>5, <1>8, <1>9 DEF q

LEMMA RowsShared == ASSUME RowsInv PROVE Plan!RowsAreShared
<1>1. PICK m \in 1 .. Wallets : Turned(m)
    BY DEF RowsInv
<1> DEFINE n == Len(rows)
<1>2. n \in Nat /\ m \in Nat \ {0} /\ DOMAIN rows = 1 .. n /\ mixed \in Nat
    BY Plan!PlanAssumption, LenProperties DEF Plan!PlanAssumption, RowsInv
<1>3. \A k \in 1 .. n : ((k - 1) % m) + 1 \in 1 .. m
  <2> TAKE k \in 1 .. n
  <2>1. k - 1 \in Nat
    BY <1>2
  <2>2. (k - 1) % m \in 0 .. m - 1
    BY <1>2, <2>1, DivMod
  <2> QED BY <1>2, <2>2
<1>4. Plan!UsedSigners \subseteq 1 .. m
    BY <1>1, <1>2, <1>3 DEF Plan!UsedSigners, Turned
<1>5. ASSUME NEW s \in Plan!UsedSigners, NEW t \in Plan!UsedSigners
      PROVE  Plan!SignerRows(s) <= Plan!SignerRows(t) + 1
  <2>1. n \div m \in Nat
    BY <1>2, DivMod
  <2>2. /\ Plan!SignerRows(s) \in n \div m .. n \div m + 1
        /\ Plan!SignerRows(t) \in n \div m .. n \div m + 1
    BY <1>1, <1>4, RoundsShared
  <2> QED BY <2>1, <2>2
<1>6. ASSUME mixed > 0
      PROVE  /\ \A k \in DOMAIN rows : rows[k].to # rows[k].signer
             /\ \A s \in Plan!UsedSigners :
                  /\ Plan!SignerRows(s) = mixed
                  /\ Cardinality({k \in DOMAIN rows : rows[k].to = s}) = mixed
  <2>1. n = m * mixed
    BY <1>1, <1>6 DEF Turned
  <2>2. PICK turns \in [1 .. mixed -> Plan!Deranged(m)] :
           \A k \in 1 .. n : rows[k].to = turns[(k - 1) \div m + 1][((k - 1) % m) + 1]
    BY <1>1, <1>6 DEF Turned
  <2>3. \A k \in 1 .. n : (k - 1) \div m + 1 \in 1 .. mixed
    BY <1>2, <2>1, PlaceIs
  <2>4. \A k \in DOMAIN rows : rows[k].to # rows[k].signer
    <3> TAKE k \in DOMAIN rows
    <3>1. turns[(k - 1) \div m + 1][((k - 1) % m) + 1] # ((k - 1) % m) + 1
      BY <1>2, <1>3, <2>3 DEF Plan!Deranged
    <3> QED BY <1>1, <1>2, <2>2, <3>1 DEF Turned
  <2>5. ASSUME NEW s \in Plan!UsedSigners PROVE Plan!SignerRows(s) = mixed
    BY <1>1, <1>2, <1>4, <2>1, RoundsShared
  <2>6. ASSUME NEW s \in Plan!UsedSigners
        PROVE  Cardinality({k \in DOMAIN rows : rows[k].to = s}) = mixed
    <3> DEFINE at == [l \in 1 .. mixed |-> CHOOSE i \in 1 .. m : turns[l][i] = s]
               K == {k \in 1 .. m * mixed : ((k - 1) % m) + 1 = at[(k - 1) \div m + 1]}
    <3>1. \A l \in 1 .. mixed : at[l] \in 1 .. m /\ turns[l][at[l]] = s
      <4> TAKE l \in 1 .. mixed
      <4>1. turns[l] \in Plan!Permuted(m) /\ s \in 1 .. m
        BY <1>4 DEF Plan!Deranged
      <4>2. \E i \in 1 .. m : turns[l][i] = s
        BY <1>2, <4>1, PermutedOnto
      <4> QED BY <4>2
    <3>2. at \in [1 .. mixed -> 1 .. m]
      BY <3>1
    <3>3. \A l \in 1 .. mixed : \A i \in 1 .. m : turns[l][i] = s <=> i = at[l]
      <4> TAKE l \in 1 .. mixed
      <4> TAKE i \in 1 .. m
      <4>1. turns[l] \in Plan!Permuted(m)
        BY DEF Plan!Deranged
      <4> HIDE DEF at
      <4> QED BY <3>1, <4>1 DEF Plan!Permuted
    <3> HIDE DEF at
    <3>4. IsFiniteSet(K) /\ Cardinality(K) = mixed
      BY <1>2, <3>2, BlockCount
    <3>5. {k \in DOMAIN rows : rows[k].to = s} = K
      <4>1. \A k \in 1 .. n : rows[k].to = s <=> ((k - 1) % m) + 1 = at[(k - 1) \div m + 1]
        BY <1>3, <2>2, <2>3, <3>3
      <4> QED BY <1>2, <2>1, <4>1
    <3> QED BY <3>4, <3>5
  <2> QED BY <2>4, <2>5, <2>6
<1> QED BY <1>5, <1>6, CardinalityIs DEF Plan!RowsAreShared

-----------------------------------------------------------------------------
(* What is kept of a list and of a job made of it.                          *)

PlanInv == ListInv /\ RowsInv

LEMMA PlanStep == ASSUME PlanInv, [Plan!Next]_plan PROVE PlanInv'
<1>1. ListInv /\ RowsInv /\ page \in Seq(Plan!Recipient)
    BY DEF PlanInv, ListInv
<1>2. CASE UNCHANGED plan
    BY <1>1, <1>2, ListSame, RowsSame DEF PlanInv, plan
<1>3. CASE Plan!CreateMix
  <2>1. UNCHANGED <<page, made, gen>>
    BY <1>3 DEF Plan!CreateMix, Plan!Create
  <2> QED BY <1>1, <1>3, <2>1, ListSame, CreateMixRows DEF PlanInv
<1>4. CASE Plan!Airdrop
  <2>1. CASE \E form \in Forms : Plan!Generate(form)
    <3>1. PICK form \in Forms : Plan!Generate(form)
      BY <2>1
    <3>2. rows' = <<>> /\ mixed' = 0
      BY <3>1 DEF Plan!Generate
    <3> QED BY <1>1, <3>1, <3>2, GenerateList, NoRows DEF PlanInv
  <2>2. CASE Plan!AnswerEven
    <3>1. UNCHANGED <<rows, mixed>>
      BY <2>2 DEF Plan!AnswerEven
    <3> QED BY <1>1, <2>2, <3>1, AnswerEvenList, RowsSame DEF PlanInv
  <2>3. CASE Plan!BeginSplit
    <3>1. UNCHANGED <<rows, mixed>>
      BY <2>3 DEF Plan!BeginSplit
    <3> QED BY <1>1, <2>3, <3>1, BeginSplitList, RowsSame DEF PlanInv
  <2>4. CASE Plan!DrawPart
    <3>1. UNCHANGED <<rows, mixed>>
      BY <2>4 DEF Plan!DrawPart
    <3> QED BY <1>1, <2>4, <3>1, DrawPartList, RowsSame DEF PlanInv
  <2>5. CASE Plan!EndSplit
    <3>1. UNCHANGED <<rows, mixed>>
      BY <2>5 DEF Plan!EndSplit
    <3> QED BY <1>1, <2>5, <3>1, EndSplitList, RowsSame DEF PlanInv
  <2>6. CASE Plan!AnswerRange
    <3>1. UNCHANGED <<rows, mixed>>
      BY <2>6 DEF Plan!AnswerRange
    <3> QED BY <1>1, <2>6, <3>1, AnswerRangeList, RowsSame DEF PlanInv
  <2>7. CASE Plan!RequestFails
    <3>1. UNCHANGED <<rows, mixed, page, made>> /\ gen' = Nothing
      BY <2>7 DEF Plan!RequestFails
    <3>2. ListInv'
      BY <1>1, <3>1 DEF ListInv, GenFits, PageFits
    <3> QED BY <1>1, <3>1, <3>2, RowsSame DEF PlanInv
  <2>8. CASE Plan!ShowList
    <3>1. UNCHANGED <<rows, mixed>>
      BY <2>8 DEF Plan!ShowList
    <3> QED BY <1>1, <2>8, <3>1, ShowListList, RowsSame DEF PlanInv
  <2>9. ASSUME NEW list \in Seq(Plan!Recipient), Plan!Edit(list) PROVE PlanInv'
    <3>1. rows' = <<>> /\ mixed' = 0
      BY <2>9 DEF Plan!Edit
    <3> QED BY <1>1, <2>9, <3>1, EditList, NoRows DEF PlanInv
  <2>10. CASE Plan!ImportCsv
    <3>1. PICK list \in Imports : Plan!Edit(list)
      BY <2>10 DEF Plan!ImportCsv
    <3>2. list \in Seq(Plan!Recipient)
      BY Plan!PlanAssumption DEF Plan!PlanAssumption
    <3> QED BY <2>9, <3>1, <3>2
  <2>11. CASE Plan!RemoveRecipient
    <3>1. PICK i \in DOMAIN page : Plan!Edit(Plan!RemoveAt(page, i))
      BY <2>11 DEF Plan!RemoveRecipient
    <3>2. Plan!RemoveAt(page, i) \in Seq(Plan!Recipient)
      BY <1>1 DEF Plan!RemoveAt
    <3> QED BY <2>9, <3>1, <3>2
  <2>12. CASE Plan!CreateFromPage
    <3>1. UNCHANGED <<page, made, gen>>
      BY <2>12 DEF Plan!CreateFromPage, Plan!Create
    <3> QED BY <1>1, <2>12, <3>1, ListSame, CreateFromPageRows DEF PlanInv
  <2>13. CASE Plan!CreateFromBatch
    <3>1. UNCHANGED <<page, made, gen>>
      BY <2>13 DEF Plan!CreateFromBatch, Plan!Create
    <3> QED BY <1>1, <2>13, <3>1, ListSame, CreateFromBatchRows DEF PlanInv
  <2> QED BY <1>4, <2>1, <2>2, <2>3, <2>4, <2>5, <2>6, <2>7, <2>8, <2>10, <2>11, <2>12, <2>13
          DEF Plan!Airdrop
<1> QED BY <1>2, <1>3, <1>4 DEF Plan!Next

\* A step of the pages is one of the lists, or leaves them alone.
LEMMA PagesPlan == ASSUME [PagesNext]_pages PROVE [Plan!Next]_plan
BY DEF PagesNext, PlanNext, ConsoleNext, pages, Plan!Next

\* The lists and the rows are as their invariant says, whatever the console does.
THEOREM PlanIsKept == PagesSpec => []PlanInv
<1>1. PagesInit => PlanInv
    BY ListInit, RowsInit DEF PagesInit, PlanInv
<1>2. PlanInv /\ [PagesNext]_pages => PlanInv'
    BY PlanStep, PagesPlan
<1> QED BY <1>1, <1>2, PTL DEF PagesSpec

\* What the transfers of a list move is as near its total as rounding allows.
LEMMA MovedNear ==
    ASSUME NEW list \in Seq(Plan!Recipient)
    PROVE  2 * Plan!Distance(Plan!Sum([i \in DOMAIN list |-> Plan!Paid(list[i].amount)]),
                             Plan!Sum(Plan!AmountsOf(list)))
               <= Len(list) * Unit
<1> DEFINE s == Plan!AmountsOf(list)
           p == [i \in DOMAIN list |-> Plan!Paid(list[i].amount)]
<1>1. Unit \in Nat \ {0}
    BY Plan!PlanAssumption DEF Plan!PlanAssumption
<1>2. /\ s \in Seq(Nat) /\ Len(s) = Len(list) /\ Len(list) \in Nat /\ DOMAIN list = 1 .. Len(list)
      /\ \A i \in 1 .. Len(list) : list[i].amount \in Nat /\ s[i] = list[i].amount
    BY AmountsAre
<1>3. \A i \in 1 .. Len(list) :
         Plan!Paid(list[i].amount) \in Nat
         /\ 2 * Plan!Distance(Plan!Paid(list[i].amount), list[i].amount) <= Unit
    BY <1>1, <1>2, PaidNear
<1>4. p = [i \in 1 .. Len(list) |-> Plan!Paid(list[i].amount)]
    BY <1>2
<1>5. p \in Seq(Nat) /\ Len(p) = Len(list) /\ \A i \in 1 .. Len(list) : p[i] = Plan!Paid(list[i].amount)
    BY <1>2, <1>3, <1>4
<1>6. \A i \in 1 .. Len(s) : 2 * Plan!Distance(p[i], s[i]) <= Unit
  <2> HIDE DEF p, s
  <2> QED BY <1>2, <1>3, <1>5
<1> HIDE DEF p, s
<1>7. 2 * Plan!Distance(Plan!Sum(p), Plan!Sum(s)) <= Len(s) * Unit
    BY <1>1, <1>2, <1>5, <1>6, SumsNear
<1> QED BY <1>2, <1>7 DEF p, s

LEMMA ListsTotal == ASSUME ListInv PROVE ListKeepsTotal
<1> SUFFICES ASSUME made # Nothing, made.fixed
             PROVE  /\ Len(page) = made.count
                    /\ Plan!Sum(Plan!AmountsOf(page)) = made.total
                    /\ 2 * Plan!Distance(Plan!Sum([i \in DOMAIN page |-> Plan!Paid(page[i].amount)]), made.total)
                           <= made.count * Unit
    BY DEF ListKeepsTotal, Plan!ListKeepsTotal
<1>1. page \in Seq(Plan!Recipient) /\ Len(page) = made.count
      /\ Plan!Sum(Plan!AmountsOf(page)) = made.total
    BY DEF ListInv, PageFits
<1>2. 2 * Plan!Distance(Plan!Sum([i \in DOMAIN page |-> Plan!Paid(page[i].amount)]),
                        Plan!Sum(Plan!AmountsOf(page)))
          <= Len(page) * Unit
    BY <1>1, MovedNear
<1> QED BY <1>1, <1>2

LEMMA SplitsEnd == ASSUME ListInv PROVE SplitNeverGivesUp
<1> SUFFICES ASSUME gen # Nothing, gen.split # Nothing
             PROVE  /\ \A i \in DOMAIN gen.split :
                          gen.split[i] \in Plan!Least(gen.form) .. Plan!Greatest(gen.form)
                    /\ IF Plan!After > 0 THEN Plan!Low <= Plan!High ELSE Plan!LastFits
    BY DEF SplitNeverGivesUp, Plan!SplitNeverGivesUp, Plan!Splitting, Plan!Asked
<1>1. /\ gen.split \in Seq(Nat) /\ SplitFits
      /\ gen.form.count - Len(gen.split) \in Nat \ {0}
      /\ Plan!After = gen.form.count - Len(gen.split) - 1
    BY SplitTypes
<1>2. DOMAIN gen.split = 1 .. Len(gen.split)
    BY <1>1, LenProperties
<1>3. \A i \in DOMAIN gen.split : gen.split[i] \in Plan!Least(gen.form) .. Plan!Greatest(gen.form)
    BY <1>1, <1>2 DEF SplitFits
<1>4. Plan!Low <= Plan!High /\ (gen.form.count - Len(gen.split) = 1 => Plan!LastFits)
    BY BoundsMeet
<1> QED BY <1>1, <1>3, <1>4

LEMMA DrawsNear == ASSUME ListInv PROVE DrawnNearRange
<1>1. page \in Seq(Plan!Recipient) /\ DOMAIN page = 1 .. Len(page)
    BY LenProperties DEF ListInv
<1> QED BY <1>1 DEF ListInv, PageFits, Near, DrawnNearRange, Plan!DrawnNearRange

\* Whatever the size of the requests, a list made from a total is whole and sums to it.
THEOREM ListsKeepTotals == PagesSpec => []ListKeepsTotal
<1>1. PlanInv => ListKeepsTotal
    BY ListsTotal DEF PlanInv
<1> QED BY <1>1, PlanIsKept, PTL

\* No random split that was begun is given up, for any total and any number of recipients.
THEOREM SplitsNeverGiveUp == PagesSpec => []SplitNeverGivesUp
<1>1. PlanInv => SplitNeverGivesUp
    BY SplitsEnd DEF PlanInv
<1> QED BY <1>1, PlanIsKept, PTL

\* An amount drawn from a range is never above it, and below it by less than the last decimal shown.
THEOREM DrawsNearRange == PagesSpec => []DrawnNearRange
<1>1. PlanInv => DrawnNearRange
    BY DrawsNear DEF PlanInv
<1> QED BY <1>1, PlanIsKept, PTL

\* The signers of a job share its rows, and a rotation pays every wallet once per loop.
THEOREM RowsStayShared == PagesSpec => []RowsAreShared
<1>1. PlanInv => RowsAreShared
    BY RowsShared DEF PlanInv, RowsAreShared
<1> QED BY <1>1, PlanIsKept, PTL

\* Lists and rows keep what is said of them also when they are worked on at any
\* time, whatever else was done on the page.
THEOREM ListsAlone ==
    Plan!Spec => [](ListKeepsTotal /\ SplitNeverGivesUp /\ DrawnNearRange /\ RowsAreShared)
<1>1. Plan!Init => PlanInv
    BY ListInit, RowsInit DEF PlanInv
<1>2. PlanInv /\ [Plan!Next]_(Plan!vars) => PlanInv'
    BY PlanStep DEF Plan!vars, plan
<1>3. PlanInv => ListKeepsTotal /\ SplitNeverGivesUp /\ DrawnNearRange /\ RowsAreShared
    BY ListsTotal, SplitsEnd, DrawsNear, RowsShared DEF PlanInv, RowsAreShared
<1> QED BY <1>1, <1>2, <1>3, PTL DEF Plan!Spec

-----------------------------------------------------------------------------
(* The console: the shape of its handlers.                                  *)

StoreOps == {"add", "import", "register", "derive", "drop"}

\* The requests of a handler still to be answered.
Reqs(l) == IF Idle(l) THEN {} ELSE {call[l].todo[i] : i \in DOMAIN call[l].todo}

\* What answers a request.
Fits(r, v) ==
    /\ r.op = "verify" => v \in Accounts
    /\ r.op = "list" => v \in Seq(AllWallets)
    /\ r.op \in {"job", "start"} => v \in Shown /\ v.job = r.arg
    /\ r.op = "create" => v \in Shown
    /\ r.op = "rows" => v = r.arg

\* A verification and a change of the list go on to ask for the list; jobs are
\* created and started by hand; rows are asked for on the page of a job.
Shaped(l, c) ==
    LET t == c.todo IN
    /\ Len(t) > 0
    /\ \A i \in 1 .. Len(t) :
        /\ t[i].op = "verify" => i = 1 /\ c.kind = "verify" /\ Len(t) > 1 /\ t[2].op = "list"
        /\ t[i].op \in StoreOps => t[Len(t)].op = "list"
        /\ t[i].op \in {"import", "register"} => IsFiniteSet(t[i].arg)
        /\ t[i].op = "create" => l = "hand" /\ Len(t) = 1
        /\ t[i].op = "start" => l = "hand"
        /\ t[i].op = "rows" => view = "detail"
    /\ c.got # Nothing /\ c.got.fine => Fits(t[1], c.got.value)

CallsFit ==
    /\ call \in [Lines -> Calls \cup {Nothing}]
    /\ \A l \in Lines : ~Idle(l) => Shaped(l, call[l])

StateFits ==
    /\ view \in Suite \cup {"mix", "detail"}
    /\ account \in Accounts \cup {Nothing} /\ session \in Accounts \cup {Nothing} /\ expired \in BOOLEAN
    /\ wallets \in Seq(AllWallets)
    /\ shown \in Shown \cup {Nothing} /\ rowPage \in {1, 2}
    /\ asked \in Jobs \cup {Nothing} /\ (view = "detail" => asked \in Jobs)
    /\ listed \in [Owners -> Seq(AllWallets)]
    /\ job \in [Jobs -> [owner : Owners, status : Statuses, loop : BOOLEAN] \cup {NoJob}]

Target == IF session \in Owners THEN listed[session] ELSE <<>>

Clean == crossed \cap {"session", "store"} = {} /\ view # "detail"

\* A list on its way is of the session, and is what the server stores.
ListsFit ==
    Clean =>
        /\ \A l \in Lines : "list" \in Ops(l) /\ "verify" \notin Ops(l) => call[l].as = session
        /\ \A l \in Lines :
            Arrived(l, {"list"}) => call[l].as \in Owners /\ Value(l) = listed[call[l].as]
        /\ Quiet({"verify", "list"}) /\ ~unshown => wallets = Target

\* A job asked for or started is the one the page was last told to show.
JobsFit ==
    "job" \notin crossed =>
        /\ shown # Nothing => shown.job = asked
        /\ \A l \in Lines : \A r \in Reqs(l) : r.op \in {"job", "start"} => r.arg = asked

\* A line on which nothing but rows is asked for.
RowsLine(l) == ~Idle(l) /\ Len(call[l].todo) = 1 /\ call[l].todo[1].op = "rows"

\* Rows asked for are of the page chosen; other rows stay shown only while
\* those of the page chosen are on their way.
RowsFit ==
    "rows" \notin crossed =>
        /\ \A l \in Lines : \A r \in Reqs(l) : r.op = "rows" => r.arg = rowPage
        /\ rowsOf \in {Nothing, rowPage} \/ \E l \in Lines : RowsLine(l)

\* What the lines carry and what the page shows, from one step to the next.
ConsoleInv == StateFits /\ CallsFit /\ ListsFit /\ JobsFit /\ RowsFit

Kinds == {"restore", "rows", "verify", "wallets", "job", "refresh", "poll"}

LEMMA CallsAre ==
    ASSUME CallsFit, NEW l \in Lines, ~Idle(l)
    PROVE  /\ call[l] \in Calls /\ call[l].kind \in Kinds /\ call[l].as \in Accounts \cup {Nothing}
           /\ call[l].todo \in Seq(Requests) /\ Len(call[l].todo) \in Nat \ {0}
           /\ R(l) = call[l].todo[1] /\ R(l) \in Requests /\ R(l) \in Reqs(l)
           /\ call[l].got \in Answers \cup {Nothing}
           /\ Shaped(l, call[l])
<1>1. call[l] \in Calls /\ Shaped(l, call[l])
    BY DEF CallsFit, Idle
<1>2. call[l].kind \in Kinds /\ call[l].as \in Accounts \cup {Nothing}
      /\ call[l].todo \in Seq(Requests) /\ call[l].got \in Answers \cup {Nothing}
    BY <1>1 DEF Calls, Kinds
<1>3. Len(call[l].todo) \in Nat \ {0}
    BY <1>1, <1>2, LenProperties DEF Shaped
<1>4. R(l) = call[l].todo[1]
    BY <1>2, <1>3 DEF R
<1>5. R(l) \in Requests /\ R(l) \in Reqs(l)
  <2>1. DOMAIN call[l].todo = 1 .. Len(call[l].todo)
    BY <1>2, LenProperties
  <2> QED BY <1>2, <1>3, <1>4, <2>1, ElementOfSeq DEF Reqs
<1> QED BY <1>1, <1>2, <1>3, <1>4, <1>5

LEMMA OpsAre ==
    ASSUME NEW l
    PROVE  Ops(l) = {r.op : r \in Reqs(l)} /\ Ops(l)' = {r.op : r \in Reqs(l)'}
BY DEF Ops, Reqs

\* A line whose call stays keeps its requests.
LEMMA LineSame ==
    ASSUME NEW k, call'[k] = call[k]
    PROVE  /\ Reqs(k)' = Reqs(k) /\ Ops(k)' = Ops(k) /\ Idle(k)' = Idle(k) /\ R(k)' = R(k)
           /\ \A ops : Arrived(k, ops)' = Arrived(k, ops)
           /\ Value(k)' = Value(k)
BY DEF Reqs, Ops, Idle, R, Arrived, Value

LEMMA ShapedSame ==
    ASSUME view' = view, NEW l, NEW c, Shaped(l, c)
    PROVE  Shaped(l, c)'
BY DEF Shaped, Fits

\* A call changed on one line fits if it has the shape of one.
LEMMA CallsKept ==
    ASSUME CallsFit, view' = view, NEW l \in Lines, NEW c, call' = [call EXCEPT ![l] = c],
           c = Nothing \/ (c \in Calls /\ Shaped(l, c))
    PROVE  /\ CallsFit' /\ call'[l] = c
           /\ \A k \in Lines \ {l} : call'[k] = call[k]
<1>1. call'[l] = c /\ \A k \in Lines \ {l} : call'[k] = call[k]
    BY DEF CallsFit
<1>2. call' \in [Lines -> Calls \cup {Nothing}]
    BY DEF CallsFit
<1>3. ASSUME NEW k \in Lines, ~Idle(k)' PROVE Shaped(k, call[k])'
  <2>1. CASE k = l
    <3>1. Shaped(l, c)
      BY <1>1, <1>3, <2>1 DEF Idle
    <3> QED BY <1>1, <2>1, <3>1 DEF Shaped, Fits
  <2>2. CASE k # l
    <3>1. Shaped(k, call[k]) /\ call'[k] = call[k]
      BY <1>1, <1>3, <2>2 DEF Idle, CallsFit
    <3> QED BY <3>1 DEF Shaped, Fits
  <2> QED BY <2>1, <2>2
<1> QED BY <1>1, <1>2, <1>3 DEF CallsFit

LEMMA CallsSame == ASSUME CallsFit, view' = view, call' = call PROVE CallsFit'
BY DEF CallsFit, Shaped, Fits, Idle

\* A handler begins on a line that was idle.
LEMMA Sent ==
    ASSUME CallsFit, view' = view, session \in Accounts \cup {Nothing}, expired \in BOOLEAN, NEW l \in Lines,
           NEW kind \in Kinds, NEW todo \in Seq(Requests), Shaped(l, Begun(kind, session, expired, todo)),
           Send(l, kind, todo)
    PROVE  /\ CallsFit' /\ Idle(l) /\ ~Idle(l)'
           /\ call'[l].as = session /\ call'[l].got = Nothing /\ call'[l].todo = todo
           /\ Reqs(l)' = {todo[i] : i \in 1 .. Len(todo)}
           /\ \A k \in Lines \ {l} : call'[k] = call[k]
<1> DEFINE c == Begun(kind, session, expired, todo)
<1>1. c \in Calls /\ c.as = session /\ c.got = Nothing /\ c.todo = todo
    BY DEF Begun, Calls, Kinds
<1>2. call' = [call EXCEPT ![l] = c] /\ Idle(l)
    BY DEF Send
<1> HIDE DEF c
<1>3. /\ CallsFit' /\ call'[l] = c
      /\ \A k \in Lines \ {l} : call'[k] = call[k]
  <2>1. Shaped(l, c)
    BY DEF c
  <2> QED BY <1>1, <1>2, <2>1, CallsKept
<1>4. c # Nothing
    BY <1>1, NothingAssumption
<1>5. ~Idle(l)' /\ Reqs(l)' = {todo[i] : i \in 1 .. Len(todo)}
  <2>1. DOMAIN todo = 1 .. Len(todo)
    BY LenProperties
  <2> QED BY <1>1, <1>3, <1>4, <2>1 DEF Idle, Reqs
<1> QED BY <1>1, <1>2, <1>3, <1>5

\* A request is answered.
LEMMA AnswerGiven ==
    ASSUME CallsFit, view' = view, NEW l \in Lines, ~Idle(l), NEW fine \in BOOLEAN, NEW value \in Values,
           fine => Fits(R(l), value), Answer(l, fine, value)
    PROVE  /\ CallsFit' /\ ~Idle(l)'
           /\ call'[l].as = call[l].as /\ call'[l].todo = call[l].todo
           /\ call'[l].got = [fine |-> fine, value |-> value]
           /\ \A k \in Lines : Reqs(k)' = Reqs(k) /\ Ops(k)' = Ops(k)
           /\ \A k \in Lines \ {l} : call'[k] = call[k]
<1> DEFINE g == [fine |-> fine, value |-> value]
           c == [call[l] EXCEPT !.got = g]
<1>1. call[l] \in Calls /\ Shaped(l, call[l]) /\ R(l) = call[l].todo[1]
    BY CallsAre
<1>2. g \in Answers /\ g.fine = fine /\ g.value = value
    BY DEF Answers
<1> HIDE DEF g
<1>3. c \in Calls /\ c.as = call[l].as /\ c.todo = call[l].todo /\ c.kind = call[l].kind /\ c.got = g
    BY <1>1, <1>2 DEF Calls
<1>4. call' = [call EXCEPT ![l] = c]
    BY DEF Answer, g
<1> HIDE DEF c
<1>5. Shaped(l, c)
    BY <1>1, <1>2, <1>3 DEF Shaped
<1>6. /\ CallsFit' /\ call'[l] = c
      /\ \A k \in Lines \ {l} : call'[k] = call[k]
    BY <1>3, <1>4, <1>5, CallsKept
<1>7. c # Nothing
    BY <1>3, NothingAssumption
<1>8. ~Idle(l)'
    BY <1>6, <1>7 DEF Idle
<1>9. \A k \in Lines : Reqs(k)' = Reqs(k) /\ Ops(k)' = Ops(k)
  <2> TAKE k \in Lines
  <2>1. CASE k = l
    BY <1>3, <1>6, <1>8, <2>1 DEF Reqs, Ops
  <2>2. CASE k # l
    BY <1>6, <2>2, LineSame
  <2> QED BY <2>1, <2>2
<1> QED BY <1>3, <1>6, <1>8, <1>9 DEF g

\* What is left of a handler's requests when the first is done.
LEMMA TailShaped ==
    ASSUME CallsFit, NEW l \in Lines, ~Idle(l), Len(call[l].todo) > 1,
           NEW c \in Calls, c.kind = call[l].kind, c.todo = Tail(call[l].todo), c.got = Nothing
    PROVE  /\ Shaped(l, c)
           /\ {c.todo[i] : i \in 1 .. Len(c.todo)} \subseteq Reqs(l)
           /\ Reqs(l) \subseteq {c.todo[i] : i \in 1 .. Len(c.todo)} \cup {R(l)}
<1> DEFINE t == call[l].todo
           u == Tail(t)
<1>1. /\ t \in Seq(Requests) /\ Len(t) \in Nat /\ Len(t) > 1 /\ t # <<>>
      /\ Shaped(l, call[l]) /\ R(l) = t[1] /\ Reqs(l) = {t[i] : i \in 1 .. Len(t)}
    BY CallsAre, LenProperties DEF Reqs
<1>2. /\ u \in Seq(Requests) /\ Len(u) = Len(t) - 1
      /\ \A i \in 1 .. Len(u) : u[i] = t[i + 1]
    BY <1>1, HeadTailProperties
<1> HIDE DEF u
<1>3. c.todo = u
    BY DEF u
<1>4. \A i \in 1 .. Len(u) :
        /\ t[i + 1].op = "verify" => FALSE
        /\ t[i + 1].op \in StoreOps => t[Len(t)].op = "list"
        /\ t[i + 1].op \in {"import", "register"} => IsFiniteSet(t[i + 1].arg)
        /\ t[i + 1].op = "create" => FALSE
        /\ t[i + 1].op = "start" => l = "hand"
        /\ t[i + 1].op = "rows" => view = "detail"
  <2> TAKE i \in 1 .. Len(u)
  <2>1. i + 1 \in 1 .. Len(t) /\ i + 1 # 1
    BY <1>1, <1>2
  <2> QED BY <1>1, <2>1 DEF Shaped
<1>5. u[Len(u)] = t[Len(t)] /\ Len(u) > 0
  <2>1. Len(u) \in 1 .. Len(u) /\ Len(u) + 1 = Len(t)
    BY <1>1, <1>2
  <2> QED BY <1>2, <2>1
<1>6. Shaped(l, c)
    BY <1>2, <1>3, <1>4, <1>5 DEF Shaped
<1>7. {u[i] : i \in 1 .. Len(u)} \subseteq Reqs(l)
  <2>1. \A i \in 1 .. Len(u) : i + 1 \in 1 .. Len(t) /\ u[i] = t[i + 1]
    BY <1>1, <1>2
  <2> QED BY <1>1, <2>1
<1>8. Reqs(l) \subseteq {u[i] : i \in 1 .. Len(u)} \cup {R(l)}
  <2>1. ASSUME NEW i \in 1 .. Len(t), i # 1 PROVE t[i] \in {u[k] : k \in 1 .. Len(u)}
    <3>1. i - 1 \in 1 .. Len(u) /\ i - 1 + 1 = i
      BY <1>1, <1>2, <2>1
    <3>2. u[i - 1] = t[i]
      BY <1>2, <3>1
    <3> QED BY <3>1, <3>2
  <2> QED BY <1>1, <2>1
<1> QED BY <1>3, <1>6, <1>7, <1>8

\* A handler goes on to its next request, or ends.
LEMMA WentOn ==
    ASSUME CallsFit, view' = view, NEW l \in Lines, ~Idle(l), Next1(l)
    PROVE  /\ CallsFit'
           /\ Reqs(l)' \subseteq Reqs(l) /\ Reqs(l) \subseteq Reqs(l)' \cup {R(l)}
           /\ ~Idle(l)' => call'[l].as = call[l].as /\ call'[l].got = Nothing
           /\ Len(call[l].todo) = 1 => Idle(l)'
           /\ \A k \in Lines \ {l} : call'[k] = call[k]
<1> DEFINE n == Len(call[l].todo)
<1>1. call[l] \in Calls /\ n \in Nat \ {0} /\ call[l].todo \in Seq(Requests)
      /\ R(l) = call[l].todo[1]
    BY CallsAre
<1>2. CASE n = 1
  <2>1. call' = [call EXCEPT ![l] = Nothing]
    BY <1>2 DEF Next1
  <2>2. CallsFit' /\ call'[l] = Nothing /\ \A k \in Lines \ {l} : call'[k] = call[k]
    BY <2>1, CallsKept
  <2>3. Idle(l)' /\ Reqs(l)' = {}
    BY <2>2 DEF Idle, Reqs
  <2>4. Reqs(l) \subseteq {R(l)}
    <3>1. DOMAIN call[l].todo = 1 .. 1
      BY <1>1, <1>2, LenProperties
    <3> QED BY <1>1, <3>1 DEF Reqs
  <2> QED BY <2>2, <2>3, <2>4
<1>3. CASE n # 1
  <2> DEFINE c == [call[l] EXCEPT !.todo = Tail(call[l].todo), !.got = Nothing]
  <2>1. Tail(call[l].todo) \in Seq(Requests)
    <3>1. call[l].todo # <<>>
      BY <1>1
    <3> QED BY <1>1, <3>1, HeadTailProperties
  <2>2. c \in Calls /\ c.kind = call[l].kind /\ c.as = call[l].as /\ c.got = Nothing
        /\ c.todo = Tail(call[l].todo)
    BY <1>1, <2>1 DEF Calls
  <2>3. call' = [call EXCEPT ![l] = c]
    BY <1>3 DEF Next1
  <2> HIDE DEF c
  <2>4. /\ Shaped(l, c)
        /\ {c.todo[i] : i \in 1 .. Len(c.todo)} \subseteq Reqs(l)
        /\ Reqs(l) \subseteq {c.todo[i] : i \in 1 .. Len(c.todo)} \cup {R(l)}
  <3>1. n > 1
    <4> HIDE DEF n
    <4> QED BY <1>1, <1>3
  <3> QED BY <2>2, <3>1, TailShaped
  <2>5. CallsFit' /\ call'[l] = c /\ \A k \in Lines \ {l} : call'[k] = call[k]
    BY <2>2, <2>3, <2>4, CallsKept
  <2>6. c # Nothing
    BY <2>2, NothingAssumption
  <2>7. Reqs(l)' = {c.todo[i] : i \in 1 .. Len(c.todo)}
    <3>1. DOMAIN c.todo = 1 .. Len(c.todo)
      BY <2>1, <2>2, LenProperties
    <3> QED BY <2>5, <2>6, <3>1 DEF Reqs, Idle
  <2> QED BY <1>3, <2>2, <2>4, <2>5, <2>7
<1> QED BY <1>2, <1>3

\* A handler that fails leaves its line.
LEMMA Dropped ==
    ASSUME CallsFit, view' = view, NEW l \in Lines, call' = [call EXCEPT ![l] = Nothing]
    PROVE  /\ CallsFit' /\ Idle(l)' /\ Reqs(l)' = {}
           /\ \A k \in Lines \ {l} : call'[k] = call[k]
<1>1. CallsFit' /\ call'[l] = Nothing /\ \A k \in Lines \ {l} : call'[k] = call[k]
    BY CallsKept
<1> QED BY <1>1 DEF Idle, Reqs

\* A verification that succeeded goes on under the new session.
LEMMA Verified ==
    ASSUME CallsFit, view' = view, NEW l \in Lines, Arrived(l, {"verify"}),
           call' = [call EXCEPT ![l] = Begun("verify", Value(l), FALSE, Tail(call[l].todo))]
    PROVE  /\ CallsFit' /\ Value(l) \in Accounts
           /\ Reqs(l)' \subseteq Reqs(l) /\ "list" \in Ops(l)'
           /\ ~Idle(l)' /\ call'[l].as = Value(l) /\ call'[l].got = Nothing
           /\ \A k \in Lines \ {l} : call'[k] = call[k]
<1>1. /\ ~Idle(l) /\ call[l] \in Calls /\ Len(call[l].todo) \in Nat \ {0} /\ call[l].todo \in Seq(Requests)
      /\ R(l) = call[l].todo[1] /\ Shaped(l, call[l]) /\ R(l).op = "verify"
      /\ call[l].got # Nothing /\ call[l].got.fine
    BY CallsAre DEF Arrived
<1>2. Len(call[l].todo) > 1 /\ call[l].kind = "verify" /\ call[l].todo[2].op = "list"
    BY <1>1 DEF Shaped
<1>3. Value(l) \in Accounts
    BY <1>1 DEF Shaped, Fits, Value
<1> DEFINE u == Tail(call[l].todo)
           c == [kind |-> "verify", as |-> Value(l), stale |-> FALSE, todo |-> u, got |-> Nothing]
<1>4. u \in Seq(Requests) /\ Len(u) = Len(call[l].todo) - 1
      /\ \A i \in 1 .. Len(u) : u[i] = call[l].todo[i + 1]
    BY <1>1, <1>2, HeadTailProperties
<1>5. call' = [call EXCEPT ![l] = c]
    BY DEF Begun
<1>6. c \in Calls /\ c.kind = call[l].kind /\ c.as = Value(l) /\ c.got = Nothing /\ c.todo = Tail(call[l].todo)
    BY <1>2, <1>3, <1>4 DEF Calls
<1> HIDE DEF c, u
<1>7. /\ Shaped(l, c)
      /\ {c.todo[i] : i \in 1 .. Len(c.todo)} \subseteq Reqs(l)
    BY <1>1, <1>2, <1>6, TailShaped
<1>8. CallsFit' /\ call'[l] = c /\ \A k \in Lines \ {l} : call'[k] = call[k]
    BY <1>5, <1>6, <1>7, CallsKept
<1>9. c # Nothing
    BY <1>6, NothingAssumption
<1>10. Reqs(l)' = {c.todo[i] : i \in 1 .. Len(c.todo)} /\ ~Idle(l)'
  <2>1. DOMAIN c.todo = 1 .. Len(c.todo)
    BY <1>4, <1>6, LenProperties DEF u
  <2> QED BY <1>8, <1>9, <2>1 DEF Reqs, Idle
<1>11. "list" \in Ops(l)'
  <2>1. 1 \in 1 .. Len(u) /\ u[1].op = "list"
    BY <1>1, <1>2, <1>4
  <2>2. c.todo = u
    BY <1>6 DEF u
  <2>3. Ops(l)' = {r.op : r \in Reqs(l)'}
    BY OpsAre
  <2> QED BY <1>10, <2>1, <2>2, <2>3
<1> QED BY <1>3, <1>6, <1>7, <1>8, <1>10, <1>11

-----------------------------------------------------------------------------
(* A step on one line.                                                      *)

\* Lists stay right when lines change and neither the session nor a list does.
LEMMA ListsKept ==
    ASSUME ListsFit, UNCHANGED <<view, session, wallets, listed, unshown>>, crossed \subseteq crossed',
           \A k \in Lines : "list" \in Ops(k)' /\ "verify" \notin Ops(k)' =>
              \/ call'[k].as = session
              \/ "list" \in Ops(k) /\ "verify" \notin Ops(k) /\ call'[k].as = call[k].as,
           \A k \in Lines : Arrived(k, {"list"})' =>
              \/ Arrived(k, {"list"}) /\ call'[k].as = call[k].as /\ Value(k)' = Value(k)
              \/ call'[k].as \in Owners /\ Value(k)' = listed[call'[k].as],
           \A k \in Lines : Ops(k) \cap {"verify", "list"} \subseteq Ops(k)'
    PROVE  ListsFit'
<1> SUFFICES ASSUME Clean'
             PROVE  /\ \A l \in Lines : "list" \in Ops(l)' /\ "verify" \notin Ops(l)' => call'[l].as = session'
                    /\ \A l \in Lines :
                        Arrived(l, {"list"})' => call'[l].as \in Owners /\ Value(l)' = listed'[call'[l].as]
                    /\ Quiet({"verify", "list"})' /\ ~unshown' => wallets' = Target'
    BY DEF ListsFit
<1>1. Clean
    BY DEF Clean
<1>2. Quiet({"verify", "list"})' => Quiet({"verify", "list"})
    BY DEF Quiet
<1>3. Target' = Target
    BY DEF Target
<1> QED BY <1>1, <1>2, <1>3 DEF ListsFit

LEMMA JobsKept ==
    ASSUME JobsFit, crossed \subseteq crossed', asked' = asked,
           \A k \in Lines : \A r \in Reqs(k)' :
              r \in Reqs(k) \/ ("job" \notin crossed /\ r.op \in {"job", "start"} => r.arg = asked),
           shown' \in {Nothing, shown} \/ ("job" \notin crossed => shown'.job = asked)
    PROVE  JobsFit'
BY DEF JobsFit

LEMMA RowsKept ==
    ASSUME RowsFit, crossed \subseteq crossed', rowPage' = rowPage,
           \A k \in Lines : \A r \in Reqs(k)' : r \in Reqs(k) \/ (r.op = "rows" => r.arg = rowPage),
           \/ rowsOf' = Nothing
           \/ "rows" \notin crossed => rowsOf' = rowPage
           \/ rowsOf' = rowsOf /\ \A k \in Lines : RowsLine(k) => RowsLine(k)'
    PROVE  RowsFit'
BY DEF RowsFit, RowsLine

\* What the lines do not change.
Around == <<view, session, wallets, listed, unshown, shown, asked, rowsOf, rowPage>>

LEMMA SendKeeps ==
    ASSUME ConsoleInv, StateFits', NEW l \in Lines, NEW kind \in Kinds, NEW todo \in Seq(Requests),
           Shaped(l, Begun(kind, session, expired, todo)), Send(l, kind, todo),
           UNCHANGED <<Around, crossed>>,
           \A i \in 1 .. Len(todo) :
              /\ "job" \notin crossed /\ todo[i].op \in {"job", "start"} => todo[i].arg = asked
              /\ todo[i].op = "rows" => todo[i].arg = rowPage
    PROVE  ConsoleInv'
<1>1. CallsFit /\ ListsFit /\ JobsFit /\ RowsFit /\ session \in Accounts \cup {Nothing} /\ expired \in BOOLEAN
    BY DEF ConsoleInv, StateFits
<1>2. UNCHANGED <<view, session, wallets, listed, unshown, shown, asked, rowsOf, rowPage>>
    BY DEF Around
<1>3. /\ CallsFit' /\ Idle(l) /\ ~Idle(l)'
      /\ call'[l].as = session /\ call'[l].got = Nothing /\ call'[l].todo = todo
      /\ Reqs(l)' = {todo[i] : i \in 1 .. Len(todo)}
      /\ \A k \in Lines \ {l} : call'[k] = call[k]
    BY <1>1, <1>2, Sent
<1>4. ListsFit'
  <2>1. \A k \in Lines : "list" \in Ops(k)' /\ "verify" \notin Ops(k)' =>
              \/ call'[k].as = session
              \/ "list" \in Ops(k) /\ "verify" \notin Ops(k) /\ call'[k].as = call[k].as
    BY <1>3, LineSame
  <2>2. \A k \in Lines : Arrived(k, {"list"})' =>
              \/ Arrived(k, {"list"}) /\ call'[k].as = call[k].as /\ Value(k)' = Value(k)
              \/ call'[k].as \in Owners /\ Value(k)' = listed[call'[k].as]
    <3>1. ~Arrived(l, {"list"})'
      BY <1>3 DEF Arrived
    <3> QED BY <1>3, <3>1, LineSame
  <2>3. \A k \in Lines : Ops(k) \cap {"verify", "list"} \subseteq Ops(k)'
    <3>1. Ops(l) = {}
      BY <1>3 DEF Ops
    <3> QED BY <1>3, <3>1, LineSame
  <2> QED BY <1>1, <1>2, <2>1, <2>2, <2>3, ListsKept
<1>5. \A k \in Lines : \A r \in Reqs(k)' :
          \/ r \in Reqs(k)
          \/ /\ "job" \notin crossed /\ r.op \in {"job", "start"} => r.arg = asked
             /\ r.op = "rows" => r.arg = rowPage
    BY <1>3, LineSame
<1>6. JobsFit'
    BY <1>1, <1>2, <1>5, JobsKept
<1>7. \A k \in Lines : RowsLine(k) => RowsLine(k)'
    BY <1>3 DEF RowsLine, Idle
<1>8. RowsFit'
    BY <1>1, <1>2, <1>5, <1>7, RowsKept
<1> QED BY <1>3, <1>4, <1>6, <1>8 DEF ConsoleInv

LEMMA AnswerKeeps ==
    ASSUME ConsoleInv, StateFits', NEW l \in Lines, ~Idle(l), NEW fine \in BOOLEAN, NEW value \in Values,
           fine => Fits(R(l), value), Answer(l, fine, value),
           fine /\ R(l).op = "list" => Who(l) \in Owners /\ value = listed[Who(l)],
           UNCHANGED <<Around, crossed>>
    PROVE  ConsoleInv'
<1>1. CallsFit /\ ListsFit /\ JobsFit /\ RowsFit
    BY DEF ConsoleInv
<1>2. UNCHANGED <<view, session, wallets, listed, unshown, shown, asked, rowsOf, rowPage>>
    BY DEF Around
<1>3. /\ CallsFit' /\ ~Idle(l)'
      /\ call'[l].as = call[l].as /\ call'[l].todo = call[l].todo
      /\ call'[l].got = [fine |-> fine, value |-> value]
      /\ \A k \in Lines : Reqs(k)' = Reqs(k) /\ Ops(k)' = Ops(k)
      /\ \A k \in Lines \ {l} : call'[k] = call[k]
    BY <1>1, <1>2, AnswerGiven
<1>4. ListsFit'
  <2>1. \A k \in Lines : "list" \in Ops(k)' /\ "verify" \notin Ops(k)' =>
              "list" \in Ops(k) /\ "verify" \notin Ops(k) /\ call'[k].as = call[k].as
    BY <1>3
  <2>2. \A k \in Lines : Arrived(k, {"list"})' =>
              \/ Arrived(k, {"list"}) /\ call'[k].as = call[k].as /\ Value(k)' = Value(k)
              \/ call'[k].as \in Owners /\ Value(k)' = listed[call'[k].as]
    <3>1. Arrived(l, {"list"})' => fine /\ R(l).op = "list"
      BY <1>3 DEF Arrived, R
    <3>2. Value(l)' = value /\ Who(l) = call'[l].as
      BY <1>3 DEF Value, Who
    <3> QED BY <1>3, <3>1, <3>2, LineSame
  <2>3. \A k \in Lines : Ops(k) \cap {"verify", "list"} \subseteq Ops(k)'
    BY <1>3
  <2> QED BY <1>1, <1>2, <2>1, <2>2, <2>3, ListsKept
<1>5. JobsFit'
    BY <1>1, <1>2, <1>3, JobsKept
<1>6. \A k \in Lines : RowsLine(k) => RowsLine(k)'
    BY <1>3 DEF RowsLine, Idle
<1>7. RowsFit'
    BY <1>1, <1>2, <1>3, <1>6, RowsKept
<1> QED BY <1>3, <1>4, <1>5, <1>7 DEF ConsoleInv

\* A handler goes on: the lists other lines wait for are as right as before.
LEMMA NextLists ==
    ASSUME CallsFit, view' = view, NEW l \in Lines, ~Idle(l), Next1(l)
    PROVE  /\ \A k \in Lines : "list" \in Ops(k)' /\ "verify" \notin Ops(k)' /\ R(l).op # "verify" =>
                "list" \in Ops(k) /\ "verify" \notin Ops(k) /\ call'[k].as = call[k].as
           /\ \A k \in Lines : Arrived(k, {"list"})' =>
                Arrived(k, {"list"}) /\ call'[k].as = call[k].as /\ Value(k)' = Value(k)
           /\ \A k \in Lines : Ops(k) \cap {"verify", "list"} \subseteq Ops(k)' \cup {R(l).op}
           /\ \A k \in Lines : Reqs(k)' \subseteq Reqs(k)
           /\ R(l).op # "rows" => \A k \in Lines : RowsLine(k) => RowsLine(k)'
<1>1. R(l) = call[l].todo[1]
    BY CallsAre
<1>2. /\ Reqs(l)' \subseteq Reqs(l) /\ Reqs(l) \subseteq Reqs(l)' \cup {R(l)}
      /\ (~Idle(l)' => call'[l].as = call[l].as /\ call'[l].got = Nothing)
      /\ \A k \in Lines \ {l} : call'[k] = call[k]
    BY WentOn
<1>3. Ops(l)' \subseteq Ops(l) /\ Ops(l) \subseteq Ops(l)' \cup {R(l).op}
    BY <1>2, OpsAre
<1>4. \A k \in Lines : "list" \in Ops(k)' /\ "verify" \notin Ops(k)' /\ R(l).op # "verify" =>
              "list" \in Ops(k) /\ "verify" \notin Ops(k) /\ call'[k].as = call[k].as
  <2>1. Ops(l)' # {} => ~Idle(l)'
    BY DEF Ops
  <2> QED BY <1>2, <1>3, <2>1, LineSame
<1>5. \A k \in Lines : Arrived(k, {"list"})' =>
              Arrived(k, {"list"}) /\ call'[k].as = call[k].as /\ Value(k)' = Value(k)
  <2>1. ~Arrived(l, {"list"})'
    BY <1>2 DEF Arrived
  <2> QED BY <1>2, <2>1, LineSame
<1>6. \A k \in Lines : Ops(k) \cap {"verify", "list"} \subseteq Ops(k)' \cup {R(l).op}
    BY <1>2, <1>3, LineSame
<1>7. \A k \in Lines : Reqs(k)' \subseteq Reqs(k)
    BY <1>2, LineSame
<1>8. R(l).op # "rows" => \A k \in Lines : RowsLine(k) => RowsLine(k)'
    BY <1>1, <1>2 DEF RowsLine, Idle
<1> QED BY <1>4, <1>5, <1>6, <1>7, <1>8

\* Answers other than a list or a verification.
LEMMA NextKeeps ==
    ASSUME ConsoleInv, StateFits', NEW l \in Lines, ~Idle(l), R(l).op \notin {"verify", "list"}, Next1(l),
           UNCHANGED <<view, session, wallets, listed, unshown, asked, rowPage, crossed>>,
           shown' \in {Nothing, shown} \/ ("job" \notin crossed => shown'.job = asked),
           \/ rowsOf' = Nothing
           \/ "rows" \notin crossed => rowsOf' = rowPage
           \/ rowsOf' = rowsOf /\ R(l).op # "rows"
    PROVE  ConsoleInv'
<1>1. CallsFit /\ ListsFit /\ JobsFit /\ RowsFit
    BY DEF ConsoleInv
<1>2. CallsFit'
    BY <1>1, WentOn
<1>3. ListsFit'
  <2>1. \A k \in Lines : "list" \in Ops(k)' /\ "verify" \notin Ops(k)' =>
              "list" \in Ops(k) /\ "verify" \notin Ops(k) /\ call'[k].as = call[k].as
    BY <1>1, NextLists
  <2>2. \A k \in Lines : Arrived(k, {"list"})' =>
              Arrived(k, {"list"}) /\ call'[k].as = call[k].as /\ Value(k)' = Value(k)
    BY <1>1, NextLists
  <2>3. \A k \in Lines : Ops(k) \cap {"verify", "list"} \subseteq Ops(k)'
    BY <1>1, NextLists
  <2> QED BY <1>1, <2>1, <2>2, <2>3, ListsKept
<1>4. \A k \in Lines : Reqs(k)' \subseteq Reqs(k)
    BY <1>1, NextLists
<1>5. JobsFit'
    BY <1>1, <1>4, JobsKept
<1>6. R(l).op # "rows" => \A k \in Lines : RowsLine(k) => RowsLine(k)'
    BY <1>1, NextLists
<1>7. RowsFit'
    BY <1>1, <1>4, <1>6, RowsKept
<1> QED BY <1>2, <1>3, <1>5, <1>7 DEF ConsoleInv

\* Steps that leave the lines alone.
LEMMA IdleKeeps ==
    ASSUME ConsoleInv, StateFits', UNCHANGED <<Around, call, crossed>>
    PROVE  ConsoleInv'
<1>1. UNCHANGED <<view, session, wallets, listed, unshown, shown, asked, rowsOf, rowPage>>
    BY DEF Around
<1>2. CallsFit'
    BY <1>1, CallsSame DEF ConsoleInv
<1>3. \A k \in Lines : Ops(k)' = Ops(k) /\ Reqs(k)' = Reqs(k) /\ Idle(k)' = Idle(k)
                       /\ Arrived(k, {"list"})' = Arrived(k, {"list"}) /\ Value(k)' = Value(k)
    BY LineSame
<1>4. ListsFit'
    BY <1>1, <1>3, ListsKept DEF ConsoleInv
<1>5. JobsFit'
    BY <1>1, <1>3, JobsKept DEF ConsoleInv
<1>6. RowsFit'
    BY <1>1, <1>3, RowsKept DEF ConsoleInv, RowsLine
<1> QED BY <1>2, <1>4, <1>5, <1>6 DEF ConsoleInv

-----------------------------------------------------------------------------
(* Handlers that begin.                                                     *)

\* What a handler that begins does not change.
Kept ==
    <<view, account, session, expired, wallets, shown, rowPage, rowsOf, asked, listed, job, crossed, unshown>>

LEMMA StateSame ==
    ASSUME StateFits, UNCHANGED <<view, account, session, expired, wallets, shown, rowPage, asked, listed, job>>
    PROVE  StateFits'
BY DEF StateFits

\* Requests of one kind each.
LEMMA ReqsTyped ==
    /\ \A a \in Accounts : Req("verify", a) \in Requests
    /\ \A op \in {"list", "jobs", "create", "derive"} : Req(op, 0) \in Requests
    /\ \A op \in {"job", "start", "pause", "cancel", "queue"} : \A j \in Jobs : Req(op, j) \in Requests
    /\ \A p \in {1, 2} : Req("rows", p) \in Requests
    /\ \A op \in {"add", "drop"} : \A w \in AllWallets : Req(op, w) \in Requests
    /\ \A op \in {"import", "register"} : \A set \in SUBSET AllWallets : Req(op, set) \in Requests
<1>1. \A a \in Accounts : Req("verify", a) \in Requests
    BY DEF Req, Requests
<1>2. \A op \in {"list", "jobs", "create", "derive"} : Req(op, 0) \in Requests
    BY DEF Req, Requests
<1>3. \A op \in {"job", "start", "pause", "cancel", "queue"} : \A j \in Jobs : Req(op, j) \in Requests
    BY DEF Req, Requests
<1>4. \A p \in {1, 2} : Req("rows", p) \in Requests
    BY DEF Req, Requests
<1>5. \A op \in {"add", "drop"} : \A w \in AllWallets : Req(op, w) \in Requests
    BY DEF Req, Requests
<1>6. \A op \in {"import", "register"} : \A set \in SUBSET AllWallets : Req(op, set) \in Requests
    BY DEF Req, Requests
<1> QED BY <1>1, <1>2, <1>3, <1>4, <1>5, <1>6

\* A request a handler may begin with.
Asks(l, kind, todo, i) ==
    /\ todo[i].op = "verify" => i = 1 /\ kind = "verify" /\ Len(todo) > 1 /\ todo[2].op = "list"
    /\ todo[i].op \in StoreOps => todo[Len(todo)].op = "list"
    /\ todo[i].op \in {"import", "register"} => IsFiniteSet(todo[i].arg)
    /\ todo[i].op = "create" => l = "hand" /\ Len(todo) = 1
    /\ todo[i].op = "start" => l = "hand"
    /\ todo[i].op = "rows" => view = "detail" /\ todo[i].arg = rowPage
    /\ "job" \notin crossed /\ todo[i].op \in {"job", "start"} => todo[i].arg = asked

\* A handler begins whose requests are for the job and the rows shown.
LEMMA Begins ==
    ASSUME ConsoleInv, UNCHANGED Kept, NEW l \in Lines, NEW kind \in Kinds, NEW todo \in Seq(Requests),
           Send(l, kind, todo), Len(todo) > 0,
           \A i \in 1 .. Len(todo) : Asks(l, kind, todo, i)
    PROVE  ConsoleInv'
<1>1. StateFits'
    BY StateSame DEF ConsoleInv, Kept
<1>2. Shaped(l, Begun(kind, session, expired, todo))
    BY DEF Shaped, Begun, Asks
<1>3. UNCHANGED <<Around, crossed>>
    BY DEF Around, Kept
<1>4. \A i \in 1 .. Len(todo) :
          /\ "job" \notin crossed /\ todo[i].op \in {"job", "start"} => todo[i].arg = asked
          /\ todo[i].op = "rows" => todo[i].arg = rowPage
    BY DEF Asks
<1> QED BY <1>1, <1>2, <1>3, <1>4, SendKeeps

LEMMA VerifyKeeps == ASSUME ConsoleInv, Verify \/ VerifyMix PROVE ConsoleInv'
<1>1. account \in Accounts /\ account # Nothing
    BY DEF ConsoleInv, StateFits, Verify, VerifyMix, VerifyThen
<1>2. UNCHANGED Kept
    BY DEF Verify, VerifyMix, VerifyThen, Kept, inBrowser, panel, server
<1>3. "hand" \in Lines /\ "verify" \in Kinds
    BY DEF Lines, Kinds
<1>4. CASE Verify
  <2> DEFINE todo == <<Req("verify", account), Req("list", 0), Req("jobs", 0)>>
  <2>1. todo = <<Req("verify", account)>> \o ShowSuite
    BY DEF ShowSuite
  <2>2. todo \in Seq(Requests)
    BY <1>1, ReqsTyped
  <2>3. Send("hand", "verify", todo)
    BY <1>4, <2>1 DEF Verify, VerifyThen
  <2>4. Len(todo) = 3 /\ todo[1].op = "verify" /\ todo[2].op = "list" /\ todo[3].op = "jobs"
    BY DEF Req
  <2> HIDE DEF todo
  <2>5. \A i \in 1 .. Len(todo) : i = 1 \/ todo[i].op \in {"list", "jobs"}
    BY <2>4
  <2>6. \A i \in 1 .. Len(todo) : Asks("hand", "verify", todo, i)
    BY <2>4, <2>5 DEF Asks, StoreOps
  <2>7. Len(todo) > 0
    BY <2>4
  <2> QED BY <1>2, <1>3, <2>2, <2>3, <2>6, <2>7, Begins
<1>5. CASE VerifyMix
  <2> DEFINE todo == <<Req("verify", account), Req("list", 0)>>
  <2>1. todo = <<Req("verify", account)>> \o ShowMix
    BY DEF ShowMix
  <2>2. todo \in Seq(Requests)
    BY <1>1, ReqsTyped
  <2>3. Send("hand", "verify", todo)
    BY <1>5, <2>1 DEF VerifyMix, VerifyThen
  <2>4. Len(todo) = 2 /\ todo[1].op = "verify" /\ todo[2].op = "list"
    BY DEF Req
  <2> HIDE DEF todo
  <2>5. \A i \in 1 .. Len(todo) : i \in {1, 2}
    BY <2>4
  <2>6. \A i \in 1 .. Len(todo) : Asks("hand", "verify", todo, i)
    BY <2>4, <2>5 DEF Asks, StoreOps
  <2>7. Len(todo) > 0
    BY <2>4
  <2> QED BY <1>2, <1>3, <2>2, <2>3, <2>6, <2>7, Begins
<1> QED BY <1>4, <1>5

\* A handler of the wallet list begins.
LEMMA WalletsBegin ==
    ASSUME ConsoleInv, NEW v, NEW requests \in Seq(Requests), WalletHandler(v, requests),
           \A i \in 1 .. Len(requests) :
              /\ requests[i].op \in StoreOps
              /\ requests[i].op \in {"import", "register"} => IsFiniteSet(requests[i].arg)
    PROVE  ConsoleInv'
<1> DEFINE n == Len(requests)
           todo == Append(requests, Req("list", 0))
<1>1. UNCHANGED Kept
    BY DEF WalletHandler, Kept, panel, server
<1>2. "hand" \in Lines /\ "wallets" \in Kinds /\ Req("list", 0) \in Requests
    BY ReqsTyped DEF Lines, Kinds
<1>3. /\ todo \in Seq(Requests) /\ Len(todo) = n + 1 /\ todo[n + 1] = Req("list", 0)
      /\ \A i \in 1 .. n : todo[i] = requests[i]
    BY <1>2, AppendProperties
<1>4. n \in Nat
    BY LenProperties
<1>5. Send("hand", "wallets", todo)
    BY DEF WalletHandler
<1>6. \A i \in 1 .. n :
              /\ requests[i].op \in StoreOps
              /\ requests[i].op \in {"import", "register"} => IsFiniteSet(requests[i].arg)
    OBVIOUS
<1> HIDE DEF todo, n
<1>7. todo[Len(todo)].op = "list" /\ Len(todo) > 0
    BY <1>3, <1>4 DEF Req
<1>8. ASSUME NEW i \in 1 .. Len(todo)
      PROVE  /\ todo[i].op \in StoreOps \cup {"list"}
             /\ todo[i].op \in {"import", "register"} => IsFiniteSet(todo[i].arg)
  <2>1. CASE i = n + 1
    BY <1>3, <2>1 DEF Req
  <2>2. CASE i # n + 1
    <3>1. i \in 1 .. n
      BY <1>3, <1>4, <2>2
    <3> QED BY <1>3, <1>6, <3>1
  <2> QED BY <2>1, <2>2
<1>9. \A i \in 1 .. Len(todo) : Asks("hand", "wallets", todo, i)
    BY <1>7, <1>8 DEF Asks, StoreOps
<1> QED BY <1>1, <1>2, <1>3, <1>5, <1>7, <1>9, Begins

LEMMA OwnersAre == Owners \subseteq Accounts /\ Nothing \notin Accounts
BY ConsoleAssumption DEF Accounts

LEMMA SetToSeqIs ==
    ASSUME NEW S, IsFiniteSet(S)
    PROVE  SetToSeq(S) \in Seq(S)
<1> DEFINE n == Cardinality(S)
<1>1. n \in Nat /\ ExistsBijection(1 .. n, S)
    BY FS_CardinalityType
<1>2. PICK f \in Bijection(1 .. n, S) : TRUE
    BY <1>1 DEF ExistsBijection
<1>3. f \in [1 .. n -> S] /\ IsInjective(f)
    BY <1>2 DEF Bijection, Injection, IsInjective
<1>4. SetToSeq(S) \in [1 .. n -> S]
    BY <1>3 DEF SetToSeq
<1> HIDE DEF n
<1> QED BY <1>1, <1>4

\* The wallets a list shows are finitely many.
LEMMA ShownFinite == ASSUME NEW T, NEW list \in Seq(T) PROVE IsFiniteSet(ToSet(list))
<1>1. Len(list) \in Nat /\ DOMAIN list = 1 .. Len(list)
    BY LenProperties
<1>2. IsFiniteSet(1 .. Len(list))
    BY <1>1, FS_Interval
<1>3. list \in Surjection(1 .. Len(list), ToSet(list))
  <2>1. list \in [1 .. Len(list) -> T]
    BY <1>1
  <2> QED BY <1>1, <2>1 DEF Surjection, ToSet
<1> QED BY <1>2, <1>3, FS_Surjection

LEMMA SpareFinite == IsFiniteSet(0 .. Spare) /\ IsFiniteSet(1 .. Spare)
BY FS_Interval, ConsoleAssumption

LEMMA PairsFinite == ASSUME NEW S, IsFiniteSet(S), NEW o PROVE IsFiniteSet({o} \X S)
<1>1. IsFiniteSet({o})
    BY FS_Singleton
<1> QED BY <1>1, FS_Product

LEMMA AddWalletKeeps ==
    ASSUME ConsoleInv, NEW w \in OwnWallets(session), AddWallet(w)
    PROVE  ConsoleInv'
<1>1. session \in Accounts
    BY DEF ConsoleInv, StateFits, AddWallet, WalletHandler
<1>2. w \in AllWallets
    BY <1>1 DEF OwnWallets, AllWallets
<1> DEFINE requests == <<Req("add", w)>>
<1>3. requests \in Seq(Requests) /\ Len(requests) = 1 /\ requests[1].op = "add"
    BY <1>2, ReqsTyped DEF Req
<1>4. WalletHandler("session", requests)
    BY DEF AddWallet
<1> HIDE DEF requests
<1>5. \A i \in 1 .. Len(requests) : requests[i].op = "add"
    BY <1>3
<1> QED BY <1>3, <1>4, <1>5, WalletsBegin DEF StoreOps

LEMMA KeysKeep ==
    ASSUME ConsoleInv, NEW set \in SUBSET ({session} \X (1 .. Spare)), ImportWallets(set) \/ RegisterEnv(set)
    PROVE  ConsoleInv'
<1>1. session \in Accounts
    BY DEF ConsoleInv, StateFits, ImportWallets, RegisterEnv, WalletHandler
<1>2. set \in SUBSET AllWallets
    BY <1>1, ConsoleAssumption DEF AllWallets
<1>3. IsFiniteSet(set)
    BY SpareFinite, PairsFinite, FS_Subset
<1>4. PICK op \in {"import", "register"}, v \in {"session", "generation"} : WalletHandler(v, <<Req(op, set)>>)
    BY DEF ImportWallets, RegisterEnv
<1> DEFINE requests == <<Req(op, set)>>
<1>5. requests \in Seq(Requests) /\ Len(requests) = 1 /\ requests[1] = Req(op, set)
    BY <1>2, ReqsTyped
<1> HIDE DEF requests
<1>6. \A i \in 1 .. Len(requests) : requests[i].op \in {"import", "register"} /\ requests[i].arg = set
    BY <1>5 DEF Req
<1>7. WalletHandler(v, requests)
    BY <1>4 DEF requests
<1> QED BY <1>3, <1>5, <1>6, <1>7, WalletsBegin DEF StoreOps

LEMMA DeriveKeeps == ASSUME ConsoleInv, GenerateHd PROVE ConsoleInv'
<1> DEFINE requests == <<Req("derive", 0)>>
<1>1. requests \in Seq(Requests) /\ Len(requests) = 1 /\ requests[1].op = "derive"
    BY ReqsTyped DEF Req
<1>2. WalletHandler("generation", requests)
    BY DEF GenerateHd
<1> HIDE DEF requests
<1>3. \A i \in 1 .. Len(requests) : requests[i].op = "derive"
    BY <1>1
<1> QED BY <1>1, <1>2, <1>3, WalletsBegin DEF StoreOps

LEMMA RemovableAre == ASSUME ConsoleInv PROVE Removable \subseteq AllWallets /\ IsFiniteSet(Removable)
<1>1. wallets \in Seq(AllWallets)
    BY DEF ConsoleInv, StateFits
<1>2. ToSet(wallets) \subseteq AllWallets
    BY <1>1, ElementOfSeq DEF ToSet
<1>3. IsFiniteSet(ToSet(wallets))
    BY <1>1, ShownFinite
<1> QED BY <1>2, <1>3, FS_Subset DEF Removable

LEMMA RemoveKeeps ==
    ASSUME ConsoleInv, NEW w \in Removable, RemoveWallet(w)
    PROVE  ConsoleInv'
<1>1. w \in AllWallets
    BY RemovableAre
<1> DEFINE requests == <<Req("drop", w)>>
<1>2. requests \in Seq(Requests) /\ Len(requests) = 1 /\ requests[1].op = "drop"
    BY <1>1, ReqsTyped DEF Req
<1>3. WalletHandler("session", requests)
    BY DEF RemoveWallet
<1> HIDE DEF requests
<1>4. \A i \in 1 .. Len(requests) : requests[i].op = "drop"
    BY <1>2
<1> QED BY <1>2, <1>3, <1>4, WalletsBegin DEF StoreOps

LEMMA RemoveAllKeeps ==
    ASSUME ConsoleInv, NEW chosen \in SUBSET Removable, RemoveWallets(chosen)
    PROVE  ConsoleInv'
<1> DEFINE list == SetToSeq(chosen)
           requests == [i \in DOMAIN list |-> Req("drop", list[i])]
<1>1. chosen \subseteq AllWallets /\ IsFiniteSet(chosen)
    BY RemovableAre, FS_Subset
<1>2. list \in Seq(chosen)
    BY <1>1, SetToSeqIs
<1>3. WalletHandler("session", requests)
    BY DEF RemoveWallets
<1> HIDE DEF list
<1>4. Len(list) \in Nat /\ DOMAIN list = 1 .. Len(list) /\ \A i \in 1 .. Len(list) : list[i] \in AllWallets
    BY <1>1, <1>2, LenProperties, ElementOfSeq
<1>5. requests \in [1 .. Len(list) -> Requests] /\ \A i \in 1 .. Len(list) : requests[i].op = "drop"
    BY <1>4, ReqsTyped DEF Req
<1> HIDE DEF requests
<1>6. requests \in Seq(Requests) /\ Len(requests) = Len(list)
    BY <1>4, <1>5
<1> QED BY <1>3, <1>5, <1>6, WalletsBegin DEF StoreOps

\* Whoever asks for the list of wallets again, or changes it.
LEMMA WalletsKeep ==
    ASSUME ConsoleInv,
           \/ \E w \in OwnWallets(session) \ ToSet(wallets) : AddWallet(w)
           \/ \E set \in SUBSET ({session} \X (1 .. Spare)) : ImportWallets(set) \/ RegisterEnv(set)
           \/ \E w \in Removable : RemoveWallet(w)
           \/ \E chosen \in SUBSET Removable : RemoveWallets(chosen)
           \/ GenerateHd
    PROVE  ConsoleInv'
BY AddWalletKeeps, KeysKeep, RemoveKeeps, RemoveAllKeeps, DeriveKeeps

\* A handler that asks for one thing, or for one after another.
LEMMA AsksOne ==
    ASSUME ConsoleInv, UNCHANGED Kept, NEW l \in Lines, NEW kind \in Kinds, NEW r \in Requests,
           Send(l, kind, <<r>>),
           r.op \notin StoreOps \cup {"verify"},
           r.op \in {"create", "start"} => l = "hand",
           r.op = "rows" => view = "detail" /\ r.arg = rowPage,
           "job" \notin crossed /\ r.op \in {"job", "start"} => r.arg = asked
    PROVE  ConsoleInv'
<1> DEFINE todo == <<r>>
<1>1. todo \in Seq(Requests) /\ Len(todo) = 1 /\ todo[1] = r /\ Send(l, kind, todo)
    OBVIOUS
<1> HIDE DEF todo
<1>2. \A i \in 1 .. Len(todo) : todo[i] = r
    BY <1>1
<1>3. \A i \in 1 .. Len(todo) : Asks(l, kind, todo, i)
    BY <1>1, <1>2 DEF Asks, StoreOps
<1>4. Len(todo) > 0
    BY <1>1
<1> QED BY <1>1, <1>3, <1>4, Begins

LEMMA AsksMore ==
    ASSUME ConsoleInv, UNCHANGED Kept, NEW l \in Lines, NEW kind \in Kinds, NEW todo \in Seq(Requests),
           Send(l, kind, todo),
           Len(todo) > 1,
           \A i \in 1 .. Len(todo) :
              /\ todo[i].op \notin StoreOps \cup {"verify", "create"}
              /\ todo[i].op = "start" => l = "hand"
              /\ todo[i].op = "rows" => view = "detail" /\ todo[i].arg = rowPage
              /\ "job" \notin crossed /\ todo[i].op \in {"job", "start"} => todo[i].arg = asked
    PROVE  ConsoleInv'
<1>1. \A i \in 1 .. Len(todo) : Asks(l, kind, todo, i)
    BY DEF Asks, StoreOps
<1>2. Len(todo) > 0
    BY LenProperties
<1> QED BY <1>1, <1>2, Begins

\* The job shown.
LEMMA ShownIs ==
    ASSUME ConsoleInv
    PROVE  /\ shown # Nothing => shown \in Shown /\ shown.job \in Jobs
           /\ shown # Nothing /\ "job" \notin crossed => shown.job = asked
           /\ view = "detail" => asked \in Jobs
           /\ rowPage \in {1, 2}
BY DEF ConsoleInv, StateFits, JobsFit, Shown

LEMMA LinesAre == {"hand", "restore", "rows"} \subseteq Lines /\ Slots \subseteq Lines
BY DEF Lines

LEMMA HandlerKept ==
    ASSUME NEW requests, JobHandler(requests)
    PROVE  UNCHANGED Kept /\ Send("hand", "job", requests)
BY DEF JobHandler, Kept, inBrowser, panel, server

LEMMA CreateKeeps == ASSUME ConsoleInv, Create \/ CreateRotation PROVE ConsoleInv'
<1>1. JobHandler(<<Req("create", 0)>>)
    BY DEF Create, CreateRotation
<1>2. Req("create", 0) \in Requests /\ Req("create", 0).op = "create"
    BY ReqsTyped DEF Req
<1> QED BY <1>1, <1>2, HandlerKept, LinesAre, AsksOne DEF StoreOps, Kinds

LEMMA StartKeeps == ASSUME ConsoleInv, StartShown \/ StartRotation PROVE ConsoleInv'
<1>1. shown # Nothing
    BY DEF StartShown, StartRotation
<1> DEFINE j == shown.job
<1>2. j \in Jobs /\ ("job" \notin crossed => j = asked)
    BY <1>1, ShownIs
<1>3. /\ Req("start", j) \in Requests /\ Req("start", j).op = "start" /\ Req("start", j).arg = j
      /\ Req("job", j) \in Requests /\ Req("job", j).op = "job" /\ Req("job", j).arg = j
    BY <1>2, ReqsTyped DEF Req
<1>4. CASE StartShown
  <2> DEFINE todo == <<Req("start", j), Req("job", j)>>
  <2>1. JobHandler(todo)
    BY <1>4 DEF StartShown
  <2>2. todo \in Seq(Requests) /\ Len(todo) = 2 /\ todo[1] = Req("start", j) /\ todo[2] = Req("job", j)
    BY <1>3
  <2> HIDE DEF todo, j
  <2>3. \A i \in 1 .. Len(todo) : todo[i].op \in {"start", "job"} /\ todo[i].arg = j
    BY <1>3, <2>2
  <2>4. Len(todo) > 1
    BY <2>2
  <2> QED BY <1>2, <2>1, <2>2, <2>3, <2>4, HandlerKept, LinesAre, AsksMore DEF StoreOps, Kinds
<1>5. CASE StartRotation
  <2>1. JobHandler(<<Req("start", j)>>)
    BY <1>5 DEF StartRotation
  <2> HIDE DEF j
  <2> QED BY <1>2, <1>3, <2>1, HandlerKept, LinesAre, AsksOne DEF StoreOps, Kinds
<1> QED BY <1>4, <1>5

LEMMA PostKeeps ==
    ASSUME ConsoleInv, NEW op \in {"start", "pause", "cancel", "queue"}, PostThenLoad(op)
    PROVE  ConsoleInv'
<1>1. asked \in Jobs /\ rowPage \in {1, 2} /\ view = "detail"
    BY ShownIs DEF PostThenLoad
<1> DEFINE todo == <<Req(op, asked), Req("job", asked), Req("rows", rowPage)>>
<1>2. /\ todo \in Seq(Requests) /\ Len(todo) = 3
      /\ todo[1] = Req(op, asked) /\ todo[2] = Req("job", asked) /\ todo[3] = Req("rows", rowPage)
    BY <1>1, ReqsTyped
<1>3. JobHandler(todo)
    BY DEF PostThenLoad
<1> HIDE DEF todo
<1>4. \A i \in 1 .. Len(todo) :
        \/ todo[i].op \in {"start", "pause", "cancel", "queue", "job"} /\ todo[i].arg = asked
        \/ todo[i].op = "rows" /\ todo[i].arg = rowPage
  <2>1. /\ todo[1].op = op /\ todo[1].arg = asked /\ todo[2].op = "job" /\ todo[2].arg = asked
        /\ todo[3].op = "rows" /\ todo[3].arg = rowPage
    BY <1>2 DEF Req
  <2>2. \A i \in 1 .. Len(todo) : i = 1 \/ i = 2 \/ i = 3
    BY <1>2
  <2> QED BY <2>1, <2>2
<1>5. Len(todo) > 1
    BY <1>2
<1>6. \A i \in 1 .. Len(todo) :
          /\ todo[i].op \notin StoreOps \cup {"verify", "create"}
          /\ todo[i].op = "rows" => todo[i].arg = rowPage
          /\ todo[i].op \in {"job", "start"} => todo[i].arg = asked
    BY <1>4 DEF StoreOps
<1> QED BY <1>1, <1>2, <1>3, <1>5, <1>6, HandlerKept, LinesAre, AsksMore DEF Kinds

LEMMA RefreshKeeps == ASSUME ConsoleInv, Refresh PROVE ConsoleInv'
<1>1. UNCHANGED Kept /\ Send("restore", "refresh", <<Req("job", asked)>>) /\ asked \in Jobs
    BY ShownIs DEF Refresh, Kept, inBrowser, panel, server
<1>2. Req("job", asked) \in Requests /\ Req("job", asked).op = "job" /\ Req("job", asked).arg = asked
    BY <1>1, ReqsTyped DEF Req
<1> QED BY <1>1, <1>2, LinesAre, AsksOne DEF StoreOps, Kinds

LEMMA TicksKeep ==
    ASSUME ConsoleInv, TickRows \/ \E s \in Slots : TickJob(s) \/ TickJobs(s)
    PROVE  ConsoleInv'
<1>1. UNCHANGED Kept
    BY DEF TickJob, TickRows, TickJobs, Background, Kept, inBrowser, panel, server
<1>2. ASSUME NEW s \in Slots, TickJob(s) PROVE ConsoleInv'
  <2> DEFINE j == Polled
  <2>1. j \in Jobs /\ ("job" \notin crossed => j = asked)
    BY <1>2, ShownIs DEF TickJob, Polling, Polled
  <2>2. Send(s, "poll", <<Req("job", j)>>)
    BY <1>2 DEF TickJob
  <2> HIDE DEF j
  <2>3. Req("job", j) \in Requests /\ Req("job", j).op = "job" /\ Req("job", j).arg = j
    BY <2>1, ReqsTyped DEF Req
  <2> QED BY <1>1, <2>1, <2>2, <2>3, LinesAre, AsksOne DEF StoreOps, Kinds
<1>3. CASE TickRows
  <2>1. Send("rows", "rows", <<Req("rows", rowPage)>>) /\ view = "detail" /\ rowPage \in {1, 2}
    BY <1>3, ShownIs DEF TickRows
  <2>2. Req("rows", rowPage) \in Requests
        /\ Req("rows", rowPage).op = "rows" /\ Req("rows", rowPage).arg = rowPage
    BY <2>1, ReqsTyped DEF Req
  <2> QED BY <1>1, <2>1, <2>2, LinesAre, AsksOne DEF StoreOps, Kinds
<1>4. ASSUME NEW s \in Slots, TickJobs(s) PROVE ConsoleInv'
  <2>1. Send(s, "poll", <<Req("jobs", 0)>>)
    BY <1>4 DEF TickJobs
  <2>2. Req("jobs", 0) \in Requests /\ Req("jobs", 0).op = "jobs"
    BY ReqsTyped DEF Req
  <2> QED BY <1>1, <2>1, <2>2, LinesAre, AsksOne DEF StoreOps, Kinds
<1> QED BY <1>2, <1>3, <1>4

\* Another page of rows is chosen, and asked for.
LEMMA ChoosePageKeeps == ASSUME ConsoleInv, ChoosePage PROVE ConsoleInv'
<1> DEFINE p == 3 - rowPage
           todo == <<Req("rows", p)>>
<1>1. CallsFit /\ ListsFit /\ JobsFit /\ RowsFit /\ StateFits
    BY DEF ConsoleInv
<1>2. /\ UNCHANGED <<view, account, session, expired, wallets, listed, job, unshown, shown, asked, rowsOf>>
      /\ view = "detail" /\ rowPage' = p /\ p \in {1, 2}
      /\ crossed' = crossed \cup Crossing("rows", {"rows"}, Lines)
    BY ShownIs DEF ChoosePage, inBrowser, server
<1>3. PICK s \in Slots : Send(s, "rows", todo)
    BY DEF ChoosePage
<1>4. todo \in Seq(Requests) /\ Len(todo) = 1 /\ todo[1].op = "rows" /\ todo[1].arg = p
    BY <1>2, ReqsTyped DEF Req
<1> HIDE DEF todo, p
<1>5. \A i \in 1 .. Len(todo) : i = 1
    BY <1>4
<1>6. Shaped(s, Begun("rows", session, expired, todo))
  <2>1. Len(todo) > 0 /\ \A i \in 1 .. Len(todo) : todo[i].op = "rows"
    BY <1>4, <1>5
  <2> QED BY <1>2, <2>1 DEF Shaped, Begun, StoreOps
<1>7. s \in Lines /\ "rows" \in Kinds /\ session \in Accounts \cup {Nothing} /\ expired \in BOOLEAN
    BY <1>1, LinesAre DEF Kinds, StateFits
<1>8. /\ CallsFit' /\ Idle(s) /\ ~Idle(s)'
      /\ call'[s].as = session /\ call'[s].got = Nothing /\ call'[s].todo = todo
      /\ Reqs(s)' = {todo[i] : i \in 1 .. Len(todo)}
      /\ \A k \in Lines \ {s} : call'[k] = call[k]
    BY <1>1, <1>2, <1>3, <1>4, <1>6, <1>7, Sent
<1>9. Reqs(s)' = {todo[1]}
    BY <1>4, <1>8
<1>10. StateFits'
    BY <1>1, <1>2 DEF StateFits
<1>11. ListsFit'
    BY <1>2 DEF ListsFit, Clean
<1>12. JobsFit'
  <2>1. \A k \in Lines : \A r \in Reqs(k)' : r \in Reqs(k) \/ r.op = "rows"
    BY <1>4, <1>8, <1>9, LineSame
  <2> QED BY <1>1, <1>2, <2>1, JobsKept
<1>13. RowsFit'
  <2> SUFFICES ASSUME "rows" \notin crossed'
               PROVE  /\ \A k \in Lines : \A r \in Reqs(k)' : r.op = "rows" => r.arg = p
                      /\ \E k \in Lines : RowsLine(k)'
    BY <1>2 DEF RowsFit, RowsLine
  <2>1. \A k \in Lines : \A r \in Reqs(k) : r.op # "rows"
    <3>1. \A k \in Lines : "rows" \notin Ops(k)
      BY <1>2 DEF Crossing
    <3> QED BY <3>1, OpsAre
  <2>2. \A k \in Lines : \A r \in Reqs(k)' : r.op = "rows" => r.arg = p
    BY <1>4, <1>8, <1>9, <2>1, LineSame
  <2>3. RowsLine(s)'
    BY <1>4, <1>8 DEF RowsLine
  <2> QED BY <1>7, <2>2, <2>3
<1> QED BY <1>8, <1>10, <1>11, <1>12, <1>13 DEF ConsoleInv

-----------------------------------------------------------------------------
(* Steps without a request.                                                 *)

LEMMA AccountKeeps ==
    ASSUME ConsoleInv, NEW a \in Accounts \cup {Nothing}, SetAccount(a)
    PROVE  ConsoleInv'
<1>1. UNCHANGED <<Around, call, crossed>>
    BY DEF SetAccount, Around, inBrowser, panel, server
<1>2. StateFits'
    BY DEF SetAccount, inBrowser, panel, server, ConsoleInv, StateFits
<1> QED BY <1>1, <1>2, IdleKeeps

LEMMA ChooseKeeps ==
    ASSUME ConsoleInv, NEW i, NEW k, ChooseEnds(i, k)
    PROVE  ConsoleInv'
<1>1. UNCHANGED <<Around, call, crossed>>
    BY DEF ChooseEnds, Around, panel, server
<1>2. StateFits'
    BY DEF ChooseEnds, panel, server, ConsoleInv, StateFits
<1> QED BY <1>1, <1>2, IdleKeeps

\* The queue, its workers and other tabs change the status of jobs.
LEMMA StatusKeeps ==
    ASSUME ConsoleInv, view' = view, NEW j \in Jobs, NEW from \in SUBSET Statuses,
           NEW to \in Statuses, SetStatus(j, from, to)
    PROVE  ConsoleInv'
<1>1. UNCHANGED <<Around, call, crossed>>
    BY DEF SetStatus, Around, inBrowser, panel
<1>2. job[j] \in [owner : Owners, status : Statuses, loop : BOOLEAN]
    BY DEF SetStatus, ConsoleInv, StateFits, NoJob, Statuses
<1>3. job' \in [Jobs -> [owner : Owners, status : Statuses, loop : BOOLEAN] \cup {NoJob}]
    BY <1>2 DEF SetStatus, ConsoleInv, StateFits
<1>4. StateFits'
    BY <1>3 DEF SetStatus, inBrowser, panel, ConsoleInv, StateFits
<1> QED BY <1>1, <1>4, IdleKeeps

LEMMA JobsMove ==
    ASSUME ConsoleInv, \E j \in Jobs : Run(j) \/ Rerun(j) \/ Elsewhere(j)
    PROVE  ConsoleInv'
<1>1. PICK j \in Jobs, from \in SUBSET Statuses, to \in Statuses : SetStatus(j, from, to)
  <2>1. /\ {"queued"} \in SUBSET Statuses /\ {"running"} \in SUBSET Statuses
        /\ {"completed", "failed"} \in SUBSET Statuses /\ {"queued", "running"} \in SUBSET Statuses
        /\ {"draft", "paused", "failed"} \in SUBSET Statuses
        /\ Statuses \ {"completed", "cancelled"} \in SUBSET Statuses
    BY DEF Statuses
  <2>2. {"queued", "running", "completed", "failed", "paused", "cancelled"} \subseteq Statuses
    BY DEF Statuses
  <2> QED BY <2>1, <2>2 DEF Run, Rerun, Elsewhere
<1>2. view' = view
    BY <1>1 DEF SetStatus
<1> QED BY <1>1, <1>2, StatusKeeps

\* The token of the session expires: calls carry it on, and ask for what they did.
LEMMA ExpireKeeps == ASSUME ConsoleInv, Expire PROVE ConsoleInv'
<1>1. CallsFit /\ ListsFit /\ JobsFit /\ RowsFit /\ StateFits
    BY DEF ConsoleInv
<1>2. /\ expired' = TRUE
      /\ UNCHANGED <<view, account, session, wallets, listed, job, unshown, shown, asked, rowsOf,
                     rowPage, crossed>>
      /\ call' = [l \in Lines |->
                    IF Idle(l) \/ call[l].as # session THEN call[l] ELSE [call[l] EXCEPT !.stale = TRUE]]
    BY DEF Expire, panel, server
<1>3. StateFits'
    BY <1>1, <1>2 DEF StateFits
<1>4. ASSUME NEW k \in Lines, call'[k] # call[k]
      PROVE  /\ ~Idle(k) /\ call'[k] \in Calls
             /\ call'[k].kind = call[k].kind /\ call'[k].as = call[k].as
             /\ call'[k].todo = call[k].todo /\ call'[k].got = call[k].got
  <2>1. ~Idle(k) /\ call'[k] = [call[k] EXCEPT !.stale = TRUE]
    BY <1>2, <1>4
  <2>2. call[k] \in Calls
    BY <1>1, <2>1, CallsAre
  <2> QED BY <2>1, <2>2 DEF Calls
<1>5. ASSUME NEW k \in Lines
      PROVE  /\ Idle(k)' = Idle(k) /\ Reqs(k)' = Reqs(k) /\ Ops(k)' = Ops(k)
             /\ Arrived(k, {"list"})' = Arrived(k, {"list"}) /\ (RowsLine(k) => RowsLine(k)')
             /\ ~Idle(k) => call'[k].as = call[k].as /\ Value(k)' = Value(k)
  <2>1. CASE call'[k] = call[k]
    <3>1. Idle(k)' = Idle(k) /\ Reqs(k)' = Reqs(k) /\ Ops(k)' = Ops(k) /\ Value(k)' = Value(k)
      BY <2>1, LineSame
    <3>2. Arrived(k, {"list"})' = Arrived(k, {"list"})
      BY <2>1, LineSame
    <3>3. RowsLine(k) => RowsLine(k)'
      BY <2>1 DEF RowsLine, Idle
    <3> QED BY <2>1, <3>1, <3>2, <3>3
  <2>2. CASE call'[k] # call[k]
    <3>1. ~Idle(k)'
      BY <1>4, <2>2, NothingAssumption DEF Idle
    <3>2. ~Idle(k) /\ call'[k].as = call[k].as
          /\ call'[k].todo = call[k].todo /\ call'[k].got = call[k].got
      BY <1>4, <2>2
    <3>3. Reqs(k)' = Reqs(k) /\ Ops(k)' = Ops(k)
      BY <3>1, <3>2 DEF Reqs, Ops
    <3>4. Value(k)' = Value(k) /\ R(k)' = R(k)
      BY <3>2 DEF Value, R
    <3>5. Arrived(k, {"list"})' = Arrived(k, {"list"})
      BY <3>1, <3>2, <3>4 DEF Arrived
    <3>6. RowsLine(k) => RowsLine(k)'
      BY <3>1, <3>2 DEF RowsLine
    <3>7. Idle(k)' = Idle(k)
      BY <3>1, <3>2 DEF Idle
    <3> QED BY <3>2, <3>3, <3>4, <3>5, <3>6, <3>7
  <2> QED BY <2>1, <2>2
<1>6. CallsFit'
  <2>1. call' \in [Lines -> Calls \cup {Nothing}]
    <3>1. \A k \in Lines : call'[k] \in Calls \cup {Nothing}
      BY <1>1, <1>4 DEF CallsFit
    <3> QED BY <1>2, <3>1
  <2>2. ASSUME NEW k \in Lines, ~Idle(k)' PROVE Shaped(k, call[k])'
    <3>1. Shaped(k, call[k])
      BY <1>1, <1>5, <2>2, CallsAre
    <3> QED BY <1>2, <1>4, <3>1 DEF Shaped, Fits
  <2> QED BY <2>1, <2>2 DEF CallsFit
<1>7. ListsFit'
  <2>1. \A k \in Lines : "list" \in Ops(k)' /\ "verify" \notin Ops(k)' =>
              "list" \in Ops(k) /\ "verify" \notin Ops(k) /\ call'[k].as = call[k].as
    BY <1>5 DEF Ops
  <2>2. \A k \in Lines : Arrived(k, {"list"})' =>
              Arrived(k, {"list"}) /\ call'[k].as = call[k].as /\ Value(k)' = Value(k)
    BY <1>5 DEF Arrived
  <2>3. \A k \in Lines : Ops(k) \cap {"verify", "list"} \subseteq Ops(k)'
    BY <1>5
  <2> QED BY <1>1, <1>2, <2>1, <2>2, <2>3, ListsKept
<1>8. JobsFit'
    BY <1>1, <1>2, <1>5, JobsKept
<1>9. RowsFit'
    BY <1>1, <1>2, <1>5, RowsKept
<1> QED BY <1>3, <1>6, <1>7, <1>8, <1>9 DEF ConsoleInv

\* What arrives on a line is the answer to its first request.
LEMMA ArrivedIs ==
    ASSUME CallsFit, NEW l \in Lines, NEW ops, Arrived(l, ops)
    PROVE  /\ ~Idle(l) /\ R(l).op \in ops /\ R(l) \in Reqs(l) /\ R(l).op \in Ops(l)
           /\ R(l) \in Requests /\ Fits(R(l), Value(l))
<1>1. ~Idle(l) /\ R(l).op \in ops /\ call[l].got # Nothing /\ call[l].got.fine
    BY DEF Arrived
<1>2. R(l) \in Reqs(l) /\ R(l) \in Requests /\ Shaped(l, call[l]) /\ R(l) = call[l].todo[1]
    BY <1>1, CallsAre
<1>3. Fits(R(l), Value(l))
    BY <1>1, <1>2 DEF Shaped, Value
<1>4. R(l).op \in Ops(l)
    BY <1>2, OpsAre
<1> QED BY <1>1, <1>2, <1>3, <1>4

\* The session is cleared while lists may be on their way.
LEMMA ClearNowKeeps ==
    ASSUME ConsoleInv, ClearNow, account' \in Accounts \cup {Nothing},
           UNCHANGED <<view, panel, call, server, unshown>>
    PROVE  ConsoleInv'
<1>1. CallsFit /\ ListsFit /\ JobsFit /\ RowsFit /\ StateFits
    BY DEF ConsoleInv
<1>2. /\ UNCHANGED <<view, shown, rowPage, rowsOf, asked, call, listed, job, unshown>>
      /\ session' = Nothing /\ expired' = FALSE /\ wallets' = <<>>
      /\ crossed' = crossed \cup Crossing("session", {"list", "verify"}, Lines)
    BY DEF ClearNow, Clear, panel, server
<1>3. CallsFit'
    BY <1>1, <1>2, CallsSame
<1>4. \A k \in Lines : Ops(k)' = Ops(k) /\ Reqs(k)' = Reqs(k) /\ RowsLine(k)' = RowsLine(k)
    BY <1>2 DEF Ops, Reqs, Idle, RowsLine
<1>5. StateFits'
  <2>1. <<>> \in Seq(AllWallets)
    OBVIOUS
  <2> QED BY <1>1, <1>2, <2>1 DEF StateFits
<1>6. ListsFit'
  <2> SUFFICES ASSUME Clean'
               PROVE  /\ \A l \in Lines : "list" \notin Ops(l)
                      /\ \A l \in Lines : ~Arrived(l, {"list"})'
                      /\ wallets' = Target'
    BY <1>4 DEF ListsFit
  <2>1. \A l \in Lines : "list" \notin Ops(l)
    BY <1>2 DEF Clean, Crossing
  <2>2. \A l \in Lines : ~Arrived(l, {"list"})'
    <3>1. \A l \in Lines : ~Arrived(l, {"list"})
      BY <1>1, <2>1, ArrivedIs
    <3> QED BY <1>2, <3>1 DEF Arrived, Idle, R
  <2>3. wallets' = Target'
    BY <1>2, ConsoleAssumption DEF Target
  <2> QED BY <2>1, <2>2, <2>3
<1>7. JobsFit'
    BY <1>1, <1>2, <1>4, JobsKept
<1>8. RowsFit'
    BY <1>1, <1>2, <1>4, RowsKept
<1> QED BY <1>3, <1>5, <1>6, <1>7, <1>8 DEF ConsoleInv

LEMMA LeaveKeeps ==
    ASSUME ConsoleInv, Logout \/ \E a \in Accounts \cup {Nothing} : Switch(a)
    PROVE  ConsoleInv'
<1>1. CASE Logout
  <2>1. account' \in Accounts \cup {Nothing}
    BY <1>1 DEF Logout, ConsoleInv, StateFits
  <2> QED BY <1>1, <2>1, ClearNowKeeps DEF Logout
<1>2. ASSUME NEW a \in Accounts \cup {Nothing}, Switch(a) PROVE ConsoleInv'
  <2>1. account' \in Accounts \cup {Nothing} /\ UNCHANGED <<view, panel, call, server, unshown>>
    BY <1>2 DEF Switch
  <2>2. CASE ClearNow
    BY <2>1, <2>2, ClearNowKeeps
  <2>3. CASE UNCHANGED <<inBrowser, crossed>>
    <3>1. UNCHANGED <<Around, call, crossed>>
      BY <2>1, <2>3 DEF Around, inBrowser, panel, server
    <3>2. StateFits'
      BY <2>1, <2>3 DEF inBrowser, panel, server, ConsoleInv, StateFits
    <3> QED BY <3>1, <3>2, IdleKeeps
  <2> QED BY <1>2, <2>2, <2>3 DEF Switch
<1> QED BY <1>1, <1>2

-----------------------------------------------------------------------------
(* The server.                                                              *)

LEMMA ArgsAre ==
    ASSUME NEW r \in Requests
    PROVE  /\ r.op = "verify" => r.arg \in Accounts
           /\ r.op \in {"job", "start", "pause", "cancel", "queue"} => r.arg \in Jobs
           /\ r.op = "rows" => r.arg \in {1, 2}
           /\ r.op \in {"add", "drop"} => r.arg \in AllWallets
           /\ r.op \in {"import", "register"} => r.arg \in SUBSET AllWallets
BY DEF Requests

\* A request that is served asks for what its session owns.
LEMMA ServedIs ==
    ASSUME ConsoleInv, NEW l \in Lines, NEW ops, Served(l, ops)
    PROVE  /\ ~Idle(l) /\ R(l).op \in ops /\ R(l) \in Requests /\ R(l) \in Reqs(l) /\ R(l).op \in Ops(l)
           /\ call[l].got = Nothing
           /\ R(l).op # "verify" => Who(l) \in Owners
           /\ R(l).op = "drop" => R(l).arg \in ToSet(listed[Who(l)])
           /\ R(l).op \in JobOps => R(l).arg \in Jobs /\ job[R(l).arg].owner \in Owners
                                    /\ job[R(l).arg].status \in Statuses
<1>1. CallsFit /\ ~Idle(l) /\ R(l).op \in ops /\ call[l].got = Nothing /\ ~Refused(l)
    BY DEF Served, Waiting, ConsoleInv
<1>2. R(l) \in Requests /\ R(l) \in Reqs(l) /\ R(l).op \in Ops(l)
    BY <1>1, CallsAre, OpsAre
<1>3. R(l).op # "verify" => Who(l) \in Owners
    BY <1>1 DEF Refused, NoSession
<1>4. R(l).op = "drop" => R(l).arg \in ToSet(listed[Who(l)])
    BY <1>1 DEF Refused, WalletRefused
<1>5. ASSUME R(l).op \in JobOps
      PROVE  R(l).arg \in Jobs /\ job[R(l).arg].owner \in Owners /\ job[R(l).arg].status \in Statuses
  <2>1. R(l).arg \in Jobs /\ R(l).op # "verify"
    BY <1>2, <1>5, ArgsAre DEF JobOps
  <2>2. job[R(l).arg].owner = Who(l)
    BY <1>1, <1>5 DEF Refused, JobRefused
  <2>3. job[R(l).arg] \in [owner : Owners, status : Statuses, loop : BOOLEAN] \cup {NoJob}
    BY <2>1 DEF ConsoleInv, StateFits
  <2>4. job[R(l).arg] # NoJob
    BY <1>3, <2>1, <2>2, ConsoleAssumption DEF NoJob
  <2> QED BY <2>1, <2>3, <2>4
<1> QED BY <1>1, <1>2, <1>3, <1>4, <1>5

LEMMA ReadKept ==
    ASSUME UNCHANGED <<view, account, inBrowser, panel, server, clicks, faults, crossed, unshown>>
    PROVE  /\ UNCHANGED <<Around, crossed>>
           /\ UNCHANGED <<view, account, session, expired, wallets, shown, rowPage, asked, listed, job>>
BY DEF inBrowser, panel, server, Around

LEMMA ReadKeeps ==
    ASSUME ConsoleInv, NEW l \in Lines, NEW op, NEW value \in Values, Read(l, op, value), Fits(R(l), value),
           op = "list" => value = listed[Who(l)]
    PROVE  ConsoleInv'
<1>1. Served(l, {op}) /\ Answer(l, TRUE, value)
      /\ UNCHANGED <<view, account, inBrowser, panel, server, clicks, faults, crossed, unshown>>
    BY DEF Read
<1>2. ~Idle(l) /\ R(l).op = op /\ (op # "verify" => Who(l) \in Owners)
    BY <1>1, ServedIs
<1>3. UNCHANGED <<Around, crossed>> /\ StateFits'
    BY <1>1, ReadKept, StateSame DEF ConsoleInv
<1>4. R(l).op = "list" => Who(l) \in Owners /\ value = listed[Who(l)]
    BY <1>2
<1> QED BY <1>1, <1>2, <1>3, <1>4, AnswerKeeps

LEMMA RefusedKeeps == ASSUME ConsoleInv, NEW l \in Lines, ServeRefused(l) PROVE ConsoleInv'
<1>1. ~Idle(l) /\ Answer(l, FALSE, Nothing)
      /\ UNCHANGED <<view, account, inBrowser, panel, server, clicks, faults, crossed, unshown>>
    BY DEF ServeRefused, Waiting
<1>2. UNCHANGED <<Around, crossed>> /\ StateFits'
    BY <1>1, ReadKept, StateSame DEF ConsoleInv
<1>3. Nothing \in Values
    BY DEF Values
<1> QED BY <1>1, <1>2, <1>3, AnswerKeeps

LEMMA ReadIs ==
    ASSUME ConsoleInv, NEW l \in Lines, NEW op, NEW value, Read(l, op, value)
    PROVE  /\ R(l).op = op /\ R(l) \in Requests
           /\ op # "verify" => Who(l) \in Owners
<1>1. Served(l, {op})
    BY DEF Read
<1> QED BY <1>1, ServedIs

LEMMA ReadsKeep ==
    ASSUME ConsoleInv, NEW l \in Lines,
           ServeVerify(l) \/ ServeList(l) \/ ServeJob(l) \/ ServeRows(l) \/ ServeJobs(l)
    PROVE  ConsoleInv'
<1>1. CASE ServeVerify(l)
  <2>1. Read(l, "verify", R(l).arg) /\ R(l).op = "verify" /\ R(l).arg \in Accounts
    BY <1>1, ReadIs, ArgsAre DEF ServeVerify
  <2> QED BY <2>1, ReadKeeps DEF Values, Fits
<1>2. CASE ServeList(l)
  <2> DEFINE list == listed[Who(l)]
  <2>1. Read(l, "list", list) /\ R(l).op = "list" /\ Who(l) \in Owners
    BY <1>2, ReadIs DEF ServeList
  <2>2. list \in Seq(AllWallets)
    BY <2>1 DEF ConsoleInv, StateFits
  <2>3. list = listed[Who(l)]
    OBVIOUS
  <2> HIDE DEF list
  <2>4. list \in Values
    BY <2>2 DEF Values
  <2>5. Fits(R(l), list)
    BY <2>1, <2>2 DEF Fits
  <2> QED BY <2>1, <2>3, <2>4, <2>5, ReadKeeps
<1>3. CASE ServeJob(l)
  <2> DEFINE x == [job |-> R(l).arg, status |-> job[R(l).arg].status]
  <2>1. Read(l, "job", x) /\ R(l).op = "job"
    BY <1>3, ServedIs DEF ServeJob, Read
  <2>2. R(l).arg \in Jobs /\ job[R(l).arg].status \in Statuses
    BY <2>1, ServedIs DEF Read, JobOps
  <2>3. x \in Shown /\ x.job = R(l).arg
    BY <2>2 DEF Shown
  <2> HIDE DEF x
  <2> QED BY <2>1, <2>3, ReadKeeps DEF Values, Fits
<1>4. CASE ServeRows(l)
  <2>1. Read(l, "rows", R(l).arg) /\ R(l).op = "rows" /\ R(l).arg \in {1, 2}
    BY <1>4, ReadIs, ArgsAre DEF ServeRows
  <2> QED BY <2>1, ReadKeeps DEF Values, Fits
<1>5. CASE ServeJobs(l)
  <2> DEFINE list == IF view = "execution" THEN ActiveJobs(Who(l)) ELSE JobsOf(Who(l))
  <2>1. Read(l, "jobs", list) /\ R(l).op = "jobs"
    BY <1>5, ReadIs DEF ServeJobs
  <2>2. list \in SUBSET Jobs
    BY DEF ActiveJobs, JobsOf
  <2> HIDE DEF list
  <2> QED BY <2>1, <2>2, ReadKeeps DEF Values, Fits
<1> QED BY <1>1, <1>2, <1>3, <1>4, <1>5

LEMMA JobsAnswered ==
    ASSUME ConsoleInv, NEW l \in Lines, NEW x \in Shown,
           Served(l, {"start", "pause", "cancel", "queue", "create"}),
           Answer(l, TRUE, x), R(l).op = "start" => x.job = R(l).arg,
           job' \in [Jobs -> [owner : Owners, status : Statuses, loop : BOOLEAN] \cup {NoJob}],
           UNCHANGED <<view, account, inBrowser, panel, listed, clicks, faults, crossed, unshown>>
    PROVE  ConsoleInv'
<1>1. ~Idle(l) /\ R(l).op \in {"start", "pause", "cancel", "queue", "create"}
    BY ServedIs
<1>2. UNCHANGED <<Around, crossed>>
    BY DEF inBrowser, panel, Around
<1>3. StateFits'
    BY DEF inBrowser, panel, ConsoleInv, StateFits
<1>4. x \in Values /\ Fits(R(l), x)
    BY <1>1 DEF Values, Fits
<1> QED BY <1>1, <1>2, <1>3, <1>4, AnswerKeeps

LEMMA CommandKeeps == ASSUME ConsoleInv, NEW l \in Lines, ServeCommand(l) PROVE ConsoleInv'
<1> DEFINE j == R(l).arg
           x == [job |-> j, status |-> job'[j].status]
<1>1. /\ Served(l, {"start", "pause", "cancel", "queue"})
      /\ job' = [job EXCEPT ![j].status = After(R(l).op, @)] /\ Answer(l, TRUE, x)
      /\ UNCHANGED <<view, account, inBrowser, panel, listed, clicks, faults, crossed, unshown>>
    BY DEF ServeCommand
<1>2. R(l).op \in {"start", "pause", "cancel", "queue"}
    BY <1>1, ServedIs
<1>3. j \in Jobs /\ job[j].owner \in Owners /\ job[j].status \in Statuses
    BY <1>1, <1>2, ServedIs DEF JobOps
<1>4. After(R(l).op, job[j].status) \in Statuses
    BY <1>2, <1>3 DEF After, Statuses
<1>5. job \in [Jobs -> [owner : Owners, status : Statuses, loop : BOOLEAN] \cup {NoJob}]
    BY DEF ConsoleInv, StateFits
<1>6. job[j] \in [owner : Owners, status : Statuses, loop : BOOLEAN]
    BY <1>3, <1>5, ConsoleAssumption DEF NoJob
<1> HIDE DEF j
<1>7. job' \in [Jobs -> [owner : Owners, status : Statuses, loop : BOOLEAN] \cup {NoJob}]
    BY <1>1, <1>4, <1>5, <1>6
<1>8. x \in Shown
    BY <1>1, <1>3, <1>4, <1>5, <1>6 DEF Shown
<1>9. Served(l, {"start", "pause", "cancel", "queue", "create"})
    BY <1>1 DEF Served
<1>10. x.job = R(l).arg
    BY DEF j
<1> HIDE DEF x
<1> QED BY <1>1, <1>7, <1>8, <1>9, <1>10, JobsAnswered

LEMMA CreatedKeeps == ASSUME ConsoleInv, NEW l \in Lines, ServeCreate(l) PROVE ConsoleInv'
<1> DEFINE j == CHOOSE k \in Jobs : job[k] = NoJob
           x == [job |-> j, status |-> "queued"]
<1>1. Served(l, {"create"}) /\ j \in Jobs
    BY DEF ServeCreate
<1>2. PICK forever \in BOOLEAN :
          job' = [job EXCEPT ![j] = [owner |-> Who(l), status |-> "queued", loop |-> forever]]
    BY DEF ServeCreate
<1>10. /\ Answer(l, TRUE, x)
       /\ UNCHANGED <<view, account, inBrowser, panel, listed, clicks, faults, crossed, unshown>>
    BY DEF ServeCreate
<1>3. Who(l) \in Owners /\ R(l).op = "create"
    BY <1>1, ServedIs
<1>4. job' \in [Jobs -> [owner : Owners, status : Statuses, loop : BOOLEAN] \cup {NoJob}]
    BY <1>2, <1>3 DEF ConsoleInv, StateFits, Statuses
<1>5. x \in Shown
    BY <1>1 DEF Shown, Statuses
<1>6. Served(l, {"start", "pause", "cancel", "queue", "create"})
    BY <1>1 DEF Served
<1> HIDE DEF x
<1> QED BY <1>10, <1>3, <1>4, <1>5, <1>6, JobsAnswered

\* What is left of a list when one of its wallets is removed.
LEMMA RemovedIs ==
    ASSUME NEW T, NEW s \in Seq(T), NEW i \in DOMAIN s
    PROVE  RemoveAt(s, i) \in Seq(T)
<1>1. Len(s) \in Nat /\ i \in 1 .. Len(s)
    BY LenProperties
<1>2. SubSeq(s, 1, i - 1) \in Seq(T)
  <2>1. \A k \in 1 .. i - 1 : s[k] \in T
    BY <1>1, ElementOfSeq
  <2> QED BY <1>1, <2>1, SubSeqProperties
<1>3. SubSeq(s, i + 1, Len(s)) \in Seq(T)
  <2>1. \A k \in i + 1 .. Len(s) : s[k] \in T
    BY <1>1, ElementOfSeq
  <2> QED BY <1>1, <2>1, SubSeqProperties
<1> QED BY <1>2, <1>3, ConcatProperties DEF RemoveAt

LEMMA PlaceIn ==
    ASSUME NEW list, NEW w \in ToSet(list)
    PROVE  Place(list, w) \in DOMAIN list
BY DEF ToSet, Place

LEMMA UnlistedIs ==
    ASSUME NEW o, NEW set \in SUBSET AllWallets, IsFiniteSet(set)
    PROVE  Unlisted(o, set) \in Seq(AllWallets)
<1> DEFINE rest == set \ ToSet(listed[o])
<1>1. IsFiniteSet(rest) /\ rest \subseteq AllWallets
    BY FS_Subset
<1>2. SetToSeq(rest) \in Seq(rest)
    BY <1>1, SetToSeqIs
<1> HIDE DEF rest
<1>3. SetToSeq(rest) \in Seq(AllWallets)
    BY <1>1, <1>2
<1> QED BY <1>3 DEF Unlisted, rest

\* A change of the list goes on to ask for the list.
LEMMA StoreAsks ==
    ASSUME CallsFit, NEW l \in Lines, ~Idle(l), R(l).op \in StoreOps
    PROVE  /\ "list" \in Ops(l)
           /\ R(l).op \in {"import", "register"} => IsFiniteSet(R(l).arg)
<1> DEFINE t == call[l].todo
           n == Len(t)
<1>1. t \in Seq(Requests) /\ n \in Nat \ {0} /\ R(l) = t[1] /\ Shaped(l, call[l])
    BY CallsAre
<1>2. DOMAIN t = 1 .. n
    BY <1>1, LenProperties
<1>3. 1 \in 1 .. n /\ n \in 1 .. n
    BY <1>1
<1>4. t[n].op = "list" /\ (t[1].op \in {"import", "register"} => IsFiniteSet(t[1].arg))
    BY <1>1, <1>3 DEF Shaped
<1> HIDE DEF n
<1> QED BY <1>1, <1>2, <1>3, <1>4 DEF Ops

LEMMA NewIs ==
    ASSUME ConsoleInv, NEW l \in Lines, Served(l, StoreOps), R(l).op # "drop"
    PROVE  New(l) \in Seq(AllWallets)
<1>1. ~Idle(l) /\ R(l).op \in StoreOps /\ R(l) \in Requests /\ Who(l) \in Owners
    BY ServedIs DEF StoreOps
<1>2. CASE R(l).op = "add"
  <2>1. R(l).arg \in AllWallets
    BY <1>1, <1>2, ArgsAre
  <2>2. New(l) = <<R(l).arg>>
    BY <1>2 DEF New
  <2> QED BY <2>1, <2>2
<1>3. CASE R(l).op \in {"import", "register"}
  <2>1. R(l).arg \in SUBSET AllWallets
    BY <1>1, <1>3, ArgsAre
  <2>2. IsFiniteSet(R(l).arg)
    BY <1>1, <1>3, StoreAsks DEF ConsoleInv
  <2>3. New(l) = Unlisted(Who(l), R(l).arg)
    BY <1>3 DEF New
  <2> QED BY <2>1, <2>2, <2>3, UnlistedIs
<1>4. CASE R(l).op = "derive"
  <2> DEFINE free == Unlisted(Who(l), OwnWallets(Who(l)))
  <2>1. OwnWallets(Who(l)) \in SUBSET AllWallets
    BY <1>1, OwnersAre DEF OwnWallets, AllWallets
  <2>2. IsFiniteSet(OwnWallets(Who(l)))
    BY SpareFinite, PairsFinite DEF OwnWallets
  <2>3. free \in Seq(AllWallets)
    BY <2>1, <2>2, UnlistedIs
  <2>4. New(l) = IF free = <<>> THEN <<>> ELSE <<Head(free)>>
    BY <1>4 DEF New
  <2> HIDE DEF free
  <2>5. free # <<>> => Head(free) \in AllWallets
    BY <2>3, HeadTailProperties
  <2> QED BY <2>4, <2>5
<1> QED BY <1>1, <1>2, <1>3, <1>4 DEF StoreOps

LEMMA StoreKeeps == ASSUME ConsoleInv, NEW l \in Lines, ServeStore(l) PROVE ConsoleInv'
<1> DEFINE o == Who(l)
           list == listed[o]
           value == IF R(l).op \in {"register", "derive"} /\ New(l) # <<>> THEN o ELSE Nothing
           after == IF R(l).op = "drop" THEN RemoveAt(list, Place(list, R(l).arg)) ELSE list \o New(l)
<1>1. CallsFit /\ ListsFit /\ JobsFit /\ RowsFit /\ StateFits
    BY DEF ConsoleInv
<1>2. /\ Served(l, StoreOps) /\ listed' = [listed EXCEPT ![o] = after] /\ Answer(l, TRUE, value)
      /\ crossed' = crossed \cup Crossing("store", {"list"}, Lines \ {l})
      /\ UNCHANGED <<view, account, session, expired, wallets, shown, rowPage, rowsOf, asked, job, unshown>>
    BY DEF ServeStore, StoreOps, inBrowser, panel
<1>3. ~Idle(l) /\ R(l).op \in StoreOps /\ R(l) \in Requests /\ o \in Owners
      /\ (R(l).op = "drop" => R(l).arg \in ToSet(list))
    BY <1>2, ServedIs DEF StoreOps
<1>4. list \in Seq(AllWallets)
    BY <1>1, <1>3 DEF StateFits
<1>5. after \in Seq(AllWallets)
  <2>1. CASE R(l).op = "drop"
    <3>1. Place(list, R(l).arg) \in DOMAIN list
      BY <1>3, <2>1, PlaceIn
    <3> QED BY <1>4, <2>1, <3>1, RemovedIs
  <2>2. CASE R(l).op # "drop"
    <3>1. New(l) \in Seq(AllWallets)
      BY <1>2, <2>2, NewIs
    <3> QED BY <1>4, <2>2, <3>1, ConcatProperties
  <2> QED BY <2>1, <2>2
<1>6. value \in Values /\ Fits(R(l), value)
  <2>1. value \in Accounts \cup {Nothing}
    BY <1>3, OwnersAre
  <2>2. value \in Values
    BY <2>1 DEF Values
  <2> HIDE DEF value
  <2> QED BY <1>3, <2>2 DEF StoreOps, Fits
<1> HIDE DEF after, value
<1>7. StateFits'
    BY <1>1, <1>2, <1>5 DEF StateFits
<1>8. /\ CallsFit' /\ ~Idle(l)'
      /\ call'[l].as = call[l].as /\ call'[l].todo = call[l].todo
      /\ call'[l].got = [fine |-> TRUE, value |-> value]
      /\ \A k \in Lines : Reqs(k)' = Reqs(k) /\ Ops(k)' = Ops(k)
      /\ \A k \in Lines \ {l} : call'[k] = call[k]
    BY <1>1, <1>2, <1>3, <1>6, AnswerGiven
<1>9. ListsFit'
  <2> SUFFICES ASSUME Clean'
               PROVE  /\ \A k \in Lines : "list" \in Ops(k) /\ "verify" \notin Ops(k) => call'[k].as = session
                      /\ \A k \in Lines : ~Arrived(k, {"list"})'
                      /\ ~Quiet({"verify", "list"})'
    BY <1>2, <1>8 DEF ListsFit
  <2>1. Clean /\ \A k \in Lines \ {l} : "list" \notin Ops(k)
    BY <1>2 DEF Clean, Crossing
  <2>2. "list" \in Ops(l)
    BY <1>1, <1>3, StoreAsks
  <2>3. \A k \in Lines : "list" \in Ops(k) /\ "verify" \notin Ops(k) => call'[k].as = session
    BY <1>1, <1>8, <2>1 DEF ListsFit
  <2>4. \A k \in Lines : ~Arrived(k, {"list"})'
    <3>1. ~Arrived(l, {"list"})'
      BY <1>3, <1>8 DEF Arrived, R, StoreOps
    <3>2. \A k \in Lines \ {l} : ~Arrived(k, {"list"})
      BY <1>1, <2>1, ArrivedIs
    <3> QED BY <1>8, <3>1, <3>2, LineSame
  <2>5. ~Quiet({"verify", "list"})'
    BY <1>8, <2>2 DEF Quiet
  <2> QED BY <2>3, <2>4, <2>5
<1>10. JobsFit'
    BY <1>1, <1>2, <1>8, JobsKept
<1>11. \A k \in Lines : RowsLine(k) => RowsLine(k)'
    BY <1>8 DEF RowsLine, Idle
<1>12. RowsFit'
    BY <1>1, <1>2, <1>8, <1>11, RowsKept
<1> QED BY <1>7, <1>8, <1>9, <1>10, <1>12 DEF ConsoleInv

LEMMA ServesKeep == ASSUME ConsoleInv, NEW l \in Lines, Serve(l) PROVE ConsoleInv'
BY RefusedKeeps, ReadsKeep, StoreKeeps, CommandKeeps, CreatedKeeps DEF Serve

-----------------------------------------------------------------------------
(* Answers.                                                                 *)

\* An account was verified, and its list is asked for.
LEMMA SessionKeeps == ASSUME ConsoleInv, NEW l \in Lines, ArriveSession(l) PROVE ConsoleInv'
<1>1. CallsFit /\ ListsFit /\ JobsFit /\ RowsFit /\ StateFits
    BY DEF ConsoleInv
<1>2. /\ Arrived(l, {"verify"}) /\ session' = Value(l) /\ expired' = FALSE
      /\ call' = [call EXCEPT ![l] = Begun("verify", Value(l), FALSE, Tail(call[l].todo))]
      /\ crossed' = crossed \cup Crossing("session", {"list"}, Lines \ {l})
      /\ UNCHANGED <<view, account, wallets, listed, job, unshown, shown, asked, rowsOf, rowPage>>
    BY DEF ArriveSession, panel, server
<1>3. /\ CallsFit' /\ Value(l) \in Accounts
      /\ Reqs(l)' \subseteq Reqs(l) /\ "list" \in Ops(l)'
      /\ ~Idle(l)' /\ call'[l].as = Value(l) /\ call'[l].got = Nothing
      /\ \A k \in Lines \ {l} : call'[k] = call[k]
    BY <1>1, <1>2, Verified
<1>4. StateFits'
    BY <1>1, <1>2, <1>3 DEF StateFits
<1>5. ListsFit'
  <2> SUFFICES ASSUME Clean'
               PROVE  /\ \A k \in Lines : "list" \in Ops(k)' => call'[k].as = session'
                      /\ \A k \in Lines : ~Arrived(k, {"list"})'
                      /\ ~Quiet({"verify", "list"})'
    BY DEF ListsFit
  <2>1. \A k \in Lines \ {l} : "list" \notin Ops(k)
    BY <1>2 DEF Clean, Crossing
  <2>2. \A k \in Lines : "list" \in Ops(k)' => call'[k].as = session'
    BY <1>2, <1>3, <2>1, LineSame
  <2>3. \A k \in Lines : ~Arrived(k, {"list"})'
    <3>1. ~Arrived(l, {"list"})'
      BY <1>3 DEF Arrived
    <3>2. \A k \in Lines \ {l} : ~Arrived(k, {"list"})
      BY <1>1, <2>1, ArrivedIs
    <3> QED BY <1>3, <3>1, <3>2, LineSame
  <2>4. ~Quiet({"verify", "list"})'
    BY <1>3 DEF Quiet
  <2> QED BY <2>2, <2>3, <2>4
<1>6. \A k \in Lines : Reqs(k)' \subseteq Reqs(k)
    BY <1>3, LineSame
<1>7. JobsFit'
    BY <1>1, <1>2, <1>6, JobsKept
<1>8. \A k \in Lines : RowsLine(k) => RowsLine(k)'
  <2>1. R(l).op = "verify" /\ R(l) = call[l].todo[1]
    BY <1>1, <1>2, ArrivedIs, CallsAre
  <2>2. ~RowsLine(l)
    BY <2>1 DEF RowsLine
  <2> QED BY <1>3, <2>2 DEF RowsLine, Idle
<1>9. RowsFit'
    BY <1>1, <1>2, <1>6, <1>8, RowsKept
<1> QED BY <1>3, <1>4, <1>5, <1>7, <1>9 DEF ConsoleInv

\* A handler whose next answer is a list has verified already.
LEMMA ListIsLast ==
    ASSUME CallsFit, NEW l \in Lines, ~Idle(l), R(l).op # "verify"
    PROVE  "verify" \notin Ops(l)
<1>1. /\ call[l].todo \in Seq(Requests) /\ R(l) = call[l].todo[1] /\ Shaped(l, call[l])
    BY CallsAre
<1>2. DOMAIN call[l].todo = 1 .. Len(call[l].todo)
    BY <1>1, LenProperties
<1>3. \A i \in DOMAIN call[l].todo : call[l].todo[i].op # "verify"
    BY <1>1, <1>2 DEF Shaped
<1> QED BY <1>3 DEF Ops

LEMMA ListKeeps == ASSUME ConsoleInv, NEW l \in Lines, ArriveList(l) PROVE ConsoleInv'
<1>1. CallsFit /\ ListsFit /\ JobsFit /\ RowsFit /\ StateFits
    BY DEF ConsoleInv
<1>2. /\ Arrived(l, {"list"}) /\ wallets' = Value(l) /\ Next1(l)
      /\ UNCHANGED <<view, account, session, expired, listed, job, shown, asked, rowsOf, rowPage, crossed>>
    BY DEF ArriveList, panel, server
<1>3. ~Idle(l) /\ R(l).op = "list" /\ "list" \in Ops(l) /\ Fits(R(l), Value(l))
    BY <1>1, <1>2, ArrivedIs
<1>4. CallsFit'
    BY <1>1, <1>2, <1>3, WentOn
<1>5. StateFits'
    BY <1>1, <1>2, <1>3 DEF StateFits, Fits
<1>6. ListsFit'
  <2> SUFFICES ASSUME Clean'
               PROVE  /\ \A k \in Lines : "list" \in Ops(k)' /\ "verify" \notin Ops(k)' => call'[k].as = session'
                      /\ \A k \in Lines :
                          Arrived(k, {"list"})' => call'[k].as \in Owners /\ Value(k)' = listed'[call'[k].as]
                      /\ wallets' = Target'
    BY DEF ListsFit
  <2>1. /\ \A k \in Lines : "list" \in Ops(k) /\ "verify" \notin Ops(k) => call[k].as = session
        /\ \A k \in Lines : Arrived(k, {"list"}) => call[k].as \in Owners /\ Value(k) = listed[call[k].as]
    BY <1>1, <1>2 DEF Clean, ListsFit
  <2>2. \A k \in Lines : "list" \in Ops(k)' /\ "verify" \notin Ops(k)' =>
              "list" \in Ops(k) /\ "verify" \notin Ops(k) /\ call'[k].as = call[k].as
    BY <1>1, <1>2, <1>3, NextLists
  <2>3. \A k \in Lines : Arrived(k, {"list"})' =>
              Arrived(k, {"list"}) /\ call'[k].as = call[k].as /\ Value(k)' = Value(k)
    BY <1>1, <1>2, <1>3, NextLists
  <2>4. wallets' = Target'
    <3>1. call[l].as = session
      BY <1>1, <1>3, <2>1, ListIsLast
    <3> QED BY <1>2, <2>1, <3>1 DEF Target
  <2> QED BY <1>2, <2>1, <2>2, <2>3, <2>4
<1>7. \A k \in Lines : Reqs(k)' \subseteq Reqs(k)
    BY <1>1, <1>2, <1>3, NextLists
<1>8. JobsFit'
    BY <1>1, <1>2, <1>7, JobsKept
<1>9. \A k \in Lines : RowsLine(k) => RowsLine(k)'
    BY <1>1, <1>2, <1>3, NextLists
<1>10. RowsFit'
    BY <1>1, <1>2, <1>7, <1>9, RowsKept
<1> QED BY <1>4, <1>5, <1>6, <1>8, <1>10 DEF ConsoleInv

\* A job was created: the page is told to show it.
LEMMA ShowsCreated == ASSUME ConsoleInv, NEW l \in Lines, ArriveCreated(l) PROVE ConsoleInv'
<1>1. CallsFit /\ ListsFit /\ JobsFit /\ RowsFit /\ StateFits
    BY DEF ConsoleInv
<1>2. /\ Arrived(l, {"create"}) /\ shown' = Value(l) /\ asked' = Value(l).job /\ Next1(l)
      /\ crossed' = crossed \cup Crossing("job", {"job"}, Lines \ {l})
      /\ UNCHANGED <<view, account, session, expired, wallets, listed, job, unshown, rowsOf, rowPage>>
    BY DEF ArriveCreated, inBrowser, server
<1>3. ~Idle(l) /\ R(l).op = "create" /\ Value(l) \in Shown
    BY <1>1, <1>2, ArrivedIs DEF Fits
<1>4. l = "hand" /\ Len(call[l].todo) = 1
  <2>1. R(l) = call[l].todo[1] /\ Shaped(l, call[l]) /\ Len(call[l].todo) \in Nat \ {0}
    BY <1>1, <1>3, CallsAre
  <2>2. 1 \in 1 .. Len(call[l].todo)
    BY <2>1
  <2> QED BY <1>3, <2>1, <2>2 DEF Shaped
<1>5. CallsFit' /\ Idle(l)' /\ \A k \in Lines \ {l} : call'[k] = call[k]
    BY <1>1, <1>2, <1>3, <1>4, WentOn
<1>6. StateFits'
    BY <1>1, <1>2, <1>3 DEF StateFits, Shown
<1>7. ListsFit'
  <2>1. \A k \in Lines : "list" \in Ops(k)' /\ "verify" \notin Ops(k)' =>
              "list" \in Ops(k) /\ "verify" \notin Ops(k) /\ call'[k].as = call[k].as
    BY <1>1, <1>2, <1>3, NextLists
  <2>2. \A k \in Lines : Arrived(k, {"list"})' =>
              Arrived(k, {"list"}) /\ call'[k].as = call[k].as /\ Value(k)' = Value(k)
    BY <1>1, <1>2, <1>3, NextLists
  <2>3. \A k \in Lines : Ops(k) \cap {"verify", "list"} \subseteq Ops(k)'
    BY <1>1, <1>2, <1>3, NextLists
  <2> QED BY <1>1, <1>2, <2>1, <2>2, <2>3, ListsKept
<1>8. JobsFit'
  <2> SUFFICES ASSUME "job" \notin crossed'
               PROVE  \A k \in Lines : \A r \in Reqs(k)' : r.op \notin {"job", "start"}
    BY <1>2 DEF JobsFit
  <2>1. \A k \in Lines \ {l} : "job" \notin Ops(k)
    BY <1>2 DEF Crossing
  <2>2. \A k \in Lines \ {l} : "start" \notin Ops(k)
    <3>1. ASSUME NEW k \in Lines \ {l}, ~Idle(k) PROVE \A r \in Reqs(k) : r.op # "start"
      <4>1. Shaped(k, call[k]) /\ call[k].todo \in Seq(Requests)
        BY <1>1, <3>1, CallsAre
      <4>2. DOMAIN call[k].todo = 1 .. Len(call[k].todo)
        BY <4>1, LenProperties
      <4> QED BY <1>4, <4>1, <4>2 DEF Shaped, Reqs
    <3> QED BY <3>1 DEF Ops, Reqs
  <2>3. Reqs(l)' = {}
    BY <1>5 DEF Reqs
  <2>4. \A k \in Lines \ {l} : \A r \in Reqs(k) : r.op \notin {"job", "start"}
    BY <2>1, <2>2, OpsAre
  <2> QED BY <1>5, <2>3, <2>4, LineSame
<1>9. \A k \in Lines : Reqs(k)' \subseteq Reqs(k)
    BY <1>1, <1>2, <1>3, NextLists
<1>10. \A k \in Lines : RowsLine(k) => RowsLine(k)'
    BY <1>1, <1>2, <1>3, NextLists
<1>11. RowsFit'
    BY <1>1, <1>2, <1>9, <1>10, RowsKept
<1> QED BY <1>5, <1>6, <1>7, <1>8, <1>11 DEF ConsoleInv

LEMMA StoredKeeps == ASSUME ConsoleInv, NEW l \in Lines, ArriveStore(l) PROVE ConsoleInv'
<1>1. ~Idle(l) /\ R(l).op \in StoreOps
    BY ArrivedIs DEF ArriveStore, ConsoleInv, StoreOps
<1>2. /\ Next1(l)
      /\ UNCHANGED <<view, account, session, expired, wallets, listed, job, unshown, shown, asked,
                     rowsOf, rowPage, crossed>>
    BY DEF ArriveStore, panel, server
<1>3. StateFits'
    BY <1>2, StateSame DEF ConsoleInv
<1>4. R(l).op \notin {"verify", "list"} /\ R(l).op # "rows"
    BY <1>1 DEF StoreOps
<1> QED BY <1>1, <1>2, <1>3, <1>4, NextKeeps

LEMMA ListedKeeps == ASSUME ConsoleInv, NEW l \in Lines, ListJobs(l) PROVE ConsoleInv'
<1>1. ~Idle(l) /\ R(l).op = "jobs"
    BY ArrivedIs DEF ListJobs, ConsoleInv
<1>2. /\ Next1(l)
      /\ UNCHANGED <<view, account, session, expired, wallets, listed, job, unshown, shown, asked,
                     rowsOf, rowPage, crossed>>
    BY DEF ListJobs, panel, server
<1>3. StateFits'
    BY <1>2, StateSame DEF ConsoleInv
<1> QED BY <1>1, <1>2, <1>3, NextKeeps

LEMMA CommandedKeeps == ASSUME ConsoleInv, NEW l \in Lines, ArriveCommand(l) PROVE ConsoleInv'
<1>1. ~Idle(l) /\ R(l).op \in {"start", "pause", "cancel", "queue"}
    BY ArrivedIs DEF ArriveCommand, ConsoleInv
<1>2. /\ Next1(l)
      /\ UNCHANGED <<view, account, session, expired, wallets, listed, job, unshown, shown, asked,
                     rowsOf, rowPage, crossed>>
    BY DEF ArriveCommand, inBrowser, panel, server
<1>3. StateFits'
    BY <1>2, StateSame DEF ConsoleInv
<1> QED BY <1>1, <1>2, <1>3, NextKeeps

\* The job shown is the one asked for.
LEMMA ShowsAsked ==
    ASSUME ConsoleInv, NEW l \in Lines, ArriveJob(l) \/ ArriveDetail(l)
    PROVE  ConsoleInv'
<1>1. PICK ops \in {{"job", "start"}, {"job"}} : Arrived(l, ops)
    BY DEF ArriveJob, ArriveDetail
<1>2. ~Idle(l) /\ R(l).op \in {"job", "start"} /\ R(l) \in Reqs(l) /\ Fits(R(l), Value(l))
    BY <1>1, ArrivedIs DEF ConsoleInv
<1>3. Value(l) \in Shown /\ Value(l).job = R(l).arg
    BY <1>2 DEF Fits
<1>4. "job" \notin crossed => Value(l).job = asked
    BY <1>2, <1>3 DEF ConsoleInv, JobsFit
<1>5. /\ Next1(l) /\ shown' = Value(l)
      /\ UNCHANGED <<view, account, session, expired, wallets, listed, job, unshown, asked, rowsOf,
                     rowPage, crossed>>
    BY DEF ArriveJob, ArriveDetail, ShowAnswer, inBrowser, server
<1>6. StateFits'
    BY <1>3, <1>5 DEF ConsoleInv, StateFits
<1>7. R(l).op \notin {"verify", "list"} /\ R(l).op # "rows"
    BY <1>2
<1> QED BY <1>2, <1>4, <1>5, <1>6, <1>7, NextKeeps

\* The rows shown are those asked for.
LEMMA ShowsRows == ASSUME ConsoleInv, NEW l \in Lines, ArriveRows(l) PROVE ConsoleInv'
<1>1. ~Idle(l) /\ R(l).op = "rows" /\ R(l) \in Reqs(l) /\ Fits(R(l), Value(l))
    BY ArrivedIs DEF ArriveRows, ConsoleInv
<1>2. "rows" \notin crossed => Value(l) = rowPage
    BY <1>1 DEF ConsoleInv, RowsFit, Fits
<1>3. /\ Next1(l) /\ rowsOf' = Value(l)
      /\ UNCHANGED <<view, account, session, expired, wallets, listed, job, unshown, shown, asked,
                     rowPage, crossed>>
    BY DEF ArriveRows, inBrowser, server
<1>4. StateFits'
    BY <1>3, StateSame DEF ConsoleInv
<1> QED BY <1>1, <1>2, <1>3, <1>4, NextKeeps

\* An answer that failed is skipped.
LEMMA SkipKeeps ==
    ASSUME ConsoleInv, NEW l \in Lines, ~Idle(l), NEW lost, Skipped(l, lost), Skip(l),
           UNCHANGED <<view, account, server, clicks>>
    PROVE  ConsoleInv'
<1>1. R(l).op \in {"job", "jobs", "rows"}
    BY DEF Skipped
<1>2. /\ Next1(l) /\ shown' \in {Nothing, shown} /\ rowsOf' \in {Nothing, rowsOf}
      /\ (R(l).op = "rows" => rowsOf' = Nothing)
      /\ UNCHANGED <<view, account, session, expired, wallets, listed, job, unshown, asked, rowPage, crossed>>
    BY DEF Skip, inBrowser, server
<1>3. StateFits'
    BY <1>2 DEF ConsoleInv, StateFits
<1>4. R(l).op \notin {"verify", "list"}
    BY <1>1
<1> QED BY <1>2, <1>3, <1>4, NextKeeps

\* A handler that failed has left its line: what other lines wait for.
LEMMA FailsKeep ==
    ASSUME ConsoleInv, NEW l \in Lines, ~Idle(l), NEW lost, ~Skipped(l, lost), HandlerFails(l),
           UNCHANGED <<view, account, server, clicks>>
    PROVE  ConsoleInv'
<1>1. CallsFit /\ ListsFit /\ JobsFit /\ RowsFit /\ StateFits
    BY DEF ConsoleInv
<1>2. /\ call' = [call EXCEPT ![l] = Nothing]
      /\ UNCHANGED <<view, account, listed, job, shown, asked, rowsOf, rowPage>>
      /\ crossed \subseteq crossed'
      /\ \/ session' = Nothing /\ expired' = FALSE /\ wallets' = <<>>
         \/ UNCHANGED <<session, expired, wallets>>
    BY DEF HandlerFails, Clear, inBrowser, server
<1>3. CallsFit' /\ Idle(l)' /\ Reqs(l)' = {} /\ \A k \in Lines \ {l} : call'[k] = call[k]
    BY <1>1, <1>2, Dropped
<1>4. StateFits'
  <2>1. <<>> \in Seq(AllWallets)
    OBVIOUS
  <2> QED BY <1>1, <1>2, <2>1 DEF StateFits
<1>5. /\ Shaped(l, call[l]) /\ call[l].todo \in Seq(Requests) /\ R(l) = call[l].todo[1]
      /\ Len(call[l].todo) \in Nat \ {0}
    BY <1>1, CallsAre
<1>6. Ops(l)' = {} /\ ~Arrived(l, {"list"})'
    BY <1>3 DEF Ops, Arrived
<1>7. ListsFit'
  <2>1. CASE call[l].kind = "verify"
    <3>1. /\ session' = Nothing /\ wallets' = <<>>
          /\ crossed' = crossed \cup Crossing("session", {"list"}, Lines \ {l})
      BY <2>1 DEF HandlerFails, Clear
    <3> SUFFICES ASSUME Clean'
                 PROVE  /\ \A k \in Lines : "list" \notin Ops(k)'
                        /\ \A k \in Lines : ~Arrived(k, {"list"})'
                        /\ wallets' = Target'
      BY DEF ListsFit
    <3>2. \A k \in Lines \ {l} : "list" \notin Ops(k)
      BY <3>1 DEF Clean, Crossing
    <3>3. \A k \in Lines : "list" \notin Ops(k)'
      BY <1>3, <1>6, <3>2, LineSame
    <3>4. \A k \in Lines : ~Arrived(k, {"list"})'
      <4>1. \A k \in Lines \ {l} : ~Arrived(k, {"list"})
        BY <1>1, <3>2, ArrivedIs
      <4> QED BY <1>3, <1>6, <4>1, LineSame
    <3>5. wallets' = Target'
      BY <3>1, ConsoleAssumption DEF Target
    <3> QED BY <3>3, <3>4, <3>5
  <2>2. CASE call[l].kind # "verify"
    <3>1. /\ UNCHANGED <<session, wallets, crossed>>
          /\ unshown' = (unshown \/ "list" \in Ops(l))
      BY <2>2 DEF HandlerFails, inBrowser
    <3>2. "verify" \notin Ops(l)
      <4>1. DOMAIN call[l].todo = 1 .. Len(call[l].todo)
        BY <1>5, LenProperties
      <4>2. \A i \in DOMAIN call[l].todo : call[l].todo[i].op # "verify"
        BY <1>5, <2>2, <4>1 DEF Shaped
      <4> QED BY <4>2 DEF Ops
    <3> SUFFICES ASSUME Clean'
                 PROVE  /\ \A k \in Lines : "list" \in Ops(k)' /\ "verify" \notin Ops(k)' => call'[k].as = session'
                        /\ \A k \in Lines :
                            Arrived(k, {"list"})' => call'[k].as \in Owners /\ Value(k)' = listed'[call'[k].as]
                        /\ Quiet({"verify", "list"})' /\ ~unshown' => wallets' = Target'
      BY DEF ListsFit
    <3>3. /\ \A k \in Lines : "list" \in Ops(k) /\ "verify" \notin Ops(k) => call[k].as = session
          /\ \A k \in Lines : Arrived(k, {"list"}) => call[k].as \in Owners /\ Value(k) = listed[call[k].as]
          /\ Quiet({"verify", "list"}) /\ ~unshown => wallets = Target
      BY <1>1, <1>2, <3>1 DEF Clean, ListsFit
    <3>4. \A k \in Lines : "list" \in Ops(k)' /\ "verify" \notin Ops(k)' => call'[k].as = session'
      BY <1>3, <1>6, <3>1, <3>3, LineSame
    <3>5. \A k \in Lines :
              Arrived(k, {"list"})' => call'[k].as \in Owners /\ Value(k)' = listed'[call'[k].as]
      BY <1>2, <1>3, <1>6, <3>3, LineSame
    <3>6. Quiet({"verify", "list"})' /\ ~unshown' => Quiet({"verify", "list"}) /\ ~unshown
      BY <1>3, <3>1, <3>2, LineSame DEF Quiet
    <3>7. Target' = Target
      BY <1>2, <3>1 DEF Target
    <3> QED BY <3>1, <3>3, <3>4, <3>5, <3>6, <3>7
  <2> QED BY <2>1, <2>2
<1>8. \A k \in Lines : Reqs(k)' \subseteq Reqs(k)
    BY <1>3, LineSame
<1>9. JobsFit'
    BY <1>1, <1>2, <1>8, JobsKept
<1>10. ~RowsLine(l)
  <2>1. R(l).op = "rows" => view = "detail"
    <3>1. 1 \in 1 .. Len(call[l].todo)
      BY <1>5
    <3> QED BY <1>5, <3>1 DEF Shaped
  <2>2. R(l).op # "rows"
    BY <2>1 DEF Skipped
  <2> QED BY <1>5, <2>2 DEF RowsLine
<1>11. \A k \in Lines : RowsLine(k) => RowsLine(k)'
    BY <1>3, <1>10 DEF RowsLine, Idle
<1>12. RowsFit'
    BY <1>1, <1>2, <1>8, <1>11, RowsKept
<1> QED BY <1>3, <1>4, <1>7, <1>9, <1>12 DEF ConsoleInv

LEMMA FailKeeps ==
    ASSUME ConsoleInv, NEW l \in Lines, ~Idle(l), NEW lost, Fail(l, lost)
    PROVE  ConsoleInv'
BY SkipKeeps, FailsKeep DEF Fail

LEMMA ArrivesKeep == ASSUME ConsoleInv, NEW l \in Lines, Arrive(l) PROVE ConsoleInv'
<1>1. ASSUME ArriveRefused(l) PROVE ConsoleInv'
    BY <1>1, FailKeeps DEF ArriveRefused
<1> QED BY <1>1, SessionKeeps, ListKeeps, StoredKeeps, ListedKeeps, ShowsAsked, CommandedKeeps, ShowsCreated,
           ShowsRows DEF Arrive, ArriveActive, ArriveHistory

LEMMA LoseKeeps == ASSUME ConsoleInv, NEW l \in Lines, Lose(l) PROVE ConsoleInv'
BY FailKeeps DEF Lose

-----------------------------------------------------------------------------
(* The page is mounted; every step.                                         *)

\* What a page loads as it is mounted.
LEMMA RestoredIs ==
    ASSUME Init, session # Nothing
    PROVE  /\ Restored \in Calls /\ Shaped("restore", Restored)
           /\ Restored.as = session /\ Restored.got = Nothing
           /\ view = "detail" => Restored.todo = <<Req("job", asked)>>
           /\ view # "detail" => /\ \A i \in 1 .. Len(Restored.todo) : Restored.todo[i].op \in {"list", "jobs"}
                                 /\ Restored.todo[1].op = "list"
<1>1. session \in Accounts \cup {Nothing}
    BY OwnersAre, ConsoleAssumption DEF Init, One
<1>2. ASSUME NEW todo \in Seq(Requests), Restored = Begun("restore", session, FALSE, todo)
      PROVE  Restored \in Calls /\ Restored.as = session /\ Restored.got = Nothing /\ Restored.todo = todo
    BY <1>1, <1>2 DEF Begun, Calls
<1>3. CASE view = "detail"
  <2> DEFINE todo == <<Req("job", asked)>>
  <2>1. asked \in Jobs
    BY <1>3, ConsoleAssumption DEF Init
  <2>2. todo \in Seq(Requests) /\ Len(todo) = 1 /\ todo[1].op = "job"
    BY <2>1, ReqsTyped DEF Req
  <2>3. Restored = Begun("restore", session, FALSE, todo)
    BY <1>3 DEF Restored, ShowJob, Suite
  <2> HIDE DEF todo
  <2>4. Restored \in Calls /\ Restored.as = session /\ Restored.got = Nothing /\ Restored.todo = todo
    BY <1>2, <2>2, <2>3
  <2>5. Len(todo) > 0 /\ \A i \in 1 .. Len(todo) : todo[i].op = "job"
    BY <2>2
  <2>6. Shaped("restore", Restored)
    BY <2>4, <2>5 DEF Shaped, StoreOps
  <2> QED BY <1>3, <2>4, <2>6 DEF todo
<1>4. CASE view # "detail"
  <2>1. PICK todo \in {ShowMix, ShowSuite} : Restored = Begun("restore", session, FALSE, todo)
    <3>1. view = "mix" \/ view \in Suite
      BY <1>4 DEF Init
    <3> DEFINE todo == CASE view = "detail" -> ShowJob
                         [] view = "mix" -> ShowMix
                         [] view \in Suite -> ShowSuite
    <3>2. todo \in {ShowMix, ShowSuite}
      BY <1>4, <3>1
    <3>3. Restored = Begun("restore", session, FALSE, todo)
      BY DEF Restored
    <3> HIDE DEF todo
    <3> QED BY <3>2, <3>3
  <2>2. todo = <<Req("list", 0)>> \/ todo = <<Req("list", 0), Req("jobs", 0)>>
    BY <2>1 DEF ShowMix, ShowSuite
  <2>3. todo \in Seq(Requests)
    <3>1. Req("list", 0) \in Requests /\ Req("jobs", 0) \in Requests
      BY ReqsTyped
    <3>2. \A a, b \in Requests : <<a>> \in Seq(Requests) /\ <<a, b>> \in Seq(Requests)
      OBVIOUS
    <3>3. CASE todo = <<Req("list", 0)>>
      BY <3>1, <3>2, <3>3
    <3>4. CASE todo = <<Req("list", 0), Req("jobs", 0)>>
      BY <3>1, <3>2, <3>4
    <3> QED BY <2>2, <3>3, <3>4
  <2>4. /\ Len(todo) > 0 /\ todo[1].op = "list"
        /\ \A i \in 1 .. Len(todo) : todo[i].op \in {"list", "jobs"}
    <3>1. CASE todo = <<Req("list", 0)>>
      BY <3>1 DEF Req
    <3>2. CASE todo = <<Req("list", 0), Req("jobs", 0)>>
      BY <3>2 DEF Req
    <3> QED BY <2>2, <3>1, <3>2
  <2>5. Restored \in Calls /\ Restored.as = session /\ Restored.got = Nothing /\ Restored.todo = todo
    BY <1>2, <2>1, <2>3
  <2>6. Shaped("restore", Restored)
    BY <2>4, <2>5 DEF Shaped, StoreOps
  <2> QED BY <1>4, <2>4, <2>5, <2>6
<1> QED BY <1>3, <1>4

LEMMA RestoredRowsIs ==
    ASSUME Init, view = "detail"
    PROVE  /\ RestoredRows \in Calls /\ Shaped("rows", RestoredRows) /\ RestoredRows.got = Nothing
           /\ RestoredRows.todo = <<Req("rows", 1)>>
<1>1. session \in Accounts \cup {Nothing}
    BY OwnersAre, ConsoleAssumption DEF Init, One
<1> DEFINE todo == <<Req("rows", 1)>>
<1>2. todo \in Seq(Requests) /\ Len(todo) = 1 /\ todo[1].op = "rows"
    BY ReqsTyped DEF Req
<1>3. RestoredRows = Begun("rows", session, FALSE, todo)
    BY DEF RestoredRows
<1> HIDE DEF todo
<1>4. RestoredRows \in Calls /\ RestoredRows.got = Nothing /\ RestoredRows.todo = todo
    BY <1>1, <1>2, <1>3 DEF Begun, Calls
<1>5. Len(todo) > 0 /\ \A i \in 1 .. Len(todo) : todo[i].op = "rows"
    BY <1>2
<1>6. Shaped("rows", RestoredRows)
    BY <1>4, <1>5 DEF Shaped, StoreOps
<1> QED BY <1>4, <1>6 DEF todo

LEMMA ConsoleStarts == ASSUME Init PROVE ConsoleInv
<1>1. One \in Owners /\ Owners \subseteq Accounts /\ Nothing \notin Accounts
    BY OwnersAre, ConsoleAssumption DEF One
<1>2. session \in {One, Nothing}
    BY DEF Init
<1>3. StateFits
  <2>1. view \in Suite \cup {"mix", "detail"} /\ expired \in BOOLEAN
        /\ account \in Accounts \cup {Nothing} /\ session \in Accounts \cup {Nothing}
    BY <1>1, <1>2 DEF Init
  <2>2. wallets \in Seq(AllWallets) /\ shown \in Shown \cup {Nothing} /\ rowPage \in {1, 2}
    BY DEF Init
  <2>3. asked \in Jobs \cup {Nothing} /\ (view = "detail" => asked \in Jobs)
    BY ConsoleAssumption DEF Init
  <2>4. listed \in [Owners -> Seq(AllWallets)]
    <3>1. ASSUME NEW o \in Owners PROVE <<<<o, 0>>, <<o, 1>>>> \in Seq(AllWallets)
      <4>1. <<o, 0>> \in AllWallets /\ <<o, 1>> \in AllWallets
        BY <1>1, ConsoleAssumption DEF AllWallets
      <4> QED BY <4>1
    <3> QED BY <3>1 DEF Init
  <2>5. job \in [Jobs -> [owner : Owners, status : Statuses, loop : BOOLEAN] \cup {NoJob}]
    BY DEF Init
  <2> QED BY <2>1, <2>2, <2>3, <2>4, <2>5 DEF StateFits
<1>4. call = [l \in Lines |->
                IF session # Nothing /\ l = "restore" THEN Restored
                ELSE IF view = "detail" /\ l = "rows" THEN RestoredRows
                ELSE Nothing]
    BY DEF Init
<1>5. \A l \in Lines :
        \/ Idle(l)
        \/ session # Nothing /\ l = "restore" /\ call[l] = Restored
        \/ view = "detail" /\ l = "rows" /\ call[l] = RestoredRows
    BY <1>4 DEF Idle
<1>6. CallsFit
  <2>1. call \in [Lines -> Calls \cup {Nothing}]
    BY <1>4, RestoredIs, RestoredRowsIs
  <2>2. \A l \in Lines : ~Idle(l) => Shaped(l, call[l])
    BY <1>5, RestoredIs, RestoredRowsIs
  <2> QED BY <2>1, <2>2 DEF CallsFit
<1>7. ListsFit
  <2> SUFFICES ASSUME view # "detail"
               PROVE  /\ \A l \in Lines : "list" \in Ops(l) => call[l].as = session
                      /\ \A l \in Lines : ~Arrived(l, {"list"})
                      /\ Quiet({"verify", "list"}) => wallets = Target
    BY DEF ListsFit, Clean
  <2>1. \A l \in Lines : Idle(l) \/ (session # Nothing /\ l = "restore" /\ call[l] = Restored)
    BY <1>5
  <2>2. \A l \in Lines : "list" \in Ops(l) => call[l].as = session
    BY <2>1, RestoredIs DEF Ops
  <2>3. \A l \in Lines : ~Arrived(l, {"list"})
    BY <2>1, RestoredIs DEF Arrived
  <2>4. ASSUME Quiet({"verify", "list"}) PROVE wallets = Target
    <3>1. session = Nothing
      <4> SUFFICES ASSUME session # Nothing PROVE "list" \in Ops("restore")
        BY <2>4, LinesAre DEF Quiet
      <4>1. call["restore"] = Restored /\ "restore" \in Lines
        BY <1>4, LinesAre
      <4>2. Restored \in Calls /\ Len(Restored.todo) > 0 /\ Restored.todo[1].op = "list"
        BY RestoredIs DEF Shaped
      <4>3. Restored.todo \in Seq(Requests)
        BY <4>2 DEF Calls
      <4>4. DOMAIN Restored.todo = 1 .. Len(Restored.todo) /\ Len(Restored.todo) \in Nat
        BY <4>3, LenProperties
      <4>5. 1 \in DOMAIN Restored.todo /\ Restored # Nothing
        BY <4>2, <4>4, NothingAssumption
      <4> QED BY <4>1, <4>2, <4>5 DEF Ops, Idle
    <3> QED BY <1>1, <3>1 DEF Init, Target
  <2> QED BY <2>2, <2>3, <2>4
<1>8. \A l \in Lines : \A r \in Reqs(l) :
          r.op \in {"list", "jobs"} \/ r = Req("job", asked) \/ r = Req("rows", 1)
  <2> TAKE l \in Lines
  <2>1. CASE Idle(l)
    BY <2>1 DEF Reqs
  <2>2. CASE session # Nothing /\ call[l] = Restored
    <3>1. Restored.todo \in Seq(Requests)
      BY <2>2, RestoredIs DEF Calls
    <3>2. DOMAIN Restored.todo = 1 .. Len(Restored.todo)
      BY <3>1, LenProperties
    <3>3. CASE view = "detail"
      BY <2>2, <3>3, RestoredIs DEF Reqs
    <3>4. CASE view # "detail"
      BY <2>2, <3>2, <3>4, RestoredIs DEF Reqs
    <3> QED BY <3>3, <3>4
  <2>3. CASE view = "detail" /\ call[l] = RestoredRows
    BY <2>3, RestoredRowsIs DEF Reqs
  <2> QED BY <1>5, <2>1, <2>2, <2>3
<1>9. \A l \in Lines : \A r \in Reqs(l) :
          (r.op \in {"job", "start"} => r.arg = asked) /\ (r.op = "rows" => r.arg = 1)
  <2> TAKE l \in Lines
  <2> TAKE r \in Reqs(l)
  <2>1. CASE r.op \in {"list", "jobs"}
    BY <2>1
  <2>2. CASE r = Req("job", asked) \/ r = Req("rows", 1)
    BY <2>2 DEF Req
  <2> QED BY <1>8, <2>1, <2>2
<1>10. JobsFit
    BY <1>9 DEF Init, JobsFit
<1>11. RowsFit
    BY <1>9 DEF Init, RowsFit
<1> QED BY <1>3, <1>6, <1>7, <1>10, <1>11 DEF ConsoleInv

LEMMA ProgressKeeps == ASSUME ConsoleInv, Progress PROVE ConsoleInv'
BY ServesKeep, ArrivesKeep, TicksKeep, JobsMove DEF Progress

LEMMA ConsoleSteps == ASSUME ConsoleInv, [Next]_vars PROVE ConsoleInv'
<1>1. CASE UNCHANGED vars
  <2>1. UNCHANGED <<Around, call, crossed>> /\ StateFits'
    BY <1>1 DEF vars, inBrowser, panel, server, Around, ConsoleInv, StateFits
  <2> QED BY <2>1, IdleKeeps
<1>2. CASE Next
  <2>1. ASSUME NEW a \in Accounts \cup {Nothing}, Switch(a) \/ Connect(a) PROVE ConsoleInv'
    BY <2>1, LeaveKeeps, AccountKeeps DEF Connect
  <2>2. CASE Logout
    BY <2>2, LeaveKeeps
  <2>3. CASE Disconnect
    BY <2>3, AccountKeeps DEF Disconnect
  <2>4. CASE Verify \/ VerifyMix
    BY <2>4, VerifyKeeps
  <2>5. CASE Choose \/ ChooseMix
    BY <2>5, ChooseKeeps DEF Choose, ChooseMix
  <2>6. CASE \/ \E w \in OwnWallets(session) \ ToSet(wallets) : AddWallet(w)
             \/ \E set \in SUBSET ({session} \X (1 .. Spare)) : ImportWallets(set) \/ RegisterEnv(set)
             \/ \E w \in Removable : RemoveWallet(w)
             \/ \E chosen \in SUBSET Removable : RemoveWallets(chosen)
             \/ GenerateHd
    BY <2>6, WalletsKeep
  <2>7. CASE Create \/ CreateRotation
    BY <2>7, CreateKeeps
  <2>8. CASE StartShown \/ StartRotation
    BY <2>8, StartKeeps
  <2>9. CASE (\E op \in {"start", "pause", "cancel"} : Post(op)) \/ RetryFailed
    BY <2>9, PostKeeps DEF Post, RetryFailed
  <2>10. CASE Refresh
    BY <2>10, RefreshKeeps
  <2>11. CASE ChoosePage
    BY <2>11, ChoosePageKeeps
  <2>12. CASE Progress
    BY <2>12, ProgressKeeps
  <2>13. ASSUME NEW l \in Lines, Lose(l) PROVE ConsoleInv'
    BY <2>13, LoseKeeps
  <2>14. ASSUME NEW j \in Jobs, Rerun(j) \/ Elsewhere(j) PROVE ConsoleInv'
    BY <2>14, JobsMove
  <2>15. CASE Expire
    BY <2>15, ExpireKeeps
  <2> QED BY <1>2, <2>1, <2>2, <2>3, <2>4, <2>5, <2>6, <2>7, <2>8, <2>9, <2>10, <2>11, <2>12,
             <2>13, <2>14, <2>15 DEF Next
<1> QED BY <1>1, <1>2

\* The pages keep to the console: a step of the lists leaves it alone.
LEMMA PagesSteps == ASSUME ConsoleInv, [PagesNext]_pages PROVE ConsoleInv'
<1>1. [Next]_vars
    BY DEF PagesNext, PlanNext, ConsoleNext, pages
<1> QED BY <1>1, ConsoleSteps

\* What is on its way on the lines of a page fits what the page shows.
THEOREM ConsoleIsKept == PagesSpec => []ConsoleInv
<1>1. PagesInit => ConsoleInv
    BY ConsoleStarts DEF PagesInit
<1>2. ConsoleInv /\ [PagesNext]_pages => ConsoleInv'
    BY PagesSteps
<1> QED BY <1>1, <1>2, PTL DEF PagesSpec

LEMMA StoredShown == ASSUME ConsoleInv PROVE WalletsAreStored
BY DEF ConsoleInv, ListsFit, Clean, Target, WalletsAreStored

\* When no list is on its way the wallets shown are what the server stores for the
\* session, for every number of lines, accounts, wallets and steps.
THEOREM WalletsShownAreStored == PagesSpec => []WalletsAreStored
<1>1. ConsoleInv => WalletsAreStored
    BY StoredShown
<1> QED BY <1>1, ConsoleIsKept, PTL

LEMMA AskedShown == ASSUME ConsoleInv PROVE ShownIsAsked
<1>1. shown # Nothing /\ "job" \notin crossed => shown.job = asked
    BY DEF ConsoleInv, JobsFit
<1>2. ASSUME rowsOf # Nothing, "rows" \notin crossed, Quiet({"rows"}) PROVE rowsOf = rowPage
  <2>1. ASSUME NEW l \in Lines, RowsLine(l) PROVE "rows" \in Ops(l)
    <3>1. R(l).op = "rows" /\ R(l) \in Reqs(l)
      BY <2>1, CallsAre DEF ConsoleInv, RowsLine
    <3> QED BY <3>1, OpsAre
  <2> QED BY <1>2, <2>1 DEF ConsoleInv, RowsFit, RowsLine, Quiet
<1> QED BY <1>1, <1>2 DEF ShownIsAsked

\* The page shows the job it was last told to show and the page of rows chosen,
\* unless an answer was on its way when that changed.
THEOREM JobShownIsAsked == PagesSpec => []ShownIsAsked
<1>1. ConsoleInv => ShownIsAsked
    BY AskedShown
<1> QED BY <1>1, ConsoleIsKept, PTL

\* What the page shows is stored and was asked for also when the recipients on
\* it are worked on at any time.
THEOREM ConsoleAlone == Spec => [](WalletsAreStored /\ ShownIsAsked)
<1>1. Init => ConsoleInv
    BY ConsoleStarts
<1>2. ConsoleInv /\ [Next]_vars => ConsoleInv'
    BY ConsoleSteps
<1>3. ConsoleInv => WalletsAreStored /\ ShownIsAsked
    BY StoredShown, AskedShown
<1> QED BY <1>1, <1>2, <1>3, PTL DEF Spec
=============================================================================
