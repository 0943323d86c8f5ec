----------------------------- MODULE WalletProofs -----------------------------
(***************************************************************************)
(* Theorems about the two places wallets come from.  WalletStore, for every *)
(* number of processes and wallets: types without restriction, and what     *)
(* callers were told as long as no two operations met and no write was      *)
(* lost.  WalletBatches, for any batches, totals, chunk size, loops and     *)
(* owners, any number of deaths, failed calls and resumes: stored indexes   *)
(* are contiguous, the counter is exact, completed batches are full and     *)
(* generators of one batch do not collide.                                  *)
(***************************************************************************)
EXTENDS WalletStore, WalletBatches, TLAPS

-----------------------------------------------------------------------------
(* Types. *)

Storable == Addresses \ {Primary}
Wallets == UNION {[S -> {"hd", "added"}] : S \in SUBSET Storable}
Stages == {"idle", "start", "check", "change", "save", "write", "record"}
Batch == {"generate", "register"}

FileRec == [wallets : Wallets, time : Nat, torn : BOOLEAN]

\* An operation is at an address it may store; a batch at an index, once it
\* has one.
OpOK(o, s) ==
    /\ IF s = "idle" THEN o = Nothing ELSE o \in Operations
    /\ s = "start" => o.kind = "generate"
    /\ s \in {"start", "check", "change"} => o.left > 0
    /\ s \in {"change", "save", "write", "record"} => o.kind # "look"
    /\ s \notin {"idle", "start"} => IF o.kind \in Batch THEN o.at \in Nat ELSE o.at \in Storable
    /\ s = "change" => o.at \in Storable

Typed ==
    /\ file \in FileRec
    /\ mem \in [Processes -> Wallets]
    /\ loaded \in [Processes -> Nat \cup {Nothing}]
    /\ stage \in [Processes -> Stages]
    /\ io \in [Processes -> {"ready", "stat", "read"}]
    /\ seen \in [Processes -> Nat]
    /\ DOMAIN op = Processes /\ op = [p \in Processes |-> op[p]]
    /\ \A p \in Processes : OpOK(op[p], stage[p])
    /\ acked \subseteq Addresses
    /\ dropped \subseteq Addresses
    /\ overlap \in BOOLEAN /\ spoilt \in BOOLEAN

-----------------------------------------------------------------------------
(* One operation at a time. *)

Fresh(p) == file.time = 0 \/ loaded[p] = file.time

\* The wallets the file will have, or would have now, after what p did.
Expected(p) ==
    CASE stage[p] \in {"idle", "start"} -> DOMAIN file.wallets
      [] stage[p] \in {"save", "write"} /\ Kind(p) = "remove" -> DOMAIN file.wallets \ {At(p)}
      [] OTHER -> DOMAIN file.wallets \cup op[p].new

\* A copy that needs no reload is that of the file with the changes of p.
CopyOK(p) ==
    /\ stage[p] \notin {"write", "record"} /\ Fresh(p) => DOMAIN mem[p] = Expected(p)
    /\ stage[p] = "write" => DOMAIN mem[p] = Expected(p)
    /\ stage[p] = "record" => DOMAIN mem[p] = DOMAIN file.wallets
    /\ loaded[p] = Nothing \/ loaded[p] <= file.time

\* store() is called before every look at the map, and reloads it only before
\* the first change.
FreshOK(p) ==
    /\ stage[p] \in {"idle", "write", "record"} => io[p] = "ready"
    /\ stage[p] \in {"start", "check"} /\ io[p] = "ready" => Fresh(p)
    /\ stage[p] \in {"change", "save"} => Fresh(p)
    /\ stage[p] = "check" /\ op[p].new # {} => Fresh(p)
    /\ io[p] = "read" => seen[p] = file.time /\ file.time > 0 /\ loaded[p] # file.time

\* What was acknowledged when it began is there until it writes; what it adds
\* was not.
WorkOK(p) ==
    /\ stage[p] = "start" => op[p].new = {}
    /\ stage[p] # "idle" /\ Kind(p) \in {"remove", "look"} => op[p].new = {}
    /\ stage[p] \in {"check", "change"} /\ Kind(p) = "add" => op[p].left = 1 /\ op[p].new = {}
    /\ stage[p] = "change" /\ Kind(p) # "remove" => At(p) \notin DOMAIN mem[p]
    /\ stage[p] \notin {"idle", "record"} => op[p].known \subseteq DOMAIN file.wallets
    /\ stage[p] # "idle" => op[p].new \cap dropped = {}
    /\ stage[p] \in {"save", "write"} /\ Kind(p) = "remove" => At(p) \notin acked
    /\ stage[p] = "record" => IF Kind(p) = "remove" THEN At(p) \notin DOMAIN file.wallets
                              ELSE op[p].new \subseteq DOMAIN file.wallets

Good(p) == CopyOK(p) /\ FreshOK(p) /\ WorkOK(p)

FileOK ==
    /\ file.time = 0 => DOMAIN file.wallets = {}
    /\ file.torn => \E p \in Processes : stage[p] = "write"
    /\ acked \subseteq DOMAIN file.wallets
    /\ dropped \cap DOMAIN file.wallets = {}

Solo == \A p, q \in Processes : p # q /\ stage[p] # "idle" => stage[q] = "idle"

ApartInv == Solo /\ FileOK /\ ~missed /\ ~twice /\ \A p \in Processes : Good(p)

StoreInv == Typed /\ (Apart => ApartInv)

-----------------------------------------------------------------------------
(* Type correctness. *)

LEMMA NoWalletsType == NoWallets \in Wallets /\ DOMAIN NoWallets = {}
  BY DEF NoWallets, Wallets, Storable

LEMMA WalletsDomain ==
  ASSUME NEW f \in Wallets
  PROVE  DOMAIN f \subseteq Storable
  BY DEF Wallets

\* A map with one wallet more, or less, is one.
LEMMA AddType ==
  ASSUME NEW f \in Wallets, NEW a \in Storable, NEW k \in {"hd", "added"}
  PROVE  [x \in DOMAIN f \cup {a} |-> IF x = a THEN k ELSE f[x]] \in Wallets
<1>1. PICK S \in SUBSET Storable : f \in [S -> {"hd", "added"}]
  BY DEF Wallets
<1>2. [x \in DOMAIN f \cup {a} |-> IF x = a THEN k ELSE f[x]] \in [S \cup {a} -> {"hd", "added"}]
  BY <1>1
<1>. QED BY ZenonT(40), <1>1, <1>2 DEF Wallets

LEMMA RemoveType ==
  ASSUME NEW f \in Wallets, NEW a
  PROVE  [x \in DOMAIN f \ {a} |-> f[x]] \in Wallets
<1>1. PICK S \in SUBSET Storable : f \in [S -> {"hd", "added"}]
  BY DEF Wallets
<1>2. [x \in DOMAIN f \ {a} |-> f[x]] \in [S \ {a} -> {"hd", "added"}]
  BY <1>1
<1>. QED BY <1>1, <1>2 DEF Wallets

\* What Typed says of the operations.
Working ==
    /\ stage \in [Processes -> Stages]
    /\ io \in [Processes -> {"ready", "stat", "read"}]
    /\ DOMAIN op = Processes /\ op = [p \in Processes |-> op[p]]
    /\ \A p \in Processes : OpOK(op[p], stage[p])

\* An operation that goes on, or ends.
LEMMA GoWorking ==
  ASSUME Working, NEW p \in Processes, NEW o, NEW s \in Stages, Do(p, o), Proceed(p, s), OpOK(o, s)
  PROVE  /\ Working'
         /\ op'[p] = o /\ stage'[p] = s /\ io'[p] = (IF s = "idle" THEN "ready" ELSE "stat")
         /\ \A q \in Processes : q # p => op'[q] = op[q] /\ stage'[q] = stage[q] /\ io'[q] = io[q]
<1>1. /\ op' = [op EXCEPT ![p] = o]
      /\ stage' = [stage EXCEPT ![p] = s]
      /\ io' = [io EXCEPT ![p] = IF s = "idle" THEN "ready" ELSE "stat"]
  BY DEF Do, Proceed
<1>2. /\ op'[p] = o /\ stage'[p] = s /\ io'[p] = (IF s = "idle" THEN "ready" ELSE "stat")
      /\ \A q \in Processes : q # p => op'[q] = op[q] /\ stage'[q] = stage[q] /\ io'[q] = io[q]
  BY <1>1 DEF Working
<1>3. stage' \in [Processes -> Stages] /\ io' \in [Processes -> {"ready", "stat", "read"}]
  BY <1>1 DEF Working
<1>4. DOMAIN op' = Processes /\ op' = [q \in Processes |-> op'[q]]
  BY <1>1 DEF Working
<1>5. ASSUME NEW q \in Processes PROVE OpOK(op[q], stage[q])'
  <2>1. CASE q = p
    BY <1>2, <2>1 DEF OpOK
  <2>2. CASE q # p
    BY <1>2, <2>2 DEF Working, OpOK
  <2>. QED BY <2>1, <2>2
<1>. QED BY <1>2, <1>3, <1>4, <1>5 DEF Working

\* An operation that goes to another stage as it is.
LEMMA StageWorking ==
  ASSUME Working, NEW p \in Processes, NEW s \in Stages, UNCHANGED <<op, io>>,
         stage' = [stage EXCEPT ![p] = s], OpOK(op[p], s)
  PROVE  /\ Working'
         /\ stage'[p] = s
         /\ \A q \in Processes : q # p => stage'[q] = stage[q]
<1>1. stage'[p] = s /\ \A q \in Processes : q # p => stage'[q] = stage[q]
  BY DEF Working
<1>2. stage' \in [Processes -> Stages]
  BY DEF Working
<1>3. ASSUME NEW q \in Processes PROVE OpOK(op[q], stage[q])'
  <2>1. CASE q = p
    BY <1>1, <2>1 DEF OpOK
  <2>2. CASE q # p
    BY <1>1, <2>2 DEF Working, OpOK
  <2>. QED BY <2>1, <2>2
<1>. QED BY <1>1, <1>2, <1>3 DEF Working

LEMMA TypedWorks == Typed => Working
  BY DEF Typed, Working

\* What Typed says of the rest.
Kept ==
    /\ file \in FileRec
    /\ mem \in [Processes -> Wallets]
    /\ loaded \in [Processes -> Nat \cup {Nothing}]
    /\ seen \in [Processes -> Nat]
    /\ acked \subseteq Addresses
    /\ dropped \subseteq Addresses
    /\ overlap \in BOOLEAN /\ spoilt \in BOOLEAN

\* An operation that begins: it works on an address it may store, or looks for
\* an index.
LEMMA BeginType ==
  ASSUME Typed, NEW p \in Processes, NEW kind \in Kinds, NEW a, NEW n \in Nat \ {0}, NEW s,
         \/ a = Nothing /\ kind = "generate" /\ s = "start"
         \/ kind = "register" /\ a \in Nat /\ s = "check"
         \/ kind \in Kinds \ Batch /\ a \in Storable /\ s = "check"
  PROVE  OpOK(Op(kind, a, n), s)
  BY DEF OpOK, Op, Operations, Typed, Batch, Kinds, Storable, Addresses

\* What an operation that is not idle is known to be.
LEMMA OpFacts ==
  ASSUME Typed, NEW p \in Processes, stage[p] # "idle"
  PROVE  op[p] \in Operations /\ OpOK(op[p], stage[p])
  BY DEF Typed, OpOK

LEMMA BeginTyped ==
  ASSUME Typed, NEW p \in Processes, NEW o, NEW s \in Stages, Begin(p, o, s), OpOK(o, s)
  PROVE  Typed'
<1>1. Working'
  BY GoWorking, TypedWorks DEF Begin
<1>2. Kept'
  BY DEF Begin, Typed, Kept
<1>. QED BY <1>1, <1>2 DEF Typed, Working, Kept

\* The next step of p is at stage s with operation o.
Goes(p, o, s) == s \in Stages /\ Do(p, o) /\ Proceed(p, s) /\ OpOK(o, s)

LEMMA StartGoes ==
  ASSUME Typed, NEW p \in Processes, Start(p)
  PROVE  \E first \in Nat : Goes(p, [op[p] EXCEPT !.at = first], "check")
<1>1. PICK first \in 0 .. MaxIndex + 1 : Do(p, [op[p] EXCEPT !.at = first])
  BY DEF Start
<1>2. op[p] \in Operations /\ OpOK(op[p], "start") /\ first \in Nat
  BY OpFacts, StoreAssumption DEF Start
<1>. DEFINE o == [op[p] EXCEPT !.at = first]
<1>3. OpOK(o, "check")
  <2>1. o \in Operations /\ o.kind = op[p].kind /\ o.left = op[p].left /\ o.at = first
    BY <1>2 DEF Operations
  <2>. HIDE DEF o
  <2>. QED BY <1>2, <2>1 DEF OpOK, Batch
<1>4. Proceed(p, "check")
  BY DEF Start
<1>5. Goes(p, o, "check")
  BY <1>1, <1>3, <1>4 DEF Goes, Stages
<1>. QED BY <1>2, <1>5

LEMMA SkipGoes ==
  ASSUME Typed, NEW p \in Processes, Skip(p)
  PROVE  \E left \in Nat, s \in {"check", "save"} : Goes(p, [op[p] EXCEPT !.at = @ + 1, !.left = left], s)
<1>0. op[p] \in Operations /\ OpOK(op[p], "check") /\ Kind(p) \in Batch
  BY OpFacts DEF Skip, Batch
<1>. DEFINE left == IF Kind(p) = "register" THEN op[p].left - 1 ELSE op[p].left
            s == IF left = 0 THEN "save" ELSE "check"
            o == [op[p] EXCEPT !.at = @ + 1, !.left = left]
<1>1. left \in Nat /\ s \in {"check", "save"} /\ (s = "check" => left > 0)
  BY <1>0 DEF OpOK, Operations
<1>2. Do(p, o) /\ Proceed(p, s)
  BY DEF Skip
<1>3. OpOK(o, s)
  <2>1. o \in Operations /\ o.kind = op[p].kind /\ o.left = left /\ o.at \in Nat
    <3>1. op[p].at \in Nat
      BY <1>0 DEF OpOK, Kind
    <3>2. op[p] \in Operations /\ left \in Nat
      BY <1>0, <1>1
    <3>3. op[p].at + 1 \in Nat
      BY <3>1
    <3>. DEFINE a == op[p].at + 1
    <3>. HIDE DEF left, a
    <3>4. [op[p] EXCEPT !.at = a, !.left = left] \in Operations
      BY <3>2, <3>3 DEF Operations, a
    <3>5. /\ [op[p] EXCEPT !.at = a, !.left = left].kind = op[p].kind
          /\ [op[p] EXCEPT !.at = a, !.left = left].left = left
          /\ [op[p] EXCEPT !.at = a, !.left = left].at = a
      BY <3>2 DEF Operations
    <3>. QED BY <3>3, <3>4, <3>5 DEF a
  <2>. HIDE DEF o, s, left
  <2>. QED BY <1>0, <1>1, <2>1 DEF OpOK, Batch, Kind
<1>4. Goes(p, o, s)
  BY <1>1, <1>2, <1>3 DEF Goes, Stages
<1>. QED BY Zenon, <1>1, <1>4

LEMMA ChangeGoes ==
  ASSUME Typed, NEW p \in Processes, Change(p), Kind(p) # "remove"
  PROVE  \E at : \E s \in {"check", "save"} :
            Goes(p, [op[p] EXCEPT !.at = at, !.left = @ - 1, !.new = @ \cup {At(p)}], s)
<1>0. op[p] \in Operations /\ OpOK(op[p], "change")
  BY OpFacts DEF Change
<1>. DEFINE many == Kind(p) \in {"generate", "register"}
            at == IF many THEN op[p].at + 1 ELSE op[p].at
            s == IF op[p].left > 1 THEN "check" ELSE "save"
            o == [op[p] EXCEPT !.at = at, !.left = @ - 1, !.new = @ \cup {At(p)}]
<1>1. Do(p, o) /\ Proceed(p, s)
  BY DEF Change
<1>2. OpOK(o, s)
  <2>1. o.kind = op[p].kind /\ o.left = op[p].left - 1 /\ o.at = at
    BY <1>0 DEF Operations
  <2>2. IF o.kind \in Batch THEN at \in Nat ELSE at \in Storable
    BY <1>0, <2>1 DEF OpOK, Kind, Batch
  <2>3. o \in Operations
    <3>1. at \in Nat \cup Addresses \cup {Nothing} /\ At(p) \in Storable /\ op[p].left - 1 \in Nat
      BY <1>0, <2>2 DEF OpOK, At, Operations, Storable
    <3>. HIDE DEF at
    <3>. QED BY <1>0, <3>1 DEF Operations, Storable
  <2>4. s = "check" => o.left > 0
    BY <1>0, <2>1 DEF Operations
  <2>5. o.kind # "look" /\ s \in {"check", "save"}
    BY <1>0, <2>1 DEF OpOK
  <2>. HIDE DEF o, s, at
  <2>. QED BY <2>1, <2>2, <2>3, <2>4, <2>5 DEF OpOK
<1>3. Goes(p, o, s) /\ s \in {"check", "save"}
  <2>1. s \in {"check", "save"}
    OBVIOUS
  <2>. HIDE DEF o, s
  <2>. QED BY <1>1, <1>2, <2>1 DEF Goes, Stages
<1>. HIDE DEF at, s
<1>. QED BY Zenon, <1>3

LEMMA RemoveGoes ==
  ASSUME Typed, NEW p \in Processes, Change(p), Kind(p) = "remove"
  PROVE  UNCHANGED op /\ Proceed(p, "save") /\ OpOK(op[p], "save")
  BY OpFacts DEF Change, OpOK, Kind, Batch

LEMMA AcceptGoes ==
  ASSUME Typed, NEW p \in Processes, Accept(p)
  PROVE  UNCHANGED op /\ Proceed(p, "change") /\ OpOK(op[p], "change")
<1>1. OpOK(op[p], "check") /\ op[p] \in Operations
  BY OpFacts DEF Accept
<1>2. At(p) \in Storable
  <2>1. CASE Kind(p) \in {"generate", "register"}
    BY <2>1 DEF Accept, Taken, Storable, Addresses
  <2>2. CASE Kind(p) \notin {"generate", "register"}
    BY <1>1, <2>2 DEF OpOK, Kind, At, Batch
  <2>. QED BY <2>1, <2>2
<1>3. Kind(p) # "look"
  BY DEF Accept
<1>. QED BY <1>1, <1>2, <1>3 DEF OpOK, Accept, Kind, At, Batch

LEMMA GoesTyped ==
  ASSUME Typed, NEW p \in Processes, NEW o, NEW s, Goes(p, o, s), Kept'
  PROVE  Typed'
<1>1. Working'
  BY GoWorking, TypedWorks DEF Goes
<1>. QED BY <1>1 DEF Typed, Working, Kept

\* An operation that stays as it is.
LEMMA SameDo ==
  ASSUME Typed, NEW p \in Processes, UNCHANGED op
  PROVE  Do(p, op[p])
<1>1. DOMAIN op = Processes /\ op = [q \in Processes |-> op[q]]
  BY DEF Typed
<1>2. [op EXCEPT ![p] = op[p]] = [q \in Processes |-> op[q]]
  BY <1>1
<1>. QED BY <1>1, <1>2 DEF Do

\* An operation ends.
LEMMA EndGoes ==
  ASSUME Typed, NEW p \in Processes, End(p)
  PROVE  Goes(p, Nothing, "idle")
  BY DEF End, Goes, OpOK, Stages

LEMMA ChangeKept ==
  ASSUME Typed, NEW p \in Processes, Change(p)
  PROVE  Kept'
<1>0. mem \in [Processes -> Wallets] /\ mem[p] \in Wallets
  BY DEF Typed
<1>1. mem' \in [Processes -> Wallets]
  <2>1. CASE Kind(p) = "remove"
    <3>1. [a \in DOMAIN mem[p] \ {At(p)} |-> mem[p][a]] \in Wallets
      BY <1>0, RemoveType
    <3>2. mem' = [mem EXCEPT ![p] = [a \in DOMAIN mem[p] \ {At(p)} |-> mem[p][a]]]
      BY <2>1 DEF Change
    <3>. QED BY <1>0, <3>1, <3>2
  <2>2. CASE Kind(p) # "remove"
    <3>. DEFINE k == IF Kind(p) \in {"generate", "register"} THEN "hd" ELSE "added"
    <3>1. mem' = [mem EXCEPT ![p] = [a \in DOMAIN mem[p] \cup {At(p)} |-> IF a = At(p) THEN k ELSE mem[p][a]]]
      BY <2>2 DEF Change
    <3>2. k \in {"hd", "added"} /\ At(p) \in Storable
      <4>1. At(p) \in Storable
        BY OpFacts DEF Change, OpOK, At
      <4>. QED BY <4>1
    <3>. HIDE DEF k
    <3>3. [a \in DOMAIN mem[p] \cup {At(p)} |-> IF a = At(p) THEN k ELSE mem[p][a]] \in Wallets
      BY <1>0, <3>2, AddType
    <3>. QED BY <1>0, <3>1, <3>3
  <2>. QED BY <2>1, <2>2
<1>2. acked' \subseteq Addresses /\ dropped' \subseteq Addresses
  BY DEF Change, Typed
<1>. QED BY <1>1, <1>2 DEF Change, Kept, Typed

\* What an operation answers is typed.
LEMMA AnswerTyped ==
  ASSUME Typed, NEW p \in Processes, stage[p] \in {"write", "record"}, Answer(p)
  PROVE  acked' \subseteq Addresses /\ dropped' \subseteq Addresses /\ Goes(p, Nothing, "idle")
<1>1. op[p] \in Operations /\ OpOK(op[p], stage[p])
  BY OpFacts
<1>2. op[p].new \subseteq Addresses
  BY <1>1 DEF Operations, Storable
<1>3. Kind(p) = "remove" => At(p) \in Addresses
  BY <1>1 DEF OpOK, Kind, At, Batch, Storable
<1>. QED BY <1>2, <1>3, EndGoes DEF Answer, Typed

LEMMA ProcessTyped ==
  ASSUME Typed, NEW p \in Processes,
         \/ Stat(p) \/ Read(p) \/ Start(p) \/ Skip(p) \/ Refuse(p) \/ Accept(p) \/ Change(p)
         \/ Truncate(p) \/ Write(p) \/ WriteFails(p) \/ RecordTime(p) \/ Crash(p)
  PROVE  Typed'
<1>1. CASE Stat(p)
  <2>1. file.time \in Nat
    BY DEF Typed, FileRec
  <2>2. /\ io' \in [Processes -> {"ready", "stat", "read"}] /\ seen' \in [Processes -> Nat]
        /\ UNCHANGED <<file, mem, loaded, op, stage, acked, dropped, overlap, spoilt>>
    BY <1>1, <2>1 DEF Stat, Typed, history
  <2>. QED BY <2>2 DEF Typed
<1>2. CASE Read(p)
  <2>1. file.wallets \in Wallets
    BY DEF Typed, FileRec
  <2>2. mem' \in [Processes -> Wallets] /\ loaded' \in [Processes -> Nat \cup {Nothing}]
    BY <1>2, <2>1 DEF Read, Typed
  <2>3. /\ io' \in [Processes -> {"ready", "stat", "read"}] /\ seen' \in [Processes -> Nat]
        /\ UNCHANGED <<file, op, stage, acked, dropped, overlap, spoilt>>
    BY <1>2 DEF Read, Typed, history
  <2>. QED BY <2>2, <2>3 DEF Typed
<1>3. CASE Start(p)
  <2>1. Kept'
    BY <1>3 DEF Start, Typed, Kept, history
  <2>. QED BY <1>3, <2>1, StartGoes, GoesTyped
<1>4. CASE Skip(p)
  <2>1. Kept'
    BY <1>4 DEF Skip, Typed, Kept, history
  <2>. QED BY Zenon, <1>4, <2>1, SkipGoes, GoesTyped
<1>5. CASE Refuse(p)
  <2>1. Kept'
    BY <1>5 DEF Refuse, Typed, Kept
  <2>2. End(p)
    BY <1>5 DEF Refuse
  <2>. QED BY <2>1, <2>2, EndGoes, GoesTyped
<1>6. CASE Accept(p)
  <2>1. Goes(p, op[p], "change")
    BY <1>6, AcceptGoes, SameDo DEF Goes, Stages
  <2>2. Kept'
    BY <1>6 DEF Accept, Typed, Kept, history
  <2>. QED BY <2>1, <2>2, GoesTyped
<1>7. CASE Change(p)
  <2>1. CASE Kind(p) = "remove"
    <3>1. Goes(p, op[p], "save")
      BY <1>7, <2>1, RemoveGoes, SameDo DEF Goes, Stages
    <3>. QED BY <1>7, <3>1, GoesTyped, ChangeKept
  <2>2. CASE Kind(p) # "remove"
    BY Zenon, <1>7, <2>2, ChangeGoes, GoesTyped, ChangeKept
  <2>. QED BY <2>1, <2>2
<1>8. CASE Truncate(p)
  <2>1. file' \in FileRec
    <3>1. file \in FileRec /\ file' = [file EXCEPT !.torn = TRUE, !.time = @ + 1]
      BY <1>8 DEF Truncate, Typed
    <3>2. file.time + 1 \in Nat
      BY <3>1 DEF FileRec
    <3>. QED BY <3>1, <3>2 DEF FileRec
  <2>2. OpOK(op[p], "write")
    BY <1>8, OpFacts DEF Truncate, OpOK
  <2>3. Working'
    BY <1>8, <2>2, StageWorking, TypedWorks DEF Truncate, Stages
  <2>4. Kept'
    BY <1>8, <2>1 DEF Truncate, Typed, Kept, history
  <2>. QED BY <2>3, <2>4 DEF Typed, Working, Kept
<1>9. CASE Write(p)
  <2>1. file' \in FileRec
    BY <1>9 DEF Write, Typed, FileRec
  <2>2. OpOK(op[p], "record")
    BY <1>9, OpFacts DEF Write, OpOK
  <2>3. Working'
    BY <1>9, <2>2, StageWorking, TypedWorks DEF Write, Stages
  <2>4. Kept'
    BY <1>9, <2>1 DEF Write, Typed, Kept, history
  <2>. QED BY <2>3, <2>4 DEF Typed, Working, Kept
<1>10. CASE WriteFails(p)
  <2>1. stage[p] \in {"write", "record"} /\ Answer(p)
    BY <1>10 DEF WriteFails
  <2>2. Kept'
    BY <1>10, <2>1, AnswerTyped DEF WriteFails, Typed, Kept
  <2>. QED BY <2>1, <2>2, AnswerTyped, GoesTyped
<1>11. CASE RecordTime(p)
  <2>1. stage[p] \in {"write", "record"} /\ Answer(p)
    BY <1>11 DEF RecordTime
  <2>2. loaded' \in [Processes -> Nat \cup {Nothing}]
    BY <1>11 DEF RecordTime, Typed, FileRec
  <2>3. Kept'
    BY <1>11, <2>1, <2>2, AnswerTyped DEF RecordTime, Typed, Kept
  <2>. QED BY <2>1, <2>3, AnswerTyped, GoesTyped
<1>12. CASE Crash(p)
  <2>1. Kept'
    BY <1>12, NoWalletsType DEF Crash, Typed, Kept
  <2>. QED BY <1>12, <2>1, EndGoes, GoesTyped DEF Crash
<1>. QED BY <1>1, <1>2, <1>3, <1>4, <1>5, <1>6, <1>7, <1>8, <1>9, <1>10, <1>11, <1>12

\* The five ways to begin.
Begins(p) == Generate(p) \/ Register(p) \/ Add(p) \/ Remove(p) \/ Look(p)

\* p begins o, which added nothing yet, at stage s.
BeginsWith(p, o, s) ==
    Begin(p, o, s) /\ OpOK(o, s) /\ o.new = {} /\ o.known = acked /\ (o.kind = "add" => o.left = 1)

LEMMA BeginsGood ==
  ASSUME Typed, NEW p \in Processes, Begins(p)
  PROVE  \E o : \E s \in {"start", "check"} : BeginsWith(p, o, s)
<1>1. CASE Generate(p)
  <2>1. PICK n \in 1 .. MaxCount : Begin(p, Op("generate", Nothing, n), "start")
    BY <1>1 DEF Generate
  <2>2. n \in Nat \ {0}
    BY StoreAssumption
  <2>3. OpOK(Op("generate", Nothing, n), "start")
    BY <2>2, BeginType DEF Kinds
  <2>. QED BY <2>1, <2>3 DEF BeginsWith, Op
<1>2. CASE Register(p)
  <2>1. PICK first \in Indexes, n \in 1 .. MaxCount : Begin(p, Op("register", first, n), "check")
    BY <1>2 DEF Register
  <2>2. n \in Nat \ {0} /\ first \in Nat
    BY StoreAssumption DEF Indexes
  <2>3. OpOK(Op("register", first, n), "check")
    BY <2>2, BeginType DEF Kinds
  <2>. QED BY <2>1, <2>3 DEF BeginsWith, Op
<1>3. ASSUME NEW kind \in Kinds \ Batch, NEW a \in Storable, Begin(p, Op(kind, a, 1), "check")
      PROVE  \E o : \E s \in {"start", "check"} : BeginsWith(p, o, s)
  <2>1. OpOK(Op(kind, a, 1), "check")
    BY <1>3, BeginType
  <2>. QED BY <1>3, <2>1 DEF BeginsWith, Op
<1>4. CASE Add(p)
  BY <1>3, <1>4 DEF Add, Kinds, Batch, Storable
<1>5. CASE Remove(p)
  BY <1>3, <1>5 DEF Remove, Kinds, Batch, Storable
<1>6. CASE Look(p)
  BY <1>3, <1>6 DEF Look, Kinds, Batch, Storable
<1>. QED BY <1>1, <1>2, <1>4, <1>5, <1>6 DEF Begins

LEMMA TypedInit == Init => Typed
<1>. SUFFICES ASSUME Init PROVE Typed
  OBVIOUS
<1>1. file \in FileRec
  BY NoWalletsType DEF Init, FileRec
<1>2. mem \in [Processes -> Wallets]
  BY NoWalletsType DEF Init
<1>. QED BY <1>1, <1>2 DEF Init, Typed, Stages, OpOK

LEMMA TypedStep ==
  ASSUME Typed, [Next]_vars
  PROVE  Typed'
<1>1. CASE UNCHANGED vars
  BY <1>1 DEF vars, history, Typed
<1>2. ASSUME NEW p \in Processes, Begins(p)
      PROVE  Typed'
  BY <1>2, BeginsGood, BeginTyped DEF BeginsWith, Stages
<1>. QED BY <1>1, <1>2, ProcessTyped DEF Next, Begins

\* The file, the maps and the operations are what the code makes them, and the
\* owner's own wallet is never stored, by any number of processes.
THEOREM StoreTypeOK == Spec => []TypeOK
<1>1. Typed => TypeOK
  <2>. SUFFICES ASSUME Typed PROVE TypeOK
    OBVIOUS
  <2>1. DOMAIN file.wallets \subseteq Storable
    BY WalletsDomain DEF Typed, FileRec
  <2>2. \A p \in Processes : DOMAIN mem[p] \subseteq Storable
    BY WalletsDomain DEF Typed
  <2>3. ASSUME NEW p \in Processes
        PROVE  (op[p] = Nothing <=> stage[p] = "idle") /\ (op[p] # Nothing => op[p] \in Operations)
    BY NothingAssumption DEF Typed, OpOK
  <2>. QED BY <2>1, <2>2, <2>3 DEF Typed, TypeOK, Storable
<1>. QED BY <1>1, TypedInit, TypedStep, PTL DEF Spec

-----------------------------------------------------------------------------
(* One operation at a time. *)

\* What a step of p leaves to the others.
Unmoved(q) ==
    /\ op'[q] = op[q] /\ stage'[q] = stage[q] /\ io'[q] = io[q]
    /\ mem'[q] = mem[q] /\ loaded'[q] = loaded[q] /\ seen'[q] = seen[q]

\* A file that changes gets a later time.
FileMoves == file' = file \/ (file'.time \in Nat /\ file'.time > file.time)

Works(p) ==
    \/ Stat(p) \/ Read(p) \/ Start(p) \/ Skip(p) \/ Refuse(p) \/ Accept(p) \/ Change(p)
    \/ Truncate(p) \/ Write(p) \/ RecordTime(p)

\* Once two operations met, or a write was lost, nothing is claimed any more.
LEMMA ApartBefore ==
  ASSUME Typed, [Next]_vars, Apart'
  PROVE  Apart
<1>1. CASE UNCHANGED vars
  BY <1>1 DEF vars, history, Apart
<1>2. ASSUME NEW p \in Processes, Works(p)
      PROVE  Apart
  <2>1. (overlap => overlap') /\ (spoilt => spoilt')
    <3>1. CASE Stat(p) \/ Read(p) \/ Start(p) \/ Skip(p)
      BY <3>1 DEF Stat, Read, Start, Skip, history
    <3>2. CASE Refuse(p) \/ Accept(p) \/ Change(p)
      BY <3>2 DEF Refuse, Accept, Change, history
    <3>3. CASE Truncate(p) \/ Write(p) \/ RecordTime(p)
      BY <3>3 DEF Truncate, Write, RecordTime, history
    <3>. QED BY <1>2, <3>1, <3>2, <3>3 DEF Works
  <2>. QED BY <2>1 DEF Apart
<1>3. ASSUME NEW p \in Processes, Begins(p)
      PROVE  Apart
  BY <1>3, BeginsGood DEF BeginsWith, Begin, Apart
<1>4. ASSUME NEW p \in Processes, WriteFails(p) \/ Crash(p)
      PROVE  Apart
  <2>1. CASE WriteFails(p)
    BY <2>1 DEF WriteFails, Apart
  <2>2. CASE Crash(p)
    BY <2>2 DEF Crash, Apart, Typed
  <2>. QED BY <1>4, <2>1, <2>2
<1>. QED BY <1>1, <1>2, <1>3, <1>4 DEF Next, Works, Begins

\* A step of p leaves the others alone.
LEMMA OthersUnmoved ==
  ASSUME Typed, NEW p \in Processes, Works(p) \/ Begins(p) \/ Crash(p), NEW q \in Processes, q # p
  PROVE  Unmoved(q)
<1>0. Working
  BY TypedWorks
<1>1. CASE Stat(p) \/ Read(p) \/ Accept(p) \/ Truncate(p) \/ Write(p)
  BY <1>1 DEF Stat, Read, Accept, Truncate, Write, Proceed, Typed, Unmoved
<1>2. CASE Start(p) \/ Skip(p)
  <2>1. \E o : \E s \in Stages : Goes(p, o, s)
    BY Zenon, <1>2, StartGoes, SkipGoes DEF Goes
  <2>2. op'[q] = op[q] /\ stage'[q] = stage[q] /\ io'[q] = io[q]
    BY <1>0, <2>1, GoWorking DEF Goes
  <2>. QED BY <1>2, <2>2 DEF Start, Skip, Unmoved
<1>3. CASE Refuse(p) \/ RecordTime(p) \/ Crash(p)
  <2>1. Goes(p, Nothing, "idle")
    BY <1>3, EndGoes DEF Refuse, RecordTime, Answer, Crash
  <2>2. op'[q] = op[q] /\ stage'[q] = stage[q] /\ io'[q] = io[q]
    BY <1>0, <2>1, GoWorking DEF Goes
  <2>. QED BY <1>3, <2>2 DEF Refuse, RecordTime, Crash, Unmoved, Typed
<1>4. CASE Change(p)
  <2>1. op'[q] = op[q] /\ stage'[q] = stage[q] /\ io'[q] = io[q]
    <3>1. CASE Kind(p) = "remove"
      BY <1>4, <3>1, RemoveGoes DEF Proceed, Typed
    <3>2. CASE Kind(p) # "remove"
      BY Zenon, <1>0, <1>4, <3>2, ChangeGoes, GoWorking DEF Goes
    <3>. QED BY <3>1, <3>2
  <2>2. mem'[q] = mem[q]
    <3>1. CASE Kind(p) = "remove"
      BY <1>4, <3>1 DEF Change, Typed
    <3>2. CASE Kind(p) # "remove"
      BY <1>4, <3>2 DEF Change, Typed
    <3>. QED BY <3>1, <3>2
  <2>. QED BY <1>4, <2>1, <2>2 DEF Change, Unmoved
<1>5. CASE Begins(p)
  <2>1. PICK o : \E s \in {"start", "check"} : BeginsWith(p, o, s)
    BY <1>5, BeginsGood
  <2>2. PICK s \in {"start", "check"} : BeginsWith(p, o, s)
    BY <2>1
  <2>3. op'[q] = op[q] /\ stage'[q] = stage[q] /\ io'[q] = io[q]
    BY <1>0, <2>2, GoWorking DEF BeginsWith, Begin, Stages
  <2>. QED BY <2>2, <2>3 DEF BeginsWith, Begin, Unmoved
<1>. QED BY <1>1, <1>2, <1>3, <1>4, <1>5 DEF Works

\* A process that was left alone, with the file: nothing changes for it.
LEMMA SameGood ==
  ASSUME NEW q \in Processes, Good(q), Unmoved(q), UNCHANGED <<file, acked, dropped>>
  PROVE  Good(q)'
<1>1. Expected(q)' = Expected(q) /\ Kind(q)' = Kind(q) /\ At(q)' = At(q) /\ (Fresh(q)' <=> Fresh(q))
  BY DEF Unmoved, Expected, Kind, At, Fresh
<1>2. CopyOK(q)'
  BY <1>1 DEF Good, Unmoved, CopyOK
<1>3. FreshOK(q)'
  BY <1>1 DEF Good, Unmoved, FreshOK
<1>4. WorkOK(q)'
  BY <1>1 DEF Good, Unmoved, WorkOK
<1>. QED BY <1>2, <1>3, <1>4 DEF Good

\* The copy of an idle process needs a reload once the file changed.
LEMMA IdleGood ==
  ASSUME Typed, NEW q \in Processes, Good(q), Unmoved(q), stage[q] = "idle", FileMoves
  PROVE  Good(q)'
<1>1. FreshOK(q)' /\ WorkOK(q)'
  BY DEF Good, Unmoved, FreshOK, WorkOK
<1>2. CopyOK(q)'
  <2>1. CASE file' = file
    BY <2>1 DEF Good, Unmoved, CopyOK, Expected, Fresh
  <2>2. CASE file'.time \in Nat /\ file'.time > file.time
    <3>1. file.time \in Nat /\ loaded[q] \in Nat \cup {Nothing}
      BY DEF Typed, FileRec
    <3>2. loaded[q] = Nothing \/ loaded[q] <= file.time
      BY DEF Good, CopyOK
    <3>3. ~Fresh(q)' /\ (loaded[q] = Nothing \/ loaded[q] <= file'.time)
      BY <2>2, <3>1, <3>2, NothingAssumption DEF Fresh, Unmoved
    <3>. QED BY <3>3 DEF CopyOK, Unmoved
  <2>. QED BY <2>1, <2>2 DEF FileMoves
<1>. QED BY <1>1, <1>2 DEF Good

\* A process at work is the only one.
LEMMA Alone ==
  ASSUME Typed, ApartInv, Apart', NEW p \in Processes, Works(p) \/ Begins(p),
         NEW q \in Processes, q # p
  PROVE  stage[q] = "idle"
<1>1. CASE Begins(p)
  BY <1>1, BeginsGood DEF BeginsWith, Begin, Apart
<1>2. CASE Works(p)
  <2>1. FreshOK(p)
    BY DEF ApartInv, Good
  <2>2. stage[p] # "idle"
    BY <1>2, <2>1 DEF Works, Stat, Read, Start, Skip, Refuse, Accept, Change, Truncate, Write,
                      RecordTime, FreshOK
  <2>. QED BY <2>2 DEF ApartInv, Solo
<1>. QED BY <1>1, <1>2

\* The step of a process that is alone keeps the invariant if it does so for
\* the process and the file.
LEMMA AloneStep ==
  ASSUME Typed, ApartInv, Apart', NEW p \in Processes, Works(p) \/ Begins(p),
         FileMoves, Good(p)', FileOK', ~missed', ~twice'
  PROVE  ApartInv'
<1>1. ASSUME NEW q \in Processes, q # p
      PROVE  stage[q] = "idle" /\ Unmoved(q)
  BY <1>1, Alone, OthersUnmoved
<1>2. Solo'
  BY <1>1 DEF Solo, Unmoved
<1>3. ASSUME NEW q \in Processes
      PROVE  Good(q)'
  BY <1>1, IdleGood DEF ApartInv
<1>. QED BY <1>2, <1>3 DEF ApartInv

-----------------------------------------------------------------------------
(* Each step of the process that works. *)

\* What the invariant says of a process and the file.
LEMMA InvFacts ==
  ASSUME Typed, ApartInv, NEW p \in Processes
  PROVE  /\ CopyOK(p) /\ FreshOK(p) /\ WorkOK(p) /\ FileOK /\ ~missed /\ ~twice
         /\ OpOK(op[p], stage[p]) /\ stage[p] \in Stages
         /\ file.time \in Nat /\ file.wallets \in Wallets /\ loaded[p] \in Nat \cup {Nothing}
  BY DEF ApartInv, Good, Typed, FileRec

\* Nobody else is writing the file.
LEMMA NotTorn ==
  ASSUME Typed, ApartInv, Apart', NEW p \in Processes, Works(p) \/ Begins(p), stage[p] # "write"
  PROVE  ~file.torn
<1>1. \A q \in Processes : stage[q] # "write"
  BY Alone
<1>. QED BY <1>1, InvFacts DEF FileOK

\* The file is looked at before every step of an operation.
LEMMA StatGood ==
  ASSUME Typed, ApartInv, Apart', NEW p \in Processes, Stat(p)
  PROVE  ApartInv'
<1>0. /\ CopyOK(p) /\ FreshOK(p) /\ WorkOK(p) /\ FileOK /\ ~missed /\ ~twice /\ file.time \in Nat
  BY InvFacts
<1>1. /\ UNCHANGED <<file, mem, loaded, op, stage, acked, dropped, missed, twice>>
      /\ io[p] = "stat" /\ io'[p] = IF file.time > 0 /\ Changed(p) THEN "read" ELSE "ready"
      /\ seen'[p] = IF file.time > 0 /\ Changed(p) THEN file.time ELSE seen[p]
  BY DEF Stat, history, Typed
<1>2. CopyOK(p)'
  BY <1>0, <1>1 DEF CopyOK, Expected, Fresh, Kind, At
<1>3. WorkOK(p)'
  BY <1>0, <1>1 DEF WorkOK, Kind, At
<1>4. FreshOK(p)'
  BY <1>0, <1>1 DEF FreshOK, Fresh, Changed
<1>5. FileOK'
  BY <1>0, <1>1 DEF FileOK
<1>. QED BY <1>0, <1>1, <1>2, <1>3, <1>4, <1>5, AloneStep DEF Good, Works, FileMoves

\* The map is read before the first change of an operation, from a file that
\* nobody is writing.
LEMMA ReadGood ==
  ASSUME Typed, ApartInv, Apart', NEW p \in Processes, Read(p)
  PROVE  ApartInv'
<1>0. /\ CopyOK(p) /\ FreshOK(p) /\ WorkOK(p) /\ FileOK /\ ~missed /\ ~twice /\ file.time \in Nat
      /\ stage[p] \in Stages
  BY InvFacts
<1>1. io[p] = "read" /\ seen[p] = file.time /\ file.time > 0 /\ loaded[p] # file.time
  BY <1>0 DEF Read, FreshOK
<1>2. stage[p] \in {"start", "check"} /\ (stage[p] = "check" => op[p].new = {})
  BY <1>0, <1>1 DEF FreshOK, Fresh, Stages
<1>3. ~file.torn
  BY <1>2, NotTorn DEF Works
<1>4. /\ UNCHANGED <<file, op, stage, acked, dropped, missed, twice>>
      /\ io'[p] = "ready" /\ mem'[p] = file.wallets /\ loaded'[p] = file.time
  BY <1>1, <1>3 DEF Read, history, Typed
<1>5. CopyOK(p)'
  <2>1. Expected(p)' = DOMAIN file.wallets
    BY <1>2, <1>4 DEF Expected
  <2>2. stage'[p] \notin {"write", "record"} /\ loaded'[p] <= file'.time
    BY <1>0, <1>2, <1>4
  <2>. QED BY <1>4, <2>1, <2>2 DEF CopyOK
<1>6. WorkOK(p)'
  BY <1>0, <1>2, <1>4 DEF WorkOK, Kind, At
<1>7. FreshOK(p)'
  BY <1>0, <1>2, <1>4 DEF FreshOK, Fresh
<1>8. FileOK'
  BY <1>0, <1>4 DEF FileOK
<1>. QED BY <1>0, <1>4, <1>5, <1>6, <1>7, <1>8, AloneStep DEF Good, Works, FileMoves

\* An operation that begins has added nothing, and knows what is in the file.
LEMMA BeginGood ==
  ASSUME Typed, ApartInv, Apart', NEW p \in Processes, Begins(p)
  PROVE  ApartInv'
<1>0. /\ CopyOK(p) /\ FreshOK(p) /\ WorkOK(p) /\ FileOK /\ ~missed /\ ~twice /\ file.time \in Nat
  BY InvFacts
<1>1. PICK o : \E s \in {"start", "check"} : BeginsWith(p, o, s)
  BY BeginsGood
<1>2. PICK s \in {"start", "check"} : BeginsWith(p, o, s)
  BY <1>1
<1>3. /\ op'[p] = o /\ stage'[p] = s /\ io'[p] = "stat" /\ stage[p] = "idle"
      /\ UNCHANGED <<file, mem, loaded, acked, dropped, missed, twice>>
  BY <1>2, TypedWorks, GoWorking DEF BeginsWith, Begin, Stages
<1>4. o.new = {} /\ o.known = acked /\ (o.kind = "add" => o.left = 1)
  BY <1>2 DEF BeginsWith
<1>5. CopyOK(p)'
  BY <1>0, <1>3, <1>4 DEF CopyOK, Expected, Fresh, Kind, At
<1>6. WorkOK(p)'
  BY <1>0, <1>3, <1>4 DEF WorkOK, FileOK, Kind, At
<1>7. FreshOK(p)'
  BY <1>3, <1>4 DEF FreshOK
<1>8. FileOK'
  BY <1>0, <1>3, NotTorn DEF FileOK
<1>. QED BY <1>0, <1>3, <1>5, <1>6, <1>7, <1>8, AloneStep DEF Good, FileMoves

\* The first index is looked for in a map that is up to date.
LEMMA StartGood ==
  ASSUME Typed, ApartInv, Apart', NEW p \in Processes, Start(p)
  PROVE  ApartInv'
<1>0. /\ CopyOK(p) /\ FreshOK(p) /\ WorkOK(p) /\ FileOK /\ ~missed /\ ~twice
      /\ op[p] \in Operations /\ op[p].kind = "generate"
  BY InvFacts DEF Start, OpOK
<1>1. PICK first \in Nat : Goes(p, [op[p] EXCEPT !.at = first], "check")
  BY StartGoes
<1>. DEFINE o == [op[p] EXCEPT !.at = first]
<1>2. o.kind = "generate" /\ o.new = op[p].new /\ o.known = op[p].known
  BY <1>0 DEF Operations
<1>. HIDE DEF o
<1>3. /\ op'[p] = o /\ stage'[p] = "check" /\ io'[p] = "stat" /\ stage[p] = "start" /\ io[p] = "ready"
      /\ UNCHANGED <<file, mem, loaded, acked, dropped, missed, twice>>
  BY <1>1, TypedWorks, GoWorking DEF Goes, Start, history, o
<1>4. op[p].new = {} /\ Fresh(p)
  BY <1>0, <1>3 DEF WorkOK, FreshOK
<1>5. CopyOK(p)'
  BY <1>0, <1>2, <1>3, <1>4 DEF CopyOK, Expected, Fresh, Kind, At
<1>6. WorkOK(p)'
  BY <1>0, <1>2, <1>3, <1>4 DEF WorkOK, Kind, At
<1>7. FreshOK(p)'
  BY <1>2, <1>3, <1>4 DEF FreshOK
<1>8. FileOK'
  BY <1>0, <1>3, NotTorn DEF FileOK, Works
<1>. QED BY <1>0, <1>3, <1>5, <1>6, <1>7, <1>8, AloneStep DEF Good, Works, FileMoves

\* An index that is passed over, or an address that is accepted: the map was
\* up to date when it was looked at.
LEMMA SkipGood ==
  ASSUME Typed, ApartInv, Apart', NEW p \in Processes, Skip(p)
  PROVE  ApartInv'
<1>0. /\ CopyOK(p) /\ FreshOK(p) /\ WorkOK(p) /\ FileOK /\ ~missed /\ ~twice
      /\ op[p] \in Operations /\ op[p].kind \in Batch
  BY InvFacts DEF Skip, OpOK, Kind, Batch
<1>1. PICK left \in Nat, s \in {"check", "save"} : Goes(p, [op[p] EXCEPT !.at = @ + 1, !.left = left], s)
  BY Zenon, SkipGoes
<1>. DEFINE o == [op[p] EXCEPT !.at = @ + 1, !.left = left]
<1>2. o.kind = op[p].kind /\ o.new = op[p].new /\ o.known = op[p].known
  BY <1>0 DEF Operations
<1>. HIDE DEF o
<1>3. /\ op'[p] = o /\ stage'[p] = s /\ io'[p] = "stat" /\ stage[p] = "check" /\ io[p] = "ready"
      /\ UNCHANGED <<file, mem, loaded, acked, dropped, missed, twice>>
  BY <1>1, TypedWorks, GoWorking DEF Goes, Skip, history, o
<1>4. Fresh(p) /\ op[p].kind \notin {"remove", "look", "add"}
  BY <1>0, <1>3 DEF FreshOK, Batch
<1>5. CopyOK(p)'
  BY <1>0, <1>2, <1>3, <1>4 DEF CopyOK, Expected, Fresh, Kind, At
<1>6. WorkOK(p)'
  BY <1>0, <1>2, <1>3, <1>4 DEF WorkOK, Kind, At
<1>7. FreshOK(p)'
  BY <1>2, <1>3, <1>4 DEF FreshOK, Fresh
<1>8. FileOK'
  BY <1>0, <1>3, NotTorn DEF FileOK, Works
<1>. QED BY <1>0, <1>3, <1>5, <1>6, <1>7, <1>8, AloneStep DEF Good, Works, FileMoves

LEMMA AcceptGood ==
  ASSUME Typed, ApartInv, Apart', NEW p \in Processes, Accept(p)
  PROVE  ApartInv'
<1>0. /\ CopyOK(p) /\ FreshOK(p) /\ WorkOK(p) /\ FileOK /\ ~missed /\ ~twice
  BY InvFacts
<1>1. /\ UNCHANGED <<file, mem, loaded, op, acked, dropped, missed, twice>>
      /\ stage[p] = "check" /\ io[p] = "ready" /\ stage'[p] = "change" /\ io'[p] = "stat"
  BY DEF Accept, Proceed, history, Typed
<1>2. Kind(p) # "remove" => At(p) \notin DOMAIN mem[p]
  BY DEF Accept, Taken, Has
<1>3. Fresh(p)
  BY <1>0, <1>1 DEF FreshOK
<1>5. CopyOK(p)'
  BY <1>0, <1>1, <1>3 DEF CopyOK, Expected, Fresh, Kind, At
<1>6. WorkOK(p)'
  BY <1>0, <1>1, <1>2, <1>3 DEF WorkOK, Kind, At
<1>7. FreshOK(p)'
  BY <1>1, <1>3 DEF FreshOK, Fresh
<1>8. FileOK'
  BY <1>0, <1>1, NotTorn DEF FileOK, Works
<1>. QED BY <1>0, <1>1, <1>5, <1>6, <1>7, <1>8, AloneStep DEF Good, Works, FileMoves

\* An operation that ends without a change; a lookup found what was there.
LEMMA RefuseGood ==
  ASSUME Typed, ApartInv, Apart', NEW p \in Processes, Refuse(p)
  PROVE  ApartInv'
<1>0. /\ CopyOK(p) /\ FreshOK(p) /\ WorkOK(p) /\ FileOK /\ ~missed /\ ~twice
  BY InvFacts
<1>1. /\ UNCHANGED <<file, mem, loaded, acked, dropped, twice>>
      /\ stage[p] = "check" /\ io[p] = "ready" /\ stage'[p] = "idle" /\ io'[p] = "ready"
  <2>1. End(p)
    BY DEF Refuse
  <2>2. stage'[p] = "idle" /\ io'[p] = "ready"
    BY <2>1 DEF End, Proceed, Typed
  <2>. QED BY <2>2 DEF Refuse
<1>2. op[p].new = {}
  BY <1>0, <1>1 DEF WorkOK, Refuse, Kind
<1>3. Fresh(p)
  BY <1>0, <1>1 DEF FreshOK
<1>4. DOMAIN mem[p] = DOMAIN file.wallets
  BY <1>0, <1>1, <1>2, <1>3 DEF CopyOK, Expected
<1>5. CopyOK(p)'
  BY <1>0, <1>1, <1>4 DEF CopyOK, Expected, Fresh
<1>6. WorkOK(p)'
  BY <1>1 DEF WorkOK
<1>7. FreshOK(p)'
  BY <1>1 DEF FreshOK
<1>8. FileOK'
  BY <1>0, <1>1, NotTorn DEF FileOK, Works
<1>9. ~missed'
  <2>1. At(p) \in op[p].known => Has(p)
    BY <1>0, <1>1, <1>4 DEF WorkOK, Has
  <2>. QED BY <1>0, <2>1 DEF Refuse
<1>. QED BY <1>0, <1>1, <1>5, <1>6, <1>7, <1>8, <1>9, AloneStep DEF Good, Works, FileMoves

\* A wallet that is removed from the map.
LEMMA ChangeRemoves ==
  ASSUME Typed, ApartInv, Apart', NEW p \in Processes, Change(p), Kind(p) = "remove"
  PROVE  ApartInv'
<1>0. /\ CopyOK(p) /\ FreshOK(p) /\ WorkOK(p) /\ FileOK /\ ~missed /\ ~twice
  BY InvFacts
<1>1. /\ UNCHANGED <<file, loaded, op, dropped, missed, twice>>
      /\ stage[p] = "change" /\ io[p] = "ready" /\ stage'[p] = "save" /\ io'[p] = "stat"
      /\ DOMAIN mem'[p] = DOMAIN mem[p] \ {At(p)} /\ acked' = acked \ {At(p)}
  <2>1. /\ UNCHANGED <<file, loaded, op, dropped, missed, twice>> /\ Proceed(p, "save")
        /\ mem' = [mem EXCEPT ![p] = [a \in DOMAIN mem[p] \ {At(p)} |-> mem[p][a]]]
        /\ acked' = acked \ {At(p)} /\ stage[p] = "change" /\ io[p] = "ready"
    BY DEF Change
  <2>2. stage'[p] = "save" /\ io'[p] = "stat"
    BY <2>1 DEF Proceed, Typed
  <2>3. mem'[p] = [a \in DOMAIN mem[p] \ {At(p)} |-> mem[p][a]]
    BY <2>1 DEF Typed
  <2>. QED BY <2>1, <2>2, <2>3
<1>2. op[p].new = {} /\ Fresh(p) /\ DOMAIN mem[p] = DOMAIN file.wallets
  BY <1>0, <1>1 DEF WorkOK, FreshOK, CopyOK, Expected
<1>5. CopyOK(p)'
  BY <1>0, <1>1, <1>2 DEF CopyOK, Expected, Fresh, Kind, At
<1>6. WorkOK(p)'
  BY <1>0, <1>1, <1>2 DEF WorkOK, Kind, At
<1>7. FreshOK(p)'
  BY <1>1, <1>2 DEF FreshOK, Fresh
<1>8. FileOK'
  BY <1>0, <1>1, NotTorn DEF FileOK, Works
<1>. QED BY <1>0, <1>1, <1>5, <1>6, <1>7, <1>8, AloneStep DEF Good, Works, FileMoves

\* A wallet that is added to the map was not in the file.
LEMMA ChangeAdds ==
  ASSUME Typed, ApartInv, Apart', NEW p \in Processes, Change(p), Kind(p) # "remove"
  PROVE  ApartInv'
<1>0. /\ CopyOK(p) /\ FreshOK(p) /\ WorkOK(p) /\ FileOK /\ ~missed /\ ~twice
      /\ op[p] \in Operations /\ stage[p] = "change" /\ Kind(p) # "look"
  BY InvFacts DEF Change, OpOK, Kind
<1>1. PICK at : \E s \in {"check", "save"} :
            Goes(p, [op[p] EXCEPT !.at = at, !.left = @ - 1, !.new = @ \cup {At(p)}], s)
  BY Zenon, ChangeGoes
<1>. DEFINE o == [op[p] EXCEPT !.at = at, !.left = @ - 1, !.new = @ \cup {At(p)}]
<1>2. o.kind = op[p].kind /\ o.new = op[p].new \cup {At(p)} /\ o.known = op[p].known
  BY <1>0 DEF Operations
<1>. HIDE DEF o
<1>3. PICK s \in {"check", "save"} : Goes(p, o, s)
  BY <1>1 DEF o
<1>4. /\ op'[p] = o /\ stage'[p] = s /\ io'[p] = "stat" /\ io[p] = "ready"
      /\ UNCHANGED <<file, loaded, acked, missed>> /\ dropped' = dropped \ {At(p)}
      /\ twice' = (twice \/ At(p) \in op[p].known)
  BY <1>3, TypedWorks, GoWorking DEF Goes, Change
<1>5. DOMAIN mem'[p] = DOMAIN mem[p] \cup {At(p)}
  BY DEF Change, Typed
<1>6. Kind(p) = "add" => s = "save"
  <2>1. op[p].left = 1 => stage'[p] = "save"
    BY DEF Change, Proceed, Typed
  <2>. QED BY <1>0, <1>4, <2>1 DEF WorkOK
<1>7. Fresh(p) /\ At(p) \notin DOMAIN mem[p] /\ DOMAIN mem[p] = DOMAIN file.wallets \cup op[p].new
  BY <1>0 DEF WorkOK, FreshOK, CopyOK, Expected
<1>8. CopyOK(p)'
  BY <1>0, <1>2, <1>4, <1>5, <1>7 DEF CopyOK, Expected, Fresh, Kind
<1>9. WorkOK(p)'
  BY <1>0, <1>2, <1>4, <1>6, <1>7 DEF WorkOK, Kind
<1>10. FreshOK(p)'
  BY <1>4, <1>7 DEF FreshOK, Fresh
<1>11. FileOK'
  BY <1>0, <1>4, NotTorn DEF FileOK, Works
<1>12. ~twice'
  BY <1>0, <1>4, <1>7 DEF WorkOK
<1>. QED BY <1>0, <1>4, <1>8, <1>9, <1>10, <1>11, <1>12, AloneStep DEF Good, Works, FileMoves

\* The file is emptied: nothing is said about it until it is written.
LEMMA TruncateGood ==
  ASSUME Typed, ApartInv, Apart', NEW p \in Processes, Truncate(p)
  PROVE  ApartInv'
<1>0. /\ CopyOK(p) /\ FreshOK(p) /\ WorkOK(p) /\ FileOK /\ ~missed /\ ~twice
      /\ file \in FileRec /\ file.time \in Nat /\ loaded[p] \in Nat \cup {Nothing}
  BY InvFacts DEF Typed
<1>1. /\ UNCHANGED <<mem, loaded, op, io, acked, dropped, missed, twice>>
      /\ stage[p] = "save" /\ io[p] = "ready" /\ stage'[p] = "write"
  BY DEF Truncate, history, Typed
<1>2. file'.wallets = file.wallets /\ file'.torn = TRUE /\ file'.time = file.time + 1
  BY <1>0 DEF Truncate, FileRec
<1>3. Fresh(p)
  BY <1>0, <1>1 DEF FreshOK
<1>4. CopyOK(p)'
  <2>1. Expected(p)' = Expected(p)
    BY <1>1, <1>2 DEF Expected, Kind, At
  <2>2. loaded'[p] = Nothing \/ loaded'[p] <= file'.time
    BY <1>0, <1>1, <1>2 DEF CopyOK
  <2>. QED BY <1>0, <1>1, <1>3, <2>1, <2>2 DEF CopyOK
<1>5. WorkOK(p)'
  BY <1>0, <1>1, <1>2 DEF WorkOK, Kind, At
<1>6. FreshOK(p)'
  BY <1>1 DEF FreshOK
<1>7. FileOK'
  BY <1>0, <1>1, <1>2 DEF FileOK
<1>8. FileMoves
  BY <1>0, <1>2 DEF FileMoves
<1>. QED BY <1>0, <1>1, <1>4, <1>5, <1>6, <1>7, <1>8, AloneStep DEF Good, Works

\* The file that is written has what was promised before, and what p added.
LEMMA WriteGood ==
  ASSUME Typed, ApartInv, Apart', NEW p \in Processes, Write(p)
  PROVE  ApartInv'
<1>0. /\ CopyOK(p) /\ FreshOK(p) /\ WorkOK(p) /\ FileOK /\ ~missed /\ ~twice
      /\ file.time \in Nat /\ loaded[p] \in Nat \cup {Nothing}
  BY InvFacts
<1>1. /\ UNCHANGED <<mem, loaded, op, io, acked, dropped, missed, twice>>
      /\ stage[p] = "write" /\ stage'[p] = "record"
      /\ file'.wallets = mem[p] /\ file'.torn = FALSE /\ file'.time = file.time + 1
  BY DEF Write, history, Typed
<1>2. DOMAIN mem[p] = IF Kind(p) = "remove" THEN DOMAIN file.wallets \ {At(p)}
                      ELSE DOMAIN file.wallets \cup op[p].new
  BY <1>0, <1>1 DEF CopyOK, Expected
<1>3. CopyOK(p)'
  BY <1>0, <1>1 DEF CopyOK
<1>4. WorkOK(p)'
  BY <1>0, <1>1, <1>2 DEF WorkOK, Kind, At
<1>5. FreshOK(p)'
  BY <1>0, <1>1 DEF FreshOK
<1>6. FileOK'
  <2>1. acked \subseteq DOMAIN mem[p] /\ dropped \cap DOMAIN mem[p] = {}
    BY <1>0, <1>1, <1>2 DEF FileOK, WorkOK
  <2>2. file'.time # 0
    BY <1>0, <1>1
  <2>. QED BY <1>1, <2>1, <2>2 DEF FileOK
<1>7. FileMoves
  BY <1>0, <1>1 DEF FileMoves
<1>. QED BY <1>0, <1>1, <1>3, <1>4, <1>5, <1>6, <1>7, AloneStep DEF Good, Works

\* What is answered is in the file.
LEMMA RecordGood ==
  ASSUME Typed, ApartInv, Apart', NEW p \in Processes, RecordTime(p)
  PROVE  ApartInv'
<1>0. /\ CopyOK(p) /\ FreshOK(p) /\ WorkOK(p) /\ FileOK /\ ~missed /\ ~twice /\ file.time \in Nat
  BY InvFacts
<1>1. /\ UNCHANGED <<file, mem, missed, twice>> /\ loaded'[p] = file.time
      /\ stage[p] = "record" /\ Answer(p)
  BY DEF RecordTime, Typed
<1>2. stage'[p] = "idle" /\ io'[p] = "ready"
  BY <1>1 DEF Answer, End, Proceed, Typed
<1>3. /\ acked' = acked \cup op[p].new
      /\ dropped' = IF Kind(p) = "remove" THEN dropped \cup {At(p)} ELSE dropped
  BY <1>1 DEF Answer
<1>4. CopyOK(p)'
  BY <1>0, <1>1, <1>2 DEF CopyOK, Expected
<1>5. WorkOK(p)'
  BY <1>2 DEF WorkOK
<1>6. FreshOK(p)'
  BY <1>2 DEF FreshOK
<1>7. FileOK'
  <2>1. op[p].new \subseteq DOMAIN file.wallets /\ (Kind(p) = "remove" => At(p) \notin DOMAIN file.wallets)
    BY <1>0, <1>1 DEF WorkOK
  <2>2. ~file.torn
    BY <1>1, NotTorn DEF Works
  <2>. QED BY <1>0, <1>1, <1>3, <2>1, <2>2 DEF FileOK
<1>. QED BY <1>0, <1>1, <1>4, <1>5, <1>6, <1>7, AloneStep DEF Good, Works, FileMoves

\* A process that dies outside of a write loses nothing but its map.
LEMMA CrashGood ==
  ASSUME Typed, ApartInv, Apart', NEW p \in Processes, Crash(p)
  PROVE  ApartInv'
<1>0. /\ FileOK /\ ~missed /\ ~twice /\ file.time \in Nat
  BY InvFacts
<1>1. /\ UNCHANGED <<file, acked, dropped, missed, twice>> /\ stage[p] # "write" /\ End(p)
      /\ loaded'[p] = Nothing /\ mem'[p] = NoWallets
  BY DEF Crash, Apart, Typed
<1>2. stage'[p] = "idle" /\ io'[p] = "ready"
  BY <1>1 DEF End, Proceed, Typed
<1>3. \A q \in Processes : q # p => Unmoved(q)
  BY OthersUnmoved
<1>4. CopyOK(p)'
  <2>1. Fresh(p)' => file.time = 0
    BY <1>0, <1>1, NothingAssumption DEF Fresh
  <2>2. DOMAIN mem'[p] = {} /\ Expected(p)' = DOMAIN file.wallets
    BY <1>1, <1>2, NoWalletsType DEF Expected
  <2>. QED BY <1>0, <1>1, <1>2, <2>1, <2>2 DEF CopyOK, FileOK
<1>5. WorkOK(p)' /\ FreshOK(p)'
  BY <1>2 DEF WorkOK, FreshOK
<1>6. \A q \in Processes : Good(q)'
  BY <1>1, <1>3, <1>4, <1>5, SameGood DEF ApartInv, Good
<1>7. FileOK'
  <2>1. file.torn => \E q \in Processes : stage'[q] = "write"
    BY <1>0, <1>1, <1>3 DEF FileOK, Unmoved
  <2>. QED BY <1>0, <1>1, <2>1 DEF FileOK
<1>8. Solo'
  BY <1>2, <1>3 DEF ApartInv, Solo, Unmoved
<1>. QED BY <1>0, <1>1, <1>6, <1>7, <1>8 DEF ApartInv

-----------------------------------------------------------------------------
(* The theorems. *)

LEMMA StoreStep ==
  ASSUME StoreInv, [Next]_vars
  PROVE  StoreInv'
<1>1. Typed /\ Typed'
  BY TypedStep DEF StoreInv
<1>2. ASSUME Apart' PROVE ApartInv'
  <2>1. ApartInv
    BY <1>1, <1>2, ApartBefore DEF StoreInv
  <2>2. CASE UNCHANGED vars
    <3>1. Solo' /\ FileOK' /\ ~missed' /\ ~twice'
      BY <2>1, <2>2 DEF vars, history, ApartInv, Solo, FileOK
    <3>2. \A q \in Processes : Good(q)'
      BY <2>1, <2>2, SameGood DEF vars, history, ApartInv, Unmoved
    <3>. QED BY <3>1, <3>2 DEF ApartInv
  <2>3. ASSUME NEW p \in Processes, Works(p) PROVE ApartInv'
    BY <1>1, <1>2, <2>1, <2>3, StatGood, ReadGood, StartGood, SkipGood, RefuseGood, AcceptGood,
       ChangeRemoves, ChangeAdds, TruncateGood, WriteGood, RecordGood DEF Works
  <2>4. ASSUME NEW p \in Processes, Begins(p) PROVE ApartInv'
    BY <1>1, <1>2, <2>1, <2>4, BeginGood
  <2>5. ASSUME NEW p \in Processes, Crash(p) PROVE ApartInv'
    BY <1>1, <1>2, <2>1, <2>5, CrashGood
  <2>6. ASSUME NEW p \in Processes PROVE ~WriteFails(p)
    BY <1>2 DEF WriteFails, Apart
  <2>. QED BY <2>2, <2>3, <2>4, <2>5, <2>6 DEF Next, Works, Begins
<1>. QED BY <1>1, <1>2 DEF StoreInv

LEMMA StoreInit == Init => StoreInv
<1>. SUFFICES ASSUME Init PROVE StoreInv
  OBVIOUS
<1>1. Typed
  BY TypedInit
<1>2. /\ file.wallets = NoWallets /\ file.time = 0 /\ file.torn = FALSE /\ acked = {} /\ dropped = {}
      /\ ~missed /\ ~twice
  BY DEF Init
<1>3. ASSUME NEW p \in Processes
      PROVE  stage[p] = "idle" /\ io[p] = "ready" /\ loaded[p] = Nothing /\ mem[p] = NoWallets
  BY DEF Init
<1>4. FileOK
  BY <1>2, NoWalletsType DEF FileOK
<1>5. ASSUME NEW p \in Processes PROVE Good(p)
  <2>1. DOMAIN mem[p] = Expected(p)
    BY <1>2, <1>3 DEF Expected
  <2>. QED BY <1>3, <2>1 DEF Good, CopyOK, FreshOK, WorkOK
<1>6. Solo
  BY <1>3 DEF Solo
<1>. QED BY <1>1, <1>2, <1>4, <1>5, <1>6 DEF StoreInv, ApartInv

\* As long as no two operations met and no write was lost, what a caller was told is in
\* the file: a wallet that was added is there, one that was removed is not, by
\* whichever of any number of processes, and whoever died between two writes.
THEOREM AnsweredStays == Spec => []AnsweredIsStored
<1>1. StoreInv => AnsweredIsStored
  BY DEF StoreInv, ApartInv, FileOK, AnsweredIsStored
<1>. QED BY <1>1, StoreInit, StoreStep, PTL DEF Spec

\* So long, nobody is handed a generated wallet that was there before.
THEOREM GeneratedStaysNew == Spec => []GeneratedIsNew
<1>1. StoreInv => GeneratedIsNew
  BY DEF StoreInv, ApartInv, GeneratedIsNew
<1>. QED BY <1>1, StoreInit, StoreStep, PTL DEF Spec

\* So long, a lookup finds a wallet that was added before it began, in whichever
\* process either of them runs: no copy that is out of date is looked at.
THEOREM LookupsFind == Spec => []LookupsFindStored
<1>1. StoreInv => LookupsFindStored
  BY DEF StoreInv, ApartInv, LookupsFindStored
<1>. QED BY <1>1, StoreInit, StoreStep, PTL DEF Spec

-----------------------------------------------------------------------------
(* Batches.                                                                 *)

Holding == {"fresh", "chunk", "txn", "failing", "unlock"}

\* A loop that generates holds the advisory lock of its batch.
LockInv ==
    \A p \in Loops :
        /\ pc[p] \in Holding \cup {"lock"} => batch[p] \in Batches
        /\ pc[p] \in Holding => lock[batch[p]] = p

\* Under the lock nextIndex follows the counter, and stays inside the batch.
NextInv ==
    \A p \in Loops :
        /\ pc[p] \in {"chunk", "txn"} => next[p] = inserted[batch[p]] + 1
        /\ pc[p] = "txn" => ~Finished(p)

BatchInv == BatchTypeOK /\ LockInv /\ NextInv /\ IndexesContiguous /\ CompletedIsFull

-----------------------------------------------------------------------------
\* A chunk is not empty and ends inside the batch.
LEMMA AfterBounds ==
    ASSUME BatchTypeOK, NEW p \in Loops, batch[p] \in Batches, ~Finished(p)
    PROVE  After(p) \in Nat /\ next[p] < After(p) /\ After(p) <= Total[batch[p]] + 1
BY BatchAssumption DEF BatchTypeOK, Finished, After

\* The commit of a chunk appends it to the stored indexes.
LEMMA StoredChunk ==
    ASSUME BatchInv, NEW p \in Loops, pc[p] = "txn", Stored(p)
    PROVE  /\ inserted' = [inserted EXCEPT ![batch[p]] = After(p) - 1]
           /\ inserted'[batch[p]] + 1 = After(p)
           /\ inserted' \in [Batches -> Nat]
           /\ wallets' \in [Batches -> SUBSET (Nat \ {0})]
           /\ IndexesContiguous'
<1> DEFINE b == batch[p]
<1>1. /\ b \in Batches
      /\ next[p] = inserted[b] + 1 /\ ~Finished(p)
      /\ inserted[b] \in Nat /\ Total[b] \in Nat
      /\ inserted \in [Batches -> Nat]
      /\ wallets \in [Batches -> SUBSET (Nat \ {0})]
    BY BatchAssumption DEF BatchInv, LockInv, NextInv, BatchTypeOK, Holding
<1>2. After(p) \in Nat /\ next[p] < After(p) /\ After(p) <= Total[b] + 1
    BY <1>1, AfterBounds DEF BatchInv
<1>3. inserted' = [inserted EXCEPT ![b] = inserted[b] + (After(p) - next[p])]
      /\ wallets' = [wallets EXCEPT ![b] = wallets[b] \cup (next[p] .. (After(p) - 1))]
    BY DEF Stored, ChunkIndexes
<1>4. inserted[b] + (After(p) - next[p]) = After(p) - 1 /\ After(p) - 1 \in Nat
    BY <1>1, <1>2
<1>5. (1 .. inserted[b]) \cup (next[p] .. (After(p) - 1)) = 1 .. (After(p) - 1)
    BY <1>1, <1>2
<1>6. \A c \in Batches : wallets[c] = 1 .. inserted[c] /\ inserted[c] <= Total[c]
    BY DEF BatchInv, IndexesContiguous
<1>7. wallets' = [wallets EXCEPT ![b] = 1 .. (After(p) - 1)]
    BY <1>1, <1>3, <1>5, <1>6
<1>8. inserted' = [inserted EXCEPT ![b] = After(p) - 1]
    BY <1>3, <1>4
<1>9. ASSUME NEW c \in Batches PROVE wallets'[c] = 1 .. inserted'[c] /\ inserted'[c] <= Total[c]
  <2>1. CASE c = b
    <3>1. wallets'[c] = 1 .. (After(p) - 1) /\ inserted'[c] = After(p) - 1
      BY <1>1, <1>7, <1>8, <2>1
    <3>2. After(p) - 1 <= Total[b]
      BY <1>1, <1>2
    <3> QED BY <2>1, <3>1, <3>2
  <2>2. CASE c # b
    BY <1>1, <1>6, <1>7, <1>8, <2>2
  <2> QED BY <2>1, <2>2
<1>10. inserted'[b] + 1 = After(p)
    BY <1>1, <1>2, <1>8
<1>11. inserted' \in [Batches -> Nat]
    BY <1>1, <1>4, <1>8
<1>12. wallets' \in [Batches -> SUBSET (Nat \ {0})]
  <2>1. 1 .. (After(p) - 1) \in SUBSET (Nat \ {0})
    BY <1>2
  <2> QED BY <1>1, <1>7, <2>1
<1>13. IndexesContiguous'
    BY <1>9 DEF IndexesContiguous
<1> QED BY <1>8, <1>10, <1>11, <1>12, <1>13

-----------------------------------------------------------------------------
\* Variables keep their shapes.
LEMMA BatchTypeStep == BatchInv /\ [BatchNext]_batchVars => BatchTypeOK'
<1> SUFFICES ASSUME BatchInv, [BatchNext]_batchVars PROVE BatchTypeOK'
    OBVIOUS
<1> USE BatchAssumption DEF BatchInv, BatchTypeOK, Statuses, PCs, loop
<1>1. CASE UNCHANGED batchVars
    BY <1>1 DEF batchVars
<1>2. ASSUME NEW b \in Batches, Create(b) PROVE BatchTypeOK'
    BY <1>2 DEF Create
<1>3. ASSUME NEW p \in Loops, Claim(p) PROVE BatchTypeOK'
    BY <1>3 DEF Claim
<1>4. ASSUME NEW p \in Loops, Lock(p) PROVE BatchTypeOK'
    BY <1>4 DEF Lock
<1>5. ASSUME NEW p \in Loops, ReadAgain(p) PROVE BatchTypeOK'
  <2>1. batch[p] \in Batches
    BY <1>5 DEF ReadAgain, LockInv, Holding
  <2> QED BY <1>5, <2>1 DEF ReadAgain, FirstIndex
<1>6. ASSUME NEW p \in Loops, InsertChunk(p) PROVE BatchTypeOK'
    BY <1>6 DEF InsertChunk
<1>7. ASSUME NEW p \in Loops, CommitChunk(p) PROVE BatchTypeOK'
  <2>1. inserted' \in [Batches -> Nat] /\ wallets' \in [Batches -> SUBSET (Nat \ {0})]
    BY <1>7, StoredChunk DEF CommitChunk
  <2>2. After(p) \in Nat \ {0}
    BY <1>7, AfterBounds DEF CommitChunk, NextInv, LockInv, Holding
  <2> QED BY <1>7, <2>1, <2>2 DEF CommitChunk
<1>8. ASSUME NEW p \in Loops, ChunkError(p) PROVE BatchTypeOK'
  <2>1. inserted' \in [Batches -> Nat] /\ wallets' \in [Batches -> SUBSET (Nat \ {0})]
    BY <1>8, StoredChunk DEF ChunkError, RolledBack
  <2> QED BY <1>8, <2>1 DEF ChunkError, BatchFault
<1>9. ASSUME NEW p \in Loops, Complete(p) \/ MarkFailed(p) PROVE BatchTypeOK'
    BY <1>9 DEF Complete, MarkFailed
<1>10. ASSUME NEW p \in Loops, OtherError(p) PROVE BatchTypeOK'
    BY <1>10 DEF OtherError, BatchFault
<1>11. ASSUME NEW p \in Loops, Unlock(p) \/ Die(p) \/ Restart(p) PROVE BatchTypeOK'
    BY <1>11 DEF Unlock, Die, Restart, Released, BatchFault
<1>12. ASSUME NEW o \in Owners, NEW b \in Batches, Ask(o, b) PROVE BatchTypeOK'
    BY <1>12 DEF Ask
<1>13. ASSUME NEW o \in Owners, Requeue(o) PROVE BatchTypeOK'
    BY <1>13 DEF Requeue
<1>14. ASSUME NEW p \in Loops, LoopStep(p) PROVE BatchTypeOK'
    BY <1>3, <1>4, <1>5, <1>6, <1>7, <1>9, <1>11, <1>14, Zenon DEF LoopStep
<1> QED
    BY <1>1, <1>2, <1>8, <1>10, <1>11, <1>12, <1>13, <1>14, Zenon DEF BatchNext

\* Two loops under the lock work on different batches.
LEMMA Excluded ==
    ASSUME BatchInv, NEW p \in Loops, NEW q \in Loops, p # q,
           pc[p] \in Holding, pc[q] \in Holding
    PROVE  batch[p] # batch[q]
BY DEF BatchInv, LockInv

\* Steps that store nothing and leave the loops where the invariant sees them.
LEMMA QuietStep ==
    ASSUME BatchInv, BatchTypeOK', UNCHANGED <<inserted, wallets, lock, pc, batch, next>>,
           \A b \in Batches : status'[b] = "completed" => status[b] = "completed"
    PROVE  BatchInv'
<1>1. LockInv'
    BY DEF BatchInv, LockInv
<1>2. NextInv'
    BY DEF BatchInv, NextInv, Finished
<1>3. IndexesContiguous' /\ CompletedIsFull'
    BY DEF BatchInv, IndexesContiguous, CompletedIsFull
<1> QED BY <1>1, <1>2, <1>3 DEF BatchInv

\* A step of one loop that stores nothing.
LEMMA LoopQuiet ==
    ASSUME BatchInv, BatchTypeOK', NEW p \in Loops,
           UNCHANGED <<inserted, wallets>>,
           \A q \in Loops \ {p} :
               /\ pc'[q] = pc[q] /\ batch'[q] = batch[q] /\ next'[q] = next[q]
               /\ pc[q] \in Holding => lock'[batch[q]] = lock[batch[q]],
           pc'[p] \in Holding \cup {"lock"} => batch'[p] \in Batches,
           pc'[p] \in Holding => lock'[batch'[p]] = p,
           pc'[p] \in {"chunk", "txn"} => next'[p] = inserted[batch'[p]] + 1,
           pc'[p] = "txn" => ~Finished(p)',
           \A b \in Batches : status'[b] = "completed" => inserted[b] = Total[b]
    PROVE  BatchInv'
<1>1. LockInv'
    BY DEF BatchInv, LockInv
<1>2. NextInv'
    BY DEF BatchInv, NextInv, Finished
<1>3. IndexesContiguous' /\ CompletedIsFull'
    BY DEF BatchInv, IndexesContiguous, CompletedIsFull
<1> QED BY <1>1, <1>2, <1>3 DEF BatchInv

\* The two steps that store a chunk.
LEMMA ChunkStep ==
    ASSUME BatchInv, BatchTypeOK', NEW p \in Loops, pc[p] = "txn", Stored(p),
           UNCHANGED <<status, lock, batch>>,
           \A q \in Loops \ {p} : pc'[q] = pc[q] /\ next'[q] = next[q],
           pc'[p] = "failing" \/ (pc'[p] = "chunk" /\ next'[p] = After(p))
    PROVE  BatchInv'
<1>1. /\ batch[p] \in Batches
      /\ next[p] = inserted[batch[p]] + 1 /\ ~Finished(p)
      /\ \A q \in Loops \ {p} : pc[q] \in Holding => batch[q] # batch[p]
    BY Excluded DEF BatchInv, LockInv, NextInv, Holding
<1>2. /\ inserted' = [inserted EXCEPT ![batch[p]] = After(p) - 1]
      /\ inserted'[batch[p]] + 1 = After(p)
      /\ IndexesContiguous'
    BY StoredChunk
<1>3. LockInv'
    BY <1>1 DEF BatchInv, LockInv, Holding
<1>4. NextInv'
  <2>1. ASSUME NEW q \in Loops \ {p}, pc[q] \in {"chunk", "txn"} PROVE inserted'[batch[q]] = inserted[batch[q]]
    BY <1>1, <1>2, <2>1 DEF BatchInv, BatchTypeOK, LockInv, Holding
  <2>2. ASSUME NEW q \in Loops \ {p}
        PROVE  /\ pc'[q] \in {"chunk", "txn"} => next'[q] = inserted'[batch'[q]] + 1
               /\ pc'[q] = "txn" => ~Finished(q)'
    BY <2>1 DEF BatchInv, NextInv, Finished
  <2>3. /\ pc'[p] \in {"chunk", "txn"} => next'[p] = inserted'[batch'[p]] + 1
        /\ pc'[p] # "txn"
    BY <1>2
  <2>4. ~(pc'[p] = "txn") /\ \A q \in Loops : q = p \/ q \in Loops \ {p}
    BY <2>3
  <2> QED BY <2>2, <2>3, <2>4 DEF NextInv
<1>5. CompletedIsFull'
  <2>1. status[batch[p]] # "completed"
    BY <1>1, BatchAssumption DEF BatchInv, CompletedIsFull, BatchTypeOK, Finished
  <2> QED BY <1>1, <1>2, <2>1 DEF BatchInv, BatchTypeOK, CompletedIsFull
<1> QED BY <1>2, <1>3, <1>4, <1>5 DEF BatchInv

LEMMA BatchInvInit == BatchInit => BatchInv
<1> SUFFICES ASSUME BatchInit PROVE BatchInv
    OBVIOUS
<1> USE BatchAssumption DEF BatchInit
<1>1. BatchTypeOK
    BY DEF BatchTypeOK, Statuses, PCs
<1>2. LockInv /\ NextInv
    BY DEF LockInv, NextInv, Holding
<1>3. \A b \in Batches : wallets[b] = 1 .. inserted[b] /\ inserted[b] <= Total[b]
  <2> SUFFICES ASSUME NEW b \in Batches
               PROVE  wallets[b] = 1 .. inserted[b] /\ inserted[b] <= Total[b]
    BY Zenon
  <2>1. inserted[b] = 0 /\ wallets[b] = {} /\ 0 <= Total[b]
    OBVIOUS
  <2>2. 1 .. 0 = {}
    OBVIOUS
  <2> QED BY <2>1, <2>2, Zenon
<1>4. IndexesContiguous /\ CompletedIsFull
    BY <1>3 DEF IndexesContiguous, CompletedIsFull
<1> QED BY <1>1, <1>2, <1>4 DEF BatchInv

LEMMA BatchInvStep == BatchInv /\ [BatchNext]_batchVars => BatchInv'
<1> SUFFICES ASSUME BatchInv, [BatchNext]_batchVars PROVE BatchInv'
    OBVIOUS
<1>0. BatchTypeOK'
    BY BatchTypeStep
<1>1. CASE UNCHANGED batchVars
    BY <1>0, <1>1, QuietStep DEF batchVars
<1>2. ASSUME NEW b \in Batches, Create(b) PROVE BatchInv'
    BY <1>0, <1>2, QuietStep DEF Create, loop, BatchInv, BatchTypeOK
<1>3. ASSUME NEW o \in Owners, NEW b \in Batches, Ask(o, b) PROVE BatchInv'
    BY <1>0, <1>3, QuietStep DEF Ask, loop
<1>4. ASSUME NEW o \in Owners, Requeue(o) PROVE BatchInv'
    BY <1>0, <1>4, QuietStep DEF Requeue, loop, BatchInv, BatchTypeOK
<1> USE <1>0, BatchAssumption DEF BatchInv, BatchTypeOK, LockInv, Holding, CompletedIsFull
<1>5. ASSUME NEW p \in Loops, Claim(p) PROVE BatchInv'
    BY <1>5, LoopQuiet DEF Claim
<1>6. ASSUME NEW p \in Loops, Lock(p) PROVE BatchInv'
    BY <1>6, LoopQuiet DEF Lock
<1>7. ASSUME NEW p \in Loops, ReadAgain(p) PROVE BatchInv'
    BY <1>7, LoopQuiet DEF ReadAgain, FirstIndex
<1>8. ASSUME NEW p \in Loops, InsertChunk(p) PROVE BatchInv'
    BY <1>8, LoopQuiet DEF InsertChunk, NextInv, Finished
<1>9. ASSUME NEW p \in Loops, CommitChunk(p) PROVE BatchInv'
    BY <1>9, ChunkStep DEF CommitChunk
<1>10. ASSUME NEW p \in Loops, ChunkError(p) PROVE BatchInv'
  <2>1. CASE Stored(p)
    BY <1>10, <2>1, ChunkStep DEF ChunkError
  <2>2. CASE RolledBack(p)
    BY <1>10, <2>2, LoopQuiet DEF ChunkError, RolledBack
  <2> QED BY <1>10, <2>1, <2>2 DEF ChunkError
<1>11. ASSUME NEW p \in Loops, Complete(p) PROVE BatchInv'
  <2>1. inserted[batch[p]] = Total[batch[p]]
    BY <1>11 DEF Complete, Finished, NextInv, IndexesContiguous
  <2> QED BY <1>11, <2>1, LoopQuiet DEF Complete
<1>12. ASSUME NEW p \in Loops, OtherError(p) PROVE BatchInv'
    BY <1>12, LoopQuiet DEF OtherError
<1>13. ASSUME NEW p \in Loops, MarkFailed(p) PROVE BatchInv'
    BY <1>13, LoopQuiet DEF MarkFailed
<1>14. ASSUME NEW p \in Loops, Unlock(p) PROVE BatchInv'
  <2>1. \A q \in Loops \ {p} : pc[q] \in Holding => lock'[batch[q]] = lock[batch[q]]
    BY <1>14 DEF Unlock, Released
  <2>2. pc'[p] = "idle" /\ UNCHANGED <<inserted, wallets, status>>
        /\ \A q \in Loops \ {p} : pc'[q] = pc[q] /\ batch'[q] = batch[q] /\ next'[q] = next[q]
    BY <1>14 DEF Unlock
  <2> QED BY <2>1, <2>2, LoopQuiet
<1>15. ASSUME NEW p \in Loops, Die(p) PROVE BatchInv'
  <2>1. \A q \in Loops \ {p} : pc[q] \in Holding => lock'[batch[q]] = lock[batch[q]]
    BY <1>15 DEF Die, Released
  <2>2. pc'[p] = "down" /\ UNCHANGED <<inserted, wallets, status>>
        /\ \A q \in Loops \ {p} : pc'[q] = pc[q] /\ batch'[q] = batch[q] /\ next'[q] = next[q]
    BY <1>15 DEF Die
  <2> QED BY <2>1, <2>2, LoopQuiet
<1>16. ASSUME NEW p \in Loops, Restart(p) PROVE BatchInv'
    BY <1>16, LoopQuiet DEF Restart
<1>17. ASSUME NEW p \in Loops, LoopStep(p) PROVE BatchInv'
    BY <1>5, <1>6, <1>7, <1>8, <1>9, <1>11, <1>13, <1>14, <1>16, <1>17, Zenon DEF LoopStep
<1> QED
    BY <1>1, <1>2, <1>3, <1>4, <1>10, <1>12, <1>15, <1>17, Zenon DEF BatchNext

\* Every reachable state is well typed.
THEOREM BatchTypeCorrect == BatchSpec => []BatchTypeOK
<1>1. BatchInv => BatchTypeOK
    BY DEF BatchInv
<1> QED BY <1>1, BatchInvInit, BatchInvStep, PTL DEF BatchSpec

\* The stored indexes are exactly 1 to the progress counter.
THEOREM IndexesAlwaysContiguous == BatchSpec => []IndexesContiguous
<1>1. BatchInv => IndexesContiguous
    BY DEF BatchInv
<1> QED BY <1>1, BatchInvInit, BatchInvStep, PTL DEF BatchSpec

\* A completed batch has all its addresses.
THEOREM CompletedAlwaysFull == BatchSpec => []CompletedIsFull
<1>1. BatchInv => CompletedIsFull
    BY DEF BatchInv
<1> QED BY <1>1, BatchInvInit, BatchInvStep, PTL DEF BatchSpec

\* The row read under the advisory lock gives each generator fresh indexes.
THEOREM NeverCollides == BatchSpec => []NoCollision
<1>1. BatchInv => NoCollision
  <2> SUFFICES ASSUME BatchInv, NEW p \in Loops, pc[p] = "chunk"
               PROVE  ChunkIndexes(p) \cap wallets[batch[p]] = {}
    BY DEF NoCollision
  <2>1. /\ batch[p] \in Batches /\ next[p] = inserted[batch[p]] + 1
        /\ inserted[batch[p]] \in Nat
        /\ wallets[batch[p]] = 1 .. inserted[batch[p]]
    BY DEF BatchInv, BatchTypeOK, LockInv, NextInv, IndexesContiguous, Holding
  <2> QED BY <2>1 DEF ChunkIndexes
<1> QED BY <1>1, BatchInvInit, BatchInvStep, PTL DEF BatchSpec
=============================================================================
