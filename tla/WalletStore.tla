------------------------------ MODULE WalletStore ------------------------------
(***************************************************************************)
(* The wallets an owner keeps on the server: one JSON file, and in every    *)
(* process a map of what it last loaded.  An operation looks at the file's  *)
(* time, reloads the map if it changed, changes it and rewrites the whole   *)
(* file.  A process runs one operation at a time, without a pause of its    *)
(* own; two processes meet between their calls of the file system.          *)
(***************************************************************************)
EXTENDS Naturals, FiniteSets

CONSTANTS
    Processes,
    MaxIndex,    \* bound: the last derivation index
    Imported,    \* addresses of other keys
    Primary,     \* the owner's own address, which is never stored
    Nothing,     \* no operation, no time
    MaxCount,    \* the most wallets an operation generates or registers
    MaxOps,      \* bound: operations
    MaxFaults    \* bound: deaths, failed writes

\* A derived address is named by its index.
Indexes == 0 .. MaxIndex
Addresses == Indexes \cup Imported

ASSUME StoreAssumption ==
    /\ MaxIndex \in Nat
    /\ MaxCount \in Nat \ {0}
    /\ MaxOps \in Nat
    /\ MaxFaults \in Nat

Kinds == {"generate", "register", "add", "remove", "look"}

\* at: the address it is at; left: how many it has still to do; new: those it
\* has added; known: those acknowledged when it began.
Operations ==
    [kind : Kinds, at : Nat \cup Addresses \cup {Nothing}, left : Nat,
     new : SUBSET (Addresses \ {Primary}), known : SUBSET Addresses]

ASSUME NothingAssumption == Nothing \notin Nat /\ Nothing \notin Operations

VARIABLES
    file,     \* its wallets and their kinds, its time, and whether a write is under way
    mem,      \* per process: the map
    loaded,   \* per process: lastLoadedDiskMtimeMs
    op,       \* per process: the operation it runs
    stage,    \* per process: what the operation does next
    io,       \* per process: where store() or persist() is
    seen,     \* per process: the time it saw before it reads
    ops,
    faults,
    acked,    \* history: wallets whose caller was told they were added
    dropped,  \* history: wallets whose caller was told they were removed
    overlap,  \* history: two operations met
    spoilt,   \* history: a write failed, or its process died in it
    missed,   \* history: a lookup did not find a wallet that was added before
    twice     \* history: a wallet was generated that was there already

history == <<acked, dropped, overlap, spoilt, missed, twice>>
vars == <<file, mem, loaded, op, stage, io, seen, ops, faults, history>>

NoWallets == [a \in {} |-> "added"]

Init ==
    /\ file = [wallets |-> NoWallets, time |-> 0, torn |-> FALSE]
    /\ mem = [p \in Processes |-> NoWallets]
    /\ loaded = [p \in Processes |-> Nothing]
    /\ op = [p \in Processes |-> Nothing]
    /\ stage = [p \in Processes |-> "idle"]
    /\ io = [p \in Processes |-> "ready"]
    /\ seen = [p \in Processes |-> 0]
    /\ ops = 0
    /\ faults = 0
    /\ acked = {}
    /\ dropped = {}
    /\ overlap = FALSE
    /\ spoilt = FALSE
    /\ missed = FALSE
    /\ twice = FALSE

Fault == faults < MaxFaults /\ faults' = faults + 1

Op(kind, at, left) ==
    [kind |-> kind, at |-> at, left |-> left, new |-> {}, known |-> acked]

\* The next step of the operation starts with a call of store().
Proceed(p, where) ==
    /\ stage' = [stage EXCEPT ![p] = where]
    /\ io' = [io EXCEPT ![p] = IF where = "idle" THEN "ready" ELSE "stat"]

Do(p, o) == op' = [op EXCEPT ![p] = o]

End(p) == Do(p, Nothing) /\ Proceed(p, "idle")

-----------------------------------------------------------------------------
(* store(): the map, reloaded if the file changed. *)

\* Mutant of Changed: the map is loaded once.
ChangedOnce(p) == loaded[p] = Nothing

\* Every write is taken to change the time: two within a tick of the file
\* system's clock, which the code would take for one, are left out.
Changed(p) == loaded[p] # file.time

Stat(p) ==
    /\ io[p] = "stat"
    /\ IF file.time > 0 /\ Changed(p)
         THEN io' = [io EXCEPT ![p] = "read"] /\ seen' = [seen EXCEPT ![p] = file.time]
         ELSE io' = [io EXCEPT ![p] = "ready"] /\ UNCHANGED seen
    /\ UNCHANGED <<file, mem, loaded, op, stage, ops, faults, history>>

\* A file that is being written does not parse: the map stays as it is.
Read(p) ==
    /\ io[p] = "read"
    /\ IF file.torn
         THEN UNCHANGED <<mem, loaded>>
         ELSE mem' = [mem EXCEPT ![p] = file.wallets] /\ loaded' = [loaded EXCEPT ![p] = seen[p]]
    /\ io' = [io EXCEPT ![p] = "ready"]
    /\ seen' = [seen EXCEPT ![p] = 0]
    /\ UNCHANGED <<file, op, stage, ops, faults, history>>

-----------------------------------------------------------------------------
(* Operations.  add, one of an import too, has one address; generate and      *)
(* register go through indexes and write once, in the end.                    *)

Begin(p, o, where) ==
    /\ stage[p] = "idle"
    /\ ops < MaxOps
    /\ ops' = ops + 1
    /\ Do(p, o)
    /\ Proceed(p, where)
    /\ overlap' = (overlap \/ \E q \in Processes \ {p} : stage[q] # "idle")
    /\ UNCHANGED <<file, mem, loaded, seen, faults, acked, dropped, spoilt, missed, twice>>

Generate(p) == \E n \in 1 .. MaxCount : Begin(p, Op("generate", Nothing, n), "start")

Register(p) ==
    \E first \in Indexes, n \in 1 .. MaxCount :
        first + n - 1 <= MaxIndex /\ Begin(p, Op("register", first, n), "check")

Add(p) == \E a \in Addresses \ {Primary} : Begin(p, Op("add", a, 1), "check")

Remove(p) == \E a \in Addresses \ {Primary} : Begin(p, Op("remove", a, 1), "check")

Look(p) == \E a \in Addresses \ {Primary} : Begin(p, Op("look", a, 1), "check")

At(p) == op[p].at
Has(p) == At(p) \in DOMAIN mem[p]
Kind(p) == op[p].kind

\* maxHdDerivationIndexForOwner: wallets added by their key do not count.
Start(p) ==
    LET derived == {a \in DOMAIN mem[p] : mem[p][a] = "hd"}
    IN  /\ stage[p] = "start" /\ io[p] = "ready"
        /\ \E first \in 0 .. MaxIndex + 1 :
              /\ \A a \in derived : a < first
              /\ first > 0 => first - 1 \in derived
              /\ Do(p, [op[p] EXCEPT !.at = first])
        /\ Proceed(p, "check")
        /\ UNCHANGED <<file, mem, loaded, seen, ops, faults, history>>

\* Mutant of Taken: a wallet that is there is generated again.
TakenPrimary(p) == At(p) = Primary

Taken(p) == At(p) = Primary \/ Has(p)

\* An index that is taken is passed over; register counts it, too.
Skip(p) ==
    /\ stage[p] = "check" /\ io[p] = "ready"
    /\ Kind(p) \in {"generate", "register"}
    /\ Taken(p)
    /\ LET left == IF Kind(p) = "register" THEN op[p].left - 1 ELSE op[p].left
       IN  /\ Do(p, [op[p] EXCEPT !.at = @ + 1, !.left = left])
           /\ Proceed(p, IF left = 0 THEN "save" ELSE "check")
    /\ UNCHANGED <<file, mem, loaded, seen, ops, faults, history>>

\* The wallet to add is there, the one to remove is not; a lookup ends anyway.
Refuse(p) ==
    /\ stage[p] = "check" /\ io[p] = "ready"
    /\ \/ Kind(p) = "add" /\ Has(p)
       \/ Kind(p) = "remove" /\ ~Has(p)
       \/ Kind(p) = "look"
    /\ End(p)
    /\ missed' = (missed \/ (Kind(p) = "look" /\ ~Has(p) /\ At(p) \in op[p].known))
    /\ UNCHANGED <<file, mem, loaded, seen, ops, faults, acked, dropped, overlap, spoilt, twice>>

Accept(p) ==
    /\ stage[p] = "check" /\ io[p] = "ready"
    /\ \/ Kind(p) \in {"generate", "register"} /\ ~Taken(p) /\ At(p) \in Indexes
       \/ Kind(p) = "add" /\ ~Has(p)
       \/ Kind(p) = "remove" /\ Has(p)
    /\ Proceed(p, "change")
    /\ UNCHANGED <<file, mem, loaded, op, seen, ops, faults, history>>

\* The map is changed; a batch goes on with the next index.
Change(p) ==
    /\ stage[p] = "change" /\ io[p] = "ready"
    /\ IF Kind(p) = "remove"
         THEN /\ mem' = [mem EXCEPT ![p] = [a \in DOMAIN mem[p] \ {At(p)} |-> mem[p][a]]]
              /\ Proceed(p, "save")
              /\ UNCHANGED <<op, twice>>
         ELSE LET batch == Kind(p) \in {"generate", "register"}
              IN  /\ mem' = [mem EXCEPT ![p] =
                        [a \in DOMAIN @ \cup {At(p)} |->
                            IF a = At(p) THEN (IF batch THEN "hd" ELSE "added") ELSE @[a]]]
                  /\ Do(p, [op[p] EXCEPT !.at = IF batch THEN @ + 1 ELSE @, !.left = @ - 1,
                                          !.new = @ \cup {At(p)}])
                  /\ Proceed(p, IF op[p].left > 1 THEN "check" ELSE "save")
                  /\ twice' = (twice \/ At(p) \in op[p].known)
    /\ acked' = IF Kind(p) = "remove" THEN acked \ {At(p)} ELSE acked
    /\ dropped' = IF Kind(p) = "remove" THEN dropped ELSE dropped \ {At(p)}
    /\ UNCHANGED <<file, loaded, seen, ops, faults, overlap, spoilt, missed>>

\* persist(store()): the file is emptied and written anew.
Truncate(p) ==
    /\ stage[p] = "save" /\ io[p] = "ready"
    /\ file' = [file EXCEPT !.torn = TRUE, !.time = @ + 1]
    /\ stage' = [stage EXCEPT ![p] = "write"]
    /\ UNCHANGED <<mem, loaded, op, io, seen, ops, faults, history>>

Write(p) ==
    /\ stage[p] = "write"
    /\ file' = [wallets |-> mem[p], torn |-> FALSE, time |-> file.time + 1]
    /\ stage' = [stage EXCEPT ![p] = "record"]
    /\ UNCHANGED <<mem, loaded, op, io, seen, ops, faults, history>>

\* The caller is told.
Answer(p) ==
    /\ acked' = acked \cup op[p].new
    /\ dropped' = IF Kind(p) = "remove" THEN dropped \cup {At(p)} ELSE dropped
    /\ End(p)

\* Nobody is told that a write failed.
WriteFails(p) ==
    /\ stage[p] = "write"
    /\ Fault
    /\ spoilt' = TRUE
    /\ Answer(p)
    /\ UNCHANGED <<file, mem, loaded, seen, ops, overlap, missed, twice>>

\* The time is looked up after the write; it may be that of a later one.
RecordTime(p) ==
    /\ stage[p] = "record"
    /\ loaded' = [loaded EXCEPT ![p] = file.time]
    /\ Answer(p)
    /\ UNCHANGED <<file, mem, seen, ops, faults, overlap, spoilt, missed, twice>>

Crash(p) ==
    /\ Fault
    /\ spoilt' = (spoilt \/ stage[p] = "write")
    /\ mem' = [mem EXCEPT ![p] = NoWallets]
    /\ loaded' = [loaded EXCEPT ![p] = Nothing]
    /\ seen' = [seen EXCEPT ![p] = 0]
    /\ End(p)
    /\ UNCHANGED <<file, ops, acked, dropped, overlap, missed, twice>>

-----------------------------------------------------------------------------
Next ==
    \E p \in Processes :
        \/ Stat(p) \/ Read(p)
        \/ Generate(p) \/ Register(p) \/ Add(p) \/ Remove(p) \/ Look(p)
        \/ Start(p) \/ Skip(p) \/ Refuse(p) \/ Accept(p) \/ Change(p)
        \/ Truncate(p) \/ Write(p) \/ WriteFails(p) \/ RecordTime(p)
        \/ Crash(p)

Spec == Init /\ [][Next]_vars

-----------------------------------------------------------------------------
(* Properties. *)

\* What follows holds as long as no two operations met and no write was lost:
\* one process at a time.
Apart == ~overlap /\ ~spoilt

\* What a caller was told is in the file: nothing that was added is missing, and
\* nothing that was removed is back, whichever process did it, or died.
AnsweredIsStored ==
    Apart /\ ~file.torn =>
        acked \subseteq DOMAIN file.wallets /\ dropped \cap DOMAIN file.wallets = {}

\* A process finds what another one added, as long as its key is looked for
\* after the answer.
LookupsFindStored == Apart => ~missed

\* Nobody is handed a generated wallet that was there before.
GeneratedIsNew == Apart => ~twice

\* "Monotonically increasing index per owner": a wallet that was removed is not
\* generated again.
RemovedIsNotGenerated ==
    \A p \in Processes : stage[p] = "change" /\ Kind(p) = "generate" => At(p) \notin dropped

\* Every variable has the shape the code gives it; the owner's own wallet is
\* never stored.
TypeOK ==
    /\ DOMAIN file.wallets \subseteq Addresses \ {Primary}
    /\ \A p \in Processes : DOMAIN mem[p] \subseteq Addresses \ {Primary}
    /\ loaded \in [Processes -> Nat \cup {Nothing}]
    /\ \A p \in Processes : op[p] = Nothing <=> stage[p] = "idle"
    /\ \A p \in Processes : op[p] # Nothing => op[p] \in Operations
    /\ acked \subseteq Addresses /\ dropped \subseteq Addresses
=============================================================================
