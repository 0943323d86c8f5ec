---------------------------- MODULE RecipientPlan ----------------------------
(***************************************************************************)
(* Who is paid how much by whom: the recipient list of the airdrop page, the *)
(* rotation of the mix page, and the rows of a job made from them or from a  *)
(* saved wallet batch.  The page asks the server for its recipients in       *)
(* requests of a limited size; the server splits a total or draws amounts    *)
(* from a range.  Amounts count the finest unit (18 decimals).              *)
(***************************************************************************)
EXTENDS Integers, Sequences, SequencesExt, FiniteSets

CONSTANTS
    Forms,        \* bound: what the user may ask the server for
    Imports,      \* bound: lists the user may import
    Batch,        \* recipients per request
    MaxWallets,   \* the most recipients of one list
    Step,         \* finest units in the last of the four decimals shown
    Unit,         \* finest units in the smallest unit of the token paid
    Wallets,      \* distributor wallets, 1 .. Wallets in the order of the list
    Ranges,       \* bound: pairs of a least and a greatest amount
    MaxLoops,     \* bound: loops of a rotation
    BatchSize,    \* wallets of the saved batch
    Nothing

Recipient == [to : 0 .. Wallets, amount : Nat]
Row == [to : 0 .. Wallets, amount : Nat, signer : 1 .. Wallets]
Generation == [form : Forms, offset : Nat, list : Seq(Recipient), split : Seq(Nat) \cup {Nothing}]

\* Assumed by the modules that use this one.
PlanAssumption ==
    /\ Batch \in Nat \ {0} /\ MaxWallets \in Nat /\ Step \in Nat \ {0} /\ Unit \in Nat \ {0}
    /\ Wallets \in Nat \ {0} /\ MaxLoops \in Nat /\ BatchSize \in Nat
    /\ Ranges \subseteq Nat \X Nat
    /\ \A f \in Forms : f.count \in Nat \ {0} /\ f.total \in Nat /\ f.fixed \in BOOLEAN
                        /\ f.hd \in BOOLEAN /\ f.range \in Ranges
    /\ \A list \in Imports : list \in Seq(Recipient)
    /\ Nothing \notin Forms /\ Nothing \notin Generation /\ Nothing \notin Seq(Nat)

VARIABLES
    page,   \* the recipients on the page: whom and how much; 0 is not a distributor wallet
    made,   \* the form the page's list answers, nothing once it was imported or edited
    gen,    \* the generation that runs: its form, the next offset, what it has gathered,
            \* and the random split of the request in flight
    rows,   \* the job created last: recipient, amount and signer per row
    mixed   \* the loops of that job when the mix page made it, else 0

vars == <<page, made, gen, rows, mixed>>

Init ==
    /\ page = <<>>
    /\ made = Nothing
    /\ gen = Nothing
    /\ rows = <<>>
    /\ mixed = 0

MinOf(a, b) == IF a < b THEN a ELSE b
MaxOf(a, b) == IF a > b THEN a ELSE b
Sum(amounts) == FoldLeft(+, 0, amounts)

ToOthers(amounts) == [i \in DOMAIN amounts |-> [to |-> 0, amount |-> amounts[i]]]

-----------------------------------------------------------------------------
(* The arithmetic of split-amounts.ts.                                      *)

\* Recipient g of an even split, counted from 0 over all requests.
EvenShare(total, count, g) == total \div count + (IF g < total % count THEN 1 ELSE 0)

\* Mutant of EvenSlice: the remainder is spread over every request.
EvenSliceLocal(total, count, offset, length) ==
    [i \in 1 .. length |-> EvenShare(total, count, i - 1)]

EvenSlice(total, count, offset, length) ==
    [i \in 1 .. length |-> EvenShare(total, count, offset + i - 1)]

Least(form) == (form.total \div form.count) \div 2
Greatest(form) == (form.total \div form.count) * 3

\* Mutant of HighBound: nothing is kept for the parts after it.
HighBoundGreedy(rem, after, form) == MinOf(Greatest(form), rem)

\* The bounds of the next part while `after` parts come after it.
LowBound(rem, after, form) == MaxOf(Least(form), rem - after * Greatest(form))
HighBound(rem, after, form) == MinOf(Greatest(form), rem - after * Least(form))

\* Four decimals: rounded half up, kept in the range, then cut when formatted.
Rounded(a) == IF Step = 1 THEN a ELSE ((a + Step \div 2) \div Step) * Step

\* Mutant of Clamped: the upper end is forgotten.
ClampedBelow(a, range) == MaxOf(a, range[1])

Clamped(a, range) == IF a < range[1] THEN range[1] ELSE IF a > range[2] THEN range[2] ELSE a

Formatted(a) == (a \div Step) * Step

Drawn(range) == {Formatted(Clamped(Rounded(raw), range)) : raw \in range[1] .. range[2]}

\* What a transfer of the amount moves: the token may have fewer decimals.
Paid(amount) == ((2 * amount + Unit) \div (2 * Unit)) * Unit

-----------------------------------------------------------------------------
(* The airdrop page: generateWalletsOnBackend and the route it asks.         *)

Asked == gen # Nothing
Length == MinOf(Batch, gen.form.count - gen.offset)

\* The page refuses what the server would refuse: a random split of a fixed
\* total does not span requests.
Generate(form) ==
    /\ gen = Nothing
    /\ form.count <= MaxWallets
    /\ form.fixed /\ ~form.hd => form.count <= Batch
    /\ gen' = [form |-> form, offset |-> 0, list |-> <<>>, split |-> Nothing]
    /\ rows' = <<>> /\ mixed' = 0
    /\ UNCHANGED <<page, made>>

Gather(amounts) ==
    gen' = [gen EXCEPT !.list = @ \o ToOthers(amounts), !.offset = @ + Len(amounts), !.split = Nothing]

More == Asked /\ gen.offset < gen.form.count /\ gen.split = Nothing

EvenAmounts == EvenSlice(gen.form.total, gen.form.count, gen.offset, Length)

\* Deterministic addresses, one recipient, or a total too small to be split at random.
AnswerEven ==
    /\ More
    /\ gen.form.fixed /\ gen.form.total > 0
    /\ gen.form.hd \/ gen.form.count = 1 \/ Least(gen.form) = 0
    /\ Gather(EvenAmounts)
    /\ UNCHANGED <<page, made, rows, mixed>>

BeginSplit ==
    /\ More
    /\ gen.form.fixed /\ ~gen.form.hd /\ gen.form.count > 1 /\ Least(gen.form) > 0
    /\ gen' = [gen EXCEPT !.split = <<>>]
    /\ UNCHANGED <<page, made, rows, mixed>>

Splitting == Asked /\ gen.split # Nothing
Remaining == gen.form.total - Sum(gen.split)
After == gen.form.count - Len(gen.split) - 1

Low == LowBound(Remaining, After, gen.form)
High == HighBound(Remaining, After, gen.form)

\* The split is given up, and made even, when the bounds leave no part.
DrawPart ==
    /\ Splitting /\ After > 0
    /\ IF Low > High
       THEN Gather(EvenAmounts)
       ELSE \E part \in Low .. High : gen' = [gen EXCEPT !.split = Append(@, part)]
    /\ UNCHANGED <<page, made, rows, mixed>>

LastFits == Least(gen.form) <= Remaining /\ Remaining <= Greatest(gen.form)

EndSplit ==
    /\ Splitting /\ After = 0
    /\ Gather(IF LastFits THEN Append(gen.split, Remaining) ELSE EvenAmounts)
    /\ UNCHANGED <<page, made, rows, mixed>>

AnswerRange ==
    /\ More
    /\ ~gen.form.fixed
    /\ \E amounts \in [1 .. Length -> Drawn(gen.form.range)] : Gather(amounts)
    /\ UNCHANGED <<page, made, rows, mixed>>

\* A request that fails ends the generation; the list of the page stays.
RequestFails ==
    /\ Asked
    /\ gen' = Nothing
    /\ UNCHANGED <<page, made, rows, mixed>>

ShowList ==
    /\ Asked /\ gen.offset >= gen.form.count
    /\ page' = gen.list
    /\ made' = gen.form
    /\ gen' = Nothing
    /\ UNCHANGED <<rows, mixed>>

\* Importing and removing are not disabled while a generation runs.
Edit(list) ==
    /\ page' = list
    /\ made' = Nothing
    /\ rows' = <<>> /\ mixed' = 0
    /\ UNCHANGED gen

ImportCsv == \E list \in Imports : Edit(list)

RemoveRecipient == \E i \in DOMAIN page : Edit(RemoveAt(page, i))

-----------------------------------------------------------------------------
(* The rows of a job.  Signers are used in turn.                             *)

Signed(list, signers) ==
    [k \in DOMAIN list |->
        [to |-> list[k].to, amount |-> list[k].amount, signer |-> ((k - 1) % signers) + 1]]

Create(newRows, loops) ==
    /\ rows' = newRows
    /\ mixed' = loops
    /\ UNCHANGED <<page, made, gen>>

\* createBatchJob needs the page: not while a generation runs.
CreateFromPage ==
    /\ gen = Nothing /\ page # <<>> /\ rows = <<>>
    /\ \E signers \in 1 .. Wallets : Create(Signed(page, signers), 0)

Ring(signers) == [i \in 1 .. signers |-> (i % signers) + 1]

Permuted(signers) ==
    {p \in [1 .. signers -> 1 .. signers] : \A i, j \in 1 .. signers : p[i] = p[j] => i = j}

\* Mutant of Deranged: any shuffle is taken.
DerangedNot(signers) == Permuted(signers)

\* A shuffle nobody of which pays itself; the ring after two hundred failed tries.
Deranged(signers) == {p \in Permuted(signers) : \A i \in 1 .. signers : p[i] # i}

Turns(signers) == Deranged(signers) \cup {Ring(signers)}

\* The mix page draws the amounts itself and keeps no list.
CreateMix ==
    /\ gen = Nothing /\ page = <<>> /\ rows = <<>>
    /\ \E signers \in 2 .. Wallets, loops \in 1 .. MaxLoops, range \in Ranges :
       \E turns \in [1 .. loops -> Turns(signers)],
          amounts \in [1 .. signers * loops -> Drawn(range)] :
          Create(Signed([k \in 1 .. signers * loops |->
                            [to |-> turns[((k - 1) \div signers) + 1][((k - 1) % signers) + 1],
                             amount |-> amounts[k]]], signers),
                 loops)

\* A wallet of the batch is signed for by its place in the range, whatever the
\* chunk it is read in.
BatchSigner(index, from, signers) == ((index - from) % signers) + 1

CreateFromBatch ==
    /\ gen = Nothing /\ page = <<>> /\ rows = <<>>
    /\ \E from \in 1 .. BatchSize : \E to \in from .. BatchSize :
       \E signers \in 1 .. Wallets, range \in Ranges, uniform \in BOOLEAN :
       \E amounts \in [from .. to -> IF uniform THEN {range[1]} ELSE Drawn(range)] :
          Create([k \in 1 .. to - from + 1 |->
                    [to |-> 0, amount |-> amounts[from + k - 1],
                     signer |-> BatchSigner(from + k - 1, from, signers)]], 0)

\* What is done on the airdrop page.
Airdrop ==
    \/ \E form \in Forms : Generate(form)
    \/ AnswerEven
    \/ BeginSplit
    \/ DrawPart
    \/ EndSplit
    \/ AnswerRange
    \/ RequestFails
    \/ ShowList
    \/ ImportCsv
    \/ RemoveRecipient
    \/ CreateFromPage
    \/ CreateFromBatch

Next == Airdrop \/ CreateMix

Spec == Init /\ [][Next]_vars

-----------------------------------------------------------------------------
(* Properties.                                                              *)

TypeOK ==
    /\ page \in Seq(Recipient)
    /\ made \in Forms \cup {Nothing}
    /\ gen # Nothing =>
        /\ gen.form \in Forms
        /\ gen.offset \in 0 .. gen.form.count
        /\ gen.list \in Seq(Recipient)
        /\ gen.split = Nothing \/ gen.split \in Seq(Nat)
    /\ rows \in Seq(Row)
    /\ mixed \in 0 .. MaxLoops

AmountsOf(list) == [i \in DOMAIN list |-> list[i].amount]
Distance(a, b) == IF a > b THEN a - b ELSE b - a

\* A list made from a fixed total has every recipient asked for and sums to
\* the total, however many requests it took; what its transfers move differs
\* by at most half a unit of the token per recipient.
ListKeepsTotal ==
    made # Nothing /\ made.fixed =>
        /\ Len(page) = made.count
        /\ Sum(AmountsOf(page)) = made.total
        /\ 2 * Distance(Sum([i \in DOMAIN page |-> Paid(page[i].amount)]), made.total)
               <= made.count * Unit

\* A random split that was begun is never given up: every part drawn leaves an
\* amount the parts after it can take, and all lie between half and three times
\* the even share.
SplitNeverGivesUp ==
    Splitting =>
        /\ \A i \in DOMAIN gen.split : gen.split[i] \in Least(gen.form) .. Greatest(gen.form)
        /\ IF After > 0 THEN Low <= High ELSE LastFits

\* An amount drawn from a range is never above it, and below it by less than
\* the last decimal shown.
DrawnNearRange ==
    made # Nothing /\ ~made.fixed =>
        \A i \in DOMAIN page :
            /\ page[i].amount <= made.range[2]
            /\ page[i].amount > made.range[1] - Step

SignerRows(s) == Cardinality({k \in DOMAIN rows : rows[k].signer = s})
UsedSigners == {rows[k].signer : k \in DOMAIN rows}

\* The signers of a job share its rows evenly.  In a rotation nobody pays
\* itself, and every wallet pays and is paid once per loop.
RowsAreShared ==
    /\ \A s, t \in UsedSigners : SignerRows(s) <= SignerRows(t) + 1
    /\ mixed > 0 =>
        /\ \A k \in DOMAIN rows : rows[k].to # rows[k].signer
        /\ \A s \in UsedSigners :
            /\ SignerRows(s) = mixed
            /\ Cardinality({k \in DOMAIN rows : rows[k].to = s}) = mixed

\* Not kept: an amount drawn from a range lies in the range.
DrawnInRange ==
    made # Nothing /\ ~made.fixed =>
        \A i \in DOMAIN page : page[i].amount \in made.range[1] .. made.range[2]

\* Not kept: a list made from a total the token can express moves no more than
\* the total.
NeverOverpays ==
    made # Nothing /\ made.fixed /\ made.total % Unit = 0 =>
        Sum([i \in DOMAIN page |-> Paid(page[i].amount)]) <= made.total
=============================================================================
