-------------------------------- MODULE Pages --------------------------------
(***************************************************************************)
(* The console with the lists of recipients its airdrop and mix pages make  *)
(* jobs of: they are worked on under a session, with distributor wallets    *)
(* selected, and wait for a handler that runs.                              *)
(***************************************************************************)
EXTENDS Console

CONSTANTS Forms, Imports, Batch, MaxWallets, Step, Unit, Wallets, Ranges, MaxLoops, BatchSize

VARIABLES page, made, gen, rows, mixed

plan == <<page, made, gen, rows, mixed>>

Plan == INSTANCE RecipientPlan

ASSUME Plan!PlanAssumption

\* Bound: what is done to recipients is explored on a page where nothing else
\* was done, for one owner; what the page shows does not depend on them.
Untouched ==
    /\ account = session /\ session = One
    /\ clicks = 0 /\ faults = 0
    /\ \A l \in Lines : Idle(l)

Ready == session # Nothing /\ Selected # {} /\ Idle("hand")

PagesInit == Init /\ Plan!Init

PlanNext ==
    /\ Ready /\ Untouched
    /\ \/ view = "execution" /\ Plan!Airdrop
       \/ view = "mix" /\ Plan!CreateMix
    /\ UNCHANGED vars

ConsoleNext == Plan!Init /\ Next /\ UNCHANGED plan

PagesNext == PlanNext \/ ConsoleNext

pages == <<vars, plan>>

PagesSpec == PagesInit /\ [][PagesNext]_pages /\ WF_pages(Plan!Init /\ Progress /\ UNCHANGED plan)

-----------------------------------------------------------------------------
(* Properties of the lists, stated in RecipientPlan.                        *)

\* A list made from a fixed total has every recipient asked for and sums to
\* the total, however many requests it took.
ListKeepsTotal == Plan!ListKeepsTotal

\* A random split that was begun is never given up.
SplitNeverGivesUp == Plan!SplitNeverGivesUp

\* An amount drawn from a range is never above it, and below it by less than
\* the last decimal shown.
DrawnNearRange == Plan!DrawnNearRange

\* The signers of a job share its rows evenly; in a rotation nobody pays itself.
RowsAreShared == Plan!RowsAreShared

\* Not kept: an amount drawn from a range lies in the range.
DrawnInRange == Plan!DrawnInRange

\* Not kept: a list made from a total the token can express moves no more.
NeverOverpays == Plan!NeverOverpays
=============================================================================
