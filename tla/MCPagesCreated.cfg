CONSTANTS
    Nothing = Nothing
    a = a
    b = b
    j1 = j1
    j2 = j2
    s1 = s1
    Owners = {a, b}
    Strangers = {}
    Jobs = {j1, j2}
    Slots = {s1}
    Spare = 2
    MaxClicks = 2
    MaxFaults = 1
    MaxMoves = 3
    Forms <- AllForms
    Imports <- AllImports
    Ranges <- AllRanges
    Batch = 4
    MaxWallets = 9
    Step = 3
    Unit = 3
    Wallets = 3
    MaxLoops = 2
    BatchSize = 5
SPECIFICATION PagesSpec
CHECK_DEADLOCK FALSE
INVARIANT
    CreatedIsShown
