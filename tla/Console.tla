------------------------------- MODULE Console -------------------------------
(***************************************************************************)
(* The web console, as one page mounted in a browser: the airdrop page, two *)
(* sections of the dashboard, the mix page or the page of one job.  Handlers *)
(* of clicks, the restoring of a session and polls are chains of requests;   *)
(* what the page shows is whatever answer came last.  The server is what the *)
(* routes read and write; moving to another page mounts it anew.            *)
(***************************************************************************)
EXTENDS Naturals, Sequences, SequencesExt, FiniteSets

CONSTANTS
    Owners,    \* accounts whose keys the server has
    Strangers, \* other accounts of the browser's wallet
    Jobs,
    Slots,     \* bound: polls of jobs in flight
    Spare,     \* bound: wallets of an owner besides its own
    Nothing,
    MaxClicks, \* bound: clicks, switches of account, calls of other tabs and reruns
    MaxFaults, \* bound: requests or answers lost, errors of the server, tokens expired
    MaxMoves   \* bound: both together

ASSUME ConsoleAssumption ==
    /\ Nothing \notin Owners \cup Strangers \cup Jobs
    /\ Owners \cap Strangers = {} /\ Owners # {} /\ Jobs # {}
    /\ Slots \cap {"hand", "restore", "rows"} = {}
    /\ Spare \in Nat \ {0} /\ MaxClicks \in Nat /\ MaxFaults \in Nat /\ MaxMoves \in Nat

VARIABLES
    view,       \* the page mounted
    account,    \* the account of the browser's wallet as the page knows it
    session,    \* the account verified; the browser's storage keeps the same
    expired,    \* the token of that session is too old for the server
    wallets,    \* the list of distributor wallets shown
    range,      \* places in the list of the first and the last selected wallet
    exported,   \* the owner of the private keys offered for download
    jobs,       \* the jobs listed
    shown,      \* the job shown, with its status
    rowPage,    \* the page of its rows chosen
    rowsOf,     \* the page of its rows shown
    call,       \* per line: requests of its handler still to be answered
    remembered, \* per owner: the selection in the browser's storage
    listed,     \* per owner: wallets the server stores, the owner's own first
    job,        \* per job on the server: owner, status and whether it runs for ever
    clicks,
    faults,
    asked,      \* history: the job the page was last told to show
    crossed,    \* history: what changed while a request for it was in flight
    unshown     \* history: a handler ended without the list it was to show

inBrowser == <<session, expired, wallets, range, exported, jobs, remembered>>
panel == <<shown, rowPage, rowsOf, asked>>
server == <<listed, job>>
vars == <<view, account, inBrowser, panel, call, server, clicks, faults, crossed, unshown>>

Accounts == Owners \cup Strangers
Lines == {"hand", "restore", "rows"} \cup Slots
Statuses == {"draft", "queued", "running", "paused", "completed", "failed", "cancelled"}

Suite == {"execution", "session", "generation"}
Verifying == {"execution", "session", "mix"}

\* Mutant of Active: a paused job is not polled.
ActiveMoving == {"running", "queued"}

Active == {"running", "queued", "paused"}

Req(op, arg) == [op |-> op, arg |-> arg]

\* `kind` is the handler, `as` the session whose token its requests carry, read
\* when it began; `stale` says that the token has expired.
Begun(kind, who, old, todo) ==
    [kind |-> kind, as |-> who, stale |-> old, todo |-> todo, got |-> Nothing]

Idle(l) == call[l] = Nothing
Send(l, kind, todo) == Idle(l) /\ call' = [call EXCEPT ![l] = Begun(kind, session, expired, todo)]

Click == clicks < MaxClicks /\ clicks + faults < MaxMoves /\ clicks' = clicks + 1
Fault == faults < MaxFaults /\ clicks + faults < MaxMoves /\ faults' = faults + 1

AllWallets == Accounts \X (0 .. Spare)
Shown == [job : Jobs, status : Statuses]

\* What the requests ask for, and what is answered.
Requests ==
    [op : {"verify"}, arg : Accounts]
        \cup [op : {"list", "jobs", "create", "derive"}, arg : {0}]
        \cup [op : {"job", "start", "pause", "cancel", "queue"}, arg : Jobs]
        \cup [op : {"rows"}, arg : {1, 2}]
        \cup [op : {"add", "drop"}, arg : AllWallets]
        \cup [op : {"import", "register"}, arg : SUBSET AllWallets]

Values == Accounts \cup {Nothing, 1, 2} \cup Shown \cup (SUBSET Jobs) \cup Seq(AllWallets)
Answers == [fine : BOOLEAN, value : Values]

Calls ==
    [kind : {"restore", "rows", "verify", "wallets", "job", "refresh", "poll"},
     as : Accounts \cup {Nothing}, stale : BOOLEAN, todo : Seq(Requests), got : Answers \cup {Nothing}]

ASSUME NothingAssumption ==
    /\ Nothing \notin Calls /\ Nothing \notin Answers /\ Nothing \notin Shown /\ Nothing \notin Nat

InRange(list, ends) == {list[i] : i \in ends[1] .. ends[2]}
Selected == InRange(wallets, range)
OwnWallets(o) == {o} \X (0 .. Spare)
NoJob == [owner |-> Nothing, status |-> "none", loop |-> FALSE]

\* What a page loads when it restores the session of the browser's storage.
ShowSuite == <<Req("list", 0), Req("jobs", 0)>>
ShowMix == <<Req("list", 0)>>
ShowJob == <<Req("job", asked)>>

Restored ==
    Begun("restore", session, FALSE,
        CASE view = "detail" -> ShowJob
          [] view = "mix" -> ShowMix
          [] view \in Suite -> ShowSuite)

\* The rows of a job are loaded beside it.
RestoredRows == Begun("rows", session, FALSE, <<Req("rows", 1)>>)

\* Owners are alike: a session restored is of this one.
One == CHOOSE o \in Owners : TRUE

Init ==
    /\ view \in Suite \cup {"mix", "detail"}
    /\ account \in IF view = "detail" THEN {Nothing} ELSE Accounts \cup {Nothing}
    /\ session \in {One} \cup (IF view = "detail" THEN {} ELSE {Nothing})
    /\ expired = FALSE
    /\ wallets = <<>> /\ range = <<1, 0>>
    /\ exported = Nothing
    /\ jobs = {}
    /\ shown = Nothing /\ rowPage = 1 /\ rowsOf = Nothing
    /\ listed = [o \in Owners |-> <<<<o, 0>>, <<o, 1>>>>]
    /\ remembered = [o \in Owners |-> {<<o, 1>>}]
    /\ asked = IF view = "detail" THEN CHOOSE j \in Jobs : TRUE ELSE Nothing
    /\ \E o \in Owners, s \in Statuses, forever \in BOOLEAN :
        job = [j \in Jobs |->
                IF j = asked THEN [owner |-> o, status |-> s, loop |-> forever] ELSE NoJob]
    /\ call = [l \in Lines |->
                IF session # Nothing /\ l = "restore" THEN Restored
                ELSE IF view = "detail" /\ l = "rows" THEN RestoredRows
                ELSE Nothing]
    /\ clicks = 0 /\ faults = 0
    /\ crossed = {} /\ unshown = FALSE

-----------------------------------------------------------------------------
(* The session and the list of wallets.                                     *)

Ops(l) == IF Idle(l) THEN {} ELSE {call[l].todo[i].op : i \in DOMAIN call[l].todo}
Crossing(what, ops, lines) == IF \E l \in lines : Ops(l) \cap ops # {} THEN {what} ELSE {}

\* Whatever changes the session or the selection is stored at once.
Remember(who, selection) ==
    remembered' = IF who \in Owners /\ selection # {}
                  THEN [remembered EXCEPT ![who] = selection] ELSE remembered

\* Mutant of Clear: the list of wallets stays.
ClearKeeping ==
    /\ session' = Nothing /\ expired' = FALSE
    /\ exported' = Nothing /\ jobs' = {}
    /\ UNCHANGED <<wallets, range, remembered>>

\* clearSessionState; the job shown is kept.
Clear ==
    /\ session' = Nothing /\ expired' = FALSE
    /\ wallets' = <<>> /\ range' = <<1, 0>>
    /\ exported' = Nothing /\ jobs' = {}
    /\ UNCHANGED remembered

ClearNow == Clear /\ crossed' = crossed \cup Crossing("session", {"list", "verify"}, Lines)

Logout ==
    /\ view # "detail" /\ session # Nothing
    /\ Click /\ ClearNow
    /\ UNCHANGED <<view, account, panel, call, server, faults, unshown>>

\* accountsChanged; the mix page does not listen.
Switch(a) ==
    /\ view \in Suite /\ a # account
    /\ Click
    /\ account' = a
    /\ IF session # Nothing /\ a # session THEN ClearNow ELSE UNCHANGED <<inBrowser, crossed>>
    /\ UNCHANGED <<view, panel, call, server, faults, unshown>>

SetAccount(a) ==
    /\ view \in Verifying /\ Idle("hand")
    /\ Click
    /\ account' = a
    /\ UNCHANGED <<view, inBrowser, panel, call, server, faults, crossed, unshown>>

Connect(a) == account = Nothing /\ a # Nothing /\ SetAccount(a)

\* The session stays.
Disconnect == account # Nothing /\ SetAccount(Nothing)

VerifyThen(requests) ==
    /\ account # Nothing
    /\ Click
    /\ Send("hand", "verify", <<Req("verify", account)>> \o requests)
    /\ UNCHANGED <<view, account, inBrowser, panel, server, faults, crossed, unshown>>

Verify == view \in Verifying \cap Suite /\ VerifyThen(ShowSuite)

VerifyMix == view = "mix" /\ VerifyThen(ShowMix)

\* The ends chosen are put in order.
ChooseEnds(i, k) ==
    /\ session # Nothing /\ Idle("hand")
    /\ Click
    /\ range' = <<i, k>>
    /\ Remember(session, InRange(wallets, <<i, k>>))
    /\ UNCHANGED <<view, account, session, expired, wallets, exported, jobs, panel, call, server, faults,
                   crossed, unshown>>

Choose == view = "execution" /\ \E i \in DOMAIN wallets : \E k \in i .. Len(wallets) : ChooseEnds(i, k)

ChooseMix == view = "mix" /\ \E i \in DOMAIN wallets : \E k \in i .. Len(wallets) : ChooseEnds(i, k)

\* The handlers of the wallet list; each but the last ends by showing the list.
WalletHandler(v, requests) ==
    /\ view = v /\ session # Nothing
    /\ Click
    /\ Send("hand", "wallets", Append(requests, Req("list", 0)))
    /\ UNCHANGED <<view, account, session, expired, wallets, range, jobs, remembered, panel, server, faults,
                   crossed, unshown>>

AddWallet(w) == WalletHandler("session", <<Req("add", w)>>) /\ UNCHANGED exported

ImportWallets(set) == WalletHandler("session", <<Req("import", set)>>) /\ UNCHANGED exported

\* Wallets with a button, or a row of the table, to remove them.
Removable == ToSet(wallets) \ {<<o, 0>> : o \in Owners}

RemoveWallet(w) == WalletHandler("session", <<Req("drop", w)>>) /\ UNCHANGED exported

\* One request per wallet of the selection in the table.
RemoveWallets(chosen) ==
    /\ Cardinality(chosen) > 1
    /\ WalletHandler("session", [i \in DOMAIN SetToSeq(chosen) |-> Req("drop", SetToSeq(chosen)[i])])
    /\ UNCHANGED exported

\* The keys last offered are withdrawn first.
GenerateHd == WalletHandler("generation", <<Req("derive", 0)>>) /\ exported' = Nothing

RegisterEnv(set) == WalletHandler("generation", <<Req("register", set)>>) /\ exported' = Nothing

-----------------------------------------------------------------------------
(* The job shown.                                                           *)

JobHandler(requests) ==
    /\ Click
    /\ Send("hand", "job", requests)
    /\ UNCHANGED <<view, account, inBrowser, panel, server, faults, crossed, unshown>>

Create ==
    /\ view = "execution" /\ session # Nothing /\ Selected # {}
    /\ JobHandler(<<Req("create", 0)>>)

CreateRotation ==
    /\ view = "mix" /\ session # Nothing /\ account # Nothing /\ Cardinality(Selected) > 1
    /\ JobHandler(<<Req("create", 0)>>)

StartShown ==
    /\ view = "execution" /\ shown # Nothing
    /\ JobHandler(<<Req("start", shown.job), Req("job", shown.job)>>)

\* The mix page does not ask for the job again.
StartRotation ==
    /\ view = "mix" /\ shown # Nothing
    /\ JobHandler(<<Req("start", shown.job)>>)

\* The buttons of the page of a job, by the status it shows.
Offered(op, status) ==
    status \in CASE op = "start" -> {"draft", "queued", "paused"}
                 [] op \in {"pause", "cancel"} -> {"queued", "running"}

PostThenLoad(op) ==
    /\ view = "detail" /\ shown # Nothing
    /\ JobHandler(<<Req(op, asked), Req("job", asked), Req("rows", rowPage)>>)

Post(op) == shown # Nothing /\ Offered(op, shown.status) /\ PostThenLoad(op)

\* A job with a row that failed; its retry also restarts one that is paused.
RetryFailed == shown # Nothing /\ shown.status # "draft" /\ PostThenLoad("queue")

\* Refresh does not disable the other buttons.
Refresh ==
    /\ view = "detail" /\ shown # Nothing /\ Idle("hand")
    /\ Click
    /\ Send("restore", "refresh", <<Req("job", asked)>>)
    /\ UNCHANGED <<view, account, inBrowser, panel, server, faults, crossed, unshown>>

\* Choosing a page of rows asks for it at once.
ChoosePage ==
    /\ view = "detail"
    /\ Click
    /\ rowPage' = 3 - rowPage
    /\ \E s \in Slots : Send(s, "rows", <<Req("rows", 3 - rowPage)>>)
    /\ crossed' = crossed \cup Crossing("rows", {"rows"}, Lines)
    /\ UNCHANGED <<view, account, inBrowser, shown, rowsOf, asked, server, faults, unshown>>

Background == UNCHANGED <<view, account, inBrowser, panel, server, clicks, faults, crossed, unshown>>

\* Mutant of Polled: the interval of the first job created is never cleared.
PolledFirst == CHOOSE j \in Jobs : job[j] # NoJob

\* The job the interval asks for.
Polled == shown.job

Polling == view \in {"execution", "detail"} /\ shown # Nothing /\ shown.status \in Active

JobsOf(o) == {j \in Jobs : job[j].owner = o}
ActiveJobs(o) == {j \in JobsOf(o) : job[j].status \in Active}

\* Bound: polls begin when there is something new to show, or will be refused.
TickJob(s) ==
    /\ Polling
    /\ job[Polled].owner = session
    /\ expired \/ [job |-> Polled, status |-> job[Polled].status] # shown
    /\ Send(s, "poll", <<Req("job", Polled)>>)
    /\ Background

TickRows ==
    /\ view = "detail" /\ Polling /\ (expired \/ rowsOf # rowPage)
    /\ Send("rows", "rows", <<Req("rows", rowPage)>>)
    /\ Background

TickJobs(s) ==
    /\ view = "execution" /\ session \in Owners /\ jobs # ActiveJobs(session)
    /\ Send(s, "poll", <<Req("jobs", 0)>>)
    /\ Background

-----------------------------------------------------------------------------
(* The server: a request is handled at once.                                *)

Waiting(l) == ~Idle(l) /\ call[l].got = Nothing
R(l) == Head(call[l].todo)
Who(l) == call[l].as

Answer(l, fine, value) == call' = [call EXCEPT ![l].got = [fine |-> fine, value |-> value]]

JobOps == {"job", "start", "pause", "cancel", "queue"}

Startable == {"draft", "queued", "paused"}

\* No session, one that is too old, or that of an account whose key the server has not.
NoSession(l) == R(l).op # "verify" /\ (Who(l) \notin Owners \/ call[l].stale)

WalletRefused(l) ==
    LET r == R(l) IN
    \/ r.op = "add" /\ r.arg \in ToSet(listed[Who(l)])
    \/ r.op = "drop" /\ (r.arg = <<Who(l), 0>> \/ r.arg \notin ToSet(listed[Who(l)]))

\* A job of another owner, or one whose status forbids the command.
JobRefused(l) ==
    LET r == R(l) IN
    \/ r.op = "rows" /\ job[asked].owner # Who(l)
    \/ r.op \in JobOps /\
        \/ job[r.arg].owner # Who(l)
        \/ r.op = "start" /\ job[r.arg].status \notin Startable
        \/ r.op = "queue" /\ job[r.arg].status \in {"running", "completed", "cancelled"}
        \/ r.op = "cancel" /\ job[r.arg].status \in {"completed", "cancelled"}

Refused(l) == NoSession(l) \/ WalletRefused(l) \/ JobRefused(l)

ServeRefused(l) ==
    /\ Waiting(l) /\ Refused(l)
    /\ Answer(l, FALSE, Nothing)
    /\ UNCHANGED <<view, account, inBrowser, panel, server, clicks, faults, crossed, unshown>>

Served(l, ops) == Waiting(l) /\ R(l).op \in ops /\ ~Refused(l)

Read(l, op, value) ==
    /\ Served(l, {op})
    /\ Answer(l, TRUE, value)
    /\ UNCHANGED <<view, account, inBrowser, panel, server, clicks, faults, crossed, unshown>>

ServeVerify(l) == ~Idle(l) /\ Read(l, "verify", R(l).arg)

ServeList(l) == ~Idle(l) /\ Who(l) \in Owners /\ Read(l, "list", listed[Who(l)])

ServeJob(l) ==
    /\ ~Idle(l) /\ R(l).op = "job"
    /\ Read(l, "job", [job |-> R(l).arg, status |-> job[R(l).arg].status])

ServeRows(l) == ~Idle(l) /\ Read(l, "rows", R(l).arg)

\* The airdrop page lists jobs that are not over.
ServeJobs(l) ==
    ~Idle(l) /\ Read(l, "jobs", IF view = "execution" THEN ActiveJobs(Who(l)) ELSE JobsOf(Who(l)))

Unlisted(o, set) == SetToSeq(set \ ToSet(listed[o]))

Place(list, w) == CHOOSE i \in DOMAIN list : list[i] = w

New(l) ==
    LET r == R(l) IN
    CASE r.op = "add" -> <<r.arg>>
      [] r.op \in {"import", "register"} -> Unlisted(Who(l), r.arg)
      [] r.op = "derive" -> LET free == Unlisted(Who(l), OwnWallets(Who(l))) IN
                            IF free = <<>> THEN <<>> ELSE <<Head(free)>>

\* The answer to a request that makes keys carries them.
ServeStore(l) ==
    /\ Served(l, {"add", "import", "register", "derive", "drop"})
    /\ listed' = [listed EXCEPT ![Who(l)] =
                    IF R(l).op = "drop" THEN RemoveAt(@, Place(@, R(l).arg)) ELSE @ \o New(l)]
    /\ Answer(l, TRUE, IF R(l).op \in {"register", "derive"} /\ New(l) # <<>> THEN Who(l) ELSE Nothing)
    /\ crossed' = crossed \cup Crossing("store", {"list"}, Lines \ {l})
    /\ UNCHANGED <<view, account, inBrowser, panel, job, clicks, faults, unshown>>

After(op, s) ==
    CASE op \in {"start", "queue"} -> "queued"
      [] op = "pause" -> IF s \in {"queued", "running"} THEN "paused" ELSE s
      [] op = "cancel" -> "cancelled"

ServeCommand(l) ==
    /\ Served(l, {"start", "pause", "cancel", "queue"})
    /\ job' = [job EXCEPT ![R(l).arg].status = After(R(l).op, @)]
    /\ Answer(l, TRUE, [job |-> R(l).arg, status |-> job'[R(l).arg].status])
    /\ UNCHANGED <<view, account, inBrowser, panel, listed, clicks, faults, crossed, unshown>>

\* A job is queued when it is created; only the airdrop page offers to loop it.
ServeCreate(l) ==
    /\ Served(l, {"create"}) /\ \E j \in Jobs : job[j] = NoJob
    /\ LET j == CHOOSE k \in Jobs : job[k] = NoJob IN
        /\ \E forever \in BOOLEAN :
            /\ forever => view = "execution"
            /\ job' = [job EXCEPT ![j] = [owner |-> Who(l), status |-> "queued", loop |-> forever]]
        /\ Answer(l, TRUE, [job |-> j, status |-> "queued"])
    /\ UNCHANGED <<view, account, inBrowser, panel, listed, clicks, faults, crossed, unshown>>

SetStatus(j, from, to) ==
    /\ job[j].status \in from
    /\ job' = [job EXCEPT ![j].status = to]
    /\ UNCHANGED <<view, account, inBrowser, panel, call, listed, faults, crossed, unshown>>

\* The queue and its workers.
Run(j) ==
    /\ \/ SetStatus(j, {"queued"}, "running")
       \/ SetStatus(j, {"running"}, "completed")
       \/ SetStatus(j, {"running"}, "failed")
    /\ UNCHANGED clicks

\* A loop job that ended is queued again once its status is stored; the process
\* may also die, or fail, in between.
Rerun(j) == job[j].loop /\ SetStatus(j, {"completed", "failed"}, "queued") /\ Click

\* The commands of another tab that change a status.
Elsewhere(j) ==
    /\ Click
    /\ \/ SetStatus(j, {"queued", "running"}, "paused")
       \/ SetStatus(j, {"draft", "paused", "failed"}, "queued")
       \/ SetStatus(j, Statuses \ {"completed", "cancelled"}, "cancelled")

\* The session's token is a day old.  The page keeps the session.
Expire ==
    /\ session # Nothing /\ ~expired
    /\ Fault
    /\ expired' = TRUE
    /\ call' = [l \in Lines |->
                IF Idle(l) \/ call[l].as # session THEN call[l] ELSE [call[l] EXCEPT !.stale = TRUE]]
    /\ UNCHANGED <<view, account, session, wallets, range, exported, jobs, remembered, panel, server,
                   clicks, crossed, unshown>>

-----------------------------------------------------------------------------
(* Answers.                                                                 *)

Next1(l) ==
    call' = [call EXCEPT ![l] = IF Len(call[l].todo) = 1 THEN Nothing
                                ELSE [call[l] EXCEPT !.todo = Tail(call[l].todo), !.got = Nothing]]

Arrived(l, ops) == ~Idle(l) /\ call[l].got # Nothing /\ call[l].got.fine /\ R(l).op \in ops
Value(l) == call[l].got.value

\* The session is replaced before its list is asked for.
ArriveSession(l) ==
    /\ Arrived(l, {"verify"})
    /\ session' = Value(l) /\ expired' = FALSE
    /\ Remember(Value(l), Selected)
    /\ call' = [call EXCEPT ![l] = Begun("verify", Value(l), FALSE, Tail(call[l].todo))]
    /\ crossed' = crossed \cup Crossing("session", {"list"}, Lines \ {l})
    /\ UNCHANGED <<view, account, wallets, range, exported, jobs, panel, server, clicks, faults, unshown>>

\* The wallets to select in a list: those remembered, else those selected, else the first.
Picked(list, stored) ==
    LET places(set) == {i \in DOMAIN list : list[i] \in set} IN
    IF places(stored) # {} THEN places(stored)
    ELSE IF places(Selected) # {} THEN places(Selected) ELSE {1}

\* The first and the last of the wallets to select.
Ends(picked) ==
    <<CHOOSE i \in picked : \A k \in picked : i <= k,
      CHOOSE i \in picked : \A k \in picked : k <= i>>

ArriveList(l) ==
    /\ Arrived(l, {"list"})
    /\ wallets' = Value(l)
    /\ range' = Ends(Picked(Value(l), remembered[Who(l)]))
    /\ Remember(session, InRange(wallets', range'))
    /\ unshown' = FALSE
    /\ Next1(l)
    /\ UNCHANGED <<view, account, session, expired, exported, jobs, panel, server, clicks, faults, crossed>>

ArriveStore(l) ==
    /\ Arrived(l, {"add", "import", "register", "derive", "drop"})
    /\ exported' = IF Value(l) # Nothing THEN Value(l) ELSE exported
    /\ Next1(l)
    /\ UNCHANGED <<view, account, session, expired, wallets, range, jobs, remembered, panel, server, clicks,
                   faults, crossed, unshown>>

ListJobs(l) ==
    /\ Arrived(l, {"jobs"})
    /\ jobs' = Value(l)
    /\ Next1(l)
    /\ UNCHANGED <<view, account, session, expired, wallets, range, exported, remembered, panel, server,
                   clicks, faults, crossed, unshown>>

ArriveActive(l) == view = "execution" /\ ListJobs(l)

ArriveHistory(l) == view # "execution" /\ ListJobs(l)

ShowAnswer(l) ==
    /\ shown' = Value(l)
    /\ Next1(l)
    /\ UNCHANGED <<view, account, inBrowser, rowPage, rowsOf, asked, server, clicks, faults, crossed,
                   unshown>>

ArriveJob(l) == view # "detail" /\ Arrived(l, {"job", "start"}) /\ ShowAnswer(l)

ArriveDetail(l) == view = "detail" /\ Arrived(l, {"job"}) /\ ShowAnswer(l)

\* The page of a job does not show the answer to its commands.
ArriveCommand(l) ==
    /\ view = "detail"
    /\ Arrived(l, {"start", "pause", "cancel", "queue"})
    /\ Next1(l)
    /\ UNCHANGED <<view, account, inBrowser, panel, server, clicks, faults, crossed, unshown>>

ArriveCreated(l) ==
    /\ Arrived(l, {"create"})
    /\ shown' = Value(l)
    /\ asked' = Value(l).job
    /\ Next1(l)
    /\ crossed' = crossed \cup Crossing("job", {"job"}, Lines \ {l})
    /\ UNCHANGED <<view, account, inBrowser, rowPage, rowsOf, server, clicks, faults, unshown>>

ArriveRows(l) ==
    /\ Arrived(l, {"rows"})
    /\ rowsOf' = Value(l)
    /\ Next1(l)
    /\ UNCHANGED <<view, account, inBrowser, shown, rowPage, asked, server, clicks, faults, crossed,
                   unshown>>

-----------------------------------------------------------------------------
(* What goes wrong.                                                         *)

\* A handler that fails ends; a verification that fails, its list included,
\* clears the session.
HandlerFails(l) ==
    /\ call' = [call EXCEPT ![l] = Nothing]
    /\ IF call[l].kind = "verify"
       THEN Clear /\ crossed' = crossed \cup Crossing("session", {"list"}, Lines \ {l})
       ELSE UNCHANGED <<inBrowser, crossed>>
    /\ unshown' = (unshown \/ (call[l].kind # "verify" /\ "list" \in Ops(l)))
    /\ UNCHANGED <<shown, rowPage, rowsOf, asked>>

\* The page of a job shows no job, or no rows, and goes on; a job or a list of
\* jobs the server refuses leaves a suite as it is.
Skipped(l, lost) ==
    \/ view = "detail" /\ R(l).op \in {"job", "rows"}
    \/ ~lost /\ R(l).op \in {"job", "jobs"}

Skip(l) ==
    /\ Next1(l)
    /\ shown' = IF view = "detail" /\ R(l).op = "job" THEN Nothing ELSE shown
    /\ rowsOf' = IF R(l).op = "rows" THEN Nothing ELSE rowsOf
    /\ UNCHANGED <<inBrowser, rowPage, asked, crossed, unshown>>

Fail(l, lost) ==
    /\ IF Skipped(l, lost) THEN Skip(l) ELSE HandlerFails(l)
    /\ UNCHANGED <<view, account, server, clicks>>

ArriveRefused(l) ==
    /\ ~Idle(l) /\ call[l].got # Nothing /\ ~call[l].got.fine
    /\ Fail(l, FALSE)
    /\ UNCHANGED faults

\* The request or its answer is lost, or the server answers with an error.
Lose(l) == ~Idle(l) /\ Fault /\ \E lost \in BOOLEAN : Fail(l, lost)

Serve(l) ==
    \/ ServeRefused(l) \/ ServeVerify(l) \/ ServeList(l) \/ ServeJob(l) \/ ServeRows(l) \/ ServeJobs(l)
    \/ ServeStore(l) \/ ServeCommand(l) \/ ServeCreate(l)

Arrive(l) ==
    \/ ArriveSession(l) \/ ArriveList(l) \/ ArriveStore(l) \/ ArriveActive(l) \/ ArriveHistory(l)
    \/ ArriveJob(l) \/ ArriveDetail(l) \/ ArriveCommand(l) \/ ArriveCreated(l) \/ ArriveRows(l)
    \/ ArriveRefused(l)

\* What goes on without the user: requests, intervals and workers.
Progress ==
    \/ \E l \in Lines : Serve(l) \/ Arrive(l)
    \/ \E s \in Slots : TickJob(s) \/ TickJobs(s)
    \/ TickRows
    \/ \E j \in Jobs : Run(j)

Next ==
    \/ \E a \in Accounts \cup {Nothing} : Switch(a) \/ Connect(a)
    \/ Logout \/ Disconnect \/ Verify \/ VerifyMix \/ Choose \/ ChooseMix
    \/ \E w \in OwnWallets(session) \ ToSet(wallets) : AddWallet(w)
    \/ \E set \in SUBSET ({session} \X (1 .. Spare)) : ImportWallets(set) \/ RegisterEnv(set)
    \/ \E w \in Removable : RemoveWallet(w)
    \/ \E chosen \in SUBSET Removable : RemoveWallets(chosen)
    \/ GenerateHd
    \/ Create \/ CreateRotation \/ StartShown \/ StartRotation
    \/ \E op \in {"start", "pause", "cancel"} : Post(op)
    \/ RetryFailed \/ Refresh \/ ChoosePage
    \/ Progress
    \/ Expire
    \/ \E l \in Lines : Lose(l)
    \/ \E j \in Jobs : Rerun(j) \/ Elsewhere(j)

Spec == Init /\ [][Next]_vars

\* It never stands still for ever while it could move.
FairSpec == Spec /\ WF_vars(Progress)

-----------------------------------------------------------------------------
(* Properties.                                                              *)

TypeOK ==
    /\ account \in Accounts \cup {Nothing} /\ session \in Accounts \cup {Nothing}
    /\ wallets \in Seq(UNION {OwnWallets(o) : o \in Owners})
    /\ range[1] \in 1 .. Len(wallets) + 1 /\ range[2] \in 0 .. Len(wallets)
    /\ shown = Nothing \/ shown \in Shown
    /\ rowPage \in 1 .. 2 /\ rowsOf \in {1, 2, Nothing}
    /\ \A l \in Lines : Idle(l) \/ Len(call[l].todo) > 0
    /\ clicks <= MaxClicks /\ faults <= MaxFaults

Quiet(ops) == \A l \in Lines : Ops(l) \cap ops = {}

\* When no list is on its way the page lists what the server stores for the
\* session, and nothing without a session; unless a list was on its way when
\* the session or the store changed, or a handler failed before its list came.
WalletsAreStored ==
    Quiet({"verify", "list"}) /\ ~unshown /\ crossed \cap {"session", "store"} = {} /\ view # "detail" =>
        wallets = IF session \in Owners THEN listed[session] ELSE <<>>

\* The page shows the job it was last told to show and the page of rows
\* chosen, unless an answer was on its way when that changed.
ShownIsAsked ==
    /\ shown # Nothing /\ "job" \notin crossed => shown.job = asked
    /\ rowsOf # Nothing /\ "rows" \notin crossed /\ Quiet({"rows"}) => rowsOf = rowPage

\* Statuses a page does not wait for a change of.
Settled == {"draft", "completed", "failed", "cancelled"}

Watched ==
    /\ shown # Nothing /\ view # "mix"
    /\ session = job[shown.job].owner /\ ~expired
    /\ shown.status \notin Settled

\* Once the jobs change no more, a status shown that still could change is the
\* server's, and the list of active jobs is; unless the token expired.
ViewsCatchUp ==
    <>[][FALSE]_job =>
        <>[](/\ Watched => shown.status = job[shown.job].status
             /\ view = "execution" /\ session \in Owners /\ ~expired => jobs = ActiveJobs(session))

\* Not kept: the airdrop page polls the job it shows while that job runs.
RunningIsPolled ==
    (view = "execution" /\ shown # Nothing /\ \A l \in Lines : Idle(l)) =>
        (job[shown.job].status = "running" => Polling)

\* Not kept: keys offered for download belong to the session.
ExportIsOwners == exported # Nothing => exported = session

\* Not kept: the selection stored for an account is of its own wallets.
SelectionIsOwn == \A o \in Owners : remembered[o] \subseteq OwnWallets(o)

\* Not kept: the rows shown, when none are on their way, are of the page chosen.
RowsAreChosen == rowsOf # Nothing /\ Quiet({"rows"}) => rowsOf = rowPage

\* Not kept: the page shows the job created last.
CreatedIsShown == shown # Nothing => shown.job = asked
=============================================================================
