# Verification of the GSB salak backend

TLA+ models of the Go backend in `src/`: customers save in a *kapook* (piggy
bank) towards a goal, the saved money is turned into *salak* (lottery bonds),
and a worker buys the salak unattended once a countdown has run out.  The
modules are checked with TLC on small instances; the results that matter most
are proved with TLAPS for every value of the constants.

## The system

| Component | State | Operations | Works with |
|---|---|---|---|
| kapook service (`internal/kapook/service`, `repository`) | goals, kapook transactions, accepted terms | Accept, CreateGoal, Deposit, Withdraw, BuyFromGoal, SettleMaturedHolding | accounts (debit, credit), transaction (purchase, settlement), salak (rules) |
| auto-purchase worker (`internal/kapook/worker`) | none of its own; deferral and failure columns of goals | RunOnce: claim, buy, defer, record a failure | kapook service, in one transaction with a savepoint per goal |
| purchase and settlement (`internal/transaction`) | ledger | BuySalak, BuySalakForKapook, SettleMaturedHoldingInTx | accounts, salak |
| salak (`internal/salak`) | products, draw days, holdings, ticket cursors | ValidatePurchase, EnsureNotDrawDay, NextAvailableDate, MintHolding, ReserveTicketRange, Upsert | accounts |
| accounts (`internal/account`) | balances, account numbers | Create, Debit, Credit, LockForUpdate | - |
| users (`internal/user`) | users | Register, Login | accounts |
| kapook HTTP layer (`internal/kapook/http`) | none; the devices have | nine endpoints, each around one service call | kapook service |
| platform (`internal/platform`) | connection pool; settings read at start | Open, Load, getEnvDuration | all processes |
| seed (`cmd/seed`) | none; rows with fixed ids | products, calendar, admin, demo login and goal | salak, users, accounts, kapook |
| admin (`internal/admin`) | admins | Login, SettleHolding, list of stuck goals | kapook service |
| badges, chooser | badge weights | GetRandomBadge, UserOwnsBadge | purchase |
| other handlers, tokens, migrations, frontend | - | decoding, signing, schema, screens | all services |

Components share one PostgreSQL database and call each other in process.  An
operation is one database transaction, usually: lock the goal, check, lock and
change accounts, write rows, commit.  Some reads inside a transaction use the
ambient database handle, so they neither lock nor see the transaction.

What is hard here, and what each component must guarantee:

* **kapook**: requests of the customer, outcomes of the worker and settlements
  of an administrator reach the same goal in any order.  Amounts of a goal must
  stay consistent with each other, with the balance of the kapook account and
  with the holdings bought; the countdown must match the goal; a closed goal
  must leave no money behind.
* **worker**: replicas without a leader, batches, deferrals, failures that stay
  due, processes that die, clocks that pass midnight.  A goal must be closed
  once, never early, and eventually.
* **tickets**: prize-determining numbers.  No number twice, no hole, letters in
  order, although purchases interleave, fail and are rolled back to savepoints.
* **accounts**: no overdraft, no money made or lost, no deadlock; numbers that
  never collide; columns that round alike.
* **transactions**: the code takes row locks, but a few reads go past them, and
  past the transaction's connection.  What commits must look like one request
  at a time, and every request must end.
* **clients**: an answer is lost, or an error arrives after the commit, and the
  request is sent again.
* **settings**: two processes read the same file at different times.
* **seed**: a program of many small transactions is run again, stopped half-way,
  and meets a database that is older than itself.

`PROJECT.json` lists the hazards with their lines, those without a property
included.

## Modules

| Module | Models | Grain of a step |
|---|---|---|
| `Kapook` | goals, holdings, balances | one committed transaction |
| `KapookTx` | the same operations under row locks; implements `Kapook` | one statement |
| `KapookApi` | the HTTP endpoints as the devices of a customer see them | a transaction or a reading behind it |
| `Satang` | the money columns and their rounding | one request |
| `TicketSequence` | the ticket cursor | one statement |
| `AutoPurchaseWorker` | passes of the worker | one statement |
| `Countdown` | the durations that the API and the worker each read | a tick, a restart, a pass |
| `DrawCalendar` | the calendar of draw days over three real years | a day, a run of the seed |
| `ConnPool` | the connection pool of the API process | one use of a connection |
| `Registration` | users, accounts and account numbers | one statement |
| `Seed` | `cmd/seed` beside live traffic | one statement |

`MCx` holds the instances of module `x`.  Theorems are in the modules
`KapookProofs`, `KapookTxProofs`, `KapookApiProofs`, `TicketSequenceProofs`,
`AutoPurchaseWorkerProofs`, `RegistrationProofs` (also for `Seed`) and
`PlatformProofs` (`ConnPool`, `Satang`, `Countdown` and `DrawCalendar`).  Where
theorems about several components stand in one module, the components prefix
`Init`, `Next`, `Spec`, `TypeOK` and `vars` with their names (`SeedSpec`), and
`Countdown` calls its two requests `LastDeposit` and `WithdrawAll`.  `Sums` is
the total of a set of rows (`Total`), `SumProofs` the lemmas about it.
`KapookSums` adds to `Kapook` the properties that sum over holdings, so that
both `MCKapook` and `KapookProofs` can state them.  `KapookTx` takes `Kapook` as
an instance (`K`) under a refinement mapping; the others are composed by their
boundaries: what a module leaves to another one is in its header and below.

### Kapook

`savings`, `kapook` and `salak` are the balances of the three accounts that
registration opens for a user; there is no way to open another, so an account
is named by its owner.  `bank` is what the bank kept in fees minus the interest
it paid, per user: the legs of the ledger that have no counterpart.  `goals`
and `holdings` are the tables, `bought` of a goal the sum of its `buy_salak`
rows and `withdrawals` its withdrawal rows.  `now` is the service's clock.

| Action | Code |
|---|---|
| `Accept`, `CreateGoal`, `Deposit`, `Withdraw`, `BuyFromGoal` | the methods of the same name of `KapookService` |
| `buyFromGoalCore`, `MintHolding` | the same, shared by customer and worker |
| `BuySalak` | `BuySalakService.BuySalak` |
| `SettleMaturedHolding` | `KapookService.SettleMaturedHolding` around `SettleMaturedHoldingInTx` |
| `AutoPurchase`, `DeferAutoPurchase`, `FailAutoPurchase` | outcomes of `processGoal` for one claimed goal |
| `UpsertProduct` | a seed run that retires a product or puts it on sale again |
| `Tick` | time |

A rejected request changes nothing and is no action.  The CHECK constraints of
the schema are *not* guards: `GoalChecks` and `TypeOK` say that the code never
runs into them.  The partial unique index on active goals is a guard of
`CreateGoal`, because the code relies on it.  Amounts are satang.

### TicketSequence

`sequence` is the committed cursor row of each product, `written` its newest
version, `rowLock` who holds its lock.  A purchase locks and reads the cursor
(`LockSequence`), advances it (`AdvanceSequence`), inserts the holding
(`MintHolding`) and goes on to `FinishPurchase` or `UndoPurchase`.  A member of
`Pass` is a pass of the worker: it may make several purchases, each undone
separately (ROLLBACK TO SAVEPOINT restores the row as the purchase found it and
gives back a lock the purchase took).  `Commit` and `Rollback` end the
transaction.  The two CHECK constraints a reservation can hit are guards, so a
purchase that hits one can only be undone.  The exclusion constraint against
overlapping ranges is no guard: `NoOverlap` shows the lock suffices.

### AutoPurchaseWorker

A replica reads the clock (`StartPass`), claims due goals (`ClaimDueGoals`:
oldest first, at most `claimBatchLimit`, skipping locked rows), and takes the
claimed goals one by one: `BeginPurchase` up to the draw-day guard, then
`BuyFromGoalInTx`, `deferGoal` or `fail`; `CommitPass` publishes everything at
once.  `AbortPass` stands for a process that dies or a statement that fails
outside the savepoints.  Midnight may pass, and customers' requests, a
settlement or a retired product may intervene, between any two of these steps.
Money is abstracted to `short`: goals whose available balance exceeds the cash
(which an early settlement brings about, see *Divergences*), for which every
attempt fails at the debit.

### KapookTx

A session runs one request.  `Statements(t)` lists the statements of its
operation in the order of the code, each a row and the lock PostgreSQL takes on
it under READ COMMITTED: `"update"` for SELECT ... FOR UPDATE, `"write"` for an
UPDATE of a row that was not selected before, `"share"` for the key share of the
row an INSERT refers to, `"read"` for a read that takes no lock, such as that
of the goal in SettleMaturedHolding.  `RunStatement` waits for a conflicting
lock, may find that the request must be refused, and remembers what it read;
`Commit...` publishes everything; `Fail` leaves nothing behind; `BreakDeadlock`
is PostgreSQL's detector.  Clock, draw days and retired products stand still.

`ImplementsKapook` is `Kapook!Spec` under the mapping that reads the committed
rows: a request between its first statement and its commit is a stutter, and
its commit one action of `Kapook` or a refusal.  A purchase whose amount is not
even one unit is refused when it is accounted (`salak_service.go:124`), as in
`Kapook`.

### KapookApi

A call is `Send`, then the handler: the service's transaction, then `Snapshot`
or further readings, then `Respond`, which may lose the answer; `Repeat` sends
it again.  Two devices share the customer's goal.  The worker, a retired
product and a release with another fee rate intervene between any two steps.
`told` is what a device last learnt, `quote` what it was quoted, `history` the
kapook's transactions; `Bought` adds up the purchases in the first rows of it.

### Satang

Money in tenths of a satang: a request carries any number, a column keeps a
multiple of ten (`Column` rounds half away from zero, as numeric(18,2) does).
`Deposit` and `Withdraw` compute as the service does and round each column on
its own; a ledger leg that would be stored as zero violates its CHECK and fails
the request (`Recordable`).

### Countdown

`api` and `worker` are the two processes with the settings they hold, `osEnv`
and `dotenv` what they read at their next start (`Lookup`: the environment
wins; `getEnvDuration`: what cannot be parsed is replaced by the default; a
worker without a positive tick does not start).  The ticker is kept as the time
of its next pass.  `shown` is the latest zero a screen has promised and the
length it was computed with.  A pass over a due goal buys: what can go wrong in
a pass is `AutoPurchaseWorker`.

### DrawCalendar

Days are numbered through `FirstYear` to `LastYear` with their real months: a
month starts at the total of the lengths of those before it.  `Seed` writes
the rows of the current year and the next: the 16th of every month for the
one-year term, the 1st for the two-year term except on 2 January (New Year) and
2 May (Labour Day).  It may stop after any of `RowsWritten`.  `StartAndWarn`, the
start of the API, looks sixty days ahead and warns.  `Morning`
and `Midnight` are the two moments a date changes: at the bank, and seven hours
later in UTC, where the program lives.

### ConnPool

`Steps` is, for each operation, the uses it makes of connections and rows: a
read outside a transaction (`StartRead`, `EndRead`), `BeginTx`, the rows it
locks in order (`LockRow`), `Commit`.  `lent` is the set of connections in use:
a transaction may hold one and ask for a second one.  A client may give up
(`ClientGivesUp`), which cancels statements and reads but neither the call that
begins a transaction nor a commit (`Cancellable`).

### Registration

Look-up, insert of the user, three accounts and commit are steps of their own.
An insert waits for a rival's uncommitted row of the same name (`MustWait`) and
fails on a committed one.  Numbers come from sequences, which a rollback does
not turn back.  `Fail` may answer an error before the commit, `Crash` loses all
open transactions, and a client without an answer tries again under the same
name or another.

### Seed

The steps of `main` in order, each committed on its own; `Die` stops the
program between two of them and `Start` runs it again, with or without the demo
data and an admin password.  Beside it customers register (also under the demo
user's name), the demo customer saves, the worker buys, and tickets are drawn.
The database may hold rows of an earlier release.

## Runs

| Run | Properties | What it asks |
|---|---|---|
| `kapook` | `TypeOK` `GoalChecks` `CashBehindGoal` `ReachedMeansFull` `Conservation` `ReachedStaysPurchasable` `SalakAccountCovers` `GoalSalakIsLive` `FreeAllowance` `GoalEndsTwoWays` | Do goals, holdings and balances agree after every order of requests, worker outcomes, settlements and days?  No account is overdrawn, no CHECK of a goal is hit, the kapook holds what its goal saved, a countdown runs exactly on a full goal, whose remainder the worker may buy; a closed goal leaves no money behind; two withdrawals per anniversary window are free |
| `transactions` | `UnlockedReadStaysTrue` `DeadlocksNeedSettlementOrTwoProducts` `ImplementsKapook` | Does every interleaving of the statements look like requests one at a time?  Is the goal a settlement reads without a lock still true when it is written?  Which requests can deadlock? |
| `api` | `ErrorMeansNothingHappened` `SnapshotSpansTwoMoments` `RepeatAfterEndIsRefused` `QuoteIsHonoured` | What may a device conclude from an answer, an error, a quote, or from repeating a request? |
| `satang` | `CashBehindGoal` `CountdownMeansFull` `RoundingIsBounded` | Do account and goal round alike?  What can rounding gain or lose? |
| `tickets` | `NoOverlap` `NoHole` `LettersInOrder` `OnlyExactFillFails` | Are numbers unique, gapless and in order, whatever purchases interleave, fail and fall back to savepoints, and which purchases does the schema refuse? |
| `worker` | `ClosedOnce` `DrawDayOnlyOverMidnight` | Two replicas, a customer, a settlement, a retired product and a dying pass: is a goal closed once and never early, and dated on a draw day only if midnight passed during the purchase? |
| `worker_live` | `DueIsBought` `NoSilentGoal` | Is every due goal bought in the end, or marked with a reason? |
| `countdown` | `AtZeroForLessThanATick` `EarlyOnlyWhenProcessesDiffer` | How long can a screen show zero, and when does a purchase come before it? |
| `draw_calendar` | `ClosedExactlyOnDrawDays` `WarnedBeforeItFailsOpen` | Does the seeded calendar close the draw days of real years and no others, and does the API warn before it ends? |
| `pool` | `OnlyTransactionsDrainThePool` `RequestsEnd` | What can hold the connection pool for good, and does every request end? |
| `registration` | `UsersAreComplete` `NumbersNeverCollide` `CreatedCanLogin` | Do registrations that race, fail, crash and are retried leave whole users with numbers of their own, whom their password lets in? |
| `seed` | `GoalsAreBacked` `RerunChangesNothing` `FinishedRunGivesDemoLogin` | Can `cmd/seed` be stopped anywhere and run again, beside traffic and over an older database? |

All runs pass.  Every property has a mutant in `PROJECT.json`: a definition of
the model changed as a plausible bug would change the code, under which TLC
finds the property violated.  The mutated forms are kept in the modules, as
`Definition_Fault` before `Definition`.

`TypeOK` of each module says what its variables hold.  The run `kapook` checks
it, because there it says that no account is overdrawn; for every module the
proofs establish it.

### Bounds, and why they are enough

* `kapook` (789,206 states): one user, since no action touches the rows of two;
  two goals, so that a goal follows a closed one; two holdings, so that a goal
  is bought in parts or a direct purchase stands beside it; amounts 50 to 200
  with unit and step 100, so that saved amounts are on and off the step; three
  days, one a draw day, so that a goal is deferred and bought after it; windows
  of two days and three withdrawals, so that windows are straddled and the third
  withdrawal of one is charged.  `MaxAttempts` is 1, as nothing depends on more.
* `transactions` (280,942): two sessions, as what one request does to another is
  pairwise; goals, holdings and amounts as in `kapook`, and three withdrawals,
  of which one is charged.  Circles of three sessions, and purchases of two
  products, are outside: the second case of the name
  `DeadlocksNeedSettlementOrTwoProducts` does not occur in the instance.
* `api`: two devices with two requests each and a request sent at most three
  times; a goal of two purchases; two fee rates.
* `satang`: amounts below, at and above half a satang and one that nearly fills
  the goal, and enough requests for roundings to add up.
* `tickets`: blocks of six numbers, purchases of one to four units and of a
  whole block, which the schema refuses, four
  letters of which one is a vowel, two products, two customers and one pass,
  four holdings: letters change, also over the vowel.  Customers, holdings and
  products are symmetric.
* `worker`: two replicas, two goals of different products, batch of two, three
  days, the draw day being the last, so that midnight can bring it in the middle
  of a purchase; one goal may fail at a time, one pass may die, one request.
* `worker_live`: one replica, three goals, batch of two, one failing goal, one
  pass that dies, the draw day on the first day a goal is due, so that it is
  deferred and must come back; no symmetry, as the properties are temporal.
  What is deferred past the last modelled day cannot be observed and counts as
  done.  The failing goals are fewer than the batch: with as many, the property
  fails (see *Divergences*).
* `countdown`: durations of zero, one and three against defaults of two, two
  edits and times 0 to 5: shorter, equal and longer lengths in either process,
  and a tick that falls before, on and after the deadline.
* `draw_calendar`: three years with a leap year and two runs of the seed, each
  complete or stopped in the rows of the first or the second product; the API is
  restarted at least every sixty days, as rarely as a warning sixty days ahead
  can bear.  Only the days that can differ are states: the 1st, 2nd and 16th of
  each month and New Year's Eve, with their mornings.
* `pool`: two requests and two connections: as many transactions as connections
  is what it takes to run dry.  All five operations, for one customer or two,
  who therefore wait for each other's rows or only for connections.
* `registration`: two clients, two names, two attempts each, so that names are
  shared, changed and retried.
* `seed`: three runs: one stopped, one that finishes, one that must change
  nothing.  A goal of twice the fallback amount is neither empty nor reached by
  one deposit.

Deadlock is checked in every run: an administrator can always retire or resell
a product, a customer can accept the terms again, a transaction can always be
rolled back, and a model at the end of its bounds may stay as it is.

### Fairness

`FairSpec` of `AutoPurchaseWorker` assumes weak fairness of the steps of each
replica (`Run` is driven by a ticker, statements return), of the end of each
customer request (a transaction ends in a commit or a rollback), and of
midnight.  It assumes nothing about customers, settlements or products, and
passes may die, though not for ever (`MaxAborts`).

`ImpatientSpec` of `ConnPool` assumes strong fairness of taking a connection or
a row: `database/sql` hands a returned connection to one of the waiting callers
before anybody else, and PostgreSQL serves the queue of a row lock in order, so
a request for which there is room again and again gets it.  It assumes weak
fairness of every other step of a request that can go on, of the deadlock
detector, and that a client gives up on a request that takes for ever.  The last
one is needed: the server has no time-outs (`src/cmd/api/main.go:127`), and with
as many patient clients as connections the pool can stand still, because
PostgreSQL does not see a wait for a connection.  `FewRequestsNeverDrainThePool`
is the other way out.

The other specifications state no fairness, as their properties need none.

## Proofs

A theorem holds for every value of the constants: any users, products, rules,
goals, amounts, sessions, devices, replicas, letters, years.  Of the 40
properties of the runs, 37 are proved.  The assumptions are the ASSUMEs of the
modules, evaluated by TLC in every run: positive rules, disjoint identifiers,
letters that are numbers, finitely many sessions and requests, column values in
whole satang, positive amounts of requests (the handlers refuse others), fees
between 0 and 100 percent, bounds that are natural numbers.  One theorem has a
hypothesis of its own, `NoDrawDayUnwarned` (below).

### Kapook

Three invariants, each with one lemma per action that disturbs it.

`IInv`: `TypeOK`, `GoalChecks`, `CashBehindGoal`, `ReachedMeansFull` and
`Conservation` are not inductive one by one.  The cash of an account determines
nothing about a goal unless the account has one active goal (`OneActiveGoal`),
and a countdown that starts when the target is met says nothing unless targets
are positive (`PositiveTargets`).  `GoalEndsTwoWays` follows from `IInv` and the
step.

`PurchaseInv` (over `IInv`): targets and purchases are multiples of the step
(`SoldInSteps`), an active goal still has something to buy (`ShortOfTarget`),
and the fees are right (`FreeAllowance`).  What is left to buy is then a positive
multiple of the step, hence at least one step, hence allowed:
`ReachedStaysPurchasable`.

`SumInv` (over `IInv`): `SalakAccountCovers` and `GoalSalakIsLive`, and that
holdings are finitely many and point to goals that exist, so that a new goal
starts with none.  Its lemmas are those of `SumProofs` about `Total`, the fold of
the community modules over a finite set.  The fold is a `CHOOSE` of a recursive function, so
the lemmas first show that such a function exists and what it returns
(`IterExists`, `IterStep`), then that one may take any element off first
(`TotalTakes`).  These are inductions over a set; they are done by a least
counterexample (`LeastSet`: among subsets of a finite set one has no smaller
counterexample inside), which needs no induction theorem with an operator
parameter.  A consequence that no run states is `SettlementIsFunded`: the debit
of a settlement is never refused for lack of money.

### KapookTx

`TxInv` says that locks exclude each other, and of each running session, for
each statement it has behind it, what that statement established and the lock
still protects: an account that was debited covers the debit, a locked goal is
still the row that was read, a settlement works on a live holding.

* `UnlockedReadStaysTrue`: the one read without a lock that is written back.
  From its fourth statement on a settlement holds the customer's salak account;
  whatever changes the salak amount of a goal of this customer holds that
  account when it commits.
* `DeadlocksNeedSettlementOrTwoProducts`: settlements aside, the statements of
  every operation climb in one order of rows (`Rank`, `RankClimbs`), so a
  session asks for a lower place in it than the session it waits for
  (`WaitingClimbs`), and in a circle the places would climb for ever.  The one
  exception is the salak account, which a purchase takes twice, first shared;
  two purchases that meet there hold different ticket cursors.
* `ImplementsKapook`: the initial states agree, every commit is the action of
  `Kapook` of its name (one lemma for each of the six), every other step a
  stutter.  The invariant supplies the guards of `Kapook`, which the session has
  checked some statements earlier.  So every step property and invariant proved
  of `Kapook` holds of the committed rows.

### TicketSequence

`IInv` (`TypeOK`, `NoOverlap`): only the holder of a lock moves a cursor or has
uncommitted rows (`LockInv`); every range lies before the newest cursor, every
committed one before the committed cursor (`RowInv`); a purchase in progress
starts at the cursor it read, and every other range lies before that, which is
what lets a savepoint put the cursor back (`PurchaseInv`).  `CursorAdvances` is
its step.

`ChainInv` (over `IInv`; `NoHole`, `LettersInOrder`): every range starts the
first letter or follows another range that cannot be undone without it
(`ChainRows`); the committed cursor stands behind a committed range, and the
newest one behind a range of its holder (`ChainCursors`); and the rows without
the purchase in progress are chained on their own, so that undoing it breaks
nothing (`ChainPurchases`).

`FillInv`: cursors stay inside their blocks and no purchase is larger than one.
With it, and because a letter that is not the last has a next one
(`NextLetterExists`), `OnlyExactFillFails` is a matter of cases.

### AutoPurchaseWorker

`PassInv` (`TypeOK`, `ClosedOnce`, `DrawDayOnlyOverMidnight`): only a pass has
versions of rows that are not committed; a row locked by a pass is open, and was
due when the pass read the clock (`RowOK`); what a pass has left to do is locked
by it, and the goal at hand was open for purchase on a day since the pass began
(`PassOK`).  Replicas therefore work on disjoint sets of goals, and the clock of
a pass can only be behind.

### KapookApi

`Inv` (`KapookApiProofs`) is about the rows (`GoalRows`: one active goal, a
countdown only on a full one, the units of a goal are the sum over its history)
and, for each device, about its call, its last answer and its quote.  All that
a device knows is stated of prefixes of the history, which only grows: a row
read at one moment has the units of some prefix, the units counted later those
of a longer one (`SeenRow`, `SeenBoth`), a fee is that of the rows it was quoted
from (`QuoteOk`).  So what was true when it was read stays stated while other
devices and the worker go on, and each action has to be looked at only for the
device it is of.  A call that has taken effect can fail only in `Snapshot`, and
that only without the product (`FailedAfterCommit`); a goal that a request has
ended is closed, or full and the request a deposit (`OutOfReach`), and no step
undoes that.  Hence `ErrorMeansNothingHappened`, `SnapshotSpansTwoMoments`,
`QuoteIsHonoured` and `RepeatAfterEndIsRefused`.

### Registration and Seed

`RegistrationProofs`: `TypeOK`, `NamesAreUnique`, `NumbersNeverCollide`,
`UsersAreComplete` and `CreatedCanLogin`.  A registration that has inserted its
user is the only one with that name (`Reserved`), which the wait behind an
uncommitted row provides; each number in use was drawn, under its prefix, before
the value the sequence has now (`Drawn`); and the accounts a registration has
opened so far are exactly those its next statement presupposes, under an id that
nobody else has (`RowsInv`), so a commit publishes all of them.

The second part of it is about `Seed`: `SeedTypeOK`, `GoalsAreBacked`,
`FinishedRunGivesDemoLogin` and `RerunChangesNothing`.  The invariant says which
rows are there at each step of the program (`Passed`), that rows hang together
(`RowsHang`), and that a run that opened the kapook account itself still finds
its starting balance free for the fallback goal (`FreshIsFunded`), the one place
where a goal is written that no deposit paid for.  After a run that finished,
no later one opens an account (`LaterRunsFindAccounts`), so none writes that
goal again.

### ConnPool, Satang, Countdown, DrawCalendar

`PlatformProofs` has a part for each.

*ConnPool*: `TypeOK`, `OnlyTransactionsDrainThePool`, and that fewer requests
than connections never drain the pool (`FewRequestsNeverDrainThePool`).  The
invariant (`LentToBusy`) says that what is lent belongs to a request that is
busy and at a step that holds it; counting then relates the connections lent to
the transactions open, one each.

*Satang*: `SatangTypeOK`, `CashBehindGoal`, `CountdownMeansFull` and
`RoundingIsBounded`.  One lemma bounds what a column does to an amount, and two
columns given equal amounts stay equal (`SameAmount`).

*Countdown*: `CountdownTypeOK`, `AtZeroForLessThanATick` and
`EarlyOnlyWhenProcessesDiffer`.  `LastPass` says that the goal was not due at the
latest pass of the worker, `ShownAfterReached` that a screen never promised a
later zero than the deposit plus the length it used.

*DrawCalendar*: `DrawTypeOK`, `ClosedExactlyOnDrawDays` and
`WarnedBeforeItFailsOpen`, for every range of years.  The first lemmas are about
dates: months and years follow on each other without overlap (`LaterStart`,
`NextStart`), every date has one year (`YearOfDate`, `YearIsOne`), and two draw
days of a product are never adjacent (`DrawDaysInOrder`).  A run of the seed
writes an initial part of the draw days of two years (`SeedWrites`), all of them
when it is not cut short, for which its two products must have equally many
(`SeededSizes`).  The invariant is then that the calendar has only draw days
(`OnlyDrawDays`), all of those of the year of the last complete run and of the
next (`CoveredBySeed`), and, whatever runs were cut short, no gap between today
and its last row (`NoGapAhead`): so its last row, the only one the warning looks
at, speaks for all before it.  `NoDrawDayUnwarned` has the hypothesis
`MaxUptime =< within`: an API that runs for longer than its warning reaches
ahead cannot warn in time, and the code does not restart it.

### Only model-checked

Liveness, which TLAPS does not treat: `DueIsBought`, `NoSilentGoal` and
`RequestsEnd`.

Proved but in no run: `CursorAdvances`, `NamesAreUnique`, `SettlementIsFunded`,
`FewRequestsNeverDrainThePool` and the type invariants of the modules other than
`Kapook`.

## Divergences met while modelling

Places where the code does something other than a comment or document says.
The models follow the code.

Money:

* Settling a holding subtracts it from `salak_amount` also while its goal is
  active (`kapook_service.go:805`), so `AvailableBalance` grows although the
  money went to the savings account.  `goal.go:50-52` calls it "the cash still
  sitting in the kapook".  From then on the full withdrawal and the
  auto-purchase fail for lack of funds.  `GoalSalakIsLive` and `CashBehindGoal`
  say what holds instead.
* Debit and Credit round their balances separately (`account_service.go:98`): a
  deposit of half a satang leaves the savings account as it was and credits the
  kapook.  `RoundingIsBounded` says how far this goes.
* The target is compared with the unrounded sum (`kapook_service.go:371`): a sum
  that the column rounds up to the target fills the goal without starting the
  countdown (`ports.go:244-246`: "The instant a deposit first brings
  SavingAmount up to GoalAmount").  `CountdownMeansFull` is the direction that
  holds.
* The history recomputes past fees at today's rate (`kapook_service.go:690`);
  `ports.go:216-220` says that is what it avoids.
* A full withdrawal during the countdown closes the goal
  (`kapook_service.go:521`); the comment at 474-476 says it "leaves the goal
  open".
* A product that was retired blocks the settlement of its holdings
  (`settle_holding_service.go:50`, where `GetProduct` refuses it); the comment
  at 30-33 names `SettledAt` as the only condition.

Time:

* Guard and minting each read the clock (`salak_service.go:136`, against 18-22):
  with midnight in between a holding is dated on a draw day.
  `DrawDayOnlyOverMidnight` says that this is the only way.
* The date is the one in UTC (`salak_service.go:83`): until seven in the morning
  of a draw day, at the bank, the product is on sale.
* API and worker read the countdown at their own start
  (`cmd/worker/main.go:51`, `cmd/api/main.go:87`); after an edit and a restart of
  one a purchase comes while the screen shows time left
  (`EarlyOnlyWhenProcessesDiffer`).
* The default countdown is thirty seconds (`config.go:117`); `config.go:58-59`
  says "the real 24h".

The rest:

* A purchase that exactly uses up a letter fails (`gorm_holding_repo.go:70`
  stores 10,000,000 as the next number, which migration 000025 forbids);
  `salak/ports.go:58-63` has only larger ones rejected.  `OnlyExactFillFails`
  says that no other purchase does.
* Permanently failing goals stay at the head of every batch
  (`gorm_goal_repository.go:106`): as many as `defaultClaimBatchLimit` (20)
  starve the rest, of whom nothing is recorded; `worker.go:205-207` promises a
  trace of the reason.  `NoSilentGoal` holds below that number.
* The loser of a race for a username is answered 500 (`auth_service.go:69`);
  `test/TEST_CASES.md:104` says conflict.
* Seeding with a new `ADMIN_PASSWORD` keeps the old one (`cmd/seed/main.go:130`);
  `config.go:51-52` says "create or rotate".
* A snapshot joins a goal row with purchases summed later
  (`kapook_service.go:262`), against "all computed fresh at read time"
  (`ports.go:183-187`).  `SnapshotSpansTwoMoments` says how far apart they are.
* `.env.example` gives the starting balance of registration as 0, `config.go` as
  1,000,000.

## Not modelled

* Tokens and middleware, decoding and layout of JSON: libraries and plumbing in
  front of the services; the modules start behind them.
* Badges and the weighted chooser: a floating-point sum and a look-up; ownership
  of a badge only rejects a request.
* Admin login and panel: look-ups; its one mutation is `SettleMaturedHolding`.
* `cmd/migrate` hands files to a library; the constraints they create are in the
  modules of the tables.
* The admin frontend, a browser client without business rules, and `docs.go`,
  which is generated.
* Anniversary windows of goals created on 29 February, an upsert that changes
  minimum, step or price under an open goal, and the statements of a pass that
  go on failing after the first one: named among the hazards, without a property.

## Plan

1. Done: all modules above, and the proofs above.
2. `WithdrawalWindow` (leap days, against a reference definition) and rules as
   a variable of `Kapook`, for an upsert under an open goal.
