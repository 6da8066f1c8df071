------------------------- MODULE AutoPurchaseWorker -------------------------
(***************************************************************************)
(* Passes of the auto-purchase worker, statement by statement.  Replicas   *)
(* of the worker have no leader: each claims due goals with SELECT ... FOR *)
(* UPDATE SKIP LOCKED, at most claimBatchLimit of them, oldest first, buys *)
(* them one by one inside the claiming transaction and commits once.       *)
(* Customers withdraw from or buy out the same goals under the same row    *)
(* locks, and the calendar moves on between any two statements.            *)
(*                                                                         *)
(* Amounts are abstracted to what decides an attempt.  A goal is short     *)
(* when its available balance is more than the cash in the kapook, which   *)
(* happens once a holding of it is settled (Kapook, SettleMaturedHolding): *)
(* every attempt then fails for lack of funds.  Clock readings and dates   *)
(* are the same thing here.                                                *)
(***************************************************************************)
EXTENDS Integers, FiniteSets

CONSTANTS
    Replica,           \* worker processes
    Customer,          \* customers' requests, as lock holders
    NoTx, NoGoal,
    GoalId, Product,
    productOf,         \* the product each goal saves for
    DrawDay,           \* pairs <<product, date>> on which purchase is closed
    Countdown,         \* KAPOOK_COUNTDOWN_DURATION, in days
    claimBatchLimit,
    SearchLimit,       \* nextAvailableDateSearchLimit
    MaxNow,            \* bound: last day
    MaxAttempts,       \* bound: recorded failures are counted up to here
    MaxRequests,       \* bound: requests of customers that take a goal's lock
    MaxAborts,         \* bound: passes that die or are rolled back
    MaxFailing         \* bound: goals whose purchase cannot succeed

Never == -1

ASSUME BatchAssumption == claimBatchLimit \in Nat \ {0}
ASSUME GoalAssumption == /\ productOf \in [GoalId -> Product]
                         /\ NoGoal \notin GoalId
                         /\ NoTx \notin Replica \cup Customer
                         /\ Replica \cap Customer = {}
ASSUME DayAssumption == /\ Countdown \in Nat /\ SearchLimit \in Nat
                        /\ MaxNow \in Nat /\ MaxAttempts \in Nat \ {0}

VARIABLES
    goals,          \* committed rows of kapook.kapook_goals
    written,        \* newest version of each row, committed or not
    rowLock,        \* holder of the lock on each row
    pass,           \* what each replica is doing
    short,          \* goals whose kapook no longer holds what they count on
    productActive,
    now,
    requests, aborts

environment == <<short, productActive, now>>
outside == <<environment, requests, aborts>>
vars == <<goals, written, rowLock, pass, outside>>

(* How a goal left the active ones; "open" stands for is_active.           *)
Fate == {"open", "bought", "auto", "withdrawn"}

Goal == [fate : Fate, reachedAt : Nat \cup {Never},
         deferredUntil : Nat \cup {Never}, attempts : 0..MaxAttempts,
         purchaseDate : Nat \cup {Never}]     \* of the closing purchase

Idle == [pc |-> "idle", now |-> 0, todo |-> {}, goal |-> NoGoal]

TypeOK ==
    /\ goals \in [GoalId -> Goal]
    /\ written \in [GoalId -> Goal]
    /\ rowLock \in [GoalId -> Replica \cup Customer \cup {NoTx}]
    /\ pass \in [Replica ->
          [pc : {"idle", "started", "working", "minting", "deferring", "failing"},
           now : Nat, todo : SUBSET GoalId, goal : GoalId \cup {NoGoal}]]
    /\ short \subseteq GoalId
    /\ productActive \in [Product -> BOOLEAN]
    /\ now \in 0..MaxNow /\ requests \in Nat /\ aborts \in Nat

IsDrawDay(p, d) == <<p, d>> \in DrawDay

Failing == {g \in GoalId : g \in short \/ ~ productActive[productOf[g]]}

(***************************************************************************)
(* Faults that the runs must notice.  Each replaces the definition below   *)
(* whose name it starts with.                                              *)
(***************************************************************************)
EnsureNotDrawDay_Yesterday(p) == ~ IsDrawDay(p, now - 1)   \* a local date

Due_Early(g, t) ==                                 \* forgets the countdown
    /\ goals[g].fate = "open"
    /\ goals[g].reachedAt # Never
    /\ goals[g].deferredUntil = Never \/ goals[g].deferredUntil <= t

Due_NeverDeferred(g, t) ==                         \* deferred goals stay out
    /\ goals[g].fate = "open"
    /\ goals[g].reachedAt # Never
    /\ goals[g].reachedAt <= t - Countdown
    /\ goals[g].deferredUntil = Never

Failed_Unrecorded(row) == row

(***************************************************************************)
(* Rows.                                                                   *)
(***************************************************************************)
(* The WHERE clause of ClaimDueGoals, for a pass that started at t.        *)
Due(g, t) ==
    /\ goals[g].fate = "open"
    /\ goals[g].reachedAt # Never
    /\ goals[g].reachedAt <= t - Countdown
    /\ goals[g].deferredUntil = Never \/ goals[g].deferredUntil <= t

(* FOR UPDATE locks what the claim returns.                                *)
claimedLocks(batch) == batch

(* UpdateAfterPurchase of a purchase that completes the goal.              *)
Bought(row, fate) == [row EXCEPT !.fate = fate, !.purchaseDate = now,
                                 !.deferredUntil = Never, !.attempts = 0]

(* RecordAutoPurchaseFailure.                                              *)
Failed(row) == [row EXCEPT !.attempts = IF row.attempts < MaxAttempts
                                        THEN row.attempts + 1 ELSE row.attempts]

LockedBy(t) == {g \in GoalId : rowLock[g] = t}

Discard(t) ==
    /\ written' = [g \in GoalId |-> IF g \in LockedBy(t) THEN goals[g] ELSE written[g]]
    /\ rowLock' = [g \in GoalId |-> IF g \in LockedBy(t) THEN NoTx ELSE rowLock[g]]
    /\ UNCHANGED goals

-----------------------------------------------------------------------------
Init ==
    /\ goals = [g \in GoalId |->
                  [fate |-> "open", reachedAt |-> Never, deferredUntil |-> Never,
                   attempts |-> 0, purchaseDate |-> Never]]
    /\ written = goals
    /\ rowLock = [g \in GoalId |-> NoTx]
    /\ pass = [w \in Replica |-> Idle]
    /\ short = {}
    /\ productActive = [p \in Product |-> TRUE]
    /\ now = 0
    /\ requests = 0 /\ aborts = 0

-----------------------------------------------------------------------------
(***************************************************************************)
(* A pass of the worker.                                                   *)
(***************************************************************************)
(* RunOnce reads the clock before its transaction begins.                  *)
StartPass(w) ==
    /\ pass[w].pc = "idle"
    /\ pass' = [pass EXCEPT ![w] = [Idle EXCEPT !.pc = "started", !.now = now]]
    /\ UNCHANGED <<goals, written, rowLock, outside>>

(* Of the due goals nobody has locked, the oldest, up to the limit.        *)
ClaimDueGoals(w) ==
    LET t == pass[w].now
        claimable == {g \in GoalId : Due(g, t) /\ rowLock[g] = NoTx}
    IN  /\ pass[w].pc = "started"
        /\ \E batch \in SUBSET claimable :
              /\ \/ Cardinality(batch) = claimBatchLimit
                 \/ Cardinality(batch) < claimBatchLimit /\ batch = claimable
              /\ \A g \in batch, h \in claimable \ batch :
                    goals[g].reachedAt <= goals[h].reachedAt
              /\ rowLock' = [g \in GoalId |-> IF g \in claimedLocks(batch)
                                             THEN w ELSE rowLock[g]]
              /\ pass' = [pass EXCEPT ![w].pc = "working", ![w].todo = batch]
        /\ UNCHANGED <<goals, written, outside>>

EnsureNotDrawDay(p) == ~ IsDrawDay(p, now)

(* processGoal, up to the draw-day guard: buyFromGoalCore finds the goal   *)
(* again, and the product must be sold.                                    *)
BeginPurchase(w, g) ==
    LET p == productOf[g]
        found == written[g].fate = "open" /\ productActive[p]
    IN  /\ pass[w].pc = "working"
        /\ g \in pass[w].todo
        /\ \A h \in pass[w].todo : goals[g].reachedAt <= goals[h].reachedAt
        /\ rowLock[g] \in {w, NoTx}
        /\ rowLock' = [rowLock EXCEPT ![g] = w]
        /\ \E outcome \in {"failing", "deferring", "minting"} :
              /\ outcome = "failing" <=> ~ found
              /\ outcome = "deferring" => ~ EnsureNotDrawDay(p)
              /\ outcome = "minting" => EnsureNotDrawDay(p)
              /\ pass' = [pass EXCEPT ![w].pc = outcome, ![w].goal = g]
        /\ UNCHANGED <<goals, written, outside>>

(* The rest of the purchase; the holding is dated by a second reading of   *)
(* the clock.  A short goal fails at the debit.                            *)
BuyFromGoalInTx(w) ==
    LET g == pass[w].goal
    IN  /\ pass[w].pc = "minting"
        /\ IF g \in short
           THEN /\ pass' = [pass EXCEPT ![w].pc = "failing"]
                /\ UNCHANGED written
           ELSE /\ pass' = [pass EXCEPT ![w].pc = "working",
                                        ![w].todo = @ \ {g}, ![w].goal = NoGoal]
                /\ written' = [written EXCEPT ![g] = Bought(@, "auto")]
        /\ UNCHANGED <<goals, rowLock, outside>>

NextAvailableDate(p, d) ==
    /\ d \in {now + i : i \in 1..SearchLimit}
    /\ ~ IsDrawDay(p, d)
    /\ \A e \in (now + 1)..(d - 1) : IsDrawDay(p, e)

deferGoal(w) ==
    LET g == pass[w].goal
        p == productOf[g]
        dates == {d \in {now + i : i \in 1..SearchLimit} : NextAvailableDate(p, d)}
    IN  /\ pass[w].pc = "deferring"
        /\ IF ~ productActive[p] \/ dates = {}
           THEN /\ pass' = [pass EXCEPT ![w].pc = "failing"]
                /\ UNCHANGED written
           ELSE /\ pass' = [pass EXCEPT ![w].pc = "working",
                                        ![w].todo = @ \ {g}, ![w].goal = NoGoal]
                /\ \E d \in dates :
                      written' = [written EXCEPT ![g].deferredUntil = d]
        /\ UNCHANGED <<goals, rowLock, outside>>

fail(w) ==
    LET g == pass[w].goal
    IN  /\ pass[w].pc = "failing"
        /\ written' = [written EXCEPT ![g] = Failed(@)]
        /\ pass' = [pass EXCEPT ![w].pc = "working",
                                ![w].todo = @ \ {g}, ![w].goal = NoGoal]
        /\ UNCHANGED <<goals, rowLock, outside>>

CommitPass(w) ==
    /\ pass[w].pc = "working"
    /\ pass[w].todo = {}
    /\ goals' = [g \in GoalId |-> IF g \in LockedBy(w) THEN written[g] ELSE goals[g]]
    /\ rowLock' = [g \in GoalId |-> IF g \in LockedBy(w) THEN NoTx ELSE rowLock[g]]
    /\ UNCHANGED written
    /\ pass' = [pass EXCEPT ![w] = Idle]
    /\ UNCHANGED outside

(* The process dies, the context is cancelled, or a statement outside the  *)
(* savepoints fails: the database forgets the pass.                        *)
AbortPass(w) ==
    /\ pass[w].pc # "idle"
    /\ aborts < MaxAborts
    /\ Discard(w)
    /\ pass' = [pass EXCEPT ![w] = Idle]
    /\ aborts' = aborts + 1
    /\ UNCHANGED <<environment, requests>>

-----------------------------------------------------------------------------
(***************************************************************************)
(* Customers: the deposit that fills a goal, a purchase or a withdrawal.   *)
(***************************************************************************)
Deposit(g) ==
    /\ rowLock[g] = NoTx
    /\ goals[g].reachedAt = Never
    /\ goals' = [goals EXCEPT ![g].reachedAt = now]
    /\ written' = [written EXCEPT ![g].reachedAt = now]
    /\ UNCHANGED <<rowLock, pass, environment, requests, aborts>>

(* FindActiveByAccountIDForUpdate of a customer's request.                 *)
LockGoal(c, g) ==
    /\ requests < MaxRequests
    /\ LockedBy(c) = {}
    /\ rowLock[g] = NoTx
    /\ goals[g].fate = "open"
    /\ goals[g].reachedAt # Never
    /\ rowLock' = [rowLock EXCEPT ![g] = c]
    /\ requests' = requests + 1
    /\ UNCHANGED <<goals, written, pass, environment, aborts>>

CommitRow(c, g, row) ==
    /\ goals' = [goals EXCEPT ![g] = row]
    /\ written' = [written EXCEPT ![g] = row]
    /\ rowLock' = [rowLock EXCEPT ![g] = NoTx]
    /\ UNCHANGED <<pass, outside>>

(* During the countdown a withdrawal takes everything and closes the goal. *)
Withdraw(c, g) ==
    /\ g \in LockedBy(c) \ short
    /\ CommitRow(c, g, [goals[g] EXCEPT !.fate = "withdrawn"])

(* The customer buys the remainder, or part of it, which clears what the   *)
(* worker has noted on the goal.                                           *)
BuyFromGoal(c, g) ==
    /\ g \in LockedBy(c)
    /\ productActive[productOf[g]]
    /\ ~ IsDrawDay(productOf[g], now)
    /\ \/ g \notin short /\ CommitRow(c, g, Bought(goals[g], "bought"))
       \/ CommitRow(c, g, [goals[g] EXCEPT !.deferredUntil = Never, !.attempts = 0])

RollbackRequest(c) ==
    /\ LockedBy(c) # {}
    /\ Discard(c)
    /\ UNCHANGED <<pass, outside>>

(* A holding of the goal is settled while the goal is active: its amount   *)
(* counts as available again, but the cash has gone to the savings.        *)
SettleMaturedHolding(g) ==
    /\ rowLock[g] = NoTx
    /\ goals[g].fate = "open"
    /\ Cardinality(Failing \cup {g}) <= MaxFailing
    /\ short' = short \cup {g}
    /\ UNCHANGED <<goals, written, rowLock, pass, productActive, now, requests, aborts>>

UpsertProduct(p) ==
    /\ productActive' = [productActive EXCEPT ![p] = ~ @]
    /\ UNCHANGED <<goals, written, rowLock, pass, short, now, requests, aborts>>
    /\ Cardinality(Failing') <= MaxFailing

Midnight ==
    /\ now < MaxNow
    /\ now' = now + 1
    /\ UNCHANGED <<goals, written, rowLock, pass, short, productActive, requests, aborts>>

-----------------------------------------------------------------------------
Request(c) ==
    \/ \E g \in GoalId : Withdraw(c, g) \/ BuyFromGoal(c, g)
    \/ RollbackRequest(c)

Pass(w) ==
    \/ StartPass(w)
    \/ ClaimDueGoals(w)
    \/ \E g \in GoalId : BeginPurchase(w, g)
    \/ BuyFromGoalInTx(w)
    \/ deferGoal(w)
    \/ fail(w)
    \/ CommitPass(w)

Next ==
    \/ \E w \in Replica : Pass(w) \/ AbortPass(w)
    \/ \E g \in GoalId : Deposit(g) \/ SettleMaturedHolding(g)
    \/ \E c \in Customer : Request(c) \/ \E g \in GoalId : LockGoal(c, g)
    \/ \E p \in Product : UpsertProduct(p)
    \/ Midnight

Spec == Init /\ [][Next]_vars

(* The ticker of every replica keeps firing, statements return, requests   *)
(* end and days pass.  Nothing makes a pass survive, a customer act or a   *)
(* product be sold.                                                        *)
Fairness ==
    /\ \A w \in Replica : WF_vars(Pass(w))
    /\ \A c \in Customer : WF_vars(Request(c))
    /\ WF_vars(Midnight)

FairSpec == Spec /\ Fairness

-----------------------------------------------------------------------------
(* Worker and customers race for the same goal; whoever closes it, it is   *)
(* closed once, and the worker never buys a goal before its countdown or   *)
(* its deferral has run out.                                               *)
CloseStep(g) ==
    /\ goals[g].fate # "open" => goals'[g].fate = goals[g].fate
    /\ goals[g].fate = "open" /\ goals'[g].fate = "auto" =>
          /\ goals[g].reachedAt + Countdown <= now
          /\ goals[g].deferredUntil <= now

ClosedOnce == [][\A g \in GoalId : CloseStep(g)]_vars

PastDeadline(g) ==
    /\ goals[g].fate = "open"
    /\ goals[g].reachedAt # Never
    /\ goals[g].reachedAt + Countdown <= now

(* Past the last modelled day there is nothing left to observe.            *)
DeferredBeyondBound(g) == goals[g].deferredUntil > MaxNow

(* A goal that can be bought from some point on is bought, or closed by    *)
(* its owner, once its countdown and its deferrals have run out, however   *)
(* many goals ahead of it keep failing (fewer than a batch).               *)
DueIsBought ==
    \A g \in GoalId :
        (<>[](g \notin Failing)) =>
            (PastDeadline(g) ~> \/ goals[g].fate # "open"
                               \/ DeferredBeyondBound(g))

(* worker.go, fail: never leave a goal past its deadline with nothing      *)
(* having happened and no trace of the reason.                             *)
NoSilentGoal ==
    \A g \in GoalId :
        PastDeadline(g) ~> \/ goals[g].fate # "open"
                           \/ goals[g].attempts > 0
                           \/ goals[g].deferredUntil # Never

(* salak_service.go, truncateToDate: the guard and the holding's purchase  *)
(* date "must agree on what today means".  They read the clock twice, so a *)
(* purchase is dated on a draw day only by a pass over midnight.           *)
DrawDayOnlyOverMidnight ==
    [][\A g \in GoalId :
          /\ written[g].fate = "open" /\ written'[g].fate = "auto"
          /\ IsDrawDay(productOf[g], written'[g].purchaseDate)
          => pass[rowLock[g]].now < written'[g].purchaseDate]_vars
=============================================================================
