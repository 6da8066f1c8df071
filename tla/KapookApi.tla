------------------------------ MODULE KapookApi ------------------------------
(***************************************************************************)
(* The HTTP endpoints of the kapook, as the devices of one customer see    *)
(* them.  A handler lets the service run its transaction, which commits,   *)
(* and only then assembles the answer: the goal row it got back, enriched  *)
(* by Snapshot, or a reading of more rows.  Other devices, the worker, the *)
(* catalogue and a new release move on in between.  An answer may get      *)
(* lost; a device that has none, or an error, may send its request again.  *)
(*                                                                         *)
(* The customer has one kapook account; money is in satang.  What a        *)
(* transaction does is Kapook's subject, how transactions interleave is    *)
(* KapookTx's; here a transaction is one step.                             *)
(***************************************************************************)
EXTENDS Integers, Sequences, FiniteSets, Sums

CONSTANTS
    Device, Amount,
    GoalAmount, MinPurchase,   \* of the one product
    StartingBalance,
    FeeRate,                   \* withdrawalFeeRate of the releases, in percent
    MaxRequests, MaxTries      \* bounds: requests, and how often each is sent

ASSUME ApiAssumption ==
    /\ Amount \subseteq Nat \ {0}
    /\ GoalAmount \in Nat /\ MinPurchase \in Nat /\ MinPurchase < GoalAmount
    /\ StartingBalance \in Nat /\ StartingBalance >= MinPurchase
    /\ FeeRate \subseteq 0..100
    /\ MaxRequests \in Nat
    /\ MaxTries \in Nat \ {0}

VARIABLES
    accepted,    \* the terms
    savings,     \* balance of the savings account
    goals,       \* rows of kapook.kapook_goals, oldest first
    history,     \* rows of kapook.kapook_transactions, oldest first
    onSale,      \* is the product active?
    rate,        \* withdrawalFeeRate of the release that runs
    call,        \* the request each device has sent
    told,        \* the last answer each device got
    quote,       \* the last quote each device got
    sent         \* requests so far

money  == <<accepted, savings, goals, history>>
world  == <<onSale, rate>>
client == <<told, quote, sent>>

vars == <<money, world, call, client>>

Reading == {"GetTermsStatus", "GetActiveGoal", "GetWithdrawalStatus", "GetGoalHistory"}

Moving == {"Deposit", "Withdraw", "BuyFromGoal"}

Operation == Reading \cup Moving \cup {"AcceptTerms", "CreateGoal"}

(* id 0 is no goal.                                                        *)
Row == [id : Nat, saving : Nat, salak : Nat, isActive : BOOLEAN, reached : BOOLEAN]

NoRow == [id |-> 0, saving |-> 0, salak |-> 0, isActive |-> FALSE, reached |-> FALSE]

Entry == [goal : Nat, amount : Nat, fee : Nat,
          type : {"deposit", "withdraw", "withdraw_with_fee", "buy_salak"}]

Call == [at : {"idle", "service", "snapshot", "count", "respond"},
         op : Operation, amount : Nat, tries : 0..MaxTries, status : Nat,
         row : Row, units : Nat, fees : Seq(Nat),
         applied : BOOLEAN,          \* did this try change the database?
         ended : SUBSET Nat]         \* goals this request has filled or closed

Quote == [id : Nat, amount : Nat, fee : Nat, rate : Nat,
          rows : Nat]                \* length of the history it was made from

TypeOK ==
    /\ accepted \in BOOLEAN
    /\ savings \in Nat
    /\ goals \in Seq(Row)
    /\ history \in Seq(Entry)
    /\ onSale \in BOOLEAN
    /\ rate \in FeeRate
    /\ call \in [Device -> Call]
    /\ told \in [Device -> Call]
    /\ quote \in [Device -> Quote]
    /\ sent \in 0..MaxRequests

ActiveIds == {g \in DOMAIN goals : goals[g].isActive}

Active == IF ActiveIds = {} THEN NoRow ELSE goals[Max(ActiveIds)]

Available(row) == row.saving - row.salak

Entries(rows, id, types) ==
    {i \in 1..rows : history[i].goal = id /\ history[i].type \in types}

EntryAmount == [i \in DOMAIN history |-> history[i].amount]

(* The sum over the purchases of a goal in the first rows of the history.  *)
Bought(rows, id) == Total(EntryAmount, Entries(rows, id, {"buy_salak"}))

Withdrawals == {"withdraw", "withdraw_with_fee"}

freeWithdrawalsPerWindow == 2

computeWithdrawalFee(a, charged) == IF charged THEN (a * rate + 50) \div 100 ELSE 0

-----------------------------------------------------------------------------
(***************************************************************************)
(* Faults.  Each replaces the definition below whose name it starts with.  *)
(***************************************************************************)
QuotedFee_CountsNext(id, a) ==               \* counts the withdrawal asked about
    computeWithdrawalFee(a, Cardinality(Entries(Len(history), id, Withdrawals)) + 1
                                >= freeWithdrawalsPerWindow)

AfterWithdrawal_StaysOpen(row, a, fee) ==    \* "IsActive is never touched here"
    [row EXCEPT !.saving = row.saving - a]

PurchasedUnits_OfActive(row) ==              \* looks the active goal up again
    Bought(Len(history), Active.id)

SnapshotFails_ClosedGoal(row) ==             \* reads the goal again as the active one
    ~ onSale \/ row.id \notin ActiveIds

-----------------------------------------------------------------------------
(***************************************************************************)
(* The service.  A refusal is the status apperror gives it; 0 is none.     *)
(***************************************************************************)
NextWithdrawalIsFree(id) ==
    Cardinality(Entries(Len(history), id, Withdrawals)) < freeWithdrawalsPerWindow

QuotedFee(id, a) == computeWithdrawalFee(a, ~ NextWithdrawalIsFree(id))

GoalRefusal(a) ==
    IF ~ accepted THEN 403
    ELSE IF Active # NoRow THEN 409
    ELSE IF ~ onSale \/ a < MinPurchase THEN 400 ELSE 0

DepositRefusal(a) ==
    IF Active = NoRow THEN 404
    ELSE IF Active.saving + a > GoalAmount \/ a > savings THEN 400 ELSE 0

WithdrawalRefusal(a) ==
    IF Active = NoRow THEN 404
    ELSE IF a > Available(Active) \/ (Active.reached /\ a < Available(Active)) THEN 400
    ELSE 0

PurchaseRefusal(a) ==
    IF Active = NoRow THEN 404
    ELSE IF ~ onSale \/ Available(Active) < MinPurchase \/ a > Available(Active) THEN 400
    ELSE 0

AfterDeposit(row, a) ==
    [row EXCEPT !.saving = row.saving + a,
                !.reached = row.reached \/ row.saving + a = GoalAmount]

AfterWithdrawal(row, a, fee) ==
    [row EXCEPT !.saving = row.saving - a, !.isActive = ~ row.reached]

AfterPurchase(row, a) ==
    [row EXCEPT !.salak = row.salak + a, !.isActive = row.salak + a < GoalAmount]

Record(type, a, fee) ==
    history' = Append(history, [goal |-> Active.id, type |-> type, amount |-> a, fee |-> fee])

-----------------------------------------------------------------------------
(***************************************************************************)
(* The handlers.                                                           *)
(***************************************************************************)
Received(d, op) == call[d].at = "service" /\ call[d].op = op

Refuse(d, status) ==
    /\ call' = [call EXCEPT ![d].at = "respond", ![d].status = status]
    /\ UNCHANGED <<money, world, client>>

(* The transaction has committed and handed back the row it wrote.         *)
Committed(d, row) ==
    /\ call' = [call EXCEPT ![d].at = "snapshot", ![d].row = row, ![d].applied = TRUE,
                            ![d].ended = IF row.reached # Active.reached \/ ~ row.isActive
                                         THEN call[d].ended \cup {row.id}
                                         ELSE call[d].ended]
    /\ UNCHANGED <<world, client>>

AcceptTerms(d) ==
    /\ Received(d, "AcceptTerms")
    /\ accepted' = TRUE
    /\ call' = [call EXCEPT ![d].at = "respond", ![d].status = 200]
    /\ UNCHANGED <<savings, goals, history, world, client>>

GetTermsStatus(d) == Received(d, "GetTermsStatus") /\ Refuse(d, 200)

CreateGoal(d) ==
    LET row == [NoRow EXCEPT !.id = Len(goals) + 1, !.isActive = TRUE]
    IN  /\ Received(d, "CreateGoal")
        /\ IF GoalRefusal(GoalAmount) # 0
           THEN Refuse(d, GoalRefusal(GoalAmount))
           ELSE /\ goals' = Append(goals, row)
                /\ Committed(d, row)
                /\ UNCHANGED <<accepted, savings, history>>

Deposit(d) ==
    LET a == call[d].amount
    IN  /\ Received(d, "Deposit")
        /\ IF DepositRefusal(a) # 0
           THEN Refuse(d, DepositRefusal(a))
           ELSE /\ savings' = savings - a
                /\ goals' = [goals EXCEPT ![Active.id] = AfterDeposit(Active, a)]
                /\ Record("deposit", a, 0)
                /\ Committed(d, AfterDeposit(Active, a))
                /\ UNCHANGED accepted

Withdraw(d) ==
    LET a == call[d].amount
        charged == ~ NextWithdrawalIsFree(Active.id)
        fee == computeWithdrawalFee(a, charged)
    IN  /\ Received(d, "Withdraw")
        /\ IF WithdrawalRefusal(a) # 0
           THEN Refuse(d, WithdrawalRefusal(a))
           ELSE /\ savings' = savings + a - fee
                /\ goals' = [goals EXCEPT ![Active.id] = AfterWithdrawal(Active, a, fee)]
                /\ Record(IF charged THEN "withdraw_with_fee" ELSE "withdraw", a, fee)
                /\ Committed(d, AfterWithdrawal(Active, a, fee))
                /\ UNCHANGED accepted

BuyFromGoal(d) ==
    LET a == call[d].amount
    IN  /\ Received(d, "BuyFromGoal")
        /\ IF PurchaseRefusal(a) # 0
           THEN Refuse(d, PurchaseRefusal(a))
           ELSE /\ goals' = [goals EXCEPT ![Active.id] = AfterPurchase(Active, a)]
                /\ Record("buy_salak", a, 0)
                /\ Committed(d, AfterPurchase(Active, a))
                /\ UNCHANGED <<accepted, savings>>

(* Without an active goal: 200 and null.                                   *)
GetActiveGoal(d) ==
    /\ Received(d, "GetActiveGoal")
    /\ call' = [call EXCEPT ![d].at = IF Active = NoRow THEN "respond" ELSE "snapshot",
                            ![d].row = Active, ![d].status = 200]
    /\ UNCHANGED <<money, world, client>>

SnapshotFails(row) == ~ onSale

PurchasedUnits(row) == Bought(Len(history), row.id)

(* Snapshot: the product, then the sum over the purchases of the goal.     *)
Snapshot(d) ==
    /\ call[d].at = "snapshot"
    /\ call' = [call EXCEPT
                  ![d].at = "respond",
                  ![d].status = IF SnapshotFails(call[d].row) THEN 400 ELSE 200,
                  ![d].units = PurchasedUnits(call[d].row)]
    /\ UNCHANGED <<money, world, client>>

GetWithdrawalStatus(d) ==
    /\ Received(d, "GetWithdrawalStatus")
    /\ IF Active = NoRow
       THEN Refuse(d, 404)
       ELSE /\ call' = [call EXCEPT ![d].at = "count", ![d].row = Active]
            /\ UNCHANGED <<money, world, client>>

(* The second read of the preview: the count, and the fee that follows.    *)
QuoteFee(d) ==
    /\ call[d].at = "count"
    /\ call' = [call EXCEPT ![d].at = "respond", ![d].status = 200]
    /\ quote' = [quote EXCEPT ![d] = [id |-> call[d].row.id, amount |-> call[d].amount,
                                      fee |-> QuotedFee(call[d].row.id, call[d].amount),
                                      rate |-> rate, rows |-> Len(history)]]
    /\ UNCHANGED <<money, world, told, sent>>

(* Of the newest goal, all its rows; each fee computed from type, amount.  *)
GetGoalHistory(d) ==
    /\ Received(d, "GetGoalHistory")
    /\ call' = [call EXCEPT
                  ![d].at = "respond",
                  ![d].status = IF goals = <<>> THEN 404 ELSE 200,
                  ![d].fees = [i \in 1..Len(history) |->
                                 computeWithdrawalFee(history[i].amount,
                                     history[i].type = "withdraw_with_fee")]]
    /\ UNCHANGED <<money, world, client>>

Handle(d) ==
    \/ AcceptTerms(d)
    \/ GetTermsStatus(d)
    \/ CreateGoal(d)
    \/ Deposit(d)
    \/ Withdraw(d)
    \/ BuyFromGoal(d)
    \/ GetActiveGoal(d)
    \/ Snapshot(d)
    \/ GetWithdrawalStatus(d)
    \/ QuoteFee(d)
    \/ GetGoalHistory(d)

-----------------------------------------------------------------------------
(***************************************************************************)
(* The devices, and what goes on beside them.                              *)
(***************************************************************************)
Idle == [at |-> "idle", op |-> "AcceptTerms", amount |-> 0, tries |-> 0, status |-> 0,
         row |-> NoRow, units |-> 0, fees |-> <<>>, applied |-> FALSE, ended |-> {}]

Amounts(op) == IF op \in Moving \cup {"GetWithdrawalStatus"} THEN Amount ELSE {0}

Send(d, op, a) ==
    /\ call[d].at = "idle"
    /\ sent < MaxRequests
    /\ sent' = sent + 1
    /\ call' = [call EXCEPT ![d] = [Idle EXCEPT !.at = "service", !.op = op,
                                                !.amount = a, !.tries = 1]]
    /\ UNCHANGED <<money, world, told, quote>>

Answer(d) == [call[d] EXCEPT !.tries = 0, !.amount = 0, !.ended = {}]

Respond(d) ==
    /\ call[d].at = "respond"
    /\ told' = [told EXCEPT ![d] = Answer(d)]
    /\ call' = [call EXCEPT ![d] = Idle]
    /\ UNCHANGED <<money, world, quote, sent>>

(* The answer is lost, or an error: once more.                             *)
Repeat(d) ==
    /\ call[d].at = "respond"
    /\ call[d].tries < MaxTries
    /\ call' = [call EXCEPT ![d] = [Idle EXCEPT !.at = "service", !.op = call[d].op,
                                                !.amount = call[d].amount,
                                                !.tries = call[d].tries + 1,
                                                !.ended = call[d].ended]]
    /\ told' = IF call[d].status >= 400 THEN [told EXCEPT ![d] = Answer(d)] ELSE told
    /\ UNCHANGED <<money, world, quote, sent>>

(* The worker, after a countdown longer than a deposit takes to answer.    *)
AutoPurchase ==
    /\ Active.reached /\ onSale
    /\ \A d \in Device : call[d].op = "Deposit" => ~ call[d].applied
    /\ goals' = [goals EXCEPT ![Active.id] = AfterPurchase(Active, Available(Active))]
    /\ Record("buy_salak", Available(Active), 0)
    /\ UNCHANGED <<accepted, savings, world, call, client>>

RetireProduct ==
    /\ onSale
    /\ onSale' = FALSE
    /\ UNCHANGED <<money, rate, call, client>>

Release(r) ==
    /\ rate # r
    /\ rate' = r
    /\ UNCHANGED <<money, onSale, call, client>>

(* A new customer, or one whose goal has seen deposits and withdrawals.    *)
Past(used) ==
    LET a == MinPurchase
        pay == [goal |-> 1, type |-> "deposit", amount |-> a, fee |-> 0]
        take == [goal |-> 1, type |-> "withdraw", amount |-> a, fee |-> 0]
    IN  [i \in 1..(2 * used + 1) |-> IF i % 2 = 1 THEN pay ELSE take]

Init ==
    /\ \/ /\ accepted = FALSE
          /\ savings = StartingBalance
          /\ goals = <<>>
          /\ history = <<>>
       \/ \E used \in {1, freeWithdrawalsPerWindow} :
          /\ accepted = TRUE
          /\ savings = StartingBalance - MinPurchase
          /\ goals = <<[NoRow EXCEPT !.id = 1, !.saving = MinPurchase, !.isActive = TRUE]>>
          /\ history = Past(used)
    /\ onSale = TRUE
    /\ rate \in FeeRate
    /\ call = [d \in Device |-> Idle]
    /\ told = [d \in Device |-> Idle]
    /\ quote = [d \in Device |-> [id |-> 0, amount |-> 0, fee |-> 0, rate |-> 0, rows |-> 0]]
    /\ sent = 0

Next ==
    \/ \E d \in Device, op \in Operation : \E a \in Amounts(op) : Send(d, op, a)
    \/ \E d \in Device : Handle(d)
    \/ \E d \in Device : Respond(d)
    \/ \E d \in Device : Repeat(d)
    \/ AutoPurchase
    \/ RetireProduct
    \/ \E r \in FeeRate : Release(r)
    \/ sent = MaxRequests /\ (\A d \in Device : call[d] = Idle) /\ UNCHANGED vars

Spec == Init /\ [][Next]_vars

-----------------------------------------------------------------------------
(***************************************************************************)
(* Properties.                                                             *)
(***************************************************************************)

(* A request that filled or closed its goal takes no effect on that goal   *)
(* when a device that missed the answer sends it again, whatever the other *)
(* devices and the worker did in between.  (Any other deposit, withdrawal  *)
(* or purchase is simply carried out twice.)                               *)
RepeatAfterEndIsRefused ==
    [][\A d \in Device :
          call[d].op \in Moving /\ ~ call[d].applied /\ call'[d].applied =>
              call'[d].row.id \notin call[d].ended]_vars

(* An error means that nothing happened, as long as the product is on      *)
(* sale: only Snapshot fails behind a commit, and only for that reason.    *)
ErrorMeansNothingHappened ==
    \A d \in Device : told[d].status >= 400 /\ told[d].applied => ~ onSale

(* computeWithdrawalFee is shared "so a quote can never disagree with what *)
(* gets charged": a device is charged what it was quoted, unless another   *)
(* withdrawal or a release came in between.                                *)
QuoteIsHonoured ==
    [][\A d \in Device :
          /\ Withdraw(d)
          /\ call'[d].applied
          /\ quote[d].id = Active.id /\ quote[d].amount = call[d].amount
          /\ quote[d].rate = rate
          /\ Entries(quote[d].rows, Active.id, Withdrawals)
                = Entries(Len(history), Active.id, Withdrawals)
          => history'[Len(history')].fee = quote[d].fee]_vars

(* ports.go: the fields of a GoalSnapshot are "all computed fresh at read  *)
(* time", the row before the purchases: what a device is told was true of  *)
(* the goal at two moments, the purchases never as of the earlier one,     *)
(* and at one moment unless somebody bought in between.                    *)
SnapshotSpansTwoMoments ==
    \A d \in Device :
        /\ told[d].op \in Moving \cup {"CreateGoal", "GetActiveGoal"}
        /\ told[d].status = 200
        /\ told[d].row # NoRow
        =>
            \E early, late \in 0..Len(history) :
                /\ early =< late
                /\ told[d].row.salak = Bought(early, told[d].row.id)
                /\ told[d].units = Bought(late, told[d].row.id)
=============================================================================
