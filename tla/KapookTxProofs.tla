--------------------------- MODULE KapookTxProofs ---------------------------
(***************************************************************************)
(* Proofs about KapookTx, for every set of sessions, users, products and   *)
(* rows.                                                                   *)
(***************************************************************************)
EXTENDS KapookTx, FiniteSetTheorems, SequenceTheorems, TLAPS

(***************************************************************************)
(* The statements of each operation, spelled out.                          *)
(***************************************************************************)
GoalOps == {"Deposit", "Withdraw", "BuyFromGoal"}

MintOps == {"BuyFromGoal", "BuySalak"}

KnownOps == {"CreateGoal", "SettleMaturedHolding"} \cup GoalOps \cup MintOps

(* How the list of a purchase from a goal is put together.                 *)
LEMMA PurchaseList ==
    ASSUME NEW a, NEW b, NEW c, NEW d, NEW e
    PROVE  <<a>> \o <<b, c, d, e>> = <<a, b, c, d, e>>
<1> DEFINE S == {a, b, c, d, e}
           x == <<a>>
           y == <<b, c, d, e>>
           z == <<a, b, c, d, e>>
<1>1. x \in Seq(S) /\ y \in Seq(S) /\ z \in Seq(S) OBVIOUS
<1>2. Len(x) = 1 /\ Len(y) = 4 /\ Len(z) = 5 OBVIOUS
<1>3. /\ z[1] = a /\ z[2] = b /\ z[3] = c /\ z[4] = d /\ z[5] = e
      /\ x[1] = a /\ y[1] = b /\ y[2] = c /\ y[3] = d /\ y[4] = e
  OBVIOUS
<1> HIDE DEF x, y, z, S
<1>4. /\ x \o y \in Seq(S) /\ Len(x \o y) = Len(x) + Len(y)
      /\ \A i \in 1..(Len(x) + Len(y)) :
            (x \o y)[i] = IF i <= Len(x) THEN x[i] ELSE y[i - Len(x)]
  BY <1>1, ConcatProperties
<1>5. ASSUME NEW i \in 1..5 PROVE (x \o y)[i] = z[i]
  <2>1. (x \o y)[i] = IF i <= 1 THEN x[i] ELSE y[i - 1] BY <1>2, <1>4
  <2>2. i = 1 \/ i = 2 \/ i = 3 \/ i = 4 \/ i = 5 OBVIOUS
  <2> QED BY <2>1, <2>2, <1>3
<1>6. x \o y = z BY <1>1, <1>2, <1>4, <1>5, SeqEqual, SMTT(30)
<1> QED BY <1>6 DEF x, y, z

(* And that of a settlement with a goal.                                   *)
LEMMA SettlementList ==
    ASSUME NEW a, NEW b, NEW c, NEW d, NEW e, NEW f
    PROVE  <<a, b, c>> \o <<d, e, f>> = <<a, b, c, d, e, f>>
<1> DEFINE S == {a, b, c, d, e, f}
           x == <<a, b, c>>
           y == <<d, e, f>>
           z == <<a, b, c, d, e, f>>
<1>1. x \in Seq(S) /\ y \in Seq(S) /\ z \in Seq(S) OBVIOUS
<1>2. Len(x) = 3 /\ Len(y) = 3 /\ Len(z) = 6 OBVIOUS
<1>3. /\ z[1] = a /\ z[2] = b /\ z[3] = c /\ z[4] = d /\ z[5] = e /\ z[6] = f
      /\ x[1] = a /\ x[2] = b /\ x[3] = c /\ y[1] = d /\ y[2] = e /\ y[3] = f
  OBVIOUS
<1> HIDE DEF x, y, z, S
<1>4. /\ x \o y \in Seq(S) /\ Len(x \o y) = Len(x) + Len(y)
      /\ \A i \in 1..(Len(x) + Len(y)) :
            (x \o y)[i] = IF i <= Len(x) THEN x[i] ELSE y[i - Len(x)]
  BY <1>1, ConcatProperties
<1>5. ASSUME NEW i \in 1..6 PROVE (x \o y)[i] = z[i]
  <2>1. (x \o y)[i] = IF i <= 3 THEN x[i] ELSE y[i - 3] BY <1>2, <1>4
  <2>2. i = 1 \/ i = 2 \/ i = 3 \/ i = 4 \/ i = 5 \/ i = 6 OBVIOUS
  <2> QED BY <2>1, <2>2, <1>3
<1>6. x \o y = z BY <1>1, <1>2, <1>4, <1>5, SeqEqual
<1> QED BY <1>6 DEF x, y, z

(* Which statement stands where.                                           *)
LEMMA StatementList ==
    ASSUME NEW t
    PROVE  /\ t.op = "CreateGoal" => Statements(t) = <<Share(<<"kapook", t.user>>)>>
           /\ t.op \in {"Deposit", "Withdraw"} =>
                Statements(t) = <<Update(<<"goal", t.goal>>), Update(<<"kapook", t.user>>),
                                  Update(<<"savings", t.user>>)>>
           /\ t.op = "BuyFromGoal" =>
                Statements(t) = <<Update(<<"goal", t.goal>>), Update(<<"kapook", t.user>>),
                                  Update(<<"tickets", t.product>>), Share(<<"salak", t.user>>),
                                  Update(<<"salak", t.user>>)>>
           /\ t.op = "BuySalak" =>
                Statements(t) = <<Update(<<"savings", t.user>>), Update(<<"tickets", t.product>>),
                                  Share(<<"salak", t.user>>), Update(<<"salak", t.user>>)>>
           /\ t.op = "SettleMaturedHolding" /\ t.goal = NoGoal =>
                Statements(t) = <<Update(<<"holding", t.holding>>), Update(<<"salak", t.user>>),
                                  Update(<<"savings", t.user>>)>>
           /\ t.op = "SettleMaturedHolding" /\ t.goal # NoGoal =>
                Statements(t) = <<Update(<<"holding", t.holding>>), Update(<<"salak", t.user>>),
                                  Update(<<"savings", t.user>>), Read(<<"goal", t.goal>>),
                                  Write(<<"goal", t.goal>>), Share(<<"kapook", t.user>>)>>
           /\ t.op \notin KnownOps => Statements(t) = <<>>
<1>1. CASE t.op = "CreateGoal" BY <1>1 DEF Statements, KnownOps, GoalOps, MintOps
<1>2. CASE t.op \in {"Deposit", "Withdraw"}
  BY <1>2 DEF Statements, DepositStatements, WithdrawStatements, KnownOps, GoalOps, MintOps
<1>3. CASE t.op = "BuyFromGoal"
  BY <1>3, PurchaseList DEF Statements, BuyFromGoalStatements, Purchase, KnownOps, GoalOps, MintOps
<1>4. CASE t.op = "BuySalak"
  BY <1>4 DEF Statements, Purchase, KnownOps, GoalOps, MintOps
<1>5. CASE t.op = "SettleMaturedHolding"
  <2>1. Statements(t) = SettleStatements(t) BY <1>5 DEF Statements
  <2>2. t.goal = NoGoal =>
          SettleStatements(t) =
            <<Update(<<"holding", t.holding>>), Update(<<"salak", t.user>>),
              Update(<<"savings", t.user>>)>> \o <<>>
    BY DEF SettleStatements
  <2>3. t.goal # NoGoal =>
          SettleStatements(t) =
            <<Update(<<"holding", t.holding>>), Update(<<"salak", t.user>>),
              Update(<<"savings", t.user>>)>>
            \o <<Read(<<"goal", t.goal>>), Write(<<"goal", t.goal>>),
                 Share(<<"kapook", t.user>>)>>
    BY DEF SettleStatements
  <2>4. ASSUME NEW a, NEW b, NEW c PROVE <<a, b, c>> \o <<>> = <<a, b, c>>
    OBVIOUS
  <2> QED BY <1>5, <2>1, <2>2, <2>3, <2>4, SettlementList DEF KnownOps, GoalOps, MintOps
<1>6. CASE t.op \notin KnownOps
  BY <1>6 DEF Statements, KnownOps, GoalOps, MintOps
<1> QED BY <1>1, <1>2, <1>3, <1>4, <1>5, <1>6 DEF KnownOps, GoalOps, MintOps

(* The same list, one position at a time.                                  *)
LEMMA StatementTable ==
    ASSUME NEW t
    PROVE  LET L == Statements(t)
           IN  /\ Len(L) \in Nat
               /\ t.op = "CreateGoal" =>
                    Len(L) = 1 /\ L[1] = Share(<<"kapook", t.user>>)
               /\ t.op \in {"Deposit", "Withdraw"} =>
                    /\ Len(L) = 3
                    /\ L[1] = Update(<<"goal", t.goal>>)
                    /\ L[2] = Update(<<"kapook", t.user>>)
                    /\ L[3] = Update(<<"savings", t.user>>)
               /\ t.op = "BuyFromGoal" =>
                    /\ Len(L) = 5
                    /\ L[1] = Update(<<"goal", t.goal>>)
                    /\ L[2] = Update(<<"kapook", t.user>>)
                    /\ L[3] = Update(<<"tickets", t.product>>)
                    /\ L[4] = Share(<<"salak", t.user>>)
                    /\ L[5] = Update(<<"salak", t.user>>)
               /\ t.op = "BuySalak" =>
                    /\ Len(L) = 4
                    /\ L[1] = Update(<<"savings", t.user>>)
                    /\ L[2] = Update(<<"tickets", t.product>>)
                    /\ L[3] = Share(<<"salak", t.user>>)
                    /\ L[4] = Update(<<"salak", t.user>>)
               /\ t.op = "SettleMaturedHolding" =>
                    /\ Len(L) = IF t.goal = NoGoal THEN 3 ELSE 6
                    /\ L[1] = Update(<<"holding", t.holding>>)
                    /\ L[2] = Update(<<"salak", t.user>>)
                    /\ L[3] = Update(<<"savings", t.user>>)
                    /\ t.goal # NoGoal =>
                         /\ L[4] = Read(<<"goal", t.goal>>)
                         /\ L[5] = Write(<<"goal", t.goal>>)
                         /\ L[6] = Share(<<"kapook", t.user>>)
               /\ t.op \notin KnownOps => Len(L) = 0
<1>1. CASE t.op = "CreateGoal"
  <2>1. Statements(t) = <<Share(<<"kapook", t.user>>)>> BY <1>1, StatementList
  <2> QED BY <1>1, <2>1 DEF KnownOps
<1>2. CASE t.op \in {"Deposit", "Withdraw"}
  <2>1. Statements(t) =
          <<Update(<<"goal", t.goal>>), Update(<<"kapook", t.user>>),
            Update(<<"savings", t.user>>)>>
    BY <1>2, StatementList
  <2> QED BY <1>2, <2>1 DEF KnownOps, GoalOps
<1>3. CASE t.op = "BuyFromGoal"
  <2>1. Statements(t) =
          <<Update(<<"goal", t.goal>>), Update(<<"kapook", t.user>>),
            Update(<<"tickets", t.product>>), Share(<<"salak", t.user>>),
            Update(<<"salak", t.user>>)>>
    BY <1>3, StatementList
  <2> QED BY <1>3, <2>1 DEF KnownOps, GoalOps
<1>4. CASE t.op = "BuySalak"
  <2>1. Statements(t) =
          <<Update(<<"savings", t.user>>), Update(<<"tickets", t.product>>),
            Share(<<"salak", t.user>>), Update(<<"salak", t.user>>)>>
    BY <1>4, StatementList
  <2> QED BY <1>4, <2>1 DEF KnownOps, MintOps
<1>5. CASE t.op = "SettleMaturedHolding" /\ t.goal = NoGoal
  <2>1. Statements(t) =
          <<Update(<<"holding", t.holding>>), Update(<<"salak", t.user>>),
            Update(<<"savings", t.user>>)>>
    BY <1>5, StatementList
  <2> QED BY <1>5, <2>1 DEF KnownOps
<1>6. CASE t.op = "SettleMaturedHolding" /\ t.goal # NoGoal
  <2>1. Statements(t) =
          <<Update(<<"holding", t.holding>>), Update(<<"salak", t.user>>),
            Update(<<"savings", t.user>>), Read(<<"goal", t.goal>>),
            Write(<<"goal", t.goal>>), Share(<<"kapook", t.user>>)>>
    BY <1>6, StatementList
  <2> QED BY <1>6, <2>1 DEF KnownOps
<1>7. CASE t.op \notin KnownOps
  <2>1. Statements(t) = <<>> BY <1>7, StatementList
  <2> QED BY <1>7, <2>1 DEF KnownOps, GoalOps, MintOps
<1> QED BY <1>1, <1>2, <1>3, <1>4, <1>5, <1>6, <1>7 DEF KnownOps, GoalOps, MintOps

-----------------------------------------------------------------------------
(***************************************************************************)
(* The inductive invariant.  Row locks exclude each other; what a session  *)
(* found out about a row it has locked is still true of the row; and what  *)
(* it found out about the goal it has not locked is true because of        *)
(* another row it has locked.                                              *)
(***************************************************************************)
(* t has run the statement st, and holds its lock.                         *)
Taken(t, st) == \E i \in 1..t.done : Statements(t)[i] = st

Holds(s, st) == Taken(tx[s], st)

LocksExclusive ==
    \A s, o \in Session :
        s # o => \A i \in 1..tx[s].done, j \in 1..tx[o].done :
                    ~ Conflict(Statements(tx[s])[i], Statements(tx[o])[j])

(* A request to create a goal passed its checks before it began.           *)
CreateInv(t) ==
    t.op = "CreateGoal" =>
        /\ t.goal \in GoalId /\ t.goal \notin DOMAIN goals
        /\ t.user \in accepted
        /\ t.amount \in Amount
        /\ K!ValidatePurchase(t.product, t.amount)

(* A goal that is locked is as it was seen, and the request fits it.       *)
GoalOpInv(t) ==
    t.op \in GoalOps =>
        /\ t.amount \in Amount /\ t.amount > 0
        /\ t.goal \in DOMAIN goals
        /\ goals[t.goal].owner = t.user
        /\ goals[t.goal].product = t.product
        /\ t.done >= 1 => /\ t.seen = goals[t.goal]
                          /\ GoalAccepts(t, goals[t.goal])

(* An account that was debited still covers the debit.                     *)
DebitInv(t) ==
    Taken(t, Update(Debited(t))) =>
        /\ Covers(Debited(t), t.amount)
        /\ t.op \in MintOps => K!Units(t.product, t.amount) > 0

MintInv(t) ==
    t.op \in MintOps =>
        /\ t.holding \in HoldingId /\ t.holding \notin DOMAIN holdings
        /\ t.op = "BuySalak" =>
              /\ t.goal = NoGoal
              /\ t.amount \in Amount /\ K!ValidatePurchase(t.product, t.amount)

(* A settlement works on a live holding, and on the salak amount its goal  *)
(* still has.                                                              *)
SettleInv(t) ==
    t.op = "SettleMaturedHolding" =>
        /\ t.holding \in DOMAIN holdings
        /\ holdings[t.holding].owner = t.user
        /\ holdings[t.holding].product = t.product
        /\ holdings[t.holding].amount = t.amount
        /\ holdings[t.holding].goal = t.goal
        /\ t.done >= 1 => ~ holdings[t.holding].settled
        /\ t.goal # NoGoal /\ t.done >= 4 =>
              /\ t.seen \in Goal
              /\ t.seen.salakAmount = goals[t.goal].salakAmount

SessionInv(s) ==
    tx[s] # Idle =>
        /\ tx[s].op \in KnownOps
        /\ tx[s].done <= Len(Statements(tx[s]))
        /\ CreateInv(tx[s])
        /\ GoalOpInv(tx[s])
        /\ DebitInv(tx[s])
        /\ MintInv(tx[s])
        /\ SettleInv(tx[s])

(* A holding bought from a goal belongs to the owner of the goal.          *)
HoldingRows ==
    \A h \in DOMAIN holdings :
        holdings[h].goal # NoGoal =>
            /\ holdings[h].goal \in DOMAIN goals
            /\ goals[holdings[h].goal].owner = holdings[h].owner

(* No two requests in flight were given the same new identifier.           *)
FreshIds ==
    \A s, o \in Session :
        s # o =>
            /\ tx[s].op = "CreateGoal" /\ tx[o].op = "CreateGoal" =>
                  tx[s].goal # tx[o].goal
            /\ tx[s].op \in MintOps /\ tx[o].op \in MintOps =>
                  tx[s].holding # tx[o].holding

Withdrawing(g) == {s \in Session : tx[s].op = "Withdraw" /\ tx[s].goal = g}

WithdrawalsBounded ==
    \A g \in DOMAIN goals :
        Len(goals[g].fees) + Cardinality(Withdrawing(g)) <= MaxWithdrawals

TxInv ==
    /\ TypeOK
    /\ LocksExclusive
    /\ \A s \in Session : SessionInv(s)
    /\ HoldingRows
    /\ FreshIds
    /\ WithdrawalsBounded

-----------------------------------------------------------------------------
(***************************************************************************)
(* Reading a transaction.                                                  *)
(***************************************************************************)
(* The fields of a session at work, and of one that is not.                *)
LEMMA SessionFields ==
    ASSUME TypeOK, NEW s \in Session
    PROVE  /\ tx[s] # Idle =>
                /\ tx[s] \in Transaction /\ tx[s].op # "idle"
                /\ tx[s].user \in User /\ tx[s].product \in Product
                /\ tx[s].goal \in GoalId \cup {NoGoal}
                /\ tx[s].holding \in HoldingId \cup {NoGoal}
                /\ tx[s].amount \in Nat
           /\ tx[s] = Idle => tx[s].op = "idle"
           /\ tx[s].done \in Nat
           /\ tx[s] = Idle => tx[s].done = 0
<1>1. tx[s] \in Transaction \cup {Idle} BY DEF TypeOK
<1>2. CASE tx[s] = Idle BY <1>2 DEF Idle
<1>3. CASE tx[s] # Idle
  <2>1. tx[s] \in Transaction BY <1>1, <1>3
  <2> QED BY <1>3, <2>1, NameAssumption DEF Transaction
<1> QED BY <1>2, <1>3

(* The fields of a goal row.                                               *)
LEMMA GoalFields ==
    ASSUME NEW row \in Goal
    PROVE  /\ row.owner \in User /\ row.product \in Product
           /\ row.goalAmount \in Nat /\ row.savingAmount \in Nat
           /\ row.salakAmount \in Nat /\ row.bought \in Nat
           /\ row.isActive \in BOOLEAN /\ row.reached \in BOOLEAN
           /\ row.fees \in Seq(BOOLEAN)
BY DEF Goal

(* A session whose operation is known is at work.                          *)
LEMMA KnownIsBusy ==
    ASSUME TypeOK, NEW s \in Session, tx[s].op \in KnownOps
    PROVE  tx[s] # Idle
BY DEF Idle, KnownOps, GoalOps, MintOps

(* The locks a session at work holds after so many statements.             *)
LEMMA TakenList ==
    ASSUME NEW t, t.done \in Nat
    PROVE  /\ t.op \in GoalOps =>
                /\ t.done >= 1 => Taken(t, Update(<<"goal", t.goal>>))
                /\ t.done >= 2 => Taken(t, Update(<<"kapook", t.user>>))
           /\ t.op \in {"Deposit", "Withdraw"} /\ t.done >= 3 =>
                Taken(t, Update(<<"savings", t.user>>))
           /\ t.op = "BuyFromGoal" /\ t.done >= 5 =>
                Taken(t, Update(<<"salak", t.user>>))
           /\ t.op = "BuySalak" =>
                /\ t.done >= 1 => Taken(t, Update(<<"savings", t.user>>))
                /\ t.done >= 4 => Taken(t, Update(<<"salak", t.user>>))
           /\ t.op = "SettleMaturedHolding" =>
                /\ t.done >= 1 => Taken(t, Update(<<"holding", t.holding>>))
                /\ t.done >= 2 => Taken(t, Update(<<"salak", t.user>>))
                /\ t.done >= 3 => Taken(t, Update(<<"savings", t.user>>))
                /\ t.goal # NoGoal /\ t.done >= 5 => Taken(t, Write(<<"goal", t.goal>>))
<1> DEFINE L == Statements(t)
<1>0. ASSUME NEW n \in Nat, n >= 1, t.done >= n PROVE Taken(t, L[n])
  BY <1>0 DEF Taken
<1>1. CASE t.op \in {"Deposit", "Withdraw"}
  <2>1. /\ L[1] = Update(<<"goal", t.goal>>)
        /\ L[2] = Update(<<"kapook", t.user>>)
        /\ L[3] = Update(<<"savings", t.user>>)
    BY <1>1, StatementTable
  <2> QED BY <1>0, <1>1, <2>1 DEF GoalOps
<1>2. CASE t.op = "BuyFromGoal"
  <2>1. /\ L[1] = Update(<<"goal", t.goal>>)
        /\ L[2] = Update(<<"kapook", t.user>>)
        /\ L[5] = Update(<<"salak", t.user>>)
    BY <1>2, StatementTable
  <2> QED BY <1>0, <1>2, <2>1 DEF GoalOps
<1>3. CASE t.op = "BuySalak"
  <2>1. /\ L[1] = Update(<<"savings", t.user>>)
        /\ L[4] = Update(<<"salak", t.user>>)
    BY <1>3, StatementTable
  <2> QED BY <1>0, <1>3, <2>1 DEF GoalOps
<1>4. CASE t.op = "SettleMaturedHolding"
  <2>1. /\ L[1] = Update(<<"holding", t.holding>>)
        /\ L[2] = Update(<<"salak", t.user>>)
        /\ L[3] = Update(<<"savings", t.user>>)
        /\ t.goal # NoGoal => L[5] = Write(<<"goal", t.goal>>)
    BY <1>4, StatementTable
  <2> QED BY <1>0, <1>4, <2>1 DEF GoalOps
<1> QED BY <1>1, <1>2, <1>3, <1>4 DEF GoalOps

(* Two sessions never hold conflicting locks.                              *)
LEMMA Excludes ==
    ASSUME LocksExclusive, NEW s \in Session, NEW o \in Session \ {s},
           NEW st1, NEW st2, Holds(s, st1), Holds(o, st2)
    PROVE  ~ Conflict(st1, st2)
BY DEF LocksExclusive, Holds, Taken

(* In particular one of them updates a row, not both.                      *)
LEMMA UpdateExcludes ==
    ASSUME LocksExclusive, NEW s \in Session, NEW o \in Session \ {s}, NEW row,
           Holds(s, Update(row)),
           Holds(o, Update(row)) \/ Holds(o, Write(row))
    PROVE  FALSE
<1>1. Conflict(Update(row), Update(row)) BY DEF Conflict, Update
<1>2. Conflict(Update(row), Write(row)) BY DEF Conflict, Update, Write
<1> QED BY <1>1, <1>2, Excludes

-----------------------------------------------------------------------------
(***************************************************************************)
(* What a step of one session may do to the committed rows, and why the    *)
(* other sessions do not notice.                                           *)
(***************************************************************************)
(* s changes only rows it has locked, and adds only rows it was given the  *)
(* identifier of.                                                          *)
BalancesMoved(s) ==
    \A acc \in Account : balance'[acc] = balance[acc] \/ Holds(s, Update(acc))

GoalsWritten(s) ==
    /\ DOMAIN goals \subseteq DOMAIN goals'
    /\ \A g \in DOMAIN goals' \ DOMAIN goals :
          /\ tx[s].op = "CreateGoal" /\ tx[s].goal = g
          /\ goals'[g].fees = <<>>
    /\ \A g \in DOMAIN goals :
          /\ goals'[g].owner = goals[g].owner
          /\ goals'[g].product = goals[g].product
          /\ \/ goals'[g] = goals[g]
             \/ Holds(s, Update(<<"goal", g>>))
             \/ Holds(s, Write(<<"goal", g>>))
          /\ \/ goals'[g].salakAmount = goals[g].salakAmount
             \/ Holds(s, Update(<<"salak", goals[g].owner>>))
          /\ \/ goals'[g].fees = goals[g].fees
             \/ /\ tx[s].op = "Withdraw" /\ tx[s].goal = g
                /\ Len(goals'[g].fees) = Len(goals[g].fees) + 1

HoldingsWritten(s) ==
    /\ DOMAIN holdings \subseteq DOMAIN holdings'
    /\ \A h \in DOMAIN holdings' \ DOMAIN holdings :
          /\ tx[s].op \in MintOps /\ tx[s].holding = h
          /\ holdings'[h].goal # NoGoal =>
                /\ holdings'[h].goal \in DOMAIN goals
                /\ goals[holdings'[h].goal].owner = holdings'[h].owner
    /\ \A h \in DOMAIN holdings :
          /\ holdings'[h].owner = holdings[h].owner
          /\ holdings'[h].product = holdings[h].product
          /\ holdings'[h].amount = holdings[h].amount
          /\ holdings'[h].goal = holdings[h].goal
          /\ \/ holdings'[h].settled = holdings[h].settled
             \/ Holds(s, Update(<<"holding", h>>))

Effect(s) ==
    /\ \A o \in Session \ {s} : tx'[o] = tx[o]
    /\ accepted' = accepted
    /\ BalancesMoved(s)
    /\ GoalsWritten(s)
    /\ HoldingsWritten(s)

(* A debit is never from a row that is not an account.                     *)
LEMMA DebitedAccount ==
    ASSUME NEW t, t.op \in KnownOps, t.user \in User, t.done \in Nat,
           t.done <= Len(Statements(t)), Taken(t, Update(Debited(t)))
    PROVE  Debited(t) \in Account
<1>1. CASE t.op = "CreateGoal"
  <2>1. Len(Statements(t)) = 1 /\ Statements(t)[1] = Share(<<"kapook", t.user>>)
    BY <1>1, StatementTable
  <2>2. Update(Debited(t)) = Share(<<"kapook", t.user>>) BY <2>1 DEF Taken
  <2> QED BY <2>2 DEF Update, Share
<1>2. CASE t.op \in {"Deposit", "BuySalak"} BY <1>2 DEF Debited, Account
<1>3. CASE t.op \in {"Withdraw", "BuyFromGoal"} BY <1>3 DEF Debited, Account
<1>4. CASE t.op = "SettleMaturedHolding" BY <1>4 DEF Debited, Account
<1> QED BY <1>1, <1>2, <1>3, <1>4 DEF KnownOps, GoalOps, MintOps

(* Locks of a session on the rows of another cannot coexist, so what the   *)
(* invariant says of a session survives the steps of the others.           *)
LEMMA OthersKept ==
    ASSUME TxInv, NEW s \in Session, NEW o \in Session \ {s}, Effect(s)
    PROVE  SessionInv(o)'
<1> DEFINE t == tx[o]
<1>0. tx'[o] = t BY DEF Effect
<1>1. CASE t = Idle BY <1>0, <1>1 DEF SessionInv
<1>2. CASE t # Idle
  <2>0. /\ TypeOK /\ LocksExclusive /\ FreshIds /\ HoldingRows
        /\ t.op \in KnownOps
        /\ t.done <= Len(Statements(t))
        /\ CreateInv(t) /\ GoalOpInv(t) /\ DebitInv(t) /\ MintInv(t) /\ SettleInv(t)
    BY <1>2 DEF TxInv, SessionInv
  <2>f. /\ t \in Transaction /\ t.done \in Nat /\ t.user \in User /\ t.amount \in Nat
        /\ t.goal \in GoalId \cup {NoGoal}
    BY <2>0, <1>2, SessionFields
  <2>1. (t.done <= Len(Statements(t)))' BY <1>0, <2>0
  <2>2. CreateInv(t)'
    <3>1. tx[s].op = "CreateGoal" /\ t.op = "CreateGoal" => tx[s].goal # t.goal
      BY <2>0 DEF FreshIds
    <3> QED BY <1>0, <2>0, <3>1 DEF CreateInv, Effect, GoalsWritten
  <2>3. GoalOpInv(t)'
    <3> SUFFICES ASSUME t.op \in GoalOps PROVE GoalOpInv(t)'
      BY <1>0 DEF GoalOpInv
    <3>1. /\ t.amount \in Amount /\ t.amount > 0 /\ t.goal \in DOMAIN goals
          /\ goals[t.goal].owner = t.user
          /\ goals[t.goal].product = t.product
          /\ t.done >= 1 => /\ t.seen = goals[t.goal]
                            /\ GoalAccepts(t, goals[t.goal])
      BY <2>0 DEF GoalOpInv
    <3>2. t.goal \in DOMAIN goals' /\ goals'[t.goal].owner = t.user
          /\ goals'[t.goal].product = t.product
      BY <3>1 DEF Effect, GoalsWritten
    <3>3. t.done >= 1 => goals'[t.goal] = goals[t.goal]
      <4> SUFFICES ASSUME t.done >= 1 PROVE goals'[t.goal] = goals[t.goal]
        OBVIOUS
      <4>1. Holds(o, Update(<<"goal", t.goal>>)) BY <2>f, TakenList DEF Holds
      <4>2. ~ Holds(s, Update(<<"goal", t.goal>>)) /\ ~ Holds(s, Write(<<"goal", t.goal>>))
        BY <2>0, <4>1, UpdateExcludes
      <4> QED BY <3>1, <4>2 DEF Effect, GoalsWritten
    <3> QED BY <1>0, <3>1, <3>2, <3>3 DEF GoalOpInv, GoalAccepts, Available
  <2>4. DebitInv(t)'
    <3> SUFFICES ASSUME Taken(t, Update(Debited(t))) PROVE DebitInv(t)'
      BY <1>0 DEF DebitInv, Taken
    <3>1. Debited(t) \in Account
      BY <2>0, <2>f, DebitedAccount
    <3>2. Holds(o, Update(Debited(t))) BY DEF Holds
    <3>3. ~ Holds(s, Update(Debited(t))) BY <2>0, <3>2, UpdateExcludes
    <3>4. balance'[Debited(t)] = balance[Debited(t)]
      BY <3>1, <3>3 DEF Effect, BalancesMoved
    <3> QED BY <1>0, <2>0, <3>4 DEF DebitInv, Covers
  <2>5. MintInv(t)'
    <3>1. tx[s].op \in MintOps /\ t.op \in MintOps => tx[s].holding # t.holding
      BY <2>0 DEF FreshIds
    <3> QED BY <1>0, <2>0, <3>1 DEF MintInv, Effect, HoldingsWritten
  <2>6. SettleInv(t)'
    <3> SUFFICES ASSUME t.op = "SettleMaturedHolding" PROVE SettleInv(t)'
      BY <1>0 DEF SettleInv
    <3>1. /\ t.holding \in DOMAIN holdings
          /\ holdings[t.holding].owner = t.user
          /\ holdings[t.holding].product = t.product
          /\ holdings[t.holding].amount = t.amount
          /\ holdings[t.holding].goal = t.goal
          /\ t.done >= 1 => ~ holdings[t.holding].settled
          /\ t.goal # NoGoal /\ t.done >= 4 =>
                t.seen \in Goal /\ t.seen.salakAmount = goals[t.goal].salakAmount
      BY <2>0 DEF SettleInv
    <3>2. /\ t.holding \in DOMAIN holdings'
          /\ holdings'[t.holding].owner = t.user
          /\ holdings'[t.holding].product = t.product
          /\ holdings'[t.holding].amount = t.amount
          /\ holdings'[t.holding].goal = t.goal
      BY <3>1 DEF Effect, HoldingsWritten
    <3>3. t.done >= 1 => ~ holdings'[t.holding].settled
      <4> SUFFICES ASSUME t.done >= 1 PROVE ~ holdings'[t.holding].settled
        OBVIOUS
      <4>1. Holds(o, Update(<<"holding", t.holding>>)) BY <2>f, TakenList DEF Holds
      <4>2. ~ Holds(s, Update(<<"holding", t.holding>>)) BY <2>0, <4>1, UpdateExcludes
      <4> QED BY <3>1, <4>2 DEF Effect, HoldingsWritten
    <3>4. t.goal # NoGoal /\ t.done >= 4 =>
            goals'[t.goal].salakAmount = goals[t.goal].salakAmount
      <4> SUFFICES ASSUME t.goal # NoGoal, t.done >= 4
                   PROVE  goals'[t.goal].salakAmount = goals[t.goal].salakAmount
        OBVIOUS
      <4>0. t.done >= 2 BY <2>f
      <4>1. Holds(o, Update(<<"salak", t.user>>)) BY <4>0, <2>f, TakenList DEF Holds
      <4>2. ~ Holds(s, Update(<<"salak", t.user>>)) BY <2>0, <4>1, UpdateExcludes
      <4>3. t.goal \in DOMAIN goals /\ goals[t.goal].owner = t.user
        BY <2>0, <3>1 DEF HoldingRows
      <4> QED BY <4>2, <4>3 DEF Effect, GoalsWritten
    <3> QED BY <1>0, <3>1, <3>2, <3>3, <3>4 DEF SettleInv
  <2> QED BY <1>0, <2>0, <2>1, <2>2, <2>3, <2>4, <2>5, <2>6 DEF SessionInv
<1> QED BY <1>1, <1>2

(* A session that ends lets go of its locks.                               *)
LEMMA LocksReleased ==
    ASSUME TypeOK, LocksExclusive, NEW s \in Session, End(s)
    PROVE  LocksExclusive'
<1>1. /\ tx'[s] = Idle
      /\ \A o \in Session \ {s} : tx'[o] = tx[o]
  BY DEF TypeOK, End
<1>2. 1..tx'[s].done = {} BY <1>1 DEF Idle
<1>3. ASSUME NEW o \in Session, NEW q \in Session, o # q,
             NEW i \in 1..tx'[o].done, NEW j \in 1..tx'[q].done
      PROVE  ~ Conflict(Statements(tx'[o])[i], Statements(tx'[q])[j])
  <2>1. o # s /\ q # s BY <1>2
  <2>2. tx'[o] = tx[o] /\ tx'[q] = tx[q] BY <1>1, <2>1
  <2> QED BY <1>3, <2>2 DEF LocksExclusive
<1> QED BY <1>3 DEF LocksExclusive

(* Holdings still name goals of their owners.                              *)
LEMMA HoldingRowsKept ==
    ASSUME HoldingRows, NEW s \in Session, GoalsWritten(s), HoldingsWritten(s)
    PROVE  HoldingRows'
<1> SUFFICES ASSUME NEW h \in DOMAIN holdings', holdings'[h].goal # NoGoal
             PROVE  /\ holdings'[h].goal \in DOMAIN goals'
                    /\ goals'[holdings'[h].goal].owner = holdings'[h].owner
  BY DEF HoldingRows
<1>1. /\ holdings'[h].goal \in DOMAIN goals
      /\ goals[holdings'[h].goal].owner = holdings'[h].owner
  <2>1. CASE h \in DOMAIN holdings BY <2>1 DEF HoldingRows, HoldingsWritten
  <2>2. CASE h \notin DOMAIN holdings BY <2>2 DEF HoldingsWritten
  <2> QED BY <2>1, <2>2
<1> QED BY <1>1 DEF GoalsWritten

(* A withdrawal that commits leaves the set it was counted in.             *)
LEMMA WithdrawalsKept ==
    ASSUME TxInv, NEW s \in Session, GoalsWritten(s), End(s), TypeOK'
    PROVE  WithdrawalsBounded'
<1>0. /\ TypeOK /\ WithdrawalsBounded /\ \A o \in Session : SessionInv(o) BY DEF TxInv
<1>1. /\ tx'[s].op = "idle"
      /\ \A o \in Session \ {s} : tx'[o] = tx[o]
  BY <1>0 DEF TypeOK, End, Idle
<1>2. SUFFICES ASSUME NEW g \in DOMAIN goals'
               PROVE  Len(goals'[g].fees) + Cardinality(Withdrawing(g)') <= MaxWithdrawals
  BY DEF WithdrawalsBounded
<1>3. Withdrawing(g)' = Withdrawing(g) \ {s} BY <1>1 DEF Withdrawing
<1>4. IsFiniteSet(Withdrawing(g)) BY BoundAssumption, FS_Subset DEF Withdrawing
<1>5. /\ Cardinality(Withdrawing(g)) \in Nat
      /\ Cardinality(Withdrawing(g) \ {s}) <= Cardinality(Withdrawing(g))
      /\ Cardinality(Withdrawing(g) \ {s}) \in Nat
  <2>1. Withdrawing(g) \ {s} \subseteq Withdrawing(g) OBVIOUS
  <2> QED BY <1>4, <2>1, FS_Subset, FS_CardinalityType
<1>6. goals'[g].fees \in Seq(BOOLEAN) /\ Len(goals'[g].fees) \in Nat
  <2>1. goals'[g] \in Goal BY DEF TypeOK
  <2> QED BY <2>1, GoalFields
<1>7. CASE g \notin DOMAIN goals
  <2>1. Withdrawing(g) = {}
    <3>1. ASSUME NEW o \in Session, tx[o].op = "Withdraw", tx[o].goal = g PROVE FALSE
      <4>1. tx[o] # Idle BY <1>0, <3>1, KnownIsBusy DEF KnownOps, GoalOps
      <4> QED BY <1>0, <1>7, <3>1, <4>1 DEF SessionInv, GoalOpInv, GoalOps
    <3> QED BY <3>1 DEF Withdrawing
  <2>2. Cardinality(Withdrawing(g) \ {s}) = 0
    <3>1. Withdrawing(g) \ {s} = {} BY <2>1
    <3> QED BY <3>1, FS_EmptySet
  <2>3. goals'[g].fees = <<>> BY <1>7 DEF GoalsWritten
  <2> QED BY <1>3, <2>2, <2>3, BoundAssumption
<1>8. CASE g \in DOMAIN goals /\ goals'[g].fees = goals[g].fees
  <2>1. Len(goals[g].fees) + Cardinality(Withdrawing(g)) <= MaxWithdrawals
    BY <1>0, <1>8 DEF WithdrawalsBounded
  <2> QED BY <1>3, <1>5, <1>6, <1>8, <2>1, BoundAssumption
<1>9. CASE /\ g \in DOMAIN goals /\ tx[s].op = "Withdraw" /\ tx[s].goal = g
           /\ Len(goals'[g].fees) = Len(goals[g].fees) + 1
  <2>1. Len(goals[g].fees) + Cardinality(Withdrawing(g)) <= MaxWithdrawals
    BY <1>0, <1>9 DEF WithdrawalsBounded
  <2>2. s \in Withdrawing(g) BY <1>9 DEF Withdrawing
  <2>3. Cardinality(Withdrawing(g) \ {s}) = Cardinality(Withdrawing(g)) - 1
    BY <1>4, <2>2, FS_RemoveElement
  <2>4. Len(goals[g].fees) \in Nat
    <3>1. goals[g] \in Goal BY <1>0, <1>9 DEF TypeOK
    <3> QED BY <3>1, GoalFields
  <2> QED BY <1>3, <1>5, <1>9, <2>1, <2>3, <2>4, BoundAssumption
<1> QED BY <1>7, <1>8, <1>9 DEF GoalsWritten

(* So a session that ends, by a commit or not, leaves the invariant true.  *)
LEMMA SessionEnds ==
    ASSUME TxInv, NEW s \in Session, Effect(s), End(s), TypeOK'
    PROVE  TxInv'
<1>0. TypeOK /\ LocksExclusive /\ HoldingRows /\ FreshIds BY DEF TxInv
<1>1. tx'[s] = Idle /\ \A o \in Session \ {s} : tx'[o] = tx[o]
  BY <1>0 DEF TypeOK, End
<1>2. LocksExclusive' BY <1>0, LocksReleased
<1>3. HoldingRows' BY <1>0, HoldingRowsKept DEF Effect
<1>4. WithdrawalsBounded' BY WithdrawalsKept DEF Effect
<1>5. FreshIds'
  <2>1. tx'[s].op = "idle" BY <1>1 DEF Idle
  <2> QED BY <1>0, <1>1, <2>1 DEF FreshIds, MintOps
<1>6. ASSUME NEW o \in Session PROVE SessionInv(o)'
  <2>1. CASE o = s BY <1>1, <2>1 DEF SessionInv
  <2>2. CASE o # s BY <2>2, OthersKept
  <2> QED BY <2>1, <2>2
<1> QED BY <1>2, <1>3, <1>4, <1>5, <1>6 DEF TxInv

-----------------------------------------------------------------------------
(***************************************************************************)
(* Steps that leave the committed rows alone.                              *)
(***************************************************************************)
Rows == <<balance, accepted, goals, holdings>>

(* They have the effect of no step at all.                                 *)
LEMMA RowsStill ==
    ASSUME TypeOK, NEW s \in Session, UNCHANGED Rows,
           \A o \in Session \ {s} : tx'[o] = tx[o]
    PROVE  Effect(s)
BY DEF Rows, Effect, BalancesMoved, GoalsWritten, HoldingsWritten

(* A request that fails leaves nothing behind.                             *)
LEMMA RollbackKeeps ==
    ASSUME TxInv, NEW s \in Session, Rollback(s)
    PROVE  TxInv'
<1>1. TypeOK BY DEF TxInv
<1>2. Effect(s) BY <1>1, RowsStill DEF Rollback, End, Rows, TypeOK
<1>3. TypeOK' BY <1>1 DEF Rollback, End, TypeOK
<1> QED BY <1>2, <1>3, SessionEnds DEF Rollback

(* A request that begins holds no locks yet.                               *)
LEMMA NothingTaken ==
    ASSUME NEW t, t.done = 0, NEW st
    PROVE  ~ Taken(t, st)
BY DEF Taken

(* What a request must find true when it begins.                           *)
LEMMA BeginKeeps ==
    ASSUME TxInv, NEW s \in Session,
           NEW op \in KnownOps, NEW u \in User, NEW p \in Product,
           NEW g \in GoalId \cup {NoGoal}, NEW h \in HoldingId \cup {NoGoal}, NEW a \in Nat,
           Begin(s, op, u, p, g, h, a),
           op = "CreateGoal" => g \in FreshGoal,
           op \in MintOps => h \in FreshHolding,
           op = "Withdraw" =>
                Len(goals[g].fees) + Cardinality(InFlight("Withdraw")) < MaxWithdrawals,
           SessionInv(s)'
    PROVE  TxInv'
<1> DEFINE t == [op |-> op, user |-> u, product |-> p, goal |-> g, holding |-> h,
                 amount |-> a, done |-> 0, seen |-> Idle]
<1>0. /\ TypeOK /\ LocksExclusive /\ HoldingRows /\ FreshIds /\ WithdrawalsBounded
      /\ \A o \in Session : SessionInv(o)
      /\ UNCHANGED Rows /\ op \in Operation
      /\ tx[s] = Idle /\ tx' = [tx EXCEPT ![s] = t]
  BY DEF TxInv, Begin, Rows
<1>1. tx'[s] = t /\ \A o \in Session \ {s} : tx'[o] = tx[o] BY <1>0 DEF TypeOK
<1>t. /\ t.op = op /\ t.user = u /\ t.product = p /\ t.goal = g /\ t.holding = h
      /\ t.amount = a /\ t.done = 0
  OBVIOUS
<1>2. Effect(s) BY <1>0, <1>1, RowsStill
<1>3. TypeOK'
  <2>1. t \in Transaction BY <1>0 DEF Transaction
  <2> HIDE DEF t
  <2> QED BY <1>0, <2>1 DEF TypeOK, Rows
<1> HIDE DEF t
<1>4. LocksExclusive'
  <2>1. 1..tx'[s].done = {} BY <1>1, <1>t
  <2>2. ASSUME NEW o \in Session, NEW q \in Session, o # q,
               NEW i \in 1..tx'[o].done, NEW j \in 1..tx'[q].done
        PROVE  ~ Conflict(Statements(tx'[o])[i], Statements(tx'[q])[j])
    <3>1. o # s /\ q # s BY <2>1
    <3>2. tx'[o] = tx[o] /\ tx'[q] = tx[q] BY <1>1, <3>1
    <3> QED BY <1>0, <2>2, <3>2 DEF LocksExclusive
  <2> QED BY <2>2 DEF LocksExclusive
<1>5. HoldingRows' BY <1>0, <1>2, HoldingRowsKept DEF Effect
<1>6. FreshIds'
  <2>1. ASSUME NEW o \in Session, o # s, op = "CreateGoal", tx[o].op = "CreateGoal"
        PROVE  tx[o].goal # g
    BY <2>1 DEF FreshGoal, InFlight
  <2>2. ASSUME NEW o \in Session, o # s, op \in MintOps, tx[o].op \in MintOps
        PROVE  tx[o].holding # h
    BY <2>2 DEF FreshHolding, InFlight, MintOps
  <2>3. ASSUME NEW o \in Session, NEW q \in Session, o # q
        PROVE  /\ tx'[o].op = "CreateGoal" /\ tx'[q].op = "CreateGoal" =>
                    tx'[o].goal # tx'[q].goal
               /\ tx'[o].op \in MintOps /\ tx'[q].op \in MintOps =>
                    tx'[o].holding # tx'[q].holding
    <3>1. CASE o = s
      <4>1. q # s /\ tx'[q] = tx[q] BY <1>1, <2>3, <3>1
      <4> QED BY <1>1, <1>t, <2>1, <2>2, <3>1, <4>1
    <3>2. CASE q = s
      <4>1. o # s /\ tx'[o] = tx[o] BY <1>1, <2>3, <3>2
      <4> QED BY <1>1, <1>t, <2>1, <2>2, <3>2, <4>1
    <3>3. CASE o # s /\ q # s
      <4>1. tx'[o] = tx[o] /\ tx'[q] = tx[q] BY <1>1, <3>3
      <4> QED BY <1>0, <2>3, <4>1 DEF FreshIds
    <3> QED BY <3>1, <3>2, <3>3
  <2> QED BY <2>3 DEF FreshIds
<1>7. WithdrawalsBounded'
  <2> SUFFICES ASSUME NEW y \in DOMAIN goals
               PROVE  Len(goals[y].fees) + Cardinality(Withdrawing(y)') <= MaxWithdrawals
    BY <1>0 DEF WithdrawalsBounded, Rows
  <2>1. Len(goals[y].fees) + Cardinality(Withdrawing(y)) <= MaxWithdrawals
    BY <1>0 DEF WithdrawalsBounded
  <2>2. CASE ~ (op = "Withdraw" /\ g = y)
    <3>1. s \notin Withdrawing(y) BY <1>0 DEF Withdrawing, Idle
    <3>2. Withdrawing(y)' = Withdrawing(y)
      BY <1>1, <1>t, <2>2, <3>1 DEF Withdrawing
    <3> QED BY <2>1, <3>2
  <2>3. CASE op = "Withdraw" /\ g = y
    <3>1. Withdrawing(y) \subseteq InFlight("Withdraw") BY DEF Withdrawing, InFlight
    <3>2. InFlight("Withdraw") \subseteq Session BY DEF InFlight
    <3>3. IsFiniteSet(InFlight("Withdraw")) BY <3>2, BoundAssumption, FS_Subset
    <3>4. /\ IsFiniteSet(Withdrawing(y))
          /\ Cardinality(Withdrawing(y)) <= Cardinality(InFlight("Withdraw"))
      BY <3>1, <3>3, FS_Subset
    <3>5. /\ Cardinality(Withdrawing(y)) \in Nat
          /\ Cardinality(InFlight("Withdraw")) \in Nat
      BY <3>3, <3>4, FS_CardinalityType
    <3>6. Withdrawing(y)' = Withdrawing(y) \cup {s}
      BY <1>1, <1>t, <2>3 DEF Withdrawing
    <3>7. s \notin Withdrawing(y) BY <1>0 DEF Withdrawing, Idle
    <3>8. Cardinality(Withdrawing(y) \cup {s}) = Cardinality(Withdrawing(y)) + 1
      BY <3>4, <3>7, FS_AddElement
    <3>9. Len(goals[y].fees) \in Nat
      <4>1. goals[y] \in Goal BY <1>0 DEF TypeOK
      <4> QED BY <4>1, GoalFields
    <3> QED BY <2>3, <3>4, <3>5, <3>6, <3>8, <3>9, BoundAssumption
  <2> QED BY <2>2, <2>3
<1>8. ASSUME NEW o \in Session PROVE SessionInv(o)'
  BY <1>2, OthersKept
<1> QED BY <1>3, <1>4, <1>5, <1>6, <1>7, <1>8 DEF TxInv

(* Each request begins on a row it has just seen, with nothing locked.     *)
LEMMA RequestKeeps ==
    ASSUME TxInv, NEW s \in Session, Request(s)
    PROVE  TxInv'
<1>0. TypeOK /\ HoldingRows BY DEF TxInv
<1>n. NoGoal \in GoalId \cup {NoGoal} /\ NoGoal \in HoldingId \cup {NoGoal} OBVIOUS
<1>a. ASSUME NEW a \in Amount, a > 0 PROVE a \in Nat
  BY <1>a, AmountAssumption
<1>k. /\ KnownOps = {"CreateGoal", "SettleMaturedHolding", "Deposit", "Withdraw",
                     "BuyFromGoal", "BuySalak"}
      /\ MintOps = {"BuyFromGoal", "BuySalak"}
      /\ GoalOps = {"Deposit", "Withdraw", "BuyFromGoal"}
  BY DEF KnownOps, GoalOps, MintOps
<1>b. ASSUME NEW op, NEW u, NEW p, NEW g, NEW h, NEW a, Begin(s, op, u, p, g, h, a)
      PROVE  /\ tx'[s].op = op /\ tx'[s].user = u /\ tx'[s].product = p
             /\ tx'[s].goal = g /\ tx'[s].holding = h /\ tx'[s].amount = a
             /\ tx'[s].done = 0
             /\ goals' = goals /\ holdings' = holdings /\ accepted' = accepted
             /\ balance' = balance
  BY <1>0, <1>b DEF Begin, TypeOK
<1>l. ASSUME NEW t, t.done = 0
      PROVE  t.done <= Len(Statements(t)) /\ ~ Taken(t, Update(Debited(t)))
  <2>1. Len(Statements(t)) \in Nat BY StatementTable
  <2> QED BY <1>l, <2>1, NothingTaken
<1>1. CASE BeginCreateGoal(s)
  <2>1. PICK u \in User, p \in Product, a \in Amount, g \in FreshGoal :
           /\ u \in accepted
           /\ K!ValidatePurchase(p, a)
           /\ Begin(s, "CreateGoal", u, p, g, NoGoal, a)
    BY <1>1 DEF BeginCreateGoal
  <2>2. a \in Nat BY <1>a, <2>1 DEF K!ValidatePurchase
  <2>3. g \in GoalId /\ g \notin DOMAIN goals BY DEF FreshGoal
  <2> DEFINE t == tx'[s]
  <2>4. /\ t.op = "CreateGoal" /\ t.user = u /\ t.product = p /\ t.goal = g
        /\ t.amount = a /\ t.done = 0
    BY <1>b, <2>1
  <2>5. /\ t.done <= Len(Statements(t)) /\ ~ Taken(t, Update(Debited(t)))
    BY <1>l, <2>4
  <2>6. goals' = goals /\ accepted' = accepted BY <1>b, <2>1
  <2>7. SessionInv(s)'
    BY <1>k, <2>1, <2>3, <2>4, <2>5, <2>6
    DEF SessionInv, CreateInv, GoalOpInv, DebitInv, MintInv, SettleInv
  <2> HIDE DEF t
  <2> QED BY <1>n, <1>k, <2>1, <2>2, <2>3, <2>7, BeginKeeps
<1>2. CASE BeginDeposit(s)
  <2>0. PICK u \in User, a \in Amount :
           \E g \in ActiveGoals(u) :
              a > 0 /\ Begin(s, "Deposit", u, goals[g].product, g, NoGoal, a)
    BY <1>2, Zenon DEF BeginDeposit
  <2>1. PICK g \in ActiveGoals(u) :
           a > 0 /\ Begin(s, "Deposit", u, goals[g].product, g, NoGoal, a)
    BY <2>0
  <2>2. a \in Nat BY <1>a, <2>1
  <2>3. g \in DOMAIN goals /\ goals[g].owner = u BY DEF ActiveGoals
  <2>p. g \in GoalId \cup {NoGoal} /\ goals[g].product \in Product
    <3>1. goals[g] \in Goal /\ g \in GoalId BY <1>0, <2>3 DEF TypeOK
    <3> QED BY <3>1, GoalFields
  <2> DEFINE t == tx'[s]
  <2>4. /\ t.op = "Deposit" /\ t.user = u /\ t.product = goals[g].product /\ t.goal = g
        /\ t.amount = a /\ t.done = 0
    BY <1>b, <2>1
  <2>5. /\ t.done <= Len(Statements(t)) /\ ~ Taken(t, Update(Debited(t)))
    BY <1>l, <2>4
  <2>6. goals' = goals /\ accepted' = accepted BY <1>b, <2>1
  <2>7. SessionInv(s)'
    BY <1>k, <2>1, <2>3, <2>4, <2>5, <2>6
    DEF SessionInv, CreateInv, GoalOpInv, DebitInv, MintInv, SettleInv
  <2> HIDE DEF t
  <2> QED BY <1>n, <1>k, <2>1, <2>2, <2>p, <2>7, BeginKeeps
<1>3. CASE BeginWithdraw(s)
  <2>0. PICK u \in User, a \in Amount :
           \E g \in ActiveGoals(u) :
              /\ a > 0
              /\ Len(goals[g].fees) + Cardinality(InFlight("Withdraw")) < MaxWithdrawals
              /\ Begin(s, "Withdraw", u, goals[g].product, g, NoGoal, a)
    BY <1>3, Zenon DEF BeginWithdraw
  <2>1. PICK g \in ActiveGoals(u) :
           /\ a > 0
           /\ Len(goals[g].fees) + Cardinality(InFlight("Withdraw")) < MaxWithdrawals
           /\ Begin(s, "Withdraw", u, goals[g].product, g, NoGoal, a)
    BY <2>0
  <2>2. a \in Nat BY <1>a, <2>1
  <2>3. g \in DOMAIN goals /\ goals[g].owner = u BY DEF ActiveGoals
  <2>p. g \in GoalId \cup {NoGoal} /\ goals[g].product \in Product
    <3>1. goals[g] \in Goal /\ g \in GoalId BY <1>0, <2>3 DEF TypeOK
    <3> QED BY <3>1, GoalFields
  <2> DEFINE t == tx'[s]
  <2>4. /\ t.op = "Withdraw" /\ t.user = u /\ t.product = goals[g].product /\ t.goal = g
        /\ t.amount = a /\ t.done = 0
    BY <1>b, <2>1
  <2>5. /\ t.done <= Len(Statements(t)) /\ ~ Taken(t, Update(Debited(t)))
    BY <1>l, <2>4
  <2>6. goals' = goals /\ accepted' = accepted BY <1>b, <2>1
  <2>7. SessionInv(s)'
    BY <1>k, <2>1, <2>3, <2>4, <2>5, <2>6
    DEF SessionInv, CreateInv, GoalOpInv, DebitInv, MintInv, SettleInv
  <2> HIDE DEF t
  <2> QED BY <1>n, <1>k, <2>1, <2>2, <2>p, <2>7, BeginKeeps
<1>4. CASE BeginBuyFromGoal(s)
  <2>0. PICK u \in User, a \in Amount, h \in FreshHolding :
           \E g \in ActiveGoals(u) :
              a > 0 /\ Begin(s, "BuyFromGoal", u, goals[g].product, g, h, a)
    BY <1>4, Zenon DEF BeginBuyFromGoal
  <2>1. PICK g \in ActiveGoals(u) :
           a > 0 /\ Begin(s, "BuyFromGoal", u, goals[g].product, g, h, a)
    BY <2>0
  <2>2. a \in Nat BY <1>a, <2>1
  <2>3. g \in DOMAIN goals /\ goals[g].owner = u BY DEF ActiveGoals
  <2>p. g \in GoalId \cup {NoGoal} /\ goals[g].product \in Product
    <3>1. goals[g] \in Goal /\ g \in GoalId BY <1>0, <2>3 DEF TypeOK
    <3> QED BY <3>1, GoalFields
  <2>h. h \in HoldingId \cup {NoGoal} /\ h \in HoldingId /\ h \notin DOMAIN holdings
    BY DEF FreshHolding
  <2> DEFINE t == tx'[s]
  <2>4. /\ t.op = "BuyFromGoal" /\ t.user = u /\ t.product = goals[g].product /\ t.goal = g
        /\ t.amount = a /\ t.holding = h /\ t.done = 0
    BY <1>b, <2>1
  <2>5. /\ t.done <= Len(Statements(t)) /\ ~ Taken(t, Update(Debited(t)))
    BY <1>l, <2>4
  <2>6. goals' = goals /\ accepted' = accepted /\ holdings' = holdings BY <1>b, <2>1
  <2>7. SessionInv(s)'
    BY <1>k, <2>1, <2>3, <2>h, <2>4, <2>5, <2>6
    DEF SessionInv, CreateInv, GoalOpInv, DebitInv, MintInv, SettleInv
  <2> HIDE DEF t
  <2> QED BY <1>k, <2>1, <2>2, <2>p, <2>h, <2>7, BeginKeeps
<1>5. CASE BeginBuySalak(s)
  <2>1. PICK u \in User, p \in Product, a \in Amount, h \in FreshHolding :
           K!ValidatePurchase(p, a) /\ Begin(s, "BuySalak", u, p, NoGoal, h, a)
    BY <1>5 DEF BeginBuySalak
  <2>2. a \in Nat BY <1>a, <2>1 DEF K!ValidatePurchase
  <2>h. h \in HoldingId \cup {NoGoal} /\ h \in HoldingId /\ h \notin DOMAIN holdings
    BY DEF FreshHolding
  <2> DEFINE t == tx'[s]
  <2>4. /\ t.op = "BuySalak" /\ t.user = u /\ t.product = p /\ t.goal = NoGoal
        /\ t.amount = a /\ t.holding = h /\ t.done = 0
    BY <1>b, <2>1
  <2>5. /\ t.done <= Len(Statements(t)) /\ ~ Taken(t, Update(Debited(t)))
    BY <1>l, <2>4
  <2>6. goals' = goals /\ accepted' = accepted /\ holdings' = holdings BY <1>b, <2>1
  <2>7. SessionInv(s)'
    BY <1>k, <2>1, <2>h, <2>4, <2>5, <2>6
    DEF SessionInv, CreateInv, GoalOpInv, DebitInv, MintInv, SettleInv
  <2> HIDE DEF t
  <2> QED BY <1>n, <1>k, <2>1, <2>2, <2>h, <2>7, BeginKeeps
<1>6. CASE BeginSettleMaturedHolding(s)
  <2>1. PICK h \in DOMAIN holdings :
           Begin(s, "SettleMaturedHolding", holdings[h].owner, holdings[h].product,
                 holdings[h].goal, h, holdings[h].amount)
    BY <1>6 DEF BeginSettleMaturedHolding
  <2>2. /\ h \in HoldingId \cup {NoGoal}
        /\ holdings[h].owner \in User /\ holdings[h].product \in Product
        /\ holdings[h].goal \in GoalId \cup {NoGoal} /\ holdings[h].amount \in Nat
    <3>1. holdings[h] \in Holding /\ h \in HoldingId BY <1>0 DEF TypeOK
    <3> QED BY <3>1 DEF Holding
  <2> DEFINE t == tx'[s]
  <2>4. /\ t.op = "SettleMaturedHolding" /\ t.user = holdings[h].owner
        /\ t.product = holdings[h].product /\ t.goal = holdings[h].goal
        /\ t.amount = holdings[h].amount /\ t.holding = h /\ t.done = 0
    BY <1>b, <2>1
  <2>5. /\ t.done <= Len(Statements(t)) /\ ~ Taken(t, Update(Debited(t)))
    BY <1>l, <2>4
  <2>6. goals' = goals /\ accepted' = accepted /\ holdings' = holdings BY <1>b, <2>1
  <2>7. SessionInv(s)'
    BY <1>k, <2>1, <2>4, <2>5, <2>6
    DEF SessionInv, CreateInv, GoalOpInv, DebitInv, MintInv, SettleInv
  <2> HIDE DEF t
  <2> QED BY <1>k, <2>1, <2>2, <2>7, BeginKeeps
<1> QED BY <1>1, <1>2, <1>3, <1>4, <1>5, <1>6 DEF Request

-----------------------------------------------------------------------------
(***************************************************************************)
(* Running a statement.                                                    *)
(***************************************************************************)
(* The list of statements does not change while it runs.                   *)
LEMMA StatementsSame ==
    ASSUME NEW t, NEW q, q.op = t.op, q.user = t.user, q.product = t.product,
           q.goal = t.goal, q.holding = t.holding
    PROVE  Statements(q) = Statements(t) /\ Debited(q) = Debited(t)
<1>1. Debited(q) = Debited(t) BY DEF Debited
<1>2. CASE t.op = "CreateGoal"
  <2>1. Statements(t) = <<Share(<<"kapook", t.user>>)>>
    BY <1>2, StatementList
  <2>2. Statements(q) = <<Share(<<"kapook", t.user>>)>>
    BY <1>2, StatementList
  <2> QED BY <1>1, <2>1, <2>2
<1>3. CASE t.op \in {"Deposit", "Withdraw"}
  <2>1. Statements(t) =
            <<Update(<<"goal", t.goal>>), Update(<<"kapook", t.user>>),
              Update(<<"savings", t.user>>)>>
    BY <1>3, StatementList
  <2>2. Statements(q) =
            <<Update(<<"goal", t.goal>>), Update(<<"kapook", t.user>>),
              Update(<<"savings", t.user>>)>>
    BY <1>3, StatementList
  <2> QED BY <1>1, <2>1, <2>2
<1>4. CASE t.op = "BuyFromGoal"
  <2>1. Statements(t) =
            <<Update(<<"goal", t.goal>>), Update(<<"kapook", t.user>>),
              Update(<<"tickets", t.product>>), Share(<<"salak", t.user>>),
              Update(<<"salak", t.user>>)>>
    BY <1>4, StatementList
  <2>2. Statements(q) =
            <<Update(<<"goal", t.goal>>), Update(<<"kapook", t.user>>),
              Update(<<"tickets", t.product>>), Share(<<"salak", t.user>>),
              Update(<<"salak", t.user>>)>>
    BY <1>4, StatementList
  <2> QED BY <1>1, <2>1, <2>2
<1>5. CASE t.op = "BuySalak"
  <2>1. Statements(t) =
            <<Update(<<"savings", t.user>>), Update(<<"tickets", t.product>>),
              Share(<<"salak", t.user>>), Update(<<"salak", t.user>>)>>
    BY <1>5, StatementList
  <2>2. Statements(q) =
            <<Update(<<"savings", t.user>>), Update(<<"tickets", t.product>>),
              Share(<<"salak", t.user>>), Update(<<"salak", t.user>>)>>
    BY <1>5, StatementList
  <2> QED BY <1>1, <2>1, <2>2
<1>6. CASE t.op = "SettleMaturedHolding" /\ t.goal = NoGoal
  <2>1. Statements(t) =
            <<Update(<<"holding", t.holding>>), Update(<<"salak", t.user>>),
              Update(<<"savings", t.user>>)>>
    BY <1>6, StatementList
  <2>2. Statements(q) =
            <<Update(<<"holding", t.holding>>), Update(<<"salak", t.user>>),
              Update(<<"savings", t.user>>)>>
    BY <1>6, StatementList
  <2> QED BY <1>1, <2>1, <2>2
<1>7. CASE t.op = "SettleMaturedHolding" /\ t.goal # NoGoal
  <2>1. Statements(t) =
            <<Update(<<"holding", t.holding>>), Update(<<"salak", t.user>>),
              Update(<<"savings", t.user>>), Read(<<"goal", t.goal>>),
              Write(<<"goal", t.goal>>), Share(<<"kapook", t.user>>)>>
    BY <1>7, StatementList
  <2>2. Statements(q) =
            <<Update(<<"holding", t.holding>>), Update(<<"salak", t.user>>),
              Update(<<"savings", t.user>>), Read(<<"goal", t.goal>>),
              Write(<<"goal", t.goal>>), Share(<<"kapook", t.user>>)>>
    BY <1>7, StatementList
  <2> QED BY <1>1, <2>1, <2>2
<1>8. CASE t.op \notin KnownOps
  <2>1. Statements(t) = <<>>
    BY <1>8, StatementList
  <2>2. Statements(q) = <<>>
    BY <1>8, StatementList
  <2> QED BY <1>1, <2>1, <2>2
<1> QED BY <1>2, <1>3, <1>4, <1>5, <1>6, <1>7, <1>8 DEF KnownOps, GoalOps, MintOps

(* Only a request for a goal locks the goal, first of all, and only a      *)
(* settlement reads it, when it has moved the money.                       *)
LEMMA GoalStatement ==
    ASSUME NEW t, t.op \in KnownOps, t.done \in Nat, Remaining(t),
           Statements(t)[t.done + 1] \in {Update(<<"goal", t.goal>>), Read(<<"goal", t.goal>>)}
    PROVE  \/ t.op \in GoalOps /\ t.done = 0
           \/ t.op = "SettleMaturedHolding" /\ t.goal # NoGoal /\ t.done = 3
<1> DEFINE L == Statements(t)
<1>r. ASSUME NEW u, NEW g
      PROVE  /\ <<"kapook", u>> # <<"goal", g>> /\ <<"savings", u>> # <<"goal", g>>
             /\ <<"salak", u>> # <<"goal", g>> /\ <<"tickets", u>> # <<"goal", g>>
             /\ <<"holding", u>> # <<"goal", g>>
  OBVIOUS
<1>m. ASSUME NEW r1, NEW r2, r1 # r2
      PROVE  /\ Update(r1) \notin {Update(r2), Read(r2)}
             /\ Share(r1) \notin {Update(r2), Read(r2)}
  BY <1>m DEF Update, Read, Share
<1>w. Write(<<"goal", t.goal>>) \notin {Update(<<"goal", t.goal>>), Read(<<"goal", t.goal>>)}
  BY DEF Update, Read, Write
<1>1. CASE t.op = "CreateGoal"
  <2>1. Len(L) = 1 /\ L[1] = Share(<<"kapook", t.user>>) BY <1>1, StatementTable
  <2>2. t.done + 1 = 1 BY <2>1 DEF Remaining
  <2> QED BY <1>r, <1>m, <2>1, <2>2
<1>2. CASE t.op \in {"Deposit", "Withdraw"}
  <2>1. /\ Len(L) = 3 /\ L[2] = Update(<<"kapook", t.user>>)
        /\ L[3] = Update(<<"savings", t.user>>)
    BY <1>2, StatementTable
  <2>2. t.done = 0 \/ t.done + 1 = 2 \/ t.done + 1 = 3 BY <2>1 DEF Remaining
  <2> QED BY <1>2, <1>r, <1>m, <2>1, <2>2 DEF GoalOps
<1>3. CASE t.op = "BuyFromGoal"
  <2>1. /\ Len(L) = 5 /\ L[2] = Update(<<"kapook", t.user>>)
        /\ L[3] = Update(<<"tickets", t.product>>)
        /\ L[4] = Share(<<"salak", t.user>>) /\ L[5] = Update(<<"salak", t.user>>)
    BY <1>3, StatementTable
  <2>2. t.done = 0 \/ t.done + 1 = 2 \/ t.done + 1 = 3 \/ t.done + 1 = 4 \/ t.done + 1 = 5
    BY <2>1 DEF Remaining
  <2> QED BY <1>3, <1>r, <1>m, <2>1, <2>2 DEF GoalOps
<1>4. CASE t.op = "BuySalak"
  <2>1. /\ Len(L) = 4 /\ L[1] = Update(<<"savings", t.user>>)
        /\ L[2] = Update(<<"tickets", t.product>>)
        /\ L[3] = Share(<<"salak", t.user>>) /\ L[4] = Update(<<"salak", t.user>>)
    BY <1>4, StatementTable
  <2>2. t.done + 1 = 1 \/ t.done + 1 = 2 \/ t.done + 1 = 3 \/ t.done + 1 = 4
    BY <2>1 DEF Remaining
  <2> QED BY <1>r, <1>m, <2>1, <2>2
<1>5. CASE t.op = "SettleMaturedHolding"
  <2>1. /\ Len(L) = IF t.goal = NoGoal THEN 3 ELSE 6
        /\ L[1] = Update(<<"holding", t.holding>>)
        /\ L[2] = Update(<<"salak", t.user>>)
        /\ L[3] = Update(<<"savings", t.user>>)
        /\ t.goal # NoGoal => /\ L[5] = Write(<<"goal", t.goal>>)
                              /\ L[6] = Share(<<"kapook", t.user>>)
    BY <1>5, StatementTable
  <2>2. \/ t.done + 1 = 1 \/ t.done + 1 = 2 \/ t.done + 1 = 3
        \/ t.goal # NoGoal /\ t.done = 3
        \/ t.goal # NoGoal /\ t.done + 1 = 5
        \/ t.goal # NoGoal /\ t.done + 1 = 6
    BY <2>1 DEF Remaining
  <2> QED BY <1>5, <1>r, <1>m, <1>w, <2>1, <2>2
<1> QED BY <1>1, <1>2, <1>3, <1>4, <1>5 DEF KnownOps, GoalOps, MintOps

(* A transaction that reads the goal is still one.                         *)
LEMMA TransactionReads ==
    ASSUME NEW t \in Transaction, NEW n \in Nat, NEW x \in Goal
    PROVE  [t EXCEPT !.done = n, !.seen = x] \in Transaction
<1> DEFINE r == [t EXCEPT !.done = n]
<1>1. r \in Transaction BY DEF Transaction
<1>2. [t EXCEPT !.done = n, !.seen = x] = [r EXCEPT !.seen = x] OBVIOUS
<1> HIDE DEF r
<1>3. [r EXCEPT !.seen = x] \in Transaction BY <1>1 DEF Transaction
<1> QED BY <1>2, <1>3

(* What the statement found out is what the invariant says is known.       *)
LEMMA RunStatementKeeps ==
    ASSUME TxInv, NEW s \in Session, RunStatement(s)
    PROVE  TxInv'
<1> DEFINE t == tx[s]
           st == Statements(t)[t.done + 1]
           q == AfterStatement(t, st)
<1>0. /\ TypeOK /\ LocksExclusive /\ HoldingRows /\ FreshIds /\ WithdrawalsBounded
      /\ SessionInv(s)
  BY DEF TxInv
<1>1. /\ Remaining(t) /\ WaitsFor(s) = {} /\ UNCHANGED Rows
      /\ tx' = [tx EXCEPT ![s] = IF Accepts(t, st) THEN q ELSE Idle]
  BY DEF RunStatement, Rows
<1>2. CASE ~ Accepts(t, st)
  <2>1. Rollback(s) BY <1>1, <1>2 DEF Rollback, End, Rows
  <2> QED BY <2>1, RollbackKeeps
<1>3. CASE Accepts(t, st)
  <2>0. tx[s] # Idle
    <3>1. CASE tx[s] = Idle
      <4>1. t.op \notin KnownOps BY <3>1 DEF Idle, KnownOps, GoalOps, MintOps
      <4>2. Len(Statements(t)) = 0 BY <4>1, StatementTable
      <4> QED BY <1>0, <1>1, <4>2, SessionFields DEF Remaining
    <3> QED BY <3>1
  <2>1. /\ t \in Transaction /\ t.done \in Nat /\ t.user \in User
        /\ t.op \in KnownOps
        /\ CreateInv(t) /\ GoalOpInv(t) /\ DebitInv(t) /\ MintInv(t) /\ SettleInv(t)
    BY <1>0, <2>0, SessionFields DEF SessionInv
  <2>2. tx'[s] = q /\ \A o \in Session \ {s} : tx'[o] = tx[o]
    BY <1>0, <1>1, <1>3 DEF TypeOK
  <2> DEFINE onGoal == st \in {Update(<<"goal", t.goal>>), Read(<<"goal", t.goal>>)}
  <2>3. /\ q.op = t.op /\ q.user = t.user /\ q.product = t.product
        /\ q.goal = t.goal /\ q.holding = t.holding /\ q.amount = t.amount
        /\ q.done = t.done + 1
        /\ q.seen = IF onGoal THEN goals[t.goal] ELSE t.seen
    BY <2>1 DEF AfterStatement, Transaction
  <2>4. Statements(q) = Statements(t) /\ Debited(q) = Debited(t)
    BY <2>3, StatementsSame
  <2>5. onGoal => \/ t.op \in GoalOps /\ t.done = 0
                  \/ t.op = "SettleMaturedHolding" /\ t.goal # NoGoal /\ t.done = 3
    BY <1>1, <2>1, GoalStatement
  <2>6. onGoal => t.goal \in DOMAIN goals /\ goals[t.goal] \in Goal
    <3>1. onGoal => t.goal \in DOMAIN goals
      BY <1>0, <2>1, <2>5 DEF GoalOpInv, SettleInv, HoldingRows
    <3> QED BY <1>0, <3>1 DEF TypeOK
  <2>7. Effect(s) BY <1>0, <1>1, <2>2, RowsStill
  <2>8. TypeOK'
    <3>1. q \in Transaction
      <4>1. CASE onGoal
        <5>1. q = [t EXCEPT !.done = t.done + 1, !.seen = goals[t.goal]]
          BY <4>1 DEF AfterStatement
        <5> HIDE DEF q
        <5>2. t.done + 1 \in Nat BY <2>1
        <5> QED BY <2>1, <2>6, <4>1, <5>1, <5>2, TransactionReads
      <4>2. CASE ~ onGoal BY <2>1, <4>2 DEF AfterStatement, Transaction
      <4> QED BY <4>1, <4>2
    <3> HIDE DEF q
    <3> QED BY <1>0, <1>1, <1>3, <3>1 DEF TypeOK, Rows
  <2> HIDE DEF q, onGoal
  <2>9. LocksExclusive'
    <3>1. ASSUME NEW o \in Session \ {s}, NEW j \in 1..tx[o].done
          PROVE  ~ Conflict(st, Statements(tx[o])[j])
      BY <1>1 DEF WaitsFor
    <3>2. ASSUME NEW o \in Session \ {s}, NEW i \in 1..q.done, NEW j \in 1..tx[o].done
          PROVE  ~ Conflict(Statements(q)[i], Statements(tx[o])[j])
      <4>1. CASE i = t.done + 1 BY <2>4, <3>1, <4>1
      <4>2. CASE i # t.done + 1
        <5>1. i \in 1..t.done BY <2>1, <2>3, <4>2
        <5> QED BY <1>0, <2>4, <5>1 DEF LocksExclusive
      <4> QED BY <4>1, <4>2
    <3>3. ASSUME NEW st1, NEW st2, ~ Conflict(st1, st2) PROVE ~ Conflict(st2, st1)
      BY <3>3 DEF Conflict
    <3>4. ASSUME NEW o \in Session, NEW r \in Session, o # r,
                 NEW i \in 1..tx'[o].done, NEW j \in 1..tx'[r].done
          PROVE  ~ Conflict(Statements(tx'[o])[i], Statements(tx'[r])[j])
      <4>1. CASE o = s
        <5>1. r \in Session \ {s} /\ tx'[r] = tx[r] BY <2>2, <3>4, <4>1
        <5> QED BY <2>2, <3>2, <4>1, <5>1
      <4>2. CASE r = s
        <5>1. o \in Session \ {s} /\ tx'[o] = tx[o] BY <2>2, <3>4, <4>2
        <5> QED BY <2>2, <3>2, <3>3, <4>2, <5>1
      <4>3. CASE o # s /\ r # s
        <5>1. tx'[o] = tx[o] /\ tx'[r] = tx[r] BY <2>2, <4>3
        <5> QED BY <1>0, <3>4, <5>1 DEF LocksExclusive
      <4> QED BY <4>1, <4>2, <4>3
    <3> QED BY <3>4 DEF LocksExclusive
  <2>10. FreshIds'
    <3>1. \A o \in Session : /\ tx'[o].op = tx[o].op /\ tx'[o].goal = tx[o].goal
                             /\ tx'[o].holding = tx[o].holding
      BY <2>2, <2>3
    <3> QED BY <1>0, <3>1 DEF FreshIds
  <2>11. WithdrawalsBounded'
    <3>1. \A g : Withdrawing(g)' = Withdrawing(g) BY <2>2, <2>3 DEF Withdrawing
    <3> QED BY <1>0, <1>1, <3>1 DEF WithdrawalsBounded, Rows
  <2>12. HoldingRows' BY <1>0, <1>1 DEF HoldingRows, Rows
  <2>13. SessionInv(s)'
    <3>1. q.done <= Len(Statements(q))
      <4>1. Len(Statements(t)) \in Nat BY StatementTable
      <4> QED BY <1>1, <2>1, <2>3, <2>4, <4>1 DEF Remaining
    <3>2. CreateInv(tx[s])' BY <1>1, <2>1, <2>2, <2>3 DEF CreateInv, Rows
    <3>3. GoalOpInv(tx[s])'
      <4> SUFFICES ASSUME t.op \in GoalOps PROVE GoalOpInv(tx[s])'
        BY <2>2, <2>3 DEF GoalOpInv
      <4>1. q.seen = goals[t.goal] /\ GoalAccepts(t, goals[t.goal])
        <5>1. CASE t.done = 0
          <6>0. t.done + 1 = 1 BY <5>1
          <6>1. st = Update(<<"goal", t.goal>>) BY <6>0, StatementTable DEF GoalOps
          <6> QED BY <1>3, <2>3, <6>1 DEF Accepts, onGoal
        <5>2. CASE t.done # 0
          <6>1. ~ onGoal BY <2>5, <5>2 DEF GoalOps
          <6>2. t.done >= 1 BY <2>1, <5>2
          <6> QED BY <2>1, <2>3, <6>1, <6>2 DEF GoalOpInv
        <5> QED BY <5>1, <5>2
      <4>2. GoalAccepts(q, goals[t.goal]) BY <2>3, <4>1 DEF GoalAccepts
      <4> QED BY <1>1, <2>1, <2>2, <2>3, <4>1, <4>2 DEF GoalOpInv, Rows, GoalAccepts, Available
    <3>4. DebitInv(tx[s])'
      <4> SUFFICES ASSUME Taken(q, Update(Debited(q))) PROVE DebitInv(tx[s])'
        BY <2>2 DEF DebitInv
      <4>1. CASE Taken(t, Update(Debited(t)))
        BY <1>1, <2>1, <2>2, <2>3, <2>4, <4>1 DEF DebitInv, Covers, Rows
      <4>2. CASE ~ Taken(t, Update(Debited(t)))
        <5>1. PICK i \in 1..q.done : Statements(t)[i] = Update(Debited(t))
          BY <2>4 DEF Taken
        <5>2. i = t.done + 1 BY <2>1, <2>3, <4>2, <5>1 DEF Taken
        <5>3. st = Update(Debited(t)) BY <5>1, <5>2
        <5>4. st.row = Debited(t) BY <5>3 DEF Update
        <5> QED BY <1>1, <1>3, <2>2, <2>3, <2>4, <5>3, <5>4
                 DEF Accepts, DebitInv, Covers, Rows, MintOps
      <4> QED BY <4>1, <4>2
    <3>5. MintInv(tx[s])' BY <1>1, <2>1, <2>2, <2>3 DEF MintInv, Rows
    <3>6. SettleInv(tx[s])'
      <4> SUFFICES ASSUME t.op = "SettleMaturedHolding" PROVE SettleInv(tx[s])'
        BY <2>2, <2>3 DEF SettleInv
      <4>1. ~ holdings[t.holding].settled
        <5>1. CASE t.done = 0
          <6>0. t.done + 1 = 1 BY <5>1
          <6>1. st = Update(<<"holding", t.holding>>) BY <6>0, StatementTable
          <6> QED BY <1>3, <6>1 DEF Accepts
        <5>2. CASE t.done # 0 BY <2>1, <5>2 DEF SettleInv
        <5> QED BY <5>1, <5>2
      <4>2. t.goal # NoGoal /\ q.done >= 4 =>
               q.seen \in Goal /\ q.seen.salakAmount = goals[t.goal].salakAmount
        <5> SUFFICES ASSUME t.goal # NoGoal, q.done >= 4
                     PROVE  q.seen \in Goal /\ q.seen.salakAmount = goals[t.goal].salakAmount
          OBVIOUS
        <5>1. CASE t.done = 3
          <6>0. t.done + 1 = 4 BY <5>1
          <6>1. st = Read(<<"goal", t.goal>>) BY <6>0, StatementTable
          <6>2. onGoal BY <6>1 DEF onGoal
          <6> QED BY <2>3, <2>6, <6>2
        <5>2. CASE t.done # 3
          <6>1. ~ onGoal BY <2>5, <5>2 DEF GoalOps
          <6>2. t.done >= 4 BY <2>1, <2>3, <5>2
          <6> QED BY <2>1, <2>3, <6>1, <6>2 DEF SettleInv
        <5> QED BY <5>1, <5>2
      <4> QED BY <1>1, <2>1, <2>2, <2>3, <4>1, <4>2 DEF SettleInv, Rows
    <3> QED BY <2>1, <2>2, <2>3, <3>1, <3>2, <3>3, <3>4, <3>5, <3>6
        DEF SessionInv
  <2>14. ASSUME NEW o \in Session PROVE SessionInv(o)'
    BY <2>7, <2>13, OthersKept
  <2> QED BY <2>8, <2>9, <2>10, <2>11, <2>12, <2>14 DEF TxInv
<1> QED BY <1>2, <1>3

-----------------------------------------------------------------------------
(***************************************************************************)
(* Commits.                                                                *)
(***************************************************************************)
(* What a transaction that has run all its statements knows and holds.     *)
LEMMA Committing ==
    ASSUME TxInv, NEW s \in Session, tx[s].op \in KnownOps, ~ Remaining(tx[s])
    PROVE  LET t == tx[s]
           IN  /\ t \in Transaction /\ t.user \in User /\ t.product \in Product
               /\ t.amount \in Nat
               /\ CreateInv(t) /\ MintInv(t) /\ SettleInv(t)
               /\ t.op \in GoalOps =>
                    /\ t.amount \in Amount /\ t.amount > 0
                    /\ t.goal \in DOMAIN goals /\ goals[t.goal] \in Goal
                    /\ goals[t.goal].owner = t.user /\ goals[t.goal].product = t.product
                    /\ t.seen = goals[t.goal] /\ GoalAccepts(t, goals[t.goal])
                    /\ Holds(s, Update(<<"goal", t.goal>>))
                    /\ Holds(s, Update(<<"kapook", t.user>>))
               /\ t.op \in {"Deposit", "Withdraw", "BuySalak", "SettleMaturedHolding"} =>
                    Holds(s, Update(<<"savings", t.user>>))
               /\ t.op \in MintOps \cup {"SettleMaturedHolding"} =>
                    Holds(s, Update(<<"salak", t.user>>))
               /\ t.op # "CreateGoal" => Covers(Debited(t), t.amount)
               /\ t.op \in MintOps => K!Units(t.product, t.amount) > 0
               /\ t.op = "SettleMaturedHolding" =>
                    /\ Holds(s, Update(<<"holding", t.holding>>))
                    /\ ~ holdings[t.holding].settled
                    /\ t.goal # NoGoal =>
                         /\ Holds(s, Write(<<"goal", t.goal>>))
                         /\ t.goal \in DOMAIN goals /\ goals[t.goal] \in Goal
                         /\ goals[t.goal].owner = t.user
                         /\ t.seen.salakAmount = goals[t.goal].salakAmount
<1> DEFINE t == tx[s]
<1>0. TypeOK /\ HoldingRows /\ SessionInv(s) /\ t # Idle
  BY KnownIsBusy DEF TxInv
<1>1. /\ t \in Transaction /\ t.user \in User /\ t.product \in Product
      /\ t.amount \in Nat /\ t.done \in Nat
  <2>1. t \in Transaction \cup {Idle} BY <1>0 DEF TypeOK
  <2> QED BY <1>0, <2>1, SessionFields
<1>2. CreateInv(t) /\ GoalOpInv(t) /\ DebitInv(t) /\ MintInv(t) /\ SettleInv(t)
  BY <1>0 DEF SessionInv
<1>3. t.done = Len(Statements(t))
  <2>1. Len(Statements(t)) \in Nat BY StatementTable
  <2> QED BY <1>0, <1>1, <2>1 DEF SessionInv, Remaining
<1>k. /\ KnownOps = {"CreateGoal", "SettleMaturedHolding", "Deposit", "Withdraw",
                     "BuyFromGoal", "BuySalak"}
      /\ MintOps = {"BuyFromGoal", "BuySalak"}
      /\ GoalOps = {"Deposit", "Withdraw", "BuyFromGoal"}
  BY DEF KnownOps, GoalOps, MintOps
<1>4. /\ t.op \in {"Deposit", "Withdraw"} => t.done = 3
      /\ t.op = "BuyFromGoal" => t.done = 5
      /\ t.op = "BuySalak" => t.done = 4
      /\ t.op = "SettleMaturedHolding" => t.done >= 3
      /\ t.op = "SettleMaturedHolding" /\ t.goal # NoGoal => t.done = 6
  <2>1. t.op \in {"Deposit", "Withdraw"} => Len(Statements(t)) = 3 BY StatementTable
  <2>2. t.op = "BuyFromGoal" => Len(Statements(t)) = 5 BY StatementTable
  <2>3. t.op = "BuySalak" => Len(Statements(t)) = 4 BY StatementTable
  <2>4. t.op = "SettleMaturedHolding" =>
           Len(Statements(t)) = IF t.goal = NoGoal THEN 3 ELSE 6
    BY StatementTable
  <2>5. t.op = "SettleMaturedHolding" => t.done = IF t.goal = NoGoal THEN 3 ELSE 6
    BY <1>3, <2>4
  <2>6. t.op = "SettleMaturedHolding" =>
           /\ t.done >= 3
           /\ t.goal # NoGoal => t.done = 6
    <3>1. CASE t.goal = NoGoal BY <2>5, <3>1
    <3>2. CASE t.goal # NoGoal BY <2>5, <3>2
    <3> QED BY <3>1, <3>2
  <2> QED BY <1>3, <2>1, <2>2, <2>3, <2>6
<1>g. t.op \in GoalOps => t.done >= 2 /\ t.done >= 1 BY <1>4, <1>k
<1>5. t.op \in GoalOps => /\ Holds(s, Update(<<"goal", t.goal>>))
                          /\ Holds(s, Update(<<"kapook", t.user>>))
  BY <1>1, <1>g, TakenList DEF Holds
<1>6. t.op \in {"Deposit", "Withdraw", "BuySalak", "SettleMaturedHolding"} =>
         Holds(s, Update(<<"savings", t.user>>))
  <2>1. t.op = "BuySalak" => t.done >= 1 BY <1>4
  <2>2. t.op \in {"Deposit", "Withdraw"} => t.done >= 3 BY <1>4
  <2> QED BY <1>1, <1>4, <2>1, <2>2, TakenList DEF Holds
<1>7. t.op \in MintOps \cup {"SettleMaturedHolding"} =>
         Holds(s, Update(<<"salak", t.user>>))
  <2>1. t.op = "BuyFromGoal" => t.done >= 5 BY <1>4
  <2>2. t.op = "BuySalak" => t.done >= 4 BY <1>4
  <2>3. t.op = "SettleMaturedHolding" => t.done >= 2 BY <1>1, <1>4
  <2> QED BY <1>1, <1>k, <2>1, <2>2, <2>3, TakenList DEF Holds
<1>8. t.op = "SettleMaturedHolding" =>
         /\ Holds(s, Update(<<"holding", t.holding>>))
         /\ t.goal # NoGoal => Holds(s, Write(<<"goal", t.goal>>))
  <2>1. t.op = "SettleMaturedHolding" =>
           t.done >= 1 /\ (t.goal # NoGoal => t.done >= 5)
    BY <1>1, <1>4
  <2> QED BY <1>1, <2>1, TakenList DEF Holds
<1>9. t.op # "CreateGoal" => Taken(t, Update(Debited(t)))
  <2>1. CASE t.op \in {"Deposit", "BuySalak"}
    <3>1. Debited(t) = <<"savings", t.user>> BY <2>1 DEF Debited
    <3> QED BY <2>1, <3>1, <1>6 DEF Holds
  <2>2. CASE t.op \in {"Withdraw", "BuyFromGoal"}
    <3>1. Debited(t) = <<"kapook", t.user>> BY <2>2 DEF Debited
    <3> QED BY <2>2, <3>1, <1>5, <1>k DEF Holds
  <2>3. CASE t.op = "SettleMaturedHolding"
    <3>1. Debited(t) = <<"salak", t.user>> BY <2>3 DEF Debited
    <3> QED BY <2>3, <3>1, <1>7 DEF Holds
  <2> QED BY <2>1, <2>2, <2>3, <1>k
<1>10. /\ t.op # "CreateGoal" => Covers(Debited(t), t.amount)
       /\ t.op \in MintOps => K!Units(t.product, t.amount) > 0
  BY <1>2, <1>9, <1>k DEF DebitInv
<1>11. t.op \in GoalOps =>
         /\ t.amount \in Amount /\ t.amount > 0
         /\ t.goal \in DOMAIN goals /\ goals[t.goal] \in Goal
         /\ goals[t.goal].owner = t.user /\ goals[t.goal].product = t.product
         /\ t.seen = goals[t.goal] /\ GoalAccepts(t, goals[t.goal])
  BY <1>0, <1>2, <1>g DEF GoalOpInv, TypeOK
<1>12. t.op = "SettleMaturedHolding" =>
         /\ ~ holdings[t.holding].settled
         /\ t.goal # NoGoal =>
              /\ t.goal \in DOMAIN goals /\ goals[t.goal] \in Goal
              /\ goals[t.goal].owner = t.user
              /\ t.seen.salakAmount = goals[t.goal].salakAmount
  <2>1. t.op = "SettleMaturedHolding" =>
           t.done >= 1 /\ (t.goal # NoGoal => t.done >= 4)
    BY <1>1, <1>4
  <2> QED BY <1>0, <1>2, <2>1 DEF SettleInv, HoldingRows, TypeOK
<1> HIDE DEF t
<1> QED BY <1>1, <1>2, <1>5, <1>6, <1>7, <1>8, <1>10, <1>11, <1>12 DEF t

(* Money that moves between two accounts of a user, one of which covers    *)
(* it.                                                                     *)
LEMMA MoneyMoves ==
    ASSUME balance \in [Account -> Nat], NEW from \in Account, NEW to \in Account,
           from # to, NEW a \in Nat, NEW c \in Nat, balance[from] >= a,
           Move(from, to, a, c)
    PROVE  /\ balance' \in [Account -> Nat]
           /\ balance'[from] = balance[from] - a
           /\ balance'[to] = balance[to] + c
           /\ \A acc \in Account \ {from, to} : balance'[acc] = balance[acc]
<1>1. balance[from] - a \in Nat /\ balance[to] + c \in Nat OBVIOUS
<1> QED BY <1>1 DEF Move

(* What is credited of a withdrawal is part of it.                         *)
LEMMA NetCredited ==
    ASSUME NEW a \in Nat, a > 0, NEW charged
    PROVE  K!netCredited(a, charged) \in Nat
<1>1. (2 * a + 50) \div 100 \in Nat /\ (2 * a + 50) \div 100 <= a OBVIOUS
<1> QED BY <1>1 DEF K!netCredited, K!computeWithdrawalFee

(* The accounts of a user are three rows.                                  *)
LEMMA ThreeAccounts ==
    ASSUME NEW u \in User
    PROVE  /\ <<"savings", u>> \in Account /\ <<"kapook", u>> \in Account
           /\ <<"salak", u>> \in Account
           /\ <<"savings", u>> # <<"kapook", u>> /\ <<"savings", u>> # <<"salak", u>>
           /\ <<"kapook", u>> # <<"salak", u>>
BY DEF Account

(* The goal rows the commits write.                                        *)
Deposited(row, n, r) ==
    [row EXCEPT !.savingAmount = n, !.reached = r]

Withdrawn(row, n, b, f) ==
    [row EXCEPT !.savingAmount = n, !.isActive = b, !.fees = f]

Spent(row, n, m, b) ==
    [row EXCEPT !.salakAmount = n, !.bought = m, !.isActive = b]

Settled(row, n) == [row EXCEPT !.salakAmount = n]

(* Those rows, column by column: a deposit's.                              *)
LEMMA DepositRow ==
    ASSUME NEW row \in Goal, NEW n \in Nat, NEW r \in BOOLEAN
    PROVE  LET new == Deposited(row, n, r)
           IN  /\ new \in Goal
               /\ new.owner = row.owner /\ new.product = row.product
               /\ new.goalAmount = row.goalAmount /\ new.savingAmount = n
               /\ new.salakAmount = row.salakAmount /\ new.bought = row.bought
               /\ new.isActive = row.isActive /\ new.reached = r /\ new.fees = row.fees
<1> DEFINE one == [row EXCEPT !.savingAmount = n]
           new == Deposited(row, n, r)
<1>1. /\ one \in Goal
      /\ one.owner = row.owner /\ one.product = row.product
      /\ one.goalAmount = row.goalAmount /\ one.savingAmount = n
      /\ one.salakAmount = row.salakAmount /\ one.bought = row.bought
      /\ one.isActive = row.isActive /\ one.fees = row.fees
  BY DEF Goal
<1>2. new = [one EXCEPT !.reached = r] BY DEF Deposited
<1> HIDE DEF one, new
<1>3. /\ new \in Goal
      /\ new.owner = one.owner /\ new.product = one.product
      /\ new.goalAmount = one.goalAmount /\ new.savingAmount = one.savingAmount
      /\ new.salakAmount = one.salakAmount /\ new.bought = one.bought
      /\ new.isActive = one.isActive /\ new.reached = r /\ new.fees = one.fees
  BY <1>1, <1>2 DEF Goal
<1>4. /\ new \in Goal
      /\ new.owner = row.owner /\ new.product = row.product
      /\ new.goalAmount = row.goalAmount /\ new.savingAmount = n
      /\ new.salakAmount = row.salakAmount /\ new.bought = row.bought
      /\ new.isActive = row.isActive /\ new.reached = r /\ new.fees = row.fees
  BY <1>1, <1>3
<1> QED BY <1>4 DEF new

(* Those of a withdrawal.                                                  *)
LEMMA WithdrawRow ==
    ASSUME NEW row \in Goal, NEW n \in Nat, NEW b \in BOOLEAN, NEW f \in Seq(BOOLEAN)
    PROVE  LET new == Withdrawn(row, n, b, f)
           IN  /\ new \in Goal
               /\ new.owner = row.owner /\ new.product = row.product
               /\ new.goalAmount = row.goalAmount /\ new.savingAmount = n
               /\ new.salakAmount = row.salakAmount /\ new.bought = row.bought
               /\ new.isActive = b /\ new.reached = row.reached /\ new.fees = f
<1> DEFINE one == [row EXCEPT !.savingAmount = n]
           two == [one EXCEPT !.isActive = b]
           new == Withdrawn(row, n, b, f)
<1>1. /\ one \in Goal
      /\ one.owner = row.owner /\ one.product = row.product
      /\ one.goalAmount = row.goalAmount /\ one.savingAmount = n
      /\ one.salakAmount = row.salakAmount /\ one.bought = row.bought
      /\ one.reached = row.reached
  BY DEF Goal
<1>2. new = [two EXCEPT !.fees = f] BY DEF Withdrawn
<1> HIDE DEF one
<1>3. /\ two \in Goal
      /\ two.owner = one.owner /\ two.product = one.product
      /\ two.goalAmount = one.goalAmount /\ two.savingAmount = one.savingAmount
      /\ two.salakAmount = one.salakAmount /\ two.bought = one.bought
      /\ two.isActive = b /\ two.reached = one.reached
  BY <1>1 DEF Goal
<1> HIDE DEF two, new
<1>4. /\ new \in Goal
      /\ new.owner = two.owner /\ new.product = two.product
      /\ new.goalAmount = two.goalAmount /\ new.savingAmount = two.savingAmount
      /\ new.salakAmount = two.salakAmount /\ new.bought = two.bought
      /\ new.isActive = two.isActive /\ new.reached = two.reached /\ new.fees = f
  BY <1>2, <1>3 DEF Goal
<1>5. /\ new \in Goal
      /\ new.owner = row.owner /\ new.product = row.product
      /\ new.goalAmount = row.goalAmount /\ new.savingAmount = n
      /\ new.salakAmount = row.salakAmount /\ new.bought = row.bought
      /\ new.isActive = b /\ new.reached = row.reached /\ new.fees = f
  BY <1>1, <1>3, <1>4
<1> QED BY <1>5 DEF new

(* Those of a purchase.                                                    *)
LEMMA BuyRow ==
    ASSUME NEW row \in Goal, NEW n \in Nat, NEW m \in Nat, NEW b \in BOOLEAN
    PROVE  LET new == Spent(row, n, m, b)
           IN  /\ new \in Goal
               /\ new.owner = row.owner /\ new.product = row.product
               /\ new.goalAmount = row.goalAmount /\ new.savingAmount = row.savingAmount
               /\ new.salakAmount = n /\ new.bought = m
               /\ new.isActive = b /\ new.reached = row.reached /\ new.fees = row.fees
<1> DEFINE one == [row EXCEPT !.salakAmount = n]
           two == [one EXCEPT !.bought = m]
           new == Spent(row, n, m, b)
<1>1. /\ one \in Goal
      /\ one.owner = row.owner /\ one.product = row.product
      /\ one.goalAmount = row.goalAmount /\ one.savingAmount = row.savingAmount
      /\ one.salakAmount = n
      /\ one.reached = row.reached /\ one.fees = row.fees
  BY DEF Goal
<1>2. new = [two EXCEPT !.isActive = b] BY DEF Spent
<1> HIDE DEF one
<1>3. /\ two \in Goal
      /\ two.owner = one.owner /\ two.product = one.product
      /\ two.goalAmount = one.goalAmount /\ two.savingAmount = one.savingAmount
      /\ two.salakAmount = one.salakAmount /\ two.bought = m
      /\ two.reached = one.reached /\ two.fees = one.fees
  BY <1>1 DEF Goal
<1> HIDE DEF two, new
<1>4. /\ new \in Goal
      /\ new.owner = two.owner /\ new.product = two.product
      /\ new.goalAmount = two.goalAmount /\ new.savingAmount = two.savingAmount
      /\ new.salakAmount = two.salakAmount /\ new.bought = two.bought
      /\ new.isActive = b /\ new.reached = two.reached /\ new.fees = two.fees
  BY <1>2, <1>3 DEF Goal
<1>5. /\ new \in Goal
      /\ new.owner = row.owner /\ new.product = row.product
      /\ new.goalAmount = row.goalAmount /\ new.savingAmount = row.savingAmount
      /\ new.salakAmount = n /\ new.bought = m
      /\ new.isActive = b /\ new.reached = row.reached /\ new.fees = row.fees
  BY <1>1, <1>3, <1>4
<1> QED BY <1>5 DEF new

(* That of a settlement.                                                   *)
LEMMA SettleRow ==
    ASSUME NEW row \in Goal, NEW n \in Nat
    PROVE  LET new == Settled(row, n)
           IN  /\ new \in Goal
               /\ new.owner = row.owner /\ new.product = row.product
               /\ new.goalAmount = row.goalAmount /\ new.savingAmount = row.savingAmount
               /\ new.salakAmount = n /\ new.bought = row.bought
               /\ new.isActive = row.isActive /\ new.reached = row.reached
               /\ new.fees = row.fees
BY DEF Goal, Settled

(* A commit that overwrites one goal row, under a lock on the row.         *)
LEMMA OneGoalWritten ==
    ASSUME TypeOK, NEW s \in Session, NEW g \in DOMAIN goals, NEW row \in Goal,
           goals' = [goals EXCEPT ![g] = row],
           row.owner = goals[g].owner, row.product = goals[g].product,
           Holds(s, Update(<<"goal", g>>)) \/ Holds(s, Write(<<"goal", g>>)),
           \/ row.salakAmount = goals[g].salakAmount
           \/ Holds(s, Update(<<"salak", goals[g].owner>>)),
           \/ row.fees = goals[g].fees
           \/ /\ tx[s].op = "Withdraw" /\ tx[s].goal = g
              /\ Len(row.fees) = Len(goals[g].fees) + 1
    PROVE  /\ GoalsWritten(s)
           /\ DOMAIN goals' \subseteq GoalId /\ goals' \in [DOMAIN goals' -> Goal]
<1>1. DOMAIN goals' = DOMAIN goals /\ goals'[g] = row OBVIOUS
<1>2. \A x \in DOMAIN goals : x # g => goals'[x] = goals[x] OBVIOUS
<1>3. goals' \in [DOMAIN goals -> Goal] BY DEF TypeOK
<1>4. GoalsWritten(s) BY <1>1, <1>2 DEF GoalsWritten
<1> QED BY <1>1, <1>3, <1>4 DEF TypeOK

(* A purchase adds one holding row, of the identifier it was given.        *)
LEMMA OneHoldingMinted ==
    ASSUME TypeOK, NEW s \in Session, tx[s] \in Transaction, tx[s].op \in MintOps,
           tx[s].holding \in HoldingId, tx[s].holding \notin DOMAIN holdings,
           tx[s].goal # NoGoal =>
                tx[s].goal \in DOMAIN goals /\ goals[tx[s].goal].owner = tx[s].user,
           Mint(tx[s])
    PROVE  /\ HoldingsWritten(s)
           /\ DOMAIN holdings' \subseteq HoldingId
           /\ holdings' \in [DOMAIN holdings' -> Holding]
<1> DEFINE t == tx[s]
           row == [owner |-> t.user, product |-> t.product, amount |-> t.amount,
                   goal |-> t.goal, settled |-> FALSE]
<1>0. row \in Holding BY DEF Holding, Transaction
<1>f. row.owner = t.user /\ row.goal = t.goal OBVIOUS
<1>1. /\ holdings' = [h \in DOMAIN holdings \cup {t.holding} |->
                         IF h = t.holding THEN row ELSE holdings[h]]
  BY DEF Mint
<1> HIDE DEF row
<1>2. /\ DOMAIN holdings' = DOMAIN holdings \cup {t.holding}
      /\ holdings'[t.holding] = row
      /\ \A h \in DOMAIN holdings : holdings'[h] = holdings[h]
  BY <1>1
<1>3. HoldingsWritten(s) BY <1>2, <1>f DEF HoldingsWritten
<1>4. holdings' \in [DOMAIN holdings' -> Holding]
  BY <1>0, <1>1, <1>2 DEF TypeOK
<1> QED BY <1>2, <1>3, <1>4 DEF TypeOK

(* Each commit writes rows it has locked, of the values their types ask.   *)
LEMMA CommitEffect ==
    ASSUME TxInv, NEW s \in Session, Commit(s)
    PROVE  Effect(s) /\ End(s) /\ TypeOK'
<1> DEFINE t == tx[s]
           u == t.user
           g == t.goal
<1>0. TypeOK /\ HoldingRows /\ SessionInv(s) BY DEF TxInv
<1>k. /\ KnownOps = {"CreateGoal", "SettleMaturedHolding", "Deposit", "Withdraw",
                     "BuyFromGoal", "BuySalak"}
      /\ MintOps = {"BuyFromGoal", "BuySalak"}
      /\ GoalOps = {"Deposit", "Withdraw", "BuyFromGoal"}
  BY DEF KnownOps, GoalOps, MintOps
<1>b. balance \in [Account -> Nat] BY <1>0 DEF TypeOK
<1>e. End(s) => /\ tx' \in [Session -> Transaction \cup {Idle}]
                /\ \A o \in Session \ {s} : tx'[o] = tx[o]
  BY <1>0 DEF End, TypeOK
<1>p. /\ goals' = goals => /\ GoalsWritten(s) /\ DOMAIN goals' \subseteq GoalId
                           /\ goals' \in [DOMAIN goals' -> Goal]
      /\ holdings' = holdings => /\ HoldingsWritten(s) /\ DOMAIN holdings' \subseteq HoldingId
                                 /\ holdings' \in [DOMAIN holdings' -> Holding]
      /\ balance' = balance => BalancesMoved(s) /\ balance' \in [Account -> Nat]
  BY <1>0 DEF TypeOK, GoalsWritten, HoldingsWritten, BalancesMoved
<1>a. SUFFICES ASSUME TRUE
               PROVE  /\ End(s) /\ accepted' = accepted
                      /\ BalancesMoved(s) /\ balance' \in [Account -> Nat]
                      /\ GoalsWritten(s) /\ DOMAIN goals' \subseteq GoalId
                      /\ goals' \in [DOMAIN goals' -> Goal]
                      /\ HoldingsWritten(s) /\ DOMAIN holdings' \subseteq HoldingId
                      /\ holdings' \in [DOMAIN holdings' -> Holding]
  BY <1>0, <1>e DEF Effect, TypeOK
<1>m. ASSUME NEW from \in Account, NEW to \in Account, from # to,
             NEW a \in Nat, NEW c \in Nat, balance[from] >= a, Move(from, to, a, c),
             Holds(s, Update(from)), Holds(s, Update(to))
      PROVE  BalancesMoved(s) /\ balance' \in [Account -> Nat]
  BY <1>b, <1>m, MoneyMoves DEF BalancesMoved
<1>1. CASE CommitCreateGoal(s)
  <2>1. /\ t.op = "CreateGoal" /\ ~ Remaining(t) /\ End(s)
        /\ balance' = balance /\ accepted' = accepted /\ holdings' = holdings
    BY <1>1 DEF CommitCreateGoal, Finished
  <2>2. /\ u \in User /\ t.product \in Product /\ t.amount \in Nat /\ CreateInv(t)
    BY <1>k, <2>1, Committing
  <2>3. CASE goals' = goals BY <1>p, <2>1, <2>3
  <2>4. CASE goals' # goals
    <3> DEFINE row == [owner |-> u, product |-> t.product, goalAmount |-> t.amount,
                       savingAmount |-> 0, salakAmount |-> 0, bought |-> 0,
                       isActive |-> TRUE, reached |-> FALSE, fees |-> <<>>]
    <3>1. goals' = [x \in DOMAIN goals \cup {g} |-> IF x = g THEN row ELSE goals[x]]
      BY <1>1, <2>4 DEF CommitCreateGoal
    <3>2. row \in Goal /\ row.fees = <<>> BY <2>2 DEF Goal
    <3> HIDE DEF row
    <3>3. g \in GoalId /\ g \notin DOMAIN goals BY <2>1, <2>2 DEF CreateInv
    <3>4. /\ DOMAIN goals' = DOMAIN goals \cup {g} /\ goals'[g] = row
          /\ \A x \in DOMAIN goals : goals'[x] = goals[x]
      BY <3>1, <3>3
    <3>5. GoalsWritten(s) BY <2>1, <3>2, <3>4 DEF GoalsWritten
    <3>6. goals' \in [DOMAIN goals' -> Goal] BY <1>0, <3>1, <3>2, <3>4 DEF TypeOK
    <3> QED BY <1>0, <1>p, <2>1, <3>3, <3>4, <3>5, <3>6 DEF TypeOK
  <2> QED BY <2>3, <2>4
<1>2. CASE CommitDeposit(s)
  <2> DEFINE n == t.seen.savingAmount + t.amount
             r == t.seen.reached \/ n = t.seen.goalAmount
             row == Deposited(goals[g], n, r)
  <2>1. /\ t.op = "Deposit" /\ ~ Remaining(t) /\ End(s)
        /\ accepted' = accepted /\ holdings' = holdings
        /\ Move(<<"savings", u>>, <<"kapook", u>>, t.amount, t.amount)
        /\ goals' = [goals EXCEPT ![g] = row]
    BY <1>2 DEF CommitDeposit, Finished, Deposited
  <2>2. /\ u \in User /\ t.amount \in Nat /\ g \in DOMAIN goals /\ goals[g] \in Goal
        /\ t.seen = goals[g] /\ Covers(Debited(t), t.amount)
        /\ Holds(s, Update(<<"goal", g>>)) /\ Holds(s, Update(<<"kapook", u>>))
        /\ Holds(s, Update(<<"savings", u>>))
    BY <1>k, <2>1, Committing
  <2>3. balance[<<"savings", u>>] >= t.amount BY <2>1, <2>2 DEF Debited, Covers
  <2>4. n \in Nat /\ r \in BOOLEAN BY <2>2, GoalFields
  <2> HIDE DEF n, r
  <2>5. /\ row \in Goal /\ row.owner = goals[g].owner /\ row.product = goals[g].product
        /\ row.salakAmount = goals[g].salakAmount /\ row.fees = goals[g].fees
    BY <2>2, <2>4, DepositRow
  <2> HIDE DEF row
  <2>6. GoalsWritten(s) /\ DOMAIN goals' \subseteq GoalId /\ goals' \in [DOMAIN goals' -> Goal]
    BY <1>0, <2>1, <2>2, <2>5, OneGoalWritten
  <2>7. BalancesMoved(s) /\ balance' \in [Account -> Nat]
    BY <1>m, <2>1, <2>2, <2>3, ThreeAccounts
  <2> QED BY <1>p, <2>1, <2>6, <2>7
<1>3. CASE CommitWithdraw(s)
  <2> DEFINE charged == Len(t.seen.fees) >= K!freeWithdrawalsPerWindow
             n == t.seen.savingAmount - t.amount
             f == Append(goals[g].fees, charged)
             b == ~ t.seen.reached
             row == Withdrawn(goals[g], n, b, f)
  <2>1. /\ t.op = "Withdraw" /\ ~ Remaining(t) /\ End(s)
        /\ accepted' = accepted /\ holdings' = holdings
        /\ Move(<<"kapook", u>>, <<"savings", u>>,
                t.amount, K!netCredited(t.amount, charged))
        /\ goals' = [goals EXCEPT ![g] = row]
    BY <1>3 DEF CommitWithdraw, Finished, Withdrawn
  <2>2. /\ u \in User /\ t.amount \in Nat /\ t.amount > 0
        /\ g \in DOMAIN goals /\ goals[g] \in Goal
        /\ t.seen = goals[g] /\ Covers(Debited(t), t.amount)
        /\ GoalAccepts(t, goals[g])
        /\ Holds(s, Update(<<"goal", g>>)) /\ Holds(s, Update(<<"kapook", u>>))
        /\ Holds(s, Update(<<"savings", u>>))
    BY <1>k, <2>1, Committing
  <2>3. balance[<<"kapook", u>>] >= t.amount BY <2>1, <2>2 DEF Debited, Covers
  <2>c. K!netCredited(t.amount, charged) \in Nat BY <2>2, NetCredited
  <2>4. /\ n \in Nat /\ b \in BOOLEAN /\ f \in Seq(BOOLEAN)
        /\ Len(f) = Len(goals[g].fees) + 1
    <3>1. t.amount <= Available(goals[g]) BY <2>1, <2>2 DEF GoalAccepts
    <3>2. goals[g].savingAmount \in Nat /\ goals[g].salakAmount \in Nat
          /\ goals[g].reached \in BOOLEAN /\ goals[g].fees \in Seq(BOOLEAN)
      BY <2>2, GoalFields
    <3>3. charged \in BOOLEAN OBVIOUS
    <3> HIDE DEF charged
    <3> QED BY <2>2, <3>1, <3>2, <3>3 DEF Available
  <2> HIDE DEF n, b, f, charged
  <2>5. /\ row \in Goal /\ row.owner = goals[g].owner /\ row.product = goals[g].product
        /\ row.salakAmount = goals[g].salakAmount /\ row.fees = f
    <3>1. \A x \in Goal, i \in Nat, c \in BOOLEAN, e \in Seq(BOOLEAN) :
             LET new == Withdrawn(x, i, c, e)
             IN  /\ new \in Goal /\ new.owner = x.owner /\ new.product = x.product
                 /\ new.salakAmount = x.salakAmount /\ new.fees = e
      BY WithdrawRow
    <3> QED BY <2>2, <2>4, <3>1
  <2> HIDE DEF row
  <2>6. GoalsWritten(s) /\ DOMAIN goals' \subseteq GoalId /\ goals' \in [DOMAIN goals' -> Goal]
    BY <1>0, <2>1, <2>2, <2>4, <2>5, OneGoalWritten
  <2>7. BalancesMoved(s) /\ balance' \in [Account -> Nat]
    BY <1>m, <2>1, <2>2, <2>3, <2>c, ThreeAccounts
  <2> QED BY <1>p, <2>1, <2>6, <2>7
<1>4. CASE CommitBuyFromGoal(s)
  <2> DEFINE n == t.seen.salakAmount + t.amount
             m == goals[g].bought + t.amount
             b == n < t.seen.goalAmount
             row == Spent(goals[g], n, m, b)
  <2>1. /\ t.op = "BuyFromGoal" /\ ~ Remaining(t) /\ End(s)
        /\ accepted' = accepted /\ Mint(t)
        /\ Move(<<"kapook", u>>, <<"salak", u>>, t.amount, t.amount)
        /\ goals' = [goals EXCEPT ![g] = row]
    BY <1>4 DEF CommitBuyFromGoal, Finished, Spent
  <2>2. /\ t \in Transaction /\ u \in User /\ t.amount \in Nat
        /\ g \in DOMAIN goals /\ goals[g] \in Goal /\ goals[g].owner = u
        /\ t.seen = goals[g] /\ Covers(Debited(t), t.amount) /\ MintInv(t)
        /\ Holds(s, Update(<<"goal", g>>)) /\ Holds(s, Update(<<"kapook", u>>))
        /\ Holds(s, Update(<<"salak", u>>))
    BY <1>k, <2>1, Committing
  <2>3. balance[<<"kapook", u>>] >= t.amount BY <2>1, <2>2 DEF Debited, Covers
  <2>4. n \in Nat /\ m \in Nat /\ b \in BOOLEAN
    <3>1. goals[g].salakAmount \in Nat /\ goals[g].bought \in Nat BY <2>2, GoalFields
    <3> QED BY <2>2, <3>1
  <2> HIDE DEF n, m, b
  <2>5. /\ row \in Goal /\ row.owner = goals[g].owner /\ row.product = goals[g].product
        /\ row.fees = goals[g].fees
    <3>1. \A x \in Goal, i \in Nat, j \in Nat, c \in BOOLEAN :
             LET new == Spent(x, i, j, c)
             IN  /\ new \in Goal /\ new.owner = x.owner /\ new.product = x.product
                 /\ new.fees = x.fees
      BY BuyRow
    <3> QED BY <2>2, <2>4, <3>1, ZenonT(60)
  <2> HIDE DEF row
  <2>6. GoalsWritten(s) /\ DOMAIN goals' \subseteq GoalId /\ goals' \in [DOMAIN goals' -> Goal]
    BY <1>0, <2>1, <2>2, <2>5, OneGoalWritten
  <2>7. BalancesMoved(s) /\ balance' \in [Account -> Nat]
    BY <1>m, <2>1, <2>2, <2>3, ThreeAccounts
  <2>8. t.holding \in HoldingId /\ t.holding \notin DOMAIN holdings
    BY <1>k, <2>1, <2>2 DEF MintInv
  <2>9. /\ HoldingsWritten(s) /\ DOMAIN holdings' \subseteq HoldingId
        /\ holdings' \in [DOMAIN holdings' -> Holding]
    BY <1>0, <1>k, <2>1, <2>2, <2>8, OneHoldingMinted
  <2> QED BY <2>1, <2>6, <2>7, <2>9
<1>5. CASE CommitBuySalak(s)
  <2>1. /\ t.op = "BuySalak" /\ ~ Remaining(t) /\ End(s)
        /\ accepted' = accepted /\ goals' = goals /\ Mint(t)
        /\ Move(<<"savings", u>>, <<"salak", u>>, t.amount, t.amount)
    BY <1>5 DEF CommitBuySalak, Finished
  <2>2. /\ t \in Transaction /\ u \in User /\ t.amount \in Nat
        /\ Covers(Debited(t), t.amount) /\ MintInv(t)
        /\ Holds(s, Update(<<"savings", u>>))
        /\ Holds(s, Update(<<"salak", u>>))
    BY <1>k, <2>1, Committing
  <2>3. balance[<<"savings", u>>] >= t.amount BY <2>1, <2>2 DEF Debited, Covers
  <2>7. BalancesMoved(s) /\ balance' \in [Account -> Nat]
    BY <1>m, <2>1, <2>2, <2>3, ThreeAccounts
  <2>8. t.holding \in HoldingId /\ t.holding \notin DOMAIN holdings
    BY <1>k, <2>1, <2>2 DEF MintInv
  <2>g. t.goal = NoGoal BY <1>k, <2>1, <2>2 DEF MintInv
  <2>9. /\ HoldingsWritten(s) /\ DOMAIN holdings' \subseteq HoldingId
        /\ holdings' \in [DOMAIN holdings' -> Holding]
    BY <1>0, <1>k, <2>1, <2>2, <2>8, <2>g, OneHoldingMinted
  <2> QED BY <1>p, <2>1, <2>7, <2>9
<1>6. CASE CommitSettleMaturedHolding(s)
  <2> DEFINE interest == Rules[t.product].interest * (t.amount \div Rules[t.product].unit)
             n == IF t.seen.salakAmount > t.amount THEN t.seen.salakAmount - t.amount ELSE 0
             row == Settled(goals[g], n)
             hrow == [holdings[t.holding] EXCEPT !.settled = TRUE]
  <2>1. /\ t.op = "SettleMaturedHolding" /\ ~ Remaining(t) /\ End(s)
        /\ accepted' = accepted
        /\ Move(<<"salak", u>>, <<"savings", u>>, t.amount, t.amount + interest)
        /\ holdings' = [holdings EXCEPT ![t.holding] = hrow]
        /\ goals' = IF g = NoGoal THEN goals ELSE [goals EXCEPT ![g] = row]
    BY <1>6 DEF CommitSettleMaturedHolding, Finished, Settled
  <2>2. /\ u \in User /\ t.amount \in Nat /\ t.product \in Product
        /\ Covers(Debited(t), t.amount) /\ SettleInv(t)
        /\ Holds(s, Update(<<"savings", u>>)) /\ Holds(s, Update(<<"salak", u>>))
        /\ Holds(s, Update(<<"holding", t.holding>>))
        /\ g # NoGoal => /\ Holds(s, Write(<<"goal", g>>))
                         /\ g \in DOMAIN goals /\ goals[g] \in Goal
                         /\ goals[g].owner = u
                         /\ t.seen.salakAmount = goals[g].salakAmount
    BY <1>k, <2>1, Committing
  <2>3. balance[<<"salak", u>>] >= t.amount BY <2>1, <2>2 DEF Debited, Covers
  <2>i. interest \in Nat
    <3>1. Rules[t.product] \in K!RuleSet BY <2>2, RulesAssumption
    <3>2. Rules[t.product].interest \in Nat /\ Rules[t.product].unit \in Nat \ {0}
      BY <3>1 DEF K!RuleSet
    <3>3. t.amount \div Rules[t.product].unit \in Nat BY <2>2, <3>2
    <3> QED BY <3>2, <3>3
  <2> HIDE DEF interest
  <2>7. BalancesMoved(s) /\ balance' \in [Account -> Nat]
    <3>1. t.amount + interest \in Nat BY <2>2, <2>i
    <3> QED BY <1>m, <2>1, <2>2, <2>3, <3>1, ThreeAccounts
  <2>6. GoalsWritten(s) /\ DOMAIN goals' \subseteq GoalId /\ goals' \in [DOMAIN goals' -> Goal]
    <3>1. CASE g = NoGoal BY <1>p, <2>1, <3>1
    <3>2. CASE g # NoGoal
      <4>1. n \in Nat
        <5>1. t.seen.salakAmount \in Nat BY <2>2, <3>2, GoalFields
        <5> QED BY <2>2, <5>1
      <4> HIDE DEF n
      <4>2. /\ row \in Goal /\ row.owner = goals[g].owner /\ row.product = goals[g].product
            /\ row.fees = goals[g].fees
        BY <2>2, <3>2, <4>1, SettleRow
      <4>3. goals' = [goals EXCEPT ![g] = row] BY <2>1, <3>2
      <4> HIDE DEF row
      <4> QED BY <1>0, <2>2, <3>2, <4>2, <4>3, OneGoalWritten
    <3> QED BY <3>1, <3>2
  <2>9. /\ HoldingsWritten(s) /\ DOMAIN holdings' \subseteq HoldingId
        /\ holdings' \in [DOMAIN holdings' -> Holding]
    <3>1. t.holding \in DOMAIN holdings BY <2>1, <2>2 DEF SettleInv
    <3>2. holdings[t.holding] \in Holding BY <1>0, <3>1 DEF TypeOK
    <3>3. /\ hrow \in Holding /\ hrow.owner = holdings[t.holding].owner
          /\ hrow.product = holdings[t.holding].product
          /\ hrow.amount = holdings[t.holding].amount
          /\ hrow.goal = holdings[t.holding].goal
      BY <3>2 DEF Holding
    <3> HIDE DEF hrow
    <3>4. /\ DOMAIN holdings' = DOMAIN holdings /\ holdings'[t.holding] = hrow
          /\ \A h \in DOMAIN holdings : h # t.holding => holdings'[h] = holdings[h]
          /\ holdings' \in [DOMAIN holdings -> Holding]
      BY <1>0, <2>1, <3>1, <3>3 DEF TypeOK
    <3>5. HoldingsWritten(s) BY <2>2, <3>3, <3>4 DEF HoldingsWritten
    <3> QED BY <1>0, <3>4, <3>5 DEF TypeOK
  <2> QED BY <2>1, <2>6, <2>7, <2>9
<1> QED BY <1>1, <1>2, <1>3, <1>4, <1>5, <1>6 DEF Commit

(* So a commit keeps the invariant.                                        *)
LEMMA CommitKeeps ==
    ASSUME TxInv, NEW s \in Session, Commit(s)
    PROVE  TxInv'
BY CommitEffect, SessionEnds

-----------------------------------------------------------------------------
(***************************************************************************)
(* The invariant.                                                          *)
(***************************************************************************)
(* A user who accepts the terms disturbs nobody, nor does a stutter.       *)
LEMMA NothingRuns ==
    ASSUME TxInv, accepted \subseteq accepted', accepted' \subseteq User,
           UNCHANGED <<balance, goals, holdings, tx>>
    PROVE  TxInv'
<1>1. TypeOK' BY DEF TxInv, TypeOK
<1>2. LocksExclusive' BY DEF TxInv, LocksExclusive
<1>3. HoldingRows' BY DEF TxInv, HoldingRows
<1>4. FreshIds' BY DEF TxInv, FreshIds
<1>5. WithdrawalsBounded' BY DEF TxInv, WithdrawalsBounded, Withdrawing
<1>6. ASSUME NEW s \in Session PROVE SessionInv(s)'
  <2> SUFFICES ASSUME tx[s] # Idle PROVE SessionInv(s)'
    BY DEF SessionInv
  <2>0. /\ tx[s].op \in KnownOps /\ tx[s].done <= Len(Statements(tx[s]))
        /\ CreateInv(tx[s]) /\ GoalOpInv(tx[s]) /\ DebitInv(tx[s])
        /\ MintInv(tx[s]) /\ SettleInv(tx[s])
    BY DEF TxInv, SessionInv
  <2>1. CreateInv(tx[s])' BY <2>0 DEF CreateInv
  <2>2. GoalOpInv(tx[s])' BY <2>0 DEF GoalOpInv, GoalAccepts, Available
  <2>3. DebitInv(tx[s])' BY <2>0 DEF DebitInv, Covers
  <2>4. MintInv(tx[s])' BY <2>0 DEF MintInv
  <2>5. SettleInv(tx[s])' BY <2>0 DEF SettleInv
  <2> QED BY <2>0, <2>1, <2>2, <2>3, <2>4, <2>5 DEF SessionInv
<1> QED BY <1>1, <1>2, <1>3, <1>4, <1>5, <1>6 DEF TxInv

(* The invariant is inductive.                                             *)
LEMMA TxInvInit == Init => TxInv
<1> SUFFICES ASSUME Init PROVE TxInv OBVIOUS
<1>i. \A s \in Session : tx[s] = Idle /\ tx[s].done = 0 /\ tx[s].op = "idle"
  BY DEF Init, Idle
<1>d. DOMAIN goals = {} /\ DOMAIN holdings = {} BY DEF Init
<1>1. TypeOK
  <2>1. balance \in [Account -> Nat] BY AmountAssumption DEF Init
  <2>2. tx \in [Session -> Transaction \cup {Idle}] BY DEF Init
  <2>3. goals \in [DOMAIN goals -> Goal] /\ holdings \in [DOMAIN holdings -> Holding]
    BY DEF Init
  <2> QED BY <1>d, <2>1, <2>2, <2>3 DEF TypeOK, Init
<1>2. LocksExclusive
  <2>1. \A s \in Session : 1..tx[s].done = {} BY <1>i
  <2> QED BY <2>1 DEF LocksExclusive
<1>3. \A s \in Session : SessionInv(s) BY <1>i DEF SessionInv
<1>4. HoldingRows /\ WithdrawalsBounded BY <1>d DEF HoldingRows, WithdrawalsBounded
<1>5. FreshIds BY <1>i DEF FreshIds, MintOps
<1> QED BY <1>1, <1>2, <1>3, <1>4, <1>5 DEF TxInv

(* Whatever a session does next.                                           *)
LEMMA TxInvStep == TxInv /\ [Next]_vars => TxInv'
<1> SUFFICES ASSUME TxInv, [Next]_vars PROVE TxInv' OBVIOUS
<1>0. TypeOK BY DEF TxInv
<1>1. ASSUME NEW u \in User, Accept(u) PROVE TxInv'
  BY <1>0, <1>1, NothingRuns DEF Accept, TypeOK
<1>2. ASSUME NEW s \in Session, Request(s) PROVE TxInv' BY <1>2, RequestKeeps
<1>3. ASSUME NEW s \in Session, RunStatement(s) PROVE TxInv' BY <1>3, RunStatementKeeps
<1>4. ASSUME NEW s \in Session, Commit(s) PROVE TxInv' BY <1>4, CommitKeeps
<1>5. ASSUME NEW s \in Session, Fail(s) PROVE TxInv' BY <1>5, RollbackKeeps DEF Fail
<1>6. ASSUME NEW s \in Session, BreakDeadlock(s) PROVE TxInv'
  BY <1>6, RollbackKeeps DEF BreakDeadlock
<1>7. CASE UNCHANGED vars BY <1>0, <1>7, NothingRuns DEF vars, TypeOK
<1> QED BY <1>1, <1>2, <1>3, <1>4, <1>5, <1>6, <1>7 DEF Next

(* Locks exclude each other, and what a session knows of its rows is true. *)
THEOREM TransactionInvariant == Spec => []TxInv
BY TxInvInit, TxInvStep, PTL DEF Spec

(* Whatever the interleaving, the rows stay what the columns allow: no     *)
(* account is overdrawn, no goal saves a negative amount.                  *)
THEOREM TxTypeCorrect == Spec => []TypeOK
<1>1. TxInv => TypeOK BY DEF TxInv
<1> QED BY <1>1, TransactionInvariant, PTL

(* SettleMaturedHolding reads the goal without a lock, and overwrites its  *)
(* salak amount with what it computed: still right, because it holds the   *)
(* customer's salak account by then.                                       *)
THEOREM SettlementReadIsSafe == Spec => []UnlockedReadStaysTrue
<1>1. TxInv => UnlockedReadStaysTrue
  <2> SUFFICES ASSUME TxInv, NEW s \in InFlight("SettleMaturedHolding"), tx[s].done >= 4
               PROVE  tx[s].seen.salakAmount = goals[tx[s].goal].salakAmount
    BY DEF UnlockedReadStaysTrue
  <2> DEFINE t == tx[s]
  <2>1. s \in Session /\ t.op = "SettleMaturedHolding" BY DEF InFlight
  <2>2. t # Idle /\ t.done \in Nat
    BY <2>1, KnownIsBusy, SessionFields DEF TxInv, KnownOps
  <2>3. SettleInv(t) /\ t.done <= Len(Statements(t)) BY <2>1, <2>2 DEF TxInv, SessionInv
  <2>4. Len(Statements(t)) = IF t.goal = NoGoal THEN 3 ELSE 6 BY <2>1, StatementTable
  <2>5. t.goal # NoGoal
    <3>1. CASE t.goal = NoGoal
      <4>1. t.done <= 3 BY <2>3, <2>4, <3>1
      <4> QED BY <2>2, <4>1
    <3> QED BY <3>1
  <2> QED BY <2>1, <2>3, <2>5 DEF SettleInv
<1> QED BY <1>1, TransactionInvariant, PTL

-----------------------------------------------------------------------------
(***************************************************************************)
(* Deadlocks.  Settlements aside, every request takes its rows in one      *)
(* order: goal, kapook account, savings account, ticket sequence, salak    *)
(* account; only a purchase takes a row twice, its salak account, first    *)
(* the share of the INSERT, then the update.                               *)
(***************************************************************************)
OrderedOps == KnownOps \ {"SettleMaturedHolding"}

(* The place of t's i-th statement in that order.                          *)
Rank(t, i) ==
    IF t.op = "CreateGoal" THEN 2
    ELSE IF t.op = "BuySalak" THEN i + 2
    ELSE IF t.op = "BuyFromGoal" /\ i > 2 THEN i + 1
    ELSE i

Kind == <<"goal", "kapook", "savings", "tickets", "salak", "salak">>

(* A statement's place tells what row it takes, and how.                   *)
LEMMA RankTellsRow ==
    ASSUME NEW t, t.op \in OrderedOps, NEW i \in 1..Len(Statements(t))
    PROVE  LET st == Statements(t)[i]
           IN  /\ Rank(t, i) \in 1..6
               /\ st.row[1] = Kind[Rank(t, i)]
               /\ Rank(t, i) >= 5 => st.row = <<"salak", t.user>>
               /\ Rank(t, i) = 5 => st.mode = "share"
               /\ Rank(t, i) = 6 =>
                    /\ i \in {4, 5}
                    /\ Statements(t)[i - 2] = Update(<<"tickets", t.product>>)
<1> DEFINE L == Statements(t)
<1>k. /\ Kind[1] = "goal" /\ Kind[2] = "kapook" /\ Kind[3] = "savings"
      /\ Kind[4] = "tickets" /\ Kind[5] = "salak" /\ Kind[6] = "salak"
  BY DEF Kind
<1>r. ASSUME NEW a, NEW b
      PROVE  /\ Update(<<a, b>>).row = <<a, b>> /\ Share(<<a, b>>).row = <<a, b>>
             /\ <<a, b>>[1] = a
             /\ Share(<<a, b>>).mode = "share"
  BY DEF Update, Share
<1>1. CASE t.op = "CreateGoal"
  <2>1. Len(L) = 1 /\ L[1] = Share(<<"kapook", t.user>>) BY <1>1, StatementTable
  <2>2. i = 1 BY <2>1
  <2>3. Rank(t, i) = 2 BY <1>1 DEF Rank
  <2> QED BY <1>k, <1>r, <2>1, <2>2, <2>3
<1>2. CASE t.op \in {"Deposit", "Withdraw"}
  <2>1. /\ Len(L) = 3 /\ L[1] = Update(<<"goal", t.goal>>)
        /\ L[2] = Update(<<"kapook", t.user>>) /\ L[3] = Update(<<"savings", t.user>>)
    BY <1>2, StatementTable
  <2>2. i = 1 \/ i = 2 \/ i = 3 BY <2>1
  <2>3. Rank(t, i) = i BY <1>2 DEF Rank
  <2> QED BY <1>k, <1>r, <2>1, <2>2, <2>3
<1>3. CASE t.op = "BuyFromGoal"
  <2>1. /\ Len(L) = 5 /\ L[1] = Update(<<"goal", t.goal>>)
        /\ L[2] = Update(<<"kapook", t.user>>) /\ L[3] = Update(<<"tickets", t.product>>)
        /\ L[4] = Share(<<"salak", t.user>>) /\ L[5] = Update(<<"salak", t.user>>)
    BY <1>3, StatementTable
  <2>2. i = 1 \/ i = 2 \/ i = 3 \/ i = 4 \/ i = 5 BY <2>1
  <2>3. Rank(t, i) = IF i > 2 THEN i + 1 ELSE i BY <1>3 DEF Rank
  <2>4. CASE i = 1 BY <1>k, <1>r, <2>1, <2>3, <2>4
  <2>5. CASE i = 2 BY <1>k, <1>r, <2>1, <2>3, <2>5
  <2>6. CASE i = 3 BY <1>k, <1>r, <2>1, <2>3, <2>6
  <2>7. CASE i = 4 BY <1>k, <1>r, <2>1, <2>3, <2>7
  <2>8. CASE i = 5 BY <1>k, <1>r, <2>1, <2>3, <2>8
  <2> QED BY <2>2, <2>4, <2>5, <2>6, <2>7, <2>8
<1>4. CASE t.op = "BuySalak"
  <2>1. /\ Len(L) = 4 /\ L[1] = Update(<<"savings", t.user>>)
        /\ L[2] = Update(<<"tickets", t.product>>)
        /\ L[3] = Share(<<"salak", t.user>>) /\ L[4] = Update(<<"salak", t.user>>)
    BY <1>4, StatementTable
  <2>2. i = 1 \/ i = 2 \/ i = 3 \/ i = 4 BY <2>1
  <2>3. Rank(t, i) = i + 2 BY <1>4 DEF Rank
  <2>4. CASE i = 1 BY <1>k, <1>r, <2>1, <2>3, <2>4
  <2>5. CASE i = 2 BY <1>k, <1>r, <2>1, <2>3, <2>5
  <2>6. CASE i = 3 BY <1>k, <1>r, <2>1, <2>3, <2>6
  <2>7. CASE i = 4 BY <1>k, <1>r, <2>1, <2>3, <2>7
  <2> QED BY <2>2, <2>4, <2>5, <2>6, <2>7
<1> QED BY <1>1, <1>2, <1>3, <1>4 DEF OrderedOps, KnownOps, GoalOps, MintOps

(* Every list climbs.                                                      *)
LEMMA RankClimbs ==
    ASSUME NEW t, t.op \in OrderedOps, NEW i \in Nat, NEW j \in Nat,
           1 <= i, i < j, j <= Len(Statements(t))
    PROVE  Rank(t, i) < Rank(t, j)
<1>1. t.op # "CreateGoal"
  <2> SUFFICES ASSUME t.op = "CreateGoal" PROVE FALSE OBVIOUS
  <2>1. Len(Statements(t)) = 1 BY StatementTable
  <2>2. j <= 1 BY <2>1
  <2> QED BY <2>2
<1> QED BY <1>1 DEF Rank

(* Who waits is below whom it waits for, unless both ask for one customer's*)
(* salak account.                                                          *)
LEMMA WaitingClimbs ==
    ASSUME TxInv, NEW s \in Session, NEW o \in WaitsFor(s), Remaining(tx[o]),
           tx[s].op \in OrderedOps, tx[o].op \in OrderedOps
    PROVE  \/ Rank(tx[s], tx[s].done + 1) < Rank(tx[o], tx[o].done + 1)
           \/ tx[s].user = tx[o].user /\ tx[s].product # tx[o].product
<1> DEFINE t == tx[s]
           q == tx[o]
           n == t.done + 1
           m == q.done + 1
<1>0. /\ o \in Session \ {s} /\ Remaining(t)
      /\ TypeOK /\ LocksExclusive
  BY DEF WaitsFor, TxInv
<1>1. PICK i \in 1..q.done : Conflict(Statements(t)[n], Statements(q)[i])
  BY DEF WaitsFor
<1>2. /\ t.done \in Nat /\ q.done \in Nat
      /\ Len(Statements(t)) \in Nat /\ Len(Statements(q)) \in Nat
  BY <1>0, SessionFields, StatementTable
<1>3. /\ n \in 1..Len(Statements(t)) /\ m \in 1..Len(Statements(q))
      /\ i \in 1..Len(Statements(q)) /\ i < m
  BY <1>0, <1>2 DEF Remaining
<1>4. Rank(q, i) < Rank(q, m) BY <1>3, RankClimbs
<1> DEFINE a == Rank(t, n)
           b == Rank(q, i)
           c == Rank(q, m)
<1>5. /\ Statements(t)[n].row = Statements(q)[i].row
      /\ ~ (Statements(t)[n].mode = "share" /\ Statements(q)[i].mode = "share")
  BY <1>1 DEF Conflict
<1>6. /\ a \in 1..6 /\ b \in 1..6 /\ c \in 1..6
      /\ Kind[a] = Kind[b]
      /\ a >= 5 => Statements(t)[n].row = <<"salak", t.user>>
      /\ b >= 5 => Statements(q)[i].row = <<"salak", q.user>>
      /\ a = 5 => Statements(t)[n].mode = "share"
      /\ b = 5 => Statements(q)[i].mode = "share"
  <2>1. /\ a \in 1..6 /\ Statements(t)[n].row[1] = Kind[a]
        /\ a >= 5 => Statements(t)[n].row = <<"salak", t.user>>
        /\ a = 5 => Statements(t)[n].mode = "share"
    BY <1>3, RankTellsRow
  <2>2. /\ b \in 1..6 /\ Statements(q)[i].row[1] = Kind[b]
        /\ b >= 5 => Statements(q)[i].row = <<"salak", q.user>>
        /\ b = 5 => Statements(q)[i].mode = "share"
    BY <1>3, RankTellsRow
  <2>3. c \in 1..6 BY <1>3, RankTellsRow
  <2> HIDE DEF a, b, c, n
  <2> QED BY <1>5, <2>1, <2>2, <2>3
<1>7. a = 6 => n \in {4, 5} /\ Statements(t)[n - 2] = Update(<<"tickets", t.product>>)
  BY <1>3, RankTellsRow
<1>8. c = 6 => m \in {4, 5} /\ Statements(q)[m - 2] = Update(<<"tickets", q.product>>)
  BY <1>3, RankTellsRow
<1> HIDE DEF a, b, c
<1>9. a = b \/ (a \in {5, 6} /\ b \in {5, 6})
  BY <1>6 DEF Kind
<1>10. CASE a < c BY <1>10 DEF a, c
<1>11. CASE ~ (a < c)
  <2>1. b < c BY <1>4 DEF b, c
  <2>2. a = 6 /\ b = 5 /\ c = 6 BY <1>5, <1>6, <1>9, <1>11, <2>1
  <2>3. t.user = q.user BY <1>5, <1>6, <2>2
  <2>4. /\ n - 2 \in 1..t.done /\ m - 2 \in 1..q.done
        /\ Statements(t)[n - 2] = Update(<<"tickets", t.product>>)
        /\ Statements(q)[m - 2] = Update(<<"tickets", q.product>>)
    <3>1. n \in {4, 5} /\ m \in {4, 5} BY <1>7, <1>8, <2>2
    <3>2. n - 2 \in 1..t.done BY <1>2, <3>1, SMTT(30)
    <3>3. m - 2 \in 1..q.done BY <1>2, <3>1, SMTT(30)
    <3> QED BY <1>7, <1>8, <2>2, <3>2, <3>3
  <2>5. Holds(s, Update(<<"tickets", t.product>>)) /\ Holds(o, Update(<<"tickets", q.product>>))
    BY <2>4 DEF Holds, Taken
  <2>6. t.product # q.product BY <1>0, <2>5, UpdateExcludes
  <2> QED BY <2>3, <2>6
<1> QED BY <1>10, <1>11

(* So without a settlement, a circle of waiting sessions passes through    *)
(* the salak account of a customer who buys two products at once.          *)
THEOREM DeadlocksExplained == Spec => []DeadlocksNeedSettlementOrTwoProducts
<1>1. TxInv => DeadlocksNeedSettlementOrTwoProducts
  <2> SUFFICES ASSUME TxInv, NEW D \in SUBSET Session, Cycle(D),
                      \A s \in D : tx[s].op # "SettleMaturedHolding",
                      \A s, o \in D : ~ (/\ tx[s].user = tx[o].user
                                         /\ tx[s].product # tx[o].product)
               PROVE  FALSE
    BY DEF DeadlocksNeedSettlementOrTwoProducts
  <2> DEFINE r(s) == Rank(tx[s], tx[s].done + 1)
  <2>1. D # {} /\ \A s \in D : WaitsFor(s) \cap D # {} BY DEF Cycle, DeadlockedSet
  <2>2. ASSUME NEW s \in D
        PROVE  Remaining(tx[s]) /\ tx[s].op \in OrderedOps /\ r(s) \in 1..6
    <3>1. Remaining(tx[s]) BY <2>1 DEF WaitsFor
    <3>2. tx[s].op \in KnownOps
      <4>1. tx[s].op \notin KnownOps => Len(Statements(tx[s])) = 0 BY StatementTable
      <4>2. tx[s].done \in Nat BY SessionFields DEF TxInv
      <4> QED BY <3>1, <4>1, <4>2 DEF Remaining
    <3>3. tx[s].op \in OrderedOps BY <3>2 DEF OrderedOps
    <3>4. tx[s].done + 1 \in 1..Len(Statements(tx[s]))
      <4>1. tx[s].done \in Nat BY SessionFields DEF TxInv
      <4>2. Len(Statements(tx[s])) \in Nat BY StatementTable
      <4> QED BY <3>1, <4>1, <4>2 DEF Remaining
    <3> QED BY <3>1, <3>3, <3>4, RankTellsRow
  <2>3. ASSUME NEW s \in D PROVE \E o \in D : r(s) < r(o)
    <3>1. PICK o \in D : o \in WaitsFor(s) BY <2>1
    <3>2. r(s) < r(o) BY <2>2, <3>1, WaitingClimbs
    <3> QED BY <3>2
  <2> HIDE DEF r
  <2>4. PICK s1 \in D : TRUE BY <2>1
  <2>5. PICK s2 \in D : r(s1) < r(s2) BY <2>3
  <2>6. PICK s3 \in D : r(s2) < r(s3) BY <2>3
  <2>7. PICK s4 \in D : r(s3) < r(s4) BY <2>3
  <2>8. PICK s5 \in D : r(s4) < r(s5) BY <2>3
  <2>9. PICK s6 \in D : r(s5) < r(s6) BY <2>3
  <2>10. PICK s7 \in D : r(s6) < r(s7) BY <2>3
  <2>11. /\ r(s1) \in 1..6 /\ r(s2) \in 1..6 /\ r(s3) \in 1..6 /\ r(s4) \in 1..6
         /\ r(s5) \in 1..6 /\ r(s6) \in 1..6 /\ r(s7) \in 1..6
    BY <2>2
  <2> QED BY <2>5, <2>6, <2>7, <2>8, <2>9, <2>10, <2>11
<1> QED BY <1>1, TransactionInvariant, PTL

-----------------------------------------------------------------------------
(***************************************************************************)
(* The refinement.  What Kapook sees: the balances by kind of account, and *)
(* the rows as Kapook writes them.                                         *)
(***************************************************************************)
Balances(kind) == [u \in User |-> balance[<<kind, u>>]]

Bank == [u \in User |-> StartingBalance - balance[<<"savings", u>>]
                            - balance[<<"kapook", u>>] - balance[<<"salak", u>>]]

GoalRows == [g \in DOMAIN goals |-> AsGoal(goals[g])]

HoldingRowsSeen == [h \in DOMAIN holdings |-> AsHolding(holdings[h])]

(* A goal row of Kapook, by its columns.                                   *)
Row(owner, product, goalAmount, savingAmount, salakAmount, bought, isActive,
    goalReachedAt, withdrawals) ==
    [owner |-> owner, product |-> product, goalAmount |-> goalAmount,
     savingAmount |-> savingAmount, salakAmount |-> salakAmount,
     bought |-> bought, isActive |-> isActive,
     goalReachedAt |-> goalReachedAt,
     deferredUntil |-> -1, attempts |-> 0, createdAt |-> 0,
     withdrawals |-> withdrawals]

Stamp(reached) == IF reached THEN 0 ELSE -1

Withdrawals(fees) == [i \in 1..Len(fees) |-> [at |-> 0, withFee |-> fees[i]]]

(* Every goal row is one.                                                  *)
LEMMA GoalAsRow ==
    ASSUME NEW row
    PROVE  AsGoal(row) = Row(row.owner, row.product, row.goalAmount, row.savingAmount,
                             row.salakAmount, row.bought, row.isActive,
                             Stamp(row.reached), Withdrawals(row.fees))
BY DEF AsGoal, Row, Stamp, Withdrawals

(* Each row a commit writes is the row Kapook writes: a deposit.           *)
LEMMA AsDeposited ==
    ASSUME NEW row \in Goal, NEW n \in Nat, NEW r \in BOOLEAN
    PROVE  AsGoal(Deposited(row, n, r)) =
             [AsGoal(row) EXCEPT !.savingAmount = n, !.goalReachedAt = Stamp(r)]
<1> DEFINE old == AsGoal(row)
           one == [old EXCEPT !.savingAmount = n]
           w == Withdrawals(row.fees)
<1>1. AsGoal(Deposited(row, n, r)) =
        Row(row.owner, row.product, row.goalAmount, n, row.salakAmount, row.bought,
            row.isActive, Stamp(r), w)
  BY GoalAsRow, DepositRow
<1>0. old = Row(row.owner, row.product, row.goalAmount, row.savingAmount, row.salakAmount,
                row.bought, row.isActive, Stamp(row.reached), Withdrawals(row.fees))
  BY GoalAsRow
<1> HIDE DEF old
<1>2. one = Row(row.owner, row.product, row.goalAmount, n, row.salakAmount, row.bought,
                row.isActive, Stamp(row.reached), w)
  BY <1>0 DEF Row
<1>4. [old EXCEPT !.savingAmount = n, !.goalReachedAt = Stamp(r)] =
        [one EXCEPT !.goalReachedAt = Stamp(r)]
  OBVIOUS
<1> HIDE DEF one
<1>3. [one EXCEPT !.goalReachedAt = Stamp(r)] =
        Row(row.owner, row.product, row.goalAmount, n, row.salakAmount, row.bought,
            row.isActive, Stamp(r), w)
  BY <1>2 DEF Row
<1> QED BY <1>1, <1>3, <1>4 DEF old

(* A withdrawal.                                                           *)
LEMMA AsWithdrawn ==
    ASSUME NEW row \in Goal, NEW n \in Nat, NEW b \in BOOLEAN, NEW f \in Seq(BOOLEAN)
    PROVE  AsGoal(Withdrawn(row, n, b, f)) =
             [AsGoal(row) EXCEPT !.savingAmount = n, !.isActive = b,
                                 !.withdrawals = Withdrawals(f)]
<1> DEFINE old == AsGoal(row)
           one == [old EXCEPT !.savingAmount = n]
           two == [one EXCEPT !.isActive = b]
           new == Withdrawn(row, n, b, f)
<1>1. AsGoal(new) =
        Row(row.owner, row.product, row.goalAmount, n, row.salakAmount, row.bought,
            b, Stamp(row.reached), Withdrawals(f))
  <2>1. AsGoal(new) = Row(new.owner, new.product, new.goalAmount, new.savingAmount,
                          new.salakAmount, new.bought, new.isActive,
                          Stamp(new.reached), Withdrawals(new.fees))
    BY GoalAsRow
  <2>2. /\ new.owner = row.owner /\ new.product = row.product
        /\ new.goalAmount = row.goalAmount /\ new.savingAmount = n
        /\ new.salakAmount = row.salakAmount /\ new.bought = row.bought
        /\ new.isActive = b /\ new.reached = row.reached /\ new.fees = f
    BY WithdrawRow
  <2> HIDE DEF new
  <2> QED BY <2>1, <2>2
<1>0. old = Row(row.owner, row.product, row.goalAmount, row.savingAmount, row.salakAmount,
                row.bought, row.isActive, Stamp(row.reached), Withdrawals(row.fees))
  BY GoalAsRow
<1> HIDE DEF old
<1>2. one = Row(row.owner, row.product, row.goalAmount, n, row.salakAmount, row.bought,
                row.isActive, Stamp(row.reached), Withdrawals(row.fees))
  BY <1>0 DEF Row
<1>5. [old EXCEPT !.savingAmount = n, !.isActive = b, !.withdrawals = Withdrawals(f)] =
        [two EXCEPT !.withdrawals = Withdrawals(f)]
  OBVIOUS
<1> HIDE DEF one
<1>3. two = Row(row.owner, row.product, row.goalAmount, n, row.salakAmount, row.bought,
                b, Stamp(row.reached), Withdrawals(row.fees))
  BY <1>2 DEF Row
<1> HIDE DEF two
<1>4. [two EXCEPT !.withdrawals = Withdrawals(f)] =
        Row(row.owner, row.product, row.goalAmount, n, row.salakAmount, row.bought,
            b, Stamp(row.reached), Withdrawals(f))
  BY <1>3 DEF Row
<1> QED BY <1>1, <1>4, <1>5 DEF old

(* A purchase.                                                             *)
LEMMA AsSpent ==
    ASSUME NEW row \in Goal, NEW n \in Nat, NEW m \in Nat, NEW b \in BOOLEAN
    PROVE  AsGoal(Spent(row, n, m, b)) =
             [AsGoal(row) EXCEPT !.salakAmount = n, !.bought = m, !.isActive = b,
                                 !.deferredUntil = -1, !.attempts = 0]
<1> DEFINE old == AsGoal(row)
           one == [old EXCEPT !.salakAmount = n]
           two == [one EXCEPT !.bought = m]
           three == [two EXCEPT !.isActive = b]
           four == [three EXCEPT !.deferredUntil = -1]
           new == Spent(row, n, m, b)
           r == Row(row.owner, row.product, row.goalAmount, row.savingAmount, n, m,
                    b, Stamp(row.reached), Withdrawals(row.fees))
<1>1. AsGoal(new) = r
  <2>1. AsGoal(new) = Row(new.owner, new.product, new.goalAmount, new.savingAmount,
                          new.salakAmount, new.bought, new.isActive,
                          Stamp(new.reached), Withdrawals(new.fees))
    BY GoalAsRow
  <2>2. /\ new.owner = row.owner /\ new.product = row.product
        /\ new.goalAmount = row.goalAmount /\ new.savingAmount = row.savingAmount
        /\ new.salakAmount = n /\ new.bought = m
        /\ new.isActive = b /\ new.reached = row.reached /\ new.fees = row.fees
    BY BuyRow
  <2> HIDE DEF new
  <2> QED BY <2>1, <2>2
<1>0. old = Row(row.owner, row.product, row.goalAmount, row.savingAmount, row.salakAmount,
                row.bought, row.isActive, Stamp(row.reached), Withdrawals(row.fees))
  BY GoalAsRow
<1> HIDE DEF old
<1>2. one = Row(row.owner, row.product, row.goalAmount, row.savingAmount, n, row.bought,
                row.isActive, Stamp(row.reached), Withdrawals(row.fees))
  BY <1>0 DEF Row
<1>7. [old EXCEPT !.salakAmount = n, !.bought = m, !.isActive = b,
                  !.deferredUntil = -1, !.attempts = 0]
        = [four EXCEPT !.attempts = 0]
  OBVIOUS
<1> HIDE DEF one
<1>3. two = Row(row.owner, row.product, row.goalAmount, row.savingAmount, n, m,
                row.isActive, Stamp(row.reached), Withdrawals(row.fees))
  BY <1>2 DEF Row
<1> HIDE DEF two
<1>4. three = r BY <1>3 DEF Row
<1> HIDE DEF three
<1>5. four = r BY <1>4 DEF Row
<1> HIDE DEF four
<1>6. [four EXCEPT !.attempts = 0] = r BY <1>5 DEF Row
<1> QED BY <1>1, <1>6, <1>7 DEF old

(* A settlement.                                                           *)
LEMMA AsSettled ==
    ASSUME NEW row \in Goal, NEW n \in Nat
    PROVE  AsGoal(Settled(row, n)) = [AsGoal(row) EXCEPT !.salakAmount = n]
<1> DEFINE old == AsGoal(row)
           new == Settled(row, n)
           r == Row(row.owner, row.product, row.goalAmount, row.savingAmount, n, row.bought,
                    row.isActive, Stamp(row.reached), Withdrawals(row.fees))
<1>1. AsGoal(new) = r
  <2>1. AsGoal(new) = Row(new.owner, new.product, new.goalAmount, new.savingAmount,
                          new.salakAmount, new.bought, new.isActive,
                          Stamp(new.reached), Withdrawals(new.fees))
    BY GoalAsRow
  <2>2. /\ new.owner = row.owner /\ new.product = row.product
        /\ new.goalAmount = row.goalAmount /\ new.savingAmount = row.savingAmount
        /\ new.salakAmount = n /\ new.bought = row.bought
        /\ new.isActive = row.isActive /\ new.reached = row.reached /\ new.fees = row.fees
    BY SettleRow
  <2> HIDE DEF new
  <2> QED BY <2>1, <2>2
<1>0. old = Row(row.owner, row.product, row.goalAmount, row.savingAmount, row.salakAmount,
                row.bought, row.isActive, Stamp(row.reached), Withdrawals(row.fees))
  BY GoalAsRow
<1> HIDE DEF old
<1>2. [old EXCEPT !.salakAmount = n] = r BY <1>0 DEF Row
<1> QED BY <1>1, <1>2 DEF old

(* The list of withdrawals grows with the list of fees.                    *)
LEMMA WithdrawalsAppend ==
    ASSUME NEW f \in Seq(BOOLEAN), NEW c \in BOOLEAN
    PROVE  Withdrawals(Append(f, c)) = Append(Withdrawals(f), [at |-> 0, withFee |-> c])
<1> DEFINE new == Append(f, c)
           w == Withdrawals(f)
           x == [at |-> 0, withFee |-> c]
<1>1. /\ Len(f) \in Nat /\ Len(new) = Len(f) + 1
      /\ \A i \in 1..(Len(f) + 1) : new[i] = IF i <= Len(f) THEN f[i] ELSE c
  OBVIOUS
<1>2. w \in Seq([at : {0}, withFee : BOOLEAN]) /\ Len(w) = Len(f)
  <2>1. \A i \in 1..Len(f) : [at |-> 0, withFee |-> f[i]] \in [at : {0}, withFee : BOOLEAN]
    OBVIOUS
  <2>2. w \in [1..Len(f) -> [at : {0}, withFee : BOOLEAN]] BY <2>1 DEF Withdrawals
  <2> HIDE DEF w
  <2>3. w \in Seq([at : {0}, withFee : BOOLEAN]) 
    <3>1. \E n \in Nat : w \in [1..n -> [at : {0}, withFee : BOOLEAN]] BY <1>1, <2>2
    <3>2. Seq([at : {0}, withFee : BOOLEAN]) =
            UNION {[1..n -> [at : {0}, withFee : BOOLEAN]] : n \in Nat}
      BY SeqDef
    <3> QED BY <3>1, <3>2, Zenon
  <2>4. Len(w) \in Nat /\ 1..Len(w) = 1..Len(f) BY <2>2, <2>3, LenProperties
  <2> QED BY <1>1, <2>3, <2>4
<1>3. \A i \in 1..Len(f) : w[i] = [at |-> 0, withFee |-> f[i]] BY DEF Withdrawals
<1>4. Withdrawals(new) = [i \in 1..(Len(f) + 1) |-> [at |-> 0, withFee |-> new[i]]]
  BY <1>1 DEF Withdrawals
<1>5. x \in [at : {0}, withFee : BOOLEAN] OBVIOUS
<1>6. ASSUME NEW i \in 1..(Len(f) + 1)
      PROVE  [at |-> 0, withFee |-> new[i]] = IF i <= Len(f) THEN w[i] ELSE x
  BY <1>1, <1>3, <1>6
<1> HIDE DEF new, w, x
<1>7. /\ Append(w, x) \in Seq([at : {0}, withFee : BOOLEAN])
      /\ Len(Append(w, x)) = Len(f) + 1
      /\ \A i \in 1..(Len(f) + 1) : Append(w, x)[i] = IF i <= Len(f) THEN w[i] ELSE x
  BY <1>1, <1>2, <1>5, AppendProperties
<1>8. Append(w, x) = [i \in 1..(Len(f) + 1) |-> Append(w, x)[i]]
  <2>1. DOMAIN Append(w, x) = 1..(Len(f) + 1) BY <1>7, LenProperties
  <2>2. Append(w, x) \in [1..(Len(f) + 1) -> [at : {0}, withFee : BOOLEAN]]
    BY <1>7, LenProperties
  <2> QED BY <2>2
<1>9. Withdrawals(new) = Append(w, x) BY <1>4, <1>6, <1>7, <1>8
<1> QED BY <1>9 DEF new, w, x

(* Every withdrawal of a goal falls into the one window of the moment.     *)
LEMMA AllowanceIsLength ==
    ASSUME NEW g \in DOMAIN goals, goals[g] \in Goal
    PROVE  K!withdrawalAllowance(g) = Len(goals[g].fees)
<1> DEFINE n == Len(goals[g].fees)
           w == Withdrawals(goals[g].fees)
<1>1. n \in Nat
  <2>1. goals[g].fees \in Seq(BOOLEAN) BY GoalFields
  <2> QED BY <2>1
<1>2. /\ GoalRows[g] = AsGoal(goals[g])
      /\ AsGoal(goals[g]).withdrawals = w
      /\ AsGoal(goals[g]).createdAt = 0
  BY DEF GoalRows, AsGoal, Withdrawals
<1>3. Len(w) = n /\ \A i \in 1..n : w[i].at = 0
  BY <1>1 DEF Withdrawals
<1>4. K!withdrawalAllowance(g) =
        Cardinality({i \in 1..Len(GoalRows[g].withdrawals) :
                       K!WindowOf(g, GoalRows[g].withdrawals[i].at) = K!WindowOf(g, 0)})
  <2>1. ASSUME NEW S PROVE K!Cardinality(S) = Cardinality(S)
    BY DEF K!Cardinality, Cardinality
  <2>2. K!withdrawalAllowance(g) =
          K!Cardinality({i \in 1..Len(GoalRows[g].withdrawals) :
                           K!WindowOf(g, GoalRows[g].withdrawals[i].at) = K!WindowOf(g, 0)})
    BY Zenon DEF K!withdrawalAllowance, GoalRows
  <2> QED BY <2>1, <2>2, Zenon
<1>5. {i \in 1..Len(GoalRows[g].withdrawals) :
         K!WindowOf(g, GoalRows[g].withdrawals[i].at) = K!WindowOf(g, 0)} = 1..n
  <2> HIDE DEF w, n
  <2>1. \A i \in 1..n : GoalRows[g].withdrawals[i].at = 0 BY <1>2, <1>3
  <2>2. Len(GoalRows[g].withdrawals) = n BY <1>2, <1>3
  <2> QED BY <2>1, <2>2
<1> HIDE DEF n
<1>6. Cardinality(1..n) = n BY <1>1, FS_Interval
<1> QED BY <1>4, <1>5, <1>6 DEF n

(* Rows written and added.                                                 *)
LEMMA GoalRowsWritten ==
    ASSUME NEW g \in DOMAIN goals, NEW row, goals' = [goals EXCEPT ![g] = row]
    PROVE  GoalRows' = [GoalRows EXCEPT ![g] = AsGoal(row)]
BY DEF GoalRows

(* A goal added.                                                           *)
LEMMA GoalRowsAdded ==
    ASSUME NEW g, NEW row, g \notin DOMAIN goals,
           goals' = [x \in DOMAIN goals \cup {g} |-> IF x = g THEN row ELSE goals[x]]
    PROVE  GoalRows' = K!Insert(GoalRows, g, AsGoal(row))
<1>1. DOMAIN goals' = DOMAIN goals \cup {g} OBVIOUS
<1>2. \A x \in DOMAIN goals' : goals'[x] = IF x = g THEN row ELSE goals[x] OBVIOUS
<1>3. DOMAIN GoalRows = DOMAIN goals /\ \A x \in DOMAIN goals : GoalRows[x] = AsGoal(goals[x])
  BY DEF GoalRows
<1>4. GoalRows' = [x \in DOMAIN goals \cup {g} |-> AsGoal(goals'[x])]
  BY <1>1 DEF GoalRows
<1>5. K!Insert(GoalRows, g, AsGoal(row)) =
        [x \in DOMAIN goals \cup {g} |-> IF x = g THEN AsGoal(row) ELSE GoalRows[x]]
  BY <1>3 DEF K!Insert
<1>6. ASSUME NEW x \in DOMAIN goals \cup {g}
      PROVE  AsGoal(goals'[x]) = IF x = g THEN AsGoal(row) ELSE GoalRows[x]
  BY <1>1, <1>2, <1>3
<1> QED BY <1>4, <1>5, <1>6

(* A holding added.                                                        *)
LEMMA HoldingRowsAdded ==
    ASSUME NEW h, NEW row, h \notin DOMAIN holdings,
           holdings' = [x \in DOMAIN holdings \cup {h} |-> IF x = h THEN row ELSE holdings[x]]
    PROVE  HoldingRowsSeen' = K!Insert(HoldingRowsSeen, h, AsHolding(row))
<1>1. DOMAIN holdings' = DOMAIN holdings \cup {h} OBVIOUS
<1>2. \A x \in DOMAIN holdings' : holdings'[x] = IF x = h THEN row ELSE holdings[x] OBVIOUS
<1>3. /\ DOMAIN HoldingRowsSeen = DOMAIN holdings
      /\ \A x \in DOMAIN holdings : HoldingRowsSeen[x] = AsHolding(holdings[x])
  BY DEF HoldingRowsSeen
<1>4. HoldingRowsSeen' = [x \in DOMAIN holdings \cup {h} |-> AsHolding(holdings'[x])]
  BY <1>1 DEF HoldingRowsSeen
<1>5. K!Insert(HoldingRowsSeen, h, AsHolding(row)) =
        [x \in DOMAIN holdings \cup {h} |-> IF x = h THEN AsHolding(row) ELSE HoldingRowsSeen[x]]
  BY <1>3 DEF K!Insert
<1>6. ASSUME NEW x \in DOMAIN holdings \cup {h}
      PROVE  AsHolding(holdings'[x]) = IF x = h THEN AsHolding(row) ELSE HoldingRowsSeen[x]
  BY <1>1, <1>2, <1>3
<1> QED BY <1>4, <1>5, <1>6

(* A holding settled.                                                      *)
HoldingSettled(row) == [row EXCEPT !.settled = TRUE]

(* Settling a holding is the same for its row and for what the row stands  *)
(* for ...                                                                 *)
LEMMA AsHoldingSettled ==
    ASSUME NEW row \in Holding
    PROVE  AsHolding(HoldingSettled(row)) = [AsHolding(row) EXCEPT !.settled = TRUE]
<1> DEFINE old == AsHolding(row)
           new == HoldingSettled(row)
           units == row.amount \div Rules[row.product].unit
<1>1. /\ new.owner = row.owner /\ new.product = row.product
      /\ new.amount = row.amount /\ new.goal = row.goal /\ new.settled = TRUE
  BY DEF HoldingSettled, Holding
<1>2. old = [owner |-> row.owner, product |-> row.product, amount |-> row.amount,
             units |-> units, goal |-> row.goal, settled |-> row.settled]
  BY DEF AsHolding
<1> HIDE DEF new
<1>3. AsHolding(new) = [owner |-> row.owner, product |-> row.product, amount |-> row.amount,
                        units |-> units, goal |-> row.goal, settled |-> TRUE]
  BY <1>1 DEF AsHolding
<1> HIDE DEF old, units
<1>4. [old EXCEPT !.settled = TRUE] =
        [owner |-> row.owner, product |-> row.product, amount |-> row.amount,
         units |-> units, goal |-> row.goal, settled |-> TRUE]
  <2>1. ASSUME NEW x
        PROVE  [old EXCEPT !.settled = x] =
                 [owner |-> row.owner, product |-> row.product, amount |-> row.amount,
                  units |-> units, goal |-> row.goal, settled |-> x]
    BY <1>2
  <2> QED BY <2>1, Zenon
<1> QED BY <1>3, <1>4 DEF old, new

(* ... and so is settling it in the table.                                 *)
LEMMA HoldingRowsSettled ==
    ASSUME NEW h \in DOMAIN holdings, holdings[h] \in Holding,
           holdings' = [holdings EXCEPT ![h] = HoldingSettled(holdings[h])]
    PROVE  HoldingRowsSeen' =
             [HoldingRowsSeen EXCEPT ![h] = [HoldingRowsSeen[h] EXCEPT !.settled = TRUE]]
<1>1. HoldingRowsSeen[h] = AsHolding(holdings[h]) BY DEF HoldingRowsSeen
<1>2. HoldingRowsSeen' = [HoldingRowsSeen EXCEPT ![h] = AsHolding(HoldingSettled(holdings[h]))]
  BY DEF HoldingRowsSeen
<1>3. AsHolding(HoldingSettled(holdings[h])) = [AsHolding(holdings[h]) EXCEPT !.settled = TRUE]
  BY AsHoldingSettled
<1> QED BY <1>1, <1>2, <1>3

(* Money that moves moves the same way in Kapook; what does not arrive     *)
(* stays with the bank.                                                    *)
Kinds == {"savings", "kapook", "salak"}

(* A transfer, seen by kind of account.                                    *)
LEMMA AccountsMove ==
    ASSUME balance \in [Account -> Nat], NEW from \in Kinds, NEW to \in Kinds, from # to,
           NEW u \in User, NEW a \in Nat, NEW c \in Nat, balance[<<from, u>>] >= a,
           Move(<<from, u>>, <<to, u>>, a, c)
    PROVE  /\ Balances(from)' = [Balances(from) EXCEPT ![u] = Balances(from)[u] - a]
           /\ Balances(to)' = [Balances(to) EXCEPT ![u] = Balances(to)[u] + c]
           /\ \A kind \in Kinds \ {from, to} : Balances(kind)' = Balances(kind)
           /\ Bank' = [Bank EXCEPT ![u] = Bank[u] + (a - c)]
<1>0. \A kind \in Kinds, v \in User : <<kind, v>> \in Account BY DEF Kinds, Account
<1>1. /\ balance' \in [Account -> Nat]
      /\ balance'[<<from, u>>] = balance[<<from, u>>] - a
      /\ balance'[<<to, u>>] = balance[<<to, u>>] + c
      /\ \A acc \in Account \ {<<from, u>>, <<to, u>>} : balance'[acc] = balance[acc]
  <2>1. <<from, u>> \in Account /\ <<to, u>> \in Account /\ <<from, u>> # <<to, u>>
    BY <1>0
  <2> QED BY <2>1, MoneyMoves
<1>2. \A kind \in Kinds, v \in User :
         <<kind, v>> \notin {<<from, u>>, <<to, u>>} => balance'[<<kind, v>>] = balance[<<kind, v>>]
  BY <1>0, <1>1
<1>3. \A v \in User \ {u}, kind \in Kinds : balance'[<<kind, v>>] = balance[<<kind, v>>]
  BY <1>2
<1>4. \A kind \in Kinds \ {from, to} : balance'[<<kind, u>>] = balance[<<kind, u>>]
  BY <1>2
<1>5. Balances(from)' = [Balances(from) EXCEPT ![u] = Balances(from)[u] - a]
  BY <1>1, <1>3 DEF Balances
<1>6. Balances(to)' = [Balances(to) EXCEPT ![u] = Balances(to)[u] + c]
  BY <1>1, <1>3 DEF Balances
<1>7. ASSUME NEW kind \in Kinds \ {from, to} PROVE Balances(kind)' = Balances(kind)
  BY <1>3, <1>4 DEF Balances
<1>8. Bank' = [Bank EXCEPT ![u] = Bank[u] + (a - c)]
  <2> DEFINE rest(v) == StartingBalance - balance[<<"savings", v>>]
                          - balance[<<"kapook", v>>] - balance[<<"salak", v>>]
  <2>k. {"savings", "kapook", "salak"} = Kinds BY DEF Kinds
  <2>0. \A v \in User : /\ balance[<<"savings", v>>] \in Nat /\ balance[<<"kapook", v>>] \in Nat
                        /\ balance[<<"salak", v>>] \in Nat
    BY <1>0, <2>k
  <2>1. \A v \in User \ {u} : rest(v)' = rest(v) BY <1>3, <2>k
  <2>2. rest(u)' = rest(u) + (a - c)
    BY <1>1, <1>4, <2>0, AmountAssumption DEF Kinds
  <2>3. Bank = [v \in User |-> rest(v)] BY DEF Bank
  <2>4. Bank' = [v \in User |-> rest(v)'] BY DEF Bank
  <2> HIDE DEF rest
  <2> QED BY <2>1, <2>2, <2>3, <2>4
<1> QED BY <1>5, <1>6, <1>7, <1>8

-----------------------------------------------------------------------------
(***************************************************************************)
(* Every commit is the step of Kapook of its name.                         *)
(***************************************************************************)
(* The columns of a goal row as Kapook reads them.                         *)
LEMMA GoalSeen ==
    ASSUME NEW g \in DOMAIN goals
    PROVE  /\ g \in DOMAIN GoalRows
           /\ GoalRows[g] = AsGoal(goals[g])
           /\ GoalRows[g].owner = goals[g].owner
           /\ GoalRows[g].product = goals[g].product
           /\ GoalRows[g].goalAmount = goals[g].goalAmount
           /\ GoalRows[g].savingAmount = goals[g].savingAmount
           /\ GoalRows[g].salakAmount = goals[g].salakAmount
           /\ GoalRows[g].bought = goals[g].bought
           /\ GoalRows[g].isActive = goals[g].isActive
           /\ GoalRows[g].goalReachedAt = Stamp(goals[g].reached)
           /\ GoalRows[g].withdrawals = Withdrawals(goals[g].fees)
BY DEF GoalRows, AsGoal, Stamp, Withdrawals

(* Bank entries that cancel out.                                           *)
LEMMA BankStays ==
    ASSUME balance \in [Account -> Nat], NEW u \in User, NEW a \in Nat,
           Bank' = [Bank EXCEPT ![u] = Bank[u] + (a - a)]
    PROVE  Bank' = Bank
<1>1. Bank[u] \in Int
  <2>1. /\ balance[<<"savings", u>>] \in Nat /\ balance[<<"kapook", u>>] \in Nat
        /\ balance[<<"salak", u>>] \in Nat
    BY ThreeAccounts
  <2> QED BY <2>1, AmountAssumption DEF Bank
<1>2. Bank[u] + (a - a) = Bank[u] BY <1>1
<1>3. Bank = [v \in User |-> Bank[v]] BY DEF Bank
<1> HIDE DEF Bank
<1> QED BY <1>2, <1>3

(* A deposit.                                                              *)
LEMMA DepositRefines ==
    ASSUME TxInv, NEW s \in Session, CommitDeposit(s)
    PROVE  tx[s].goal \in K!Active /\ tx[s].amount \in Amount
           /\ K!Deposit(tx[s].goal, tx[s].amount)
<1> DEFINE t == tx[s]
           u == t.user
           g == t.goal
           a == t.amount
           n == t.seen.savingAmount + a
           r == t.seen.reached \/ n = t.seen.goalAmount
           row == Deposited(goals[g], n, r)
<1>1. /\ t.op = "Deposit" /\ ~ Remaining(t)
      /\ accepted' = accepted /\ holdings' = holdings
      /\ Move(<<"savings", u>>, <<"kapook", u>>, a, a)
      /\ goals' = [goals EXCEPT ![g] = row]
  BY DEF CommitDeposit, Finished, Deposited
<1>2. /\ u \in User /\ a \in Nat /\ a \in Amount /\ a > 0
      /\ g \in DOMAIN goals /\ goals[g] \in Goal /\ goals[g].owner = u
      /\ t.seen = goals[g] /\ Covers(Debited(t), a) /\ GoalAccepts(t, goals[g])
  BY <1>1, Committing DEF KnownOps, GoalOps
<1>3. balance[<<"savings", u>>] >= a BY <1>1, <1>2 DEF Debited, Covers
<1>4. /\ goals[g].isActive /\ n <= goals[g].goalAmount
  BY <1>1, <1>2 DEF GoalAccepts
<1>5. n \in Nat /\ r \in BOOLEAN BY <1>2, GoalFields
<1> DEFINE goal == GoalRows[g]
           newSaving == goal.savingAmount + a
           stamp == IF goal.goalReachedAt = -1 /\ newSaving = goal.goalAmount
                    THEN 0 ELSE goal.goalReachedAt
<1>6. /\ g \in DOMAIN GoalRows /\ goal = AsGoal(goals[g]) /\ goal.owner = u
      /\ goal.isActive /\ newSaving = n /\ newSaving <= goal.goalAmount
  BY <1>2, <1>4, GoalSeen
<1>7. stamp = Stamp(r)
  <2>1. /\ goal.goalReachedAt = Stamp(goals[g].reached)
        /\ goal.goalAmount = goals[g].goalAmount
    BY <1>2, GoalSeen
  <2> QED BY <1>2, <1>6, <2>1 DEF Stamp
<1> HIDE DEF n, r
<1>8. GoalRows' = [GoalRows EXCEPT ![g] =
                     [goal EXCEPT !.savingAmount = newSaving, !.goalReachedAt = stamp]]
  <2>1. GoalRows' = [GoalRows EXCEPT ![g] = AsGoal(row)] BY <1>1, <1>2, GoalRowsWritten
  <2>2. AsGoal(row) = [goal EXCEPT !.savingAmount = newSaving, !.goalReachedAt = stamp]
    <3> HIDE DEF goal, newSaving, stamp
    <3>1. \A x \in Goal, i \in Nat, b \in BOOLEAN :
             AsGoal(Deposited(x, i, b)) =
               [AsGoal(x) EXCEPT !.savingAmount = i, !.goalReachedAt = Stamp(b)]
      BY AsDeposited
    <3>2. AsGoal(row) = [AsGoal(goals[g]) EXCEPT !.savingAmount = n, !.goalReachedAt = Stamp(r)]
      BY <1>2, <1>5, <3>1, ZenonT(60)
    <3> QED BY <1>6, <1>7, <3>2, Zenon
  <2> QED BY <2>1, <2>2
<1>9. /\ Balances("savings")' =
           [Balances("savings") EXCEPT ![u] = Balances("savings")[u] - a]
      /\ Balances("kapook")' =
           [Balances("kapook") EXCEPT ![u] = Balances("kapook")[u] + a]
      /\ Balances("salak")' = Balances("salak")
      /\ Bank' = Bank
  <2>1. balance \in [Account -> Nat] BY DEF TxInv, TypeOK
  <2>2. /\ Balances("savings")' =
             [Balances("savings") EXCEPT ![u] = Balances("savings")[u] - a]
        /\ Balances("kapook")' =
             [Balances("kapook") EXCEPT ![u] = Balances("kapook")[u] + a]
        /\ \A kind \in Kinds \ {"savings", "kapook"} : Balances(kind)' = Balances(kind)
        /\ Bank' = [Bank EXCEPT ![u] = Bank[u] + (a - a)]
    BY <1>1, <1>2, <1>3, <2>1, AccountsMove DEF Kinds
  <2>3. Bank' = Bank BY <1>2, <2>1, <2>2, BankStays
  <2> QED BY <2>2, <2>3 DEF Kinds
<1>10. Balances("savings")[u] >= a BY <1>2, <1>3 DEF Balances
<1>11. HoldingRowsSeen' = HoldingRowsSeen BY <1>1 DEF HoldingRowsSeen
<1> HIDE DEF t, u, g, a, goal, newSaving, stamp
<1>12. K!Deposit(g, a)
  BY <1>1, <1>2, <1>6, <1>8, <1>9, <1>10, <1>11
  DEF K!Deposit, K!WithinTarget, K!SufficientFunds, K!ReachedStamp, K!Never,
      Balances, Bank, GoalRows, HoldingRowsSeen, goal, newSaving, stamp
<1>13. g \in K!Active BY <1>6 DEF K!Active, GoalRows, goal
<1> QED BY <1>2, <1>12, <1>13 DEF g, a, t


(* A withdrawal with a place left in the list of its goal.                 *)
LEMMA RoomForWithdrawal ==
    ASSUME TxInv, NEW s \in Session, tx[s].op = "Withdraw", tx[s].goal \in DOMAIN goals
    PROVE  Len(goals[tx[s].goal].fees) < MaxWithdrawals
<1> DEFINE g == tx[s].goal
<1>1. Len(goals[g].fees) + Cardinality(Withdrawing(g)) <= MaxWithdrawals
  BY DEF TxInv, WithdrawalsBounded
<1>2. Len(goals[g].fees) \in Nat
  <2>1. goals[g] \in Goal BY DEF TxInv, TypeOK
  <2> QED BY <2>1, GoalFields
<1>3. s \in Withdrawing(g) BY DEF Withdrawing
<1>4. IsFiniteSet(Withdrawing(g)) BY BoundAssumption, FS_Subset DEF Withdrawing
<1>5. Cardinality(Withdrawing(g)) \in Nat BY <1>4, FS_CardinalityType
<1>6. Cardinality(Withdrawing(g)) # 0 BY <1>3, <1>4, FS_EmptySet
<1> QED BY <1>1, <1>2, <1>5, <1>6, BoundAssumption

(* A withdrawal.                                                           *)
LEMMA WithdrawRefines ==
    ASSUME TxInv, NEW s \in Session, CommitWithdraw(s)
    PROVE  tx[s].goal \in K!Active /\ tx[s].amount \in Amount
           /\ K!Withdraw(tx[s].goal, tx[s].amount)
<1> DEFINE t == tx[s]
           u == t.user
           g == t.goal
           a == t.amount
           charged == Len(t.seen.fees) >= K!freeWithdrawalsPerWindow
           fee == K!computeWithdrawalFee(a, charged)
           n == t.seen.savingAmount - a
           b == ~ t.seen.reached
           f == Append(goals[g].fees, charged)
           row == Withdrawn(goals[g], n, b, f)
<1>1. /\ t.op = "Withdraw" /\ ~ Remaining(t)
      /\ accepted' = accepted /\ holdings' = holdings
      /\ Move(<<"kapook", u>>, <<"savings", u>>, a, K!netCredited(a, charged))
      /\ goals' = [goals EXCEPT ![g] = row]
  BY DEF CommitWithdraw, Finished, Withdrawn
<1>2. /\ u \in User /\ a \in Nat /\ a \in Amount /\ a > 0
      /\ g \in DOMAIN goals /\ goals[g] \in Goal /\ goals[g].owner = u
      /\ t.seen = goals[g] /\ Covers(Debited(t), a) /\ GoalAccepts(t, goals[g])
  BY <1>1, Committing DEF KnownOps, GoalOps
<1>3. balance[<<"kapook", u>>] >= a BY <1>1, <1>2 DEF Debited, Covers
<1>4. /\ goals[g].isActive
      /\ a <= goals[g].savingAmount - goals[g].salakAmount
      /\ goals[g].reached => a = goals[g].savingAmount - goals[g].salakAmount
  BY <1>1, <1>2 DEF GoalAccepts, Available
<1>f. /\ goals[g].savingAmount \in Nat /\ goals[g].salakAmount \in Nat
      /\ goals[g].reached \in BOOLEAN /\ goals[g].fees \in Seq(BOOLEAN)
      /\ Len(goals[g].fees) \in Nat
  BY <1>2, GoalFields
<1>5. /\ n \in Nat /\ b \in BOOLEAN /\ charged \in BOOLEAN
  BY <1>2, <1>4, <1>f
<1>g. f \in Seq(BOOLEAN) BY <1>f, <1>5
<1>h. fee \in Int /\ K!netCredited(a, charged) = a - fee
      /\ K!netCredited(a, charged) \in Nat
  <2>1. fee \in Int BY <1>2 DEF K!computeWithdrawalFee
  <2> QED BY <1>2, <2>1, NetCredited DEF K!netCredited
<1> DEFINE goal == GoalRows[g]
           ws == Append(goal.withdrawals, [at |-> 0, withFee |-> charged])
<1>6. /\ g \in DOMAIN GoalRows /\ goal = AsGoal(goals[g]) /\ goal.owner = u
      /\ goal.isActive /\ goal.savingAmount - a = n
      /\ goal.salakAmount = goals[g].salakAmount
      /\ goal.goalReachedAt = Stamp(goals[g].reached)
      /\ goal.withdrawals = Withdrawals(goals[g].fees)
  BY <1>2, <1>4, GoalSeen
<1>7. ws = Withdrawals(f) BY <1>5, <1>6, <1>f, WithdrawalsAppend
<1>8. (goal.goalReachedAt # -1) = t.seen.reached BY <1>2, <1>6, <1>f DEF Stamp
<1>9. Len(goal.withdrawals) = Len(goals[g].fees) /\ Len(goal.withdrawals) < MaxWithdrawals
  <2>0. \A e \in Seq(BOOLEAN) : Len(Withdrawals(e)) = Len(e) BY SMTT(30) DEF Withdrawals
  <2>1. Len(goal.withdrawals) = Len(goals[g].fees)
    <3> HIDE DEF goal
    <3> QED BY <2>0, <1>6, <1>f
  <2>2. Len(goals[g].fees) < MaxWithdrawals BY <1>1, <1>2, RoomForWithdrawal
  <2> QED BY <2>1, <2>2
<1>10. K!withdrawalAllowance(g) = Len(t.seen.fees) BY <1>2, AllowanceIsLength
<1> HIDE DEF n, b, f
<1>11. GoalRows' = [GoalRows EXCEPT ![g] =
                     [goal EXCEPT !.savingAmount = goal.savingAmount - a,
                                  !.isActive = ~ (goal.goalReachedAt # -1),
                                  !.withdrawals = ws]]
  <2>1. GoalRows' = [GoalRows EXCEPT ![g] = AsGoal(row)] BY <1>1, <1>2, GoalRowsWritten
  <2>2. AsGoal(row) = [goal EXCEPT !.savingAmount = goal.savingAmount - a,
                                   !.isActive = ~ (goal.goalReachedAt # -1),
                                   !.withdrawals = ws]
    <3>0. b = ~ (goal.goalReachedAt # -1) BY <1>8 DEF b
    <3> HIDE DEF goal, ws
    <3> DEFINE Seen(x, i, c, e) == [AsGoal(x) EXCEPT !.savingAmount = i, !.isActive = c,
                                                     !.withdrawals = Withdrawals(e)]
    <3>1. \A x \in Goal, i \in Nat, c \in BOOLEAN, e \in Seq(BOOLEAN) :
             AsGoal(Withdrawn(x, i, c, e)) = Seen(x, i, c, e)
      BY AsWithdrawn
    <3> HIDE DEF Seen
    <3>2. AsGoal(row) = Seen(goals[g], n, b, f) BY <1>2, <1>5, <1>g, <3>1
    <3> USE DEF Seen
    <3> QED BY <1>6, <1>7, <3>0, <3>2, Zenon
  <2> QED BY <2>1, <2>2
<1>12. /\ Balances("kapook")' =
            [Balances("kapook") EXCEPT ![u] = Balances("kapook")[u] - a]
       /\ Balances("savings")' =
            [Balances("savings") EXCEPT ![u] = Balances("savings")[u]
                                                 + K!netCredited(a, charged)]
       /\ Balances("salak")' = Balances("salak")
       /\ Bank' = [Bank EXCEPT ![u] = Bank[u] + fee]
  <2>1. balance \in [Account -> Nat] BY DEF TxInv, TypeOK
  <2> DEFINE c == K!netCredited(a, charged)
  <2>e. a - c = fee BY <1>2, <1>h
  <2> HIDE DEF c, fee
  <2>2. /\ Balances("kapook")' =
             [Balances("kapook") EXCEPT ![u] = Balances("kapook")[u] - a]
        /\ Balances("savings")' =
             [Balances("savings") EXCEPT ![u] = Balances("savings")[u] + c]
        /\ \A kind \in Kinds \ {"kapook", "savings"} : Balances(kind)' = Balances(kind)
        /\ Bank' = [Bank EXCEPT ![u] = Bank[u] + (a - c)]
    <3>1. c \in Nat BY <1>h DEF c
    <3>2. Move(<<"kapook", u>>, <<"savings", u>>, a, c) BY <1>1 DEF c
    <3> QED BY <1>2, <1>3, <2>1, <3>1, <3>2, AccountsMove DEF Kinds
  <2>3. Balances("salak")' = Balances("salak") BY <2>2 DEF Kinds
  <2> QED BY <2>2, <2>3, <2>e DEF c
<1>13. Balances("kapook")[u] >= a BY <1>2, <1>3 DEF Balances
<1>14. HoldingRowsSeen' = HoldingRowsSeen BY <1>1 DEF HoldingRowsSeen
<1>15. K!WithdrawalAllowed(g, a)
  <2>1. K!WithdrawalAllowed(g, a) <=>
          /\ a > 0 /\ a <= goal.savingAmount - goal.salakAmount
          /\ goal.goalReachedAt # -1 => a = goal.savingAmount - goal.salakAmount
    BY DEF K!WithdrawalAllowed, K!AvailableBalance, K!Reached, K!Never, GoalRows
  <2>2. goal.savingAmount = goals[g].savingAmount BY <1>2, GoalSeen
  <2> QED BY <1>2, <1>4, <1>6, <1>8, <2>1, <2>2
<1>16. (K!withdrawalAllowance(g) >= K!freeWithdrawalsPerWindow) = charged
  BY <1>10
<1>17. K!Reached(g) = (goal.goalReachedAt # -1) BY DEF K!Reached, K!Never, GoalRows
<1> HIDE DEF t, u, g, a, goal, ws, charged, fee
<1>18. K!Withdraw(g, a)
  <2> DEFINE ch == K!withdrawalAllowance(g) >= K!freeWithdrawalsPerWindow
  <2>1. ch = charged BY <1>16
  <2>2. Bank' = [Bank EXCEPT ![u] = Bank[u] + K!computeWithdrawalFee(a, ch)]
    BY <1>12, <2>1 DEF fee
  <2>3. Balances("savings")' =
            [Balances("savings") EXCEPT ![u] = Balances("savings")[u]
                                                 + K!netCredited(a, ch)]
    BY <1>12, <2>1
  <2>4. GoalRows' = [GoalRows EXCEPT ![g] =
                     [goal EXCEPT !.savingAmount = goal.savingAmount - a,
                                  !.isActive = ~ K!Reached(g),
                                  !.withdrawals = Append(goal.withdrawals,
                                                         [at |-> 0, withFee |-> ch])]]
    BY <1>11, <1>17, <2>1 DEF ws
  <2> HIDE DEF ch
  <2> QED BY <1>1, <1>2, <1>6, <1>9, <1>12, <1>13, <1>14, <1>15, <2>2, <2>3, <2>4
      DEF K!Withdraw, K!SufficientFunds, Balances, Bank, GoalRows, HoldingRowsSeen, goal, ch
<1>19. g \in K!Active BY <1>6 DEF K!Active, GoalRows, goal
<1> QED BY <1>2, <1>18, <1>19 DEF g, a, t


(* A holding minted.                                                       *)
LEMMA MintRefines ==
    ASSUME NEW s \in Session, Mint(tx[s]), tx[s].holding \notin DOMAIN holdings,
           K!Units(tx[s].product, tx[s].amount) > 0
    PROVE  K!MintHolding(tx[s].holding, tx[s].user, tx[s].product, tx[s].amount, tx[s].goal)
<1> DEFINE t == tx[s]
           row == [owner |-> t.user, product |-> t.product, amount |-> t.amount,
                   goal |-> t.goal, settled |-> FALSE]
           seen == [owner |-> t.user, product |-> t.product, amount |-> t.amount,
                    units |-> K!Units(t.product, t.amount), goal |-> t.goal,
                    settled |-> FALSE]
<1>1. AsHolding(row) = seen
  <2>1. /\ row.owner = t.user /\ row.product = t.product /\ row.amount = t.amount
        /\ row.goal = t.goal /\ row.settled = FALSE
    OBVIOUS
  <2> HIDE DEF row, t
  <2> QED BY <2>1 DEF AsHolding, K!Units
<1>2. holdings' = [h \in DOMAIN holdings \cup {t.holding} |->
                     IF h = t.holding THEN row ELSE holdings[h]]
  BY DEF Mint
<1> HIDE DEF row
<1>3. HoldingRowsSeen' = K!Insert(HoldingRowsSeen, t.holding, seen)
  BY <1>1, <1>2, HoldingRowsAdded
<1>4. DOMAIN HoldingRowsSeen = DOMAIN holdings BY DEF HoldingRowsSeen
<1>5. t.holding \notin DOMAIN HoldingRowsSeen BY <1>4
<1> QED BY <1>3, <1>5 DEF K!MintHolding, HoldingRowsSeen

(* A purchase from a goal.                                                 *)
LEMMA BuyFromGoalRefines ==
    ASSUME TxInv, NEW s \in Session, CommitBuyFromGoal(s)
    PROVE  /\ tx[s].goal \in K!Active /\ tx[s].amount \in Amount
           /\ tx[s].holding \in HoldingId
           /\ K!BuyFromGoal(tx[s].goal, tx[s].amount, tx[s].holding)
<1> DEFINE t == tx[s]
           u == t.user
           g == t.goal
           a == t.amount
           h == t.holding
           n == t.seen.salakAmount + a
           m == goals[g].bought + a
           b == n < t.seen.goalAmount
           row == Spent(goals[g], n, m, b)
<1>1. /\ t.op = "BuyFromGoal" /\ ~ Remaining(t)
      /\ accepted' = accepted /\ Mint(t)
      /\ Move(<<"kapook", u>>, <<"salak", u>>, a, a)
      /\ goals' = [goals EXCEPT ![g] = row]
  BY DEF CommitBuyFromGoal, Finished, Spent
<1>2. /\ u \in User /\ a \in Nat /\ a \in Amount /\ a > 0
      /\ g \in DOMAIN goals /\ goals[g] \in Goal /\ goals[g].owner = u
      /\ goals[g].product = t.product /\ t.product \in Product
      /\ t.seen = goals[g] /\ Covers(Debited(t), a) /\ GoalAccepts(t, goals[g])
      /\ MintInv(t) /\ K!Units(t.product, a) > 0
  BY <1>1, Committing DEF KnownOps, GoalOps, MintOps
<1>3. balance[<<"kapook", u>>] >= a BY <1>1, <1>2 DEF Debited, Covers
<1>4. /\ goals[g].isActive
      /\ goals[g].savingAmount - goals[g].salakAmount >= Rules[t.product].min
      /\ K!ValidatePurchase(t.product, a)
      /\ a <= goals[g].savingAmount - goals[g].salakAmount
  BY <1>1, <1>2 DEF GoalAccepts, Available
<1>f. /\ goals[g].salakAmount \in Nat /\ goals[g].bought \in Nat
      /\ goals[g].goalAmount \in Nat
  BY <1>2, GoalFields
<1>5. n \in Nat /\ m \in Nat /\ b \in BOOLEAN BY <1>2, <1>f
<1>h. h \in HoldingId /\ h \notin DOMAIN holdings BY <1>1, <1>2 DEF MintInv, MintOps
<1> DEFINE goal == GoalRows[g]
           newSalak == goal.salakAmount + a
<1>6. /\ g \in DOMAIN GoalRows /\ goal = AsGoal(goals[g]) /\ goal.owner = u
      /\ goal.isActive /\ goal.product = t.product
      /\ goal.savingAmount = goals[g].savingAmount
      /\ goal.salakAmount = goals[g].salakAmount
      /\ goal.bought = goals[g].bought /\ goal.goalAmount = goals[g].goalAmount
  BY <1>2, <1>4, GoalSeen
<1>7. newSalak = n /\ goal.bought + a = m /\ b = ~ (newSalak >= goal.goalAmount)
  BY <1>2, <1>6, <1>f
<1> HIDE DEF n, m, b
<1>8. GoalRows' = [GoalRows EXCEPT ![g] =
                     [goal EXCEPT !.salakAmount = newSalak,
                                  !.bought = goal.bought + a,
                                  !.isActive = ~ (newSalak >= goal.goalAmount),
                                  !.deferredUntil = -1, !.attempts = 0]]
  <2>1. GoalRows' = [GoalRows EXCEPT ![g] = AsGoal(row)] BY <1>1, <1>2, GoalRowsWritten
  <2>2. AsGoal(row) = [goal EXCEPT !.salakAmount = newSalak,
                                   !.bought = goal.bought + a,
                                   !.isActive = ~ (newSalak >= goal.goalAmount),
                                   !.deferredUntil = -1, !.attempts = 0]
    <3> DEFINE Seen(x, i, j, c) == [x EXCEPT !.salakAmount = i, !.bought = j,
                                             !.isActive = c, !.deferredUntil = -1,
                                             !.attempts = 0]
    <3>1. \A x \in Goal, i \in Nat, j \in Nat, c \in BOOLEAN :
             AsGoal(Spent(x, i, j, c)) = Seen(AsGoal(x), i, j, c)
      BY AsSpent
    <3>d. [goal EXCEPT !.salakAmount = newSalak,
                       !.bought = goal.bought + a,
                       !.isActive = ~ (newSalak >= goal.goalAmount),
                       !.deferredUntil = -1, !.attempts = 0]
            = Seen(goal, newSalak, goal.bought + a, ~ (newSalak >= goal.goalAmount))
      OBVIOUS
    <3> HIDE DEF Seen
    <3>2. AsGoal(row) = Seen(AsGoal(goals[g]), n, m, b) BY <1>2, <1>5, <3>1
    <3> HIDE DEF goal, newSalak
    <3> QED BY <1>6, <1>7, <3>2, <3>d, Zenon
  <2> QED BY <2>1, <2>2
<1>9. /\ Balances("kapook")' =
           [Balances("kapook") EXCEPT ![u] = Balances("kapook")[u] - a]
      /\ Balances("salak")' =
           [Balances("salak") EXCEPT ![u] = Balances("salak")[u] + a]
      /\ Balances("savings")' = Balances("savings")
      /\ Bank' = Bank
  <2>1. balance \in [Account -> Nat] BY DEF TxInv, TypeOK
  <2>2. /\ Balances("kapook")' =
             [Balances("kapook") EXCEPT ![u] = Balances("kapook")[u] - a]
        /\ Balances("salak")' =
             [Balances("salak") EXCEPT ![u] = Balances("salak")[u] + a]
        /\ \A kind \in Kinds \ {"kapook", "salak"} : Balances(kind)' = Balances(kind)
        /\ Bank' = [Bank EXCEPT ![u] = Bank[u] + (a - a)]
    BY <1>1, <1>2, <1>3, <2>1, AccountsMove DEF Kinds
  <2>3. Bank' = Bank BY <1>2, <2>1, <2>2, BankStays
  <2> QED BY <2>2, <2>3 DEF Kinds
<1>10. Balances("kapook")[u] >= a BY <1>2, <1>3 DEF Balances
<1>11. K!MintHolding(h, u, t.product, a, g) BY <1>1, <1>2, <1>h, MintRefines
<1>12. K!PurchaseAllowed(g, a)
  <2>1. K!AvailableBalance(g) = goals[g].savingAmount - goals[g].salakAmount
    BY <1>6 DEF K!AvailableBalance, GoalRows
  <2>2. GoalRows[g].product = t.product BY <1>6
  <2> QED BY <1>2, <1>4, <2>1, <2>2 DEF K!PurchaseAllowed, GoalRows
<1> DEFINE p == t.product
<1>p. /\ goal.product = p BY <1>6
<1>13. /\ accepted' = accepted BY <1>1
<1> HIDE DEF t, u, g, a, h, p, goal, newSalak
<1>14. K!BuyFromGoal(g, a, h)
  <2>1. K!MintHolding(h, goal.owner, goal.product, a, g) BY <1>6, <1>11, <1>p DEF p
  <2> QED BY <1>6, <1>8, <1>9, <1>10, <1>12, <1>13, <2>1
      DEF K!BuyFromGoal, K!buyFromGoalCore, K!SufficientFunds, K!IsDrawDay, K!Never,
          K!goalCompleted, Balances, Bank, GoalRows, HoldingRowsSeen, goal, newSalak
<1>15. g \in K!Active BY <1>6 DEF K!Active, GoalRows, goal
<1> QED BY <1>2, <1>14, <1>15, <1>h DEF g, a, h, t

(* A purchase from the savings account.                                    *)
LEMMA BuySalakRefines ==
    ASSUME TxInv, NEW s \in Session, CommitBuySalak(s)
    PROVE  /\ tx[s].user \in User /\ tx[s].product \in Product
           /\ tx[s].amount \in Amount /\ tx[s].holding \in HoldingId
           /\ K!BuySalak(tx[s].user, tx[s].product, tx[s].amount, tx[s].holding)
<1> DEFINE t == tx[s]
           u == t.user
           a == t.amount
           h == t.holding
           p == t.product
<1>1. /\ t.op = "BuySalak" /\ ~ Remaining(t)
      /\ accepted' = accepted /\ goals' = goals /\ Mint(t)
      /\ Move(<<"savings", u>>, <<"salak", u>>, a, a)
  BY DEF CommitBuySalak, Finished
<1>2. /\ u \in User /\ a \in Nat /\ p \in Product
      /\ Covers(Debited(t), a) /\ MintInv(t) /\ K!Units(p, a) > 0
  BY <1>1, Committing DEF KnownOps, MintOps
<1>3. balance[<<"savings", u>>] >= a BY <1>1, <1>2 DEF Debited, Covers
<1>h. /\ h \in HoldingId /\ h \notin DOMAIN holdings /\ t.goal = NoGoal
      /\ a \in Amount /\ K!ValidatePurchase(p, a)
  BY <1>1, <1>2 DEF MintInv, MintOps
<1>9. /\ Balances("savings")' =
           [Balances("savings") EXCEPT ![u] = Balances("savings")[u] - a]
      /\ Balances("salak")' =
           [Balances("salak") EXCEPT ![u] = Balances("salak")[u] + a]
      /\ Balances("kapook")' = Balances("kapook")
      /\ Bank' = Bank
  <2>1. balance \in [Account -> Nat] BY DEF TxInv, TypeOK
  <2>2. /\ Balances("savings")' =
             [Balances("savings") EXCEPT ![u] = Balances("savings")[u] - a]
        /\ Balances("salak")' =
             [Balances("salak") EXCEPT ![u] = Balances("salak")[u] + a]
        /\ \A kind \in Kinds \ {"savings", "salak"} : Balances(kind)' = Balances(kind)
        /\ Bank' = [Bank EXCEPT ![u] = Bank[u] + (a - a)]
    BY <1>1, <1>2, <1>3, <2>1, AccountsMove DEF Kinds
  <2>3. Bank' = Bank BY <1>2, <2>1, <2>2, BankStays
  <2> QED BY <2>2, <2>3 DEF Kinds
<1>10. Balances("savings")[u] >= a BY <1>2, <1>3 DEF Balances
<1>11. K!MintHolding(h, u, p, a, NoGoal) BY <1>1, <1>2, <1>h, MintRefines
<1>12. GoalRows' = GoalRows BY <1>1 DEF GoalRows
<1>13. accepted' = accepted BY <1>1
<1> HIDE DEF t, u, a, h, p
<1>14. K!BuySalak(u, p, a, h)
  BY <1>2, <1>9, <1>10, <1>11, <1>12, <1>13, <1>h
  DEF K!BuySalak, K!SufficientFunds, K!IsDrawDay, Balances, Bank, GoalRows
<1> QED BY <1>2, <1>h, <1>14 DEF u, p, a, h, t


(* A settlement: what it read of its goal without a lock is what Kapook    *)
(* takes the principal off.                                                *)
LEMMA SettleRefines ==
    ASSUME TxInv, NEW s \in Session, CommitSettleMaturedHolding(s)
    PROVE  /\ tx[s].holding \in DOMAIN HoldingRowsSeen
           /\ K!SettleMaturedHolding(tx[s].holding)
<1> DEFINE t == tx[s]
           u == t.user
           g == t.goal
           a == t.amount
           h == t.holding
           p == t.product
           interest == Rules[p].interest * (a \div Rules[p].unit)
           n == IF t.seen.salakAmount > a THEN t.seen.salakAmount - a ELSE 0
           row == Settled(goals[g], n)
<1>1. /\ t.op = "SettleMaturedHolding" /\ ~ Remaining(t)
      /\ accepted' = accepted
      /\ Move(<<"salak", u>>, <<"savings", u>>, a, a + interest)
      /\ holdings' = [holdings EXCEPT ![h] = HoldingSettled(holdings[h])]
      /\ goals' = IF g = NoGoal THEN goals ELSE [goals EXCEPT ![g] = row]
  BY DEF CommitSettleMaturedHolding, Finished, Settled, HoldingSettled
<1>2. /\ u \in User /\ a \in Nat /\ p \in Product
      /\ Covers(Debited(t), a) /\ SettleInv(t) /\ ~ holdings[h].settled
      /\ g # NoGoal => /\ g \in DOMAIN goals /\ goals[g] \in Goal
                       /\ t.seen.salakAmount = goals[g].salakAmount
  BY <1>1, Committing DEF KnownOps
<1>3. balance[<<"salak", u>>] >= a BY <1>1, <1>2 DEF Debited, Covers
<1>4. /\ h \in DOMAIN holdings /\ holdings[h].owner = u /\ holdings[h].product = p
      /\ holdings[h].amount = a /\ holdings[h].goal = g
  BY <1>1, <1>2 DEF SettleInv
<1>5. holdings[h] \in Holding BY <1>4 DEF TxInv, TypeOK
<1>i. interest \in Nat
  <2>1. Rules[p] \in K!RuleSet BY <1>2, RulesAssumption
  <2>2. Rules[p].interest \in Nat /\ Rules[p].unit \in Nat \ {0} BY <2>1 DEF K!RuleSet
  <2>3. a \div Rules[p].unit \in Nat BY <1>2, <2>2
  <2> QED BY <2>2, <2>3
<1> DEFINE seen == HoldingRowsSeen[h]
<1>6. /\ h \in DOMAIN HoldingRowsSeen /\ seen.owner = u /\ seen.product = p
      /\ seen.amount = a /\ seen.goal = g /\ seen.units = a \div Rules[p].unit
      /\ seen.settled = holdings[h].settled
  BY <1>4 DEF HoldingRowsSeen, AsHolding
<1>7. HoldingRowsSeen' = [HoldingRowsSeen EXCEPT ![h] = [seen EXCEPT !.settled = TRUE]]
  BY <1>1, <1>4, <1>5, HoldingRowsSettled
<1>8. K!Interest(h) = interest /\ K!Payout(h) = a + interest
  <2>1. K!Interest(h) = interest BY <1>6 DEF K!Interest, HoldingRowsSeen
  <2>2. K!Payout(h) = seen.amount + K!Interest(h) BY DEF K!Payout, K!Interest, HoldingRowsSeen
  <2> QED BY <1>6, <2>1, <2>2
<1> HIDE DEF interest
<1>9. /\ Balances("salak")' =
           [Balances("salak") EXCEPT ![u] = Balances("salak")[u] - a]
      /\ Balances("savings")' =
           [Balances("savings") EXCEPT ![u] = Balances("savings")[u] + (a + interest)]
      /\ Balances("kapook")' = Balances("kapook")
      /\ Bank' = [Bank EXCEPT ![u] = Bank[u] - interest]
  <2>1. balance \in [Account -> Nat] BY DEF TxInv, TypeOK
  <2> DEFINE c == a + interest
  <2>c. c \in Nat BY <1>2, <1>i
  <2>m. Move(<<"salak", u>>, <<"savings", u>>, a, c) BY <1>1
  <2>b. Bank[u] \in Int
    <3>1. /\ balance[<<"savings", u>>] \in Nat /\ balance[<<"kapook", u>>] \in Nat
          /\ balance[<<"salak", u>>] \in Nat
      BY <1>2, <2>1, ThreeAccounts
    <3> QED BY <1>2, <3>1, AmountAssumption DEF Bank
  <2>e. Bank[u] + (a - c) = Bank[u] - interest BY <1>2, <1>i, <2>b
  <2> HIDE DEF c
  <2>2. /\ Balances("salak")' =
             [Balances("salak") EXCEPT ![u] = Balances("salak")[u] - a]
        /\ Balances("savings")' =
             [Balances("savings") EXCEPT ![u] = Balances("savings")[u] + c]
        /\ \A kind \in Kinds \ {"salak", "savings"} : Balances(kind)' = Balances(kind)
        /\ Bank' = [Bank EXCEPT ![u] = Bank[u] + (a - c)]
    BY <1>2, <1>3, <2>1, <2>c, <2>m, AccountsMove DEF Kinds
  <2>3. Balances("kapook")' = Balances("kapook") BY <2>2 DEF Kinds
  <2>4. Bank' = [Bank EXCEPT ![u] = Bank[u] - interest] BY <2>2, <2>e
  <2> QED BY <2>2, <2>3, <2>4 DEF c
<1>10. Balances("salak")[u] >= a BY <1>2, <1>3 DEF Balances
<1>11. GoalRows' = IF g = NoGoal THEN GoalRows
                   ELSE [GoalRows EXCEPT ![g] =
                           [GoalRows[g] EXCEPT !.salakAmount =
                              K!SalakAfterExpiration(GoalRows[g], a)]]
  <2>1. CASE g = NoGoal BY <1>1, <2>1 DEF GoalRows
  <2>2. CASE g # NoGoal
    <3>0. n \in Nat
      <4>1. t.seen.salakAmount \in Nat BY <1>2, <2>2, GoalFields
      <4> QED BY <1>2, <4>1
    <3>1. /\ GoalRows[g] = AsGoal(goals[g])
          /\ GoalRows[g].salakAmount = t.seen.salakAmount
      BY <1>2, <2>2, GoalSeen
    <3>2. K!SalakAfterExpiration(GoalRows[g], a) = n
      BY <3>1 DEF K!SalakAfterExpiration
    <3> HIDE DEF n
    <3>3. GoalRows' = [GoalRows EXCEPT ![g] = AsGoal(row)]
      BY <1>1, <1>2, <2>2, GoalRowsWritten
    <3>4. AsGoal(row) = [GoalRows[g] EXCEPT !.salakAmount = n]
      BY <1>2, <2>2, <3>0, <3>1, AsSettled
    <3> QED BY <2>2, <3>2, <3>3, <3>4
  <2> QED BY <2>1, <2>2
<1>12. K!Settleable(h)
  <2>1. ~ seen.settled /\ seen.product \in Product BY <1>2, <1>6
  <2> QED BY <2>1 DEF K!Settleable, HoldingRowsSeen
<1>13. accepted' = accepted BY <1>1
<1> HIDE DEF t, u, g, a, h, p, seen
<1>14. K!SettleMaturedHolding(h)
  <2> DEFINE r == HoldingRowsSeen[h]
  <2>r. r = seen BY DEF seen
  <2>1. Bank' = [Bank EXCEPT ![r.owner] = Bank[r.owner] - K!Interest(h)]
    BY <1>6, <1>8, <1>9, <2>r
  <2>2. Balances("savings")' =
          [Balances("savings") EXCEPT ![r.owner] = Balances("savings")[r.owner] + K!Payout(h)]
    BY <1>6, <1>8, <1>9, <2>r
  <2>3. Balances("salak")' =
          [Balances("salak") EXCEPT ![r.owner] = Balances("salak")[r.owner] - r.amount]
    BY <1>6, <1>9, <2>r
  <2>4. GoalRows' = IF r.goal = NoGoal THEN GoalRows
                    ELSE [GoalRows EXCEPT ![r.goal] =
                            [GoalRows[r.goal] EXCEPT !.salakAmount =
                               K!SalakAfterExpiration(GoalRows[r.goal], r.amount)]]
    BY <1>6, <1>11, <2>r
  <2>5. HoldingRowsSeen' = [HoldingRowsSeen EXCEPT ![h] = [r EXCEPT !.settled = TRUE]]
    BY <1>7, <2>r
  <2>6. Balances("salak")[r.owner] >= r.amount BY <1>6, <1>10, <2>r
  <2> HIDE DEF r
  <2>7. K!SufficientFunds(Balances("salak"), r.owner, r.amount)
    BY <2>6 DEF K!SufficientFunds
  <2> QED BY <1>9, <1>12, <1>13, <2>1, <2>2, <2>3, <2>4, <2>5, <2>7
      DEF K!SettleMaturedHolding, Balances, Bank, GoalRows, HoldingRowsSeen, r
<1> QED BY <1>6, <1>14 DEF h, t

(* A goal created, or turned away by the index and nothing changed.        *)
LEMMA CreateGoalRefines ==
    ASSUME TxInv, NEW s \in Session, CommitCreateGoal(s)
    PROVE  \/ /\ tx[s].user \in User /\ tx[s].product \in Product
              /\ tx[s].amount \in Amount /\ tx[s].goal \in GoalId
              /\ K!CreateGoal(tx[s].user, tx[s].product, tx[s].amount, tx[s].goal)
           \/ UNCHANGED K!vars
<1> DEFINE t == tx[s]
           u == t.user
           g == t.goal
           a == t.amount
           p == t.product
           row == [owner |-> u, product |-> p, goalAmount |-> a,
                   savingAmount |-> 0, salakAmount |-> 0, bought |-> 0,
                   isActive |-> TRUE, reached |-> FALSE, fees |-> <<>>]
<1>1. /\ t.op = "CreateGoal" /\ ~ Remaining(t)
      /\ accepted' = accepted /\ holdings' = holdings /\ balance' = balance
      /\ goals' = IF IndexAdmits(u)
                  THEN [x \in DOMAIN goals \cup {g} |-> IF x = g THEN row ELSE goals[x]]
                  ELSE goals
  BY DEF CommitCreateGoal, Finished
<1>2. u \in User /\ p \in Product /\ CreateInv(t)
  BY <1>1, Committing DEF KnownOps
<1>3. /\ g \in GoalId /\ g \notin DOMAIN goals /\ u \in accepted
      /\ a \in Amount /\ K!ValidatePurchase(p, a)
  BY <1>1, <1>2 DEF CreateInv
<1>4. CASE ~ IndexAdmits(u)
  <2>1. goals' = goals BY <1>1, <1>4
  <2> QED BY <1>1, <2>1 DEF K!vars, K!accounts
<1>5. CASE IndexAdmits(u)
  <2>1. GoalRows' = K!Insert(GoalRows, g, AsGoal(row)) BY <1>1, <1>3, <1>5, GoalRowsAdded
  <2>2. AsGoal(row) = [owner |-> u, product |-> p, goalAmount |-> a,
                       savingAmount |-> 0, salakAmount |-> 0, bought |-> 0,
                       isActive |-> TRUE, goalReachedAt |-> -1,
                       deferredUntil |-> -1, attempts |-> 0,
                       createdAt |-> 0, withdrawals |-> <<>>]
    <3>1. AsGoal(row) = Row(u, p, a, 0, 0, 0, row.isActive, Stamp(row.reached),
                            Withdrawals(<<>>))
      BY GoalAsRow
    <3>2. row.isActive = TRUE /\ Stamp(row.reached) = -1 BY DEF Stamp
    <3>3. Withdrawals(<<>>) = <<>>
      <4>1. Withdrawals(<<>>) = [i \in {} |-> [at |-> 0, withFee |-> <<>>[i]]]
        <5>1. 1..Len(<<>>) = {} OBVIOUS
        <5> QED BY <5>1 DEF Withdrawals
      <4>2. Withdrawals(<<>>) \in [1..0 -> BOOLEAN]
        <5>1. 1..0 = {} OBVIOUS
        <5>2. [i \in {} |-> [at |-> 0, withFee |-> <<>>[i]]] \in [{} -> BOOLEAN] OBVIOUS
        <5> QED BY <4>1, <5>1, <5>2
      <4>3. Withdrawals(<<>>) \in Seq(BOOLEAN) /\ Len(Withdrawals(<<>>)) = 0
        <5>1. \E m \in Nat : Withdrawals(<<>>) \in [1..m -> BOOLEAN] BY <4>2
        <5>2. Seq(BOOLEAN) = UNION {[1..m -> BOOLEAN] : m \in Nat} BY SeqDef
        <5>3. Withdrawals(<<>>) \in Seq(BOOLEAN) BY <5>1, <5>2, Zenon
        <5>4. Len(Withdrawals(<<>>)) \in Nat /\ 1..Len(Withdrawals(<<>>)) = 1..0
          BY <4>2, <5>3, LenProperties
        <5> QED BY <5>3, <5>4, SMTT(30)
      <4> QED BY <4>3, EmptySeq
    <3> HIDE DEF row
    <3>4. AsGoal(row) = Row(u, p, a, 0, 0, 0, TRUE, -1, <<>>) BY <3>1, <3>2, <3>3, Zenon
    <3> QED BY <3>4, Zenon DEF Row
  <2>3. \A old \in DOMAIN GoalRows : GoalRows[old].isActive => GoalRows[old].owner # u
    <3>1. \A old \in DOMAIN goals : goals[old].isActive => goals[old].owner # u
      BY <1>5 DEF IndexAdmits, ActiveGoals
    <3>2. DOMAIN GoalRows = DOMAIN goals BY DEF GoalRows
    <3> QED BY <3>1, <3>2, GoalSeen
  <2>4. g \notin DOMAIN GoalRows BY <1>3 DEF GoalRows
  <2>5. /\ Balances("savings")' = Balances("savings") /\ Balances("kapook")' = Balances("kapook")
        /\ Balances("salak")' = Balances("salak") /\ Bank' = Bank
        /\ HoldingRowsSeen' = HoldingRowsSeen
    BY <1>1 DEF Balances, Bank, HoldingRowsSeen
  <2>6. accepted' = accepted BY <1>1
  <2> HIDE DEF t, u, g, a, p, row
  <2>7. K!CreateGoal(u, p, a, g)
    BY <1>2, <1>3, <2>1, <2>2, <2>3, <2>4, <2>5, <2>6
    DEF K!CreateGoal, K!Active, K!Never, K!accounts, Balances, Bank, GoalRows, HoldingRowsSeen
  <2> QED BY <1>2, <1>3, <2>7 DEF u, p, a, g, t
<1> QED BY <1>4, <1>5


(* The initial rows are Kapook's.                                          *)
LEMMA InitRefines == Init => K!Init
<1> SUFFICES ASSUME Init PROVE K!Init
  OBVIOUS
<1>1. \A u \in User : /\ balance[<<"savings", u>>] = StartingBalance
                      /\ balance[<<"kapook", u>>] = 0
                      /\ balance[<<"salak", u>>] = 0
  BY ThreeAccounts DEF Init
<1>2. /\ Balances("savings") = [u \in User |-> StartingBalance]
      /\ Balances("kapook") = [u \in User |-> 0]
      /\ Balances("salak") = [u \in User |-> 0]
  BY <1>1 DEF Balances
<1>3. Bank = [u \in User |-> 0] BY <1>1, AmountAssumption DEF Bank
<1>4. GoalRows = [g \in {} |-> NoGoal] BY DEF Init, GoalRows
<1>5. HoldingRowsSeen = [h \in {} |-> NoGoal] BY DEF Init, HoldingRowsSeen
<1>6. accepted = {} BY DEF Init
<1> QED BY <1>2, <1>3, <1>4, <1>5, <1>6
    DEF K!Init, Balances, Bank, GoalRows, HoldingRowsSeen

(* Every step is a step of Kapook, or changes no row it sees.              *)
LEMMA StepRefines == TxInv /\ [Next]_vars => [K!Next]_(K!vars)
<1> SUFFICES ASSUME TxInv, [Next]_vars PROVE K!Next \/ UNCHANGED K!vars
  OBVIOUS
<1>u. UNCHANGED <<balance, accepted, goals, holdings>> => UNCHANGED K!vars
  BY DEF K!vars, K!accounts
<1>1. CASE \E u \in User : Accept(u)
  <2>1. PICK u \in User : Accept(u) BY <1>1
  <2>2. K!Accept(u) BY <2>1 DEF Accept, K!Accept, K!accounts
  <2> QED BY <2>2 DEF K!Next
<1>2. CASE \E s \in Session : Request(s)
  <2>1. UNCHANGED <<balance, accepted, goals, holdings>>
    BY <1>2 DEF Request, Begin, BeginCreateGoal, BeginDeposit, BeginWithdraw,
                BeginBuyFromGoal, BeginBuySalak, BeginSettleMaturedHolding
  <2> QED BY <1>u, <2>1
<1>3. CASE \E s \in Session : RunStatement(s)
  <2>1. UNCHANGED <<balance, accepted, goals, holdings>> BY <1>3 DEF RunStatement
  <2> QED BY <1>u, <2>1
<1>4. CASE \E s \in Session : Commit(s)
  <2>1. PICK s \in Session : Commit(s) BY <1>4
  <2> DEFINE owner == tx[s].user
             product == tx[s].product
             goal == tx[s].goal
             amount == tx[s].amount
             holding == tx[s].holding
  <2>2. CASE CommitCreateGoal(s)
    <3>1. \/ /\ owner \in User /\ product \in Product /\ amount \in Amount /\ goal \in GoalId
             /\ K!CreateGoal(owner, product, amount, goal)
          \/ UNCHANGED K!vars
      BY <2>2, CreateGoalRefines
    <3> HIDE DEF owner, product, goal, amount
    <3> QED BY <3>1 DEF K!Next
  <2>3. CASE CommitDeposit(s)
    <3>1. goal \in K!Active /\ amount \in Amount /\ K!Deposit(goal, amount)
      BY <2>3, DepositRefines
    <3>2. \E g \in K!Active, a \in Amount : K!Deposit(g, a)
      <4>1. PICK g \in K!Active, a \in Amount : g = goal /\ a = amount BY <3>1
      <4> HIDE DEF goal, amount
      <4>2. K!Deposit(g, a)
        BY <3>1, <4>1 DEF K!Deposit
      <4> QED BY <4>2
    <3> QED BY <3>2 DEF K!Next
  <2>4. CASE CommitWithdraw(s)
    <3>1. goal \in K!Active /\ amount \in Amount /\ K!Withdraw(goal, amount)
      BY <2>4, WithdrawRefines
    <3>2. \E g \in K!Active, a \in Amount : K!Withdraw(g, a)
      <4>1. PICK g \in K!Active, a \in Amount : g = goal /\ a = amount BY <3>1
      <4> HIDE DEF goal, amount
      <4>2. K!Withdraw(g, a) BY <3>1, <4>1 DEF K!Withdraw
      <4> QED BY <4>2
    <3> QED BY <3>2 DEF K!Next
  <2>5. CASE CommitBuyFromGoal(s)
    <3>1. /\ goal \in K!Active /\ amount \in Amount /\ holding \in HoldingId
          /\ K!BuyFromGoal(goal, amount, holding)
      BY <2>5, BuyFromGoalRefines
    <3>2. \E g \in K!Active, a \in Amount, h \in HoldingId : K!BuyFromGoal(g, a, h)
      <4>1. PICK g \in K!Active, a \in Amount, h \in HoldingId :
               g = goal /\ a = amount /\ h = holding
        BY <3>1
      <4> HIDE DEF goal, amount, holding
      <4>2. K!BuyFromGoal(g, a, h)
        BY <3>1, <4>1 DEF K!BuyFromGoal, K!buyFromGoalCore, K!MintHolding
      <4> QED BY <4>2
    <3> QED BY <3>2 DEF K!Next
  <2>6. CASE CommitBuySalak(s)
    <3>1. /\ owner \in User /\ product \in Product /\ amount \in Amount
          /\ holding \in HoldingId /\ K!BuySalak(owner, product, amount, holding)
      BY <2>6, BuySalakRefines
    <3>2. \E u \in User, p \in Product, a \in Amount, h \in HoldingId : K!BuySalak(u, p, a, h)
      <4>1. PICK u \in User, p \in Product, a \in Amount, h \in HoldingId :
               u = owner /\ p = product /\ a = amount /\ h = holding
        BY <3>1
      <4> HIDE DEF owner, product, amount, holding
      <4>2. K!BuySalak(u, p, a, h) BY <3>1, <4>1 DEF K!BuySalak, K!MintHolding
      <4> QED BY <4>2
    <3> QED BY <3>2 DEF K!Next
  <2>7. CASE CommitSettleMaturedHolding(s)
    <3>1. holding \in DOMAIN HoldingRowsSeen /\ K!SettleMaturedHolding(holding)
      BY <2>7, SettleRefines
    <3>2. \E h \in DOMAIN HoldingRowsSeen : K!SettleMaturedHolding(h)
      <4>1. PICK h \in DOMAIN HoldingRowsSeen : h = holding BY <3>1
      <4> HIDE DEF holding
      <4>2. K!SettleMaturedHolding(h) BY <3>1, <4>1, ZenonT(60) DEF K!SettleMaturedHolding
      <4> QED BY <4>2
    <3> QED BY <3>2 DEF K!Next, HoldingRowsSeen
  <2> QED BY <2>1, <2>2, <2>3, <2>4, <2>5, <2>6, <2>7 DEF Commit
<1>5. CASE \E s \in Session : Fail(s)
  <2>1. UNCHANGED <<balance, accepted, goals, holdings>> BY <1>5 DEF Fail, Rollback
  <2> QED BY <1>u, <2>1
<1>6. CASE \E s \in Session : BreakDeadlock(s)
  <2>1. UNCHANGED <<balance, accepted, goals, holdings>> BY <1>6 DEF BreakDeadlock, Rollback
  <2> QED BY <1>u, <2>1
<1>7. CASE UNCHANGED vars BY <1>u, <1>7 DEF vars
<1> QED BY <1>1, <1>2, <1>3, <1>4, <1>5, <1>6, <1>7 DEF Next

(* However the statements of the requests interleave, wait, fail and       *)
(* deadlock, the committed rows move as if each request ran at once: every *)
(* commit is the one step of Kapook of its name, and everything proved     *)
(* about Kapook holds of the committed rows.                               *)
THEOREM TransactionsImplementKapook == Spec => ImplementsKapook
<1>1. Init => K!Init BY InitRefines
<1>2. TxInv /\ [Next]_vars => [K!Next]_(K!vars) BY StepRefines
<1> QED BY <1>1, <1>2, TransactionInvariant, PTL DEF Spec, ImplementsKapook, K!Spec
=============================================================================
