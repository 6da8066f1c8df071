-------------------------- MODULE KapookApiProofs --------------------------
(***************************************************************************)
(* Theorems about KapookApi, for any number of devices, requests and       *)
(* repetitions, all amounts and every fee rate.                            *)
(*                                                                         *)
(* The properties compare an answer with a database that has moved on      *)
(* since the answer was made.  What makes them provable is that the tables *)
(* only grow: a closed goal stays closed, a reached one stays reached, and *)
(* whatever was computed from the first rows of the history keeps its      *)
(* value (RowsOnlyGrow).  So a fact about a moment that has passed is      *)
(* stated with the length the history had then.                            *)
(***************************************************************************)
EXTENDS KapookApi, SumProofs, FiniteSetTheorems, TLAPS

(* One active goal at most; a goal in its countdown is full; the units     *)
(* bought for a goal are those its history lists.                          *)
GoalRows ==
    /\ \A g \in DOMAIN goals : goals[g].id = g /\ goals[g].salak =< goals[g].saving
    /\ \A g, h \in DOMAIN goals : goals[g].isActive /\ goals[h].isActive => g = h
    /\ \A g \in DOMAIN goals :
          goals[g].isActive /\ goals[g].reached => goals[g].saving = GoalAmount
    /\ \A g \in DOMAIN goals : goals[g].salak = Bought(Len(history), g)
    /\ \A i \in DOMAIN history : history[i].goal \in DOMAIN goals

FailedAfterCommit(c) == c.status >= 400 /\ c.applied

(* A goal that a request has filled or closed is out of that request's     *)
(* reach: closed, or full where the request is a deposit.                  *)
OutOfReach(op, g) ==
    /\ g \in DOMAIN goals
    /\ goals[g].isActive => op = "Deposit" /\ goals[g].reached

(* The row of a goal was the goal's at some moment, and the units told     *)
(* with it are of that moment or a later one.                              *)
SeenRow(row) == \E early \in 0..Len(history) : row.salak = Bought(early, row.id)

SeenBoth(row, units) ==
    \E early, late \in 0..Len(history) :
        /\ early =< late
        /\ row.salak = Bought(early, row.id)
        /\ units = Bought(late, row.id)

HasSnapshot(c) == c.op # "GetWithdrawalStatus" /\ c.row # NoRow

(* A request in the hands of the service has done nothing so far.          *)
CallOk(c) ==
    /\ c.at = "service" => ~ c.applied /\ c.status = 0 /\ c.row = NoRow
    /\ c.at = "count" => c.op = "GetWithdrawalStatus"
    /\ c.op \in Moving => c.amount > 0
    /\ FailedAfterCommit(c) => ~ onSale
    /\ \A g \in c.ended : OutOfReach(c.op, g)
    /\ c.at = "snapshot" => SeenRow(c.row)
    /\ c.at = "respond" /\ HasSnapshot(c) => SeenBoth(c.row, c.units)

ToldOk(c) ==
    /\ FailedAfterCommit(c) => ~ onSale
    /\ HasSnapshot(c) => SeenBoth(c.row, c.units)

(* A quote is the fee of the history and the release it was made from.     *)
FeeOf(a, percent) == (a * percent + 50) \div 100

QuoteOk(q) ==
    q.id # 0 =>
        /\ q.rows =< Len(history)
        /\ q.fee = IF Cardinality(Entries(q.rows, q.id, Withdrawals)) < freeWithdrawalsPerWindow
                   THEN 0 ELSE FeeOf(q.amount, q.rate)

Inv ==
    /\ TypeOK
    /\ GoalRows
    /\ \A d \in Device : CallOk(call[d]) /\ ToldOk(told[d]) /\ QuoteOk(quote[d])

-----------------------------------------------------------------------------
(***************************************************************************)
(* The history.                                                            *)
(***************************************************************************)

(* A fee is a natural number, and never more than what it is taken from.   *)
LEMMA FeeRange ==
    ASSUME TypeOK, NEW a \in Nat, NEW charged
    PROVE  /\ computeWithdrawalFee(a, charged) \in Nat
           /\ computeWithdrawalFee(a, charged) =< a
  <1>1. rate \in Nat /\ rate =< 100
    BY ApiAssumption DEF TypeOK
  <1>2. a * rate \in Nat /\ a * rate =< a * 100
    BY <1>1
  <1>3. ASSUME NEW x \in Nat, x =< a * 100
        PROVE  (x + 50) \div 100 \in Nat /\ (x + 50) \div 100 =< a
    BY <1>3
  <1> QED
    BY <1>2, <1>3 DEF computeWithdrawalFee

(* The rows a sum ranges over are finitely many rows of the table.         *)
LEMMA EntriesShape ==
    ASSUME TypeOK, NEW n \in 0..Len(history), NEW id, NEW types
    PROVE  /\ Entries(n, id, types) \subseteq 1..n
           /\ Entries(n, id, types) \subseteq DOMAIN history
           /\ IsFiniteSet(Entries(n, id, types))
           /\ \A i \in DOMAIN history : EntryAmount[i] \in Nat
  <1>1. Len(history) \in Nat /\ DOMAIN history = 1..Len(history)
        /\ \A i \in DOMAIN history : history[i] \in Entry
    BY DEF TypeOK
  <1>2. Entries(n, id, types) \subseteq 1..n
    BY DEF Entries
  <1>3. IsFiniteSet(1..n)
    BY <1>1, FS_Interval
  <1>4. \A i \in DOMAIN history : EntryAmount[i] \in Nat
    BY <1>1 DEF EntryAmount, Entry
  <1> QED
    BY <1>1, <1>2, <1>3, <1>4, FS_Subset

(* The units bought within a part of the history are a number.             *)
LEMMA BoughtType ==
    ASSUME TypeOK, NEW n \in 0..Len(history), NEW id
    PROVE  Bought(n, id) \in Nat
  BY EntriesShape, TotalType DEF Bought

(* A new row changes nothing that was computed from the rows before it.    *)
LEMMA AppendKeeps ==
    ASSUME TypeOK, NEW e \in Entry, history' = Append(history, e)
    PROVE  /\ history' \in Seq(Entry)
           /\ Len(history') = Len(history) + 1 /\ Len(history) \in Nat
           /\ \A i \in DOMAIN history : i \in DOMAIN history' /\ history'[i] = history[i]
           /\ history'[Len(history')] = e
           /\ \A n \in 0..Len(history) : \A id :
                 /\ \A types : Entries(n, id, types)' = Entries(n, id, types)
                 /\ Bought(n, id)' = Bought(n, id)
  <1>1. /\ history' \in Seq(Entry)
        /\ Len(history') = Len(history) + 1 /\ Len(history) \in Nat
        /\ \A i \in DOMAIN history : i \in DOMAIN history' /\ history'[i] = history[i]
        /\ history'[Len(history')] = e
        /\ DOMAIN history = 1..Len(history)
    BY DEF TypeOK
  <1>2. ASSUME NEW n \in 0..Len(history), NEW id, NEW types
        PROVE  Entries(n, id, types)' = Entries(n, id, types)
    BY <1>1 DEF Entries
  <1>3. ASSUME NEW n \in 0..Len(history), NEW id
        PROVE  Bought(n, id)' = Bought(n, id)
    <2> DEFINE S == Entries(n, id, {"buy_salak"})
    <2>1. S' = S
      BY <1>2
    <2>2. IsFiniteSet(S) /\ S \subseteq DOMAIN history
      BY EntriesShape
    <2>3. \A i \in S : EntryAmount'[i] = EntryAmount[i]
      BY <1>1, <2>2 DEF EntryAmount
    <2> HIDE DEF S
    <2>4. Total(EntryAmount', S) = Total(EntryAmount, S)
      BY <2>2, <2>3, TotalSame
    <2> QED
      BY <2>1, <2>4 DEF Bought, S
  <1> QED
    BY <1>1, <1>2, <1>3

(* A row of a purchase adds its amount to the units of its goal.           *)
LEMMA AppendAdds ==
    ASSUME TypeOK, NEW e \in Entry, history' = Append(history, e), NEW id
    PROVE  Bought(Len(history), id)' =
              Bought(Len(history), id)
                + (IF e.goal = id /\ e.type = "buy_salak" THEN e.amount ELSE 0)
  <1> DEFINE n == Len(history)
             S == Entries(n, id, {"buy_salak"})
             T == Entries(Len(history), id, {"buy_salak"})'
  <1>1. /\ Len(history') = n + 1 /\ n \in Nat
        /\ \A i \in 1..n : history'[i] = history[i]
        /\ history'[n + 1] = e
        /\ history' \in Seq(Entry) /\ DOMAIN history' = 1..n + 1
        /\ DOMAIN history = 1..n
    BY AppendKeeps DEF TypeOK
  <1>2. S \subseteq 1..n /\ IsFiniteSet(S) /\ Bought(n, id) \in Nat
    BY <1>1, EntriesShape, BoughtType
  <1>3. T = IF e.goal = id /\ e.type = "buy_salak" THEN S \cup {n + 1} ELSE S
    BY <1>1 DEF Entries
  <1>4. \A i \in 1..n + 1 : EntryAmount'[i] = history'[i].amount
        /\ history'[i].amount \in Nat
    <2>1. \A i \in 1..n + 1 : history'[i] \in Entry
      BY <1>1
    <2> QED
      BY <1>1, <2>1 DEF EntryAmount, Entry
  <1>5. \A i \in S : EntryAmount'[i] = EntryAmount[i]
    BY <1>1, <1>2, <1>4 DEF EntryAmount, TypeOK
  <1>6. EntryAmount'[n + 1] = e.amount /\ e.amount \in Nat
    <2>1. n + 1 \in 1..n + 1 /\ e.amount \in Nat
      BY <1>1 DEF Entry
    <2> HIDE DEF n
    <2> QED
      BY <1>1, <1>4, <2>1
  <1>7. Bought(Len(history), id)' = Total(EntryAmount', T)
    BY <1>1 DEF Bought
  <1>8. Bought(n, id) = Total(EntryAmount, S)
    BY DEF Bought
  <1>9. n + 1 \notin S
    BY <1>1, <1>2
  <1> HIDE DEF S, T, n
  <1>10. Total(EntryAmount', S) = Total(EntryAmount, S)
    BY <1>2, <1>5, TotalSame
  <1>11. CASE T = S
    <2>1. ~ (e.goal = id /\ e.type = "buy_salak")
      BY <1>3, <1>9, <1>11
    <2> QED
      BY <1>2, <1>7, <1>8, <1>10, <1>11, <2>1 DEF n
  <1>12. CASE T # S
    <2>1. T = S \cup {n + 1} /\ e.goal = id /\ e.type = "buy_salak"
      BY <1>3, <1>12
    <2>2. IsFiniteSet(T) /\ T \ {n + 1} = S /\ n + 1 \in T
      BY <1>2, <1>9, <2>1, FS_AddElement
    <2>3. \A i \in T : EntryAmount'[i] \in Nat
      <3>1. \A i \in T : i \in 1..n + 1
        BY <1>1, <1>2, <2>1
      <3> QED
        BY <3>1, <1>4
    <2>4. Total(EntryAmount', T) = EntryAmount'[n + 1] + Total(EntryAmount', S)
      BY <2>2, <2>3, TotalTakes
    <2> QED
      BY <2>1, <2>4, <1>2, <1>6, <1>7, <1>8, <1>10 DEF n
  <1> QED
    BY <1>11, <1>12

-----------------------------------------------------------------------------
(***************************************************************************)
(* The goals.                                                              *)
(***************************************************************************)

(* The row a request works on is the one active row of the table.          *)
LEMMA ActiveRow ==
    ASSUME TypeOK, GoalRows
    PROVE  /\ Active = NoRow => ActiveIds = {}
           /\ Active # NoRow =>
                 /\ Active \in Row /\ Active.id \in DOMAIN goals
                 /\ goals[Active.id] = Active /\ Active.isActive
                 /\ ActiveIds = {Active.id}
  <1>1. CASE ActiveIds = {}
    BY <1>1 DEF Active
  <1>2. CASE ActiveIds # {}
    <2>1. PICK g \in DOMAIN goals : goals[g].isActive
      BY <1>2 DEF ActiveIds
    <2>2. ActiveIds = {g}
      BY <2>1 DEF ActiveIds, GoalRows
    <2>3. g \in Nat \ {0} /\ goals[g] \in Row
      BY <2>1 DEF TypeOK
    <2>4. Max({g}) = g
      BY <2>3 DEF Max
    <2>5. Active = goals[g]
      BY <2>2, <2>4 DEF Active
    <2>6. goals[g].id = g
      BY <2>1 DEF GoalRows
    <2>7. Active # NoRow
      BY <2>3, <2>5, <2>6 DEF NoRow
    <2> QED
      BY <2>1, <2>2, <2>3, <2>5, <2>6, <2>7
  <1> QED
    BY <1>1, <1>2

(* What every step does to the tables, if anything.                        *)
RowsOnlyGrow ==
    /\ \A g \in DOMAIN goals :
          /\ g \in DOMAIN goals'
          /\ goals'[g].isActive => goals[g].isActive
          /\ goals[g].reached => goals'[g].reached
    /\ Len(history) =< Len(history')
    /\ \A n \in 0..Len(history) : \A id :
          /\ Entries(n, id, Withdrawals)' = Entries(n, id, Withdrawals)
          /\ Bought(n, id)' = Bought(n, id)

RowsStep == goals' \in Seq(Row) /\ history' \in Seq(Entry) /\ GoalRows' /\ RowsOnlyGrow

(* A request that writes a new version of the active row.                  *)
Writes(row, e) ==
    /\ Active # NoRow
    /\ goals' = [goals EXCEPT ![Active.id] = row]
    /\ history' = Append(history, e)

Sound(row, e) ==
    /\ row \in Row /\ row.id = Active.id
    /\ e \in Entry /\ e.goal = Active.id
    /\ row.salak =< row.saving
    /\ row.salak = Active.salak + (IF e.type = "buy_salak" THEN e.amount ELSE 0)
    /\ Active.reached => row.reached
    /\ row.isActive /\ row.reached => row.saving = GoalAmount

(* A service that writes the active row and a sound entry keeps the tables *)
(* in agreement.                                                           *)
LEMMA WritesRowsStep ==
    ASSUME TypeOK, GoalRows, NEW row, NEW e, Writes(row, e), Sound(row, e)
    PROVE  RowsStep /\ Active.id \in DOMAIN goals' /\ goals'[Active.id] = row
  <1> DEFINE k == Active.id
  <1>1. /\ k \in DOMAIN goals /\ goals[k] = Active /\ Active.isActive
        /\ \A g \in DOMAIN goals : goals[g].isActive => g = k
    BY ActiveRow DEF Writes, ActiveIds
  <1>2. /\ goals' \in Seq(Row) /\ DOMAIN goals' = DOMAIN goals
        /\ goals'[k] = row
        /\ \A g \in DOMAIN goals : g # k => goals'[g] = goals[g]
    <2>1. goals \in Seq(Row) /\ row \in Row
      BY DEF TypeOK, Sound
    <2>2. goals' = [goals EXCEPT ![k] = row]
      BY DEF Writes
    <2> HIDE DEF k
    <2> QED
      BY <1>1, <2>1, <2>2
  <1>3. /\ history' \in Seq(Entry)
        /\ Len(history') = Len(history) + 1 /\ Len(history) \in Nat
        /\ \A i \in DOMAIN history : history'[i] = history[i]
        /\ history'[Len(history')] = e
        /\ \A n \in 0..Len(history) : \A id :
              /\ Entries(n, id, Withdrawals)' = Entries(n, id, Withdrawals)
              /\ Bought(n, id)' = Bought(n, id)
    BY AppendKeeps DEF Writes, Sound
  <1>4. \A id : Bought(Len(history), id)' = Bought(Len(history), id)
                   + (IF e.goal = id /\ e.type = "buy_salak" THEN e.amount ELSE 0)
    BY AppendAdds DEF Writes, Sound
  <1>5. \A g \in DOMAIN goals' :
           goals'[g].id = g /\ goals'[g].salak =< goals'[g].saving
    <2> SUFFICES ASSUME NEW g \in DOMAIN goals
                 PROVE  goals'[g].id = g /\ goals'[g].salak =< goals'[g].saving
      BY <1>2
    <2>1. CASE g = k
      BY <1>2, <2>1 DEF Sound
    <2>2. CASE g # k
      BY <1>2, <2>2 DEF GoalRows
    <2> QED
      BY <2>1, <2>2
  <1>6. \A g \in DOMAIN goals' : goals'[g].isActive => g = k
    BY <1>1, <1>2
  <1>7. \A g \in DOMAIN goals' :
           goals'[g].isActive /\ goals'[g].reached => goals'[g].saving = GoalAmount
    BY <1>2, <1>6 DEF Sound
  <1>8. ASSUME NEW g \in DOMAIN goals'
        PROVE  goals'[g].salak = Bought(Len(history), g)'
    <2>1. goals[g].salak = Bought(Len(history), g) /\ Bought(Len(history), g) \in Nat
      BY <1>2, <1>3, <1>8, BoughtType DEF GoalRows
    <2>2. CASE g = k
      BY <1>1, <1>2, <1>4, <2>1, <2>2 DEF Sound
    <2>3. CASE g # k
      <3>1. e.goal # g
        BY <2>3 DEF Sound
      <3> QED
        BY <1>2, <1>4, <1>8, <2>1, <2>3, <3>1
    <2> QED
      BY <2>2, <2>3
  <1>9. \A i \in DOMAIN history' : history'[i].goal \in DOMAIN goals'
    <2> SUFFICES ASSUME NEW i \in DOMAIN history'
                 PROVE  history'[i].goal \in DOMAIN goals
      BY <1>2
    <2>1. DOMAIN history' = 1..Len(history') /\ DOMAIN history = 1..Len(history)
      BY <1>3 DEF TypeOK
    <2>2. CASE i = Len(history')
      BY <1>1, <1>3, <2>2 DEF Sound
    <2>3. CASE i # Len(history')
      <3>1. i \in DOMAIN history
        BY <1>3, <2>1, <2>3
      <3> QED
        BY <1>3, <3>1 DEF GoalRows
    <2> QED
      BY <2>2, <2>3
  <1>10. GoalRows'
    BY <1>5, <1>6, <1>7, <1>8, <1>9 DEF GoalRows
  <1>11. \A g \in DOMAIN goals :
            /\ g \in DOMAIN goals'
            /\ goals'[g].isActive => goals[g].isActive
            /\ goals[g].reached => goals'[g].reached
    BY <1>1, <1>2 DEF Sound
  <1>12. RowsOnlyGrow
    BY <1>3, <1>11 DEF RowsOnlyGrow
  <1> QED
    BY <1>1, <1>2, <1>3, <1>10, <1>12 DEF RowsStep

(* A new goal is active and has bought nothing.                            *)
LEMMA OpensRowsStep ==
    ASSUME TypeOK, GoalRows, Active = NoRow, NEW row,
           row = [NoRow EXCEPT !.id = Len(goals) + 1, !.isActive = TRUE],
           goals' = Append(goals, row), UNCHANGED history
    PROVE  RowsStep /\ row \in Row /\ row.id \in DOMAIN goals' /\ goals'[row.id] = row
  <1> DEFINE k == Len(goals) + 1
  <1>1. /\ row \in Row /\ row.id = k /\ row.salak = 0 /\ row.saving = 0
        /\ row.isActive /\ ~ row.reached /\ Len(goals) \in Nat
    <2>1. Len(goals) \in Nat
      BY DEF TypeOK
    <2>2. row = [id |-> k, saving |-> 0, salak |-> 0, isActive |-> TRUE, reached |-> FALSE]
      BY DEF NoRow
    <2>3. k \in Nat
      BY <2>1
    <2>4. ASSUME NEW n \in Nat, NEW r,
                 r = [id |-> n, saving |-> 0, salak |-> 0, isActive |-> TRUE, reached |-> FALSE]
          PROVE  /\ r \in Row /\ r.id = n /\ r.salak = 0 /\ r.saving = 0
                 /\ r.isActive /\ ~ r.reached
      BY <2>4 DEF Row
    <2> HIDE DEF k
    <2> QED
      BY <2>1, <2>2, <2>3, <2>4
  <1>2. /\ goals' \in Seq(Row) /\ DOMAIN goals' = 1..k /\ DOMAIN goals = 1..Len(goals)
        /\ goals'[k] = row
        /\ \A g \in DOMAIN goals : goals'[g] = goals[g]
    BY <1>1 DEF TypeOK
  <1>3. \A g \in DOMAIN goals : ~ goals[g].isActive
    BY ActiveRow DEF ActiveIds
  <1>4. \A n, id, types : /\ Entries(n, id, types)' = Entries(n, id, types)
                          /\ Bought(n, id)' = Bought(n, id)
    BY DEF Entries, Bought, EntryAmount
  <1>5. Len(history') = Len(history) /\ history' = history
    OBVIOUS
  <1>6. Bought(Len(history), k) = 0
    <2>1. Entries(Len(history), k, {"buy_salak"}) = {}
      <3> SUFFICES ASSUME NEW i \in 1..Len(history), history[i].goal = k PROVE FALSE
        BY DEF Entries
      <3>1. i \in DOMAIN history
        BY DEF TypeOK
      <3>2. k \in DOMAIN goals
        BY <3>1 DEF GoalRows
      <3> QED
        BY <3>2, <1>1, <1>2
    <2> QED
      BY <2>1, TotalEmpty DEF Bought
  <1>7. \A g \in DOMAIN goals' : g \in DOMAIN goals \/ g = k
    BY <1>1, <1>2
  <1>8. DOMAIN goals \subseteq DOMAIN goals' /\ k \in DOMAIN goals'
    BY <1>1, <1>2
  <1> HIDE DEF k
  <1>9. ASSUME NEW g \in DOMAIN goals'
        PROVE  /\ goals'[g].id = g /\ goals'[g].salak =< goals'[g].saving
               /\ goals'[g].isActive => g = k
               /\ goals'[g].isActive /\ goals'[g].reached => goals'[g].saving = GoalAmount
               /\ goals'[g].salak = Bought(Len(history), g)
    <2>1. CASE g \in DOMAIN goals
      BY <1>2, <1>3, <2>1 DEF GoalRows
    <2>2. CASE g = k
      BY <1>1, <1>2, <1>6, <2>2
    <2> QED
      BY <1>7, <2>1, <2>2
  <1>10. \A i \in DOMAIN history' : history'[i].goal \in DOMAIN goals'
    BY <1>5, <1>8 DEF GoalRows
  <1>11. \A g \in DOMAIN goals' : goals'[g].salak = Bought(Len(history), g)'
    BY <1>4, <1>5, <1>9
  <1>12. GoalRows'
    BY <1>9, <1>10, <1>11 DEF GoalRows
  <1>13. RowsOnlyGrow
    <2>1. Len(history) =< Len(history')
      BY <1>5 DEF TypeOK
    <2> QED
      BY <1>2, <1>4, <1>8, <2>1 DEF RowsOnlyGrow
  <1> QED
    BY <1>1, <1>2, <1>5, <1>8, <1>12, <1>13 DEF RowsStep, TypeOK

(* Most steps leave the tables alone.                                      *)
LEMMA SameRowsStep ==
    ASSUME TypeOK, GoalRows, UNCHANGED <<goals, history>>
    PROVE  RowsStep
  <1>1. \A n, id, types : /\ Entries(n, id, types)' = Entries(n, id, types)
                          /\ Bought(n, id)' = Bought(n, id)
    BY DEF Entries, Bought, EntryAmount
  <1>2. GoalRows'
    BY <1>1 DEF GoalRows
  <1>3. RowsOnlyGrow
    <2>1. Len(history) \in Nat
      BY DEF TypeOK
    <2> QED
      BY <1>1, <2>1 DEF RowsOnlyGrow
  <1> QED
    BY <1>2, <1>3 DEF RowsStep, TypeOK

-----------------------------------------------------------------------------
(***************************************************************************)
(* The transactions.  Each either refuses or hands the handler the row it  *)
(* has written, which a request may remember as ended only if it is.       *)
(***************************************************************************)
Handed(d, row) ==
    /\ Committed(d, row)
    /\ row \in Row
    /\ row.id \in DOMAIN goals' /\ goals'[row.id] = row
    /\ row.reached # Active.reached \/ ~ row.isActive =>
          (row.isActive => call[d].op = "Deposit" /\ row.reached)

Outcome(d) == (\E status \in Nat : Refuse(d, status)) \/ (\E row : Handed(d, row))

BalancesStay == savings' \in Nat /\ accepted' \in BOOLEAN

(* A refusal leaves the tables as they are.                                *)
LEMMA RefusalStep ==
    ASSUME TypeOK, GoalRows, NEW d, NEW status \in Nat, Refuse(d, status)
    PROVE  RowsStep /\ BalancesStay /\ Outcome(d)
  <1>1. UNCHANGED <<accepted, savings, goals, history>>
    BY DEF Refuse, money
  <1>2. RowsStep
    BY <1>1, SameRowsStep
  <1> QED
    BY <1>1, <1>2 DEF BalancesStay, Outcome, TypeOK

(* Creating a goal: no other goal is active, so the new one is alone.      *)
LEMMA CreateGoalStep ==
    ASSUME TypeOK, GoalRows, NEW d \in Device, CreateGoal(d)
    PROVE  RowsStep /\ BalancesStay /\ Outcome(d)
  <1>1. CASE GoalRefusal(GoalAmount) # 0
    <2>1. GoalRefusal(GoalAmount) \in Nat
      BY DEF GoalRefusal
    <2>2. Refuse(d, GoalRefusal(GoalAmount))
      BY <1>1 DEF CreateGoal
    <2> QED
      BY <2>1, <2>2, RefusalStep
  <1>2. CASE GoalRefusal(GoalAmount) = 0
    <2> DEFINE row == [NoRow EXCEPT !.id = Len(goals) + 1, !.isActive = TRUE]
    <2>1. /\ Active = NoRow
          /\ goals' = Append(goals, row) /\ Committed(d, row)
          /\ UNCHANGED <<accepted, savings, history>>
      BY <1>2 DEF CreateGoal, GoalRefusal
    <2>2. row.isActive /\ row.reached = FALSE /\ Active.reached = FALSE
      BY <2>1 DEF NoRow
    <2>3. row = [NoRow EXCEPT !.id = Len(goals) + 1, !.isActive = TRUE]
      OBVIOUS
    <2> HIDE DEF row
    <2>4. RowsStep /\ row \in Row /\ row.id \in DOMAIN goals' /\ goals'[row.id] = row
      BY <2>1, <2>3, OpensRowsStep
    <2>5. Handed(d, row)
      BY <2>1, <2>2, <2>4 DEF Handed
    <2> QED
      BY <2>1, <2>4, <2>5 DEF BalancesStay, Outcome, TypeOK
  <1> QED
    BY <1>1, <1>2

(* What the three requests that write the active row have in common.       *)
LEMMA WriterStep ==
    ASSUME TypeOK, GoalRows, NEW d \in Device, NEW row, NEW e,
           Writes(row, e), Sound(row, e), Committed(d, row),
           row.reached # Active.reached \/ ~ row.isActive =>
              (row.isActive => call[d].op = "Deposit" /\ row.reached)
    PROVE  RowsStep /\ Outcome(d)
  <1>1. RowsStep /\ Active.id \in DOMAIN goals' /\ goals'[Active.id] = row
    BY WritesRowsStep
  <1>2. Handed(d, row)
    BY <1>1 DEF Handed, Sound
  <1> QED
    BY <1>1, <1>2 DEF Outcome

(* A deposit fills the goal at most, and a countdown starts when it does.  *)
LEMMA DepositStep ==
    ASSUME TypeOK, GoalRows, NEW d \in Device, Deposit(d)
    PROVE  RowsStep /\ BalancesStay /\ Outcome(d)
  <1> DEFINE a == call[d].amount
             row == AfterDeposit(Active, a)
             e == [goal |-> Active.id, type |-> "deposit", amount |-> a, fee |-> 0]
  <1>0. a \in Nat
    BY DEF TypeOK, Call
  <1>1. CASE DepositRefusal(a) # 0
    <2>1. DepositRefusal(a) \in Nat
      BY DEF DepositRefusal
    <2>2. Refuse(d, DepositRefusal(a))
      BY <1>1 DEF Deposit
    <2> QED
      BY <2>1, <2>2, RefusalStep
  <1>2. CASE DepositRefusal(a) = 0
    <2>1. /\ Active # NoRow /\ ~ (Active.saving + a > GoalAmount) /\ ~ (a > savings)
      BY <1>2 DEF DepositRefusal
    <2>2. /\ call[d].op = "Deposit"
          /\ savings' = savings - a /\ accepted' = accepted
          /\ Writes(row, e) /\ Committed(d, row)
      BY <1>2, <2>1 DEF Deposit, Received, Record, Writes
    <2>3. Active \in Row /\ Active.id \in DOMAIN goals /\ goals[Active.id] = Active
          /\ Active.isActive
      BY <2>1, ActiveRow
    <2>4. /\ Active.salak =< Active.saving
          /\ Active.reached => Active.saving = GoalAmount
      BY <2>3 DEF GoalRows
    <2>5. row \in Row /\ row.id = Active.id /\ row.salak = Active.salak
          /\ row.saving = Active.saving + a /\ row.isActive
          /\ row.reached = (Active.reached \/ Active.saving + a = GoalAmount)
      <3>1. Active.saving + a \in Nat
            /\ (Active.reached \/ Active.saving + a = GoalAmount) \in BOOLEAN
        BY <1>0, <2>3 DEF Row
      <3> HIDE DEF a
      <3> QED
        BY <2>3, <3>1 DEF AfterDeposit, Row
    <2>6. e \in Entry /\ e.goal = Active.id /\ e.type = "deposit"
      BY <1>0, <2>3 DEF Entry, Row
    <2>7. Sound(row, e)
      <3>1. row.salak =< row.saving
        BY <1>0, <2>3, <2>4, <2>5 DEF Row
      <3>2. row.salak = Active.salak + (IF e.type = "buy_salak" THEN e.amount ELSE 0)
        BY <2>3, <2>5, <2>6 DEF Row
      <3>3. row.reached => row.saving = GoalAmount
        BY <1>0, <2>1, <2>3, <2>4, <2>5, ApiAssumption DEF Row
      <3> HIDE DEF row, e
      <3> QED
        BY <2>5, <2>6, <3>1, <3>2, <3>3 DEF Sound
    <2>8. savings' \in Nat /\ accepted' \in BOOLEAN
      BY <1>0, <2>1, <2>2 DEF TypeOK
    <2> HIDE DEF row, e, a
    <2>9. row.reached # Active.reached => row.reached
      <3>1. Active.reached \in BOOLEAN /\ row.reached \in BOOLEAN
        BY <2>3, <2>5 DEF Row
      <3> QED
        BY <2>5, <3>1
    <2> QED
      BY <2>2, <2>5, <2>7, <2>8, <2>9, WriterStep DEF BalancesStay
  <1> QED
    BY <1>1, <1>2

(* A withdrawal takes no more than is there, and ends a countdown by       *)
(* closing the goal.                                                       *)
LEMMA WithdrawStep ==
    ASSUME TypeOK, GoalRows, NEW d \in Device, Withdraw(d)
    PROVE  RowsStep /\ BalancesStay /\ Outcome(d)
  <1> DEFINE a == call[d].amount
             charged == ~ NextWithdrawalIsFree(Active.id)
             fee == computeWithdrawalFee(a, charged)
             row == AfterWithdrawal(Active, a, fee)
             e == [goal |-> Active.id, amount |-> a, fee |-> fee,
                   type |-> IF charged THEN "withdraw_with_fee" ELSE "withdraw"]
  <1>0. a \in Nat /\ fee \in Nat /\ fee =< a
    BY FeeRange DEF TypeOK, Call
  <1>1. CASE WithdrawalRefusal(a) # 0
    <2>1. WithdrawalRefusal(a) \in Nat
      BY DEF WithdrawalRefusal
    <2>2. Refuse(d, WithdrawalRefusal(a))
      BY <1>1 DEF Withdraw
    <2> QED
      BY <2>1, <2>2, RefusalStep
  <1>2. CASE WithdrawalRefusal(a) = 0
    <2>1. Active # NoRow /\ ~ (a > Available(Active))
      BY <1>2 DEF WithdrawalRefusal
    <2>2. /\ savings' = savings + a - fee /\ accepted' = accepted
          /\ Writes(row, e) /\ Committed(d, row)
      BY <1>2, <2>1 DEF Withdraw, Record, Writes
    <2>3. Active \in Row /\ Active.id \in DOMAIN goals /\ goals[Active.id] = Active
          /\ Active.isActive
      BY <2>1, ActiveRow
    <2>4. Active.salak =< Active.saving
      BY <2>3 DEF GoalRows
    <2>5. row \in Row /\ row.id = Active.id /\ row.salak = Active.salak
          /\ row.saving = Active.saving - a /\ row.isActive = (~ Active.reached)
          /\ row.reached = Active.reached /\ row.salak =< row.saving
      <3>1. Active.saving - a \in Nat /\ (~ Active.reached) \in BOOLEAN
            /\ Active.salak =< Active.saving - a
        BY <1>0, <2>1, <2>3, <2>4 DEF Row, Available
      <3> HIDE DEF a, fee
      <3> QED
        BY <2>3, <3>1 DEF AfterWithdrawal, Row
    <2>6. e \in Entry /\ e.goal = Active.id /\ e.type # "buy_salak"
      <3> HIDE DEF a, fee, charged
      <3> QED
        BY <1>0, <2>3 DEF Entry, Row
    <2> HIDE DEF row, e
    <2>7. row.salak = Active.salak + (IF e.type = "buy_salak" THEN e.amount ELSE 0)
      BY <2>3, <2>5, <2>6 DEF Row
    <2>8. Sound(row, e)
      BY <2>5, <2>6, <2>7 DEF Sound
    <2>9. savings' \in Nat /\ accepted' \in BOOLEAN
      BY <1>0, <2>2 DEF TypeOK
    <2> QED
      BY <2>2, <2>5, <2>8, <2>9, WriterStep DEF BalancesStay
  <1> QED
    BY <1>1, <1>2

(* A purchase writes a sound row, by a request or by the worker.           *)
LEMMA PurchaseIsSound ==
    ASSUME TypeOK, GoalRows, Active # NoRow, NEW a \in Nat, a =< Available(Active)
    PROVE  /\ Sound(AfterPurchase(Active, a),
                    [goal |-> Active.id, type |-> "buy_salak", amount |-> a, fee |-> 0])
           /\ AfterPurchase(Active, a).reached = Active.reached
  <1> DEFINE row == AfterPurchase(Active, a)
             e == [goal |-> Active.id, type |-> "buy_salak", amount |-> a, fee |-> 0]
  <1>1. Active \in Row /\ Active.id \in DOMAIN goals /\ goals[Active.id] = Active
        /\ Active.isActive
    BY ActiveRow
  <1>2. Active.reached => Active.saving = GoalAmount
    BY <1>1 DEF GoalRows
  <1>3. row \in Row /\ row.id = Active.id /\ row.salak = Active.salak + a
        /\ row.saving = Active.saving /\ row.reached = Active.reached
        /\ row.salak =< row.saving
    <2>1. Active.salak + a \in Nat /\ (Active.salak + a < GoalAmount) \in BOOLEAN
          /\ Active.salak + a =< Active.saving
      BY <1>1 DEF Row, Available
    <2> QED
      BY <1>1, <2>1 DEF AfterPurchase, Row
  <1>4. e \in Entry /\ e.goal = Active.id /\ e.type = "buy_salak" /\ e.amount = a
    BY <1>1 DEF Entry, Row
  <1> HIDE DEF row, e
  <1>5. Sound(row, e)
    BY <1>2, <1>3, <1>4 DEF Sound
  <1> QED
    BY <1>3, <1>5 DEF row, e

(* A purchase from the goal takes no more than what is saved and not yet   *)
(* spent.                                                                  *)
LEMMA BuyFromGoalStep ==
    ASSUME TypeOK, GoalRows, NEW d \in Device, BuyFromGoal(d)
    PROVE  RowsStep /\ BalancesStay /\ Outcome(d)
  <1> DEFINE a == call[d].amount
             row == AfterPurchase(Active, a)
             e == [goal |-> Active.id, type |-> "buy_salak", amount |-> a, fee |-> 0]
  <1>0. a \in Nat
    BY DEF TypeOK, Call
  <1>1. CASE PurchaseRefusal(a) # 0
    <2>1. PurchaseRefusal(a) \in Nat
      BY DEF PurchaseRefusal
    <2>2. Refuse(d, PurchaseRefusal(a))
      BY <1>1 DEF BuyFromGoal
    <2> QED
      BY <2>1, <2>2, RefusalStep
  <1>2. CASE PurchaseRefusal(a) = 0
    <2>1. Active # NoRow /\ ~ (a > Available(Active))
      BY <1>2 DEF PurchaseRefusal
    <2>2. /\ UNCHANGED <<accepted, savings>>
          /\ Writes(row, e) /\ Committed(d, row)
      BY <1>2, <2>1 DEF BuyFromGoal, Record, Writes
    <2>3. a =< Available(Active)
      <3>1. Active \in Row
        BY <2>1, ActiveRow
      <3> QED
        BY <1>0, <2>1, <3>1 DEF Row, Available
    <2>4. Sound(row, e) /\ row.reached = Active.reached
      BY <1>0, <2>1, <2>3, PurchaseIsSound
    <2>5. savings' \in Nat /\ accepted' \in BOOLEAN
      BY <2>2 DEF TypeOK
    <2> HIDE DEF row, e
    <2> QED
      BY <2>2, <2>4, <2>5, WriterStep DEF BalancesStay
  <1> QED
    BY <1>1, <1>2

(* The worker buys the whole remainder of a full goal and closes it.       *)
LEMMA AutoPurchaseStep ==
    ASSUME TypeOK, GoalRows, AutoPurchase
    PROVE  RowsStep /\ BalancesStay
  <1> DEFINE a == Available(Active)
  <1>1. Active # NoRow
    BY DEF AutoPurchase, NoRow
  <1>2. a \in Nat /\ a =< Available(Active)
    <2>1. Active \in Row /\ Active.salak =< Active.saving
      BY <1>1, ActiveRow DEF GoalRows
    <2> QED
      BY <2>1 DEF Row, Available
  <1>3. Writes(AfterPurchase(Active, a),
               [goal |-> Active.id, type |-> "buy_salak", amount |-> a, fee |-> 0])
    BY <1>1 DEF AutoPurchase, Record, Writes
  <1>4. UNCHANGED <<accepted, savings>>
    BY DEF AutoPurchase
  <1> QED
    BY <1>1, <1>2, <1>3, <1>4, PurchaseIsSound, WritesRowsStep DEF BalancesStay, TypeOK

(* No step breaks a table, and none takes back a row of one.               *)
LEMMA TablesStep ==
    ASSUME TypeOK, GoalRows, [Next]_vars
    PROVE  RowsStep /\ BalancesStay
  <1>1. ASSUME UNCHANGED <<goals, history, savings>>, accepted' \in BOOLEAN
        PROVE  RowsStep /\ BalancesStay
    <2>1. savings' \in Nat
      BY <1>1 DEF TypeOK
    <2> QED
      BY <1>1, <2>1, SameRowsStep DEF BalancesStay
  <1>2. UNCHANGED money => RowsStep /\ BalancesStay
    BY <1>1 DEF money, TypeOK
  <1>3. ASSUME NEW d \in Device, Handle(d)
        PROVE  RowsStep /\ BalancesStay
    <2>1. CASE AcceptTerms(d)
      BY <1>1, <2>1 DEF AcceptTerms
    <2>2. CASE GetTermsStatus(d)
      BY <1>2, <2>2 DEF GetTermsStatus, Refuse
    <2>3. CASE CreateGoal(d)
      BY <2>3, CreateGoalStep
    <2>4. CASE Deposit(d)
      BY <2>4, DepositStep
    <2>5. CASE Withdraw(d)
      BY <2>5, WithdrawStep
    <2>6. CASE BuyFromGoal(d)
      BY <2>6, BuyFromGoalStep
    <2>7. CASE GetActiveGoal(d)
      BY <1>2, <2>7 DEF GetActiveGoal
    <2>8. CASE Snapshot(d)
      BY <1>2, <2>8 DEF Snapshot
    <2>9. CASE GetWithdrawalStatus(d)
      BY <1>2, <2>9 DEF GetWithdrawalStatus, Refuse
    <2>10. CASE QuoteFee(d)
      BY <1>2, <2>10 DEF QuoteFee
    <2>11. CASE GetGoalHistory(d)
      BY <1>2, <2>11 DEF GetGoalHistory
    <2> QED
      BY <1>3, <2>1, <2>2, <2>3, <2>4, <2>5, <2>6, <2>7, <2>8, <2>9, <2>10, <2>11 DEF Handle
  <1>4. CASE AutoPurchase
    BY <1>4, AutoPurchaseStep
  <1>5. CASE UNCHANGED vars
    BY <1>2, <1>5 DEF vars
  <1>6. ASSUME NEW d, NEW op, NEW a, Send(d, op, a)
        PROVE  RowsStep /\ BalancesStay
    BY <1>2, <1>6 DEF Send
  <1>7. ASSUME NEW d, Respond(d) \/ Repeat(d)
        PROVE  RowsStep /\ BalancesStay
    BY <1>2, <1>7 DEF Respond, Repeat
  <1>8. CASE RetireProduct
    BY <1>2, <1>8 DEF RetireProduct
  <1>9. ASSUME NEW r, Release(r)
        PROVE  RowsStep /\ BalancesStay
    BY <1>2, <1>9 DEF Release
  <1> QED
    BY <1>3, <1>4, <1>5, <1>6, <1>7, <1>8, <1>9 DEF Next

-----------------------------------------------------------------------------
(***************************************************************************)
(* The devices.                                                            *)
(***************************************************************************)

(* What is true of a call, an answer or a quote stays true.                *)
LEMMA MomentsPass ==
    ASSUME TypeOK, RowsStep
    PROVE  /\ \A op, g : OutOfReach(op, g) => OutOfReach(op, g)'
           /\ \A row : SeenRow(row) => SeenRow(row)'
           /\ \A row, units : SeenBoth(row, units) => SeenBoth(row, units)'
           /\ \A q \in Quote : QuoteOk(q) => QuoteOk(q)'
  <1>1. /\ Len(history) \in Nat /\ Len(history') \in Nat /\ Len(history) =< Len(history')
        /\ 0..Len(history) \subseteq 0..Len(history')
        /\ \A n \in 0..Len(history) : \A id : Bought(n, id)' = Bought(n, id)
    BY DEF TypeOK, RowsStep, RowsOnlyGrow
  <1>2. ASSUME NEW op, NEW g, OutOfReach(op, g)
        PROVE  OutOfReach(op, g)'
    BY <1>2 DEF OutOfReach, RowsStep, RowsOnlyGrow
  <1>3. ASSUME NEW row, SeenRow(row)
        PROVE  SeenRow(row)'
    BY <1>1, <1>3 DEF SeenRow
  <1>4. ASSUME NEW row, NEW units, SeenBoth(row, units)
        PROVE  SeenBoth(row, units)'
    <2>1. PICK early, late \in 0..Len(history) :
                 early =< late /\ row.salak = Bought(early, row.id)
                               /\ units = Bought(late, row.id)
      BY <1>4 DEF SeenBoth
    <2>2. /\ early \in 0..Len(history') /\ late \in 0..Len(history')
          /\ Bought(early, row.id)' = Bought(early, row.id)
          /\ Bought(late, row.id)' = Bought(late, row.id)
      BY <1>1
    <2> QED
      BY <2>1, <2>2 DEF SeenBoth
  <1>5. ASSUME NEW q \in Quote, QuoteOk(q), q.id # 0
        PROVE  QuoteOk(q)'
    <2>1. q.rows \in 0..Len(history) /\ q.rows =< Len(history')
      BY <1>1, <1>5 DEF QuoteOk, Quote
    <2>2. Entries(q.rows, q.id, Withdrawals)' = Entries(q.rows, q.id, Withdrawals)
      BY <2>1 DEF RowsStep, RowsOnlyGrow
    <2> QED
      BY <1>5, <2>1, <2>2 DEF QuoteOk
  <1>6. ASSUME NEW q, q.id = 0
        PROVE  QuoteOk(q)'
    BY <1>6 DEF QuoteOk
  <1> QED
    BY <1>2, <1>3, <1>4, <1>5, <1>6

(* What holds of a call, and of an answer, is stated of parts of the       *)
(* history and of goals that stay closed, so no writing step of anybody    *)
(* undoes it.                                                              *)
LEMMA OkStaysOk ==
    ASSUME TypeOK, RowsStep, onSale' => onSale
    PROVE  \A c : /\ CallOk(c) => CallOk(c)'
                  /\ ToldOk(c) => ToldOk(c)'
  BY MomentsPass DEF CallOk, ToldOk

(* A step in which a device's call, answer and quote are replaced.         *)
LEMMA DeviceStep ==
    ASSUME Inv, RowsStep, BalancesStay, UNCHANGED <<onSale, rate>>,
           sent' \in 0..MaxRequests,
           NEW d \in Device, NEW c \in Call, NEW t \in Call, NEW q \in Quote,
           call' = [call EXCEPT ![d] = c], CallOk(c)',
           told' = [told EXCEPT ![d] = t], ToldOk(t)',
           quote' = [quote EXCEPT ![d] = q], QuoteOk(q)'
    PROVE  Inv'
  <1>1. /\ call \in [Device -> Call] /\ told \in [Device -> Call]
        /\ quote \in [Device -> Quote]
    BY DEF Inv, TypeOK
  <1>2. /\ call' \in [Device -> Call] /\ told' \in [Device -> Call]
        /\ quote' \in [Device -> Quote]
        /\ call'[d] = c /\ told'[d] = t /\ quote'[d] = q
        /\ \A x \in Device \ {d} : /\ call'[x] = call[x] /\ told'[x] = told[x]
                                   /\ quote'[x] = quote[x]
    BY <1>1
  <1>3. TypeOK'
    BY <1>2 DEF TypeOK, Inv, RowsStep, BalancesStay
  <1>4. ASSUME NEW x \in Device \ {d}
        PROVE  CallOk(call[x])' /\ ToldOk(told[x])' /\ QuoteOk(quote[x])'
    <2>1. PICK cx, tx, qx : cx = call[x] /\ tx = told[x] /\ qx = quote[x]
      OBVIOUS
    <2>2. CallOk(cx) /\ ToldOk(tx) /\ QuoteOk(qx) /\ qx \in Quote
      BY <1>1, <2>1 DEF Inv
    <2>3. CallOk(cx)' /\ ToldOk(tx)' /\ QuoteOk(qx)'
      BY <2>2, MomentsPass, OkStaysOk DEF Inv
    <2>4. call'[x] = cx /\ told'[x] = tx /\ quote'[x] = qx
      BY <1>2, <2>1
    <2> QED
      BY <2>3, <2>4
  <1>5. CallOk(call[d])' /\ ToldOk(told[d])' /\ QuoteOk(quote[d])'
    BY <1>2
  <1>6. GoalRows'
    BY DEF RowsStep
  <1> QED
    BY <1>3, <1>4, <1>5, <1>6 DEF Inv

(* A step in which only a device's call changes.                           *)
LEMMA CallStep ==
    ASSUME Inv, RowsStep, BalancesStay, UNCHANGED <<onSale, rate, told, quote, sent>>,
           NEW d \in Device, NEW c \in Call,
           call' = [call EXCEPT ![d] = c], CallOk(c)'
    PROVE  Inv'
  <1>1. PICK t, q : t = told[d] /\ q = quote[d]
    OBVIOUS
  <1>2. t \in Call /\ q \in Quote /\ ToldOk(t) /\ QuoteOk(q) /\ sent \in 0..MaxRequests
        /\ told \in [Device -> Call] /\ quote \in [Device -> Quote]
    BY <1>1 DEF Inv, TypeOK
  <1>3. ToldOk(t)' /\ QuoteOk(q)'
    BY <1>2, MomentsPass, OkStaysOk DEF Inv
  <1>4. told' = [told EXCEPT ![d] = t] /\ quote' = [quote EXCEPT ![d] = q]
    BY <1>1, <1>2
  <1> QED
    BY <1>2, <1>3, <1>4, DeviceStep

(* What the handlers put into a call; the rest stays.                      *)
LEMMA CallFields ==
    ASSUME NEW c \in Call
    PROVE  /\ \A at \in {"idle", "service", "snapshot", "count", "respond"}, status \in Nat :
                 /\ [c EXCEPT !.at = at, !.status = status] \in Call
                 /\ \A row \in Row :
                       [c EXCEPT !.at = at, !.row = row, !.status = status] \in Call
                 /\ \A units \in Nat :
                       [c EXCEPT !.at = at, !.status = status, !.units = units] \in Call
                 /\ \A fees \in Seq(Nat) :
                       [c EXCEPT !.at = at, !.status = status, !.fees = fees] \in Call
           /\ \A at \in {"idle", "service", "snapshot", "count", "respond"}, row \in Row :
                 /\ [c EXCEPT !.at = at, !.row = row] \in Call
                 /\ \A ended \in SUBSET Nat :
                       [c EXCEPT !.at = at, !.row = row, !.applied = TRUE, !.ended = ended]
                          \in Call
  BY ZenonT(60) DEF Call

(* The service refuses, or answers without a row.                          *)
LEMMA RefuseStep ==
    ASSUME Inv, RowsStep, BalancesStay, UNCHANGED <<world, client>>,
           NEW d \in Device, call[d].at = "service", NEW status \in Nat,
           call' = [call EXCEPT ![d].at = "respond", ![d].status = status]
    PROVE  Inv'
  <1>1. PICK b : b = call[d]
    OBVIOUS
  <1>2. PICK c : c = [b EXCEPT !.at = "respond", !.status = status]
    OBVIOUS
  <1>3. b \in Call /\ CallOk(b) /\ call \in [Device -> Call]
    BY <1>1 DEF Inv, TypeOK
  <1>4. call' = [call EXCEPT ![d] = c]
    BY <1>1, <1>2, <1>3
  <1>5. c \in Call
    BY <1>2, <1>3, CallFields
  <1>6. /\ c.at = "respond" /\ c.op = b.op /\ c.amount = b.amount
        /\ c.applied = b.applied /\ c.row = b.row /\ c.ended = b.ended
    BY <1>2, <1>3 DEF Call
  <1>7. CallOk(b)'
    BY <1>3, OkStaysOk DEF Inv, world
  <1>8. ~ b.applied /\ b.row = NoRow
    BY <1>1, <1>3 DEF CallOk
  <1>9. CallOk(c)'
    BY <1>6, <1>7, <1>8 DEF CallOk, FailedAfterCommit, HasSnapshot
  <1> QED
    BY <1>4, <1>5, <1>9, CallStep DEF world, client

(* The service commits.                                                    *)
LEMMA CommitStep ==
    ASSUME Inv, RowsStep, BalancesStay,
           NEW d \in Device, call[d].at = "service", NEW row, Handed(d, row)
    PROVE  Inv'
  <1>1. PICK b : b = call[d]
    OBVIOUS
  <1>2. PICK ended : ended = IF row.reached # Active.reached \/ ~ row.isActive
                             THEN b.ended \cup {row.id} ELSE b.ended
    OBVIOUS
  <1>3. PICK c : c = [b EXCEPT !.at = "snapshot", !.row = row, !.applied = TRUE, !.ended = ended]
    OBVIOUS
  <1>4. b \in Call /\ CallOk(b) /\ call \in [Device -> Call] /\ row \in Row
    BY <1>1 DEF Inv, TypeOK, Handed
  <1>5. call' = [call EXCEPT ![d] = c] /\ UNCHANGED <<world, client>>
    BY <1>1, <1>2, <1>3, <1>4 DEF Handed, Committed
  <1>6. ended \in SUBSET Nat
    BY <1>2, <1>4 DEF Call, Row
  <1>7. c \in Call
    BY <1>3, <1>4, <1>6, CallFields
  <1>8. /\ c.at = "snapshot" /\ c.op = b.op /\ c.amount = b.amount
        /\ c.status = b.status /\ c.row = row /\ c.ended = ended
    BY <1>3, <1>4 DEF Call
  <1>9. CallOk(b)' /\ b.status = 0
    BY <1>1, <1>4, <1>5, OkStaysOk DEF Inv, world, CallOk
  <1>10. ~ FailedAfterCommit(c)
    BY <1>8, <1>9 DEF FailedAfterCommit
  <1>11. \A g \in c.ended : OutOfReach(c.op, g)'
    <2> SUFFICES ASSUME NEW g \in ended PROVE OutOfReach(b.op, g)'
      BY <1>8
    <2>1. CASE g \in b.ended
      BY <1>9, <2>1 DEF CallOk
    <2>2. CASE g \notin b.ended
      <3>1. g = row.id /\ (row.reached # Active.reached \/ ~ row.isActive)
        BY <1>2, <2>2
      <3>2. g \in DOMAIN goals' /\ goals'[g] = row
            /\ (row.isActive => b.op = "Deposit" /\ row.reached)
        BY <1>1, <3>1 DEF Handed
      <3> QED
        BY <3>2 DEF OutOfReach
    <2> QED
      BY <2>1, <2>2
  <1>12. SeenRow(row)'
    <2>1. row.id \in DOMAIN goals' /\ goals'[row.id] = row
      BY DEF Handed
    <2>2. row.salak = Bought(Len(history), row.id)'
      BY <2>1 DEF RowsStep, GoalRows
    <2>3. Len(history') \in 0..Len(history')
      BY DEF RowsStep
    <2> QED
      BY <2>2, <2>3 DEF SeenRow
  <1>13. CallOk(c)'
    BY <1>8, <1>9, <1>10, <1>11, <1>12 DEF CallOk, FailedAfterCommit
  <1> QED
    BY <1>5, <1>7, <1>13, CallStep DEF world, client

(* The step of a service in the hands of one device keeps what holds of    *)
(* all.                                                                    *)
LEMMA OutcomeStep ==
    ASSUME Inv, RowsStep, BalancesStay, NEW d \in Device, call[d].at = "service", Outcome(d)
    PROVE  Inv'
  BY RefuseStep, CommitStep DEF Outcome, Refuse

(* A row of the table is true of the moment it is read.                    *)
LEMMA TableRowSeen ==
    ASSUME TypeOK, GoalRows, NEW g \in DOMAIN goals
    PROVE  SeenRow(goals[g])
  <1>1. goals[g].id = g /\ goals[g].salak = Bought(Len(history), g)
    BY DEF GoalRows
  <1>2. Len(history) \in 0..Len(history)
    BY DEF TypeOK
  <1> QED
    BY <1>1, <1>2 DEF SeenRow

(* A dashboard reads the row of one moment ...                             *)
LEMMA GetActiveGoalStep ==
    ASSUME Inv, NEW d \in Device, GetActiveGoal(d)
    PROVE  Inv'
  <1>1. PICK b : b = call[d]
    OBVIOUS
  <1>2. PICK row : row = Active
    OBVIOUS
  <1>3. PICK at : at = IF row = NoRow THEN "respond" ELSE "snapshot"
    OBVIOUS
  <1>4. PICK c : c = [b EXCEPT !.at = at, !.row = row, !.status = 200]
    OBVIOUS
  <1>5. /\ b \in Call /\ CallOk(b) /\ call \in [Device -> Call]
        /\ b.at = "service" /\ b.op = "GetActiveGoal"
    BY <1>1 DEF Inv, TypeOK, GetActiveGoal, Received
  <1>6. row \in Row /\ (row # NoRow => SeenRow(row))
    <2>1. NoRow \in Row
      BY DEF NoRow, Row
    <2> QED
      BY <1>2, <2>1, ActiveRow, TableRowSeen DEF Inv
  <1>7. /\ call' = [call EXCEPT ![d] = c]
        /\ UNCHANGED <<money, world, client>>
    BY <1>1, <1>2, <1>3, <1>4, <1>5, ZenonT(60) DEF GetActiveGoal
  <1>8. c \in Call
    <2>1. PICK status : status = 200
      OBVIOUS
    <2>2. /\ at \in {"idle", "service", "snapshot", "count", "respond"}
          /\ status \in Nat
      BY <1>3, <2>1
    <2>3. [b EXCEPT !.at = at, !.row = row, !.status = status] \in Call
      BY <1>5, <1>6, <2>2, CallFields
    <2> QED
      BY <1>4, <2>1, <2>3
  <1>9. /\ c.at = at /\ c.op = b.op /\ c.amount = b.amount /\ c.status = 200
        /\ c.row = row /\ c.ended = b.ended
    BY <1>4, <1>5 DEF Call
  <1>10. RowsStep /\ BalancesStay
    BY <1>7, SameRowsStep DEF Inv, TypeOK, money, BalancesStay
  <1>11. CallOk(b)' /\ (row # NoRow => SeenRow(row)')
    BY <1>5, <1>6, <1>7, <1>10, OkStaysOk, MomentsPass DEF Inv, world
  <1>12. CallOk(c)'
    BY <1>3, <1>5, <1>9, <1>11 DEF CallOk, FailedAfterCommit, HasSnapshot
  <1> QED
    BY <1>7, <1>8, <1>10, <1>12, CallStep DEF world, client

(* ... and counts the units bought at a later one, or fails without a      *)
(* product.                                                                *)
LEMMA SnapshotStep ==
    ASSUME Inv, NEW d \in Device, Snapshot(d)
    PROVE  Inv'
  <1>1. PICK b : b = call[d]
    OBVIOUS
  <1>2. PICK units : units = PurchasedUnits(b.row)
    OBVIOUS
  <1>3. PICK status : status = IF SnapshotFails(b.row) THEN 400 ELSE 200
    OBVIOUS
  <1>4. PICK c : c = [b EXCEPT !.at = "respond", !.status = status, !.units = units]
    OBVIOUS
  <1>5. /\ b \in Call /\ CallOk(b) /\ call \in [Device -> Call] /\ b.at = "snapshot"
    BY <1>1 DEF Inv, TypeOK, Snapshot
  <1>6. /\ call' = [call EXCEPT ![d] = c]
        /\ UNCHANGED <<money, world, client>>
    <2>1. /\ call' = [call EXCEPT ![d] = [call[d] EXCEPT
                          !.at = "respond",
                          !.status = IF SnapshotFails(call[d].row) THEN 400 ELSE 200,
                          !.units = PurchasedUnits(call[d].row)]]
          /\ UNCHANGED <<money, world, client>>
      BY <1>5, ZenonT(60) DEF Snapshot
    <2> QED
      BY <1>1, <1>2, <1>3, <1>4, <2>1
  <1>7. Len(history) \in Nat /\ units = Bought(Len(history), b.row.id) /\ units \in Nat
    BY <1>2, BoughtType DEF PurchasedUnits, Inv, TypeOK
  <1>8. c \in Call
    <2>1. status \in Nat
      BY <1>3
    <2> QED
      BY <1>4, <1>5, <1>7, <2>1, CallFields
  <1>9. /\ c.at = "respond" /\ c.op = b.op /\ c.amount = b.amount /\ c.status = status
        /\ c.row = b.row /\ c.ended = b.ended /\ c.units = units
    BY <1>4, <1>5 DEF Call
  <1>10. SeenBoth(b.row, units)
    <2>1. PICK early \in 0..Len(history) : b.row.salak = Bought(early, b.row.id)
      BY <1>5 DEF CallOk, SeenRow
    <2>2. Len(history) \in 0..Len(history) /\ early =< Len(history)
      BY <1>7, <2>1
    <2> QED
      BY <1>7, <2>1, <2>2 DEF SeenBoth
  <1>11. RowsStep /\ BalancesStay
    BY <1>6, SameRowsStep DEF Inv, TypeOK, money, BalancesStay
  <1>12. CallOk(b)' /\ SeenBoth(b.row, units)'
    <2>1. PICK row : row = b.row
      OBVIOUS
    <2> QED
      BY <1>5, <1>6, <1>10, <1>11, <2>1, OkStaysOk, MomentsPass DEF Inv, world
  <1>13. status >= 400 => ~ onSale'
    BY <1>3, <1>6 DEF SnapshotFails, world
  <1>14. CallOk(c)'
    BY <1>9, <1>12, <1>13 DEF CallOk, FailedAfterCommit
  <1> QED
    BY <1>6, <1>8, <1>11, <1>14, CallStep DEF world, client

(* The two readings behind the withdrawal status write nothing.            *)
LEMMA GetWithdrawalStatusStep ==
    ASSUME Inv, NEW d \in Device, GetWithdrawalStatus(d)
    PROVE  Inv'
  <1>1. UNCHANGED <<money, world, client>>
    BY DEF GetWithdrawalStatus, Refuse
  <1>2. RowsStep /\ BalancesStay
    BY <1>1, SameRowsStep DEF Inv, TypeOK, money, BalancesStay
  <1>3. CASE Active = NoRow
    BY <1>1, <1>2, <1>3, RefuseStep DEF GetWithdrawalStatus, Refuse, Received
  <1>4. CASE Active # NoRow
    <2>1. PICK b : b = call[d]
      OBVIOUS
    <2>2. PICK row : row = Active
      OBVIOUS
    <2>3. PICK c : c = [b EXCEPT !.at = "count", !.row = row]
      OBVIOUS
    <2>4. /\ b \in Call /\ CallOk(b) /\ call \in [Device -> Call]
          /\ b.at = "service" /\ b.op = "GetWithdrawalStatus"
      BY <2>1 DEF Inv, TypeOK, GetWithdrawalStatus, Received
    <2>5. row \in Row /\ call' = [call EXCEPT ![d] = c]
      BY <1>4, <2>1, <2>2, <2>3, <2>4, ActiveRow DEF GetWithdrawalStatus, Inv
    <2>6. c \in Call
      BY <2>3, <2>4, <2>5, CallFields
    <2>7. /\ c.at = "count" /\ c.op = b.op /\ c.amount = b.amount /\ c.status = b.status
          /\ c.applied = b.applied /\ c.ended = b.ended
      BY <2>3, <2>4 DEF Call
    <2>8. CallOk(b)'
      BY <1>1, <1>2, <2>4, OkStaysOk DEF Inv, world
    <2>9. CallOk(c)'
      BY <2>4, <2>7, <2>8 DEF CallOk, FailedAfterCommit, HasSnapshot
    <2> QED
      BY <1>1, <1>2, <2>5, <2>6, <2>9, CallStep DEF world, client
  <1> QED
    BY <1>3, <1>4

(* A quote remembers the history and the rate it was computed from.        *)
LEMMA QuoteFeeStep ==
    ASSUME Inv, NEW d \in Device, QuoteFee(d)
    PROVE  Inv'
  <1>1. PICK b : b = call[d]
    OBVIOUS
  <1>2. PICK c : c = [b EXCEPT !.at = "respond", !.status = 200]
    OBVIOUS
  <1>3. PICK q : q = [id |-> b.row.id, amount |-> b.amount,
                      fee |-> QuotedFee(b.row.id, b.amount),
                      rate |-> rate, rows |-> Len(history)]
    OBVIOUS
  <1>4. PICK t : t = told[d]
    OBVIOUS
  <1>5. /\ b \in Call /\ CallOk(b) /\ call \in [Device -> Call] /\ b.at = "count"
        /\ t \in Call /\ ToldOk(t) /\ told \in [Device -> Call]
        /\ sent \in 0..MaxRequests
    BY <1>1, <1>4 DEF Inv, TypeOK, QuoteFee
  <1>6. /\ call' = [call EXCEPT ![d] = c] /\ quote' = [quote EXCEPT ![d] = q]
        /\ told' = [told EXCEPT ![d] = t]
        /\ UNCHANGED <<money, world, told, sent>>
    BY <1>1, <1>2, <1>3, <1>4, <1>5 DEF QuoteFee
  <1>7. c \in Call
    <2>1. PICK status \in Nat : status = 200
      OBVIOUS
    <2>2. [b EXCEPT !.at = "respond", !.status = status] \in Call
      BY <1>5, CallFields
    <2> QED
      BY <1>2, <2>1, <2>2
  <1>8. /\ c.at = "respond" /\ c.op = b.op /\ c.amount = b.amount /\ c.status = 200
        /\ c.ended = b.ended /\ b.op = "GetWithdrawalStatus"
    BY <1>2, <1>5 DEF Call, CallOk
  <1>9. b.row.id \in Nat /\ b.amount \in Nat /\ Len(history) \in Nat /\ rate \in Nat
    <2>1. rate \in 0..100 /\ history \in Seq(Entry)
      BY ApiAssumption DEF Inv, TypeOK
    <2>2. b.row \in Row /\ b.amount \in Nat
      BY <1>5 DEF Call
    <2> QED
      BY <2>1, <2>2 DEF Row
  <1>10. q \in Quote
    BY <1>3, <1>9, FeeRange DEF Quote, QuotedFee, Inv
  <1>11. QuoteOk(q)
    BY <1>3, <1>9 DEF QuoteOk, QuotedFee, NextWithdrawalIsFree, computeWithdrawalFee, FeeOf
  <1>12. RowsStep /\ BalancesStay
    BY <1>6, SameRowsStep DEF Inv, TypeOK, money, BalancesStay
  <1>13. CallOk(b)' /\ ToldOk(t)' /\ QuoteOk(q)'
    BY <1>5, <1>6, <1>10, <1>11, <1>12, OkStaysOk, MomentsPass DEF Inv, world
  <1>14. CallOk(c)'
    BY <1>8, <1>13 DEF CallOk, FailedAfterCommit, HasSnapshot
  <1> QED
    BY <1>5, <1>6, <1>7, <1>10, <1>12, <1>13, <1>14, DeviceStep DEF world

(* Reading the history of a goal writes nothing.                           *)
LEMMA GetGoalHistoryStep ==
    ASSUME Inv, NEW d \in Device, GetGoalHistory(d)
    PROVE  Inv'
  <1>1. PICK b : b = call[d]
    OBVIOUS
  <1>2. PICK status : status = IF goals = <<>> THEN 404 ELSE 200
    OBVIOUS
  <1>3. PICK fees : fees = [i \in 1..Len(history) |->
                               computeWithdrawalFee(history[i].amount,
                                   history[i].type = "withdraw_with_fee")]
    OBVIOUS
  <1>4. PICK c : c = [b EXCEPT !.at = "respond", !.status = status, !.fees = fees]
    OBVIOUS
  <1>5. /\ b \in Call /\ CallOk(b) /\ call \in [Device -> Call] /\ b.at = "service"
    BY <1>1 DEF Inv, TypeOK, GetGoalHistory, Received
  <1>6. /\ call' = [call EXCEPT ![d] = c]
        /\ UNCHANGED <<money, world, client>>
    <2>1. /\ call' = [call EXCEPT ![d] = [call[d] EXCEPT
                          !.at = "respond",
                          !.status = IF goals = <<>> THEN 404 ELSE 200,
                          !.fees = [i \in 1..Len(history) |->
                                      computeWithdrawalFee(history[i].amount,
                                          history[i].type = "withdraw_with_fee")]]]
          /\ UNCHANGED <<money, world, client>>
      BY <1>5, ZenonT(60) DEF GetGoalHistory
    <2> QED
      BY <1>1, <1>2, <1>3, <1>4, <2>1
  <1>7. fees \in Seq(Nat)
    <2>1. Len(history) \in Nat /\ \A i \in 1..Len(history) : history[i] \in Entry
      BY DEF Inv, TypeOK
    <2>2. \A i \in 1..Len(history) : computeWithdrawalFee(history[i].amount,
                                        history[i].type = "withdraw_with_fee") \in Nat
      BY <2>1, FeeRange DEF Inv, Entry
    <2> QED
      BY <1>3, <2>1, <2>2
  <1>8. c \in Call
    <2>1. status \in Nat
      BY <1>2
    <2> QED
      BY <1>4, <1>5, <1>7, <2>1, CallFields
  <1>9. /\ c.at = "respond" /\ c.op = b.op /\ c.amount = b.amount
        /\ c.applied = b.applied /\ c.row = b.row /\ c.ended = b.ended
    BY <1>4, <1>5 DEF Call
  <1>10. RowsStep /\ BalancesStay
    BY <1>6, SameRowsStep DEF Inv, TypeOK, money, BalancesStay
  <1>11. CallOk(b)' /\ ~ b.applied /\ b.row = NoRow
    BY <1>5, <1>6, <1>10, OkStaysOk DEF Inv, world, CallOk
  <1>12. CallOk(c)'
    BY <1>9, <1>11 DEF CallOk, FailedAfterCommit, HasSnapshot
  <1> QED
    BY <1>6, <1>8, <1>10, <1>12, CallStep DEF world, client

(* Every step of a handler keeps the invariant.                            *)
LEMMA HandleStep ==
    ASSUME Inv, [Next]_vars, NEW d \in Device, Handle(d)
    PROVE  Inv'
  <1>1. RowsStep /\ BalancesStay
    BY TablesStep DEF Inv
  <1>2. CASE AcceptTerms(d)
    BY <1>1, <1>2, RefuseStep, ZenonT(60) DEF AcceptTerms, Received
  <1>3. CASE GetTermsStatus(d)
    BY <1>1, <1>3, RefuseStep, ZenonT(60) DEF GetTermsStatus, Received, Refuse
  <1>4. CASE CreateGoal(d)
    BY <1>1, <1>4, CreateGoalStep, OutcomeStep DEF CreateGoal, Received, Inv
  <1>5. CASE Deposit(d)
    BY <1>1, <1>5, DepositStep, OutcomeStep DEF Deposit, Received, Inv
  <1>6. CASE Withdraw(d)
    BY <1>1, <1>6, WithdrawStep, OutcomeStep DEF Withdraw, Received, Inv
  <1>7. CASE BuyFromGoal(d)
    BY <1>1, <1>7, BuyFromGoalStep, OutcomeStep DEF BuyFromGoal, Received, Inv
  <1> QED
    BY <1>2, <1>3, <1>4, <1>5, <1>6, <1>7, GetActiveGoalStep, SnapshotStep,
       GetWithdrawalStatusStep, QuoteFeeStep, GetGoalHistoryStep DEF Handle

(* A device that asks nothing and was told nothing.                        *)
LEMMA IdleOk == Idle \in Call /\ CallOk(Idle) /\ ToldOk(Idle)
  <1>1. NoRow \in Row
    BY DEF NoRow, Row
  <1>2. 0 \in 0..MaxTries
    BY ApiAssumption
  <1>3. Idle \in Call
    BY <1>1, <1>2 DEF Idle, Call, Operation
  <1>4. CallOk(Idle) /\ ToldOk(Idle)
    BY DEF Idle, CallOk, ToldOk, FailedAfterCommit, HasSnapshot, Moving
  <1> QED
    BY <1>3, <1>4

(* A request that has just been sent, or sent again, breaks nothing.       *)
LEMMA FreshCall ==
    ASSUME Inv, NEW op \in Operation, NEW a \in Nat, op \in Moving => a > 0,
           NEW n \in 1..MaxTries, NEW ended \in SUBSET Nat,
           \A g \in ended : OutOfReach(op, g),
           NEW c, \/ c = [Idle EXCEPT !.at = "service", !.op = op, !.amount = a,
                                      !.tries = n, !.ended = ended]
                  \/ /\ c = [Idle EXCEPT !.at = "service", !.op = op, !.amount = a, !.tries = n]
                     /\ ended = {}
    PROVE  c \in Call /\ CallOk(c)
  <1>1. n \in 0..MaxTries
    BY ApiAssumption
  <1>2. PICK b \in Call : b = Idle
    BY IdleOk
  <1>3. /\ b.status = 0 /\ b.row = NoRow /\ b.applied = FALSE /\ b.ended = {}
    BY <1>2 DEF Idle
  <1>4. \/ c = [b EXCEPT !.at = "service", !.op = op, !.amount = a,
                        !.tries = n, !.ended = ended]
        \/ /\ c = [b EXCEPT !.at = "service", !.op = op, !.amount = a, !.tries = n]
           /\ ended = {}
    BY <1>2
  <1>5. c \in Call
    BY <1>1, <1>4, ZenonT(60) DEF Call
  <1>6. /\ c.at = "service" /\ c.op = op /\ c.amount = a /\ c.ended = ended
        /\ c.status = 0 /\ c.row = NoRow /\ c.applied = FALSE
    <2>1. CASE c = [b EXCEPT !.at = "service", !.op = op, !.amount = a,
                             !.tries = n, !.ended = ended]
      BY <1>3, <2>1 DEF Call
    <2>2. CASE /\ c = [b EXCEPT !.at = "service", !.op = op, !.amount = a, !.tries = n]
               /\ ended = {}
      BY <1>3, <2>2 DEF Call
    <2> QED
      BY <1>4, <2>1, <2>2
  <1>7. CallOk(c)
    BY <1>6 DEF CallOk, FailedAfterCommit
  <1> QED
    BY <1>5, <1>7

(* A new request has taken no effect and ended no goal.                    *)
LEMMA SendStep ==
    ASSUME Inv, NEW d \in Device, NEW op \in Operation, NEW a \in Amounts(op), Send(d, op, a)
    PROVE  Inv'
  <1>1. a \in Nat /\ (op \in Moving => a > 0)
    BY ApiAssumption DEF Amounts
  <1>2. PICK c : c = [Idle EXCEPT !.at = "service", !.op = op, !.amount = a, !.tries = 1]
    OBVIOUS
  <1>3. 1 \in 1..MaxTries
    BY ApiAssumption
  <1>4. c \in Call /\ CallOk(c)
    BY <1>1, <1>2, <1>3, FreshCall
  <1>6. /\ call' = [call EXCEPT ![d] = c] /\ UNCHANGED <<money, world, told, quote>>
        /\ sent < MaxRequests /\ sent' = sent + 1
    BY <1>2 DEF Send
  <1>7. RowsStep /\ BalancesStay
    BY <1>6, SameRowsStep DEF Inv, TypeOK, money, BalancesStay
  <1>8. PICK t, q : t = told[d] /\ q = quote[d]
    OBVIOUS
  <1>9. /\ t \in Call /\ q \in Quote /\ ToldOk(t) /\ QuoteOk(q)
        /\ told' = [told EXCEPT ![d] = t] /\ quote' = [quote EXCEPT ![d] = q]
        /\ sent' \in 0..MaxRequests
    BY <1>6, <1>8, ApiAssumption DEF Inv, TypeOK
  <1>10. CallOk(c)' /\ ToldOk(t)' /\ QuoteOk(q)'
    BY <1>4, <1>6, <1>7, <1>9, OkStaysOk, MomentsPass DEF Inv, world
  <1> QED
    BY <1>4, <1>6, <1>7, <1>9, <1>10, DeviceStep DEF world

(* What a device is told is what its call has become.                      *)
LEMMA AnswerOk ==
    ASSUME Inv, NEW d \in Device, call[d].at = "respond"
    PROVE  Answer(d) \in Call /\ ToldOk(Answer(d))
  <1>1. call[d] \in Call /\ CallOk(call[d])
    BY DEF Inv, TypeOK
  <1>2. 0 \in 0..MaxTries
    BY ApiAssumption
  <1>3. Answer(d) \in Call
    BY <1>1, <1>2 DEF Answer, Call
  <1>4. /\ Answer(d).op = call[d].op /\ Answer(d).status = call[d].status
        /\ Answer(d).row = call[d].row /\ Answer(d).units = call[d].units
        /\ Answer(d).applied = call[d].applied
    BY <1>1 DEF Answer, Call
  <1>5. ToldOk(Answer(d))
    BY <1>1, <1>4 DEF CallOk, ToldOk, FailedAfterCommit, HasSnapshot
  <1> QED
    BY <1>3, <1>5

(* An answer carries over what holds of the call.                          *)
LEMMA RespondStep ==
    ASSUME Inv, NEW d \in Device, Respond(d)
    PROVE  Inv'
  <1>1. PICK c, t, q : c = Idle /\ t = Answer(d) /\ q = quote[d]
    OBVIOUS
  <1>2. /\ call' = [call EXCEPT ![d] = c] /\ told' = [told EXCEPT ![d] = t]
        /\ UNCHANGED <<money, world, quote, sent>>
    BY <1>1 DEF Respond
  <1>3. /\ c \in Call /\ CallOk(c) /\ t \in Call /\ ToldOk(t) /\ q \in Quote /\ QuoteOk(q)
        /\ quote' = [quote EXCEPT ![d] = q] /\ sent' \in 0..MaxRequests
    BY <1>1, <1>2, IdleOk, AnswerOk DEF Inv, TypeOK, Respond
  <1>4. RowsStep /\ BalancesStay
    BY <1>2, SameRowsStep DEF Inv, TypeOK, money, BalancesStay
  <1>5. CallOk(c)' /\ ToldOk(t)' /\ QuoteOk(q)'
    BY <1>2, <1>3, <1>4, OkStaysOk, MomentsPass DEF Inv, world
  <1> QED
    BY <1>2, <1>3, <1>4, <1>5, DeviceStep DEF world

(* A request that is sent again remembers the goals it has ended.          *)
LEMMA RepeatStep ==
    ASSUME Inv, NEW d \in Device, Repeat(d)
    PROVE  Inv'
  <1>1. PICK b : b = call[d]
    OBVIOUS
  <1>2. PICK n, ended : n = b.tries + 1 /\ ended = b.ended
    OBVIOUS
  <1>3. PICK c : c = [Idle EXCEPT !.at = "service", !.op = b.op, !.amount = b.amount,
                                  !.tries = n, !.ended = ended]
    OBVIOUS
  <1>4. PICK t, q : t = (IF b.status >= 400 THEN Answer(d) ELSE told[d]) /\ q = quote[d]
    OBVIOUS
  <1>5. b \in Call /\ CallOk(b) /\ b.at = "respond" /\ b.tries < MaxTries
    BY <1>1 DEF Inv, TypeOK, Repeat
  <1>6. c \in Call /\ CallOk(c)
    <2>1. b.op \in Operation /\ b.amount \in Nat /\ ended \in SUBSET Nat /\ n \in 1..MaxTries
          /\ (b.op \in Moving => b.amount > 0) /\ \A g \in ended : OutOfReach(b.op, g)
      BY <1>2, <1>5, ApiAssumption DEF Call, CallOk
    <2> QED
      BY <1>3, <2>1, FreshCall
  <1>7. /\ call' = [call EXCEPT ![d] = c]
        /\ UNCHANGED <<money, world, quote, sent>>
    BY <1>1, <1>2, <1>3 DEF Repeat
  <1>8. told' = [told EXCEPT ![d] = t]
    BY <1>1, <1>4 DEF Repeat, Inv, TypeOK
  <1>9. /\ t \in Call /\ ToldOk(t) /\ q \in Quote /\ QuoteOk(q)
        /\ quote' = [quote EXCEPT ![d] = q] /\ sent' \in 0..MaxRequests
    BY <1>1, <1>4, <1>5, <1>7, AnswerOk DEF Inv, TypeOK
  <1>10. RowsStep /\ BalancesStay
    BY <1>7, SameRowsStep DEF Inv, TypeOK, money, BalancesStay
  <1>11. CallOk(c)' /\ ToldOk(t)' /\ QuoteOk(q)'
    BY <1>6, <1>7, <1>9, <1>10, OkStaysOk, MomentsPass DEF Inv, world
  <1> QED
    BY <1>6, <1>7, <1>8, <1>9, <1>10, <1>11, DeviceStep DEF world

(* What goes on beside the devices.                                        *)
LEMMA WorldStep ==
    ASSUME Inv, RowsStep, BalancesStay, UNCHANGED <<call, told, quote, sent>>,
           onSale' \in BOOLEAN, onSale' => onSale, rate' \in FeeRate
    PROVE  Inv'
  <1>1. TypeOK'
    BY DEF Inv, TypeOK, RowsStep, BalancesStay
  <1>2. ASSUME NEW d \in Device
        PROVE  CallOk(call[d])' /\ ToldOk(told[d])' /\ QuoteOk(quote[d])'
    <2>1. PICK c, t, q : c = call[d] /\ t = told[d] /\ q = quote[d]
      OBVIOUS
    <2>2. CallOk(c)' /\ ToldOk(t)' /\ QuoteOk(q)'
      BY <2>1, OkStaysOk, MomentsPass DEF Inv, TypeOK
    <2>3. call'[d] = c /\ told'[d] = t /\ quote'[d] = q
      BY <2>1
    <2> QED
      BY <2>2, <2>3
  <1>3. GoalRows'
    BY DEF RowsStep
  <1> QED
    BY <1>1, <1>2, <1>3 DEF Inv

(* The invariant is inductive ...                                          *)
LEMMA NextInv == Inv /\ [Next]_vars => Inv'
  <1> SUFFICES ASSUME Inv, [Next]_vars PROVE Inv'
    OBVIOUS
  <1>1. RowsStep /\ BalancesStay
    BY TablesStep DEF Inv
  <1>2. onSale \in BOOLEAN /\ rate \in FeeRate
    BY DEF Inv, TypeOK
  <1>3. CASE \E d \in Device, op \in Operation : \E a \in Amounts(op) : Send(d, op, a)
    BY <1>3, SendStep
  <1>4. CASE \E d \in Device : Handle(d)
    BY <1>4, HandleStep
  <1>5. CASE \E d \in Device : Respond(d)
    BY <1>5, RespondStep
  <1>6. CASE \E d \in Device : Repeat(d)
    BY <1>6, RepeatStep
  <1>7. CASE AutoPurchase
    BY <1>1, <1>2, <1>7, WorldStep DEF AutoPurchase, world, client
  <1>8. CASE RetireProduct
    BY <1>1, <1>2, <1>8, WorldStep DEF RetireProduct, client
  <1>9. ASSUME NEW r \in FeeRate, Release(r)
        PROVE  Inv'
    BY <1>1, <1>2, <1>9, WorldStep DEF Release, client
  <1>10. CASE UNCHANGED vars
    BY <1>1, <1>2, <1>10, WorldStep DEF vars, world, client
  <1> QED
    BY <1>3, <1>4, <1>5, <1>6, <1>7, <1>8, <1>9, <1>10 DEF Next

-----------------------------------------------------------------------------
(***************************************************************************)
(* The beginning.                                                          *)
(***************************************************************************)
LEMMA PastShape ==
    ASSUME NEW used \in {1, freeWithdrawalsPerWindow}
    PROVE  /\ Past(used) \in Seq(Entry)
           /\ \A i \in DOMAIN Past(used) :
                 Past(used)[i].goal = 1 /\ Past(used)[i].type # "buy_salak"
  <1> DEFINE pay == [goal |-> 1, type |-> "deposit", amount |-> MinPurchase, fee |-> 0]
             take == [goal |-> 1, type |-> "withdraw", amount |-> MinPurchase, fee |-> 0]
             n == 2 * used + 1
  <1>1. n \in Nat
    BY DEF freeWithdrawalsPerWindow
  <1>2. Past(used) = [i \in 1..n |-> IF i % 2 = 1 THEN pay ELSE take]
    BY DEF Past
  <1>3. pay \in Entry /\ take \in Entry
    BY ApiAssumption DEF Entry
  <1>4. /\ pay.goal = 1 /\ pay.type # "buy_salak"
        /\ take.goal = 1 /\ take.type # "buy_salak"
    OBVIOUS
  <1> HIDE DEF pay, take, n
  <1> QED
    BY <1>1, <1>2, <1>3, <1>4

(* ... it holds of the tables at first ...                                 *)
LEMMA InitTables == Init => TypeOK /\ GoalRows
  <1> SUFFICES ASSUME Init PROVE TypeOK /\ GoalRows
    OBVIOUS
  <1>1. /\ onSale \in BOOLEAN /\ rate \in FeeRate /\ sent \in 0..MaxRequests
        /\ call \in [Device -> Call] /\ told \in [Device -> Call]
        /\ quote \in [Device -> Quote]
    <2>1. [id |-> 0, amount |-> 0, fee |-> 0, rate |-> 0, rows |-> 0] \in Quote
      BY DEF Quote
    <2> QED
      BY <2>1, IdleOk, ApiAssumption DEF Init
  <1>2. CASE accepted = FALSE /\ savings = StartingBalance /\ goals = <<>> /\ history = <<>>
    <2>1. /\ goals \in Seq(Row) /\ history \in Seq(Entry)
          /\ savings \in Nat /\ accepted \in BOOLEAN
          /\ DOMAIN goals = {} /\ DOMAIN history = {}
      <3>1. ASSUME NEW S PROVE <<>> \in Seq(S)
        OBVIOUS
      <3>2. DOMAIN <<>> = {}
        OBVIOUS
      <3>3. StartingBalance \in Nat
        BY ApiAssumption
      <3> QED
        BY <1>2, <3>1, <3>2, <3>3
    <2>2. TypeOK
      BY <1>1, <2>1 DEF TypeOK
    <2>3. GoalRows
      BY <2>1 DEF GoalRows
    <2> QED
      BY <2>2, <2>3
  <1>3. ASSUME NEW used \in {1, freeWithdrawalsPerWindow},
               accepted = TRUE, savings = StartingBalance - MinPurchase,
               goals = <<[NoRow EXCEPT !.id = 1, !.saving = MinPurchase, !.isActive = TRUE]>>,
               history = Past(used)
        PROVE  TypeOK /\ GoalRows
    <2> DEFINE row == [NoRow EXCEPT !.id = 1, !.saving = MinPurchase, !.isActive = TRUE]
    <2>1. /\ row \in Row /\ row.id = 1 /\ row.saving = MinPurchase /\ row.salak = 0
          /\ row.reached = FALSE
      <3>1. PICK b \in Row : b = NoRow
        BY DEF NoRow, Row
      <3>2. b.salak = 0 /\ b.reached = FALSE
        BY <3>1 DEF NoRow
      <3>3. MinPurchase \in Nat
        BY ApiAssumption
      <3>4. row = [b EXCEPT !.id = 1, !.saving = MinPurchase, !.isActive = TRUE]
        BY <3>1
      <3> HIDE DEF row
      <3> QED
        BY <3>2, <3>3, <3>4 DEF Row
    <2>2. goals = <<row>>
      BY <1>3
    <2> HIDE DEF row
    <2>3. goals \in Seq(Row) /\ DOMAIN goals = {1} /\ goals[1] = row
      BY <2>1, <2>2
    <2>4. savings \in Nat /\ accepted \in BOOLEAN /\ MinPurchase \in Nat
      BY <1>3, ApiAssumption
    <2>5. /\ history \in Seq(Entry)
          /\ \A i \in DOMAIN history : history[i].goal = 1 /\ history[i].type # "buy_salak"
      BY <1>3, PastShape
    <2>6. TypeOK
      BY <1>1, <2>3, <2>4, <2>5 DEF TypeOK
    <2>7. Bought(Len(history), 1) = 0
      <3>1. DOMAIN history = 1..Len(history)
        BY <2>5
      <3>2. Entries(Len(history), 1, {"buy_salak"}) = {}
        BY <2>5, <3>1 DEF Entries
      <3> QED
        BY <3>2, TotalEmpty DEF Bought
    <2>8. GoalRows
      BY <2>1, <2>3, <2>4, <2>5, <2>7 DEF GoalRows
    <2> QED
      BY <2>6, <2>8
  <1> QED
    BY <1>2, <1>3 DEF Init

(* ... and of the devices ...                                              *)
LEMMA InitInv == Init => Inv
  <1> SUFFICES ASSUME Init PROVE Inv
    OBVIOUS
  <1>1. TypeOK /\ GoalRows
    BY InitTables
  <1>2. ASSUME NEW d \in Device
        PROVE  CallOk(call[d]) /\ ToldOk(told[d]) /\ QuoteOk(quote[d])
    <2>1. call[d] = Idle /\ told[d] = Idle /\ quote[d].id = 0
      BY DEF Init
    <2> QED
      BY <2>1, IdleOk DEF QuoteOk
  <1> QED
    BY <1>1, <1>2 DEF Inv

(* ... and so always.                                                      *)
LEMMA Invariance == Spec => []Inv
  BY InitInv, NextInv, PTL DEF Spec

-----------------------------------------------------------------------------
(***************************************************************************)
(* The theorems.                                                           *)
(***************************************************************************)

(* Tables, calls, answers and quotes keep their types; no balance and no   *)
(* saving amount goes below zero, whatever the devices repeat.             *)
THEOREM Typing == Spec => []TypeOK
  <1>1. Inv => TypeOK
    BY DEF Inv
  <1> QED
    BY Invariance, <1>1, PTL

(* One goal at most is active, a goal in its countdown is full, and the    *)
(* units bought of a goal are the sum over its history.                    *)
THEOREM TablesAgree == Spec => []GoalRows
  <1>1. Inv => GoalRows
    BY DEF Inv
  <1> QED
    BY Invariance, <1>1, PTL

(* A device that was told an error, although its request took effect, has  *)
(* hit a product that is no longer on sale.                                *)
THEOREM ErrorsAreHonest == Spec => []ErrorMeansNothingHappened
  <1>1. Inv => ErrorMeansNothingHappened
    BY DEF Inv, ToldOk, FailedAfterCommit, ErrorMeansNothingHappened
  <1> QED
    BY Invariance, <1>1, PTL

(* The row and the units of a snapshot are of two moments in order.        *)
THEOREM SnapshotsAreTwoReads == Spec => []SnapshotSpansTwoMoments
  <1>1. Inv => SnapshotSpansTwoMoments
    <2> SUFFICES ASSUME Inv, NEW d \in Device,
                        told[d].op \in Moving \cup {"CreateGoal", "GetActiveGoal"},
                        told[d].row # NoRow
                 PROVE  SeenBoth(told[d].row, told[d].units)
      BY DEF SnapshotSpansTwoMoments, SeenBoth
    <2>1. HasSnapshot(told[d])
      BY DEF HasSnapshot, Moving
    <2> QED
      BY <2>1 DEF Inv, ToldOk
  <1> QED
    BY Invariance, <1>1, PTL

(* A call becomes applied only by a commit of its own request.             *)
LEMMA AppliedByCommit ==
    ASSUME Inv, [Next]_vars, NEW d \in Device, ~ call[d].applied, call'[d].applied
    PROVE  CreateGoal(d) \/ Deposit(d) \/ Withdraw(d) \/ BuyFromGoal(d)
  <1>1. call \in [Device -> Call] /\ call[d] \in Call
    BY DEF Inv, TypeOK
  <1>2. ~ Idle.applied
    BY DEF Idle
  <1>3. call'[d] # call[d]
    OBVIOUS
  <1>4. ASSUME NEW x \in Device, NEW op \in Operation, NEW a, Send(x, op, a)
        PROVE  FALSE
    <2>1. PICK b \in Call : b = Idle
      BY IdleOk
    <2>2. call' = [call EXCEPT ![x] = [b EXCEPT !.at = "service", !.op = op,
                                                !.amount = a, !.tries = 1]]
      BY <1>4, <2>1 DEF Send
    <2> QED
      BY <1>1, <1>2, <1>3, <2>1, <2>2 DEF Call
  <1>5. ASSUME NEW x \in Device, Respond(x)
        PROVE  FALSE
    BY <1>1, <1>2, <1>3, <1>5 DEF Respond
  <1>6. ASSUME NEW x \in Device, Repeat(x)
        PROVE  FALSE
    <2>1. PICK b \in Call : b = Idle
      BY IdleOk
    <2>2. call' = [call EXCEPT ![x] = [b EXCEPT !.at = "service", !.op = call[x].op,
                                                !.amount = call[x].amount,
                                                !.tries = call[x].tries + 1,
                                                !.ended = call[x].ended]]
      BY <1>6, <2>1 DEF Repeat
    <2> QED
      BY <1>1, <1>2, <1>3, <2>1, <2>2 DEF Call
  <1>7. ~ UNCHANGED call
    BY <1>3
  <1>8. PICK x \in Device : Handle(x)
    BY <1>4, <1>5, <1>6, <1>7 DEF Next, AutoPurchase, RetireProduct, Release, client, vars
  <1>9. ASSUME NEW c, call' = [call EXCEPT ![x] = c], c.applied = call[x].applied
        PROVE  FALSE
    BY <1>1, <1>3, <1>9
  <1>10. PICK b \in Call : b = call[x]
    BY <1>1
  <1>11. ASSUME NEW status, call' = [call EXCEPT ![x].at = "respond", ![x].status = status]
         PROVE  FALSE
    <2>1. PICK c : c = [b EXCEPT !.at = "respond", !.status = status]
      OBVIOUS
    <2>2. call' = [call EXCEPT ![x] = c] /\ c.applied = b.applied
      BY <1>1, <1>10, <1>11, <2>1 DEF Call
    <2> QED
      BY <1>9, <1>10, <2>2
  <1>12. ~ AcceptTerms(x) /\ ~ GetTermsStatus(x) /\ ~ QuoteFee(x)
    BY <1>11 DEF AcceptTerms, GetTermsStatus, Refuse, QuoteFee
  <1>13. ~ GetActiveGoal(x) /\ ~ Snapshot(x)
    <2>1. PICK at : at = IF Active = NoRow THEN "respond" ELSE "snapshot"
      OBVIOUS
    <2>2. PICK c : c = [b EXCEPT !.at = at, !.row = Active, !.status = 200]
      OBVIOUS
    <2>3. GetActiveGoal(x) => call' = [call EXCEPT ![x] = c]
      BY <1>10, <2>1, <2>2, ZenonT(60) DEF GetActiveGoal
    <2>4. PICK status, units : /\ status = IF SnapshotFails(b.row) THEN 400 ELSE 200
                               /\ units = PurchasedUnits(b.row)
      OBVIOUS
    <2>5. PICK e : e = [b EXCEPT !.at = "respond", !.status = status, !.units = units]
      OBVIOUS
    <2>6. Snapshot(x) => call' = [call EXCEPT ![x] = e]
      <3> SUFFICES ASSUME Snapshot(x) PROVE call' = [call EXCEPT ![x] = e]
        OBVIOUS
      <3>1. call' = [call EXCEPT ![x] = [call[x] EXCEPT
                       !.at = "respond",
                       !.status = IF SnapshotFails(call[x].row) THEN 400 ELSE 200,
                       !.units = PurchasedUnits(call[x].row)]]
        BY <1>1 DEF Snapshot
      <3> QED
        BY <1>10, <2>4, <2>5, <3>1
    <2>7. c.applied = b.applied /\ e.applied = b.applied
      BY <2>2, <2>5 DEF Call
    <2> QED
      BY <1>9, <1>10, <2>3, <2>6, <2>7
  <1>14. ~ GetWithdrawalStatus(x)
    <2>1. PICK c : c = [b EXCEPT !.at = "count", !.row = Active]
      OBVIOUS
    <2>2. c.applied = b.applied
      BY <2>1 DEF Call
    <2>3. GetWithdrawalStatus(x) => call' = [call EXCEPT ![x] = c]
      BY <1>1, <1>10, <1>11, <2>1, ZenonT(60) DEF GetWithdrawalStatus, Refuse
    <2> QED
      BY <1>9, <1>10, <2>2, <2>3
  <1>15. ~ GetGoalHistory(x)
    <2>1. PICK status, fees :
             /\ status = IF goals = <<>> THEN 404 ELSE 200
             /\ fees = [i \in 1..Len(history) |->
                           computeWithdrawalFee(history[i].amount,
                               history[i].type = "withdraw_with_fee")]
      OBVIOUS
    <2>2. PICK c : c = [b EXCEPT !.at = "respond", !.status = status, !.fees = fees]
      OBVIOUS
    <2>3. c.applied = b.applied
      BY <2>2 DEF Call
    <2>4. GetGoalHistory(x) => call' = [call EXCEPT ![x] = c]
      <3> SUFFICES ASSUME GetGoalHistory(x) PROVE call' = [call EXCEPT ![x] = c]
        OBVIOUS
      <3>1. call' = [call EXCEPT ![x] = [call[x] EXCEPT
                       !.at = "respond",
                       !.status = IF goals = <<>> THEN 404 ELSE 200,
                       !.fees = [i \in 1..Len(history) |->
                                   computeWithdrawalFee(history[i].amount,
                                       history[i].type = "withdraw_with_fee")]]]
        BY <1>1 DEF GetGoalHistory
      <3> QED
        BY <1>10, <2>1, <2>2, <3>1
    <2> QED
      BY <1>9, <1>10, <2>3, <2>4
  <1>16. CreateGoal(x) \/ Deposit(x) \/ Withdraw(x) \/ BuyFromGoal(x)
    BY <1>8, <1>12, <1>13, <1>14, <1>15 DEF Handle
  <1>17. x = d
    BY <1>1, <1>3, <1>16
    DEF CreateGoal, Deposit, Withdraw, BuyFromGoal, Refuse, Committed
  <1> QED
    BY <1>16, <1>17

(* The row of a commit is the next version of the active one.              *)
LEMMA WithdrawCommits ==
    ASSUME Inv, NEW d \in Device, Withdraw(d), call'[d].applied
    PROVE  /\ WithdrawalRefusal(call[d].amount) = 0
           /\ Active # NoRow
  <1>1. ~ call[d].applied /\ call \in [Device -> Call]
    BY DEF Inv, TypeOK, CallOk, Withdraw, Received
  <1>2. WithdrawalRefusal(call[d].amount) = 0
    <2> SUFFICES ASSUME Refuse(d, WithdrawalRefusal(call[d].amount)) PROVE FALSE
      BY DEF Withdraw
    <2> QED
      BY <1>1 DEF Refuse
  <1> QED
    BY <1>2 DEF WithdrawalRefusal

(* A device is charged what it was quoted.                                 *)
THEOREM QuotesAreHonoured == Spec => QuoteIsHonoured
  <1>1. ASSUME Inv, NEW d \in Device, Withdraw(d), call'[d].applied,
               quote[d].id = Active.id, quote[d].amount = call[d].amount,
               quote[d].rate = rate,
               Entries(quote[d].rows, Active.id, Withdrawals)
                  = Entries(Len(history), Active.id, Withdrawals)
        PROVE  history'[Len(history')].fee = quote[d].fee
    <2> DEFINE a == call[d].amount
               charged == ~ NextWithdrawalIsFree(Active.id)
               fee == computeWithdrawalFee(a, charged)
               e == [goal |-> Active.id, amount |-> a, fee |-> fee,
                     type |-> IF charged THEN "withdraw_with_fee" ELSE "withdraw"]
    <2>1. WithdrawalRefusal(a) = 0 /\ Active # NoRow
      BY <1>1, WithdrawCommits
    <2>2. history' = Append(history, e)
      BY <1>1, <2>1 DEF Withdraw, Record
    <2>3. Active.id # 0
      <3>1. Active.id \in DOMAIN goals /\ goals \in Seq(Row)
        BY <1>1, <2>1, ActiveRow DEF Inv, TypeOK
      <3> QED
        BY <3>1
    <2>4. fee = IF Cardinality(Entries(Len(history), Active.id, Withdrawals))
                      < freeWithdrawalsPerWindow
                THEN 0 ELSE FeeOf(a, rate)
      BY DEF NextWithdrawalIsFree, computeWithdrawalFee, FeeOf
    <2>5. QuoteOk(quote[d])
      BY <1>1 DEF Inv
    <2>6. quote[d].fee = fee
      BY <1>1, <2>3, <2>4, <2>5 DEF QuoteOk
    <2>7. e.fee = fee
      OBVIOUS
    <2> HIDE DEF e, fee
    <2>8. history'[Len(history')] = e
      BY <1>1, <2>2 DEF Inv, TypeOK
    <2> QED
      BY <2>6, <2>7, <2>8
  <1>2. Inv => [\A d \in Device :
          /\ Withdraw(d)
          /\ call'[d].applied
          /\ quote[d].id = Active.id /\ quote[d].amount = call[d].amount
          /\ quote[d].rate = rate
          /\ Entries(quote[d].rows, Active.id, Withdrawals)
                = Entries(Len(history), Active.id, Withdrawals)
          => history'[Len(history')].fee = quote[d].fee]_vars
    BY <1>1
  <1> QED
    BY Invariance, <1>2, PTL DEF QuoteIsHonoured

(* A repeated request never takes effect on a goal it has ended before.    *)
THEOREM RepeatsAreRefused == Spec => RepeatAfterEndIsRefused
  <1>1. ASSUME Inv, [Next]_vars, NEW d \in Device, call[d].op \in Moving,
               ~ call[d].applied, call'[d].applied
        PROVE  call'[d].row.id \notin call[d].ended
    <2> DEFINE a == call[d].amount
    <2>1. call \in [Device -> Call] /\ call[d] \in Call /\ CallOk(call[d])
          /\ TypeOK /\ GoalRows
      BY <1>1 DEF Inv, TypeOK
    <2>2. a \in Nat /\ a > 0
      BY <1>1, <2>1 DEF CallOk, Call
    <2>3. ASSUME NEW status, Refuse(d, status)
          PROVE  FALSE
      BY <1>1, <2>1, <2>3 DEF Refuse
    <2>4. ASSUME NEW row, Committed(d, row), row.id = Active.id, Active # NoRow,
                 Active.reached => call[d].op # "Deposit"
          PROVE  call'[d].row.id \notin call[d].ended
      <3>1. call'[d].row = row
        BY <2>1, <2>4 DEF Committed
      <3>2. goals[Active.id].isActive /\ goals[Active.id] = Active
        BY <2>1, <2>4, ActiveRow
      <3>3. ~ OutOfReach(call[d].op, Active.id)
        BY <2>4, <3>2 DEF OutOfReach
      <3> QED
        BY <2>1, <2>4, <3>1, <3>3 DEF CallOk
    <2>5. Active # NoRow => Active \in Row
      BY <2>1, ActiveRow
    <2>6. CASE Deposit(d)
      <3>1. DepositRefusal(a) = 0
        BY <2>3, <2>6 DEF Deposit
      <3>2. Active # NoRow /\ ~ (Active.saving + a > GoalAmount)
        BY <3>1 DEF DepositRefusal
      <3>3. ~ Active.reached
        <4>1. Active.reached => Active.saving = GoalAmount
          BY <2>1, <3>2, ActiveRow DEF GoalRows
        <4> QED
          BY <2>2, <3>2, <4>1, ApiAssumption
      <3>4. PICK row : row = AfterDeposit(Active, a)
        OBVIOUS
      <3>5. Committed(d, row)
        BY <2>6, <3>1, <3>4 DEF Deposit
      <3>6. row.id = Active.id
        BY <2>5, <3>2, <3>4 DEF AfterDeposit, Row
      <3> QED
        BY <2>4, <3>2, <3>3, <3>5, <3>6
    <2>7. CASE Withdraw(d)
      <3>1. WithdrawalRefusal(a) = 0 /\ Active # NoRow
        BY <1>1, <2>7, WithdrawCommits
      <3>2. PICK row : row = AfterWithdrawal(Active, a,
                                computeWithdrawalFee(a, ~ NextWithdrawalIsFree(Active.id)))
        OBVIOUS
      <3>3. Committed(d, row) /\ call[d].op = "Withdraw"
        BY <2>7, <3>1, <3>2 DEF Withdraw, Received
      <3>4. row.id = Active.id
        BY <2>5, <3>1, <3>2 DEF AfterWithdrawal, Row
      <3> QED
        BY <2>4, <3>1, <3>3, <3>4
    <2>8. CASE BuyFromGoal(d)
      <3>1. PurchaseRefusal(a) = 0
        BY <2>3, <2>8 DEF BuyFromGoal
      <3>2. Active # NoRow
        BY <3>1 DEF PurchaseRefusal
      <3>3. PICK row : row = AfterPurchase(Active, a)
        OBVIOUS
      <3>4. Committed(d, row) /\ call[d].op = "BuyFromGoal"
        BY <2>8, <3>1, <3>3 DEF BuyFromGoal, Received
      <3>5. row.id = Active.id
        BY <2>5, <3>2, <3>3 DEF AfterPurchase, Row
      <3> QED
        BY <2>4, <3>2, <3>4, <3>5
    <2>9. ~ CreateGoal(d)
      BY <1>1 DEF CreateGoal, Received, Moving
    <2> QED
      BY <1>1, <2>6, <2>7, <2>8, <2>9, AppliedByCommit
  <1>2. Inv /\ [Next]_vars =>
          [\A d \in Device :
             call[d].op \in Moving /\ ~ call[d].applied /\ call'[d].applied =>
                call'[d].row.id \notin call[d].ended]_vars
    BY <1>1
  <1> QED
    BY Invariance, <1>2, PTL DEF Spec, RepeatAfterEndIsRefused
=============================================================================
