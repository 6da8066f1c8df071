--------------------------- MODULE PlatformProofs ---------------------------
(***************************************************************************)
(* Theorems about what the services stand on: the connections they get     *)
(* from the database (ConnPool, for every number of requests and           *)
(* connections), the columns it keeps money in (Satang, for all amounts of *)
(* any precision), the countdown two processes read from their             *)
(* environment (Countdown, for all durations, defaults and bounds), and    *)
(* the calendar of draw days (DrawCalendar, for every range of years,      *)
(* however the runs of the seed are cut short).  The four share no state.  *)
(***************************************************************************)
EXTENDS ConnPool, Satang, Countdown, DrawCalendar, SumProofs,
        FiniteSetTheorems, TLAPS

(***************************************************************************)
(* The connection pool.                                                    *)
(***************************************************************************)

(* A connection is only lent to a request that is being served.            *)
LentToBusy == \A r \in Request : InTx(r) \/ Reading(r) => Busy(r)

Inv == TypeOK /\ LentToBusy

(* A request that goes on, or whose client has gone, is a request still.   *)
LEMMA CallShape ==
    ASSUME TypeOK, NEW r \in Request, Busy(r)
    PROVE  /\ call[r] \in Call
           /\ [call[r] EXCEPT !.done = call[r].done + 1] \in Call
           /\ [call[r] EXCEPT !.gone = TRUE] \in Call
           /\ [call[r] EXCEPT !.done = call[r].done + 1] # Idle
           /\ [call[r] EXCEPT !.gone = TRUE] # Idle
<1>1. call[r] \in Call
  BY DEF TypeOK, Busy
<1>2. /\ [call[r] EXCEPT !.done = call[r].done + 1] \in Call
      /\ [call[r] EXCEPT !.gone = TRUE] \in Call
  <2> SUFFICES ASSUME NEW c \in Call
               PROVE  /\ [c EXCEPT !.done = c.done + 1] \in Call
                      /\ [c EXCEPT !.gone = TRUE] \in Call
    BY <1>1
  <2>1. c.done + 1 \in Nat
    BY DEF Call
  <2>2. [c EXCEPT !.done = c.done + 1] \in Call
    BY <2>1 DEF Call
  <2>3. [c EXCEPT !.gone = TRUE] \in Call
    BY Zenon DEF Call
  <2> QED
    BY <2>2, <2>3
<1>3. Idle \notin Call
  BY DEF Idle, Call
<1> QED
  BY <1>1, <1>2, <1>3

(* Finitely many connections are lent.                                     *)
LEMMA LentIsFinite ==
    ASSUME TypeOK
    PROVE  IsFiniteSet(lent)
<1>1. IsFiniteSet({"tx", "read"})
  <2>1. IsFiniteSet({"tx"})
    BY FS_Singleton
  <2>2. {"tx", "read"} = {"tx"} \cup {"read"}
    OBVIOUS
  <2> QED
    BY <2>1, <2>2, FS_AddElement
<1>2. IsFiniteSet(Request \X {"tx", "read"})
  BY <1>1, FS_Product, PoolAssumption
<1> QED
  BY <1>2, FS_Subset DEF TypeOK

(* Lending while there is room keeps the limit.                            *)
LEMMA LendingFits ==
    ASSUME TypeOK, PoolHasRoom, NEW c \in Request \X {"tx", "read"}
    PROVE  /\ lent \cup {c} \subseteq Request \X {"tx", "read"}
           /\ Cardinality(lent \cup {c}) =< PoolSize
<1>1. IsFiniteSet(lent)
  BY LentIsFinite
<1>2. Cardinality(lent) \in Nat
  BY <1>1, FS_CardinalityType
<1>3. Cardinality(lent \cup {c}) = Cardinality(lent)
      \/ Cardinality(lent \cup {c}) = Cardinality(lent) + 1
  BY <1>1, FS_AddElement
<1>4. Cardinality(lent \cup {c}) =< PoolSize
  BY <1>2, <1>3, PoolAssumption DEF PoolHasRoom
<1> QED
  BY <1>4 DEF TypeOK

(* Returning connections keeps it too.                                     *)
LEMMA ReturningFits ==
    ASSUME TypeOK, NEW S
    PROVE  /\ lent \ S \subseteq Request \X {"tx", "read"}
           /\ Cardinality(lent \ S) =< PoolSize
<1>1. IsFiniteSet(lent)
  BY LentIsFinite
<1>2. /\ IsFiniteSet(lent \ S)
      /\ Cardinality(lent \ S) =< Cardinality(lent)
  BY <1>1, FS_Subset
<1>3. Cardinality(lent) \in Nat /\ Cardinality(lent \ S) \in Nat
  BY <1>1, <1>2, FS_CardinalityType
<1> QED
  BY <1>2, <1>3, PoolAssumption DEF TypeOK

(* The invariant holds at first: nobody is served ...                      *)
LEMMA InitInv == Init => Inv
<1>1. Cardinality({}) = 0
  BY FS_EmptySet
<1> QED
  BY <1>1, PoolAssumption DEF Init, Inv, TypeOK, LentToBusy, InTx, Reading, Busy

(* ... a request that leaves gives everything back ...                     *)
LEMMA LeaveKeepsInv ==
    ASSUME Inv, NEW r \in Request, Leave(r)
    PROVE  Inv'
<1> USE DEF Inv
<1>1. /\ lent' \subseteq Request \X {"tx", "read"}
      /\ Cardinality(lent') =< PoolSize
  BY ReturningFits DEF Leave
<1>2. call' \in [Request -> Call \cup {Idle}]
  BY DEF Leave, TypeOK
<1>3. locks' \in [Request -> SUBSET Row]
  BY DEF Leave, TypeOK
<1>4. TypeOK'
  BY <1>1, <1>2, <1>3 DEF TypeOK
<1>5. LentToBusy'
  <2> SUFFICES ASSUME NEW o \in Request, (InTx(o) \/ Reading(o))'
               PROVE  Busy(o)'
    BY DEF LentToBusy
  <2>1. o # r
    BY DEF Leave, Returned, InTx, Reading
  <2>2. InTx(o) \/ Reading(o)
    BY DEF Leave, InTx, Reading
  <2>3. Busy(o)
    BY <2>2 DEF LentToBusy
  <2>4. call'[o] = call[o]
    BY <2>1 DEF Leave, TypeOK
  <2> QED
    BY <2>3, <2>4 DEF Busy
<1> QED
  BY <1>4, <1>5

(* A request goes on: its call changes to another one, nobody else's does. *)
LEMMA MovingOnKeepsBusy ==
    ASSUME Inv, NEW r \in Request, NEW c \in Call, c # Idle,
           call' = [call EXCEPT ![r] = c],
           \A o \in Request \ {r} : (InTx(o) \/ Reading(o))' => InTx(o) \/ Reading(o)
    PROVE  call' \in [Request -> Call \cup {Idle}] /\ LentToBusy'
<1>1. call' \in [Request -> Call \cup {Idle}]
  BY DEF Inv, TypeOK
<1>2. ASSUME NEW o \in Request, (InTx(o) \/ Reading(o))'
      PROVE  Busy(o)'
  <2>1. CASE o = r
    BY <2>1 DEF Busy, Inv, TypeOK
  <2>2. CASE o # r
    <3>1. call'[o] = call[o]
      BY <2>2 DEF Inv, TypeOK
    <3>2. Busy(o)
      BY <1>2, <2>2 DEF Inv, LentToBusy
    <3> QED
      BY <3>1, <3>2 DEF Busy
  <2> QED
    BY <2>1, <2>2
<1> QED
  BY <1>1, <1>2 DEF LentToBusy

(* ... every other step keeps it ...                                       *)
LEMMA StepInv == Inv /\ [Next]_vars => Inv'
<1> SUFFICES ASSUME Inv, [Next]_vars
             PROVE  Inv'
  OBVIOUS
<1>1. ASSUME NEW r \in Request, StartRead(r)
      PROVE  Inv'
  <2>1. /\ lent' \subseteq Request \X {"tx", "read"}
        /\ Cardinality(lent') =< PoolSize
    BY <1>1, LendingFits DEF StartRead, Inv
  <2>2. TypeOK'
    BY <1>1, <2>1 DEF StartRead, Inv, TypeOK
  <2>3. LentToBusy'
    BY <1>1 DEF StartRead, Inv, LentToBusy, InTx, Reading, Busy
  <2> QED
    BY <2>2, <2>3 DEF Inv
<1>2. ASSUME NEW r \in Request, EndRead(r)
      PROVE  Inv'
  <2>1. Busy(r)
    BY <1>2 DEF EndRead, Inv, LentToBusy
  <2>2. /\ lent' \subseteq Request \X {"tx", "read"}
        /\ Cardinality(lent') =< PoolSize
    BY <1>2, ReturningFits DEF EndRead, Inv
  <2>3. call' \in [Request -> Call \cup {Idle}] /\ LentToBusy'
    BY <1>2, <2>1, CallShape, MovingOnKeepsBusy DEF EndRead, Done, Inv, InTx, Reading
  <2>4. TypeOK'
    BY <1>2, <2>2, <2>3 DEF EndRead, Inv, TypeOK
  <2> QED
    BY <2>3, <2>4 DEF Inv
<1>3. ASSUME NEW r \in Request, BeginTx(r)
      PROVE  Inv'
  <2>2. /\ lent' \subseteq Request \X {"tx", "read"}
        /\ Cardinality(lent') =< PoolSize
    BY <1>3, LendingFits DEF BeginTx, Inv
  <2>3. call' \in [Request -> Call \cup {Idle}] /\ LentToBusy'
    BY <1>3, CallShape, MovingOnKeepsBusy DEF BeginTx, Done, Inv, InTx, Reading
  <2>4. TypeOK'
    BY <1>3, <2>2, <2>3 DEF BeginTx, Inv, TypeOK
  <2> QED
    BY <2>3, <2>4 DEF Inv
<1>4. ASSUME NEW r \in Request, LockRow(r)
      PROVE  Inv'
  <2>1. Busy(r)
    BY <1>4 DEF LockRow, WantsRow
  <2>2. locks' \in [Request -> SUBSET Row]
    BY <1>4 DEF LockRow, WantsRow, Inv, TypeOK
  <2>3. call' \in [Request -> Call \cup {Idle}] /\ LentToBusy'
    BY <1>4, <2>1, CallShape, MovingOnKeepsBusy DEF LockRow, Done, Inv, InTx, Reading
  <2>4. TypeOK'
    BY <1>4, <2>2, <2>3 DEF LockRow, Inv, TypeOK
  <2> QED
    BY <2>3, <2>4 DEF Inv
<1>5. ASSUME NEW r \in Request, Arrive(r)
      PROVE  Inv'
  <2>1. PICK op \in Operation, u \in Customer :
            call' = [call EXCEPT ![r] =
                       [op |-> op, customer |-> u, done |-> 0, gone |-> FALSE]]
    BY <1>5 DEF Arrive
  <2>2. [op |-> op, customer |-> u, done |-> 0, gone |-> FALSE] \in Call \ {Idle}
    BY DEF Call, Idle
  <2>3. call' \in [Request -> Call \cup {Idle}] /\ LentToBusy'
    BY <1>5, <2>1, <2>2, MovingOnKeepsBusy DEF Arrive, InTx, Reading
  <2>4. TypeOK'
    BY <1>5, <2>3 DEF Arrive, Inv, TypeOK
  <2> QED
    BY <2>3, <2>4 DEF Inv
<1>6. ASSUME NEW r \in Request, ClientGivesUp(r)
      PROVE  Inv'
  <2>3. call' \in [Request -> Call \cup {Idle}] /\ LentToBusy'
    BY <1>6, CallShape, MovingOnKeepsBusy DEF ClientGivesUp, Inv, InTx, Reading
  <2>4. TypeOK'
    BY <1>6, <2>3 DEF ClientGivesUp, Inv, TypeOK
  <2> QED
    BY <2>3, <2>4 DEF Inv
<1>7. ASSUME NEW r \in Request,
             Commit(r) \/ Fail(r) \/ Cancelled(r) \/ BreakDeadlock(r)
      PROVE  Inv'
  BY <1>7, LeaveKeepsInv DEF Commit, Fail, Cancelled, BreakDeadlock
<1>8. CASE UNCHANGED vars
  BY <1>8 DEF vars, Inv, TypeOK, LentToBusy, InTx, Reading, Busy
<1> QED
  BY <1>1, <1>2, <1>3, <1>4, <1>5, <1>6, <1>7, <1>8 DEF Next, Serve

(* ... and so it holds always.                                             *)
LEMMA Invariance == Spec => []Inv
  BY InitInv, StepInv, PTL DEF Spec

(* The pool lends at most what it has, and only connections to requests.   *)
THEOREM Typing == Spec => []TypeOK
<1>1. Inv => TypeOK
  BY DEF Inv
<1> QED
  BY <1>1, Invariance, PTL

(* With no read under way the connections in use count the transactions.   *)
LEMMA LentCountsTransactions ==
    ASSUME Inv, \A r \in Request : ~ Reading(r)
    PROVE  /\ IsFiniteSet({r \in Request : InTx(r) /\ Busy(r)})
           /\ Cardinality({r \in Request : InTx(r) /\ Busy(r)}) = Cardinality(lent)
<1> DEFINE T == {r \in Request : InTx(r) /\ Busy(r)}
           f == [r \in T |-> <<r, "tx">>]
<1>1. IsFiniteSet(T)
  BY PoolAssumption, FS_Subset
<1>2. ASSUME NEW c \in lent
      PROVE  \E r \in T : f[r] = c
  <2>1. PICK r \in Request, k \in {"tx", "read"} : c = <<r, k>>
    BY <1>2 DEF Inv, TypeOK
  <2>2. k = "tx"
    BY <1>2, <2>1 DEF Reading
  <2>3. InTx(r) /\ Busy(r)
    BY <1>2, <2>1, <2>2 DEF InTx, Inv, LentToBusy
  <2> QED
    BY <2>1, <2>2, <2>3
<1>3. f \in [T -> lent]
  BY DEF InTx
<1>4. f \in Bijection(T, lent)
  <2>1. \A a, b \in T : f[a] = f[b] => a = b
    OBVIOUS
  <2> QED
    BY <1>2, <1>3, <2>1 DEF Bijection, Injection, Surjection, IsInjective
<1>5. ExistsBijection(T, lent)
  BY <1>4 DEF ExistsBijection
<1> QED
  BY <1>1, <1>5, FS_Bijection

(* The pool runs dry for good only when every one of its connections is    *)
(* held by an open transaction.                                            *)
THEOREM Draining == Spec => []OnlyTransactionsDrainThePool
<1>1. Inv => OnlyTransactionsDrainThePool
  <2> SUFFICES ASSUME Inv, Dry
               PROVE  Cardinality({r \in Request : InTx(r) /\ Busy(r)}) = PoolSize
    BY DEF OnlyTransactionsDrainThePool
  <2>1. Cardinality({r \in Request : InTx(r) /\ Busy(r)}) = Cardinality(lent)
    BY LentCountsTransactions DEF Dry
  <2>2. Cardinality(lent) \in Nat
    BY LentIsFinite, FS_CardinalityType DEF Inv
  <2>3. Cardinality(lent) = PoolSize
    BY <2>2, PoolAssumption DEF Dry, PoolHasRoom, Inv, TypeOK
  <2> QED
    BY <2>1, <2>3
<1> QED
  BY <1>1, Invariance, PTL

(* Fewer requests at once than connections: the pool never runs dry, and   *)
(* every read and every transaction that waits for it will get its turn.   *)
THEOREM FewRequestsNeverDrainThePool ==
    ASSUME Cardinality(Request) < PoolSize
    PROVE  Spec => []~Dry
<1>1. Inv => ~Dry
  <2> SUFFICES ASSUME Inv, Dry
               PROVE  FALSE
    OBVIOUS
  <2> DEFINE T == {r \in Request : InTx(r) /\ Busy(r)}
  <2>1. Cardinality(T) = Cardinality(lent)
    BY LentCountsTransactions DEF Dry
  <2>2. Cardinality(T) =< Cardinality(Request)
    BY PoolAssumption, FS_Subset
  <2>3. Cardinality(lent) \in Nat /\ Cardinality(Request) \in Nat
    BY LentIsFinite, PoolAssumption, FS_CardinalityType DEF Inv
  <2>4. PoolSize =< Cardinality(lent)
    BY <2>3, PoolAssumption DEF Dry, PoolHasRoom
  <2> QED
    BY <2>1, <2>2, <2>3, <2>4, PoolAssumption
<1> QED
  BY <1>1, Invariance, PTL

-----------------------------------------------------------------------------
(***************************************************************************)
(* The money columns.                                                      *)
(*                                                                         *)
(* CashBehindGoal is proved through two facts that a step preserves: the   *)
(* account and the newest goal always hold the same amount, even after the *)
(* goal has been closed, and a closed goal holds nothing.                  *)
(***************************************************************************)

SameAmount == kapook = goalRow.saving

ClosedIsEmpty == ~ goalRow.isActive => goalRow.saving = 0

SatangInv == SatangTypeOK /\ SameAmount /\ ClosedIsEmpty /\ CountdownMeansFull

(* What a column makes of an amount that is not negative.                  *)
LEMMA ColumnRounds ==
    ASSUME NEW x \in Nat
    PROVE  /\ Column(x) \in Nat
           /\ Column(x) % 10 = 0
           /\ Column(x) - x \in -5..5
           /\ x % 10 = 0 => Column(x) = x
  <1>1. Half(x) \in Nat
    BY DEF Half
  <1>2. 10 * Half(x) - x \in -5..5
    BY DEF Half
  <1> QED
    BY <1>1, <1>2 DEF Column, Half

(* Two roundings of half a satang are at most one.                         *)
LEMMA TwoRoundings ==
    ASSUME NEW s \in Int, NEW k \in Int, NEW s1 \in Int, NEW k1 \in Int,
           NEW d \in Int, NEW f \in Int,
           s1 - (s + (d - f)) \in -5..5, k1 - (k - d) \in -5..5
    PROVE  (s1 + k1 + f) - (s + k) \in -10..10
  <1>1. (s1 + k1 + f) - (s + k) = (s1 - (s + (d - f))) + (k1 - (k - d))
    OBVIOUS
  <1> QED
    BY <1>1

(* The fee of an amount is a number of tenths of a satang.                 *)
LEMMA FeeIsNat ==
    ASSUME NEW a \in Nat
    PROVE  computeFee(a) \in Nat
  <1>1. (a * 2) \div 100 \in Nat
    OBVIOUS
  <1> QED
    BY <1>1 DEF computeFee, Half

(* The invariant of the columns holds at first ...                         *)
LEMMA SatangInitInv == SatangInit => SatangInv
  BY SatangAssumption
  DEF SatangInit, SatangInv, SatangTypeOK, Goal, SameAmount, ClosedIsEmpty, CountdownMeansFull

(* A deposit moves what it says, but for half a satang on either account.  *)
LEMMA DepositStep ==
    ASSUME SatangInv, NEW a \in Amount, Deposit(a)
    PROVE  /\ SatangInv'
           /\ (savings' + kapook' + receipt'.fee) - (savings + kapook) \in -10..10
  <1> DEFINE new == goalRow.saving + a
  <1>1. /\ a \in Nat /\ savings \in Nat /\ kapook \in Nat
        /\ goalRow.saving \in Nat /\ goalRow.saving % 10 = 0
        /\ savings - a \in Nat /\ kapook + a \in Nat /\ new \in Nat
    BY SatangAssumption DEF SatangInv, SatangTypeOK, Goal, Deposit, Covers
  <1>2. goalRow' \in Goal /\ goalRow'.saving = Column(new) /\ goalRow'.isActive
        /\ goalRow'.reached = (goalRow.reached \/ new = GoalAmount)
    <2>1. Column(new) \in Nat
      BY <1>1, ColumnRounds
    <2>2. goalRow' = [goalRow EXCEPT !.saving = Column(new),
                                  !.reached = goalRow.reached \/ new = GoalAmount]
      BY DEF Deposit, SavingAmount, ReachedBy
    <2>3. goalRow \in Goal /\ goalRow.isActive
      BY DEF SatangInv, SatangTypeOK, Deposit
    <2> QED
      BY <2>1, <2>2, <2>3 DEF Goal
  <1>3. savings' = Column(savings - a) /\ kapook' = Column(kapook + a)
    BY DEF Deposit
  <1>4. /\ savings' \in Nat /\ savings' % 10 = 0 /\ savings' - (savings - a) \in -5..5
        /\ kapook' \in Nat /\ kapook' % 10 = 0 /\ kapook' - (kapook + a) \in -5..5
        /\ goalRow'.saving \in Nat /\ goalRow'.saving % 10 = 0
    BY <1>1, <1>2, <1>3, ColumnRounds
  <1>5. receipt' = [amount |-> a, fee |-> 0] /\ requests' = requests + 1
        /\ requests < MaxRequests
    BY DEF Deposit, Served
  <1>6. SatangTypeOK'
    <2>1. requests' \in 0..MaxRequests
      BY <1>5, SatangAssumption DEF SatangInv, SatangTypeOK
    <2>2. receipt' \in [amount : Nat, fee : Nat]
      BY <1>1, <1>5
    <2> QED
      BY <1>2, <1>4, <2>1, <2>2 DEF SatangTypeOK
  <1>7. SameAmount'
    BY <1>2, <1>3 DEF SatangInv, SameAmount
  <1>8. CountdownMeansFull'
    <2>1. CASE goalRow.reached
      <3>1. a > 0
        BY <1>1 DEF Deposit, Recordable, Column, Half
      <3>2. goalRow.saving = GoalAmount /\ new =< GoalAmount
        BY <2>1 DEF Deposit, SatangInv, CountdownMeansFull
      <3> QED
        BY <3>1, <3>2, <1>1, SatangAssumption
    <2>2. CASE new = GoalAmount
      BY <2>2, <1>1, <1>2, SatangAssumption, ColumnRounds DEF CountdownMeansFull
    <2> QED
      BY <2>1, <2>2, <1>2 DEF CountdownMeansFull
  <1>9. SatangInv'
    BY <1>2, <1>6, <1>7, <1>8 DEF SatangInv, ClosedIsEmpty
  <1>10. (savings' + kapook' + receipt'.fee) - (savings + kapook) \in -10..10
    <2>1. receipt'.fee = 0
      BY <1>5
    <2>2. PICK d \in Int : d = 0 - a
      BY <1>1
    <2>3. savings' \in Int /\ kapook' \in Int /\ savings \in Int /\ kapook \in Int
      BY <1>1, <1>4
    <2>4. savings' - (savings + (d - 0)) \in -5..5 /\ kapook' - (kapook - d) \in -5..5
      <3>1. savings + (d - 0) = savings - a /\ kapook - d = kapook + a
        BY <1>1, <2>2
      <3> QED
        BY <1>4, <3>1
    <2>5. 0 \in Int
      OBVIOUS
    <2>6. (savings' + kapook' + 0) - (savings + kapook) \in -10..10
      BY <2>3, <2>4, <2>5, TwoRoundings
    <2> QED
      BY <2>1, <2>6
  <1> QED
    BY <1>9, <1>10

(* A withdrawal pays out what it takes, less the fee it tells.             *)
LEMMA WithdrawStep ==
    ASSUME SatangInv, NEW a \in Amount \cup {goalRow.saving}, Withdraw(a)
    PROVE  /\ SatangInv'
           /\ (savings' + kapook' + receipt'.fee) - (savings + kapook) \in -10..10
  <1> DEFINE fee == IF goalRow.withdrawals >= freeWithdrawalsPerWindow
                    THEN computeFee(a) ELSE 0
             left == goalRow.saving - a
  <1>1. /\ a \in Nat /\ savings \in Nat /\ kapook \in Nat
        /\ goalRow.saving \in Nat /\ goalRow.saving % 10 = 0 /\ goalRow.withdrawals \in Nat
    BY SatangAssumption DEF SatangInv, SatangTypeOK, Goal
  <1>2. fee \in Nat
    BY <1>1, FeeIsNat
  <1>3. /\ Recordable(a - fee)
        /\ kapook' = Column(kapook - a) /\ savings' = Column(savings + (a - fee))
        /\ receipt' = [amount |-> a, fee |-> fee] /\ requests' = requests + 1
        /\ requests < MaxRequests /\ a =< goalRow.saving /\ goalRow.isActive
        /\ goalRow.reached => a = goalRow.saving
        /\ goalRow' = [goalRow EXCEPT !.saving = Column(left), !.isActive = ~ goalRow.reached,
                                !.withdrawals = goalRow.withdrawals + 1]
    BY DEF Withdraw, Served, netCredited, SavingAmount
  <1> HIDE DEF fee
  <1>4. a - fee \in Nat
    BY <1>1, <1>2, <1>3 DEF Recordable, Column, Half
  <1>5. left \in Nat /\ kapook - a = left /\ savings + (a - fee) \in Nat
    BY <1>1, <1>3, <1>4 DEF SatangInv, SameAmount
  <1>6. /\ savings' \in Nat /\ savings' % 10 = 0 /\ savings' - (savings + (a - fee)) \in -5..5
        /\ Column(left) \in Nat /\ Column(left) % 10 = 0 /\ Column(left) - left \in -5..5
        /\ left = 0 => Column(left) = 0
    BY <1>3, <1>5, ColumnRounds
  <1>7. kapook' = Column(left)
    BY <1>3, <1>5
  <1> HIDE DEF left
  <1>8. goalRow' \in Goal /\ goalRow'.saving = Column(left)
        /\ goalRow'.isActive = (~ goalRow.reached) /\ goalRow'.reached = goalRow.reached
    <2>1. goalRow \in Goal /\ goalRow.withdrawals + 1 \in Nat /\ goalRow.reached \in BOOLEAN
      BY <1>1 DEF SatangInv, SatangTypeOK, Goal
    <2> QED
      BY <2>1, <1>3, <1>6 DEF Goal
  <1>9. SatangTypeOK'
    BY <1>1, <1>2, <1>3, <1>6, <1>7, <1>8, SatangAssumption DEF SatangInv, SatangTypeOK
  <1>10. ClosedIsEmpty'
    <2>1. goalRow.reached => left = 0
      BY <1>1, <1>3 DEF left
    <2> QED
      BY <2>1, <1>6, <1>8 DEF ClosedIsEmpty
  <1>11. SatangInv'
    BY <1>7, <1>8, <1>9, <1>10 DEF SatangInv, SameAmount, CountdownMeansFull
  <1>12. (savings' + kapook' + receipt'.fee) - (savings + kapook) \in -10..10
    <2>1. receipt'.fee = fee /\ kapook - a = left
      BY <1>3, <1>5
    <2>2. savings' - (savings + (a - fee)) \in -5..5 /\ kapook' - (kapook - a) \in -5..5
      BY <1>6, <1>7, <2>1
    <2>3. savings' \in Int /\ kapook' \in Int /\ savings \in Int /\ kapook \in Int
          /\ a \in Int /\ fee \in Int
      BY <1>1, <1>2, <1>6, <1>7
    <2>4. (savings' + kapook' + fee) - (savings + kapook) \in -10..10
      BY <2>2, <2>3, TwoRoundings
    <2> QED
      BY <2>1, <2>4
  <1> QED
    BY <1>11, <1>12

(* ... is kept by both requests ...                                        *)
LEMMA SatangNextInv == SatangInv /\ [SatangNext]_satangVars => SatangInv'
  <1> SUFFICES ASSUME SatangInv, [SatangNext]_satangVars PROVE SatangInv'
    OBVIOUS
  <1>1. CASE CreateGoal
    BY <1>1 DEF CreateGoal, SatangInv, SatangTypeOK, Goal, SameAmount, ClosedIsEmpty, CountdownMeansFull
  <1>2. ASSUME NEW a \in Amount, Deposit(a) PROVE SatangInv'
    BY <1>2, DepositStep
  <1>3. ASSUME NEW a \in Amount \cup {goalRow.saving}, Withdraw(a) PROVE SatangInv'
    BY <1>3, WithdrawStep
  <1>4. CASE UNCHANGED satangVars
    BY <1>4 DEF satangVars, SatangInv, SatangTypeOK, SameAmount, ClosedIsEmpty, CountdownMeansFull
  <1> QED
    BY <1>1, <1>2, <1>3, <1>4 DEF SatangNext

(* ... and so holds always.                                                *)
LEMMA SatangInvariance == SatangSpec => []SatangInv
  BY SatangInitInv, SatangNextInv, PTL DEF SatangSpec

(* Balances and savings are never negative and never finer than a satang.  *)
THEOREM SatangTyping == SatangSpec => []SatangTypeOK
  <1>1. SatangInv => SatangTypeOK
    BY DEF SatangInv
  <1> QED
    BY SatangInvariance, <1>1, PTL

(* The kapook account holds what its active goal has saved.                *)
THEOREM AccountHoldsSavings == SatangSpec => []CashBehindGoal
  <1>1. SatangInv => CashBehindGoal
    BY DEF SatangInv, SameAmount, ClosedIsEmpty, CashBehindGoal, SatangTypeOK, Goal
  <1> QED
    BY SatangInvariance, <1>1, PTL

(* A goal in its countdown holds its target.                               *)
THEOREM CountdownIsEarned == SatangSpec => []CountdownMeansFull
  <1>1. SatangInv => CountdownMeansFull
    BY DEF SatangInv
  <1> QED
    BY SatangInvariance, <1>1, PTL

(* No request creates or loses more than a satang by rounding.             *)
THEOREM RoundingBound == SatangSpec => RoundingIsBounded
  <1> DEFINE drift == (savings' + kapook' + receipt'.fee) - (savings + kapook)
  <1>1. ASSUME SatangInv, [SatangNext]_satangVars, requests' # requests
        PROVE  drift \in -10..10
    <2>1. ASSUME NEW a \in Amount, Deposit(a) PROVE drift \in -10..10
      BY <1>1, <2>1, DepositStep
    <2>2. ASSUME NEW a \in Amount \cup {goalRow.saving}, Withdraw(a) PROVE drift \in -10..10
      BY <1>1, <2>2, WithdrawStep
    <2> QED
      BY <1>1, <2>1, <2>2 DEF SatangNext, CreateGoal, satangVars
  <1>2. SatangInv /\ [SatangNext]_satangVars => [requests' # requests => drift \in -10..10]_satangVars
    BY <1>1
  <1> QED
    BY SatangInvariance, <1>2, PTL DEF SatangSpec, RoundingIsBounded
-----------------------------------------------------------------------------
(***************************************************************************)
(* The countdown.                                                          *)
(*                                                                         *)
(* AtZeroForLessThanATick speaks of the present; what a step preserves is  *)
(* a fact about the last pass of the running worker: it was too early for  *)
(* the goal, or the goal or the worker is no older than it (LastPass).     *)
(* EarlyOnlyWhenProcessesDiffer speaks of two times; the link between them *)
(* is that a goal is reached once, before it is shown (ShownAfterReached). *)
(***************************************************************************)

(* The last pass, or the start, of a running worker: worker.next less a    *)
(* tick.                                                                   *)
LastPass ==
    worker.up =>
        /\ worker.next - worker.tick >= worker.startedAt
        /\ goal.stage = "reached" =>
              \/ worker.next - worker.tick < goal.reachedAt + worker.countdown
              \/ worker.next - worker.tick =< goal.reachedAt
              \/ worker.next - worker.tick = worker.startedAt

ShownAfterReached ==
    /\ goal.stage = "saving" => shown = None
    /\ \/ shown.until =< now
       \/ shown.until =< goal.reachedAt + shown.length

CountdownInv == CountdownTypeOK /\ LastPass /\ ShownAfterReached

(* What the environment yields is a number, and a positive tick starts.    *)
LEMMA LoadYieldsNumbers ==
    ASSUME CountdownTypeOK
    PROVE  /\ Countdown \in Durations \cup {DefaultCountdown}
           /\ TickInterval \in Int
  <1>1. ASSUME NEW key \in Key, NEW fallback
        PROVE  getEnvDuration(key, fallback) \in Durations \cup {fallback}
    <2>1. Lookup(key) \in Setting
      BY DEF Lookup, CountdownTypeOK
    <2>2. Lookup(key).kind = "duration" => Lookup(key).is \in Durations
      BY <2>1 DEF Setting, Unset
    <2> QED
      BY <2>2 DEF getEnvDuration
  <1>2. Countdown \in Durations \cup {DefaultCountdown}
    BY <1>1 DEF Countdown, Key
  <1>3. TickInterval \in Durations \cup {DefaultTick}
    BY <1>1 DEF TickInterval, Key
  <1> QED
    BY <1>2, <1>3, DurationAssumption

(* Every time and every duration is an integer, and none of the times is   *)
(* ahead.                                                                  *)
LEMMA CountdownNumbers ==
    ASSUME CountdownTypeOK
    PROVE  /\ now \in Int
           /\ api.countdown \in Int /\ worker.countdown \in Int
           /\ worker.tick \in Int /\ worker.next \in Int
           /\ worker.startedAt \in Int /\ worker.startedAt =< now
           /\ goal.reachedAt \in Int /\ goal.reachedAt =< now
           /\ shown.until \in Int /\ shown.length \in Int
  <1>1. now \in Int
    BY DurationAssumption DEF CountdownTypeOK
  <1>2. Durations \cup {0, DefaultCountdown} \subseteq Int
    <2>1. Durations \subseteq Int /\ DefaultCountdown \in Nat
      BY DurationAssumption DEF DurationAssumption
    <2> QED
      BY <2>1
  <1>3. api.countdown \in Int /\ worker.countdown \in Int /\ shown.length \in Int
    BY <1>2 DEF CountdownTypeOK
  <1>4. worker.tick \in Int /\ worker.next \in Int /\ shown.until \in Int
    BY DEF CountdownTypeOK
  <1>5. worker.startedAt \in 0..now /\ goal.reachedAt \in 0..now
    BY DEF CountdownTypeOK
  <1> QED
    BY <1>1, <1>3, <1>4, <1>5

(* The invariant of the countdown holds at first ...                       *)
LEMMA CountdownInitInv == CountdownInit => CountdownInv
  <1> SUFFICES ASSUME CountdownInit PROVE CountdownInv
    OBVIOUS
  <1> USE DurationAssumption
  <1>1. {osEnv, dotenv} \subseteq [Key -> Setting]
    BY DEF CountdownInit, Setting
  <1>2. CountdownTypeOK
    BY <1>1 DEF CountdownInit, CountdownTypeOK, StoppedApi, StoppedWorker, None
  <1> QED
    BY <1>2 DEF CountdownInit, CountdownInv, LastPass, ShownAfterReached, StoppedWorker, None

(* ... is kept by ticks, restarts, requests and time ...                   *)
LEMMA CountdownNextInv == CountdownInv /\ [CountdownNext]_countdownVars => CountdownInv'
  <1> SUFFICES ASSUME CountdownInv, [CountdownNext]_countdownVars PROVE CountdownInv'
    OBVIOUS
  <1> USE DurationAssumption DEF CountdownInv
  <1>1. CASE Edit
    <2>1. {osEnv', dotenv'} \subseteq [Key -> Setting]
      BY <1>1 DEF Edit, CountdownTypeOK
    <2> QED
      BY <1>1, <2>1 DEF Edit, CountdownTypeOK, LastPass, ShownAfterReached
  <1>2. CASE EditSecrets
    BY <1>2 DEF EditSecrets, CountdownTypeOK, LastPass, ShownAfterReached
  <1>3. CASE StartApi
    BY <1>3, LoadYieldsNumbers DEF StartApi, CountdownTypeOK, LastPass, ShownAfterReached
  <1>4. CASE StopApi
    BY <1>4 DEF StopApi, StoppedApi, CountdownTypeOK, LastPass, ShownAfterReached
  <1>5. CASE StartWorker
    <2>1. /\ TickInterval \in Int
          /\ TickInterval > 0
          /\ worker' = [up |-> TRUE, countdown |-> Countdown, tick |-> TickInterval,
                        next |-> now + TickInterval, startedAt |-> now]
          /\ UNCHANGED <<osEnv, dotenv, secrets, edits, now, api, goal, shown>>
      BY <1>5, LoadYieldsNumbers DEF StartWorker, StartTicking
    <2>2. Countdown \in Durations \cup {DefaultCountdown}
      BY LoadYieldsNumbers
    <2> QED
      BY <2>1, <2>2 DEF CountdownTypeOK, LastPass, ShownAfterReached
  <1>6. CASE StopWorker
    BY <1>6 DEF StopWorker, StoppedWorker, CountdownTypeOK, LastPass, ShownAfterReached
  <1>7. CASE LastDeposit
    BY <1>7 DEF LastDeposit, CountdownTypeOK, LastPass, ShownAfterReached, None
  <1>8. CASE WithdrawAll
    BY <1>8 DEF WithdrawAll, CountdownTypeOK, LastPass, ShownAfterReached
  <1>9. CASE Snapshot
    <2>1. Remaining \in Nat
          /\ (Remaining = 0 \/ now + Remaining = goal.reachedAt + api.countdown)
      BY <1>9, CountdownNumbers DEF Snapshot, Remaining
    <2> QED
      BY <1>9, <2>1 DEF Snapshot, CountdownTypeOK, LastPass, ShownAfterReached
  <1>10. CASE RunOnce
    <2>1. worker'.up /\ worker'.next = now + worker.tick /\ worker'.tick = worker.tick
          /\ worker'.countdown = worker.countdown /\ worker'.startedAt = worker.startedAt
          /\ UNCHANGED <<osEnv, dotenv, secrets, edits, now, api, shown>>
          /\ worker.up /\ now = worker.next
      BY <1>10 DEF RunOnce, CountdownTypeOK
    <2>2. goal'.reachedAt = goal.reachedAt
          /\ (goal'.stage = goal.stage \/ (goal.stage = "reached" /\ goal'.stage = "bought"))
          /\ (goal'.stage = "reached" => ~ Due /\ goal.stage = "reached")
      BY <1>10 DEF RunOnce, CountdownTypeOK, Due
    <2>3. CountdownTypeOK'
      BY <1>10, <2>1 DEF RunOnce, CountdownTypeOK
    <2>4. LastPass'
      <3>1. ~ Due /\ goal.stage = "reached" =>
                now < goal.reachedAt + worker.countdown
        BY CountdownNumbers DEF Due
      <3>2. worker'.next - worker'.tick = now
        BY <2>1, CountdownNumbers
      <3> QED
        BY <2>1, <2>2, <3>1, <3>2, CountdownNumbers DEF LastPass
    <2>5. ShownAfterReached'
      BY <2>1, <2>2 DEF ShownAfterReached
    <2> QED
      BY <2>3, <2>4, <2>5
  <1>11. CASE Tick
    BY <1>11 DEF Tick, CountdownTypeOK, LastPass, ShownAfterReached
  <1>12. CASE UNCHANGED countdownVars
    BY <1>12 DEF countdownVars, CountdownTypeOK, LastPass, ShownAfterReached
  <1> QED
    BY <1>1, <1>2, <1>3, <1>4, <1>5, <1>6, <1>7, <1>8, <1>9, <1>10, <1>11, <1>12
    DEF CountdownNext, OperatorStep, CustomerStep

(* ... and so holds always.                                                *)
LEMMA CountdownInvariance == CountdownSpec => []CountdownInv
  BY CountdownInitInv, CountdownNextInv, PTL DEF CountdownSpec

(* The configuration the two processes hold is well typed, whatever is     *)
(* written to the environment, and a running worker has a pass ahead.      *)
THEOREM CountdownTyping == CountdownSpec => []CountdownTypeOK
  <1>1. CountdownInv => CountdownTypeOK
    BY DEF CountdownInv
  <1> QED
    BY CountdownInvariance, <1>1, PTL

(* A reached goal sits at zero for less than a tick of a running worker.   *)
THEOREM BoughtWithinATick == CountdownSpec => []AtZeroForLessThanATick
  <1>1. CountdownInv => AtZeroForLessThanATick
    <2> SUFFICES ASSUME CountdownInv, worker.up, goal.stage = "reached"
                 PROVE  now < LaterOf(goal.reachedAt + worker.countdown,
                                      LaterOf(goal.reachedAt, worker.startedAt) + 1)
                              + worker.tick
      BY DEF AtZeroForLessThanATick
    <2>1. worker.next >= now /\ worker.tick > 0
      BY DEF CountdownInv, CountdownTypeOK
    <2>2. \/ worker.next - worker.tick < goal.reachedAt + worker.countdown
          \/ worker.next - worker.tick =< goal.reachedAt
          \/ worker.next - worker.tick = worker.startedAt
      BY DEF CountdownInv, LastPass
    <2> QED
      BY <2>1, <2>2, CountdownNumbers DEF CountdownInv, LaterOf
  <1> QED
    BY CountdownInvariance, <1>1, PTL

(* A purchase comes early on a screen only if the processes differ.        *)
THEOREM NoEarlyPurchase == CountdownSpec => EarlyOnlyWhenProcessesDiffer
  <1>1. ASSUME CountdownInv, [CountdownNext]_countdownVars, Buys
        PROVE  now >= shown.until \/ worker.countdown < shown.length
    <2>1. RunOnce
      BY <1>1 DEF CountdownInv, CountdownTypeOK, Buys, CountdownNext, OperatorStep,
                  CustomerStep, Edit, EditSecrets, StartApi, StopApi, StartWorker,
                  StopWorker, LastDeposit, WithdrawAll, Snapshot, Tick, countdownVars
    <2>2. goal.stage = "reached" /\ goal.reachedAt =< now - worker.countdown
      BY <1>1, <2>1 DEF RunOnce, Buys, Due
    <2> QED
      BY <1>1, <2>2, CountdownNumbers DEF CountdownInv, ShownAfterReached
  <1>2. CountdownInv /\ [CountdownNext]_countdownVars =>
            [Buys => now >= shown.until \/ worker.countdown < shown.length]_countdownVars
    BY <1>1
  <1> QED
    BY CountdownInvariance, <1>2, PTL DEF CountdownSpec, EarlyOnlyWhenProcessesDiffer


(***************************************************************************)
(* The calendar of draw days.                                              *)
(***************************************************************************)

(* The lengths of the months.                                              *)
LEMMA MonthLengths ==
    ASSUME NEW y \in Years, NEW m \in 1..12
    PROVE  /\ DaysIn(y, m) \in 28..31
           /\ m \in {4, 6, 9, 11} => DaysIn(y, m) = 30
           /\ m \in {1, 3, 5, 7, 8, 10, 12} => DaysIn(y, m) = 31
           /\ MonthLength[<<y, m>>] = DaysIn(y, m)
<1>1. m \in {4, 6, 9, 11} => DaysIn(y, m) = 30
  <2>1. m \in {4, 6, 9, 11} => m # 2 OBVIOUS
  <2> QED BY <2>1, Zenon DEF DaysIn
<1>2. m = 2 => DaysIn(y, m) \in {28, 29}
  <2>1. m = 2 => m \notin {4, 6, 9, 11} OBVIOUS
  <2> QED BY <2>1, Zenon DEF DaysIn
<1>3. m \in {1, 3, 5, 7, 8, 10, 12} => DaysIn(y, m) = 31
  <2>1. m \in {1, 3, 5, 7, 8, 10, 12} => m \notin {4, 6, 9, 11} /\ m # 2
    OBVIOUS
  <2> QED BY <2>1, Zenon DEF DaysIn
<1>4. MonthLength[<<y, m>>] = DaysIn(y, m) BY DEF MonthLength
<1> QED BY <1>1, <1>2, <1>3, <1>4

(* The same for the twelve months one by one.                              *)
LEMMA LengthsOfYear ==
    ASSUME NEW y \in Years
    PROVE  /\ DaysIn(y, 1) = 31 /\ DaysIn(y, 2) \in 28..31 /\ DaysIn(y, 3) = 31
           /\ DaysIn(y, 4) = 30 /\ DaysIn(y, 5) = 31 /\ DaysIn(y, 6) = 30
           /\ DaysIn(y, 7) = 31 /\ DaysIn(y, 8) = 31 /\ DaysIn(y, 9) = 30
           /\ DaysIn(y, 10) = 31 /\ DaysIn(y, 11) = 30 /\ DaysIn(y, 12) = 31
<1>1. \A m \in {1, 3, 5, 7, 8, 10, 12} : m \in 1..12 /\ DaysIn(y, m) = 31
  <2> TAKE m \in {1, 3, 5, 7, 8, 10, 12}
  <2>1. m \in 1..12 OBVIOUS
  <2> QED BY <2>1, MonthLengths
<1>2. \A m \in {4, 6, 9, 11} : m \in 1..12 /\ DaysIn(y, m) = 30
  <2> TAKE m \in {4, 6, 9, 11}
  <2>1. m \in 1..12 OBVIOUS
  <2> QED BY <2>1, MonthLengths
<1>3. DaysIn(y, 2) \in 28..31
  <2>1. 2 \in 1..12 OBVIOUS
  <2> QED BY <2>1, MonthLengths
<1> QED BY <1>1, <1>2, <1>3

(* Where a month starts is the total of the months before it.              *)
LEMMA StartIsTotal ==
    ASSUME NEW y \in Years, NEW m \in 1..12
    PROVE  FirstOf(y, m) = Total(MonthLength, MonthsBefore(y, m))
<1> DEFINE T(yy, mm) == Total(MonthLength, MonthsBefore(yy, mm))
<1>1. MonthStart = [yy \in Years |-> [mm \in 1..12 |-> T(yy, mm)]]
  BY Zenon DEF MonthStart
<1> HIDE DEF T
<1>2. MonthStart[y] = [mm \in 1..12 |-> T(y, mm)] BY <1>1, Zenon
<1>3. MonthStart[y][m] = T(y, m) BY <1>2, Zenon
<1> QED BY <1>3 DEF FirstOf, T

(* The months before another one, and their lengths.                       *)
LEMMA MonthsAreFinite ==
    ASSUME NEW y \in Years, NEW m \in 1..12
    PROVE  /\ IsFiniteSet(MonthsBefore(y, m))
           /\ \A x \in MonthsBefore(y, m) : MonthLength[x] \in Nat
<1>1. IsFiniteSet(Years \X (1..12))
  <2>1. IsFiniteSet(Years) BY CalendarAssumption, FS_Interval DEF Years
  <2>2. IsFiniteSet(1..12)
    <3>1. 1 \in Int /\ 12 \in Int OBVIOUS
    <3> QED BY <3>1, FS_Interval, Zenon
  <2> QED BY <2>1, <2>2, FS_Product
<1>2. MonthsBefore(y, m) \subseteq Years \X (1..12) BY DEF MonthsBefore
<1>3. \A x \in Years \X (1..12) : MonthLength[x] \in Nat
  <2> TAKE x \in Years \X (1..12)
  <2>1. PICK yy \in Years, mm \in 1..12 : x = <<yy, mm>> OBVIOUS
  <2>2. MonthLength[<<yy, mm>>] = DaysIn(yy, mm) /\ DaysIn(yy, mm) \in 28..31
    BY MonthLengths
  <2> QED BY <2>1, <2>2
<1> QED BY <1>1, <1>2, <1>3, FS_Subset

(* A month starts on a date, and no later month starts before its end.     *)
LEMMA StartType ==
    ASSUME NEW y \in Years, NEW m \in 1..12 PROVE FirstOf(y, m) \in Nat
BY StartIsTotal, MonthsAreFinite, TotalType

(* However many months lie between, the later one starts after the end of  *)
(* the earlier one.                                                        *)
LEMMA LaterStart ==
    ASSUME NEW y \in Years, NEW m \in 1..12, NEW y2 \in Years, NEW m2 \in 1..12,
           y < y2 \/ (y = y2 /\ m < m2)
    PROVE  FirstOf(y2, m2) >= FirstOf(y, m) + DaysIn(y, m)
<1>1. /\ MonthsBefore(y, m) \subseteq MonthsBefore(y2, m2)
      /\ <<y, m>> \in MonthsBefore(y2, m2)
      /\ <<y, m>> \notin MonthsBefore(y, m)
  BY CalendarAssumption DEF MonthsBefore, Years
<1>2. /\ IsFiniteSet(MonthsBefore(y2, m2))
      /\ \A x \in MonthsBefore(y2, m2) : MonthLength[x] \in Nat
  BY MonthsAreFinite
<1>3. Total(MonthLength, MonthsBefore(y2, m2)) >=
            MonthLength[<<y, m>>] + Total(MonthLength, MonthsBefore(y, m))
  BY <1>1, <1>2, TotalGrows
<1>4. MonthLength[<<y, m>>] = DaysIn(y, m) /\ DaysIn(y, m) \in 28..31
  BY MonthLengths
<1>5. FirstOf(y, m) \in Nat /\ FirstOf(y2, m2) \in Nat BY StartType
<1> QED BY <1>3, <1>4, <1>5, StartIsTotal

(* One month, and one year, starts when the one before it is over.         *)
LEMMA NextStart ==
    ASSUME NEW y \in Years, NEW m \in 1..12, NEW y2 \in Years, NEW m2 \in 1..12,
           (y = y2 /\ m2 = m + 1) \/ (y2 = y + 1 /\ m = 12 /\ m2 = 1)
    PROVE  FirstOf(y2, m2) = FirstOf(y, m) + DaysIn(y, m)
<1>1. /\ MonthsBefore(y, m) = MonthsBefore(y2, m2) \ {<<y, m>>}
      /\ <<y, m>> \in MonthsBefore(y2, m2)
  BY CalendarAssumption DEF MonthsBefore, Years
<1>2. /\ IsFiniteSet(MonthsBefore(y2, m2))
      /\ \A x \in MonthsBefore(y2, m2) : MonthLength[x] \in Nat
  BY MonthsAreFinite
<1>3. Total(MonthLength, MonthsBefore(y2, m2)) =
            MonthLength[<<y, m>>] + Total(MonthLength, MonthsBefore(y, m))
  BY <1>1, <1>2, TotalTakes
<1>4. MonthLength[<<y, m>>] = DaysIn(y, m) /\ DaysIn(y, m) \in 28..31
  BY MonthLengths
<1>5. FirstOf(y, m) \in Nat /\ FirstOf(y2, m2) \in Nat BY StartType
<1> QED BY <1>3, <1>4, <1>5, StartIsTotal

(* The days of a month lie in it, and the months of a year in the year.    *)
LEMMA EndIs ==
    ASSUME NEW y \in Years
    PROVE  /\ EndOfYear(y) = FirstOf(y, 12) + 30
           /\ EndOfYear(y) \in Nat
BY StartType DEF EndOfYear, Day

(* A day of a month is a date of the year of the month.                    *)
LEMMA DayInYear ==
    ASSUME NEW y \in Years, NEW m \in 1..12, NEW k \in 1..28
    PROVE  /\ Day(y, m, k) \in Nat
           /\ FirstOf(y, 1) =< Day(y, m, k)
           /\ Day(y, m, k) =< EndOfYear(y)
<1>1. FirstOf(y, 1) \in Nat /\ FirstOf(y, m) \in Nat /\ FirstOf(y, 12) \in Nat
  BY StartType
<1>2. FirstOf(y, 1) =< FirstOf(y, m)
  <2>1. CASE m = 1 BY <2>1, <1>1
  <2>2. CASE m # 1
    <3>1. FirstOf(y, m) >= FirstOf(y, 1) + DaysIn(y, 1) BY <2>2, LaterStart
    <3>2. DaysIn(y, 1) = 31 BY LengthsOfYear
    <3> QED BY <3>1, <3>2, <1>1
  <2> QED BY <2>1, <2>2
<1>3. FirstOf(y, m) =< FirstOf(y, 12)
  <2>1. CASE m = 12 BY <2>1, <1>1
  <2>2. CASE m # 12
    <3>1. FirstOf(y, 12) >= FirstOf(y, m) + DaysIn(y, m) BY <2>2, LaterStart
    <3>2. DaysIn(y, m) \in 28..31 BY MonthLengths
    <3> QED BY <3>1, <3>2, <1>1
  <2> QED BY <2>1, <2>2
<1> QED BY <1>1, <1>2, <1>3, EndIs DEF Day

(* A year ends before a later one starts.                                  *)
LEMMA YearsInOrder ==
    ASSUME NEW y \in Years, NEW y2 \in Years, y < y2
    PROVE  EndOfYear(y) < FirstOf(y2, 1)
<1>1. FirstOf(y2, 1) >= FirstOf(y, 12) + DaysIn(y, 12) BY LaterStart
<1>2. DaysIn(y, 12) = 31 BY LengthsOfYear
<1> QED BY <1>1, <1>2, EndIs, StartType

(* The first of the dates is number 0, and a year follows on another one   *)
(* and has at least 365 days.                                              *)
LEMMA FirstDate == FirstYear \in Years /\ FirstOf(FirstYear, 1) = 0
<1>1. FirstYear \in Years BY CalendarAssumption DEF Years
<1>2. MonthsBefore(FirstYear, 1) = {} BY CalendarAssumption DEF MonthsBefore, Years
<1> QED BY <1>1, <1>2, StartIsTotal, TotalEmpty

(* A year follows on the one before it and has at least 365 days.          *)
LEMMA NextYear ==
    ASSUME NEW y \in Years, y + 1 \in Years
    PROVE  /\ FirstOf(y + 1, 1) = EndOfYear(y) + 1
           /\ EndOfYear(y + 1) >= EndOfYear(y) + 365
<1> DEFINE z == y + 1
<1> HIDE DEF z
<1>0. z \in Years BY DEF z
<1>1. FirstOf(z, 1) = FirstOf(y, 12) + DaysIn(y, 12)
  BY <1>0, NextStart DEF z
<1>2. DaysIn(y, 12) = 31 BY LengthsOfYear
<1>3. \A m \in 1..11 : FirstOf(z, m + 1) = FirstOf(z, m) + DaysIn(z, m)
  BY <1>0, NextStart
<1>4. /\ DaysIn(z, 1) = 31 /\ DaysIn(z, 2) \in 28..31 /\ DaysIn(z, 3) = 31
      /\ DaysIn(z, 4) = 30 /\ DaysIn(z, 5) = 31 /\ DaysIn(z, 6) = 30
      /\ DaysIn(z, 7) = 31 /\ DaysIn(z, 8) = 31 /\ DaysIn(z, 9) = 30
      /\ DaysIn(z, 10) = 31 /\ DaysIn(z, 11) = 30
  BY <1>0, LengthsOfYear
<1>5. \A m \in 1..12 : FirstOf(z, m) \in Nat BY <1>0, StartType
<1>6. FirstOf(z, 5) >= FirstOf(z, 1) + 120 BY <1>3, <1>4, <1>5
<1>7. FirstOf(z, 9) = FirstOf(z, 5) + 123 BY <1>3, <1>4, <1>5
<1>8. FirstOf(z, 12) = FirstOf(z, 9) + 91 BY <1>3, <1>4, <1>5
<1>9. FirstOf(z, 12) >= FirstOf(z, 1) + 334 BY <1>5, <1>6, <1>7, <1>8
<1>10. FirstOf(y, 12) \in Nat BY StartType
<1> QED BY <1>0, <1>1, <1>2, <1>5, <1>9, <1>10, EndIs DEF z

(* Every date up to the last one is in a year, and in one only.            *)
LEMMA YearOfDate ==
    ASSUME NEW date \in Nat, date =< EndOfYear(LastYear)
    PROVE  /\ YearOf(date) \in Years
           /\ FirstOf(YearOf(date), 1) =< date
           /\ date =< EndOfYear(YearOf(date))
<1> DEFINE T == {y \in Years : date =< EndOfYear(y)}
<1>1. T \subseteq Nat /\ LastYear \in T BY CalendarAssumption DEF Years
<1>2. PICK y \in T : \A z \in T : y =< z
  <2> HIDE DEF T
  <2> QED BY <1>1, LeastNumber
<1>3. FirstOf(y, 1) =< date
  <2>1. CASE y = FirstYear BY <2>1, FirstDate
  <2>2. CASE y # FirstYear
    <3> DEFINE z == y - 1
    <3>1. z \in Years /\ z + 1 = y BY <2>2, CalendarAssumption DEF Years
    <3>2. ~ date =< EndOfYear(z)
      <4>1. z \notin T BY <1>1, <1>2
      <4> QED BY <4>1, <3>1
    <3>3. FirstOf(z + 1, 1) = EndOfYear(z) + 1 BY <3>1, NextYear
    <3>4. EndOfYear(z) \in Nat BY <3>1, EndIs
    <3> HIDE DEF z
    <3> QED BY <3>1, <3>2, <3>3, <3>4
  <2> QED BY <2>1, <2>2
<1> QED BY <1>2, <1>3 DEF YearOf

(* A date is in no later year than one that ends on it or after it.        *)
LEMMA YearIsOne ==
    ASSUME NEW date \in Nat, NEW y \in Years, NEW z \in Years,
           FirstOf(y, 1) =< date, date =< EndOfYear(z)
    PROVE  y =< z
<1>1. FirstOf(y, 1) \in Nat /\ EndOfYear(z) \in Nat BY StartType, EndIs
<1>2. y \in Int /\ z \in Int BY CalendarAssumption DEF Years
<1> SUFFICES ASSUME z < y PROVE FALSE BY <1>2
<1>3. EndOfYear(z) < FirstOf(y, 1) BY YearsInOrder
<1> QED BY <1>1, <1>3

(* The draw day of a product in a month, and those a run of the seed       *)
(* writes when its own clock says it is a given year.                      *)
DrawDay(p, y, m) == Day(y, m, drawDayFor(TermMonths[p], m))

Seeded(p, year) ==
    {DrawDay(p, y, m) : y \in {year, year + 1} \cap Years, m \in 1..12}

(***************************************************************************)
(* The inductive invariant: only draw days are in the calendar; it covers  *)
(* the year of the last complete run of the seed and the next one; it has  *)
(* no gap between now and its last row; and a product without a warning    *)
(* is covered for sixty days from the start of the API.                    *)
(***************************************************************************)
Clock ==
    /\ Day(FirstYear, 11, 2) =< today
    /\ startedOn \in Nat

OnlyDrawDays == \A p \in Product : rows[p] \subseteq DrawDays[p]

CoveredBySeed ==
    seededOn # Never =>
        /\ seededOn \in Nat
        /\ seededOn =< UtcDate
        /\ \A p \in Product : Seeded(p, YearOf(seededOn)) \subseteq rows[p]

NoGapAhead ==
    \A p \in Product : \A e \in rows[p], d \in DrawDays[p] :
        UtcDate =< d /\ d < e => d \in rows[p]

WarnedOrCovered ==
    \A p \in Product \ warned : \E e \in rows[p] : e > startedOn + within

CalendarInv ==
    /\ DrawTypeOK
    /\ Clock
    /\ OnlyDrawDays
    /\ CoveredBySeed
    /\ NoGapAhead
    /\ WarnedOrCovered

(* The years end with the last one.                                        *)
LEMMA LastEnd ==
    ASSUME NEW y \in Years
    PROVE  EndOfYear(y) =< EndOfYear(LastYear) /\ EndOfYear(LastYear) \in Nat
<1>1. y \in Int /\ LastYear \in Years /\ LastYear \in Int /\ y =< LastYear
  BY CalendarAssumption DEF Years
<1>2. CASE y = LastYear BY <1>2, EndIs
<1>3. CASE y < LastYear
  <2>1. EndOfYear(y) < FirstOf(LastYear, 1) BY <1>1, <1>3, YearsInOrder
  <2>2. 12 \in 1..12 /\ 28 \in 1..28 /\ 1 \in 1..12 /\ 1 \in 1..28 OBVIOUS
  <2>3. /\ FirstOf(LastYear, 1) =< Day(LastYear, 12, 28)
        /\ Day(LastYear, 12, 28) =< EndOfYear(LastYear)
        /\ Day(LastYear, 12, 28) \in Nat
    BY <1>1, <2>2, DayInYear
  <2>4. /\ FirstOf(LastYear, 1) \in Nat /\ EndOfYear(LastYear) \in Nat
        /\ EndOfYear(y) \in Nat
    BY <1>1, <2>2, StartType, EndIs
  <2> QED BY <2>1, <2>3, <2>4
<1> QED BY <1>1, <1>2, <1>3

(* The draw day of a month is one of its first sixteen days, and the       *)
(* official sales sheets and the program agree on it.                      *)
LEMMA DrawDayIs ==
    ASSUME NEW p \in Product, NEW m \in 1..12
    PROVE  /\ drawDayFor(TermMonths[p], m) \in 1..28
           /\ p = "SALAK_1Y" => drawDayFor(TermMonths[p], m) = 16
           /\ p # "SALAK_1Y" => drawDayFor(TermMonths[p], m) =
                                    (IF m \in {1, 5} THEN 2 ELSE 1)
BY DEF Product, TermMonths, drawDayFor

(* The draw days of a product are one day in each month of each year.      *)
LEMMA DrawDaysAre ==
    ASSUME NEW p \in Product
    PROVE  DrawDays[p] = {DrawDay(p, y, m) : y \in Years, m \in 1..12}
<1>1. CASE p = "SALAK_1Y"
  <2>1. \A m \in 1..12 : drawDayFor(TermMonths[p], m) = 16 BY <1>1, DrawDayIs
  <2>2. DrawDays[p] = {Day(y, m, 16) : y \in Years, m \in 1..12}
    BY <1>1 DEF DrawDays
  <2> QED BY <2>1, <2>2 DEF DrawDay
<1>2. CASE p # "SALAK_1Y"
  <2>1. \A m \in 1..12 : drawDayFor(TermMonths[p], m) =
                             (IF m \in {1, 5} THEN 2 ELSE 1)
    BY <1>2, DrawDayIs
  <2>2. DrawDays[p] =
            {Day(y, m, 1) : y \in Years, m \in (1..12) \ {1, 5}}
                \cup {Day(y, m, 2) : y \in Years, m \in {1, 5}}
    BY <1>2 DEF DrawDays
  <2>3. ASSUME NEW y \in Years, NEW m \in 1..12
        PROVE  DrawDay(p, y, m) \in DrawDays[p]
    BY <2>1, <2>2 DEF DrawDay
  <2>4. ASSUME NEW d \in DrawDays[p]
        PROVE  \E y \in Years, m \in 1..12 : d = DrawDay(p, y, m)
    <3>1. CASE \E y \in Years, m \in (1..12) \ {1, 5} : d = Day(y, m, 1)
      BY <2>1, <3>1 DEF DrawDay
    <3>2. CASE \E y \in Years, m \in {1, 5} : d = Day(y, m, 2)
      <4>1. PICK y \in Years, m \in {1, 5} : d = Day(y, m, 2) BY <3>2
      <4>2. m \in 1..12 OBVIOUS
      <4> QED BY <2>1, <4>1, <4>2 DEF DrawDay
    <3> QED BY <2>2, <3>1, <3>2
  <2> DEFINE S == {DrawDay(p, y, m) : y \in Years, m \in 1..12}
  <2>5. S \subseteq DrawDays[p] BY <2>3
  <2>6. DrawDays[p] \subseteq S BY <2>4
  <2> QED BY <2>5, <2>6
<1> QED BY <1>1, <1>2

(* Draw days of a product are dates of their year; two of them lie weeks   *)
(* apart.                                                                  *)
LEMMA DrawDayInYear ==
    ASSUME NEW p \in Product, NEW y \in Years, NEW m \in 1..12
    PROVE  /\ DrawDay(p, y, m) \in Nat
           /\ FirstOf(y, 1) =< DrawDay(p, y, m)
           /\ DrawDay(p, y, m) =< EndOfYear(y)
BY DrawDayIs, DayInYear DEF DrawDay

(* In a later month the draw day is later, by more than a day.             *)
LEMMA DrawDaysInOrder ==
    ASSUME NEW p \in Product, NEW y \in Years, NEW m \in 1..12,
           NEW y2 \in Years, NEW m2 \in 1..12, y < y2 \/ (y = y2 /\ m < m2)
    PROVE  DrawDay(p, y, m) + 2 =< DrawDay(p, y2, m2)
<1>1. FirstOf(y2, m2) >= FirstOf(y, m) + DaysIn(y, m) BY LaterStart
<1>2. DaysIn(y, m) \in 28..31 BY MonthLengths
<1>3. FirstOf(y, m) \in Nat /\ FirstOf(y2, m2) \in Nat BY StartType
<1>4. /\ drawDayFor(TermMonths[p], m) \in 1..28
      /\ drawDayFor(TermMonths[p], m2) \in 1..28
      /\ drawDayFor(TermMonths[p], m) =< drawDayFor(TermMonths[p], m2) + 1
  BY DrawDayIs
<1> QED BY <1>1, <1>2, <1>3, <1>4 DEF DrawDay, Day

(* So a draw day tells its year and month ...                              *)
LEMMA DrawDayIsOne ==
    ASSUME NEW p \in Product, NEW y \in Years, NEW m \in 1..12,
           NEW y2 \in Years, NEW m2 \in 1..12,
           DrawDay(p, y, m) = DrawDay(p, y2, m2)
    PROVE  y = y2 /\ m = m2
<1>1. DrawDay(p, y, m) \in Nat BY DrawDayInYear
<1>2. ~ (y < y2 \/ (y = y2 /\ m < m2)) BY <1>1, DrawDaysInOrder
<1>3. ~ (y2 < y \/ (y2 = y /\ m2 < m)) BY <1>1, DrawDaysInOrder
<1>4. y \in Int /\ y2 \in Int BY CalendarAssumption DEF Years
<1> QED BY <1>2, <1>3, <1>4

(* ... and the day after a draw day is none.                               *)
LEMMA DrawDaysApart ==
    ASSUME NEW p \in Product, NEW d \in DrawDays[p]
    PROVE  d \in Nat /\ d =< EndOfYear(LastYear) /\ d + 1 \notin DrawDays[p]
<1>1. PICK y \in Years, m \in 1..12 : d = DrawDay(p, y, m) BY DrawDaysAre
<1>2. d \in Nat /\ d =< EndOfYear(y) BY <1>1, DrawDayInYear
<1>3. EndOfYear(y) =< EndOfYear(LastYear) BY LastEnd
<1>4. d + 1 \notin DrawDays[p]
  <2> SUFFICES ASSUME d + 1 \in DrawDays[p] PROVE FALSE
    OBVIOUS
  <2>1. PICK y2 \in Years, m2 \in 1..12 : d + 1 = DrawDay(p, y2, m2)
    BY DrawDaysAre
  <2>2. ~ (y < y2 \/ (y = y2 /\ m < m2))
    BY <1>1, <1>2, <2>1, DrawDaysInOrder
  <2>3. ~ (y2 < y \/ (y2 = y /\ m2 < m))
    <3>1. ~ d + 1 + 2 =< d BY <1>2
    <3> QED BY <1>1, <2>1, <3>1, DrawDaysInOrder
  <2>4. y \in Int /\ y2 \in Int BY CalendarAssumption DEF Years
  <2>5. y = y2 /\ m = m2 BY <2>2, <2>3, <2>4
  <2> QED BY <1>1, <1>2, <2>1, <2>5
<1>5. EndOfYear(y) \in Nat /\ EndOfYear(LastYear) \in Nat
  BY EndIs, CalendarAssumption DEF Years
<1> QED BY <1>2, <1>3, <1>4, <1>5

(* The rows of a run of the seed are draw days, and every draw day from    *)
(* the start of its year to the end of the next one.                       *)
LEMMA SeededAre ==
    ASSUME NEW p \in Product, NEW year \in Years
    PROVE  /\ Seeded(p, year) \subseteq DrawDays[p]
           /\ IsFiniteSet(Seeded(p, year))
           /\ \A e \in Seeded(p, year), d \in DrawDays[p] :
                 FirstOf(year, 1) =< d /\ d < e => d \in Seeded(p, year)
           /\ \A d \in DrawDays[p] :
                 FirstOf(year, 1) =< d /\ d =< EndOfYear(year) + 365
                     => d \in Seeded(p, year)
<1>0. year \in Int BY CalendarAssumption DEF Years
<1>1. Seeded(p, year) \subseteq DrawDays[p] BY DrawDaysAre DEF Seeded
<1>2. IsFiniteSet(Seeded(p, year))
  <2>1. Seeded(p, year) \subseteq 0..EndOfYear(LastYear)
    <3>1. \A d \in DrawDays[p] : d \in Nat /\ d =< EndOfYear(LastYear)
      BY DrawDaysApart
    <3>2. EndOfYear(LastYear) \in Nat BY EndIs, CalendarAssumption DEF Years
    <3> QED BY <1>1, <3>1, <3>2
  <2>2. IsFiniteSet(0..EndOfYear(LastYear))
    <3>1. EndOfYear(LastYear) \in Int /\ 0 \in Int
      BY EndIs, CalendarAssumption DEF Years
    <3> QED BY <3>1, FS_Interval, Zenon
  <2> QED BY <2>1, <2>2, FS_Subset
<1>3. ASSUME NEW d \in DrawDays[p], FirstOf(year, 1) =< d,
             \/ \E e \in Seeded(p, year) : d < e
             \/ d =< EndOfYear(year) + 365
      PROVE  d \in Seeded(p, year)
  <2>1. PICK y \in Years, m \in 1..12 : d = DrawDay(p, y, m) BY DrawDaysAre
  <2>2. d \in Nat /\ FirstOf(y, 1) =< d /\ d =< EndOfYear(y)
    BY <2>1, DrawDayInYear
  <2>3. y \in Int BY CalendarAssumption DEF Years
  <2>4. year =< y BY <1>3, <2>2, YearIsOne
  <2>5. y =< year + 1
    <3>1. CASE \E e \in Seeded(p, year) : d < e
      <4>1. PICK z \in {year, year + 1} \cap Years, k \in 1..12 :
                    d < DrawDay(p, z, k)
        BY <3>1 DEF Seeded
      <4>2. DrawDay(p, z, k) \in Nat /\ DrawDay(p, z, k) =< EndOfYear(z)
        BY DrawDayInYear
      <4>3. d =< EndOfYear(z) BY <2>2, <4>1, <4>2, EndIs
      <4>4. y =< z BY <2>2, <4>3, YearIsOne
      <4> QED BY <1>0, <2>3, <4>4
    <3>2. CASE d =< EndOfYear(year) + 365
      <4> SUFFICES ASSUME year + 1 < y PROVE FALSE
        BY <1>0, <2>3
      <4>1. year + 1 \in Years BY <1>0, CalendarAssumption DEF Years
      <4>2. EndOfYear(year + 1) >= EndOfYear(year) + 365 BY <4>1, NextYear
      <4>3. EndOfYear(year + 1) \in Nat /\ EndOfYear(year) \in Nat
        BY <4>1, EndIs
      <4>4. d =< EndOfYear(year + 1) BY <2>2, <3>2, <4>2, <4>3
      <4>5. y =< year + 1 BY <2>2, <4>1, <4>4, YearIsOne
      <4> QED BY <1>0, <2>3, <4>5
    <3> QED BY <1>3, <3>1, <3>2
  <2>6. y \in {year, year + 1} \cap Years BY <1>0, <2>3, <2>4, <2>5
  <2> QED BY <2>1, <2>6 DEF Seeded
<1> QED BY <1>1, <1>2, <1>3

(* A run has no fewer rows for the first product than for the second.      *)
LEMMA SeededSizes ==
    ASSUME NEW year \in Years
    PROVE  /\ Cardinality(Seeded("SALAK_1Y", year)) \in Nat
           /\ Cardinality(Seeded("SALAK_2Y", year)) \in Nat
           /\ Cardinality(Seeded("SALAK_2Y", year)) =<
                  Cardinality(Seeded("SALAK_1Y", year))
<1> DEFINE one == "SALAK_1Y"
           two == "SALAK_2Y"
           I == ({year, year + 1} \cap Years) \X (1..12)
           At(d) == CHOOSE i \in I : d = DrawDay(one, i[1], i[2])
           f == [d \in Seeded(one, year) |-> DrawDay(two, At(d)[1], At(d)[2])]
<1>1. one \in Product /\ two \in Product BY DEF Product
<1>2. ASSUME NEW y \in {year, year + 1} \cap Years, NEW m \in 1..12
      PROVE  At(DrawDay(one, y, m)) = <<y, m>>
  <2>1. <<y, m>> \in I OBVIOUS
  <2>2. \A i \in I : DrawDay(one, y, m) = DrawDay(one, i[1], i[2])
                         => i = <<y, m>>
    BY <1>1, DrawDayIsOne
  <2> HIDE DEF I, one
  <2> QED BY <2>1, <2>2
<1>3. \A y \in {year, year + 1} \cap Years, m \in 1..12 :
          /\ DrawDay(one, y, m) \in Seeded(one, year)
          /\ DrawDay(two, y, m) \in Seeded(two, year)
          /\ f[DrawDay(one, y, m)] = DrawDay(two, y, m)
  <2> TAKE y \in {year, year + 1} \cap Years, m \in 1..12
  <2>1. /\ DrawDay(one, y, m) \in Seeded(one, year)
        /\ DrawDay(two, y, m) \in Seeded(two, year)
    BY DEF Seeded
  <2>2. f[DrawDay(one, y, m)] = DrawDay(two, At(DrawDay(one, y, m))[1],
                                             At(DrawDay(one, y, m))[2])
    BY <2>1, Zenon
  <2>3. <<y, m>>[1] = y /\ <<y, m>>[2] = m OBVIOUS
  <2> HIDE DEF f, At
  <2> QED BY <2>1, <2>2, <2>3, <1>2, Zenon
<1> HIDE DEF f, At, I, one, two
<1>4. \A d \in Seeded(one, year) : f[d] \in Seeded(two, year)
  <2> TAKE d \in Seeded(one, year)
  <2>1. PICK y \in {year, year + 1} \cap Years, m \in 1..12 :
                d = DrawDay(one, y, m)
    BY DEF Seeded
  <2> QED BY <2>1, <1>3, Zenon
<1>5. f \in Surjection(Seeded(one, year), Seeded(two, year))
  <2>1. f \in [Seeded(one, year) -> Seeded(two, year)] BY <1>4, Zenon DEF f
  <2>2. \A e \in Seeded(two, year) : \E d \in Seeded(one, year) : f[d] = e
    <3> TAKE e \in Seeded(two, year)
    <3>1. PICK y \in {year, year + 1} \cap Years, m \in 1..12 :
                  e = DrawDay(two, y, m)
      BY DEF Seeded
    <3> QED BY <3>1, <1>3, Zenon
  <2> QED BY <2>1, <2>2 DEF Surjection
<1>6. IsFiniteSet(Seeded(one, year)) /\ IsFiniteSet(Seeded(two, year))
  BY <1>1, SeededAre
<1> QED BY <1>5, <1>6, FS_Surjection, FS_CardinalityType DEF one, two

(* The first rows, by date: none before one of them is left out, and those *)
(* of a set that is no larger are all of it.                               *)
LEMMA EarliestAre ==
    ASSUME NEW G, IsFiniteSet(G), G \subseteq Nat, NEW n \in Int
    PROVE  /\ Earliest(G, n) \subseteq G
           /\ \A e \in Earliest(G, n), d \in G : d < e => d \in Earliest(G, n)
           /\ Cardinality(G) =< n => Earliest(G, n) = G
<1> DEFINE Below(d) == {e \in G : e < d}
<1>0. \A d \in G : /\ IsFiniteSet(Below(d)) /\ Cardinality(Below(d)) \in Nat
                   /\ Cardinality(Below(d)) =< Cardinality(G)
                   /\ Cardinality(Below(d)) # Cardinality(G)
  <2> TAKE d \in G
  <2>1. Below(d) \subseteq G /\ d \notin Below(d) BY DEF Below
  <2> QED BY <2>1, FS_Subset, FS_CardinalityType
<1>1. ASSUME NEW e \in Earliest(G, n), NEW d \in G, d < e
      PROVE  d \in Earliest(G, n)
  <2>1. e \in G /\ Cardinality(Below(e)) < n BY DEF Earliest
  <2>2. Below(d) \subseteq Below(e)
    <3> SUFFICES ASSUME NEW x \in G, x < d PROVE x < e
      OBVIOUS
    <3>1. d \in Nat /\ e \in Nat /\ x \in Nat BY <2>1
    <3> QED BY <1>1, <3>1
  <2>3. Cardinality(Below(d)) =< Cardinality(Below(e))
    BY <1>0, <2>1, <2>2, FS_Subset
  <2>4. Cardinality(Below(d)) < n BY <1>0, <2>1, <2>3
  <2> QED BY <2>4 DEF Earliest
<1>2. ASSUME Cardinality(G) =< n, NEW d \in G PROVE d \in Earliest(G, n)
  <2>1. Cardinality(G) \in Nat BY FS_CardinalityType
  <2>2. Cardinality(Below(d)) < n BY <1>0, <1>2, <2>1
  <2> QED BY <2>2 DEF Earliest
<1> QED BY <1>1, <1>2 DEF Earliest

(* The dates at which time stops are dates, and so is that of the program. *)
LEMMA StopsAre ==
    ASSUME NEW s \in Stop PROVE s \in Nat /\ s =< EndOfYear(LastYear)
<1>1. CASE \E y \in Years : s = EndOfYear(y) BY <1>1, LastEnd, EndIs
<1>2. CASE \E y \in Years, m \in 1..12, k \in {1, 2, 16} : s = Day(y, m, k)
  <2>1. PICK y \in Years, m \in 1..12, k \in {1, 2, 16} : s = Day(y, m, k)
    BY <1>2
  <2>2. k \in 1..28 OBVIOUS
  <2>3. s \in Nat /\ s =< EndOfYear(y) BY <2>1, <2>2, DayInYear
  <2> QED BY <2>3, LastEnd, EndIs
<1> QED BY <1>1, <1>2 DEF Stop

(* The day the installation starts on is a date, and not the first of all. *)
LEMMA FirstDay ==
    /\ Day(FirstYear, 11, 2) \in Stop
    /\ Day(FirstYear, 11, 2) \in Nat \ {0}
<1>1. FirstYear \in Years BY FirstDate
<1>2. 11 \in 1..12 /\ 2 \in {1, 2, 16} OBVIOUS
<1>3. FirstOf(FirstYear, 11) \in Nat BY <1>1, <1>2, StartType
<1>4. Day(FirstYear, 11, 2) \in Nat \ {0} BY <1>3 DEF Day
<1> QED BY <1>1, <1>2, <1>4 DEF Stop

(* In every state that satisfies the invariant the clocks show dates, the  *)
(* program's at most one behind the bank's.                                *)
LEMMA DatesAre ==
    ASSUME CalendarInv
    PROVE  /\ today \in Nat /\ UtcDate \in Nat /\ startedOn \in Nat
           /\ UtcDate =< EndOfYear(LastYear)
           /\ UtcDate =< today /\ today =< UtcDate + 1
           /\ UtcDate \in Stop \cup {s - 1 : s \in Stop}
           /\ seededOn # Never => seededOn \in Nat
<1>1. today \in Nat /\ today =< EndOfYear(LastYear)
  BY StopsAre DEF CalendarInv, DrawTypeOK
<1>2. today # 0 BY <1>1, FirstDay DEF CalendarInv, Clock
<1>3. EndOfYear(LastYear) \in Nat BY LastEnd, FirstDate
<1>4. UtcDate \in Stop \cup {s - 1 : s \in Stop}
  BY DEF CalendarInv, DrawTypeOK, UtcDate
<1>5. startedOn \in Nat /\ (seededOn # Never => seededOn \in Nat)
  BY DEF CalendarInv, Clock, CoveredBySeed
<1> QED BY <1>1, <1>2, <1>3, <1>4, <1>5 DEF UtcDate

(* The calendar is a finite set, so one that is not empty has a last row.  *)
LEMMA LastRow ==
    ASSUME NEW p \in Product, NEW R, R \subseteq DrawDays[p], R # {}
    PROVE  Max(R) \in R
<1> DEFINE end == EndOfYear(LastYear)
           T == {end - d : d \in R}
<1>1. end \in Nat BY LastEnd, FirstDate
<1>2. \A d \in R : d \in Nat /\ d =< end BY DrawDaysApart
<1>3. T \subseteq Nat /\ T # {} BY <1>1, <1>2
<1>4. PICK t \in T : \A u \in T : t =< u
  <2> HIDE DEF T
  <2> QED BY <1>3, LeastNumber
<1>5. PICK d \in R : t = end - d BY <1>4
<1>6. \A e \in R : d >= e
  <2> TAKE e \in R
  <2>1. end - d =< end - e BY <1>4, <1>5
  <2> QED BY <1>1, <1>2, <2>1
<1> QED BY <1>6, Zenon DEF Max

(* The invariant holds of an empty calendar.                               *)
LEMMA CalendarInitInv == DrawInit => CalendarInv
<1> SUFFICES ASSUME DrawInit PROVE CalendarInv
  OBVIOUS
<1> USE DEF DrawInit
<1>1. DrawTypeOK
  <2>1. today \in Stop /\ startedOn \in Stop BY FirstDay
  <2>2. seeds \in 0..MaxSeeds BY CalendarAssumption
  <2>3. rows \in [Product -> SUBSET Nat] OBVIOUS
  <2> QED BY <2>1, <2>2, <2>3 DEF DrawTypeOK
<1>2. Clock BY FirstDay DEF Clock
<1>3. OnlyDrawDays BY DEF OnlyDrawDays
<1>4. CoveredBySeed BY DEF CoveredBySeed
<1>5. NoGapAhead BY DEF NoGapAhead
<1>6. WarnedOrCovered BY DEF WarnedOrCovered
<1> QED BY <1>1, <1>2, <1>3, <1>4, <1>5, <1>6 DEF CalendarInv

(* What a run of the seed does to the calendar: it adds draw days, no one  *)
(* that it adds has a gap before it, and a complete run adds all.          *)
LEMMA SeedWrites ==
    ASSUME CalendarInv, NEW n \in RowsWritten, Seed(n),
           NEW year, year = YearOf(UtcDate)
    PROVE  /\ \A p \in Product :
                 \E W \in SUBSET Seeded(p, year) :
                    /\ rows'[p] = rows[p] \cup W
                    /\ \A e \in W, d \in Seeded(p, year) : d < e => d \in W
           /\ rows' \in [Product -> SUBSET Nat]
           /\ \/ seededOn' = seededOn
              \/ /\ seededOn' = UtcDate
                 /\ \A p \in Product : Seeded(p, year) \subseteq rows'[p]
<1> DEFINE one == Seeded("SALAK_1Y", year)
           two == Seeded("SALAK_2Y", year)
           size == Cardinality(one)
           W(p) == IF p = "SALAK_1Y" THEN Earliest(one, n)
                   ELSE Earliest(two, n - size)
<1>1. year \in Years BY DatesAre, YearOfDate
<1>2. \A p \in Product : generateDrawDates(p) = Seeded(p, year)
  <2>1. SeededYears = {year, year + 1} BY DEF SeededYears
  <2> QED BY <2>1 DEF generateDrawDates, Seeded, DrawDay
<1>3. "SALAK_1Y" \in Product /\ "SALAK_2Y" \in Product BY DEF Product
<1>4. rows' = [p \in Product |-> rows[p] \cup W(p)]
  BY <1>2, <1>3 DEF Seed, Kept
<1>5. seededOn' = (IF n >= 2 * size THEN UtcDate ELSE seededOn)
  BY <1>2, <1>3 DEF Seed
<1>6. /\ IsFiniteSet(one) /\ one \subseteq Nat
      /\ IsFiniteSet(two) /\ two \subseteq Nat
  <2>1. \A p \in Product : DrawDays[p] \subseteq Nat BY DrawDaysApart
  <2> QED BY <1>1, <1>3, <2>1, SeededAre
<1>7. /\ n \in Int /\ n - size \in Int /\ size \in Nat
      /\ n >= 2 * size => Cardinality(one) =< n /\ Cardinality(two) =< n - size
  <2>1. /\ Cardinality(one) \in Nat /\ Cardinality(two) \in Nat
        /\ Cardinality(two) =< Cardinality(one)
    BY <1>1, SeededSizes
  <2>2. n \in Nat BY CalendarAssumption
  <2> HIDE DEF one, two
  <2> QED BY <2>1, <2>2
<1>8. \A p \in Product :
          /\ W(p) \subseteq Seeded(p, year)
          /\ \A e \in W(p), d \in Seeded(p, year) : d < e => d \in W(p)
          /\ n >= 2 * size => W(p) = Seeded(p, year)
  <2> TAKE p \in Product
  <2>1. CASE p = "SALAK_1Y"
    <3>1. W(p) = Earliest(one, n) /\ Seeded(p, year) = one BY <2>1
    <3> HIDE DEF W, size, one, two
    <3>2. /\ Earliest(one, n) \subseteq one
          /\ \A e \in Earliest(one, n), d \in one :
                d < e => d \in Earliest(one, n)
          /\ Cardinality(one) =< n => Earliest(one, n) = one
      BY <1>6, <1>7, EarliestAre
    <3> QED BY <3>1, <3>2, <1>7
  <2>2. CASE p = "SALAK_2Y"
    <3>1. W(p) = Earliest(two, n - size) /\ Seeded(p, year) = two BY <2>2
    <3> HIDE DEF W, size, one, two
    <3>2. PICK k \in Int : k = n - size BY <1>7
    <3>3. /\ Earliest(two, k) \subseteq two
          /\ \A e \in Earliest(two, k), d \in two :
                d < e => d \in Earliest(two, k)
          /\ Cardinality(two) =< k => Earliest(two, k) = two
      BY <1>6, EarliestAre
    <3> QED BY <3>1, <3>2, <3>3, <1>7
  <2> QED BY <2>1, <2>2 DEF Product
<1>9. \A p \in Product : W(p) \in SUBSET Nat
  <2>1. \A p \in Product : Seeded(p, year) \subseteq DrawDays[p]
    BY <1>1, SeededAre
  <2>2. \A p \in Product : DrawDays[p] \subseteq Nat BY DrawDaysApart
  <2> HIDE DEF W
  <2> QED BY <1>8, <2>1, <2>2
<1>10. rows \in [Product -> SUBSET Nat] BY DEF CalendarInv, DrawTypeOK
<1> HIDE DEF W, size, one, two
<1>11. \A p \in Product : rows'[p] = rows[p] \cup W(p) BY <1>4
<1>12. rows' \in [Product -> SUBSET Nat] BY <1>4, <1>9, <1>10
<1>13. CASE n >= 2 * size BY <1>13, <1>5, <1>8, <1>11, <1>12
<1>14. CASE ~ n >= 2 * size BY <1>14, <1>5, <1>8, <1>11, <1>12
<1> QED BY <1>13, <1>14

(* A run of the seed keeps it, wherever the run dies: what it adds lies    *)
(* between now and its own last row without a gap.                         *)
LEMMA SeedKeepsInv ==
    ASSUME CalendarInv, NEW n \in RowsWritten, Seed(n) PROVE CalendarInv'
<1>0. PICK year : year = YearOf(UtcDate) OBVIOUS
<1>1. /\ \A p \in Product :
            \E W \in SUBSET Seeded(p, year) :
               /\ rows'[p] = rows[p] \cup W
               /\ \A e \in W, d \in Seeded(p, year) : d < e => d \in W
      /\ rows' \in [Product -> SUBSET Nat]
      /\ \/ seededOn' = seededOn
         \/ /\ seededOn' = UtcDate
            /\ \A p \in Product : Seeded(p, year) \subseteq rows'[p]
  BY <1>0, SeedWrites
<1>2. /\ UtcDate \in Nat /\ year \in Years /\ FirstOf(year, 1) =< UtcDate
      /\ UtcDate \in Stop \cup {s - 1 : s \in Stop}
      /\ FirstOf(year, 1) \in Nat
  <2>1. year \in Years /\ FirstOf(year, 1) =< UtcDate
    BY <1>0, DatesAre, YearOfDate
  <2>2. FirstOf(year, 1) \in Nat
    <3>1. 1 \in 1..12 OBVIOUS
    <3> QED BY <2>1, <3>1, StartType
  <2> QED BY <2>1, <2>2, DatesAre
<1>3. /\ today' = today /\ night' = night /\ startedOn' = startedOn
      /\ warned' = warned /\ seeds < MaxSeeds /\ seeds' = seeds + 1
  BY DEF Seed
<1>4. UtcDate' = UtcDate BY <1>3 DEF UtcDate
<1>5. DrawTypeOK'
  <2>1. seeds' \in 0..MaxSeeds
    BY <1>3, CalendarAssumption DEF CalendarInv, DrawTypeOK
  <2>2. seededOn' \in Stop \cup {s - 1 : s \in Stop} \cup {Never}
    BY <1>1, <1>2 DEF CalendarInv, DrawTypeOK
  <2> QED BY <1>1, <1>3, <2>1, <2>2 DEF CalendarInv, DrawTypeOK
<1>6. Clock' BY <1>3 DEF CalendarInv, Clock
<1>7. OnlyDrawDays' BY <1>1, <1>2, SeededAre DEF CalendarInv, OnlyDrawDays
<1>8. CoveredBySeed'
  <2>1. \A p \in Product : rows[p] \subseteq rows'[p] BY <1>1
  <2>2. CASE seededOn' = seededOn
    BY <1>4, <2>1, <2>2 DEF CalendarInv, CoveredBySeed
  <2>3. CASE /\ seededOn' = UtcDate
             /\ \A p \in Product : Seeded(p, year) \subseteq rows'[p]
    BY <1>0, <1>2, <1>4, <2>3 DEF CoveredBySeed
  <2> QED BY <1>1, <2>2, <2>3
<1>9. NoGapAhead'
  <2> SUFFICES ASSUME NEW p \in Product, NEW e \in rows'[p],
                      NEW d \in DrawDays[p], UtcDate =< d, d < e
               PROVE  d \in rows'[p]
    BY <1>4 DEF NoGapAhead
  <2>1. PICK W \in SUBSET Seeded(p, year) :
             /\ rows'[p] = rows[p] \cup W
             /\ \A x \in W, y \in Seeded(p, year) : y < x => y \in W
    BY <1>1
  <2>2. CASE e \in rows[p] BY <2>1, <2>2 DEF CalendarInv, NoGapAhead
  <2>3. CASE e \in W
    <3>1. d \in Nat BY DrawDaysApart
    <3>2. FirstOf(year, 1) =< d BY <1>2, <3>1
    <3>3. d \in Seeded(p, year) BY <1>2, <2>1, <2>3, <3>2, SeededAre
    <3> QED BY <2>1, <2>3, <3>3
  <2> QED BY <2>1, <2>2, <2>3
<1>10. WarnedOrCovered'
  BY <1>1, <1>3 DEF CalendarInv, WarnedOrCovered
<1> QED BY <1>5, <1>6, <1>7, <1>8, <1>9, <1>10 DEF CalendarInv

(* A start of the API keeps it: what it does not warn of has a last row    *)
(* more than sixty days ahead.                                             *)
LEMMA StartKeepsInv ==
    ASSUME CalendarInv, StartAndWarn PROVE CalendarInv'
<1>1. /\ today' = today /\ night' = night /\ rows' = rows /\ seeds' = seeds
      /\ seededOn' = seededOn /\ startedOn' = UtcDate
      /\ warned' = drawDateCoverageWarnings
  BY DEF StartAndWarn
<1>2. UtcDate' = UtcDate BY <1>1 DEF UtcDate
<1>3. /\ UtcDate \in Nat /\ today \in Nat
      /\ UtcDate \in Stop \cup {s - 1 : s \in Stop}
  BY DatesAre
<1>4. DrawTypeOK'
  BY <1>1, <1>3 DEF CalendarInv, DrawTypeOK, drawDateCoverageWarnings
<1>5. Clock' BY <1>1, <1>3 DEF CalendarInv, Clock
<1>6. OnlyDrawDays' BY <1>1 DEF CalendarInv, OnlyDrawDays
<1>7. CoveredBySeed' BY <1>1, <1>2 DEF CalendarInv, CoveredBySeed
<1>8. NoGapAhead' BY <1>1, <1>2 DEF CalendarInv, NoGapAhead
<1>9. WarnedOrCovered'
  <2> SUFFICES ASSUME NEW p \in Product, p \notin drawDateCoverageWarnings
               PROVE  \E e \in rows[p] : e > UtcDate + within
    BY <1>1 DEF WarnedOrCovered
  <2>1. rows[p] # {} /\ ~ Max(rows[p]) =< UtcDate + within
    BY DEF drawDateCoverageWarnings
  <2>2. rows[p] \subseteq DrawDays[p] BY DEF CalendarInv, OnlyDrawDays
  <2>3. Max(rows[p]) \in rows[p] BY <2>1, <2>2, LastRow
  <2>4. Max(rows[p]) \in Nat BY <2>2, <2>3, DrawDaysApart
  <2> QED BY <1>3, <2>1, <2>3, <2>4 DEF within
<1> QED BY <1>4, <1>5, <1>6, <1>7, <1>8, <1>9 DEF CalendarInv

(* Time goes on, and stops at a Stop.                                      *)
LEMMA MidnightMoves ==
    ASSUME CalendarInv, Midnight
    PROVE  /\ today' \in Stop /\ today' \in Nat /\ today' > today
           /\ today' - startedOn =< MaxUptime
<1> DEFINE later == {s \in Stop : s > today}
<1>1. later \subseteq Nat /\ later # {} BY StopsAre DEF Midnight
<1>2. PICK s \in later : \A u \in later : s =< u
  <2> HIDE DEF later
  <2> QED BY <1>1, LeastNumber
<1>3. Min(later) \in later
  <2> HIDE DEF later
  <2> QED BY <1>2, Zenon DEF Min
<1> QED BY <1>1, <1>3 DEF Midnight

(* Time keeps it, as it only goes forward.                                 *)
LEMMA TimeKeepsInv ==
    ASSUME CalendarInv, Morning \/ Midnight PROVE CalendarInv' /\ UtcDate =< UtcDate'
<1>0. today \in Nat /\ UtcDate \in Nat BY DatesAre
<1>1. /\ rows' = rows /\ seeds' = seeds /\ seededOn' = seededOn
      /\ startedOn' = startedOn /\ warned' = warned
  BY DEF Morning, Midnight
<1>2. /\ today' \in Stop /\ today' >= today /\ night' \in BOOLEAN
      /\ today' \in Nat /\ UtcDate' \in Nat /\ UtcDate =< UtcDate'
  <2>1. CASE Morning
    <3>1. today' = today /\ night /\ night' = FALSE BY <2>1 DEF Morning
    <3>2. UtcDate = today - 1 /\ UtcDate' = today BY <3>1 DEF UtcDate
    <3>3. today' \in Stop BY <3>1 DEF CalendarInv, DrawTypeOK
    <3>4. today' \in Nat /\ today' >= today BY <1>0, <3>1
    <3>5. UtcDate' \in Nat /\ UtcDate =< UtcDate' BY <1>0, <3>2
    <3> QED BY <3>1, <3>3, <3>4, <3>5, Zenon
  <2>2. CASE Midnight
    <3>1. ~ night /\ night' = TRUE BY <2>2 DEF Midnight
    <3>2. today' \in Stop /\ today' \in Nat /\ today' > today
      BY <2>2, MidnightMoves
    <3>3. UtcDate = today /\ UtcDate' = today' - 1 BY <3>1 DEF UtcDate
    <3>4. UtcDate' \in Nat /\ UtcDate =< UtcDate' /\ today' >= today
      <4>1. PICK last \in Nat : last = today BY <1>0
      <4>2. PICK next \in Nat : next = today' BY <3>2
      <4>3. last < next BY <3>2, <4>1, <4>2
      <4>4. next - 1 \in Nat /\ last =< next - 1 /\ next >= last BY <4>3
      <4> QED BY <3>3, <4>1, <4>2, <4>4
    <3> QED BY <3>1, <3>2, <3>4, Zenon
  <2> QED BY <2>1, <2>2
<1>3. DrawTypeOK' BY <1>1, <1>2 DEF CalendarInv, DrawTypeOK
<1>4. Clock'
  <2>1. Day(FirstYear, 11, 2) \in Nat BY FirstDay
  <2> QED BY <1>0, <1>1, <1>2, <2>1 DEF CalendarInv, Clock
<1>5. OnlyDrawDays' BY <1>1 DEF CalendarInv, OnlyDrawDays
<1>6. CoveredBySeed'
  BY <1>0, <1>1, <1>2 DEF CalendarInv, CoveredBySeed
<1>7. NoGapAhead'
  <2> SUFFICES ASSUME NEW p \in Product, NEW e \in rows[p],
                      NEW d \in DrawDays[p], UtcDate' =< d, d < e
               PROVE  d \in rows[p]
    BY <1>1 DEF NoGapAhead
  <2>1. d \in Nat BY DrawDaysApart
  <2>2. UtcDate =< d BY <1>0, <1>2, <2>1
  <2> QED BY <2>2 DEF CalendarInv, NoGapAhead
<1>8. WarnedOrCovered' BY <1>1 DEF CalendarInv, WarnedOrCovered
<1> QED BY <1>2, <1>3, <1>4, <1>5, <1>6, <1>7, <1>8 DEF CalendarInv

(* So it is inductive ...                                                  *)
LEMMA CalendarNextInv == CalendarInv /\ [DrawNext]_drawVars => CalendarInv'
<1> SUFFICES ASSUME CalendarInv, [DrawNext]_drawVars PROVE CalendarInv'
  OBVIOUS
<1>1. CASE \E n \in RowsWritten : Seed(n) BY <1>1, SeedKeepsInv
<1>2. CASE StartAndWarn BY <1>2, StartKeepsInv
<1>3. CASE Morning \/ Midnight BY <1>3, TimeKeepsInv
<1>4. CASE UNCHANGED drawVars
  <2>1. /\ today' = today /\ night' = night /\ rows' = rows /\ seeds' = seeds
        /\ seededOn' = seededOn /\ startedOn' = startedOn /\ warned' = warned
    BY <1>4 DEF drawVars
  <2>2. UtcDate' = UtcDate BY <2>1 DEF UtcDate
  <2>3. DrawTypeOK' BY <2>1 DEF CalendarInv, DrawTypeOK
  <2> QED BY <2>1, <2>2, <2>3 DEF CalendarInv, Clock, OnlyDrawDays,
                                  CoveredBySeed, NoGapAhead, WarnedOrCovered
<1> QED BY <1>1, <1>2, <1>3, <1>4 DEF DrawNext

(* ... and holds always.                                                   *)
LEMMA CalendarInvariance == DrawSpec => []CalendarInv
BY CalendarInitInv, CalendarNextInv, PTL DEF DrawSpec

(* Type correctness of the calendar: every date in it, and in the clocks   *)
(* that are compared with it, is a date.                                   *)
THEOREM CalendarTyping == DrawSpec => []DrawTypeOK
<1>1. CalendarInv => DrawTypeOK BY DEF CalendarInv
<1> QED BY <1>1, CalendarInvariance, PTL

(* Whatever the runs of the seed were cut short at, a purchase on a draw   *)
(* day is refused for a year after a run that was not, no purchase is      *)
(* refused on another day, and the retry that the refusal names is the     *)
(* very next day.                                                          *)
THEOREM CalendarIsExact == DrawSpec => []ClosedExactlyOnDrawDays
<1>1. CalendarInv => ClosedExactlyOnDrawDays
  <2> SUFFICES ASSUME CalendarInv, NEW p \in Product
               PROVE  /\ seededOn # Never /\ UtcDate =< seededOn + 365
                             /\ UtcDate \in DrawDays[p]
                             => ~ OnSale(p)
                      /\ ~ OnSale(p) => /\ UtcDate \in DrawDays[p]
                                        /\ NextAvailableDate(p) = UtcDate + 1
    BY DEF ClosedExactlyOnDrawDays
  <2>1. /\ UtcDate \in Nat /\ UtcDate =< EndOfYear(LastYear)
        /\ seededOn # Never => seededOn \in Nat
    BY DatesAre
  <2>2. rows[p] \subseteq DrawDays[p] BY DEF CalendarInv, OnlyDrawDays
  <2>3. ASSUME seededOn # Never, UtcDate =< seededOn + 365,
               UtcDate \in DrawDays[p]
        PROVE  UtcDate \in rows[p]
    <3>1. /\ seededOn \in Nat /\ seededOn =< UtcDate
          /\ Seeded(p, YearOf(seededOn)) \subseteq rows[p]
      BY <2>3 DEF CalendarInv, CoveredBySeed
    <3>2. EndOfYear(LastYear) \in Nat BY LastEnd, FirstDate
    <3>3. seededOn =< EndOfYear(LastYear) BY <2>1, <3>1, <3>2
    <3>4. PICK year : year = YearOf(seededOn) OBVIOUS
    <3>5. PICK on \in Nat : on = seededOn BY <3>1
    <3>6. PICK date : date = UtcDate OBVIOUS
    <3>7. /\ year \in Years /\ FirstOf(year, 1) =< on /\ on =< EndOfYear(year)
      BY <3>3, <3>4, <3>5, YearOfDate
    <3>8. FirstOf(year, 1) \in Nat /\ EndOfYear(year) \in Nat
      <4>1. 1 \in 1..12 OBVIOUS
      <4> QED BY <3>7, <4>1, StartType, EndIs
    <3>9. FirstOf(year, 1) =< date /\ date =< EndOfYear(year) + 365
      BY <2>1, <2>3, <3>1, <3>5, <3>6, <3>7, <3>8
    <3>10. date \in Seeded(p, year) BY <2>3, <3>6, <3>7, <3>9, SeededAre
    <3> QED BY <3>1, <3>4, <3>6, <3>10
  <2>4. ASSUME UtcDate \in rows[p] PROVE NextAvailableDate(p) = UtcDate + 1
    <3> DEFINE free == {d \in UtcDate + 1 .. UtcDate + nextAvailableDateSearchLimit :
                            d \notin rows[p]}
    <3>1. UtcDate + 1 \notin rows[p] BY <2>2, <2>4, DrawDaysApart
    <3>2. UtcDate + 1 \in free
      BY <2>1, <3>1 DEF nextAvailableDateSearchLimit
    <3>3. \A d \in free : d \in Int /\ UtcDate + 1 =< d BY <2>1
    <3>4. NextAvailableDate(p) = Min(free) BY DEF NextAvailableDate
    <3> HIDE DEF free
    <3>5. \A x \in free : (\A y \in free : x =< y) => x = UtcDate + 1
      BY <2>1, <3>2, <3>3
    <3> QED BY <3>2, <3>3, <3>4, <3>5 DEF Min
  <2> QED BY <2>2, <2>3, <2>4 DEF OnSale
<1> QED BY <1>1, CalendarInvariance, PTL

(* An API that is started again within the window of its warning, and at   *)
(* the least every sixty days, is past its start by no more.               *)
RestartedInTime == today =< startedOn + within

(* That is so when the API runs for no longer than its warning reaches     *)
(* ahead.                                                                  *)
LEMMA RestartsStayInTime ==
    ASSUME MaxUptime =< within PROVE DrawSpec => []RestartedInTime
<1>1. DrawInit => RestartedInTime
  <2>1. Day(FirstYear, 11, 2) \in Nat BY FirstDay
  <2> QED BY <2>1 DEF DrawInit, RestartedInTime, within
<1>2. CalendarInv /\ RestartedInTime /\ [DrawNext]_drawVars => RestartedInTime'
  <2> SUFFICES ASSUME CalendarInv, RestartedInTime, [DrawNext]_drawVars
               PROVE  RestartedInTime'
    OBVIOUS
  <2>0. /\ today \in Nat /\ UtcDate \in Nat /\ startedOn \in Nat
        /\ today =< UtcDate + 1
    BY DatesAre
  <2>1. CASE UNCHANGED <<today, startedOn>>
    BY <2>1 DEF RestartedInTime
  <2>2. CASE StartAndWarn
    BY <2>0, <2>2 DEF StartAndWarn, RestartedInTime, within
  <2>3. CASE Midnight
    <3>1. today' \in Nat /\ today' - startedOn =< MaxUptime
      BY <2>3, MidnightMoves
    <3>2. startedOn' = startedOn /\ MaxUptime \in Nat
      BY <2>3, CalendarAssumption DEF Midnight
    <3>3. MaxUptime =< 60 BY DEF within
    <3>4. today' =< startedOn + 60
      <4>1. PICK next \in Nat : next = today' BY <3>1
      <4>2. next - startedOn =< MaxUptime BY <3>1, <4>1
      <4>3. next =< startedOn + 60 BY <2>0, <3>2, <3>3, <4>2
      <4> QED BY <4>1, <4>3
    <3> QED BY <3>2, <3>4 DEF RestartedInTime, within
  <2>4. (\E n \in RowsWritten : Seed(n)) \/ Morning \/ UNCHANGED drawVars
            => UNCHANGED <<today, startedOn>>
    BY DEF Seed, Morning, drawVars
  <2> QED BY <2>1, <2>2, <2>3, <2>4 DEF DrawNext
<1> QED BY <1>1, <1>2, CalendarInvariance, PTL DEF DrawSpec

(* An API that is started again at least as often as its warning reaches   *)
(* ahead has warned of a calendar before a draw day is missing from it,    *)
(* whatever runs of the seed wrote in the meantime.                        *)
THEOREM NoDrawDayUnwarned ==
    ASSUME MaxUptime =< within PROVE DrawSpec => []WarnedBeforeItFailsOpen
<1>1. CalendarInv /\ RestartedInTime => WarnedBeforeItFailsOpen
  <2> SUFFICES ASSUME CalendarInv, RestartedInTime, NEW p \in Product,
                      UtcDate \in DrawDays[p], OnSale(p), p \notin warned
               PROVE  FALSE
    BY DEF WarnedBeforeItFailsOpen
  <2>1. PICK e \in rows[p] : e > startedOn + within
    BY DEF CalendarInv, WarnedOrCovered
  <2>2. e \in Nat BY <2>1, DrawDaysApart DEF CalendarInv, OnlyDrawDays
  <2>3. UtcDate < e
    BY <2>1, <2>2, DatesAre DEF RestartedInTime, within
  <2>4. UtcDate \in rows[p]
    BY <2>3, DatesAre DEF CalendarInv, NoGapAhead
  <2> QED BY <2>4 DEF OnSale
<1> QED BY <1>1, RestartsStayInTime, CalendarInvariance, PTL
=============================================================================
