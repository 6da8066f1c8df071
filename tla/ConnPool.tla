------------------------------ MODULE ConnPool ------------------------------
(***************************************************************************)
(* The connection pool of the API process.  Every request shares the       *)
(* connections db.Open allows.  A read outside a transaction borrows one   *)
(* for as long as it runs; a transaction keeps one until it ends.  Several *)
(* services read outside their transaction while it is open, because the   *)
(* repository method takes no tx: such a request wants a second connection *)
(* while it sits on the first one and on its row locks.  PostgreSQL sees   *)
(* only the row locks, so it cannot break a wait for the pool.             *)
(*                                                                         *)
(* Statements run under the context of the request and end with it; the    *)
(* call that begins a transaction (s.db.Transaction) does not.             *)
(*                                                                         *)
(* The worker is another process with a pool of its own and one            *)
(* transaction at a time.                                                  *)
(***************************************************************************)
EXTENDS Integers, Sequences, FiniteSets

CONSTANTS
    Request,      \* requests the server works on at once
    Customer,
    Operation,    \* the operations customers and the bank ask for
    PoolSize      \* connections the pool may open

ASSUME PoolAssumption == PoolSize \in Nat \ {0} /\ IsFiniteSet(Request)

VARIABLES
    call,    \* what each request does
    lent,    \* connections in use: <<request, "tx">> or <<request, "read">>
    locks    \* rows each request has locked

vars == <<call, lent, locks>>

Idle == [op |-> "idle"]

(* A step is the lock of a row, or one of three dealings with the pool.    *)
Read     == <<"pool", "read">>
Begin    == <<"pool", "begin">>
CommitTx == <<"pool", "commit">>

Row == {"goal", "kapook", "savings", "salak", "holding", "tickets"} \X Customer

Call == [op : Operation, customer : Customer, done : Nat, gone : BOOLEAN]

TypeOK ==
    /\ call \in [Request -> Call \cup {Idle}]
    /\ lent \subseteq Request \X {"tx", "read"}
    /\ Cardinality(lent) =< PoolSize
    /\ locks \in [Request -> SUBSET Row]

(***************************************************************************)
(* Faults.  Each replaces the definition below whose name it starts with.  *)
(***************************************************************************)
Returned_OnlyRead(r) == {<<r, "read">>}    \* an error path keeps the transaction

Cancellable_NotReads(c) == FALSE           \* reads with context.Background()

-----------------------------------------------------------------------------
(***************************************************************************)
(* What the operations do with the pool: read outside the transaction,     *)
(* begin and commit one, or lock a row in it.  Consecutive reads count as  *)
(* one.  The ticket cursor is one row for all customers.                   *)
(***************************************************************************)
Cursor == <<"tickets", CHOOSE u \in Customer : TRUE>>

MintSteps(u) == <<Read, Cursor, <<"salak", u>>, CommitTx>>

DepositSteps(u) ==
    <<Read, Begin, <<"goal", u>>, <<"kapook", u>>, <<"savings", u>>, CommitTx>>

WithdrawSteps(u) ==
    <<Read, Begin, <<"goal", u>>, <<"kapook", u>>, <<"savings", u>>, CommitTx>>

BuyFromGoalSteps(u) ==
    <<Read, Begin, <<"goal", u>>, Read, <<"kapook", u>>>> \o MintSteps(u)

BuySalakSteps(u) == <<Read, Begin, <<"savings", u>>>> \o MintSteps(u)

SettleSteps(u) ==
    <<Begin, <<"holding", u>>, Read, <<"salak", u>>, <<"savings", u>>, Read,
      <<"goal", u>>, CommitTx>>

Steps(c) ==
    CASE c.op = "Deposit"              -> DepositSteps(c.customer)
      [] c.op = "Withdraw"             -> WithdrawSteps(c.customer)
      [] c.op = "BuyFromGoal"          -> BuyFromGoalSteps(c.customer)
      [] c.op = "BuySalak"             -> BuySalakSteps(c.customer)
      [] c.op = "SettleMaturedHolding" -> SettleSteps(c.customer)

Busy(r) == call[r] # Idle

NextStep(r) == Steps(call[r])[call[r].done + 1]

InTx(r) == <<r, "tx">> \in lent

Reading(r) == <<r, "read">> \in lent

WantsRow(r) == Busy(r) /\ NextStep(r) \in Row

PoolHasRoom == Cardinality(lent) < PoolSize

WaitsFor(r) == {o \in Request \ {r} : WantsRow(r) /\ NextStep(r) \in locks[o]}

(* A statement waits no longer than its client; beginning does.            *)
Cancellable(c) == Steps(c)[c.done + 1] \notin {Begin, CommitTx}

-----------------------------------------------------------------------------
Init ==
    /\ call = [r \in Request |-> Idle]
    /\ lent = {}
    /\ locks = [r \in Request |-> {}]

Done(r) == call' = [call EXCEPT ![r] = [call[r] EXCEPT !.done = call[r].done + 1]]

Arrive(r) ==
    /\ ~ Busy(r)
    /\ \E op \in Operation, u \in Customer :
          call' = [call EXCEPT ![r] =
                     [op |-> op, customer |-> u, done |-> 0, gone |-> FALSE]]
    /\ UNCHANGED <<lent, locks>>

StartRead(r) ==
    /\ Busy(r)
    /\ NextStep(r) = Read
    /\ ~ Reading(r)
    /\ PoolHasRoom
    /\ lent' = lent \cup {<<r, "read">>}
    /\ UNCHANGED <<call, locks>>

EndRead(r) ==
    /\ Reading(r)
    /\ lent' = lent \ {<<r, "read">>}
    /\ Done(r)
    /\ UNCHANGED locks

BeginTx(r) ==
    /\ Busy(r)
    /\ NextStep(r) = Begin
    /\ PoolHasRoom
    /\ lent' = lent \cup {<<r, "tx">>}
    /\ Done(r)
    /\ UNCHANGED locks

LockRow(r) ==
    /\ WantsRow(r)
    /\ WaitsFor(r) = {}
    /\ locks' = [locks EXCEPT ![r] = locks[r] \cup {NextStep(r)}]
    /\ Done(r)
    /\ UNCHANGED lent

(* What the end of a request gives back, whatever the end was.             *)
Returned(r) == {<<r, "tx">>, <<r, "read">>}

Leave(r) ==
    /\ call' = [call EXCEPT ![r] = Idle]
    /\ lent' = lent \ Returned(r)
    /\ locks' = [locks EXCEPT ![r] = {}]

Commit(r) ==
    /\ Busy(r)
    /\ NextStep(r) = CommitTx
    /\ Leave(r)

(* Refused or failed: the error rolls the transaction back.                *)
Fail(r) ==
    /\ Busy(r)
    /\ InTx(r) \/ Reading(r)
    /\ Leave(r)

ClientGivesUp(r) ==
    /\ Busy(r)
    /\ ~ call[r].gone
    /\ call' = [call EXCEPT ![r] = [call[r] EXCEPT !.gone = TRUE]]
    /\ UNCHANGED <<lent, locks>>

Cancelled(r) ==
    /\ Busy(r)
    /\ call[r].gone
    /\ Cancellable(call[r])
    /\ Leave(r)

(* PostgreSQL fails one member of every cycle of row locks.                *)
DeadlockedSet(D) == D # {} /\ \A r \in D : WaitsFor(r) \cap D # {}

BreakDeadlock(r) ==
    /\ \E D \in SUBSET Request :
          /\ r \in D
          /\ DeadlockedSet(D)
          /\ \A E \in SUBSET D : DeadlockedSet(E) => E = D
    /\ Leave(r)

(* What the server and the database do on their own.                       *)
Serve(r) ==
    \/ StartRead(r)
    \/ EndRead(r)
    \/ BeginTx(r)
    \/ LockRow(r)
    \/ Commit(r)
    \/ Cancelled(r)
    \/ BreakDeadlock(r)

Next ==
    \E r \in Request :
        \/ Serve(r)
        \/ Arrive(r)
        \/ Fail(r)
        \/ ClientGivesUp(r)

Spec == Init /\ [][Next]_vars

(* database/sql hands a returned connection to one of those waiting before *)
(* anybody else gets it, and PostgreSQL's queue behind a row lock is       *)
(* served in order: who could be served again and again gets its turn.     *)
Fairness ==
    \A r \in Request :
        /\ SF_vars(StartRead(r))
        /\ SF_vars(BeginTx(r))
        /\ SF_vars(LockRow(r))
        /\ WF_vars(EndRead(r))
        /\ WF_vars(Commit(r))
        /\ WF_vars(Cancelled(r))
        /\ WF_vars(BreakDeadlock(r))

FairSpec == Spec /\ Fairness

(* Clients that wait for an answer, but not for ever.                      *)
ImpatientSpec == FairSpec /\ \A r \in Request : WF_vars(ClientGivesUp(r))

-----------------------------------------------------------------------------
(***************************************************************************)
(* Properties.                                                             *)
(***************************************************************************)

(* postgres.go, SetMaxOpenConns(20): the pool can only run dry for good    *)
(* when as many transactions are open as it has connections.  Whoever      *)
(* needs a connection while fewer are open finds a free one, or one lent   *)
(* to a read, which waits for nobody and returns it.                       *)
Dry == ~ PoolHasRoom /\ \A r \in Request : ~ Reading(r)

OnlyTransactionsDrainThePool ==
    Dry => Cardinality({r \in Request : InTx(r) /\ Busy(r)}) = PoolSize

(* Every request is answered, refused or cancelled in the end.             *)
RequestsEnd == \A r \in Request : Busy(r) ~> ~ Busy(r)
=============================================================================
