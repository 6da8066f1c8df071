---------------------------- MODULE Registration ----------------------------
(***************************************************************************)
(* POST /auth/register.  AuthService.Register looks the username up, then  *)
(* opens one transaction that inserts the user and its savings, salak and  *)
(* kapook accounts.  Between the look-up and the insert anything may       *)
(* happen; the unique index on the username decides then.  Account numbers *)
(* come from sequences, which a rollback does not turn back.               *)
(*                                                                         *)
(* A client that got no answer, or a failure, may register again.  The     *)
(* length and emptiness checks on the fields are left out: the inputs are  *)
(* those that pass them.                                                   *)
(***************************************************************************)
EXTENDS Integers, FiniteSets

CONSTANTS
    Client, Name,
    SeededNumbers,     \* account numbers the seed has put in the table
    MaxAttempts        \* bound: registrations each client sends

ASSUME ConstantsAssumption ==
    /\ MaxAttempts \in Nat
    /\ \A n \in SeededNumbers : n[1] \notin {61, 62, 63}

VARIABLES
    users,       \* committed rows of "user".users
    accounts,    \* committed rows of account.accounts
    sequence,    \* the next value of each account-number sequence
    call,        \* the registration each client has under way
    told         \* what clients were answered

vars == <<users, accounts, sequence, call, told>>

TypeOfAccount == {"savings", "salak", "kapook"}

(* A user's id is drawn afresh by every registration.                      *)
UserId == Client \X (1..MaxAttempts)

User == [id : UserId, name : Name, password : Client]

AccountNumber == Nat \X Nat

AccountRow == [owner : UserId, type : TypeOfAccount, number : AccountNumber,
               primary : BOOLEAN]

(* Where a registration is; the first three hold no transaction.           *)
Stage == {"idle", "look-up", "insert", "savings", "salak", "kapook",
          "commit", "answer"}

InTransaction == {"savings", "salak", "kapook", "commit"}

TypeOK ==
    /\ users \subseteq User
    /\ accounts \subseteq AccountRow
    /\ sequence \in [TypeOfAccount -> Nat \ {0}]
    /\ call \in [Client -> [at : Stage, name : Name, attempt : 0..MaxAttempts,
                            opened : SUBSET AccountRow]]
    /\ told \subseteq UserId \X Name \X {"created", "conflict", "internal"}

-----------------------------------------------------------------------------
(***************************************************************************)
(* Faults.  Each replaces the definition below whose name it starts with.  *)
(***************************************************************************)
prefix_Shared(type) == IF type = "savings" THEN 61 ELSE 62

Opens_Ambient(c, row) ==                 \* accounts.Create without the tx
    /\ accounts' = accounts \cup {row}
    /\ call' = [call EXCEPT ![c].at = CASE row.type = "savings" -> "salak"
                                          [] row.type = "salak"   -> "kapook"
                                          [] row.type = "kapook"  -> "commit"]

UniqueViolation_Ignored(name) == FALSE   \* no unique index

-----------------------------------------------------------------------------
Id(c) == <<c, call[c].attempt>>

(* gorm_account_repo.go: the prefix, then the value in at least eight      *)
(* digits.  As a pair: the first two digits and the rest.                  *)
prefix(type) ==
    CASE type = "savings" -> 61
      [] type = "salak"   -> 62
      [] type = "kapook"  -> 63

NextAccountNumber(type) == <<prefix(type), sequence[type]>>

isPrimary(type) == type = "savings"

NextStage == [savings |-> "salak", salak |-> "kapook", kapook |-> "commit"]

FindByUsername(name) == {u \in users : u.name = name}

(* The user row this registration has inserted, or is about to.            *)
Inserted(c) == {[id |-> Id(c), name |-> call[c].name, password |-> c]}

(* Another transaction has inserted the name and has not ended: wait.      *)
MustWait(c) ==
    \E o \in Client \ {c} :
        call[o].at \in InTransaction /\ call[o].name = call[c].name

UniqueViolation(name) == FindByUsername(name) # {}

Close(c) == call' = [call EXCEPT ![c].at = "idle", ![c].opened = {}]

Answer(c, answer) ==
    /\ told' = told \cup {<<Id(c), call[c].name, answer>>}
    /\ Close(c)

-----------------------------------------------------------------------------
Init ==
    /\ users = {}
    /\ accounts = {}
    /\ sequence = [type \in TypeOfAccount |-> 1]
    /\ call \in [Client -> {[at |-> "idle", name |-> name, attempt |-> 0,
                             opened |-> {}] : name \in Name}]
    /\ told = {}

Submit(c, name) ==
    /\ call[c].at = "idle"
    /\ call[c].attempt < MaxAttempts
    /\ call' = [call EXCEPT ![c] =
                  [at |-> "look-up", name |-> name, attempt |-> call[c].attempt + 1,
                   opened |-> {}]]
    /\ UNCHANGED <<users, accounts, sequence, told>>

LookUp(c) ==
    /\ call[c].at = "look-up"
    /\ IF FindByUsername(call[c].name) # {}
       THEN Answer(c, "conflict")
       ELSE call' = [call EXCEPT ![c].at = "insert"] /\ UNCHANGED told
    /\ UNCHANGED <<users, accounts, sequence>>

InsertUser(c) ==
    /\ call[c].at = "insert"
    /\ ~ MustWait(c)
    /\ IF UniqueViolation(call[c].name)
       THEN Answer(c, "internal")
       ELSE call' = [call EXCEPT ![c].at = "savings"] /\ UNCHANGED told
    /\ UNCHANGED <<users, accounts, sequence>>

(* What an INSERT of the transaction adds to what the commit will publish. *)
Opens(c, row) ==
    /\ call' = [call EXCEPT ![c].at = NextStage[row.type],
                            ![c].opened = call[c].opened \cup {row}]
    /\ UNCHANGED accounts

CreateAccount(c) ==
    /\ call[c].at \in TypeOfAccount
    /\ Opens(c, [owner |-> Id(c), type |-> call[c].at,
                 number |-> NextAccountNumber(call[c].at),
                 primary |-> isPrimary(call[c].at)])
    /\ sequence' = [sequence EXCEPT ![call[c].at] = sequence[call[c].at] + 1]
    /\ UNCHANGED <<users, told>>

Commit(c) ==
    /\ call[c].at = "commit"
    /\ users' = users \cup Inserted(c)
    /\ accounts' = accounts \cup call[c].opened
    /\ call' = [call EXCEPT ![c].at = "answer", ![c].opened = {}]
    /\ UNCHANGED <<sequence, told>>

Respond(c) ==
    /\ call[c].at = "answer"
    /\ Answer(c, "created")
    /\ UNCHANGED <<users, accounts, sequence>>

(* A statement fails.                                                      *)
Fail(c) ==
    /\ call[c].at \in InTransaction \cup {"look-up", "insert"}
    /\ Answer(c, "internal")
    /\ UNCHANGED <<users, accounts, sequence>>

(* The server dies, before or after the commit: nobody is answered.        *)
Crash ==
    /\ \E c \in Client : call[c].at # "idle"
    /\ call' = [c \in Client |-> [call[c] EXCEPT !.at = "idle", !.opened = {}]]
    /\ UNCHANGED <<users, accounts, sequence, told>>

Serve(c) ==
    \/ LookUp(c)
    \/ InsertUser(c)
    \/ CreateAccount(c)
    \/ Commit(c)
    \/ Respond(c)

Finished ==
    /\ \A c \in Client : call[c].at = "idle" /\ call[c].attempt = MaxAttempts
    /\ UNCHANGED vars

Next ==
    \/ \E c \in Client, name \in Name : Submit(c, name)
    \/ \E c \in Client : Serve(c)
    \/ \E c \in Client : Fail(c)
    \/ Crash
    \/ Finished

Spec == Init /\ [][Next]_vars

-----------------------------------------------------------------------------
(***************************************************************************)
(* Properties.                                                             *)
(***************************************************************************)

(* auth_service.go, Register: the user "and all three accounts open        *)
(* atomically".  Whatever failed or crashed, a user has one account of     *)
(* each type and its savings account is the primary one; and there is no   *)
(* account of a user that does not exist.                                  *)
UsersAreComplete ==
    /\ \A a \in accounts : \E u \in users : u.id = a.owner
    /\ \A u \in users :
          LET mine == {a \in accounts : a.owner = u.id}
          IN  /\ {a.type : a \in mine} = TypeOfAccount
              /\ Cardinality(mine) = 3
              /\ {a.type : a \in {b \in mine : b.primary}} = {"savings"}

(* A username names one user, however many registrations raced for it.     *)
NamesAreUnique ==
    \A u, v \in users : u.name = v.name => u = v

(* gorm_account_repo.go: a generated number "can never collide", with      *)
(* another one, with a seeded one, or with one a rollback has given up.    *)
NumbersNeverCollide ==
    LET open == accounts \cup UNION {call[c].opened : c \in Client}
    IN  /\ \A a, b \in open : a.number = b.number => a = b
        /\ \A a \in open : a.number \notin SeededNumbers

(* AuthService.Login: the user with this name, if the password is its own. *)
Login(name, password) == {u \in FindByUsername(name) : u.password = password}

(* A client told "created" gets into the account it registered with the    *)
(* password it chose, and nobody else's password opens it.                 *)
CreatedCanLogin ==
    \A t \in told :
        t[3] = "created" =>
            \A password \in Client :
                Login(t[2], password) =
                    IF password = t[1][1] THEN {u \in users : u.id = t[1]} ELSE {}
=============================================================================
