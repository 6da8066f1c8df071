------------------------- MODULE RegistrationProofs -------------------------
(***************************************************************************)
(* Theorems about the two programs that create users and their accounts,   *)
(* which share no state here: Registration, for any number of clients and  *)
(* names, and Seed, for any number of runs and any balances.               *)
(*                                                                         *)
(* Names: a registration past its insert has its name to itself, among the *)
(* users and among the open transactions (Reserved).  Numbers: a number in *)
(* use was drawn from the sequence of its type, which is past it, and two  *)
(* accounts with one number are one account (Drawn, NoCollision).          *)
(*                                                                         *)
(* The demo data: a goal is only given to an account that the same run     *)
(* funded and nobody has drawn on since (FreshIsFunded), and a finished    *)
(* run leaves nothing a later one could open (LaterRunsFindAccounts).      *)
(***************************************************************************)
EXTENDS Registration, Seed, FiniteSetTheorems, TLAPS

Reserved ==
    \A c \in Client : call[c].at \in InTransaction =>
        /\ FindByUsername(call[c].name) = {}
        /\ \A o \in Client : call[o].at \in InTransaction /\ call[o].name = call[c].name
                                 => o = c

Started == \A c \in Client : call[c].at # "idle" => call[c].attempt # 0

NamesInv == TypeOK /\ Started /\ Reserved /\ NamesAreUnique

Open == accounts \cup UNION {call[c].opened : c \in Client}

Drawn ==
    \A a \in Open : /\ a.number[1] = prefix(a.type)
                    /\ a.number[2] < sequence[a.type]

NoCollision == \A a, b \in Open : a.number = b.number => a = b

-----------------------------------------------------------------------------
(* What an assignment to one client's registration does to the map.        *)
LEMMA CallUpdate ==
    ASSUME TypeOK, NEW c \in Client, NEW at \in Stage, NEW opened \in SUBSET AccountRow,
           call' = [call EXCEPT ![c].at = at, ![c].opened = opened]
    PROVE  /\ call' \in [Client -> [at : Stage, name : Name, attempt : 0..MaxAttempts,
                                    opened : SUBSET AccountRow]]
           /\ call'[c].at = at /\ call'[c].opened = opened
           /\ call'[c].name = call[c].name /\ call'[c].attempt = call[c].attempt
           /\ \A o \in Client \ {c} : call'[o] = call[o]
  <1> DEFINE Call == [at : Stage, name : Name, attempt : 0..MaxAttempts,
                      opened : SUBSET AccountRow]
  <1>1. call \in [Client -> Call]
    BY DEF TypeOK
  <1>2. call' = [call EXCEPT ![c] = [call[c] EXCEPT !.at = at, !.opened = opened]]
    OBVIOUS
  <1>3. ASSUME NEW r \in Call
        PROVE  /\ [r EXCEPT !.at = at, !.opened = opened] \in Call
               /\ [r EXCEPT !.at = at, !.opened = opened].at = at
               /\ [r EXCEPT !.at = at, !.opened = opened].opened = opened
               /\ [r EXCEPT !.at = at, !.opened = opened].name = r.name
               /\ [r EXCEPT !.at = at, !.opened = opened].attempt = r.attempt
    OBVIOUS
  <1> HIDE DEF Call
  <1> DEFINE new == [call[c] EXCEPT !.at = at, !.opened = opened]
  <1>4. call[c] \in Call
    BY <1>1
  <1>5. /\ new \in Call /\ new.at = at /\ new.opened = opened
        /\ new.name = call[c].name /\ new.attempt = call[c].attempt
    BY <1>3, <1>4
  <1>6. call' = [call EXCEPT ![c] = new]
    BY <1>2
  <1> HIDE DEF new
  <1>7. call' \in [Client -> Call] /\ call'[c] = new
        /\ \A o \in Client \ {c} : call'[o] = call[o]
    BY <1>1, <1>5, <1>6, ZenonT(60)
  <1> QED
    BY <1>5, <1>7 DEF Call

(* Moving a client to another stage leaves the accounts it has opened      *)
(* alone.                                                                  *)
LEMMA CallAt ==
    ASSUME TypeOK, NEW c \in Client, NEW at \in Stage,
           call' = [call EXCEPT ![c].at = at]
    PROVE  call' = [call EXCEPT ![c].at = at, ![c].opened = call[c].opened]
  <1>1. call[c] \in [at : Stage, name : Name, attempt : 0..MaxAttempts,
                     opened : SUBSET AccountRow]
    BY DEF TypeOK
  <1>2. [call[c] EXCEPT !.at = at] = [call[c] EXCEPT !.at = at, !.opened = call[c].opened]
    BY <1>1
  <1> QED
    BY <1>2

(* The id of a registration that is under way.                             *)
LEMMA IdIsUserId ==
    ASSUME TypeOK, NEW c \in Client, call[c].attempt # 0
    PROVE  Id(c) \in UserId
  BY ConstantsAssumption DEF Id, UserId, TypeOK

(* An action that publishes nothing and takes nobody into a transaction.   *)
LEMMA ReservedStays ==
    ASSUME Reserved, users' = users,
           \A o \in Client : call'[o].at \in InTransaction =>
               call[o].at \in InTransaction /\ call'[o].name = call[o].name
    PROVE  Reserved'
  BY DEF Reserved, FindByUsername

(* An answer ends the registration.                                        *)
LEMMA AnswerStep ==
    ASSUME NamesInv, NEW c \in Client, NEW answer \in {"created", "conflict", "internal"},
           call[c].at # "idle", Answer(c, answer),
           UNCHANGED <<users, accounts, sequence>>
    PROVE  NamesInv'
  <1>1. call' = [call EXCEPT ![c].at = "idle", ![c].opened = {}]
    BY DEF Answer, Close
  <1>2. "idle" \in Stage /\ {} \in SUBSET AccountRow
    BY DEF Stage
  <1>3. /\ call' \in [Client -> [at : Stage, name : Name, attempt : 0..MaxAttempts,
                                  opened : SUBSET AccountRow]]
        /\ call'[c].at = "idle"
        /\ \A o \in Client \ {c} : call'[o] = call[o]
    BY <1>1, <1>2, CallUpdate DEF NamesInv
  <1>4. Id(c) \in UserId /\ call[c].name \in Name
    BY IdIsUserId DEF NamesInv, Started, TypeOK
  <1>5. told' = told \cup {<<Id(c), call[c].name, answer>>}
    BY DEF Answer
  <1>6. TypeOK'
    BY <1>3, <1>4, <1>5 DEF NamesInv, TypeOK
  <1>7. Started'
    BY <1>3 DEF NamesInv, Started
  <1>8. Reserved'
    BY <1>3, ReservedStays DEF NamesInv, InTransaction
  <1> QED
    BY <1>6, <1>7, <1>8 DEF NamesInv, NamesAreUnique

(* A step of one registration that stays under way.                        *)
LEMMA MoveStep ==
    ASSUME NamesInv, NEW c \in Client, NEW at \in Stage, NEW opened \in SUBSET AccountRow,
           call[c].at # "idle",
           call' = [call EXCEPT ![c].at = at, ![c].opened = opened]
    PROVE  /\ call' \in [Client -> [at : Stage, name : Name, attempt : 0..MaxAttempts,
                                    opened : SUBSET AccountRow]]
           /\ Started'
  <1>1. /\ call' \in [Client -> [at : Stage, name : Name, attempt : 0..MaxAttempts,
                                  opened : SUBSET AccountRow]]
        /\ call'[c].attempt = call[c].attempt
        /\ \A o \in Client \ {c} : call'[o] = call[o]
    BY CallUpdate DEF NamesInv
  <1> QED
    BY <1>1 DEF NamesInv, Started

-----------------------------------------------------------------------------

(* At first nobody has a name.                                             *)
LEMMA InitNames == Init => NamesInv
  <1> SUFFICES ASSUME Init PROVE NamesInv
    OBVIOUS
  <1>1. call \in [Client -> [at : Stage, name : Name, attempt : 0..MaxAttempts,
                             opened : SUBSET AccountRow]]
    BY ConstantsAssumption DEF Init, Stage
  <1>2. \A c \in Client : call[c].at = "idle"
    BY DEF Init
  <1>3. TypeOK
    BY <1>1 DEF Init, TypeOK
  <1> QED
    BY <1>2, <1>3 DEF Init, NamesInv, Started, Reserved, InTransaction, NamesAreUnique

(* A client that submits a form has inserted nothing yet.                  *)
LEMMA SubmitNames ==
    ASSUME NamesInv, NEW c \in Client, NEW name \in Name, Submit(c, name)
    PROVE  NamesInv'
  <1> DEFINE new == [at |-> "look-up", name |-> name, attempt |-> call[c].attempt + 1,
                     opened |-> {}]
  <1>1. call[c].attempt \in 0..MaxAttempts /\ call[c].attempt < MaxAttempts
    BY DEF Submit, NamesInv, TypeOK
  <1>2. new \in [at : Stage, name : Name, attempt : 0..MaxAttempts,
                 opened : SUBSET AccountRow] /\ new.attempt # 0 /\ new.at = "look-up"
    BY <1>1, ConstantsAssumption DEF Stage
  <1>3. call' = [call EXCEPT ![c] = new] /\ UNCHANGED <<users, accounts, sequence, told>>
    BY DEF Submit
  <1> HIDE DEF new
  <1>4. TypeOK'
    BY <1>2, <1>3 DEF NamesInv, TypeOK
  <1>5. call'[c] = new /\ \A o \in Client \ {c} : call'[o] = call[o]
    BY <1>3 DEF NamesInv, TypeOK
  <1>6. Started'
    BY <1>2, <1>5 DEF NamesInv, Started
  <1>7. Reserved'
    BY <1>2, <1>3, <1>5, ReservedStays DEF NamesInv, InTransaction
  <1> QED
    BY <1>3, <1>4, <1>6, <1>7 DEF NamesInv, NamesAreUnique

(* A look-up writes nothing.                                               *)
LEMMA LookUpNames ==
    ASSUME NamesInv, NEW c \in Client, LookUp(c)
    PROVE  NamesInv'
  <1>1. CASE Answer(c, "conflict")
    BY <1>1, AnswerStep DEF LookUp
  <1>2. CASE call' = [call EXCEPT ![c].at = "insert"] /\ UNCHANGED told
    <2>1. "insert" \in Stage /\ call[c].opened \in SUBSET AccountRow
      BY DEF Stage, NamesInv, TypeOK
    <2>2. call' = [call EXCEPT ![c].at = "insert", ![c].opened = call[c].opened]
      BY <1>2, <2>1, CallAt DEF NamesInv
    <2>3. /\ call' \in [Client -> [at : Stage, name : Name, attempt : 0..MaxAttempts,
                                    opened : SUBSET AccountRow]]
          /\ Started'
      BY <2>1, <2>2, MoveStep DEF LookUp
    <2>4. call'[c].at = "insert" /\ \A o \in Client \ {c} : call'[o] = call[o]
      <3>1. TypeOK /\ "insert" \in Stage
        BY <2>1 DEF NamesInv
      <3> DEFINE opened == call[c].opened
      <3>2. opened \in SUBSET AccountRow
        BY <2>1
      <3>3. call' = [call EXCEPT ![c].at = "insert", ![c].opened = opened]
        BY <2>2
      <3> HIDE DEF opened
      <3> QED
        BY <3>1, <3>2, <3>3, CallUpdate
    <2>5. UNCHANGED <<users, accounts, sequence, told>>
      BY <1>2 DEF LookUp
    <2>6. Reserved'
      BY <2>4, <2>5, ReservedStays DEF NamesInv, InTransaction
    <2> QED
      BY <2>3, <2>5, <2>6 DEF NamesInv, TypeOK, NamesAreUnique
  <1> QED
    BY <1>1, <1>2 DEF LookUp

(* An insert goes through only if no row of the name is there, committed   *)
(* or not.                                                                 *)
LEMMA InsertNames ==
    ASSUME NamesInv, NEW c \in Client, InsertUser(c)
    PROVE  NamesInv'
  <1>1. CASE Answer(c, "internal")
    BY <1>1, AnswerStep DEF InsertUser
  <1>2. CASE /\ ~ UniqueViolation(call[c].name)
             /\ call' = [call EXCEPT ![c].at = "savings"] /\ UNCHANGED told
    <2>1. "savings" \in Stage /\ call[c].opened \in SUBSET AccountRow
      BY DEF Stage, NamesInv, TypeOK
    <2>2. call' = [call EXCEPT ![c].at = "savings", ![c].opened = call[c].opened]
      BY <1>2, <2>1, CallAt DEF NamesInv
    <2>3. /\ call' \in [Client -> [at : Stage, name : Name, attempt : 0..MaxAttempts,
                                    opened : SUBSET AccountRow]]
          /\ Started'
      BY <2>1, <2>2, MoveStep DEF InsertUser
    <2>4. /\ call'[c].name = call[c].name
          /\ \A o \in Client \ {c} : call'[o] = call[o]
      BY <2>1, <2>2, CallUpdate DEF NamesInv
    <2>5. UNCHANGED <<users, accounts, sequence, told>> /\ ~ MustWait(c)
      BY <1>2 DEF InsertUser
    <2>6. Reserved'
      <3> SUFFICES ASSUME NEW o \in Client, call'[o].at \in InTransaction
                   PROVE  /\ \A u \in users' : u.name # call'[o].name
                          /\ \A p \in Client : call'[p].at \in InTransaction
                                    /\ call'[p].name = call'[o].name => p = o
        BY DEF Reserved, FindByUsername
      <3>1. \A u \in users : u.name # call[c].name
        BY <1>2 DEF UniqueViolation, FindByUsername
      <3>2. \A p \in Client \ {c} : call'[p].at \in InTransaction =>
                call[p].at \in InTransaction /\ call[p].name # call[c].name
        BY <2>4, <2>5 DEF MustWait
      <3>3. CASE o = c
        BY <2>4, <2>5, <3>1, <3>2, <3>3
      <3>4. CASE o # c
        <4>1. call[o].at \in InTransaction /\ call'[o] = call[o] /\ call[o].name # call[c].name
          BY <2>4, <3>2, <3>4
        <4>2. /\ \A u \in users : u.name # call[o].name
              /\ \A p \in Client : call[p].at \in InTransaction
                        /\ call[p].name = call[o].name => p = o
          BY <4>1 DEF NamesInv, Reserved, FindByUsername
        <4> QED
          BY <2>4, <2>5, <3>2, <4>1, <4>2
      <3> QED
        BY <3>3, <3>4
    <2> QED
      BY <2>3, <2>5, <2>6 DEF NamesInv, TypeOK, NamesAreUnique
  <1> QED
    BY <1>1, <1>2 DEF InsertUser

(* Opening an account touches no user.                                     *)
LEMMA CreateAccountNames ==
    ASSUME NamesInv, NEW c \in Client, CreateAccount(c)
    PROVE  NamesInv'
  <1> DEFINE type == call[c].at
             row == [owner |-> Id(c), type |-> type, number |-> NextAccountNumber(type),
                     primary |-> isPrimary(type)]
  <1>1. type \in TypeOfAccount /\ sequence[type] \in Nat
        /\ sequence' = [sequence EXCEPT ![type] = sequence[type] + 1]
        /\ UNCHANGED <<users, accounts, told>>
    BY DEF CreateAccount, Opens, NamesInv, TypeOK
  <1>2. prefix(type) \in Nat
    BY <1>1 DEF prefix, TypeOfAccount
  <1>3. row \in AccountRow
    <2>1. Id(c) \in UserId
      BY <1>1, IdIsUserId DEF NamesInv, Started, TypeOfAccount
    <2> QED
      BY <1>1, <1>2, <2>1 DEF AccountRow, AccountNumber, NextAccountNumber, isPrimary
  <1>4. call[c].opened \cup {row} \in SUBSET AccountRow
    BY <1>3 DEF NamesInv, TypeOK
  <1>5. NextStage[type] \in InTransaction /\ NextStage[type] \in Stage
        /\ type \in InTransaction /\ type # "idle"
    BY <1>1 DEF NextStage, InTransaction, Stage, TypeOfAccount
  <1>6. call' = [call EXCEPT ![c].at = NextStage[type], ![c].opened = call[c].opened \cup {row}]
    BY DEF CreateAccount, Opens
  <1> HIDE DEF row, type
  <1>7. /\ call' \in [Client -> [at : Stage, name : Name, attempt : 0..MaxAttempts,
                                  opened : SUBSET AccountRow]]
        /\ Started'
    BY <1>4, <1>5, <1>6, MoveStep DEF type
  <1>8. /\ call'[c].name = call[c].name
        /\ \A o \in Client \ {c} : call'[o] = call[o]
    BY <1>4, <1>5, <1>6, CallUpdate DEF NamesInv
  <1>9. Reserved'
    BY <1>1, <1>5, <1>8, ReservedStays DEF NamesInv, type
  <1>10. sequence' \in [TypeOfAccount -> Nat \ {0}]
    BY <1>1 DEF NamesInv, TypeOK
  <1> QED
    BY <1>1, <1>7, <1>9, <1>10 DEF NamesInv, TypeOK, NamesAreUnique

(* A commit makes a reserved name a taken one.                             *)
LEMMA CommitNames ==
    ASSUME NamesInv, NEW c \in Client, Commit(c)
    PROVE  NamesInv'
  <1> DEFINE user == [id |-> Id(c), name |-> call[c].name, password |-> c]
  <1>1. call[c].at = "commit" /\ users' = users \cup {user}
        /\ accounts' = accounts \cup call[c].opened
        /\ call' = [call EXCEPT ![c].at = "answer", ![c].opened = {}]
        /\ UNCHANGED <<sequence, told>>
    BY DEF Commit, Inserted
  <1>2. user \in User /\ user.name = call[c].name
    <2>1. Id(c) \in UserId
      BY <1>1, IdIsUserId DEF NamesInv, Started
    <2> QED
      BY <2>1 DEF User, NamesInv, TypeOK
  <1> HIDE DEF user
  <1>3. "answer" \in Stage /\ {} \in SUBSET AccountRow
    BY DEF Stage
  <1>4. /\ call' \in [Client -> [at : Stage, name : Name, attempt : 0..MaxAttempts,
                                  opened : SUBSET AccountRow]]
        /\ Started'
    BY <1>1, <1>3, MoveStep
  <1>5. call'[c].at = "answer" /\ \A o \in Client \ {c} : call'[o] = call[o]
    BY <1>1, <1>3, CallUpdate DEF NamesInv
  <1>6. TypeOK'
    <2>1. accounts' \subseteq AccountRow
      BY <1>1 DEF NamesInv, TypeOK
    <2> QED
      BY <1>1, <1>2, <1>4, <2>1 DEF NamesInv, TypeOK
  <1>7. \A u \in users : u.name # call[c].name
    BY <1>1 DEF NamesInv, Reserved, InTransaction, FindByUsername
  <1>8. NamesAreUnique'
    BY <1>1, <1>2, <1>7 DEF NamesInv, NamesAreUnique
  <1>9. Reserved'
    <2> SUFFICES ASSUME NEW o \in Client, call'[o].at \in InTransaction
                 PROVE  /\ \A u \in users' : u.name # call'[o].name
                        /\ \A p \in Client : call'[p].at \in InTransaction
                                  /\ call'[p].name = call'[o].name => p = o
      BY DEF Reserved, FindByUsername
    <2>1. o # c /\ call'[o] = call[o] /\ call[o].at \in InTransaction
      BY <1>5 DEF InTransaction
    <2>2. call[c].name # call[o].name
      BY <1>1, <2>1 DEF NamesInv, Reserved, InTransaction
    <2>3. \A u \in users : u.name # call[o].name
      BY <2>1 DEF NamesInv, Reserved, FindByUsername
    <2>4. \A p \in Client : call'[p].at \in InTransaction => p # c /\ call'[p] = call[p]
      BY <1>5 DEF InTransaction
    <2> QED
      BY <1>1, <1>2, <2>1, <2>2, <2>3, <2>4 DEF NamesInv, Reserved
  <1> QED
    BY <1>4, <1>6, <1>8, <1>9 DEF NamesInv

(* A crash gives up the names that were reserved and takes no committed    *)
(* one.                                                                    *)
LEMMA CrashNames ==
    ASSUME NamesInv, Crash
    PROVE  NamesInv'
  <1>1. call' = [c \in Client |-> [call[c] EXCEPT !.at = "idle", !.opened = {}]]
        /\ UNCHANGED <<users, accounts, sequence, told>>
    BY DEF Crash
  <1>2. ASSUME NEW r \in [at : Stage, name : Name, attempt : 0..MaxAttempts,
                          opened : SUBSET AccountRow]
        PROVE  /\ [r EXCEPT !.at = "idle", !.opened = {}] \in
                      [at : Stage, name : Name, attempt : 0..MaxAttempts,
                       opened : SUBSET AccountRow]
               /\ [r EXCEPT !.at = "idle", !.opened = {}].at = "idle"
    BY DEF Stage
  <1>3. \A c \in Client : call[c] \in [at : Stage, name : Name, attempt : 0..MaxAttempts,
                                       opened : SUBSET AccountRow]
    BY DEF NamesInv, TypeOK
  <1>4. TypeOK'
    BY <1>1, <1>2, <1>3 DEF NamesInv, TypeOK
  <1>5. \A c \in Client : call'[c].at = "idle"
    BY <1>1, <1>2, <1>3
  <1> QED
    BY <1>1, <1>4, <1>5 DEF NamesInv, Started, Reserved, InTransaction, NamesAreUnique

(* So names stay unique in every step ...                                  *)
LEMMA NextNames == NamesInv /\ [Next]_vars => NamesInv'
  <1> SUFFICES ASSUME NamesInv, [Next]_vars PROVE NamesInv'
    OBVIOUS
  <1>1. ASSUME NEW c \in Client, NEW name \in Name, Submit(c, name) PROVE NamesInv'
    BY <1>1, SubmitNames
  <1>2. ASSUME NEW c \in Client, LookUp(c) PROVE NamesInv'
    BY <1>2, LookUpNames
  <1>3. ASSUME NEW c \in Client, InsertUser(c) PROVE NamesInv'
    BY <1>3, InsertNames
  <1>4. ASSUME NEW c \in Client, CreateAccount(c) PROVE NamesInv'
    BY <1>4, CreateAccountNames
  <1>5. ASSUME NEW c \in Client, Commit(c) PROVE NamesInv'
    BY <1>5, CommitNames
  <1>6. ASSUME NEW c \in Client, Respond(c) PROVE NamesInv'
    BY <1>6, AnswerStep DEF Respond
  <1>7. ASSUME NEW c \in Client, Fail(c) PROVE NamesInv'
    BY <1>7, AnswerStep DEF Fail, InTransaction
  <1>8. CASE Crash
    BY <1>8, CrashNames
  <1>9. CASE UNCHANGED vars
    BY <1>9 DEF vars, NamesInv, TypeOK, Started, Reserved, FindByUsername, NamesAreUnique
  <1> QED
    BY <1>1, <1>2, <1>3, <1>4, <1>5, <1>6, <1>7, <1>8, <1>9 DEF Next, Serve, Finished

(* ... and always are.                                                     *)
LEMMA NamesInductive == Spec => []NamesInv
  BY InitNames, NextNames, PTL DEF Spec

(* Rows, numbers and registrations are well formed.                        *)
THEOREM Typing == Spec => []TypeOK
  <1>1. NamesInv => TypeOK
    BY DEF NamesInv
  <1> QED
    BY NamesInductive, <1>1, PTL

(* A username names one user, however many registrations raced for it.     *)
THEOREM OneUserPerName == Spec => []NamesAreUnique
  <1>1. NamesInv => NamesAreUnique
    BY DEF NamesInv
  <1> QED
    BY NamesInductive, <1>1, PTL

-----------------------------------------------------------------------------
NumbersInv == Drawn /\ NoCollision

(* Numbers stay unique where no account is added and no sequence moves.    *)
LEMMA NumbersStay ==
    ASSUME NumbersInv, Open' \subseteq Open, sequence' = sequence
    PROVE  NumbersInv'
  BY DEF NumbersInv, Drawn, NoCollision

(* Every action but CreateAccount puts no account into use.                *)
LEMMA OpenShrinks ==
    ASSUME UNCHANGED accounts,
           \A o \in Client : call'[o].opened \subseteq call[o].opened
    PROVE  Open' \subseteq Open
  BY DEF Open

(* A new account has the next number of its sequence, which nobody has.    *)
LEMMA CreateAccountNumbers ==
    ASSUME NamesInv, NumbersInv, NEW c \in Client, CreateAccount(c)
    PROVE  NumbersInv'
  <1> DEFINE type == call[c].at
             row == [owner |-> Id(c), type |-> type, number |-> NextAccountNumber(type),
                     primary |-> isPrimary(type)]
             opened == call[c].opened \cup {row}
  <1>1. type \in TypeOfAccount /\ accounts' = accounts
        /\ sequence' = [sequence EXCEPT ![type] = sequence[type] + 1]
        /\ call' = [call EXCEPT ![c].at = NextStage[type], ![c].opened = opened]
    BY DEF CreateAccount, Opens
  <1>2. \A t \in TypeOfAccount : sequence[t] \in Nat
        /\ sequence'[t] = IF t = type THEN sequence[t] + 1 ELSE sequence[t]
    BY <1>1 DEF NamesInv, TypeOK
  <1>3. row.type = type /\ row.number[1] = prefix(type) /\ row.number[2] = sequence[type]
    BY DEF NextAccountNumber
  <1>4. /\ \A a \in Open : a.type \in TypeOfAccount /\ a.number \in AccountNumber
    BY DEF NamesInv, TypeOK, Open, AccountRow
  <1>5. call \in [Client -> [at : Stage, name : Name, attempt : 0..MaxAttempts,
                             opened : SUBSET AccountRow]]
    BY DEF NamesInv, TypeOK
  <1> HIDE DEF row
  <1>6. call'[c].opened = opened /\ \A o \in Client \ {c} : call'[o].opened = call[o].opened
    BY <1>1, <1>5
  <1>7. Open' \subseteq Open \cup {row}
    <2>1. \A o \in Client : call'[o].opened \subseteq call[o].opened \cup {row}
      BY <1>6
    <2> HIDE DEF opened
    <2> QED
      BY <1>1, <2>1, ZenonT(60) DEF Open
  <1> HIDE DEF opened, type
  <1>8. \A t \in TypeOfAccount : prefix(t) = prefix(type) => t = type
    BY <1>1 DEF prefix, TypeOfAccount
  <1>9. ASSUME NEW a \in Open PROVE a.number # row.number
    <2>1. a.number[1] = prefix(a.type) /\ a.number[2] < sequence[a.type]
      BY DEF NumbersInv, Drawn
    <2>2. a.type \in TypeOfAccount /\ a.number[2] \in Nat
      BY <1>4 DEF AccountNumber
    <2>3. CASE a.type = type
      BY <1>1, <1>2, <1>3, <2>1, <2>2, <2>3
    <2>4. CASE a.type # type
      BY <1>3, <1>8, <2>1, <2>2, <2>4
    <2> QED
      BY <2>3, <2>4
  <1>10. NoCollision'
    BY <1>7, <1>9 DEF NumbersInv, NoCollision
  <1>11. ASSUME NEW a \in Open
         PROVE  a.number[1] = prefix(a.type) /\ a.number[2] < sequence'[a.type]
    <2>1. a.number[1] = prefix(a.type) /\ a.number[2] < sequence[a.type]
      BY DEF NumbersInv, Drawn
    <2>2. a.type \in TypeOfAccount /\ a.number[2] \in Nat
      BY <1>4 DEF AccountNumber
    <2> QED
      BY <1>2, <2>1, <2>2
  <1>12. row.number[1] = prefix(row.type) /\ row.number[2] < sequence'[row.type]
    BY <1>1, <1>2, <1>3
  <1>13. Drawn'
    <2> SUFFICES ASSUME NEW a \in Open'
                 PROVE  a.number[1] = prefix(a.type) /\ a.number[2] < sequence'[a.type]
      BY DEF Drawn, prefix
    <2> QED
      BY <1>7, <1>11, <1>12
  <1> QED
    BY <1>10, <1>13 DEF NumbersInv

(* So numbers stay unique in every step.                                   *)
LEMMA NextNumbers == NamesInv /\ NumbersInv /\ [Next]_vars => NumbersInv'
  <1> SUFFICES ASSUME NamesInv, NumbersInv, [Next]_vars PROVE NumbersInv'
    OBVIOUS
  <1> DEFINE Call == [at : Stage, name : Name, attempt : 0..MaxAttempts,
                      opened : SUBSET AccountRow]
  <1>1. call \in [Client -> Call]
    BY DEF NamesInv, TypeOK
  <1>2. ASSUME NEW c \in Client, call' = [call EXCEPT ![c].at = "idle", ![c].opened = {}],
               UNCHANGED <<accounts, sequence>>
        PROVE  NumbersInv'
    <2>1. \A o \in Client : call'[o].opened \subseteq call[o].opened
      BY <1>1, <1>2
    <2> QED
      BY <1>2, <2>1, OpenShrinks, NumbersStay
  <1>3. ASSUME NEW c \in Client, NEW at, call' = [call EXCEPT ![c].at = at],
               UNCHANGED <<accounts, sequence>>
        PROVE  NumbersInv'
    <2>1. \A o \in Client : call'[o].opened = call[o].opened
      BY <1>1, <1>3
    <2> QED
      BY <1>3, <2>1, OpenShrinks, NumbersStay
  <1>4. ASSUME NEW c \in Client, NEW name \in Name, Submit(c, name) PROVE NumbersInv'
    <2>1. \A o \in Client : call'[o].opened \subseteq call[o].opened
      BY <1>1, <1>4 DEF Submit
    <2> QED
      BY <1>4, <2>1, OpenShrinks, NumbersStay DEF Submit
  <1>5. ASSUME NEW c \in Client, LookUp(c) PROVE NumbersInv'
    BY <1>2, <1>3, <1>5 DEF LookUp, Answer, Close
  <1>6. ASSUME NEW c \in Client, InsertUser(c) PROVE NumbersInv'
    BY <1>2, <1>3, <1>6 DEF InsertUser, Answer, Close
  <1>7. ASSUME NEW c \in Client, CreateAccount(c) PROVE NumbersInv'
    BY <1>7, CreateAccountNumbers
  <1>8. ASSUME NEW c \in Client, Commit(c) PROVE NumbersInv'
    <2>1. accounts' = accounts \cup call[c].opened /\ sequence' = sequence
          /\ call' = [call EXCEPT ![c].at = "answer", ![c].opened = {}]
      BY <1>8 DEF Commit
    <2>2. \A o \in Client : call'[o].opened \subseteq call[o].opened
      BY <1>1, <2>1
    <2>3. Open' \subseteq Open
      BY <2>1, <2>2 DEF Open
    <2> QED
      BY <2>1, <2>3, NumbersStay
  <1>9. ASSUME NEW c \in Client, Respond(c) PROVE NumbersInv'
    BY <1>2, <1>9 DEF Respond, Answer, Close
  <1>10. ASSUME NEW c \in Client, Fail(c) PROVE NumbersInv'
    BY <1>2, <1>10 DEF Fail, Answer, Close
  <1>11. CASE Crash
    <2>1. call' = [c \in Client |-> [call[c] EXCEPT !.at = "idle", !.opened = {}]]
          /\ UNCHANGED <<accounts, sequence>>
      BY <1>11 DEF Crash
    <2>2. \A o \in Client : call'[o].opened \subseteq call[o].opened
      BY <1>1, <2>1
    <2> QED
      BY <2>1, <2>2, OpenShrinks, NumbersStay
  <1>12. CASE UNCHANGED vars
    <2>1. Open' = Open /\ sequence' = sequence
      BY <1>12 DEF vars, Open
    <2> QED
      BY <2>1, NumbersStay
  <1> QED
    BY <1>4, <1>5, <1>6, <1>7, <1>8, <1>9, <1>10, <1>11, <1>12 DEF Next, Serve, Finished

(* An account number is drawn once: not again after a rollback, not by two *)
(* registrations at once, not for another type, and it is never one that   *)
(* the seed has written.                                                   *)
THEOREM NumbersAreUnique == Spec => []NumbersNeverCollide
  <1>1. Init => NumbersInv
    BY DEF Init, NumbersInv, Drawn, NoCollision, Open
  <1>2. NamesInv /\ NumbersInv => NumbersNeverCollide
    <2> SUFFICES ASSUME NamesInv, NumbersInv PROVE NumbersNeverCollide
      OBVIOUS
    <2>1. \A a \in Open : a.number[1] \in {61, 62, 63}
      BY DEF NumbersInv, Drawn, Open, NamesInv, TypeOK, AccountRow, TypeOfAccount, prefix
    <2>2. \A a \in Open : a.number \notin SeededNumbers
      BY <2>1, ConstantsAssumption
    <2> QED
      BY <2>2 DEF NumbersInv, NoCollision, NumbersNeverCollide, Open
  <1> QED
    BY NamesInductive, NextNumbers, <1>1, <1>2, PTL DEF Spec


-----------------------------------------------------------------------------
(***************************************************************************)
(* Complete users.  What a registration has opened so far are the accounts *)
(* of the stages behind it (OpenedOwn); its id is nobody's until it        *)
(* commits (Ids); so a commit adds a user and exactly its three accounts   *)
(* (Rows), and a client told "created" names a user that is there          *)
(* (Created).                                                              *)
(***************************************************************************)
Behind(at) ==
    {type \in TypeOfAccount :
        \/ at = "commit"
        \/ at = "kapook" /\ type # "kapook"
        \/ at = "salak" /\ type = "savings"}

OneOfEach(rows, types) ==
    /\ \A a \in rows : a.type \in types /\ (a.primary <=> a.type = "savings")
    /\ \A type \in types : \E a \in rows : a.type = type
    /\ \A a, b \in rows : a.type = b.type => a = b

OfOwner(rows, id) == {a \in rows : a.owner = id}

OpenedOwn ==
    \A c \in Client : /\ \A a \in call[c].opened : a.owner = Id(c)
                      /\ OneOfEach(call[c].opened, Behind(call[c].at))

Ids ==
    /\ \A u \in users :
          /\ u.password = u.id[1]
          /\ u.id[2] <= call[u.id[1]].attempt
          /\ call[u.id[1]].at \notin {"idle", "answer"} => u.id[2] < call[u.id[1]].attempt
    /\ \A u, v \in users : u.id = v.id => u = v

Rows ==
    /\ \A a \in accounts : \E u \in users : u.id = a.owner
    /\ \A u \in users : OneOfEach(OfOwner(accounts, u.id), TypeOfAccount)

Created ==
    /\ \A c \in Client : call[c].at = "answer" =>
          \E u \in users : u.id = Id(c) /\ u.name = call[c].name
    /\ \A t \in told : t[3] = "created" =>
          \E u \in users : u.id = t[1] /\ u.name = t[2]

RowsInv == OpenedOwn /\ Ids /\ Rows /\ Created

(* An id and its two parts.                                                *)
LEMMA UserIdParts ==
    ASSUME TypeOK, NEW u \in users
    PROVE  /\ u.id[1] \in Client /\ u.id[2] \in Nat /\ u.id = <<u.id[1], u.id[2]>>
           /\ u.name \in Name
  <1>1. u.id \in UserId /\ u.name \in Name
    BY DEF TypeOK, User
  <1> QED
    BY <1>1, ConstantsAssumption DEF UserId

(* What a registration that moves on, or ends, does to the map.            *)
Moved(c, at, opened) ==
    /\ call'[c].at = at /\ call'[c].opened = opened
    /\ call'[c].name = call[c].name /\ call'[c].attempt = call[c].attempt
    /\ \A o \in Client \ {c} : call'[o] = call[o]

(* A client that goes to another stage with other accounts is the only one *)
(* that moves.                                                             *)
LEMMA MovedBy ==
    ASSUME TypeOK, NEW c \in Client, NEW at, NEW opened,
           call' = [call EXCEPT ![c].at = at, ![c].opened = opened]
    PROVE  Moved(c, at, opened)
  <1> DEFINE Call == [at : Stage, name : Name, attempt : 0..MaxAttempts,
                      opened : SUBSET AccountRow]
             new == [call[c] EXCEPT !.at = at, !.opened = opened]
  <1>1. call \in [Client -> Call]
    BY DEF TypeOK
  <1>2. call' = [call EXCEPT ![c] = new]
    OBVIOUS
  <1>3. ASSUME NEW r \in Call
        PROVE  /\ [r EXCEPT !.at = at, !.opened = opened].at = at
               /\ [r EXCEPT !.at = at, !.opened = opened].opened = opened
               /\ [r EXCEPT !.at = at, !.opened = opened].name = r.name
               /\ [r EXCEPT !.at = at, !.opened = opened].attempt = r.attempt
    OBVIOUS
  <1> HIDE DEF Call
  <1>4. /\ new.at = at /\ new.opened = opened
        /\ new.name = call[c].name /\ new.attempt = call[c].attempt
    BY <1>1, <1>3
  <1> HIDE DEF new
  <1>5. call'[c] = new /\ \A o \in Client \ {c} : call'[o] = call[o]
    BY <1>1, <1>2
  <1> QED
    BY <1>4, <1>5 DEF Moved

(* A registration that moves on, or ends, without writing a committed row. *)
LEMMA RowsStay ==
    ASSUME NamesInv, RowsInv, NEW c \in Client, NEW at, NEW opened,
           Moved(c, at, opened),
           at # "answer", at # "idle" => call[c].at \notin {"idle", "answer"},
           \A a \in opened : a.owner = Id(c),
           OneOfEach(opened, Behind(at)),
           users' = users, accounts' = accounts,
           \A t \in told' : t \in told \/ t[3] # "created"
               \/ (call[c].at = "answer" /\ t[1] = Id(c) /\ t[2] = call[c].name)
    PROVE  RowsInv'
  <1>1. /\ call'[c].at = at /\ call'[c].opened = opened
        /\ call'[c].name = call[c].name /\ call'[c].attempt = call[c].attempt
        /\ \A o \in Client \ {c} : call'[o] = call[o]
    BY DEF Moved
  <1>2. \A o \in Client : Id(o)' = Id(o)
    BY <1>1 DEF Id
  <1>3. OpenedOwn'
    <2> SUFFICES ASSUME NEW o \in Client
                 PROVE  /\ \A a \in call'[o].opened : a.owner = Id(o)'
                        /\ OneOfEach(call'[o].opened, Behind(call'[o].at))
      BY DEF OpenedOwn, OneOfEach, Behind
    <2>1. CASE o = c
      BY <1>1, <1>2, <2>1
    <2>2. CASE o # c
      BY <1>1, <1>2, <2>2 DEF RowsInv, OpenedOwn
    <2> QED
      BY <2>1, <2>2
  <1>4. Ids'
    <2>1. ASSUME NEW u \in users
          PROVE  /\ u.id[2] <= call'[u.id[1]].attempt
                 /\ call'[u.id[1]].at \notin {"idle", "answer"} =>
                        u.id[2] < call'[u.id[1]].attempt
      <3>1. u.id[1] \in Client
        BY UserIdParts DEF NamesInv
      <3> QED
        BY <1>1, <3>1 DEF RowsInv, Ids
    <2> QED
      BY <2>1 DEF RowsInv, Ids
  <1>5. Rows'
    BY DEF RowsInv, Rows, OneOfEach, OfOwner
  <1>6. Created'
    <2>1. ASSUME NEW o \in Client, call'[o].at = "answer"
          PROVE  \E u \in users : u.id = Id(o)' /\ u.name = call'[o].name
      BY <1>1, <1>2, <2>1 DEF RowsInv, Created
    <2>2. ASSUME NEW t \in told', t[3] = "created"
          PROVE  \E u \in users : u.id = t[1] /\ u.name = t[2]
      BY <2>2 DEF RowsInv, Created
    <2> QED
      BY <2>1, <2>2 DEF Created
  <1> QED
    BY <1>3, <1>4, <1>5, <1>6 DEF RowsInv

(* A registration that ends with an answer, or with none.                  *)
LEMMA RowsAnswered ==
    ASSUME NamesInv, RowsInv, NEW c \in Client, NEW answer,
           Answer(c, answer), UNCHANGED <<users, accounts>>,
           answer = "created" => call[c].at = "answer"
    PROVE  RowsInv'
  <1>1. "idle" \in Stage /\ {} \in SUBSET AccountRow
    BY DEF Stage
  <1>2. OneOfEach({}, Behind("idle"))
    BY DEF OneOfEach, Behind
  <1>3. \A t \in told' : t \in told \/ t[3] # "created"
               \/ (call[c].at = "answer" /\ t[1] = Id(c) /\ t[2] = call[c].name)
    BY DEF Answer
  <1>4. Moved(c, "idle", {})
    BY <1>1, CallUpdate DEF Answer, Close, NamesInv, Moved
  <1> QED
    BY <1>2, <1>3, <1>4, RowsStay

(* A registration that goes from one statement to the next.                *)
LEMMA RowsMoved ==
    ASSUME NamesInv, RowsInv, NEW c \in Client, NEW at \in {"insert", "savings"},
           call[c].at \in {"look-up", "insert"},
           call' = [call EXCEPT ![c].at = at], UNCHANGED <<users, accounts, told>>
    PROVE  RowsInv'
  <1> DEFINE opened == call[c].opened
  <1>1. at \in Stage /\ opened \in SUBSET AccountRow
    BY DEF Stage, NamesInv, TypeOK
  <1>2. call' = [call EXCEPT ![c].at = at, ![c].opened = opened]
    BY <1>1, CallAt DEF NamesInv
  <1>3. Behind(at) = {} /\ Behind(call[c].at) = {}
    BY DEF Behind
  <1>4. OneOfEach(opened, Behind(at)) /\ \A a \in opened : a.owner = Id(c)
    BY <1>3 DEF RowsInv, OpenedOwn
  <1> HIDE DEF opened
  <1>5. Moved(c, at, opened)
    <2>1. \A stage, rows : call' = [call EXCEPT ![c].at = stage, ![c].opened = rows]
                              => Moved(c, stage, rows)
      BY MovedBy DEF NamesInv
    <2> QED
      BY <1>2, <2>1, Zenon
  <1> QED
    BY <1>4, <1>5, RowsStay

(* An account opened by its registration.                                  *)
LEMMA RowsCreateAccount ==
    ASSUME NamesInv, RowsInv, NEW c \in Client, CreateAccount(c)
    PROVE  RowsInv'
  <1> DEFINE type == call[c].at
             row == [owner |-> Id(c), type |-> type, number |-> NextAccountNumber(type),
                     primary |-> isPrimary(type)]
             opened == call[c].opened \cup {row}
             at == NextStage[type]
  <1>1. /\ type \in TypeOfAccount /\ UNCHANGED <<users, accounts, told>>
        /\ call' = [call EXCEPT ![c].at = at, ![c].opened = opened]
    BY DEF CreateAccount, Opens
  <1>2. at \in Stage /\ at \notin {"idle", "answer"} /\ type \notin {"idle", "answer"}
    BY <1>1 DEF NextStage, Stage, TypeOfAccount
  <1>3. Behind(at) = Behind(type) \cup {type} /\ type \notin Behind(type)
    BY <1>1 DEF NextStage, Behind, TypeOfAccount
  <1>4. row.owner = Id(c) /\ row.type = type /\ (row.primary <=> row.type = "savings")
    BY DEF isPrimary
  <1>5. row \in AccountRow
    <2>1. Id(c) \in UserId
      BY <1>2, IdIsUserId DEF NamesInv, Started
    <2>2. prefix(type) \in Nat
      BY <1>1 DEF prefix, TypeOfAccount
    <2>3. sequence[type] \in Nat
      BY <1>1 DEF NamesInv, TypeOK
    <2> QED
      BY <1>1, <2>1, <2>2, <2>3 DEF AccountRow, AccountNumber, NextAccountNumber, isPrimary
  <1> HIDE DEF row
  <1>6. opened \in SUBSET AccountRow
    BY <1>5 DEF NamesInv, TypeOK
  <1>7. OneOfEach(call[c].opened, Behind(type)) /\ \A a \in call[c].opened : a.owner = Id(c)
    BY DEF RowsInv, OpenedOwn
  <1> HIDE DEF at, type
  <1>8. OneOfEach(opened, Behind(at))
    BY <1>3, <1>4, <1>7 DEF OneOfEach
  <1>9. \A a \in opened : a.owner = Id(c)
    BY <1>4, <1>7
  <1> HIDE DEF opened
  <1>10. Moved(c, at, opened)
    <2>1. \A stage, rows : call' = [call EXCEPT ![c].at = stage, ![c].opened = rows]
                              => Moved(c, stage, rows)
      BY MovedBy DEF NamesInv
    <2> QED
      BY <1>1, <2>1, Zenon
  <1> QED
    BY <1>1, <1>2, <1>8, <1>9, <1>10, RowsStay DEF type

(* A new registration, under an id that no user has.                       *)
LEMMA RowsSubmit ==
    ASSUME NamesInv, RowsInv, NEW c \in Client, NEW name \in Name, Submit(c, name)
    PROVE  RowsInv'
  <1> DEFINE new == [at |-> "look-up", name |-> name, attempt |-> call[c].attempt + 1,
                     opened |-> {}]
  <1>1. call' = [call EXCEPT ![c] = new] /\ UNCHANGED <<users, accounts, sequence, told>>
    BY DEF Submit
  <1>2. /\ new.at = "look-up" /\ new.attempt = call[c].attempt + 1 /\ new.opened = {}
        /\ call[c].attempt \in Nat
    BY ConstantsAssumption DEF NamesInv, TypeOK
  <1> HIDE DEF new
  <1>3. call'[c] = new /\ \A o \in Client \ {c} : call'[o] = call[o]
    BY <1>1 DEF NamesInv, TypeOK
  <1>4. OpenedOwn'
    <2> SUFFICES ASSUME NEW o \in Client
                 PROVE  /\ \A a \in call'[o].opened : a.owner = Id(o)'
                        /\ OneOfEach(call'[o].opened, Behind(call'[o].at))
      BY DEF OpenedOwn, OneOfEach, Behind
    <2>1. CASE o = c
      <3>1. OneOfEach({}, Behind("look-up"))
        BY DEF OneOfEach, Behind
      <3> QED
        BY <1>2, <1>3, <2>1, <3>1
    <2>2. CASE o # c
      BY <1>3, <2>2 DEF RowsInv, OpenedOwn, Id
    <2> QED
      BY <2>1, <2>2
  <1>5. Ids'
    <2>1. ASSUME NEW u \in users
          PROVE  /\ u.id[2] <= call'[u.id[1]].attempt
                 /\ call'[u.id[1]].at \notin {"idle", "answer"} =>
                        u.id[2] < call'[u.id[1]].attempt
      <3>1. u.id[1] \in Client /\ u.id[2] \in Nat
        BY UserIdParts DEF NamesInv
      <3> QED
        BY <1>2, <1>3, <3>1 DEF RowsInv, Ids
    <2> QED
      BY <1>1, <2>1 DEF RowsInv, Ids
  <1>6. Rows'
    BY <1>1 DEF RowsInv, Rows, OneOfEach, OfOwner
  <1>7. Created'
    BY <1>1, <1>2, <1>3, ZenonT(60) DEF RowsInv, Created, Id
  <1> QED
    BY <1>4, <1>5, <1>6, <1>7 DEF RowsInv


(* A commit adds one user, and the accounts that were opened for it.       *)
LEMMA RowsCommit ==
    ASSUME NamesInv, RowsInv, NEW c \in Client, Commit(c)
    PROVE  RowsInv'
  <1> DEFINE user == [id |-> Id(c), name |-> call[c].name, password |-> c]
             opened == call[c].opened
  <1>1. call[c].at = "commit" /\ users' = users \cup {user}
        /\ accounts' = accounts \cup opened
        /\ call' = [call EXCEPT ![c].at = "answer", ![c].opened = {}]
        /\ told' = told
    BY DEF Commit, Inserted
  <1>2. user.id = Id(c) /\ user.name = call[c].name /\ user.password = c
    OBVIOUS
  <1>3. /\ call'[c].at = "answer" /\ call'[c].opened = {}
        /\ call'[c].name = call[c].name /\ call'[c].attempt = call[c].attempt
        /\ \A o \in Client \ {c} : call'[o] = call[o]
    <2>1. \A stage, rows : call' = [call EXCEPT ![c].at = stage, ![c].opened = rows]
                              => Moved(c, stage, rows)
      BY MovedBy DEF NamesInv
    <2>2. Moved(c, "answer", {})
      BY <1>1, <2>1, Zenon
    <2> QED
      BY <2>2 DEF Moved
  <1>4. /\ OneOfEach(opened, TypeOfAccount) /\ \A a \in opened : a.owner = Id(c)
    <2>1. Behind("commit") = TypeOfAccount
      BY DEF Behind
    <2> QED
      BY <1>1, <2>1 DEF RowsInv, OpenedOwn
  <1>5. \A o \in Client : Id(o)' = Id(o)
    BY <1>3 DEF Id
  <1>i. Id(c)[1] = c /\ Id(c)[2] = call[c].attempt /\ call[c].attempt \in Nat
    BY ConstantsAssumption DEF Id, NamesInv, TypeOK
  <1>6. \A u \in users : u.id # Id(c)
    <2> SUFFICES ASSUME NEW u \in users, u.id = Id(c) PROVE FALSE
      OBVIOUS
    <2>1. u.id[2] < call[c].attempt
      BY <1>1, <1>i DEF RowsInv, Ids
    <2> QED
      BY <1>i, <2>1
  <1> HIDE DEF user, opened
  <1>7. OpenedOwn'
    <2> SUFFICES ASSUME NEW o \in Client
                 PROVE  /\ \A a \in call'[o].opened : a.owner = Id(o)'
                        /\ OneOfEach(call'[o].opened, Behind(call'[o].at))
      BY DEF OpenedOwn, OneOfEach, Behind
    <2>1. CASE o = c
      <3>1. OneOfEach({}, Behind("answer"))
        BY DEF OneOfEach, Behind
      <3> QED
        BY <1>3, <2>1, <3>1
    <2>2. CASE o # c
      BY <1>3, <1>5, <2>2 DEF RowsInv, OpenedOwn
    <2> QED
      BY <2>1, <2>2
  <1>8. Ids'
    <2>1. ASSUME NEW u \in users'
          PROVE  /\ u.password = u.id[1]
                 /\ u.id[2] <= call'[u.id[1]].attempt
                 /\ call'[u.id[1]].at \notin {"idle", "answer"} =>
                        u.id[2] < call'[u.id[1]].attempt
      <3>1. CASE u = user
        BY <1>2, <1>3, <1>i, <3>1
      <3>2. CASE u \in users
        <4>1. u.id[1] \in Client
          BY <3>2, UserIdParts DEF NamesInv
        <4>2. /\ u.password = u.id[1]
              /\ u.id[2] <= call[u.id[1]].attempt
              /\ call[u.id[1]].at \notin {"idle", "answer"} =>
                     u.id[2] < call[u.id[1]].attempt
          BY <3>2 DEF RowsInv, Ids
        <4> QED
          BY <1>3, <4>1, <4>2
      <3> QED
        BY <1>1, <3>1, <3>2
    <2>2. ASSUME NEW u \in users', NEW v \in users', u.id = v.id
          PROVE  u = v
      BY <1>1, <1>2, <1>6, <2>2 DEF RowsInv, Ids
    <2> QED
      BY <2>1, <2>2 DEF Ids
  <1>9. Rows'
    <2>1. ASSUME NEW a \in accounts' PROVE \E u \in users' : u.id = a.owner
      BY <1>1, <1>2, <1>4 DEF RowsInv, Rows
    <2>2. \A a \in accounts : a.owner # Id(c)
      BY <1>6 DEF RowsInv, Rows
    <2>3. OfOwner(accounts', Id(c)) = opened
      BY <1>1, <1>4, <2>2 DEF OfOwner
    <2>4. \A u \in users : OfOwner(accounts', u.id) = OfOwner(accounts, u.id)
      BY <1>1, <1>4, <1>6 DEF OfOwner
    <2>5. ASSUME NEW u \in users' PROVE OneOfEach(OfOwner(accounts', u.id), TypeOfAccount)
      <3>1. CASE u = user
        BY <1>2, <1>4, <2>3, <3>1
      <3>2. CASE u \in users
        BY <2>4, <3>2 DEF RowsInv, Rows
      <3> QED
        BY <1>1, <3>1, <3>2
    <2> QED
      BY <2>1, <2>5 DEF Rows, OfOwner, OneOfEach, TypeOfAccount
  <1>10. Created'
    <2>1. ASSUME NEW o \in Client, call'[o].at = "answer"
          PROVE  \E u \in users' : u.id = Id(o)' /\ u.name = call'[o].name
      <3>1. CASE o = c
        BY <1>1, <1>2, <1>3, <1>5, <3>1
      <3>2. CASE o # c
        <4>1. \E u \in users : u.id = Id(o) /\ u.name = call[o].name
          BY <1>3, <2>1, <3>2 DEF RowsInv, Created
        <4> QED
          BY <1>1, <1>3, <1>5, <3>2, <4>1
      <3> QED
        BY <3>1, <3>2
    <2>2. ASSUME NEW t \in told', t[3] = "created"
          PROVE  \E u \in users' : u.id = t[1] /\ u.name = t[2]
      BY <1>1, <2>2 DEF RowsInv, Created
    <2> QED
      BY <2>1, <2>2 DEF Created
  <1> QED
    BY <1>7, <1>8, <1>9, <1>10 DEF RowsInv

(* A crash ends every registration; the committed rows stay.               *)
LEMMA RowsCrash ==
    ASSUME NamesInv, RowsInv, Crash
    PROVE  RowsInv'
  <1>1. call' = [c \in Client |-> [call[c] EXCEPT !.at = "idle", !.opened = {}]]
        /\ UNCHANGED <<users, accounts, sequence, told>>
    BY DEF Crash
  <1>2. ASSUME NEW r \in [at : Stage, name : Name, attempt : 0..MaxAttempts,
                          opened : SUBSET AccountRow]
        PROVE  /\ [r EXCEPT !.at = "idle", !.opened = {}].at = "idle"
               /\ [r EXCEPT !.at = "idle", !.opened = {}].opened = {}
               /\ [r EXCEPT !.at = "idle", !.opened = {}].attempt = r.attempt
    OBVIOUS
  <1>3. \A c \in Client : call[c] \in [at : Stage, name : Name, attempt : 0..MaxAttempts,
                                       opened : SUBSET AccountRow]
    BY DEF NamesInv, TypeOK
  <1>4. \A c \in Client : /\ call'[c].at = "idle" /\ call'[c].opened = {}
                          /\ call'[c].attempt = call[c].attempt
    BY <1>1, <1>2, <1>3
  <1>5. OpenedOwn'
    <2>1. OneOfEach({}, Behind("idle"))
      BY DEF OneOfEach, Behind
    <2>2. ASSUME NEW o \in Client
          PROVE  /\ \A a \in call'[o].opened : a.owner = Id(o)'
                 /\ OneOfEach(call'[o].opened, Behind(call'[o].at))
      BY <1>4, <2>1
    <2> QED
      BY <2>2 DEF OpenedOwn, OneOfEach, Behind
  <1>6. Ids'
    <2>1. ASSUME NEW u \in users
          PROVE  u.id[2] <= call'[u.id[1]].attempt /\ call'[u.id[1]].at = "idle"
      <3>1. u.id[1] \in Client
        BY UserIdParts DEF NamesInv
      <3> QED
        BY <1>4, <3>1 DEF RowsInv, Ids
    <2> QED
      BY <1>1, <2>1 DEF RowsInv, Ids
  <1>7. Rows'
    <2>1. users' = users /\ accounts' = accounts
      BY <1>1
    <2> QED
      BY <2>1 DEF RowsInv, Rows, OneOfEach, OfOwner
  <1>8. Created'
    BY <1>1, <1>4 DEF RowsInv, Created
  <1> QED
    BY <1>5, <1>6, <1>7, <1>8 DEF RowsInv

(* Rows stay complete in every step ...                                    *)
LEMMA NextRows == NamesInv /\ RowsInv /\ [Next]_vars => RowsInv'
  <1> SUFFICES ASSUME NamesInv, RowsInv, [Next]_vars PROVE RowsInv'
    OBVIOUS
  <1>1. ASSUME NEW c \in Client, NEW name \in Name, Submit(c, name) PROVE RowsInv'
    BY <1>1, RowsSubmit
  <1>2. ASSUME NEW c \in Client, LookUp(c) PROVE RowsInv'
    BY <1>2, RowsAnswered, RowsMoved DEF LookUp
  <1>3. ASSUME NEW c \in Client, InsertUser(c) PROVE RowsInv'
    BY <1>3, RowsAnswered, RowsMoved DEF InsertUser
  <1>4. ASSUME NEW c \in Client, CreateAccount(c) PROVE RowsInv'
    BY <1>4, RowsCreateAccount
  <1>5. ASSUME NEW c \in Client, Commit(c) PROVE RowsInv'
    BY <1>5, RowsCommit
  <1>6. ASSUME NEW c \in Client, Respond(c) PROVE RowsInv'
    BY <1>6, RowsAnswered DEF Respond
  <1>7. ASSUME NEW c \in Client, Fail(c) PROVE RowsInv'
    BY <1>7, RowsAnswered DEF Fail
  <1>8. CASE Crash
    BY <1>8, RowsCrash
  <1>9. CASE UNCHANGED vars
    <2>1. UNCHANGED <<users, accounts, call, told>>
      BY <1>9 DEF vars
    <2>2. OpenedOwn'
      BY <2>1 DEF RowsInv, OpenedOwn, OneOfEach, Behind, Id
    <2>3. Rows'
      BY <2>1 DEF RowsInv, Rows, OneOfEach, OfOwner
    <2>4. Ids' /\ Created'
      BY <2>1 DEF RowsInv, Ids, Created, Id
    <2> QED
      BY <2>2, <2>3, <2>4 DEF RowsInv
  <1> QED
    BY <1>1, <1>2, <1>3, <1>4, <1>5, <1>6, <1>7, <1>8, <1>9 DEF Next, Serve, Finished

(* ... and always are.                                                     *)
LEMMA RowsInductive == Spec => [](NamesInv /\ RowsInv)
  <1>1. Init => RowsInv
    <2> SUFFICES ASSUME Init PROVE RowsInv
      OBVIOUS
    <2>1. \A c \in Client : call[c].at = "idle" /\ call[c].opened = {}
      BY DEF Init
    <2>2. OneOfEach({}, Behind("idle"))
      BY DEF OneOfEach, Behind
    <2> QED
      BY <2>1, <2>2 DEF Init, RowsInv, OpenedOwn, Ids, Rows, Created
  <1> QED
    BY NamesInductive, NextRows, <1>1, PTL DEF Spec

(* Three rows, one of each type, are three.                                *)
LEMMA ThreeOfThem ==
    ASSUME NEW rows, OneOfEach(rows, TypeOfAccount)
    PROVE  /\ {a.type : a \in rows} = TypeOfAccount
           /\ Cardinality(rows) = 3
           /\ {a.type : a \in {b \in rows : b.primary}} = {"savings"}
  <1>1. /\ \A a \in rows : a.type \in TypeOfAccount /\ (a.primary <=> a.type = "savings")
        /\ \A type \in TypeOfAccount : \E a \in rows : a.type = type
        /\ \A a, b \in rows : a.type = b.type => a = b
    BY DEF OneOfEach
  <1>2. TypeOfAccount = {"savings", "salak", "kapook"}
    BY DEF TypeOfAccount
  <1>3. PICK x \in rows : x.type = "savings"
    BY <1>1, <1>2
  <1>4. PICK y \in rows : y.type = "salak"
    BY <1>1, <1>2
  <1>5. PICK z \in rows : z.type = "kapook"
    BY <1>1, <1>2
  <1>6. rows = {x, y, z} /\ x # y /\ x # z /\ y # z
    BY <1>1, <1>2, <1>3, <1>4, <1>5
  <1>7. Cardinality({x, y, z}) = 3
    <2>1. IsFiniteSet({x}) /\ Cardinality({x}) = 1
      BY FS_Singleton
    <2>2. IsFiniteSet({x} \cup {y}) /\ Cardinality({x} \cup {y}) = 2
      <3>1. y \notin {x}
        BY <1>6
      <3> QED
        BY <2>1, <3>1, FS_AddElement
    <2>3. Cardinality(({x} \cup {y}) \cup {z}) = 3
      <3>1. z \notin {x} \cup {y}
        BY <1>6
      <3> QED
        BY <2>2, <3>1, FS_AddElement
    <2>4. ({x} \cup {y}) \cup {z} = {x, y, z}
      OBVIOUS
    <2> QED
      BY <2>3, <2>4
  <1>8. {a.type : a \in rows} = TypeOfAccount
    BY <1>1
  <1>9. {a.type : a \in {b \in rows : b.primary}} = {"savings"}
    BY <1>1, <1>3
  <1> QED
    BY <1>6, <1>7, <1>8, <1>9

(* A registration is all or nothing, wherever it fails or the server dies: *)
(* every user has its three accounts, the savings account and no other is  *)
(* primary, and no account belongs to a user that is not there.            *)
THEOREM RegistrationIsAtomic == Spec => []UsersAreComplete
  <1>1. RowsInv => UsersAreComplete
    <2> SUFFICES ASSUME RowsInv PROVE UsersAreComplete
      OBVIOUS
    <2>1. \A a \in accounts : \E u \in users : u.id = a.owner
      BY DEF RowsInv, Rows
    <2>2. ASSUME NEW u \in users
          PROVE  LET mine == {a \in accounts : a.owner = u.id}
                 IN  /\ {a.type : a \in mine} = TypeOfAccount
                     /\ Cardinality(mine) = 3
                     /\ {a.type : a \in {b \in mine : b.primary}} = {"savings"}
      <3> DEFINE mine == {a \in accounts : a.owner = u.id}
      <3>1. OneOfEach(mine, TypeOfAccount)
        BY DEF RowsInv, Rows, OfOwner
      <3> HIDE DEF mine
      <3>2. /\ {a.type : a \in mine} = TypeOfAccount
            /\ Cardinality(mine) = 3
            /\ {a.type : a \in {b \in mine : b.primary}} = {"savings"}
        BY <3>1, ThreeOfThem
      <3> QED
        BY <3>2 DEF mine
    <2> QED
      BY <2>1, <2>2 DEF UsersAreComplete
  <1> QED
    BY RowsInductive, <1>1, PTL

(* A client told "created" gets in with its own password, into the account *)
(* it registered, and with nobody else's.                                  *)
THEOREM CreatedMeansIn == Spec => []CreatedCanLogin
  <1>1. NamesInv /\ RowsInv => CreatedCanLogin
    <2> SUFFICES ASSUME NamesInv, RowsInv, NEW t \in told, t[3] = "created",
                        NEW password \in Client
                 PROVE  Login(t[2], password) =
                          IF password = t[1][1] THEN {u \in users : u.id = t[1]} ELSE {}
      BY DEF CreatedCanLogin
    <2>1. PICK u \in users : u.id = t[1] /\ u.name = t[2]
      BY DEF RowsInv, Created
    <2>2. \A v \in users : v.name = t[2] => v = u
      BY <2>1 DEF NamesInv, NamesAreUnique
    <2>3. \A v \in users : v.id = t[1] => v = u
      BY <2>1 DEF RowsInv, Ids
    <2>4. u.password = t[1][1]
      BY <2>1 DEF RowsInv, Ids
    <2>5. Login(t[2], password) = {v \in {u} : v.password = password}
      BY <2>1, <2>2 DEF Login, FindByUsername
    <2>6. {v \in users : v.id = t[1]} = {u}
      BY <2>1, <2>3
    <2> QED
      BY <2>4, <2>5, <2>6
  <1> QED
    BY RowsInductive, <1>1, PTL

-----------------------------------------------------------------------------
(***************************************************************************)
(* cmd/seed.                                                               *)
(***************************************************************************)

(* The program has gone so far that a row is there.                        *)
Passed ==
    /\ At("savings") => demoUser # "nobody"
    /\ At("salak") => "savings" \in DOMAIN cash
    /\ At("kapook") => {"savings", "salak"} \subseteq DOMAIN cash
    /\ At("look") \/ At("goal") => Opened

(* A run that opens the kapook account itself finds its starting balance   *)
(* untouched when it comes to the fallback goal.                           *)
FreshIsFunded ==
    (At("look") \/ At("goal")) /\ seed.fresh =>
        /\ "fallback" \notin DOMAIN goals
        /\ cash.kapook >= demoFallbackGoalAmount
        /\ \A g \in ActiveGoals :
              Available(goals[g]) + demoFallbackGoalAmount =< cash.kapook

(* Rows hang together: no account without the seeded user, no goal without *)
(* an account, one active goal, and no more bought than saved.             *)
RowsHang ==
    /\ DOMAIN cash # {} => demoUser = "seed"
    /\ DOMAIN goals # {} => "kapook" \in DOMAIN cash
    /\ \A g, h \in ActiveGoals : g = h
    /\ \A g \in DOMAIN goals : goals[g].bought =< goals[g].saving

(* After a run with the demo data, no later run opens an account.          *)
LaterRunsFindAccounts ==
    finished # Stopped /\ finished.demo /\ seed # Stopped => ~ seed.fresh

SeedInv == /\ SeedTypeOK /\ Passed /\ RowsHang /\ FreshIsFunded
           /\ LaterRunsFindAccounts /\ GoalsAreBacked /\ FinishedRunGivesDemoLogin

(* What one step of the program makes of the run.                          *)
LEMMA GotoStep ==
    ASSUME SeedTypeOK, NEW step, At(step),
           NEW next \in {"admin", "user", "savings", "salak", "kapook", "look", "goal"},
           Goto(next)
    PROVE  /\ seed' \in Run /\ seed' # Stopped
           /\ seed'.at = next /\ seed'.settings = seed.settings
           /\ seed'.fresh = seed.fresh /\ seed'.blocked = seed.blocked
  <1>1. seed \in Run
    BY DEF SeedTypeOK, At
  <1>2. seed' = [seed EXCEPT !.at = next]
    BY DEF Goto
  <1>3. seed'.at = next /\ seed'.settings = seed.settings
        /\ seed'.fresh = seed.fresh /\ seed'.blocked = seed.blocked
    BY <1>1, <1>2 DEF Run
  <1>4. seed' \in Run
    BY <1>1, <1>2 DEF Run
  <1>5. seed' # Stopped
    BY <1>3 DEF Stopped
  <1> QED
    BY <1>3, <1>4, <1>5

(* Balances after an amount has moved from one account to another.         *)
LEMMA CashMoves ==
    ASSUME SeedTypeOK, Opened, NEW from \in DemoAccount, NEW to \in DemoAccount,
           from # to, NEW n \in Nat, n =< cash[from],
           \/ cash' = [cash EXCEPT ![from] = cash[from] - n, ![to] = cash[to] + n]
           \/ cash' = [cash EXCEPT ![to] = cash[to] + n, ![from] = cash[from] - n]
    PROVE  /\ DOMAIN cash' = DemoAccount /\ cash' \in [DOMAIN cash' -> Nat]
           /\ cash'[from] = cash[from] - n /\ cash'[to] = cash[to] + n
           /\ cash[from] \in Nat /\ cash[to] \in Nat
  <1>1. cash \in [DemoAccount -> Nat]
    BY DEF SeedTypeOK, Opened
  <1>2. cash[from] - n \in Nat /\ cash[to] + n \in Nat
    BY <1>1
  <1>3. cash' \in [DemoAccount -> Nat] /\ cash'[from] = cash[from] - n
        /\ cash'[to] = cash[to] + n
    BY <1>1, <1>2
  <1> QED
    BY <1>1, <1>3

(* The invariant holds of an empty database and of one of an earlier       *)
(* release.                                                                *)
LEMMA SeedInitInv == SeedInit => SeedInv
  <1> SUFFICES ASSUME SeedInit PROVE SeedInv
    OBVIOUS
  <1> USE SeedAssumption
  <1>1. DOMAIN goals = {} /\ ActiveGoals = {} /\ goals \in [DOMAIN goals -> Goal]
    BY DEF SeedInit, ActiveGoals
  <1>2. CASE cash = [k \in {} |-> 0] /\ cursor = NoCursor /\ demoUser = "nobody"
    <2>1. DOMAIN cash = {} /\ cash \in [DOMAIN cash -> Nat]
      BY <1>2
    <2>2. SeedTypeOK
      BY <1>1, <1>2, <2>1 DEF SeedInit, SeedTypeOK
    <2> QED
      BY <1>1, <2>1, <2>2 DEF SeedInit, SeedInv, Passed, RowsHang, FreshIsFunded, At,
         LaterRunsFindAccounts, GoalsAreBacked, FinishedRunGivesDemoLogin
  <1>3. CASE /\ demoUser = "seed"
             /\ cash = [StartingBalance EXCEPT !.kapook = 0]
             /\ cursor = 0
    <2>1. DOMAIN cash = DemoAccount /\ cash \in [DOMAIN cash -> Nat]
      BY <1>3 DEF StartingBalance, DemoAccount, demoFallbackGoalAmount
    <2>2. SeedTypeOK
      BY <1>1, <1>3, <2>1 DEF SeedInit, SeedTypeOK
    <2> QED
      BY <1>1, <1>3, <2>1, <2>2 DEF SeedInit, SeedInv, Passed, RowsHang, FreshIsFunded, At,
         LaterRunsFindAccounts, GoalsAreBacked, FinishedRunGivesDemoLogin
  <1> QED
    BY <1>2, <1>3 DEF SeedInit

(* A step of the program that inserts no account and no goal.              *)
LEMMA RunStep ==
    ASSUME SeedInv, UNCHANGED <<cash, goals>>, SeedTypeOK',
           demoUser' = demoUser \/ (demoUser = "nobody" /\ demoUser' = "seed"),
           ~ At("look")' /\ ~ At("goal")',
           At("savings")' => demoUser' # "nobody",
           ~ At("salak")' /\ ~ At("kapook")',
           finished' # Stopped /\ finished'.demo => finished' = finished,
           LaterRunsFindAccounts'
    PROVE  SeedInv'
  <1>1. ActiveGoals' = ActiveGoals /\ \A g : Available(goals[g])' = Available(goals[g])
    BY DEF ActiveGoals, Available
  <1>2. Passed' /\ FreshIsFunded'
    BY DEF Passed, FreshIsFunded
  <1>3. RowsHang'
    BY <1>1 DEF SeedInv, RowsHang
  <1>4. GoalsAreBacked'
    BY <1>1 DEF SeedInv, GoalsAreBacked
  <1>5. FinishedRunGivesDemoLogin'
    <2> SUFFICES ASSUME finished' # Stopped, finished'.demo PROVE demoUser' = "seed" /\ Opened'
      BY DEF FinishedRunGivesDemoLogin
    <2>1. demoUser = "seed" /\ Opened
      BY DEF SeedInv, FinishedRunGivesDemoLogin
    <2> QED
      BY <2>1 DEF Opened
  <1> QED
    BY <1>2, <1>3, <1>4, <1>5 DEF SeedInv

(* The statements that write no account and no goal keep it.               *)
LEMMA ProgramStartsOrEnds ==
    ASSUME SeedInv, (\E settings \in Settings : Start(settings)) \/ SeedProducts \/ SeedAdmin
                    \/ SeedUser \/ Die
    PROVE  SeedInv'
  <1> USE SeedAssumption
  <1>1. SeedTypeOK /\ LaterRunsFindAccounts
    BY DEF SeedInv
  <1>2. ASSUME NEW settings \in Settings, Start(settings) PROVE SeedInv'
    <2>1. seed' \in Run /\ seed'.at = "products" /\ ~ seed'.fresh
      BY <1>2 DEF Start, Run
    <2>2. SeedTypeOK'
      <3>1. runs' \in 0..MaxRuns /\ UNCHANGED <<finished, adminRow, demoUser, cash, goals, cursor>>
        BY <1>1, <1>2 DEF SeedTypeOK, Start, database
      <3> QED
        BY <1>1, <2>1, <3>1 DEF SeedTypeOK
    <2>3. LaterRunsFindAccounts'
      BY <2>1 DEF LaterRunsFindAccounts
    <2> QED
      BY <1>2, <2>1, <2>2, <2>3, RunStep DEF Start, At, database
  <1>3. CASE SeedProducts
    <2>1. seed' \in Run /\ seed'.at = "admin" /\ seed'.fresh = seed.fresh /\ seed # Stopped
      BY <1>1, <1>3, GotoStep DEF SeedProducts, At
    <2>2. SeedTypeOK'
      BY <1>1, <1>3, <2>1 DEF SeedTypeOK, SeedProducts, Provisioned, NoCursor
    <2>3. LaterRunsFindAccounts'
      BY <1>1, <1>3, <2>1 DEF LaterRunsFindAccounts, SeedProducts
    <2> QED
      BY <1>3, <2>1, <2>2, <2>3, RunStep DEF SeedProducts, At
  <1>4. CASE SeedAdmin
    <2>1. seed \in Run /\ seed # Stopped /\ seed.settings \in Settings
          /\ seed.settings.admin \in Password \cup {Unset}
      BY <1>1, <1>4 DEF SeedAdmin, At, SeedTypeOK, Run, Settings
    <2>2. adminRow' \in Password \cup {Unset}
          /\ UNCHANGED <<runs, demoUser, cash, goals, cursor>>
      BY <1>1, <1>4, <2>1 DEF SeedAdmin, SeedTypeOK
    <2>3. CASE seed.settings.demo
      <3>1. Goto("user") /\ finished' = finished /\ At("admin")
        BY <1>4, <2>3 DEF SeedAdmin
      <3>2. seed' \in Run /\ seed'.at = "user" /\ seed'.fresh = seed.fresh
        BY <1>1, <3>1, GotoStep
      <3>3. SeedTypeOK'
        BY <1>1, <2>2, <3>1, <3>2 DEF SeedTypeOK
      <3>4. LaterRunsFindAccounts'
        BY <1>1, <2>1, <3>1, <3>2 DEF LaterRunsFindAccounts
      <3> QED
        BY <2>2, <3>1, <3>2, <3>3, <3>4, RunStep DEF At
    <2>4. CASE ~ seed.settings.demo
      <3>1. seed' = Stopped /\ finished' = seed.settings
        BY <1>4, <2>4 DEF SeedAdmin, Finish
      <3>2. SeedTypeOK'
        BY <1>1, <2>1, <2>2, <3>1 DEF SeedTypeOK
      <3>3. LaterRunsFindAccounts'
        BY <3>1 DEF LaterRunsFindAccounts
      <3> QED
        BY <2>2, <2>4, <3>1, <3>2, <3>3, RunStep DEF At
    <2> QED
      BY <2>3, <2>4
  <1>5. CASE SeedUser
    <2>1. seed' \in Run /\ seed'.at = "savings" /\ seed'.fresh = seed.fresh /\ seed # Stopped
      BY <1>1, <1>5, GotoStep DEF SeedUser, At
    <2>2. /\ demoUser' = IF demoUser = "nobody" THEN "seed" ELSE demoUser
          /\ UNCHANGED <<runs, finished, adminRow, cash, goals, cursor>>
      BY <1>5 DEF SeedUser
    <2>3. SeedTypeOK'
      BY <1>1, <2>1, <2>2 DEF SeedTypeOK
    <2>4. LaterRunsFindAccounts'
      BY <1>1, <2>1, <2>2 DEF LaterRunsFindAccounts
    <2> QED
      BY <2>1, <2>2, <2>3, <2>4, RunStep DEF At
  <1>6. CASE Die
    <2>1. seed' = Stopped /\ UNCHANGED <<runs, finished, adminRow, demoUser, cash, goals, cursor>>
      BY <1>6 DEF Die, database
    <2>2. SeedTypeOK'
      BY <1>1, <2>1 DEF SeedTypeOK
    <2>3. LaterRunsFindAccounts'
      BY <2>1 DEF LaterRunsFindAccounts
    <2> QED
      BY <2>1, <2>2, <2>3, RunStep DEF At
  <1> QED
    BY <1>2, <1>3, <1>4, <1>5, <1>6

(* The accounts, one per step: none is opened without the seeded user.     *)
LEMMA AccountStep ==
    ASSUME SeedInv, SeedAccount
    PROVE  /\ SeedInv'
           /\ Opened => UNCHANGED cash
  <1>1. PICK kind \in DemoAccount :
          /\ At(kind)
          /\ IF ReferencesUser \/ kind \in DOMAIN cash
             THEN /\ cash' = InsertAccount(kind, StartingBalance[kind])
                  /\ seed' = [seed EXCEPT !.at = AfterAccount[kind],
                                          !.fresh = kind \notin DOMAIN cash]
             ELSE /\ seed' = Stopped
                  /\ UNCHANGED cash
    BY DEF SeedAccount
  <1>2. UNCHANGED <<runs, finished, adminRow, demoUser, goals, cursor>>
    BY DEF SeedAccount
  <1>3. /\ SeedTypeOK /\ Passed /\ RowsHang /\ LaterRunsFindAccounts /\ GoalsAreBacked
        /\ FinishedRunGivesDemoLogin /\ seed \in Run
    BY <1>1 DEF SeedInv, SeedTypeOK, At
  <1>4. ActiveGoals' = ActiveGoals /\ \A g : Available(goals[g])' = Available(goals[g])
    BY <1>2 DEF ActiveGoals, Available
  <1>5. CASE ReferencesUser \/ kind \in DOMAIN cash
    <2>1. /\ cash \in [DOMAIN cash -> Nat] /\ DOMAIN cash \subseteq DemoAccount
          /\ StartingBalance[kind] \in Nat
      BY <1>3, SeedAssumption DEF SeedTypeOK, StartingBalance, DemoAccount, demoFallbackGoalAmount
    <2>2. /\ DOMAIN cash' = DOMAIN cash \cup {kind}
          /\ cash' \in [DOMAIN cash \cup {kind} -> Nat]
          /\ \A x \in DOMAIN cash : cash'[x] = cash[x]
          /\ kind \in DOMAIN cash => cash' = cash
          /\ kind \notin DOMAIN cash => cash'[kind] = StartingBalance[kind]
      <3> DEFINE row == StartingBalance[kind]
                 new == Insert(cash, kind, row)
      <3>1. row \in Nat /\ cash \in [DOMAIN cash -> Nat]
        BY <2>1
      <3>2. cash' = new
        BY <1>1, <1>5 DEF InsertAccount
      <3> HIDE DEF row
      <3>3. /\ DOMAIN new = DOMAIN cash \cup {kind}
            /\ new \in [DOMAIN cash \cup {kind} -> Nat]
            /\ \A x \in DOMAIN cash : new[x] = cash[x]
            /\ kind \in DOMAIN cash => new = cash
            /\ kind \notin DOMAIN cash => new[kind] = row
        BY <3>1 DEF Insert
      <3> QED
        BY <3>2, <3>3 DEF row
    <2>3. /\ seed' \in Run /\ seed'.at = AfterAccount[kind]
          /\ seed'.fresh = (kind \notin DOMAIN cash)
      <3>1. AfterAccount[kind] \in {"salak", "kapook", "look"}
        BY DEF AfterAccount, DemoAccount
      <3>2. (kind \notin DOMAIN cash) \in BOOLEAN
        OBVIOUS
      <3> QED
        BY <1>1, <1>3, <1>5, <3>1, <3>2 DEF Run
    <2>4. SeedTypeOK'
      BY <1>2, <1>3, <2>1, <2>2, <2>3 DEF SeedTypeOK
    <2>5. demoUser = "seed"
      BY <1>3, <1>5 DEF ReferencesUser, RowsHang
    <2>6. Passed'
      BY <1>1, <1>2, <1>3, <2>1, <2>2, <2>3, <2>5
      DEF Passed, At, AfterAccount, DemoAccount, Opened
    <2>7. RowsHang'
      BY <1>2, <1>3, <1>4, <2>2, <2>5 DEF RowsHang
    <2>8. FreshIsFunded'
      <3> SUFFICES ASSUME At("look")' \/ At("goal")', seed'.fresh
                   PROVE  /\ "fallback" \notin DOMAIN goals
                          /\ cash'.kapook >= demoFallbackGoalAmount
                          /\ ActiveGoals = {}
        BY <1>2, <1>4 DEF FreshIsFunded
      <3>1. kind = "kapook" /\ kind \notin DOMAIN cash
        <4>1. AfterAccount[kind] \in {"look", "goal"}
          BY <2>3 DEF At
        <4>2. kind = "kapook"
          BY <4>1 DEF AfterAccount, DemoAccount
        <4> QED
          BY <2>3, <4>2
      <3>2. DOMAIN goals = {}
        BY <1>3, <3>1 DEF RowsHang
      <3>3. cash'.kapook = demoFallbackGoalAmount
        BY <2>2, <3>1 DEF StartingBalance
      <3> QED
        BY <3>2, <3>3 DEF ActiveGoals, demoFallbackGoalAmount
    <2>9. LaterRunsFindAccounts'
      <3> SUFFICES ASSUME finished # Stopped, finished.demo PROVE kind \in DOMAIN cash
        BY <1>2, <2>3 DEF LaterRunsFindAccounts
      <3> QED
        BY <1>3 DEF FinishedRunGivesDemoLogin, Opened
    <2>10. GoalsAreBacked'
      BY <1>3, <1>4, <2>2 DEF GoalsAreBacked
    <2>11. FinishedRunGivesDemoLogin'
      BY <1>2, <1>3, <2>1, <2>2 DEF FinishedRunGivesDemoLogin, Opened
    <2> QED
      BY <2>2, <2>4, <2>6, <2>7, <2>8, <2>9, <2>10, <2>11 DEF SeedInv, Opened
  <1>6. CASE ~ (ReferencesUser \/ kind \in DOMAIN cash)
    <2>1. seed' = Stopped /\ UNCHANGED cash
      BY <1>1, <1>6
    <2>2. SeedTypeOK'
      BY <1>2, <1>3, <2>1 DEF SeedTypeOK
    <2>3. LaterRunsFindAccounts'
      BY <2>1 DEF LaterRunsFindAccounts
    <2> QED
      BY <1>2, <2>1, <2>2, <2>3, RunStep DEF At
  <1> QED
    BY <1>5, <1>6

(* The two steps about the fallback goal.                                  *)
LEMMA GoalStep ==
    ASSUME SeedInv, LookForGoal \/ SeedGoal
    PROVE  /\ SeedInv'
           /\ UNCHANGED <<demoUser, cash, cursor>>
           /\ finished # Stopped /\ finished.demo => UNCHANGED goals
  <1>1. /\ SeedTypeOK /\ Passed /\ RowsHang /\ LaterRunsFindAccounts /\ GoalsAreBacked
        /\ FinishedRunGivesDemoLogin /\ FreshIsFunded
    BY DEF SeedInv
  <1>2. CASE LookForGoal
    <2>1. /\ At("look") /\ seed' = [seed EXCEPT !.at = "goal", !.blocked = ActiveGoals # {}]
          /\ UNCHANGED <<runs, finished, adminRow, demoUser, cash, goals, cursor>>
      BY <1>2 DEF LookForGoal, database
    <2>2. seed' \in Run /\ seed'.at = "goal" /\ seed'.fresh = seed.fresh /\ seed # Stopped
      <3>1. (ActiveGoals # {}) \in BOOLEAN
        OBVIOUS
      <3> QED
        BY <1>1, <2>1, <3>1 DEF SeedTypeOK, At, Run
    <2>3. SeedTypeOK'
      BY <1>1, <2>1, <2>2 DEF SeedTypeOK
    <2>4. ActiveGoals' = ActiveGoals /\ \A g : Available(goals[g])' = Available(goals[g])
      BY <2>1 DEF ActiveGoals, Available
    <2>5. Passed'
      BY <1>1, <2>1, <2>2 DEF Passed, At, Opened
    <2>6. RowsHang'
      BY <1>1, <2>1, <2>4 DEF RowsHang
    <2>7. FreshIsFunded'
      BY <1>1, <2>1, <2>2, <2>4 DEF FreshIsFunded
    <2>8. LaterRunsFindAccounts'
      BY <1>1, <2>1, <2>2 DEF LaterRunsFindAccounts
    <2>9. GoalsAreBacked' /\ FinishedRunGivesDemoLogin'
      BY <1>1, <2>1, <2>4 DEF GoalsAreBacked, FinishedRunGivesDemoLogin, Opened
    <2> QED
      BY <2>1, <2>3, <2>5, <2>6, <2>7, <2>8, <2>9 DEF SeedInv
  <1>3. CASE SeedGoal
    <2>1. /\ At("goal") /\ seed' = Stopped /\ seed # Stopped
          /\ UNCHANGED <<runs, adminRow, demoUser, cash, cursor>>
          /\ finished' \in {finished, seed.settings}
      BY <1>3 DEF SeedGoal, Finish, At
    <2>2. demoUser = "seed" /\ Opened
      BY <1>1, <2>1 DEF Passed, RowsHang, Opened, DemoAccount
    <2>3. LaterRunsFindAccounts' /\ Passed' /\ FreshIsFunded'
      BY <2>1 DEF LaterRunsFindAccounts, Passed, FreshIsFunded, At
    <2>4. FinishedRunGivesDemoLogin'
      BY <2>1, <2>2 DEF FinishedRunGivesDemoLogin, Opened
    <2>5. /\ goals \in [DOMAIN goals -> Goal] /\ DOMAIN goals \subseteq GoalId
          /\ FallbackGoal \in Goal /\ finished' \in Settings \cup {Stopped}
      BY <1>1, <2>1 DEF SeedTypeOK, FallbackGoal, Goal, demoFallbackGoalAmount, At, Run
    <2>6. CASE goals' = goals
      <3>1. SeedTypeOK'
        BY <1>1, <2>1, <2>5, <2>6 DEF SeedTypeOK
      <3>2. ActiveGoals' = ActiveGoals /\ \A g : Available(goals[g])' = Available(goals[g])
        BY <2>6 DEF ActiveGoals, Available
      <3>3. RowsHang' /\ GoalsAreBacked'
        BY <1>1, <2>1, <2>6, <3>2 DEF RowsHang, GoalsAreBacked
      <3> QED
        BY <2>1, <2>3, <2>4, <2>6, <3>1, <3>3 DEF SeedInv
    <2>7. CASE goals' # goals
      <3>1. /\ FallbackAllowed /\ goals' = Insert(goals, "fallback", FallbackGoal)
            /\ ActiveGoals = {} \/ "fallback" \in DOMAIN goals
        BY <1>3, <2>7 DEF SeedGoal
      <3>2. "fallback" \notin DOMAIN goals /\ cash.kapook >= demoFallbackGoalAmount
        BY <1>1, <2>1, <3>1 DEF FreshIsFunded, FallbackAllowed
      <3>3. /\ DOMAIN goals' = DOMAIN goals \cup {"fallback"}
            /\ goals' \in [DOMAIN goals \cup {"fallback"} -> Goal]
            /\ \A x \in DOMAIN goals : goals'[x] = goals[x]
            /\ goals'["fallback"] = FallbackGoal
        <4> DEFINE new == Insert(goals, "fallback", FallbackGoal)
        <4>1. /\ DOMAIN new = DOMAIN goals \cup {"fallback"}
              /\ new \in [DOMAIN goals \cup {"fallback"} -> Goal]
              /\ \A x \in DOMAIN goals : new[x] = goals[x]
              /\ "fallback" \notin DOMAIN goals => new["fallback"] = FallbackGoal
          BY <2>5 DEF Insert
        <4> QED
          BY <3>1, <3>2, <4>1
      <3>4. SeedTypeOK'
        BY <1>1, <2>1, <2>5, <3>3 DEF SeedTypeOK, GoalId
      <3>5. ActiveGoals' = {"fallback"}
        <4>1. \A g \in DOMAIN goals : ~ goals[g].isActive
          BY <3>1, <3>2 DEF ActiveGoals
        <4>2. goals'["fallback"].isActive
          BY <3>3 DEF FallbackGoal
        <4> QED
          BY <3>3, <4>1, <4>2 DEF ActiveGoals
      <3>6. RowsHang'
        BY <1>1, <2>1, <2>2, <3>3, <3>5
        DEF RowsHang, FallbackGoal, Opened, DemoAccount, demoFallbackGoalAmount
      <3>7. GoalsAreBacked'
        BY <2>1, <2>2, <3>2, <3>3, <3>5
        DEF GoalsAreBacked, Available, FallbackGoal, demoFallbackGoalAmount, Opened, DemoAccount
      <3>8. ~ (finished # Stopped /\ finished.demo)
        BY <1>1, <2>1, <3>1 DEF LaterRunsFindAccounts, FallbackAllowed
      <3> QED
        BY <2>1, <2>3, <2>4, <3>4, <3>6, <3>7, <3>8 DEF SeedInv
    <2> QED
      BY <2>6, <2>7
  <1> QED
    BY <1>2, <1>3

(* Whoever moves money of the active goal leaves its row backed.           *)
LEMMA CustomerMoves ==
    ASSUME SeedInv, Opened, Elsewhere, UNCHANGED demoUser,
           NEW g \in ActiveGoals, NEW row \in Goal, row.bought =< row.saving,
           goals' = [goals EXCEPT ![g] = row],
           DOMAIN cash' = DemoAccount, cash' \in [DOMAIN cash' -> Nat],
           cash'.kapook - Available(row) = cash.kapook - Available(goals[g]),
           cursor' \in Nat \cup {NoCursor}
    PROVE  SeedInv'
  <1>1. /\ SeedTypeOK /\ Passed /\ RowsHang /\ LaterRunsFindAccounts /\ GoalsAreBacked
        /\ FinishedRunGivesDemoLogin /\ FreshIsFunded
    BY DEF SeedInv
  <1>2. UNCHANGED <<seed, runs, finished, adminRow>>
    BY DEF Elsewhere
  <1>3. /\ goals \in [DOMAIN goals -> Goal] /\ DOMAIN goals \subseteq GoalId
        /\ g \in DOMAIN goals /\ goals[g].isActive
        /\ cash.kapook \in Nat /\ cash'.kapook \in Nat
    BY <1>1 DEF SeedTypeOK, ActiveGoals, Opened, DemoAccount
  <1>4. /\ DOMAIN goals' = DOMAIN goals /\ goals' \in [DOMAIN goals' -> Goal]
        /\ goals'[g] = row /\ \A h \in DOMAIN goals \ {g} : goals'[h] = goals[h]
    BY <1>3
  <1>5. SeedTypeOK'
    BY <1>1, <1>2, <1>3, <1>4 DEF SeedTypeOK
  <1>6. ActiveGoals' \subseteq {g}
    <2>1. \A h \in DOMAIN goals \ {g} : ~ goals[h].isActive
      BY <1>1, <1>3 DEF RowsHang, ActiveGoals
    <2> QED
      BY <1>4, <2>1 DEF ActiveGoals
  <1>7. Passed' /\ LaterRunsFindAccounts' /\ FinishedRunGivesDemoLogin'
    BY <1>1, <1>2
    DEF Passed, LaterRunsFindAccounts, FinishedRunGivesDemoLogin, Opened, At, DemoAccount
  <1>8. RowsHang'
    <2>1. DOMAIN cash' = DOMAIN cash
      BY DEF Opened
    <2>2. \A h \in DOMAIN goals' : goals'[h].bought =< goals'[h].saving
      BY <1>1, <1>4 DEF RowsHang
    <2> QED
      BY <1>1, <1>4, <1>6, <2>1, <2>2 DEF RowsHang
  <1>9. /\ Available(row) \in Int /\ Available(goals[g]) \in Int /\ Available(row) >= 0
        /\ Available(goals'[g]) = Available(row)
    BY <1>3, <1>4 DEF Available, Goal
  <1>10. GoalsAreBacked'
    <2>1. Available(goals[g]) =< cash.kapook
      BY <1>1 DEF GoalsAreBacked
    <2>2. Available(row) =< cash'.kapook
      BY <1>3, <1>9, <2>1
    <2>3. \A h \in ActiveGoals' : Available(goals[h])' =< cash'.kapook
      BY <1>6, <1>9, <2>2 DEF Available
    <2> QED
      BY <2>3 DEF GoalsAreBacked, DemoAccount
  <1>11. FreshIsFunded'
    <2> SUFFICES ASSUME At("look") \/ At("goal"), seed.fresh
                 PROVE  /\ "fallback" \notin DOMAIN goals
                        /\ cash'.kapook >= demoFallbackGoalAmount
                        /\ \A h \in ActiveGoals' :
                              Available(goals[h])' + demoFallbackGoalAmount =< cash'.kapook
      BY <1>2, <1>4 DEF FreshIsFunded, At
    <2>1. /\ "fallback" \notin DOMAIN goals
          /\ Available(goals[g]) + demoFallbackGoalAmount =< cash.kapook
      BY <1>1 DEF FreshIsFunded
    <2>2. Available(row) + demoFallbackGoalAmount =< cash'.kapook
      BY <1>3, <1>9, <2>1 DEF demoFallbackGoalAmount
    <2>3. \A h \in ActiveGoals' :
             Available(goals[h])' + demoFallbackGoalAmount =< cash'.kapook
      BY <1>6, <1>9, <2>2 DEF Available
    <2> QED
      BY <1>3, <1>9, <2>1, <2>2, <2>3 DEF demoFallbackGoalAmount
  <1> QED
    BY <1>1, <1>5, <1>7, <1>8, <1>10, <1>11 DEF SeedInv

(* Customers and the worker, beside the program, keep it.                  *)
LEMMA CustomerStep ==
    ASSUME SeedInv, Meanwhile
    PROVE  SeedInv'
  <1>1. /\ SeedTypeOK /\ Passed /\ RowsHang /\ LaterRunsFindAccounts /\ GoalsAreBacked
        /\ FinishedRunGivesDemoLogin /\ FreshIsFunded
    BY DEF SeedInv
  <1>2. /\ goals \in [DOMAIN goals -> Goal] /\ DOMAIN goals \subseteq GoalId
        /\ cash \in [DOMAIN cash -> Nat]
    BY <1>1 DEF SeedTypeOK
  <1>3. CASE RegisterDemo
    <2>1. /\ demoUser = "nobody" /\ demoUser' = "somebody"
          /\ UNCHANGED <<seed, runs, finished, adminRow, cash, goals, cursor>>
      BY <1>3 DEF RegisterDemo, Elsewhere
    <2>2. DOMAIN cash = {} /\ DOMAIN goals = {}
      BY <1>1, <2>1 DEF RowsHang
    <2>3. ActiveGoals = {} /\ ActiveGoals' = {}
      BY <2>1, <2>2 DEF ActiveGoals
    <2>4. SeedTypeOK'
      BY <1>1, <2>1 DEF SeedTypeOK
    <2>5. Passed' /\ LaterRunsFindAccounts' /\ FinishedRunGivesDemoLogin'
      BY <1>1, <2>1, <2>2
      DEF Passed, LaterRunsFindAccounts, FinishedRunGivesDemoLogin, Opened, At, DemoAccount
    <2>6. RowsHang' /\ GoalsAreBacked'
      BY <1>1, <2>1, <2>2, <2>3 DEF RowsHang, GoalsAreBacked
    <2>7. FreshIsFunded'
      BY <1>1, <2>1, <2>2, <2>3 DEF FreshIsFunded, Passed, Opened, DemoAccount, At
    <2> QED
      BY <2>4, <2>5, <2>6, <2>7 DEF SeedInv
  <1>4. CASE CreateGoal
    <2> DEFINE row == [goalAmount |-> OwnGoalAmount, saving |-> 0, bought |-> 0,
                       isActive |-> TRUE, reached |-> FALSE]
    <2>1. /\ Opened /\ ActiveGoals = {} /\ "own" \notin DOMAIN goals
          /\ goals' = Insert(goals, "own", row)
          /\ UNCHANGED <<seed, runs, finished, adminRow, demoUser, cash, cursor>>
      BY <1>4 DEF CreateGoal, Elsewhere
    <2>2. row \in Goal /\ row.isActive /\ row.saving = 0 /\ row.bought = 0
      BY SeedAssumption DEF Goal
    <2> HIDE DEF row
    <2>3. /\ DOMAIN goals' = DOMAIN goals \cup {"own"}
          /\ goals' \in [DOMAIN goals' -> Goal] /\ goals'["own"] = row
          /\ \A h \in DOMAIN goals : goals'[h] = goals[h]
      BY <1>2, <2>1, <2>2 DEF Insert
    <2>4. ActiveGoals' = {"own"}
      <3>1. \A h \in DOMAIN goals : ~ goals[h].isActive
        BY <2>1 DEF ActiveGoals
      <3> QED
        BY <2>2, <2>3, <3>1 DEF ActiveGoals
    <2>5. cash.kapook \in Nat /\ "kapook" \in DOMAIN cash /\ Available(goals'["own"]) = 0
      BY <1>2, <2>1, <2>2, <2>3 DEF Opened, DemoAccount, Available
    <2>6. SeedTypeOK'
      BY <1>1, <1>2, <2>1, <2>3 DEF SeedTypeOK, GoalId
    <2>7. Passed' /\ LaterRunsFindAccounts' /\ FinishedRunGivesDemoLogin'
      BY <1>1, <2>1 DEF Passed, LaterRunsFindAccounts, FinishedRunGivesDemoLogin, Opened, At
    <2>8. RowsHang'
      BY <1>1, <2>1, <2>2, <2>3, <2>4, <2>5 DEF RowsHang
    <2>9. GoalsAreBacked'
      BY <2>1, <2>4, <2>5 DEF GoalsAreBacked, Available
    <2>10. FreshIsFunded'
      BY <1>1, <2>1, <2>3, <2>4, <2>5 DEF FreshIsFunded, Available, At, demoFallbackGoalAmount
    <2> QED
      BY <2>6, <2>7, <2>8, <2>9, <2>10 DEF SeedInv
  <1>5. ASSUME NEW g \in ActiveGoals, Opened
        PROVE  /\ g \in DOMAIN goals /\ goals[g] \in Goal
               /\ goals[g].saving \in Nat /\ goals[g].bought \in Nat
               /\ goals[g].bought =< goals[g].saving
               /\ Available(goals[g]) \in Nat
               /\ cash \in [DemoAccount -> Nat]
    <2>1. g \in DOMAIN goals
      BY DEF ActiveGoals
    <2>2. goals[g] \in Goal
      BY <1>2, <2>1
    <2>3. goals[g].bought =< goals[g].saving
      BY <1>1, <2>1 DEF RowsHang
    <2> QED
      BY <1>2, <1>5, <2>1, <2>2, <2>3 DEF Goal, Available, Opened
  <1>6. CASE Deposit
    <2>1. PICK g \in ActiveGoals :
            /\ Opened /\ SufficientFunds("savings", 1)
            /\ cash' = [cash EXCEPT !.savings = cash.savings - 1, !.kapook = cash.kapook + 1]
            /\ goals' = [goals EXCEPT ![g].saving = goals[g].saving + 1,
                                      ![g].reached = goals[g].saving + 1 = goals[g].goalAmount]
            /\ Elsewhere /\ UNCHANGED <<demoUser, cursor>>
      BY <1>6 DEF Deposit
    <2> DEFINE row == [goals[g] EXCEPT !.saving = goals[g].saving + 1,
                          !.reached = goals[g].saving + 1 = goals[g].goalAmount]
    <2>2. row \in Goal /\ row.saving = goals[g].saving + 1 /\ row.bought = goals[g].bought
      <3>1. goals[g] \in Goal /\ goals[g].saving + 1 \in Nat
            /\ (goals[g].saving + 1 = goals[g].goalAmount) \in BOOLEAN
        BY <1>5, <2>1
      <3> QED
        BY <3>1 DEF Goal
    <2>3. goals' = [goals EXCEPT ![g] = row]
      BY <1>2, <1>5, <2>1
    <2> HIDE DEF row
    <2>4. /\ DOMAIN cash' = DemoAccount /\ cash' \in [DOMAIN cash' -> Nat]
          /\ cash'.kapook = cash.kapook + 1 /\ cash.kapook \in Nat
      BY <1>1, <2>1, CashMoves, 1 \in Nat DEF SufficientFunds, DemoAccount
    <2>5. row.bought =< row.saving
          /\ cash'.kapook - Available(row) = cash.kapook - Available(goals[g])
      BY <1>5, <2>1, <2>2, <2>4 DEF Available
    <2>6. cursor' \in Nat \cup {NoCursor} /\ UNCHANGED demoUser
      BY <1>1, <2>1 DEF SeedTypeOK
    <2> QED
      BY <2>1, <2>2, <2>3, <2>4, <2>5, <2>6, CustomerMoves
  <1>7. CASE Withdraw
    <2>1. PICK g \in ActiveGoals :
            /\ Opened /\ SufficientFunds("kapook", Available(goals[g]))
            /\ cash' = [cash EXCEPT !.savings = cash.savings + Available(goals[g]),
                                    !.kapook = cash.kapook - Available(goals[g])]
            /\ goals' = [goals EXCEPT ![g].saving = goals[g].bought,
                                      ![g].isActive = ~ goals[g].reached]
            /\ Elsewhere /\ UNCHANGED <<demoUser, cursor>>
      BY <1>7 DEF Withdraw
    <2> DEFINE row == [goals[g] EXCEPT !.saving = goals[g].bought,
                                       !.isActive = ~ goals[g].reached]
    <2>2. row \in Goal /\ row.saving = goals[g].bought /\ row.bought = goals[g].bought
      <3>1. goals[g] \in Goal /\ goals[g].bought \in Nat /\ (~ goals[g].reached) \in BOOLEAN
        BY <1>5, <2>1
      <3> QED
        BY <3>1 DEF Goal
    <2>3. goals' = [goals EXCEPT ![g] = row]
      BY <1>2, <1>5, <2>1
    <2> HIDE DEF row
    <2>4. Available(goals[g]) \in Nat /\ Available(goals[g]) =< cash.kapook
      BY <1>5, <2>1, <1>2 DEF SufficientFunds, DemoAccount
    <2>5. /\ DOMAIN cash' = DemoAccount /\ cash' \in [DOMAIN cash' -> Nat]
          /\ cash'.kapook = cash.kapook - Available(goals[g]) /\ cash.kapook \in Nat
      BY <1>1, <2>1, <2>4, CashMoves DEF DemoAccount
    <2>6. row.bought =< row.saving /\ Available(row) = 0
      BY <1>5, <2>1, <2>2 DEF Available
    <2>7. cash'.kapook - Available(row) = cash.kapook - Available(goals[g])
      BY <2>4, <2>5, <2>6
    <2>8. cursor' \in Nat \cup {NoCursor} /\ UNCHANGED demoUser
      BY <1>1, <2>1 DEF SeedTypeOK
    <2> QED
      BY <2>1, <2>2, <2>3, <2>5, <2>6, <2>7, <2>8, CustomerMoves
  <1>8. CASE AutoPurchase
    <2>1. PICK g \in ActiveGoals :
            /\ Opened /\ cursor # NoCursor /\ SufficientFunds("kapook", Available(goals[g]))
            /\ cash' = [cash EXCEPT !.salak = cash.salak + Available(goals[g]),
                                    !.kapook = cash.kapook - Available(goals[g])]
            /\ goals' = [goals EXCEPT ![g].bought = goals[g].saving, ![g].isActive = FALSE]
            /\ cursor' = cursor + Available(goals[g])
            /\ Elsewhere /\ UNCHANGED demoUser
      BY <1>8 DEF AutoPurchase
    <2> DEFINE row == [goals[g] EXCEPT !.bought = goals[g].saving, !.isActive = FALSE]
    <2>2. row \in Goal /\ row.saving = goals[g].saving /\ row.bought = goals[g].saving
      <3>1. goals[g] \in Goal /\ goals[g].saving \in Nat
        BY <1>5, <2>1
      <3> QED
        BY <3>1 DEF Goal
    <2>3. goals' = [goals EXCEPT ![g] = row]
      BY <1>2, <1>5, <2>1
    <2> HIDE DEF row
    <2>4. Available(goals[g]) \in Nat /\ Available(goals[g]) =< cash.kapook
      BY <1>5, <2>1, <1>2 DEF SufficientFunds, DemoAccount
    <2>5. /\ DOMAIN cash' = DemoAccount /\ cash' \in [DOMAIN cash' -> Nat]
          /\ cash'.kapook = cash.kapook - Available(goals[g]) /\ cash.kapook \in Nat
      BY <1>1, <2>1, <2>4, CashMoves DEF DemoAccount
    <2>6. row.bought =< row.saving /\ Available(row) = 0
      BY <1>5, <2>1, <2>2 DEF Available
    <2>7. cash'.kapook - Available(row) = cash.kapook - Available(goals[g])
      BY <2>4, <2>5, <2>6
    <2>8. cursor' \in Nat \cup {NoCursor}
      BY <1>1, <2>1, <2>4 DEF SeedTypeOK
    <2> QED
      BY <2>1, <2>2, <2>3, <2>5, <2>6, <2>7, <2>8, CustomerMoves
  <1> QED
    BY <1>3, <1>4, <1>6, <1>7, <1>8 DEF Meanwhile

(* So it is inductive ...                                                  *)
LEMMA SeedNextInv == SeedInv /\ [SeedNext]_seedVars => SeedInv'
  <1> SUFFICES ASSUME SeedInv, [SeedNext]_seedVars PROVE SeedInv'
    OBVIOUS
  <1>1. CASE UNCHANGED seedVars
    <2>1. UNCHANGED <<seed, runs, finished, adminRow, demoUser, cash, goals, cursor>>
      BY <1>1 DEF seedVars, database
    <2>2. ActiveGoals' = ActiveGoals /\ \A g : Available(goals[g])' = Available(goals[g])
      BY <2>1 DEF ActiveGoals, Available
    <2> QED
      BY <2>1, <2>2 DEF SeedInv, SeedTypeOK, Passed, RowsHang, FreshIsFunded, At, Opened,
         LaterRunsFindAccounts, GoalsAreBacked, FinishedRunGivesDemoLogin
  <1> QED
    BY <1>1, ProgramStartsOrEnds, AccountStep, GoalStep, CustomerStep
    DEF SeedNext, SeedStep, seedVars

(* ... and holds always.                                                   *)
LEMMA SeedInvariance == SeedSpec => []SeedInv
  BY SeedInitInv, SeedNextInv, PTL DEF SeedSpec

(* Rows, run and settings stay well typed, however often the program dies. *)
THEOREM SeedTyping == SeedSpec => []SeedTypeOK
  <1>1. SeedInv => SeedTypeOK
    BY DEF SeedInv
  <1> QED
    BY SeedInvariance, <1>1, PTL

(* No run of the program, finished or not, makes a goal that its kapook    *)
(* account cannot pay for.                                                 *)
THEOREM SeededGoalsAreBacked == SeedSpec => []GoalsAreBacked
  <1>1. SeedInv => GoalsAreBacked
    BY DEF SeedInv
  <1> QED
    BY SeedInvariance, <1>1, PTL

(* A run with the demo data that reached its end left the demo login.      *)
THEOREM SeedGivesDemoLogin == SeedSpec => []FinishedRunGivesDemoLogin
  <1>1. SeedInv => FinishedRunGivesDemoLogin
    BY DEF SeedInv
  <1> QED
    BY SeedInvariance, <1>1, PTL

(* Any number of runs after a finished one leave the demo data alone, and  *)
(* none moves a ticket cursor back.                                        *)
THEOREM SeedingIsIdempotent == SeedSpec => RerunChangesNothing
  <1> DEFINE kept == /\ cursor' >= cursor
                     /\ finished # Stopped /\ finished.demo =>
                           UNCHANGED <<demoUser, cash, goals>>
  <1>1. ASSUME SeedInv, SeedStep PROVE kept
    <2>1. cursor \in Int /\ (finished # Stopped /\ finished.demo => demoUser = "seed" /\ Opened)
      BY <1>1 DEF SeedInv, SeedTypeOK, NoCursor, FinishedRunGivesDemoLogin
    <2>2. CASE SeedProducts
      BY <1>1, <2>1, <2>2 DEF SeedProducts, Provisioned, NoCursor, SeedInv, SeedTypeOK
    <2>3. CASE SeedAdmin
      BY <2>1, <2>3 DEF SeedAdmin
    <2>4. CASE SeedUser
      BY <2>1, <2>4 DEF SeedUser
    <2>5. CASE SeedAccount
      <3>1. UNCHANGED <<demoUser, goals, cursor>>
        BY <2>5 DEF SeedAccount
      <3>2. Opened => UNCHANGED cash
        BY <1>1, <2>5, AccountStep
      <3> QED
        BY <2>1, <3>1, <3>2
    <2>6. CASE LookForGoal \/ SeedGoal
      BY <1>1, <2>1, <2>6, GoalStep
    <2> QED
      BY <1>1, <2>2, <2>3, <2>4, <2>5, <2>6 DEF SeedStep
  <1>2. SeedInv /\ [SeedNext]_seedVars => [SeedStep => kept]_seedVars
    BY <1>1
  <1> QED
    BY SeedInvariance, <1>2, PTL DEF SeedSpec, RerunChangesNothing
=============================================================================
