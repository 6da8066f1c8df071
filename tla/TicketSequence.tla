--------------------------- MODULE TicketSequence ---------------------------
(***************************************************************************)
(* Ticket numbers of the salak holdings.  Every product has one cursor row *)
(* (letter, number); a purchase reserves a contiguous range of numbers     *)
(* under a lock on that row, inside a transaction that may still fail.  A  *)
(* range never crosses a letter: when the letter's block has no room left  *)
(* the whole range moves to the next letter.                               *)
(*                                                                         *)
(* A customer's transaction makes one purchase.  A pass of the worker      *)
(* makes one for each claimed goal, each behind a savepoint of its own, so *)
(* the pass reads cursor rows it has written itself, and a purchase can be *)
(* undone while earlier ones of the pass stand.                            *)
(*                                                                         *)
(* Letters are code points; the two vowels among the Thai consonants are   *)
(* not ticket letters.  The exclusion constraint on overlapping ranges is  *)
(* not a guard here: NoOverlap says the lock alone keeps them apart.  The  *)
(* two CHECK constraints a reservation can run into are guards, and the    *)
(* purchase that fails one can only be undone.                             *)
(***************************************************************************)
EXTENDS Integers, FiniteSets

CONSTANTS
    Product,
    Tx,                 \* database transactions buying salak
    Pass,               \* those of them that are passes of the worker
    NoTx, NoRequest,
    HoldingId,          \* bound: rows of salak.holdings at any one time
    firstLetter, lastLetter, Vowel,   \* ticketLetters
    ticketsPerLetter,   \* numbers in a letter's block
    PurchaseUnits       \* sizes of the purchases, in units

ASSUME LetterAssumption ==
    /\ firstLetter \in Nat /\ lastLetter \in Nat
    /\ Vowel \subseteq Nat
    /\ firstLetter \in (firstLetter..lastLetter) \ Vowel
ASSUME CapacityAssumption == /\ ticketsPerLetter \in Nat \ {0}
                             /\ PurchaseUnits \subseteq Int
ASSUME TxAssumption == NoTx \notin Tx \cup HoldingId /\ Pass \subseteq Tx

ticketLetters == (firstLetter..lastLetter) \ Vowel

VARIABLES
    sequence,   \* committed cursor row of each product
    written,    \* newest version of that row, committed or not
    rowLock,    \* transaction that holds the lock on the cursor row
    request,    \* the purchase each transaction is at, since its savepoint
    holdings    \* ticket ranges, by holding id, and who still may undo them

vars == <<sequence, written, rowLock, request, holdings>>

Cursor == [letter : ticketLetters, number : Nat]

Request == [pc : {"locked", "reserved", "minted"}, product : Product,
            units : Nat \ {0},
            read : Cursor,       \* the cursor as this purchase found it
            fresh : BOOLEAN,     \* this purchase took the lock
            letter : ticketLetters, start : Nat, end : Nat,
            holding : HoldingId \cup {NoTx}]

ASSUME RequestAssumption == NoRequest \notin Request

Holding == [product : Product, letter : ticketLetters, start : Nat, end : Nat,
            by : Tx \cup {NoTx}]   \* uncommitted row of a transaction

NoHolding == [x \in {} |-> NoTx]

TypeOK ==
    /\ sequence \in [Product -> Cursor]
    /\ written \in [Product -> Cursor]
    /\ rowLock \in [Product -> Tx \cup {NoTx}]
    /\ request \in [Tx -> Request \cup {NoRequest}]
    /\ DOMAIN holdings \subseteq HoldingId
    /\ holdings \in [DOMAIN holdings -> Holding]

(***************************************************************************)
(* Faults that the runs must notice.  Each replaces the definition below   *)
(* whose name it starts with.                                              *)
(***************************************************************************)
IsNextLetter_PlusOne(letter, next) ==           \* a vowel ends the letters
    next \in ticketLetters /\ next = letter + 1

IsNextLetter_Any(letter, next) == next \in ticketLetters /\ next > letter

Lockable_Always(t, p) == TRUE                   \* SELECT without FOR UPDATE

AfterUndo_Kept(row, read) == row                \* the undone cursor stays

(***************************************************************************)
(* Where a reservation starts.                                             *)
(***************************************************************************)
IsNextLetter(letter, next) ==
    /\ next \in ticketLetters
    /\ next > letter
    /\ \A other \in ticketLetters : other > letter => next <= other

Fits(r) == r.units <= ticketsPerLetter - r.read.number

StartsAt(r, letter, start) ==
    \/ Fits(r) /\ letter = r.read.letter /\ start = r.read.number
    \/ ~ Fits(r) /\ IsNextLetter(r.read.letter, letter) /\ start = 0

(* CHECK (next_ticket_number BETWEEN 0 AND 9999999)                        *)
CursorCheck(number) == number \in 0..(ticketsPerLetter - 1)

(* The ranges the purchase r can reserve.                                  *)
Reserves(r, letter, start) ==
    /\ StartsAt(r, letter, start)
    /\ CursorCheck(start + r.units)

(* CHECK (ticket_end > ticket_start)                                       *)
RangeCheck(start, end) == end > start

Mine(t) == {h \in DOMAIN holdings : holdings[h].by = t}

LockedBy(t) == {p \in Product : rowLock[p] = t}

-----------------------------------------------------------------------------
Init ==
    /\ sequence = [p \in Product |-> [letter |-> firstLetter, number |-> 0]]
    /\ written = sequence
    /\ rowLock = [p \in Product |-> NoTx]
    /\ request = [t \in Tx |-> NoRequest]
    /\ holdings = NoHolding

Lockable(t, p) == rowLock[p] \in {NoTx, t}

(* SELECT ... FOR UPDATE on the cursor row: waits for its lock, then reads *)
(* what is committed by then, or what the transaction wrote there itself.  *)
LockSequence(t, p, n) ==
    /\ request[t] = NoRequest
    /\ t \in Pass \/ LockedBy(t) = {}
    /\ n > 0
    /\ n <= ticketsPerLetter
    /\ Lockable(t, p)
    /\ rowLock' = [rowLock EXCEPT ![p] = t]
    /\ LET read == IF rowLock[p] = t THEN written[p] ELSE sequence[p]
       IN  request' = [request EXCEPT ![t] =
                         [pc |-> "locked", product |-> p, units |-> n,
                          read |-> read, fresh |-> rowLock[p] # t,
                          letter |-> read.letter, start |-> 0, end |-> 0,
                          holding |-> NoTx]]
    /\ UNCHANGED <<sequence, written, holdings>>

AdvanceSequence(t) ==
    LET r == request[t]
    IN  /\ r # NoRequest
        /\ r.pc = "locked"
        /\ \E letter \in firstLetter..lastLetter, start \in {0, r.read.number} :
              LET end == start + r.units - 1
              IN  /\ Reserves(r, letter, start)
                  /\ written' = [written EXCEPT ![r.product] =
                                   [letter |-> letter, number |-> end + 1]]
                  /\ request' = [request EXCEPT ![t] =
                                   [r EXCEPT !.pc = "reserved", !.letter = letter,
                                             !.start = start, !.end = end]]
        /\ UNCHANGED <<sequence, rowLock, holdings>>

(* INSERT of the holding.                                                  *)
MintHolding(t, h) ==
    LET r == request[t]
    IN  /\ r # NoRequest
        /\ r.pc = "reserved"
        /\ h \notin DOMAIN holdings
        /\ RangeCheck(r.start, r.end)
        /\ holdings' = [x \in DOMAIN holdings \cup {h} |->
                          IF x = h
                          THEN [product |-> r.product, letter |-> r.letter,
                                start |-> r.start, end |-> r.end, by |-> t]
                          ELSE holdings[x]]
        /\ request' = [request EXCEPT ![t] =
                         [r EXCEPT !.pc = "minted", !.holding = h]]
        /\ UNCHANGED <<sequence, written, rowLock>>

(* The purchase is through; its savepoint, if it has one, is released.     *)
FinishPurchase(t) ==
    /\ request[t] # NoRequest
    /\ request[t].pc = "minted"
    /\ request' = [request EXCEPT ![t] = NoRequest]
    /\ UNCHANGED <<sequence, written, rowLock, holdings>>

AfterUndo(row, read) == read

(* ROLLBACK TO SAVEPOINT: an error of this purchase undoes it alone.  Row  *)
(* locks taken since the savepoint go with it.                             *)
UndoPurchase(t) ==
    LET r == request[t]
        p == r.product
    IN  /\ r # NoRequest
        /\ written' = [written EXCEPT ![p] = AfterUndo(written[p], r.read)]
        /\ rowLock' = [rowLock EXCEPT ![p] = IF r.fresh THEN NoTx ELSE t]
        /\ holdings' = [h \in DOMAIN holdings \ {r.holding} |-> holdings[h]]
        /\ request' = [request EXCEPT ![t] = NoRequest]
        /\ UNCHANGED sequence

Commit(t) ==
    /\ request[t] = NoRequest
    /\ LockedBy(t) # {}
    /\ sequence' = [p \in Product |-> IF p \in LockedBy(t) THEN written[p]
                                                           ELSE sequence[p]]
    /\ rowLock' = [p \in Product |-> IF p \in LockedBy(t) THEN NoTx ELSE rowLock[p]]
    /\ holdings' = [h \in DOMAIN holdings |->
                      IF h \in Mine(t) THEN [holdings[h] EXCEPT !.by = NoTx]
                                       ELSE holdings[h]]
    /\ UNCHANGED <<written, request>>

(* An error outside a savepoint, a deadlock victim, or a process that      *)
(* dies: nothing of the transaction remains.                               *)
Rollback(t) ==
    /\ LockedBy(t) # {}
    /\ written' = [p \in Product |-> IF p \in LockedBy(t) THEN sequence[p]
                                                          ELSE written[p]]
    /\ rowLock' = [p \in Product |-> IF p \in LockedBy(t) THEN NoTx ELSE rowLock[p]]
    /\ holdings' = [h \in DOMAIN holdings \ Mine(t) |-> holdings[h]]
    /\ request' = [request EXCEPT ![t] = NoRequest]
    /\ UNCHANGED sequence

Next ==
    \E t \in Tx :
        \/ \E p \in Product, n \in PurchaseUnits : LockSequence(t, p, n)
        \/ AdvanceSequence(t)
        \/ \E h \in HoldingId : MintHolding(t, h)
        \/ FinishPurchase(t)
        \/ UndoPurchase(t)
        \/ Commit(t)
        \/ Rollback(t)

Spec == Init /\ [][Next]_vars

-----------------------------------------------------------------------------
(* No ticket is issued twice: ranges of one product and letter are         *)
(* disjoint, committed or not, whatever the order in which purchases lock, *)
(* fail and commit.                                                        *)
NoOverlap ==
    \A h, k \in DOMAIN holdings :
        /\ h # k
        /\ holdings[h].product = holdings[k].product
        /\ holdings[h].letter = holdings[k].letter
        => holdings[h].end < holdings[k].start \/ holdings[k].end < holdings[h].start

(* A purchase that fails leaves no hole: within a letter the tickets are   *)
(* issued from 0 on without a gap, up to the committed cursor.             *)
NoHole ==
    /\ \A h \in DOMAIN holdings :
          holdings[h].start > 0 =>
             \E k \in DOMAIN holdings :
                /\ holdings[k].by \in {NoTx, holdings[h].by}
                /\ holdings[k].product = holdings[h].product
                /\ holdings[k].letter = holdings[h].letter
                /\ holdings[k].end = holdings[h].start - 1
    /\ \A p \in Product :
          sequence[p].number > 0 =>
             \E k \in DOMAIN holdings :
                /\ holdings[k].by = NoTx
                /\ holdings[k].product = p
                /\ holdings[k].letter = sequence[p].letter
                /\ holdings[k].end = sequence[p].number - 1

(* A letter is left only for the next one, and only by a purchase its      *)
(* block had no room for.                                                  *)
LettersInOrder ==
    \A h \in DOMAIN holdings :
        LET r == holdings[h]
        IN  r.start = 0 /\ r.letter # firstLetter =>
              \E k \in DOMAIN holdings :
                 LET last == holdings[k]
                 IN  /\ last.product = r.product
                     /\ last.letter < r.letter
                     /\ \A other \in ticketLetters :
                           ~ (last.letter < other /\ other < r.letter)
                     /\ last.end + 1 + (r.end + 1) > ticketsPerLetter

(* The committed cursor of a product never moves back, in letters or in    *)
(* numbers.                                                                *)
CursorAdvances ==
    [][\A p \in Product :
          \/ sequence'[p] = sequence[p]
          \/ sequence'[p].letter > sequence[p].letter
          \/ /\ sequence'[p].letter = sequence[p].letter
             /\ sequence'[p].number > sequence[p].number]_vars

(* salak/ports.go, ReserveTicketRange: a reservation fits its letter or    *)
(* moves to the next one.  While there is a next letter it is refused      *)
(* exactly if it uses up a letter to its last number, which leaves a       *)
(* cursor its CHECK rejects.                                               *)
OnlyExactFillFails ==
    \A t \in Tx :
        LET r == request[t]
        IN  /\ r # NoRequest
            /\ r.pc = "locked"
            /\ \E next \in ticketLetters : next > r.read.letter
            => ((\E letter \in firstLetter..lastLetter, start \in {0, r.read.number} :
                    Reserves(r, letter, start))
                <=> r.units \notin {ticketsPerLetter - r.read.number, ticketsPerLetter})
=============================================================================
