------------------------ MODULE TicketSequenceProofs ------------------------
(***************************************************************************)
(* TicketSequence keeps its types, issues no ticket twice, leaves no hole, *)
(* takes the letters in order, refuses only what uses up a letter exactly  *)
(* and never moves a cursor back, for every number of products,            *)
(* transactions and letters.                                               *)
(***************************************************************************)
EXTENDS TicketSequence, WellFoundedInduction, TLAPS

(* A row's range ends before a cursor; one cursor is not after another.    *)
Before(row, c) ==
    \/ row.letter < c.letter
    \/ row.letter = c.letter /\ row.end < c.number

NotAfter(c, d) ==
    \/ c.letter < d.letter
    \/ c.letter = d.letter /\ c.number <= d.number

(* Only the holder of the lock changes a cursor row, is at a purchase of   *)
(* the product, or has uncommitted rows of it.                             *)
LockInv ==
    /\ \A p \in Product : rowLock[p] = NoTx => written[p] = sequence[p]
    /\ \A p \in Product : NotAfter(sequence[p], written[p])
    /\ \A t \in Tx : request[t] # NoRequest => rowLock[request[t].product] = t
    /\ \A h \in DOMAIN holdings :
          holdings[h].by # NoTx => rowLock[holdings[h].product] = holdings[h].by

(* Every range lies before the newest cursor of its product, and every     *)
(* committed range before the committed one.                               *)
RowInv ==
    \A h \in DOMAIN holdings :
        /\ Before(holdings[h], written[holdings[h].product])
        /\ holdings[h].by = NoTx => Before(holdings[h], sequence[holdings[h].product])

(* A purchase starts from the cursor it read, which is still what is left  *)
(* when the purchase is undone.                                            *)
PurchaseOK(t) ==
    LET r == request[t]
        p == r.product
    IN  /\ r.pc = "locked" => written[p] = r.read
        /\ r.pc # "locked" =>
              /\ written[p] = [letter |-> r.letter, number |-> r.end + 1]
              /\ \/ r.read.letter < r.letter
                 \/ r.read.letter = r.letter /\ r.start = r.read.number
        /\ r.pc # "minted" => r.holding = NoTx
        /\ NotAfter(sequence[p], r.read)
        /\ r.fresh => r.read = sequence[p]
        /\ \A h \in DOMAIN holdings :
              holdings[h].product = p /\ h # r.holding =>
                 /\ Before(holdings[h], r.read)
                 /\ r.fresh => holdings[h].by = NoTx

PurchaseInv == \A t \in Tx : request[t] # NoRequest => PurchaseOK(t)

IInv == TypeOK /\ LockInv /\ RowInv /\ PurchaseInv /\ NoOverlap

CursorStep ==
    \A p \in Product :
        \/ sequence'[p] = sequence[p]
        \/ sequence'[p].letter > sequence[p].letter
        \/ /\ sequence'[p].letter = sequence[p].letter
           /\ sequence'[p].number > sequence[p].number

(* Letters and numbers are integers, so cursors are ordered.               *)
LEMMA CursorType ==
    ASSUME NEW c \in Cursor
    PROVE  c.letter \in Int /\ c.letter \in ticketLetters /\ c.number \in Nat
BY LetterAssumption DEF Cursor, ticketLetters

(* The fields of the request of a purchase that is under way.              *)
LEMMA RequestType ==
    ASSUME TypeOK, NEW t \in Tx, request[t] # NoRequest
    PROVE  LET r == request[t]
           IN  /\ r \in Request /\ r.product \in Product
               /\ r.read \in Cursor /\ r.units \in Nat \ {0}
               /\ r.start \in Nat /\ r.end \in Nat
               /\ r.letter \in ticketLetters /\ r.letter \in Int
               /\ r.pc \in {"locked", "reserved", "minted"}
               /\ r.fresh \in BOOLEAN
<1>1. request[t] \in Request BY DEF TypeOK
<1> QED BY <1>1, LetterAssumption DEF Request, ticketLetters

(* Taking the lock and reading the cursor.                                 *)
LEMMA LockStep ==
    ASSUME IInv, NEW t \in Tx, NEW p \in Product, NEW n \in PurchaseUnits,
           LockSequence(t, p, n)
    PROVE  IInv'
<1> USE DEF IInv
<1> DEFINE read == IF rowLock[p] = t THEN written[p] ELSE sequence[p]
           fresh == rowLock[p] # t
           r == [pc |-> "locked", product |-> p, units |-> n, read |-> read,
                 fresh |-> fresh, letter |-> read.letter, start |-> 0,
                 end |-> 0, holding |-> NoTx]
<1>1. /\ request' = [request EXCEPT ![t] = r]
      /\ rowLock' = [rowLock EXCEPT ![p] = t]
      /\ rowLock[p] \in {NoTx, t}
      /\ sequence' = sequence /\ written' = written /\ holdings' = holdings
      /\ request[t] = NoRequest
      /\ n \in Nat \ {0}
  BY CapacityAssumption DEF LockSequence, Lockable
<1>2. read \in Cursor /\ fresh \in BOOLEAN BY DEF TypeOK
<1>3. /\ written[p] = read /\ NotAfter(sequence[p], read)
      /\ fresh => read = sequence[p] /\ rowLock[p] = NoTx
  BY <1>1 DEF LockInv
<1> HIDE DEF read, fresh
<1>4. /\ r \in Request /\ r.pc = "locked" /\ r.product = p /\ r.read = read
      /\ r.fresh = fresh /\ r.holding = NoTx
  BY <1>1, <1>2, CursorType DEF Request
<1> HIDE DEF r
<1>5. TypeOK' BY <1>1, <1>4 DEF TypeOK
<1>6. request'[t] = r /\ \A q \in Tx \ {t} : request'[q] = request[q]
  BY <1>1 DEF TypeOK
<1>7. rowLock'[p] = t /\ \A q \in Product \ {p} : rowLock'[q] = rowLock[q]
  BY <1>1 DEF TypeOK
<1>8. LockInv'
  <2>1. \A q \in Product : rowLock'[q] = NoTx => written'[q] = sequence'[q]
    BY <1>1, <1>7, TxAssumption DEF LockInv
  <2>2. \A q \in Product : NotAfter(sequence'[q], written'[q])
    BY <1>1 DEF LockInv
  <2>3. \A q \in Tx : request'[q] # NoRequest => rowLock'[request'[q].product] = q
    <3> SUFFICES ASSUME NEW q \in Tx, request'[q] # NoRequest
                 PROVE  rowLock'[request'[q].product] = q
      OBVIOUS
    <3>1. CASE q = t BY <3>1, <1>4, <1>6, <1>7
    <3>2. CASE q # t
      <4>1. /\ request'[q] = request[q] /\ rowLock[request[q].product] = q
            /\ request[q].product \in Product
        BY <3>2, <1>6, RequestType DEF LockInv
      <4> QED BY <4>1, <3>2, <1>1, <1>7, TxAssumption
    <3> QED BY <3>1, <3>2
  <2>4. \A h \in DOMAIN holdings' :
           holdings'[h].by # NoTx => rowLock'[holdings'[h].product] = holdings'[h].by
    BY <1>1, <1>7 DEF LockInv, TypeOK, Holding
  <2> QED BY <2>1, <2>2, <2>3, <2>4 DEF LockInv
<1>9. RowInv' /\ NoOverlap' BY <1>1 DEF RowInv, NoOverlap
<1>10. PurchaseInv'
  <2> SUFFICES ASSUME NEW q \in Tx, request'[q] # NoRequest
               PROVE  PurchaseOK(q)'
    BY DEF PurchaseInv
  <2>1. CASE q = t
    <3>1. \A h \in DOMAIN holdings : holdings[h].product = p =>
             /\ Before(holdings[h], read)
             /\ fresh => holdings[h].by = NoTx
      BY <1>1, <1>3, TxAssumption DEF RowInv, LockInv, TypeOK, Holding
    <3> QED BY <2>1, <3>1, <1>1, <1>3, <1>4, <1>6 DEF PurchaseOK
  <2>2. CASE q # t
    <3>1. request'[q] = request[q] BY <2>2, <1>6
    <3> QED BY <3>1, <1>1 DEF PurchaseInv, PurchaseOK
  <2> QED BY <2>1, <2>2
<1> QED BY <1>5, <1>8, <1>9, <1>10

(* Reserving the range and writing the cursor row.                         *)
LEMMA AdvanceStep ==
    ASSUME IInv, NEW t \in Tx, AdvanceSequence(t)
    PROVE  IInv'
<1> USE DEF IInv
<1> DEFINE r == request[t]
           p == r.product
<1>r. /\ r # NoRequest /\ r.pc = "locked"
      /\ UNCHANGED <<sequence, rowLock, holdings>>
  BY DEF AdvanceSequence
<1>f. /\ r \in Request /\ p \in Product /\ r.read \in Cursor
      /\ r.units \in Nat \ {0} /\ r.read.number \in Nat
      /\ r.read.letter \in ticketLetters /\ r.read.letter \in Int
  BY <1>r, RequestType, CursorType
<1>1. PICK letter \in firstLetter..lastLetter, start \in {0, r.read.number} :
         /\ StartsAt(r, letter, start)
         /\ CursorCheck(start + r.units)
         /\ written' = [written EXCEPT ![p] =
                          [letter |-> letter, number |-> start + r.units - 1 + 1]]
         /\ request' = [request EXCEPT ![t] =
                          [r EXCEPT !.pc = "reserved", !.letter = letter,
                                    !.start = start, !.end = start + r.units - 1]]
  BY DEF AdvanceSequence, Reserves
<1> DEFINE end == start + r.units - 1
           c == [letter |-> letter, number |-> end + 1]
           s == [r EXCEPT !.pc = "reserved", !.letter = letter,
                          !.start = start, !.end = end]
<1>2. /\ letter \in ticketLetters /\ letter \in Int /\ start \in Nat
      /\ end \in Nat /\ start <= end
      /\ \/ r.read.letter < letter
         \/ r.read.letter = letter /\ start = r.read.number
  <2>1. start \in Nat /\ letter \in Int BY <1>f, LetterAssumption
  <2>2. letter \in ticketLetters BY <1>1, <1>f DEF StartsAt, IsNextLetter
  <2>3. end \in Nat /\ start <= end BY <2>1, <1>f
  <2>4. \/ r.read.letter < letter
        \/ r.read.letter = letter /\ start = r.read.number
    BY <1>1, <1>f, <2>1 DEF StartsAt, IsNextLetter
  <2> QED BY <2>1, <2>2, <2>3, <2>4
<1>3. written' = [written EXCEPT ![p] = c] /\ request' = [request EXCEPT ![t] = s]
  BY <1>1
<1>c. /\ c \in Cursor /\ c.letter = letter /\ c.number = end + 1
      /\ NotAfter(r.read, c)
  <2>1. end + 1 \in Nat BY <1>2
  <2>2. r.read.letter = letter => r.read.number <= end + 1
    BY <1>2, <1>f
  <2> HIDE DEF end
  <2> QED BY <2>1, <2>2, <1>2 DEF Cursor, NotAfter
<1> HIDE DEF end
<1>4. /\ s \in Request /\ s.pc = "reserved" /\ s.product = p /\ s.read = r.read
      /\ s.fresh = r.fresh /\ s.holding = r.holding
      /\ s.letter = letter /\ s.start = start /\ s.end = end
  BY <1>f, <1>2 DEF Request
<1>h. c = [letter |-> letter, number |-> end + 1] OBVIOUS
<1> HIDE DEF c, s
<1>5. TypeOK' BY <1>r, <1>3, <1>4, <1>c DEF TypeOK
<1>6. request'[t] = s /\ \A q \in Tx \ {t} : request'[q] = request[q]
  BY <1>3 DEF TypeOK
<1>7. written'[p] = c /\ \A q \in Product \ {p} : written'[q] = written[q]
  BY <1>3, <1>f DEF TypeOK
<1>8. /\ rowLock[p] = t
      /\ NotAfter(sequence[p], r.read)
      /\ r.holding = NoTx
      /\ written[p] = r.read
      /\ r.fresh => r.read = sequence[p]
      /\ \A h \in DOMAIN holdings : holdings[h].product = p /\ h # r.holding =>
            /\ Before(holdings[h], r.read)
            /\ r.fresh => holdings[h].by = NoTx
  BY <1>r DEF LockInv, PurchaseInv, PurchaseOK
<1>9. NotAfter(sequence[p], c)
  <2>1. sequence[p] \in Cursor BY <1>f DEF TypeOK
  <2> QED BY <2>1, <1>8, <1>c, <1>f, CursorType DEF NotAfter
<1>10. LockInv'
  <2>1. \A q \in Product : rowLock'[q] = NoTx => written'[q] = sequence'[q]
    BY <1>r, <1>7, <1>8, TxAssumption DEF LockInv
  <2>2. \A q \in Product : NotAfter(sequence'[q], written'[q])
    BY <1>r, <1>7, <1>9 DEF LockInv
  <2>3. \A q \in Tx : request'[q] # NoRequest => rowLock'[request'[q].product] = q
    BY <1>r, <1>4, <1>6, <1>8 DEF LockInv
  <2>4. \A h \in DOMAIN holdings' :
           holdings'[h].by # NoTx => rowLock'[holdings'[h].product] = holdings'[h].by
    BY <1>r DEF LockInv
  <2> QED BY <2>1, <2>2, <2>3, <2>4 DEF LockInv
<1>11. RowInv'
  <2> SUFFICES ASSUME NEW h \in DOMAIN holdings
               PROVE  /\ Before(holdings[h], written'[holdings[h].product])
                      /\ holdings[h].by = NoTx =>
                            Before(holdings[h], sequence[holdings[h].product])
    BY <1>r DEF RowInv
  <2>t. /\ holdings[h] \in Holding /\ holdings[h].product \in Product
        /\ holdings[h].letter \in Int /\ holdings[h].end \in Nat
    BY LetterAssumption DEF TypeOK, Holding, ticketLetters
  <2>1. CASE holdings[h].product = p
    <3>1. h # r.holding BY <1>8, TxAssumption DEF TypeOK
    <3>2. Before(holdings[h], r.read) BY <3>1, <2>1, <1>8
    <3>3. Before(holdings[h], c) BY <3>2, <2>t, <1>c, <1>f, CursorType DEF Before, NotAfter
    <3> QED BY <3>3, <2>1, <1>7 DEF RowInv
  <2>2. CASE holdings[h].product # p
    BY <2>2, <2>t, <1>7 DEF RowInv
  <2> QED BY <2>1, <2>2
<1>12. NoOverlap' BY <1>r DEF NoOverlap
<1>13. PurchaseInv'
  <2> SUFFICES ASSUME NEW q \in Tx, request'[q] # NoRequest
               PROVE  PurchaseOK(q)'
    BY DEF PurchaseInv
  <2>1. CASE q = t
    BY <2>1, <1>r, <1>2, <1>4, <1>6, <1>7, <1>8, <1>h DEF PurchaseOK
  <2>2. CASE q # t
    <3>1. request'[q] = request[q] /\ request[q].product \in Product
      BY <2>2, <1>6, RequestType
    <3>2. request[q].product # p BY <3>1, <2>2, <1>8 DEF LockInv
    <3>3. written'[request[q].product] = written[request[q].product]
      BY <3>1, <3>2, <1>7
    <3> QED BY <3>1, <3>3, <1>r DEF PurchaseInv, PurchaseOK
  <2> QED BY <2>1, <2>2
<1> QED BY <1>5, <1>10, <1>11, <1>12, <1>13

(* Inserting the holding: nothing of its product lies at or after the      *)
(* number the reservation starts at.                                       *)
LEMMA MintStep ==
    ASSUME IInv, NEW t \in Tx, NEW h \in HoldingId, MintHolding(t, h)
    PROVE  IInv'
<1> USE DEF IInv
<1> DEFINE r == request[t]
           p == r.product
           row == [product |-> p, letter |-> r.letter, start |-> r.start,
                   end |-> r.end, by |-> t]
           s == [r EXCEPT !.pc = "minted", !.holding = h]
<1>1. /\ r # NoRequest /\ r.pc = "reserved" /\ h \notin DOMAIN holdings
      /\ holdings' = [x \in DOMAIN holdings \cup {h} |->
                        IF x = h THEN row ELSE holdings[x]]
      /\ request' = [request EXCEPT ![t] = s]
      /\ UNCHANGED <<sequence, written, rowLock>>
  BY DEF MintHolding
<1>f. /\ r \in Request /\ p \in Product /\ r.read \in Cursor
      /\ r.start \in Nat /\ r.end \in Nat
      /\ r.letter \in ticketLetters /\ r.letter \in Int
      /\ r.read.number \in Nat /\ r.read.letter \in Int
  BY <1>1, RequestType, CursorType
<1>p. /\ rowLock[p] = t /\ r.holding = NoTx
      /\ written[p] = [letter |-> r.letter, number |-> r.end + 1]
      /\ \/ r.read.letter < r.letter
         \/ r.read.letter = r.letter /\ r.start = r.read.number
      /\ NotAfter(sequence[p], r.read)
      /\ r.fresh => r.read = sequence[p]
      /\ \A k \in DOMAIN holdings : holdings[k].product = p /\ k # r.holding =>
            /\ Before(holdings[k], r.read)
            /\ r.fresh => holdings[k].by = NoTx
  BY <1>1 DEF LockInv, PurchaseInv, PurchaseOK
<1>2. /\ row \in Holding /\ row.product = p /\ row.letter = r.letter
      /\ row.start = r.start /\ row.end = r.end /\ row.by = t
  BY <1>f DEF Holding
<1>3. /\ s \in Request /\ s.pc = "minted" /\ s.product = p /\ s.read = r.read
      /\ s.fresh = r.fresh /\ s.holding = h /\ s.letter = r.letter
      /\ s.start = r.start /\ s.end = r.end
  BY <1>f DEF Request
<1> HIDE DEF row, s
<1>4. /\ DOMAIN holdings' = DOMAIN holdings \cup {h} /\ holdings'[h] = row
      /\ \A k \in DOMAIN holdings : holdings'[k] = holdings[k] /\ k # h
  BY <1>1
<1>5. request'[t] = s /\ \A q \in Tx \ {t} : request'[q] = request[q]
  BY <1>1 DEF TypeOK
<1>6. TypeOK'
  <2>1. holdings' \in [DOMAIN holdings' -> Holding] /\ DOMAIN holdings' \subseteq HoldingId
    BY <1>1, <1>2, <1>4 DEF TypeOK
  <2>2. request' \in [Tx -> Request \cup {NoRequest}] BY <1>1, <1>3 DEF TypeOK
  <2> QED BY <2>1, <2>2, <1>1 DEF TypeOK
<1>7. LockInv'
  <2>1. /\ \A q \in Product : rowLock'[q] = NoTx => written'[q] = sequence'[q]
        /\ \A q \in Product : NotAfter(sequence'[q], written'[q])
    BY <1>1 DEF LockInv
  <2>2. \A q \in Tx : request'[q] # NoRequest => rowLock'[request'[q].product] = q
    BY <1>1, <1>3, <1>5, <1>p DEF LockInv
  <2>3. \A k \in DOMAIN holdings' :
           holdings'[k].by # NoTx => rowLock'[holdings'[k].product] = holdings'[k].by
    BY <1>1, <1>2, <1>4, <1>p DEF LockInv
  <2> QED BY <2>1, <2>2, <2>3 DEF LockInv
<1>8. RowInv'
  <2>1. Before(row, written[p]) BY <1>2, <1>p, <1>f DEF Before
  <2>2. row.by # NoTx BY <1>2, TxAssumption
  <2> QED BY <2>1, <2>2, <1>1, <1>2, <1>4 DEF RowInv
<1>9. NoOverlap'
  <2>1. ASSUME NEW k \in DOMAIN holdings,
               holdings[k].product = row.product, holdings[k].letter = row.letter
        PROVE  holdings[k].end < row.start
    <3>1. holdings[k].letter \in Int /\ holdings[k].end \in Nat
      BY LetterAssumption DEF TypeOK, Holding, ticketLetters
    <3>2. Before(holdings[k], r.read)
      BY <2>1, <1>2, <1>p, TxAssumption DEF TypeOK
    <3> QED BY <3>1, <3>2, <2>1, <1>2, <1>p, <1>f DEF Before
  <2> QED BY <2>1, <1>4 DEF NoOverlap
<1>10. PurchaseInv'
  <2> SUFFICES ASSUME NEW q \in Tx, request'[q] # NoRequest
               PROVE  PurchaseOK(q)'
    BY DEF PurchaseInv
  <2>1. CASE q = t
    <3>1. \A k \in DOMAIN holdings' :
             holdings'[k].product = p /\ k # h =>
                /\ Before(holdings'[k], r.read)
                /\ r.fresh => holdings'[k].by = NoTx
      BY <1>4, <1>p, TxAssumption DEF TypeOK
    <3>2. written'[p] = [letter |-> s.letter, number |-> s.end + 1]
      BY <1>1, <1>3, <1>p
    <3>3. \/ s.read.letter < s.letter
          \/ s.read.letter = s.letter /\ s.start = s.read.number
      BY <1>3, <1>p
    <3>4. /\ NotAfter(sequence'[p], s.read)
          /\ s.fresh => s.read = sequence'[p]
      BY <1>1, <1>3, <1>p
    <3> QED BY <2>1, <3>1, <3>2, <3>3, <3>4, <1>3, <1>5 DEF PurchaseOK
  <2>2. CASE q # t
    <3>1. request'[q] = request[q] BY <2>2, <1>5
    <3>2. request[q].product # p BY <3>1, <2>2, <1>p DEF LockInv
    <3> QED BY <3>1, <3>2, <1>1, <1>2, <1>4 DEF PurchaseInv, PurchaseOK
  <2> QED BY <2>1, <2>2
<1> QED BY <1>6, <1>7, <1>8, <1>9, <1>10

(* A finished purchase leaves everything where it is.                      *)
LEMMA FinishStep ==
    ASSUME IInv, NEW t \in Tx, FinishPurchase(t)
    PROVE  IInv'
<1> USE DEF IInv
<1>1. /\ request' = [request EXCEPT ![t] = NoRequest]
      /\ UNCHANGED <<sequence, written, rowLock, holdings>>
  BY DEF FinishPurchase
<1>2. /\ request'[t] = NoRequest /\ \A q \in Tx \ {t} : request'[q] = request[q]
  BY <1>1 DEF TypeOK
<1>3. TypeOK' BY <1>1 DEF TypeOK
<1>4. LockInv' /\ RowInv' /\ NoOverlap' BY <1>1, <1>2 DEF LockInv, RowInv, NoOverlap
<1>5. PurchaseInv' BY <1>1, <1>2 DEF PurchaseInv, PurchaseOK
<1> QED BY <1>3, <1>4, <1>5

(* Undoing one purchase restores the cursor it read, and with the lock it  *)
(* took goes nothing that other purchases of the transaction rely on.      *)
LEMMA UndoStep ==
    ASSUME IInv, NEW t \in Tx, UndoPurchase(t)
    PROVE  IInv'
<1> USE DEF IInv
<1> DEFINE r == request[t]
           p == r.product
           lock == IF r.fresh THEN NoTx ELSE t
<1>1. /\ r # NoRequest
      /\ written' = [written EXCEPT ![p] = r.read]
      /\ rowLock' = [rowLock EXCEPT ![p] = lock]
      /\ holdings' = [h \in DOMAIN holdings \ {r.holding} |-> holdings[h]]
      /\ request' = [request EXCEPT ![t] = NoRequest]
      /\ sequence' = sequence
  BY DEF UndoPurchase, AfterUndo
<1>f. /\ r \in Request /\ p \in Product /\ r.read \in Cursor
  BY <1>1, RequestType
<1>p. /\ rowLock[p] = t
      /\ NotAfter(sequence[p], r.read)
      /\ r.fresh => r.read = sequence[p]
      /\ \A h \in DOMAIN holdings : holdings[h].product = p /\ h # r.holding =>
            /\ Before(holdings[h], r.read)
            /\ r.fresh => holdings[h].by = NoTx
  BY <1>1 DEF LockInv, PurchaseInv, PurchaseOK
<1>l. lock \in Tx \cup {NoTx} /\ (lock = NoTx => r.read = sequence[p])
  BY <1>p, TxAssumption
<1>d. lock # t => r.fresh /\ lock = NoTx OBVIOUS
<1> HIDE DEF lock
<1>2. /\ DOMAIN holdings' = DOMAIN holdings \ {r.holding}
      /\ \A h \in DOMAIN holdings' :
            h \in DOMAIN holdings /\ holdings'[h] = holdings[h] /\ h # r.holding
  BY <1>1
<1>3. /\ request'[t] = NoRequest /\ \A q \in Tx \ {t} : request'[q] = request[q]
  BY <1>1 DEF TypeOK
<1>4. /\ written'[p] = r.read /\ rowLock'[p] = lock
      /\ \A q \in Product \ {p} : written'[q] = written[q] /\ rowLock'[q] = rowLock[q]
  BY <1>1, <1>f DEF TypeOK
<1>5. TypeOK'
  <2>1. holdings' \in [DOMAIN holdings' -> Holding] /\ DOMAIN holdings' \subseteq HoldingId
    BY <1>2, <1>1 DEF TypeOK
  <2> QED BY <2>1, <1>1, <1>f, <1>l DEF TypeOK
<1>t. \A h \in DOMAIN holdings : holdings[h].product \in Product
  BY DEF TypeOK, Holding
<1>6. LockInv'
  <2>1. \A q \in Product : rowLock'[q] = NoTx => written'[q] = sequence'[q]
    BY <1>1, <1>4, <1>l DEF LockInv
  <2>2. \A q \in Product : NotAfter(sequence'[q], written'[q])
    BY <1>1, <1>4, <1>p DEF LockInv
  <2>3. \A q \in Tx : request'[q] # NoRequest => rowLock'[request'[q].product] = q
    <3> SUFFICES ASSUME NEW q \in Tx \ {t}, request[q] # NoRequest
                 PROVE  rowLock'[request[q].product] = q
      BY <1>3
    <3>1. rowLock[request[q].product] = q /\ request[q].product \in Product
      BY RequestType DEF LockInv
    <3> QED BY <3>1, <1>4, <1>p
  <2>4. \A h \in DOMAIN holdings' :
           holdings'[h].by # NoTx => rowLock'[holdings'[h].product] = holdings'[h].by
    <3> SUFFICES ASSUME NEW h \in DOMAIN holdings, h # r.holding,
                        holdings[h].by # NoTx
                 PROVE  rowLock'[holdings[h].product] = holdings[h].by
      BY <1>2
    <3>1. rowLock[holdings[h].product] = holdings[h].by BY DEF LockInv
    <3>2. CASE holdings[h].product = p
      <4>1. ~ r.fresh BY <3>2, <1>p
      <4> QED BY <4>1, <3>1, <3>2, <1>4, <1>p, <1>d
    <3>3. CASE holdings[h].product # p BY <3>1, <3>3, <1>4, <1>t
    <3> QED BY <3>2, <3>3
  <2> QED BY <2>1, <2>2, <2>3, <2>4 DEF LockInv
<1>7. RowInv' BY <1>1, <1>2, <1>4, <1>p, <1>t DEF RowInv
<1>8. NoOverlap' BY <1>2 DEF NoOverlap
<1>9. PurchaseInv'
  <2> SUFFICES ASSUME NEW q \in Tx \ {t}, request[q] # NoRequest
               PROVE  PurchaseOK(q)'
    BY <1>3 DEF PurchaseInv
  <2>1. /\ request'[q] = request[q] /\ request[q].product # p
        /\ request[q].product \in Product
    BY <1>3, <1>p, RequestType DEF LockInv
  <2>2. written'[request[q].product] = written[request[q].product]
    BY <2>1, <1>4
  <2> QED BY <2>1, <2>2, <1>1, <1>2 DEF PurchaseInv, PurchaseOK
<1> QED BY <1>5, <1>6, <1>7, <1>8, <1>9

(* A commit publishes the newest cursors of the products it has locked.    *)
LEMMA CommitStep ==
    ASSUME IInv, NEW t \in Tx, Commit(t)
    PROVE  IInv' /\ CursorStep
<1> USE DEF IInv
<1>1. /\ request[t] = NoRequest
      /\ sequence' = [p \in Product |-> IF rowLock[p] = t THEN written[p]
                                                          ELSE sequence[p]]
      /\ rowLock' = [p \in Product |-> IF rowLock[p] = t THEN NoTx ELSE rowLock[p]]
      /\ holdings' = [h \in DOMAIN holdings |->
                        IF holdings[h].by = t THEN [holdings[h] EXCEPT !.by = NoTx]
                                              ELSE holdings[h]]
      /\ written' = written /\ request' = request
  BY DEF Commit, LockedBy, Mine
<1>2. \A p \in Product :
         /\ rowLock[p] = t => sequence'[p] = written[p] /\ rowLock'[p] = NoTx
         /\ rowLock[p] # t => sequence'[p] = sequence[p] /\ rowLock'[p] = rowLock[p]
  BY <1>1
<1>3. /\ DOMAIN holdings' = DOMAIN holdings
      /\ \A h \in DOMAIN holdings :
            /\ holdings'[h] \in Holding
            /\ holdings'[h].product = holdings[h].product
            /\ holdings'[h].letter = holdings[h].letter
            /\ holdings'[h].start = holdings[h].start
            /\ holdings'[h].end = holdings[h].end
            /\ holdings[h].by = t => holdings'[h].by = NoTx
            /\ holdings[h].by # t => holdings'[h].by = holdings[h].by
            /\ holdings[h].product \in Product
  BY <1>1 DEF TypeOK, Holding
<1>4. TypeOK'
  <2>1. holdings' \in [DOMAIN holdings' -> Holding] BY <1>1, <1>3
  <2> QED BY <2>1, <1>1, <1>3 DEF TypeOK
<1>n. \A p \in Product : NotAfter(written[p], written[p])
  BY CursorType DEF TypeOK, NotAfter
<1>5. LockInv'
  <2>1. /\ \A p \in Product : rowLock'[p] = NoTx => written'[p] = sequence'[p]
        /\ \A p \in Product : NotAfter(sequence'[p], written'[p])
    BY <1>1, <1>2, <1>n DEF LockInv
  <2>2. \A q \in Tx : request'[q] # NoRequest => rowLock'[request'[q].product] = q
    BY <1>1, <1>2, RequestType DEF LockInv
  <2>3. \A h \in DOMAIN holdings' :
           holdings'[h].by # NoTx => rowLock'[holdings'[h].product] = holdings'[h].by
    BY <1>2, <1>3 DEF LockInv
  <2> QED BY <2>1, <2>2, <2>3 DEF LockInv
<1>6. RowInv'
  <2> SUFFICES ASSUME NEW h \in DOMAIN holdings
               PROVE  /\ Before(holdings'[h], written'[holdings'[h].product])
                      /\ holdings'[h].by = NoTx =>
                            Before(holdings'[h], sequence'[holdings'[h].product])
    BY <1>3 DEF RowInv
  <2>1. /\ Before(holdings[h], written[holdings[h].product])
        /\ holdings[h].by = NoTx => Before(holdings[h], sequence[holdings[h].product])
        /\ holdings[h].by # NoTx => rowLock[holdings[h].product] = holdings[h].by
    BY DEF RowInv, LockInv
  <2>2. \A c : Before(holdings'[h], c) <=> Before(holdings[h], c)
    BY <1>3 DEF Before
  <2> QED BY <2>1, <2>2, <1>1, <1>2, <1>3
<1>7. NoOverlap' BY <1>3 DEF NoOverlap
<1>8. PurchaseInv'
  <2> SUFFICES ASSUME NEW q \in Tx, request[q] # NoRequest
               PROVE  PurchaseOK(q)'
    BY <1>1 DEF PurchaseInv
  <2>1. /\ q # t /\ request[q].product \in Product
        /\ rowLock[request[q].product] = q
    BY <1>1, RequestType DEF LockInv
  <2>2. sequence'[request[q].product] = sequence[request[q].product]
    BY <2>1, <1>2
  <2>3. PurchaseOK(q) BY DEF PurchaseInv
  <2>4. \A h \in DOMAIN holdings' :
           holdings'[h].product = request[q].product /\ h # request[q].holding =>
              /\ Before(holdings'[h], request[q].read)
              /\ request[q].fresh => holdings'[h].by = NoTx
    BY <1>3, <2>3 DEF PurchaseOK, Before
  <2> QED BY <2>2, <2>3, <2>4, <1>1 DEF PurchaseOK
<1>9. CursorStep
  <2> SUFFICES ASSUME NEW p \in Product, rowLock[p] = t
               PROVE  \/ written[p] = sequence[p]
                      \/ written[p].letter > sequence[p].letter
                      \/ /\ written[p].letter = sequence[p].letter
                         /\ written[p].number > sequence[p].number
    BY <1>2 DEF CursorStep
  <2>1. sequence[p] \in Cursor /\ written[p] \in Cursor /\ NotAfter(sequence[p], written[p])
    BY DEF TypeOK, LockInv
  <2>2. sequence[p].letter = written[p].letter /\ sequence[p].number = written[p].number
           => sequence[p] = written[p]
    BY <2>1 DEF Cursor
  <2> QED BY <2>1, <2>2, CursorType DEF NotAfter
<1> QED BY <1>4, <1>5, <1>6, <1>7, <1>8, <1>9

(* A rollback leaves the committed cursors and the committed rows.         *)
LEMMA RollbackStep ==
    ASSUME IInv, NEW t \in Tx, Rollback(t)
    PROVE  IInv'
<1> USE DEF IInv
<1>1. /\ written' = [p \in Product |-> IF rowLock[p] = t THEN sequence[p]
                                                         ELSE written[p]]
      /\ rowLock' = [p \in Product |-> IF rowLock[p] = t THEN NoTx ELSE rowLock[p]]
      /\ holdings' = [h \in {k \in DOMAIN holdings : holdings[k].by # t} |-> holdings[h]]
      /\ request' = [request EXCEPT ![t] = NoRequest]
      /\ sequence' = sequence
  <2>1. DOMAIN holdings \ Mine(t) = {k \in DOMAIN holdings : holdings[k].by # t}
    BY DEF Mine
  <2> QED BY <2>1 DEF Rollback, LockedBy
<1>2. \A p \in Product :
         /\ rowLock[p] = t => written'[p] = sequence[p] /\ rowLock'[p] = NoTx
         /\ rowLock[p] # t => written'[p] = written[p] /\ rowLock'[p] = rowLock[p]
  BY <1>1
<1>3. \A h \in DOMAIN holdings' :
         /\ h \in DOMAIN holdings /\ holdings'[h] = holdings[h]
         /\ holdings[h].by # t /\ holdings[h].product \in Product
  BY <1>1 DEF TypeOK, Holding
<1>4. /\ request'[t] = NoRequest /\ \A q \in Tx \ {t} : request'[q] = request[q]
  BY <1>1 DEF TypeOK
<1>5. TypeOK'
  <2>1. holdings' \in [DOMAIN holdings' -> Holding] /\ DOMAIN holdings' \subseteq HoldingId
    BY <1>1, <1>3 DEF TypeOK
  <2> QED BY <2>1, <1>1 DEF TypeOK
<1>n. \A p \in Product : NotAfter(sequence[p], sequence[p])
  BY CursorType DEF TypeOK, NotAfter
<1>6. LockInv'
  <2>1. /\ \A p \in Product : rowLock'[p] = NoTx => written'[p] = sequence'[p]
        /\ \A p \in Product : NotAfter(sequence'[p], written'[p])
    BY <1>1, <1>2, <1>n DEF LockInv
  <2>2. \A q \in Tx : request'[q] # NoRequest => rowLock'[request'[q].product] = q
    <3> SUFFICES ASSUME NEW q \in Tx \ {t}, request[q] # NoRequest
                 PROVE  rowLock'[request[q].product] = q
      BY <1>4
    <3>1. rowLock[request[q].product] = q /\ request[q].product \in Product
      BY RequestType DEF LockInv
    <3> QED BY <3>1, <1>2
  <2>3. \A h \in DOMAIN holdings' :
           holdings'[h].by # NoTx => rowLock'[holdings'[h].product] = holdings'[h].by
    BY <1>2, <1>3 DEF LockInv
  <2> QED BY <2>1, <2>2, <2>3 DEF LockInv
<1>7. RowInv'
  <2> SUFFICES ASSUME NEW h \in DOMAIN holdings'
               PROVE  /\ Before(holdings[h], written'[holdings[h].product])
                      /\ holdings[h].by = NoTx =>
                            Before(holdings[h], sequence[holdings[h].product])
    BY <1>1, <1>3 DEF RowInv
  <2>1. /\ h \in DOMAIN holdings
        /\ Before(holdings[h], written[holdings[h].product])
        /\ holdings[h].by = NoTx => Before(holdings[h], sequence[holdings[h].product])
        /\ holdings[h].by # NoTx => rowLock[holdings[h].product] = holdings[h].by
    BY <1>3 DEF RowInv, LockInv
  <2> QED BY <2>1, <1>2, <1>3
<1>8. NoOverlap' BY <1>3 DEF NoOverlap
<1>9. PurchaseInv'
  <2> SUFFICES ASSUME NEW q \in Tx \ {t}, request[q] # NoRequest
               PROVE  PurchaseOK(q)'
    BY <1>4 DEF PurchaseInv
  <2>1. /\ request'[q] = request[q] /\ request[q].product \in Product
        /\ rowLock[request[q].product] = q
    BY <1>4, RequestType DEF LockInv
  <2>2. written'[request[q].product] = written[request[q].product]
    BY <2>1, <1>2
  <2>3. PurchaseOK(q) BY DEF PurchaseInv
  <2>4. \A h \in DOMAIN holdings' :
           holdings'[h].product = request[q].product /\ h # request[q].holding =>
              /\ Before(holdings'[h], request[q].read)
              /\ request[q].fresh => holdings'[h].by = NoTx
    BY <1>3, <2>3 DEF PurchaseOK
  <2> QED BY <2>1, <2>2, <2>3, <2>4, <1>1 DEF PurchaseOK
<1> QED BY <1>5, <1>6, <1>7, <1>8, <1>9

(* Nothing is issued yet and every cursor stands at the first ticket.      *)
LEMMA InitInvariant == Init => IInv
<1> SUFFICES ASSUME Init PROVE IInv
  OBVIOUS
<1>1. DOMAIN holdings = {} /\ \A t \in Tx : request[t] = NoRequest
  BY DEF Init, NoHolding
<1>2. firstLetter \in ticketLetters /\ firstLetter \in Int
  BY LetterAssumption DEF ticketLetters
<1>3. TypeOK BY <1>1, <1>2 DEF Init, TypeOK, Cursor
<1>4. LockInv BY <1>1, <1>2 DEF Init, LockInv, NotAfter
<1>5. RowInv /\ PurchaseInv /\ NoOverlap BY <1>1 DEF RowInv, PurchaseInv, NoOverlap
<1> QED BY <1>3, <1>4, <1>5 DEF IInv

(* Every step keeps the invariant, and only a commit moves a cursor.       *)
LEMMA StepInvariant == IInv /\ [Next]_vars => IInv' /\ CursorStep
<1> SUFFICES ASSUME IInv, [Next]_vars PROVE IInv' /\ CursorStep
  OBVIOUS
<1>1. CASE UNCHANGED vars
  BY <1>1 DEF vars, IInv, TypeOK, LockInv, RowInv, PurchaseInv, PurchaseOK,
              NoOverlap, CursorStep
<1>2. CASE Next
  <2>1. PICK t \in Tx :
           \/ \E p \in Product, n \in PurchaseUnits : LockSequence(t, p, n)
           \/ AdvanceSequence(t)
           \/ \E h \in HoldingId : MintHolding(t, h)
           \/ FinishPurchase(t)
           \/ UndoPurchase(t)
           \/ Commit(t)
           \/ Rollback(t)
    BY <1>2 DEF Next
  <2>2. CASE \E p \in Product, n \in PurchaseUnits : LockSequence(t, p, n)
    BY <2>2, LockStep DEF LockSequence, CursorStep
  <2>3. CASE AdvanceSequence(t) BY <2>3, AdvanceStep DEF AdvanceSequence, CursorStep
  <2>4. CASE \E h \in HoldingId : MintHolding(t, h)
    BY <2>4, MintStep DEF MintHolding, CursorStep
  <2>5. CASE FinishPurchase(t) BY <2>5, FinishStep DEF FinishPurchase, CursorStep
  <2>6. CASE UndoPurchase(t) BY <2>6, UndoStep DEF UndoPurchase, CursorStep
  <2>7. CASE Commit(t) BY <2>7, CommitStep
  <2>8. CASE Rollback(t) BY <2>8, RollbackStep DEF Rollback, CursorStep
  <2> QED BY <2>1, <2>2, <2>3, <2>4, <2>5, <2>6, <2>7, <2>8
<1> QED BY <1>1, <1>2

-----------------------------------------------------------------------------
(***************************************************************************)
(* The rows form a chain.  What one purchase issues starts where a row     *)
(* ended that is committed or of the same transaction, so neither an undo  *)
(* nor a rollback can take away the row another one stands on.             *)
(***************************************************************************)

(* row starts behind last: at the next number, or in the next letter       *)
(* because the block of last had no room for it.                           *)
Follows(row, last) ==
    /\ last.product = row.product
    /\ \/ last.letter = row.letter /\ last.end + 1 = row.start
       \/ /\ row.start = 0
          /\ IsNextLetter(last.letter, row.letter)
          /\ last.end + 1 + (row.end + 1) > ticketsPerLetter

Chained(row, rows, S) ==
    \/ row.letter = firstLetter /\ row.start = 0
    \/ \E k \in S : rows[k].by \in {NoTx, row.by} /\ Follows(row, rows[k])

(* A cursor stands at the first ticket or behind a row of one of B.        *)
Reached(p, c, B, rows, S) ==
    \/ c.letter = firstLetter /\ c.number = 0
    \/ \E k \in S : /\ rows[k].by \in B /\ rows[k].product = p
                    /\ rows[k].letter = c.letter /\ rows[k].end + 1 = c.number

(* The holding that the purchase of t inserts.                             *)
Row(t) == [product |-> request[t].product, letter |-> request[t].letter,
           start |-> request[t].start, end |-> request[t].end, by |-> t]

Others(t) == DOMAIN holdings \ {request[t].holding}

ChainRows == \A h \in DOMAIN holdings : Chained(holdings[h], holdings, DOMAIN holdings)

ChainCursors ==
    /\ \A p \in Product :
          Reached(p, sequence[p], {NoTx}, holdings, DOMAIN holdings)
    /\ \A p \in Product, t \in Tx :
          rowLock[p] = t /\ ~ (request[t] # NoRequest /\ request[t].product = p) =>
             Reached(p, written[p], {NoTx, t}, holdings, DOMAIN holdings)

ChainPurchase(t) ==
    /\ request[t].units <= ticketsPerLetter
    /\ Reached(request[t].product, request[t].read, {NoTx, t}, holdings, Others(t))
    /\ \A h \in Others(t) :
          holdings[h].product = request[t].product =>
             Chained(holdings[h], holdings, Others(t))
    /\ request[t].pc # "locked" => Chained(Row(t), holdings, Others(t))
    /\ request[t].pc = "minted" => /\ request[t].holding \in DOMAIN holdings
                                   /\ holdings[request[t].holding] = Row(t)

ChainPurchases == \A t \in Tx : request[t] # NoRequest => ChainPurchase(t)

ChainInv == ChainRows /\ ChainCursors /\ ChainPurchases

(* Rows that stay keep what is chained to them, or has reached them.       *)
LEMMA ChainedStays ==
    ASSUME NEW row, NEW f, NEW g, NEW S, NEW T, Chained(row, f, S),
           \A k \in S : f[k].product = row.product /\ f[k].by \in {NoTx, row.by} =>
              k \in T /\ g[k] = f[k]
    PROVE  Chained(row, g, T)
BY DEF Chained, Follows

(* A cursor that follows a chain of ranges still does when ranges are only *)
(* added, kept or taken over.                                              *)
LEMMA ReachedStays ==
    ASSUME NEW p, NEW c, NEW B, NEW C, NEW f, NEW g, NEW S, NEW T, Reached(p, c, B, f, S),
           \A k \in S : f[k].product = p /\ f[k].by \in B =>
              k \in T /\ g[k] = f[k] /\ f[k].by \in C
    PROVE  Reached(p, c, C, g, T)
BY DEF Reached

(* A purchase under way is untouched by a step that leaves it and the rows *)
(* of its product alone.                                                   *)
LEMMA PurchaseStays ==
    ASSUME NEW u \in Tx, ChainPurchase(u), request'[u] = request[u],
           \A k \in DOMAIN holdings : holdings[k].product = request[u].product =>
              k \in DOMAIN holdings' /\ holdings'[k] = holdings[k],
           \A k \in DOMAIN holdings' : holdings'[k].product = request[u].product =>
              k \in DOMAIN holdings /\ holdings'[k] = holdings[k]
    PROVE  ChainPurchase(u)'
<1>1. Row(u)' = Row(u) /\ Row(u).product = request[u].product BY DEF Row
<1>2. \A k \in Others(u) : holdings[k].product = request[u].product =>
         k \in Others(u)' /\ holdings'[k] = holdings[k]
  BY DEF Others
<1>3. \A k \in Others(u)' : holdings'[k].product = request[u].product =>
         k \in Others(u) /\ holdings'[k] = holdings[k]
  BY DEF Others
<1>4. Reached(request[u].product, request[u].read, {NoTx, u}, holdings', Others(u)')
  BY <1>2, ReachedStays DEF ChainPurchase
<1>5. ASSUME NEW row, row.product = request[u].product, Chained(row, holdings, Others(u))
      PROVE  Chained(row, holdings', Others(u)')
  BY <1>2, <1>5, ChainedStays
<1>6. \A h \in Others(u)' : holdings'[h].product = request[u].product =>
         Chained(holdings'[h], holdings', Others(u)')
  BY <1>3, <1>5 DEF ChainPurchase
<1>7. request[u].pc # "locked" => Chained(Row(u)', holdings', Others(u)')
  BY <1>1, <1>5 DEF ChainPurchase
<1>8. request[u].pc = "minted" => /\ request[u].holding \in DOMAIN holdings'
                                  /\ holdings'[request[u].holding] = Row(u)'
  BY <1>1 DEF ChainPurchase
<1> QED BY <1>4, <1>6, <1>7, <1>8 DEF ChainPurchase

(* The rows of a product that another transaction is buying stay as they   *)
(* are when t touches only rows of its own and of products it has locked.  *)
LEMMA RowsOfAnother ==
    ASSUME IInv, NEW t \in Tx, NEW u \in Tx, u # t, request[u] # NoRequest,
           NEW k \in DOMAIN holdings, holdings[k].product = request[u].product
    PROVE  /\ holdings[k].by # t
           /\ rowLock[holdings[k].product] = u /\ holdings[k].product \in Product
<1>1. rowLock[request[u].product] = u /\ request[u].product \in Product
  BY RequestType DEF IInv, LockInv
<1>2. holdings[k].by # NoTx => rowLock[holdings[k].product] = holdings[k].by
  BY DEF IInv, LockInv
<1> QED BY <1>1, <1>2, TxAssumption

(* The purchase of a product starts behind what is written there.          *)
LEMMA ChainLock ==
    ASSUME IInv, ChainInv, NEW t \in Tx, NEW p \in Product, NEW n \in PurchaseUnits,
           LockSequence(t, p, n)
    PROVE  ChainInv'
<1> DEFINE read == IF rowLock[p] = t THEN written[p] ELSE sequence[p]
           r == [pc |-> "locked", product |-> p, units |-> n, read |-> read,
                 fresh |-> rowLock[p] # t, letter |-> read.letter, start |-> 0,
                 end |-> 0, holding |-> NoTx]
<1>1. /\ request' = [request EXCEPT ![t] = r]
      /\ rowLock' = [rowLock EXCEPT ![p] = t]
      /\ rowLock[p] \in {NoTx, t}
      /\ sequence' = sequence /\ written' = written /\ holdings' = holdings
      /\ request[t] = NoRequest
      /\ n <= ticketsPerLetter
  BY DEF LockSequence, Lockable
<1>2. /\ r.pc = "locked" /\ r.product = p /\ r.read = read /\ r.units = n
      /\ r.holding = NoTx
  OBVIOUS
<1>3. Reached(p, read, {NoTx, t}, holdings, DOMAIN holdings)
  <2>1. CASE rowLock[p] = t BY <2>1, <1>1 DEF ChainInv, ChainCursors
  <2>2. CASE rowLock[p] # t
    BY <2>2, ReachedStays DEF ChainInv, ChainCursors
  <2> QED BY <2>1, <2>2
<1>9. read = written[p] BY <1>1 DEF IInv, LockInv
<1> HIDE DEF read, r
<1>4. request'[t] = r /\ \A q \in Tx \ {t} : request'[q] = request[q]
  BY <1>1 DEF IInv, TypeOK
<1>5. rowLock'[p] = t /\ \A q \in Product \ {p} : rowLock'[q] = rowLock[q]
  BY <1>1 DEF IInv, TypeOK
<1>6. ChainRows' BY <1>1 DEF ChainInv, ChainRows
<1>7. ChainCursors'
  <2>1. \A q \in Product, u \in Tx :
           rowLock'[q] = u /\ ~ (request'[u] # NoRequest /\ request'[u].product = q) =>
              Reached(q, written[q], {NoTx, u}, holdings, DOMAIN holdings)
    <3> SUFFICES ASSUME NEW q \in Product, NEW u \in Tx, rowLock'[q] = u,
                        ~ (request'[u] # NoRequest /\ request'[u].product = q)
                 PROVE  Reached(q, written[q], {NoTx, u}, holdings, DOMAIN holdings)
      OBVIOUS
    <3>1. CASE q = p BY <3>1, <1>3, <1>5, <1>9
    <3>2. CASE q # p
      <4>1. rowLock[q] = u /\ ~ (request[u] # NoRequest /\ request[u].product = q)
        BY <3>2, <1>1, <1>4, <1>5
      <4> QED BY <4>1 DEF ChainInv, ChainCursors
    <3> QED BY <3>1, <3>2
  <2> QED BY <2>1, <1>1 DEF ChainInv, ChainCursors
<1>8. ChainPurchases'
  <2> SUFFICES ASSUME NEW u \in Tx, request'[u] # NoRequest
               PROVE  ChainPurchase(u)'
    BY DEF ChainPurchases
  <2>1. CASE u = t
    <3>1. Others(t)' = DOMAIN holdings
      BY <1>1, <1>2, <1>4, TxAssumption DEF Others, IInv, TypeOK
    <3>2. \A h \in DOMAIN holdings : Chained(holdings[h], holdings, DOMAIN holdings)
      BY DEF ChainInv, ChainRows
    <3> QED BY <2>1, <3>1, <3>2, <1>1, <1>2, <1>3, <1>4 DEF ChainPurchase
  <2>2. CASE u # t
    <3>1. request'[u] = request[u] /\ ChainPurchase(u)
      BY <2>2, <1>4 DEF ChainInv, ChainPurchases
    <3> QED BY <3>1, <1>1, PurchaseStays
  <2> QED BY <2>1, <2>2
<1> QED BY <1>6, <1>7, <1>8 DEF ChainInv

(* The range that is reserved starts behind the cursor that was read.      *)
LEMMA ChainAdvance ==
    ASSUME IInv, ChainInv, NEW t \in Tx, AdvanceSequence(t)
    PROVE  ChainInv'
<1> DEFINE r == request[t]
           p == r.product
<1>r. /\ r # NoRequest /\ r.pc = "locked"
      /\ UNCHANGED <<sequence, rowLock, holdings>>
  BY DEF AdvanceSequence
<1>f. /\ r \in Request /\ p \in Product /\ r.units \in Nat
      /\ r.read.number \in Nat /\ r.units > 0
  BY <1>r, RequestType, CursorType DEF IInv
<1>1. PICK letter \in firstLetter..lastLetter, start \in {0, r.read.number} :
         /\ StartsAt(r, letter, start)
         /\ written' = [written EXCEPT ![p] =
                          [letter |-> letter, number |-> start + r.units - 1 + 1]]
         /\ request' = [request EXCEPT ![t] =
                          [r EXCEPT !.pc = "reserved", !.letter = letter,
                                    !.start = start, !.end = start + r.units - 1]]
  BY DEF AdvanceSequence, Reserves
<1> DEFINE end == start + r.units - 1
           s == [r EXCEPT !.pc = "reserved", !.letter = letter,
                          !.start = start, !.end = end]
<1>2. /\ s.pc = "reserved" /\ s.product = p /\ s.read = r.read /\ s.units = r.units
      /\ s.holding = r.holding /\ s.letter = letter /\ s.start = start /\ s.end = end
  BY <1>f DEF Request
<1>3. start \in Nat /\ end \in Int /\ start + r.units = end + 1 BY <1>f
<1> HIDE DEF end
<1>4. /\ request'[t] = s /\ \A q \in Tx \ {t} : request'[q] = request[q]
      /\ \A q \in Product \ {p} : written'[q] = written[q]
  <2>1. request' = [request EXCEPT ![t] = s] BY <1>1 DEF end
  <2>2. written' = [written EXCEPT ![p] =
                      [letter |-> letter, number |-> start + r.units - 1 + 1]]
    BY <1>1
  <2> HIDE DEF s
  <2> QED BY <2>1, <2>2 DEF IInv, TypeOK
<1>5. rowLock[p] = t /\ ChainPurchase(t)
  BY <1>r DEF IInv, LockInv, ChainInv, ChainPurchases
<1>s. request'[t] # NoRequest
  <2>1. TypeOK' BY AdvanceStep DEF IInv
  <2>2. s \in Request
    <3>1. s \in [pc : {"reserved"}, product : Product, units : Nat \ {0}, read : Cursor,
                 fresh : BOOLEAN, letter : {letter}, start : {start}, end : {end},
                 holding : HoldingId \cup {NoTx}]
      BY <1>f DEF Request
    <3>2. letter \in ticketLetters
      BY <1>1, <1>f, RequestType, <1>r, CursorType DEF StartsAt, IsNextLetter, IInv
    <3>3. end \in Nat BY <1>3, <1>f
    <3> QED BY <3>1, <3>2, <3>3, <1>3 DEF Request
  <2> QED BY <2>2, <1>4, RequestAssumption
<1> HIDE DEF s
<1>6. Others(t)' = Others(t) BY <1>r, <1>2, <1>4 DEF Others
<1>7. Row(t)' = [product |-> p, letter |-> letter, start |-> start, end |-> end, by |-> t]
  BY <1>2, <1>4 DEF Row
<1>8. Chained(Row(t)', holdings, Others(t))
  <2>1. Reached(p, r.read, {NoTx, t}, holdings, Others(t)) BY <1>5 DEF ChainPurchase
  <2>2. CASE Fits(r)
    <3>1. letter = r.read.letter /\ start = r.read.number BY <2>2, <1>1 DEF StartsAt
    <3> QED BY <3>1, <2>1, <1>7 DEF Reached, Chained, Follows
  <2>3. CASE ~ Fits(r)
    <3>1. start = 0 /\ IsNextLetter(r.read.letter, letter) BY <2>3, <1>1 DEF StartsAt
    <3>2. r.units <= ticketsPerLetter BY <1>5 DEF ChainPurchase
    <3>3. r.read.number # 0 /\ r.read.number + (end + 1) > ticketsPerLetter
      BY <3>1, <3>2, <2>3, <1>3, <1>f, CapacityAssumption DEF Fits
    <3>4. PICK k \in Others(t) :
             /\ holdings[k].by \in {NoTx, t} /\ holdings[k].product = p
             /\ holdings[k].letter = r.read.letter /\ holdings[k].end + 1 = r.read.number
      BY <2>1, <3>3 DEF Reached
    <3>5. Follows(Row(t)', holdings[k]) BY <3>1, <3>3, <3>4, <1>7 DEF Follows
    <3> QED BY <3>4, <3>5, <1>7 DEF Chained
  <2> QED BY <2>2, <2>3
<1>9. ChainRows' BY <1>r DEF ChainInv, ChainRows
<1>10. ChainCursors'
  <2>1. \A q \in Product, u \in Tx :
           rowLock[q] = u /\ ~ (request'[u] # NoRequest /\ request'[u].product = q) =>
              Reached(q, written'[q], {NoTx, u}, holdings, DOMAIN holdings)
    BY <1>2, <1>4, <1>5, <1>s DEF ChainInv, ChainCursors
  <2> QED BY <2>1, <1>r DEF ChainInv, ChainCursors
<1>11. ChainPurchases'
  <2> SUFFICES ASSUME NEW u \in Tx, request'[u] # NoRequest
               PROVE  ChainPurchase(u)'
    BY DEF ChainPurchases
  <2>1. CASE u = t
    BY <2>1, <1>r, <1>2, <1>4, <1>5, <1>6, <1>8 DEF ChainPurchase
  <2>2. CASE u # t
    <3>1. request'[u] = request[u] /\ ChainPurchase(u)
      BY <2>2, <1>4 DEF ChainInv, ChainPurchases
    <3> QED BY <3>1, <1>r, PurchaseStays
  <2> QED BY <2>1, <2>2
<1> QED BY <1>9, <1>10, <1>11 DEF ChainInv

(* The holding that is inserted is the row that was reserved for.          *)
LEMMA ChainMint ==
    ASSUME IInv, ChainInv, NEW t \in Tx, NEW h \in HoldingId, MintHolding(t, h)
    PROVE  ChainInv'
<1> DEFINE r == request[t]
           p == r.product
           s == [r EXCEPT !.pc = "minted", !.holding = h]
<1>1. /\ r # NoRequest /\ r.pc = "reserved" /\ h \notin DOMAIN holdings
      /\ holdings' = [x \in DOMAIN holdings \cup {h} |->
                        IF x = h THEN Row(t) ELSE holdings[x]]
      /\ request' = [request EXCEPT ![t] = s]
      /\ UNCHANGED <<sequence, written, rowLock>>
  BY DEF MintHolding, Row
<1>f. r \in Request /\ p \in Product BY <1>1, RequestType DEF IInv
<1>2. /\ s.pc = "minted" /\ s.product = p /\ s.read = r.read /\ s.units = r.units
      /\ s.holding = h /\ s.letter = r.letter /\ s.start = r.start /\ s.end = r.end
      /\ s \in Request
  BY <1>f DEF Request
<1> HIDE DEF s
<1>3. request'[t] = s /\ \A q \in Tx \ {t} : request'[q] = request[q]
  BY <1>1 DEF IInv, TypeOK
<1>4. /\ DOMAIN holdings' = DOMAIN holdings \cup {h} /\ holdings'[h] = Row(t)
      /\ \A k \in DOMAIN holdings : holdings'[k] = holdings[k] /\ k # h
  BY <1>1
<1>5. rowLock[p] = t /\ ChainPurchase(t) /\ r.holding = NoTx
  BY <1>1 DEF IInv, LockInv, PurchaseInv, PurchaseOK, ChainInv, ChainPurchases
<1>6. Others(t) = DOMAIN holdings /\ Others(t)' = DOMAIN holdings
  <2>1. Others(t) = DOMAIN holdings BY <1>5, TxAssumption DEF Others, IInv, TypeOK
  <2>2. Others(t)' = DOMAIN holdings' \ {h} BY <1>2, <1>3 DEF Others
  <2> QED BY <2>1, <2>2, <1>1, <1>4
<1>7. Row(t)' = Row(t) /\ Row(t).product = p BY <1>2, <1>3 DEF Row
<1>8. ASSUME NEW row, NEW T, DOMAIN holdings \subseteq T,
             Chained(row, holdings, DOMAIN holdings)
      PROVE  Chained(row, holdings', T)
  BY <1>4, <1>8, ChainedStays
<1>9. ASSUME NEW q, NEW c, NEW B, NEW T, DOMAIN holdings \subseteq T,
             Reached(q, c, B, holdings, DOMAIN holdings)
      PROVE  Reached(q, c, B, holdings', T)
  BY <1>4, <1>9, ReachedStays
<1>10. Chained(Row(t), holdings, DOMAIN holdings) BY <1>1, <1>5, <1>6 DEF ChainPurchase
<1>11. ChainRows'
  <2>1. \A k \in DOMAIN holdings : Chained(holdings[k], holdings, DOMAIN holdings)
    BY DEF ChainInv, ChainRows
  <2>2. DOMAIN holdings \subseteq DOMAIN holdings' BY <1>4
  <2> QED BY <2>1, <2>2, <1>4, <1>8, <1>10 DEF ChainRows
<1>12. ChainCursors'
  <2>1. \A q \in Product, u \in Tx :
           rowLock[q] = u /\ ~ (request'[u] # NoRequest /\ request'[u].product = q) =>
              Reached(q, written[q], {NoTx, u}, holdings', DOMAIN holdings')
    <3> SUFFICES ASSUME NEW q \in Product, NEW u \in Tx, rowLock[q] = u,
                        ~ (request'[u] # NoRequest /\ request'[u].product = q)
                 PROVE  Reached(q, written[q], {NoTx, u}, holdings', DOMAIN holdings')
      OBVIOUS
    <3>1. ~ (request[u] # NoRequest /\ request[u].product = q)
      BY <1>2, <1>3, RequestAssumption
    <3> QED BY <3>1, <1>4, <1>9 DEF ChainInv, ChainCursors
  <2>2. \A q \in Product : Reached(q, sequence[q], {NoTx}, holdings', DOMAIN holdings')
    BY <1>4, <1>9 DEF ChainInv, ChainCursors
  <2> QED BY <2>1, <2>2, <1>1 DEF ChainCursors
<1>13. ChainPurchases'
  <2> SUFFICES ASSUME NEW u \in Tx, request'[u] # NoRequest
               PROVE  ChainPurchase(u)'
    BY DEF ChainPurchases
  <2>1. CASE u = t
    <3>1. Reached(p, r.read, {NoTx, t}, holdings', DOMAIN holdings)
      BY <1>5, <1>6, <1>9 DEF ChainPurchase
    <3>2. \A k \in DOMAIN holdings : holdings'[k].product = p =>
             Chained(holdings'[k], holdings', DOMAIN holdings)
      BY <1>4, <1>5, <1>6, <1>8 DEF ChainPurchase
    <3>3. Chained(Row(t), holdings', DOMAIN holdings) BY <1>8, <1>10
    <3>4. r.units <= ticketsPerLetter BY <1>5 DEF ChainPurchase
    <3> QED BY <2>1, <3>1, <3>2, <3>3, <3>4, <1>2, <1>3, <1>4, <1>6, <1>7 DEF ChainPurchase
  <2>2. CASE u # t
    <3>1. request'[u] = request[u] /\ ChainPurchase(u) /\ request[u].product # p
      BY <2>2, <1>3, <1>5 DEF ChainInv, ChainPurchases, IInv, LockInv
    <3>2. /\ \A k \in DOMAIN holdings : holdings[k].product = request[u].product =>
                k \in DOMAIN holdings' /\ holdings'[k] = holdings[k]
          /\ \A k \in DOMAIN holdings' : holdings'[k].product = request[u].product =>
                k \in DOMAIN holdings /\ holdings'[k] = holdings[k]
      BY <3>1, <1>4, <1>7
    <3> QED BY <3>1, <3>2, PurchaseStays
  <2> QED BY <2>1, <2>2
<1> QED BY <1>11, <1>12, <1>13 DEF ChainInv

(* A purchase that is through has written what its holding reaches.        *)
LEMMA ChainFinish ==
    ASSUME IInv, ChainInv, NEW t \in Tx, FinishPurchase(t)
    PROVE  ChainInv'
<1> DEFINE r == request[t]
           p == r.product
<1>1. /\ r # NoRequest /\ r.pc = "minted"
      /\ request' = [request EXCEPT ![t] = NoRequest]
      /\ UNCHANGED <<sequence, written, rowLock, holdings>>
  BY DEF FinishPurchase
<1>2. request'[t] = NoRequest /\ \A q \in Tx \ {t} : request'[q] = request[q]
  BY <1>1 DEF IInv, TypeOK
<1>3. /\ written[p] = [letter |-> r.letter, number |-> r.end + 1]
      /\ r.holding \in DOMAIN holdings /\ holdings[r.holding] = Row(t)
      /\ rowLock[p] = t
  BY <1>1 DEF IInv, LockInv, PurchaseInv, PurchaseOK, ChainInv, ChainPurchases, ChainPurchase
<1>4. Reached(p, written[p], {NoTx, t}, holdings, DOMAIN holdings)
  BY <1>3 DEF Reached, Row
<1>5. ChainCursors'
  <2>1. \A q \in Product, u \in Tx :
           rowLock[q] = u /\ ~ (request'[u] # NoRequest /\ request'[u].product = q) =>
              Reached(q, written[q], {NoTx, u}, holdings, DOMAIN holdings)
    BY <1>2, <1>4 DEF ChainInv, ChainCursors
  <2> QED BY <2>1, <1>1 DEF ChainInv, ChainCursors
<1>6. ChainPurchases' BY <1>1, <1>2, PurchaseStays DEF ChainPurchases, ChainInv
<1>7. ChainRows' BY <1>1 DEF ChainInv, ChainRows
<1> QED BY <1>5, <1>6, <1>7 DEF ChainInv

(* No row stands on the holding that an undo takes away.                   *)
LEMMA ChainUndo ==
    ASSUME IInv, ChainInv, NEW t \in Tx, UndoPurchase(t)
    PROVE  ChainInv'
<1> DEFINE r == request[t]
           p == r.product
           lock == IF r.fresh THEN NoTx ELSE t
<1>1. /\ r # NoRequest
      /\ written' = [written EXCEPT ![p] = r.read]
      /\ rowLock' = [rowLock EXCEPT ![p] = lock]
      /\ holdings' = [h \in Others(t) |-> holdings[h]]
      /\ request' = [request EXCEPT ![t] = NoRequest]
      /\ sequence' = sequence
  BY DEF UndoPurchase, AfterUndo, Others
<1>f. p \in Product /\ r.pc \in {"locked", "reserved", "minted"}
  BY <1>1, RequestType DEF IInv
<1>2. /\ DOMAIN holdings' = Others(t) /\ Others(t) \subseteq DOMAIN holdings
      /\ \A h \in Others(t) : holdings'[h] = holdings[h]
  BY <1>1 DEF Others
<1>3. /\ request'[t] = NoRequest /\ \A q \in Tx \ {t} : request'[q] = request[q]
      /\ written'[p] = r.read /\ rowLock'[p] = lock
      /\ \A q \in Product \ {p} : written'[q] = written[q] /\ rowLock'[q] = rowLock[q]
  BY <1>1, <1>f DEF IInv, TypeOK
<1>4. /\ rowLock[p] = t /\ ChainPurchase(t)
      /\ r.pc # "minted" => r.holding = NoTx
      /\ r.fresh => r.read = sequence[p]
  BY <1>1 DEF IInv, LockInv, PurchaseInv, PurchaseOK, ChainInv, ChainPurchases
<1>5. ASSUME NEW k \in DOMAIN holdings, holdings[k].product # p
      PROVE  k \in Others(t)
  <2> SUFFICES ASSUME k = r.holding PROVE FALSE
    BY DEF Others
  <2>1. r.pc = "minted" BY <1>4, <1>f, TxAssumption DEF IInv, TypeOK
  <2> QED BY <2>1, <1>4, <1>5 DEF ChainPurchase, Row
<1>6. r.holding \in DOMAIN holdings => holdings[r.holding].by = t
  <2> SUFFICES ASSUME r.holding \in DOMAIN holdings PROVE holdings[r.holding].by = t
    OBVIOUS
  <2>1. r.pc = "minted" BY <1>4, <1>f, TxAssumption DEF IInv, TypeOK
  <2> QED BY <2>1, <1>4 DEF ChainPurchase, Row
<1>7. \A k \in DOMAIN holdings : holdings[k].by # t => k \in Others(t)
  BY <1>6 DEF Others
<1>8. ASSUME NEW q, NEW c, NEW B, q # p, Reached(q, c, B, holdings, DOMAIN holdings)
      PROVE  Reached(q, c, B, holdings', Others(t))
  BY <1>2, <1>5, <1>8, ReachedStays
<1>9. ChainRows'
  <2> SUFFICES ASSUME NEW h \in Others(t)
               PROVE  Chained(holdings[h], holdings', Others(t))
    BY <1>2 DEF ChainRows
  <2>1. CASE holdings[h].product = p
    <3>1. Chained(holdings[h], holdings, Others(t)) BY <2>1, <1>4 DEF ChainPurchase
    <3> QED BY <3>1, <1>2, ChainedStays
  <2>2. CASE holdings[h].product # p
    <3>1. Chained(holdings[h], holdings, DOMAIN holdings)
      BY <1>2 DEF ChainInv, ChainRows
    <3> QED BY <3>1, <2>2, <1>2, <1>5, ChainedStays
  <2> QED BY <2>1, <2>2
<1>10. ChainCursors'
  <2>1. ASSUME NEW q \in Product
        PROVE  Reached(q, sequence[q], {NoTx}, holdings', Others(t))
    <3>1. Reached(q, sequence[q], {NoTx}, holdings, DOMAIN holdings)
      BY DEF ChainInv, ChainCursors
    <3>2. \A k \in DOMAIN holdings : holdings[k].by \in {NoTx} => k \in Others(t)
      BY <1>7, TxAssumption
    <3> QED BY <3>1, <3>2, <1>2, ReachedStays
  <2>2. ASSUME NEW q \in Product, NEW u \in Tx, rowLock'[q] = u,
               ~ (request'[u] # NoRequest /\ request'[u].product = q)
        PROVE  Reached(q, written'[q], {NoTx, u}, holdings', Others(t))
    <3>1. CASE q = p
      <4>1. u = t BY <3>1, <2>2, <1>3, TxAssumption
      <4>2. Reached(p, r.read, {NoTx, t}, holdings, Others(t)) BY <1>4 DEF ChainPurchase
      <4> QED BY <4>1, <4>2, <3>1, <1>2, <1>3, ReachedStays
    <3>2. CASE q # p
      <4>1. rowLock[q] = u /\ written'[q] = written[q] BY <3>2, <2>2, <1>3
      <4>2. ~ (request[u] # NoRequest /\ request[u].product = q)
        BY <3>2, <2>2, <1>3
      <4>3. Reached(q, written[q], {NoTx, u}, holdings, DOMAIN holdings)
        BY <4>1, <4>2 DEF ChainInv, ChainCursors
      <4> QED BY <4>1, <4>3, <3>2, <1>8
    <3> QED BY <3>1, <3>2
  <2> QED BY <2>1, <2>2, <1>1, <1>2 DEF ChainCursors
<1>11. ChainPurchases'
  <2> SUFFICES ASSUME NEW u \in Tx \ {t}, request[u] # NoRequest
               PROVE  ChainPurchase(u)'
    BY <1>3 DEF ChainPurchases
  <2>1. request'[u] = request[u] /\ ChainPurchase(u) /\ request[u].product # p
    BY <1>3, <1>4 DEF ChainInv, ChainPurchases, IInv, LockInv
  <2>2. /\ \A k \in DOMAIN holdings : holdings[k].product = request[u].product =>
              k \in DOMAIN holdings' /\ holdings'[k] = holdings[k]
        /\ \A k \in DOMAIN holdings' : holdings'[k].product = request[u].product =>
              k \in DOMAIN holdings /\ holdings'[k] = holdings[k]
    BY <2>1, <1>2, <1>5
  <2> QED BY <2>1, <2>2, PurchaseStays
<1> QED BY <1>9, <1>10, <1>11 DEF ChainInv

(* A commit makes the rows of the transaction, and what they stand on,     *)
(* everybody's.                                                            *)
LEMMA ChainCommit ==
    ASSUME IInv, ChainInv, NEW t \in Tx, Commit(t)
    PROVE  ChainInv'
<1>1. /\ request[t] = NoRequest
      /\ sequence' = [p \in Product |-> IF rowLock[p] = t THEN written[p]
                                                          ELSE sequence[p]]
      /\ rowLock' = [p \in Product |-> IF rowLock[p] = t THEN NoTx ELSE rowLock[p]]
      /\ holdings' = [h \in DOMAIN holdings |->
                        IF holdings[h].by = t THEN [holdings[h] EXCEPT !.by = NoTx]
                                              ELSE holdings[h]]
      /\ written' = written /\ request' = request
  BY DEF Commit, LockedBy, Mine
<1>2. \A p \in Product :
         /\ rowLock[p] = t => sequence'[p] = written[p] /\ rowLock'[p] = NoTx
         /\ rowLock[p] # t => sequence'[p] = sequence[p] /\ rowLock'[p] = rowLock[p]
  BY <1>1
<1>3. /\ DOMAIN holdings' = DOMAIN holdings
      /\ \A h \in DOMAIN holdings :
            /\ holdings'[h].product = holdings[h].product
            /\ holdings'[h].letter = holdings[h].letter
            /\ holdings'[h].start = holdings[h].start
            /\ holdings'[h].end = holdings[h].end
            /\ holdings[h].by = t => holdings'[h].by = NoTx
            /\ holdings[h].by # t => holdings'[h] = holdings[h]
  BY <1>1 DEF IInv, TypeOK, Holding
<1>4. ChainRows'
  <2> SUFFICES ASSUME NEW h \in DOMAIN holdings
               PROVE  Chained(holdings'[h], holdings', DOMAIN holdings)
    BY <1>3 DEF ChainRows
  <2>1. Chained(holdings[h], holdings, DOMAIN holdings) BY DEF ChainInv, ChainRows
  <2>2. CASE holdings[h].letter = firstLetter /\ holdings[h].start = 0
    BY <2>2, <1>3 DEF Chained
  <2>3. CASE \E k \in DOMAIN holdings : /\ holdings[k].by \in {NoTx, holdings[h].by}
                                        /\ Follows(holdings[h], holdings[k])
    <3>1. PICK k \in DOMAIN holdings : /\ holdings[k].by \in {NoTx, holdings[h].by}
                                       /\ Follows(holdings[h], holdings[k])
      BY <2>3
    <3>2. Follows(holdings'[h], holdings'[k]) BY <3>1, <1>3 DEF Follows
    <3>3. holdings'[k].by \in {NoTx, holdings'[h].by} BY <3>1, <1>3
    <3> QED BY <3>2, <3>3 DEF Chained
  <2> QED BY <2>1, <2>2, <2>3 DEF Chained
<1>5. ChainCursors'
  <2>1. ASSUME NEW q \in Product
        PROVE  Reached(q, sequence'[q], {NoTx}, holdings', DOMAIN holdings)
    <3>1. CASE rowLock[q] = t
      <4>1. Reached(q, written[q], {NoTx, t}, holdings, DOMAIN holdings)
        BY <3>1, <1>1 DEF ChainInv, ChainCursors
      <4>2. \A k \in DOMAIN holdings : holdings[k].by \in {NoTx, t} => holdings'[k].by = NoTx
        BY <1>3
      <4> QED BY <4>1, <4>2, <3>1, <1>2, <1>3 DEF Reached
    <3>2. CASE rowLock[q] # t
      <4>1. Reached(q, sequence[q], {NoTx}, holdings, DOMAIN holdings)
        BY DEF ChainInv, ChainCursors
      <4> QED BY <4>1, <3>2, <1>2, <1>3, TxAssumption, ReachedStays
    <3> QED BY <3>1, <3>2
  <2>2. ASSUME NEW q \in Product, NEW u \in Tx, rowLock'[q] = u,
               ~ (request[u] # NoRequest /\ request[u].product = q)
        PROVE  Reached(q, written[q], {NoTx, u}, holdings', DOMAIN holdings)
    <3>1. u # t /\ rowLock[q] = u BY <2>2, <1>2, TxAssumption
    <3>2. Reached(q, written[q], {NoTx, u}, holdings, DOMAIN holdings)
      BY <2>2, <3>1 DEF ChainInv, ChainCursors
    <3> QED BY <3>1, <3>2, <1>3, TxAssumption, ReachedStays
  <2> QED BY <2>1, <2>2, <1>1, <1>3 DEF ChainCursors
<1>6. ChainPurchases'
  <2> SUFFICES ASSUME NEW u \in Tx, request[u] # NoRequest
               PROVE  ChainPurchase(u)'
    BY <1>1 DEF ChainPurchases
  <2>1. request'[u] = request[u] /\ ChainPurchase(u) /\ u # t
    BY <1>1 DEF ChainInv, ChainPurchases
  <2>2. \A k \in DOMAIN holdings : holdings[k].product = request[u].product =>
           holdings[k].by # t
    BY <2>1, RowsOfAnother
  <2> QED BY <2>1, <2>2, <1>3, PurchaseStays
<1> QED BY <1>4, <1>5, <1>6 DEF ChainInv

(* What a rollback leaves stood on rows of others.                         *)
LEMMA ChainRollback ==
    ASSUME IInv, ChainInv, NEW t \in Tx, Rollback(t)
    PROVE  ChainInv'
<1> DEFINE Left == {k \in DOMAIN holdings : holdings[k].by # t}
<1>1. /\ written' = [p \in Product |-> IF rowLock[p] = t THEN sequence[p]
                                                         ELSE written[p]]
      /\ rowLock' = [p \in Product |-> IF rowLock[p] = t THEN NoTx ELSE rowLock[p]]
      /\ holdings' = [h \in Left |-> holdings[h]]
      /\ request' = [request EXCEPT ![t] = NoRequest]
      /\ sequence' = sequence
  <2>1. DOMAIN holdings \ Mine(t) = Left BY DEF Mine
  <2> QED BY <2>1 DEF Rollback, LockedBy
<1>2. \A p \in Product : rowLock[p] # t => /\ written'[p] = written[p]
                                           /\ rowLock'[p] = rowLock[p]
  BY <1>1
<1>3. /\ DOMAIN holdings' = Left
      /\ \A h \in Left : h \in DOMAIN holdings /\ holdings'[h] = holdings[h]
      /\ \A h \in DOMAIN holdings : holdings[h].by # t <=> h \in Left
  BY <1>1
<1> HIDE DEF Left
<1>4. request'[t] = NoRequest /\ \A q \in Tx \ {t} : request'[q] = request[q]
  BY <1>1 DEF IInv, TypeOK
<1>5. ChainRows'
  <2> SUFFICES ASSUME NEW h \in Left
               PROVE  Chained(holdings[h], holdings', Left)
    BY <1>3 DEF ChainRows
  <2>1. Chained(holdings[h], holdings, DOMAIN holdings)
    BY <1>3 DEF ChainInv, ChainRows
  <2>2. \A k \in DOMAIN holdings : holdings[k].by \in {NoTx, holdings[h].by} =>
           k \in Left /\ holdings'[k] = holdings[k]
    BY <1>3, TxAssumption
  <2> QED BY <2>1, <2>2, ChainedStays
<1>6. ChainCursors'
  <2>1. ASSUME NEW q, NEW c, NEW u, u # t, Reached(q, c, {NoTx, u}, holdings, DOMAIN holdings)
        PROVE  Reached(q, c, {NoTx, u}, holdings', Left)
    <3>1. \A k \in DOMAIN holdings : holdings[k].by \in {NoTx, u} =>
             k \in Left /\ holdings'[k] = holdings[k]
      BY <1>3, <2>1, TxAssumption
    <3> QED BY <3>1, <2>1, ReachedStays
  <2>2. ASSUME NEW q \in Product
        PROVE  Reached(q, sequence[q], {NoTx}, holdings', Left)
    <3>1. Reached(q, sequence[q], {NoTx}, holdings, DOMAIN holdings)
      BY DEF ChainInv, ChainCursors
    <3>2. \A k \in DOMAIN holdings : holdings[k].by \in {NoTx} =>
             k \in Left /\ holdings'[k] = holdings[k]
      BY <1>3, TxAssumption
    <3> QED BY <3>1, <3>2, ReachedStays
  <2>3. ASSUME NEW q \in Product, NEW u \in Tx, rowLock'[q] = u,
               ~ (request'[u] # NoRequest /\ request'[u].product = q)
        PROVE  Reached(q, written'[q], {NoTx, u}, holdings', Left)
    <3>1. rowLock[q] = u /\ u # t /\ written'[q] = written[q]
      BY <2>3, <1>1, <1>2, TxAssumption
    <3>2. ~ (request[u] # NoRequest /\ request[u].product = q) BY <2>3, <3>1, <1>4
    <3> QED BY <2>1, <3>1, <3>2 DEF ChainInv, ChainCursors
  <2> QED BY <2>2, <2>3, <1>1, <1>3 DEF ChainCursors
<1>7. ChainPurchases'
  <2> SUFFICES ASSUME NEW u \in Tx \ {t}, request[u] # NoRequest
               PROVE  ChainPurchase(u)'
    BY <1>4 DEF ChainPurchases
  <2>1. request'[u] = request[u] /\ ChainPurchase(u)
    BY <1>4 DEF ChainInv, ChainPurchases
  <2>2. \A k \in DOMAIN holdings : holdings[k].product = request[u].product =>
           holdings[k].by # t
    BY RowsOfAnother
  <2> QED BY <2>1, <2>2, <1>3, PurchaseStays
<1> QED BY <1>5, <1>6, <1>7 DEF ChainInv

(* Nothing is issued and every cursor stands at the first ticket.          *)
LEMMA ChainInit == Init => ChainInv
<1> SUFFICES ASSUME Init PROVE ChainInv
  OBVIOUS
<1>1. DOMAIN holdings = {} /\ \A t \in Tx : request[t] = NoRequest
  BY DEF Init, NoHolding
<1>2. \A p \in Product : /\ sequence[p].letter = firstLetter /\ sequence[p].number = 0
                         /\ written[p] = sequence[p]
  BY DEF Init
<1> QED BY <1>1, <1>2 DEF ChainInv, ChainRows, ChainCursors, ChainPurchases, Reached

(* Every step keeps the chain.                                             *)
LEMMA ChainStep == IInv /\ ChainInv /\ [Next]_vars => ChainInv'
<1> SUFFICES ASSUME IInv, ChainInv, [Next]_vars PROVE ChainInv'
  OBVIOUS
<1>1. CASE UNCHANGED vars
  <2>1. UNCHANGED <<sequence, written, rowLock, request, holdings>>
    BY <1>1 DEF vars
  <2>2. ChainRows' /\ ChainCursors'
    BY <2>1 DEF ChainInv, ChainRows, ChainCursors
  <2>3. ChainPurchases' BY <2>1, PurchaseStays DEF ChainInv, ChainPurchases
  <2> QED BY <2>2, <2>3 DEF ChainInv
<1>2. CASE Next
  <2>1. PICK t \in Tx :
           \/ \E p \in Product, n \in PurchaseUnits : LockSequence(t, p, n)
           \/ AdvanceSequence(t)
           \/ \E h \in HoldingId : MintHolding(t, h)
           \/ FinishPurchase(t)
           \/ UndoPurchase(t)
           \/ Commit(t)
           \/ Rollback(t)
    BY <1>2 DEF Next
  <2> QED BY <2>1, ChainLock, ChainAdvance, ChainMint, ChainFinish, ChainUndo,
             ChainCommit, ChainRollback
<1> QED BY <1>1, <1>2

(* A chained row starts behind one that its own transaction can see.       *)
LEMMA ChainSaysWhere ==
    ASSUME IInv, ChainInv
    PROVE  NoHole /\ LettersInOrder
<1>1. \A h \in DOMAIN holdings :
         /\ holdings[h].start \in Nat /\ holdings[h].end \in Nat
         /\ holdings[h].letter \in Int /\ holdings[h].letter \in ticketLetters
  BY LetterAssumption DEF IInv, TypeOK, Holding, ticketLetters
<1>2. ASSUME NEW h \in DOMAIN holdings,
             holdings[h].start > 0 \/ holdings[h].letter # firstLetter
      PROVE  \E k \in DOMAIN holdings : /\ holdings[k].by \in {NoTx, holdings[h].by}
                                        /\ Follows(holdings[h], holdings[k])
  BY <1>1, <1>2 DEF ChainInv, ChainRows, Chained
<1>3. ASSUME NEW h \in DOMAIN holdings, holdings[h].start > 0
      PROVE  \E k \in DOMAIN holdings :
                /\ holdings[k].by \in {NoTx, holdings[h].by}
                /\ holdings[k].product = holdings[h].product
                /\ holdings[k].letter = holdings[h].letter
                /\ holdings[k].end = holdings[h].start - 1
  <2>1. PICK k \in DOMAIN holdings : /\ holdings[k].by \in {NoTx, holdings[h].by}
                                     /\ Follows(holdings[h], holdings[k])
    BY <1>2, <1>3
  <2>2. /\ holdings[k].product = holdings[h].product
        /\ holdings[k].letter = holdings[h].letter
        /\ holdings[k].end = holdings[h].start - 1
    BY <2>1, <1>1, <1>3 DEF Follows
  <2> QED BY <2>1, <2>2
<1>4. ASSUME NEW p \in Product, sequence[p].number > 0
      PROVE  \E k \in DOMAIN holdings :
                /\ holdings[k].by = NoTx
                /\ holdings[k].product = p
                /\ holdings[k].letter = sequence[p].letter
                /\ holdings[k].end = sequence[p].number - 1
  <2>1. Reached(p, sequence[p], {NoTx}, holdings, DOMAIN holdings)
    BY DEF ChainInv, ChainCursors
  <2>2. PICK k \in DOMAIN holdings :
           /\ holdings[k].by \in {NoTx} /\ holdings[k].product = p
           /\ holdings[k].letter = sequence[p].letter
           /\ holdings[k].end + 1 = sequence[p].number
    BY <2>1, <1>4 DEF Reached
  <2> QED BY <2>2, <1>1
<1>5. ASSUME NEW h \in DOMAIN holdings,
             holdings[h].start = 0, holdings[h].letter # firstLetter
      PROVE  \E k \in DOMAIN holdings :
                /\ holdings[k].product = holdings[h].product
                /\ holdings[k].letter < holdings[h].letter
                /\ \A other \in ticketLetters :
                      ~ (holdings[k].letter < other /\ other < holdings[h].letter)
                /\ holdings[k].end + 1 + (holdings[h].end + 1) > ticketsPerLetter
  <2>1. PICK k \in DOMAIN holdings : Follows(holdings[h], holdings[k])
    BY <1>2, <1>5
  <2>2. /\ holdings[k].product = holdings[h].product
        /\ IsNextLetter(holdings[k].letter, holdings[h].letter)
        /\ holdings[k].end + 1 + (holdings[h].end + 1) > ticketsPerLetter
    BY <2>1, <1>1, <1>5 DEF Follows
  <2>3. \A other \in ticketLetters : other \in Int
    BY LetterAssumption DEF ticketLetters
  <2>4. /\ holdings[k].letter < holdings[h].letter
        /\ \A other \in ticketLetters :
              ~ (holdings[k].letter < other /\ other < holdings[h].letter)
    BY <2>2, <2>3, <1>1 DEF IsNextLetter
  <2> QED BY <2>2, <2>4
<1> QED BY <1>3, <1>4, <1>5 DEF NoHole, LettersInOrder

-----------------------------------------------------------------------------
(***************************************************************************)
(* Which reservations the schema refuses.                                  *)
(***************************************************************************)

(* A cursor always points into its block, and no purchase is larger than a *)
(* block.                                                                  *)
FillInv ==
    /\ \A p \in Product : /\ sequence[p].number < ticketsPerLetter
                         /\ written[p].number < ticketsPerLetter
    /\ \A t \in Tx : request[t] # NoRequest =>
          /\ request[t].units <= ticketsPerLetter
          /\ request[t].read.number < ticketsPerLetter

(* Every step keeps the cursors within their blocks.                       *)
LEMMA FillStep == IInv /\ FillInv /\ [Next]_vars => FillInv'
<1> SUFFICES ASSUME IInv, FillInv, [Next]_vars PROVE FillInv'
  OBVIOUS
<1>f. /\ sequence \in [Product -> Cursor] /\ written \in [Product -> Cursor]
      /\ request \in [Tx -> Request \cup {NoRequest}]
  BY DEF IInv, TypeOK
<1>1. CASE UNCHANGED vars BY <1>1 DEF vars, FillInv
<1>2. ASSUME NEW t \in Tx, NEW p \in Product, NEW n \in PurchaseUnits,
             LockSequence(t, p, n)
      PROVE  FillInv'
  <2> DEFINE read == IF rowLock[p] = t THEN written[p] ELSE sequence[p]
             s == [pc |-> "locked", product |-> p, units |-> n,
                   read |-> read, fresh |-> rowLock[p] # t,
                   letter |-> read.letter, start |-> 0, end |-> 0, holding |-> NoTx]
  <2>1. /\ n <= ticketsPerLetter /\ request' = [request EXCEPT ![t] = s]
        /\ UNCHANGED <<sequence, written>>
    BY <1>2 DEF LockSequence
  <2>2. s.units = n /\ s.read = read OBVIOUS
  <2>3. read.number < ticketsPerLetter BY DEF FillInv
  <2> HIDE DEF s, read
  <2>4. \A x \in Tx : request'[x] = IF x = t THEN s ELSE request[x] BY <2>1, <1>f
  <2> QED BY <2>1, <2>2, <2>3, <2>4 DEF FillInv
<1>3. ASSUME NEW t \in Tx, AdvanceSequence(t) PROVE FillInv'
  <2> DEFINE r == request[t]
             p == r.product
  <2>1. /\ r # NoRequest /\ UNCHANGED sequence
        /\ r \in Request /\ p \in Product /\ r.units \in Nat /\ r.read \in Cursor
    BY <1>3, RequestType DEF AdvanceSequence, IInv
  <2>2. PICK letter \in firstLetter..lastLetter, start \in {0, r.read.number} :
           /\ CursorCheck(start + r.units)
           /\ written' = [written EXCEPT ![p] =
                            [letter |-> letter, number |-> start + r.units - 1 + 1]]
           /\ request' = [request EXCEPT ![t] =
                            [r EXCEPT !.pc = "reserved", !.letter = letter,
                                      !.start = start, !.end = start + r.units - 1]]
    BY <1>3 DEF AdvanceSequence, Reserves
  <2> DEFINE s == [r EXCEPT !.pc = "reserved", !.letter = letter,
                            !.start = start, !.end = start + r.units - 1]
             c == [letter |-> letter, number |-> start + r.units - 1 + 1]
  <2>3. s.units = r.units /\ s.read = r.read BY <2>1 DEF Request
  <2>4. start \in Int BY <2>1 DEF Cursor
  <2>5. c.number < ticketsPerLetter
    BY <2>1, <2>2, <2>4, CapacityAssumption DEF CursorCheck
  <2> HIDE DEF s, c
  <2>6. \A x \in Tx : request'[x] = IF x = t THEN s ELSE request[x] BY <2>2, <1>f DEF s
  <2>7. \A q \in Product : written'[q] = IF q = p THEN c ELSE written[q]
    BY <2>2, <1>f DEF c
  <2>8. \A q \in Product : /\ sequence'[q].number < ticketsPerLetter
                          /\ written'[q].number < ticketsPerLetter
    BY <2>1, <2>5, <2>7 DEF FillInv
  <2>9. r.units <= ticketsPerLetter /\ r.read.number < ticketsPerLetter
    BY <2>1 DEF FillInv
  <2>10. \A x \in Tx : request'[x] # NoRequest =>
            /\ request'[x].units <= ticketsPerLetter
            /\ request'[x].read.number < ticketsPerLetter
    <3> HIDE DEF r
    <3> QED BY <2>3, <2>6, <2>9 DEF FillInv
  <2> QED BY <2>8, <2>10 DEF FillInv
<1>4. ASSUME NEW t \in Tx, NEW h \in HoldingId, MintHolding(t, h) PROVE FillInv'
  <2> DEFINE r == request[t]
             s == [r EXCEPT !.pc = "minted", !.holding = h]
  <2>1. /\ r # NoRequest /\ r \in Request
        /\ request' = [request EXCEPT ![t] = s] /\ UNCHANGED <<sequence, written>>
    BY <1>4, RequestType DEF MintHolding, IInv
  <2>2. s.units = r.units /\ s.read = r.read BY <2>1 DEF Request
  <2> HIDE DEF s
  <2>3. \A x \in Tx : request'[x] = IF x = t THEN s ELSE request[x] BY <2>1, <1>f
  <2> QED BY <2>1, <2>2, <2>3 DEF FillInv
<1>5. ASSUME NEW t \in Tx, FinishPurchase(t) PROVE FillInv'
  BY <1>5, <1>f DEF FinishPurchase, FillInv
<1>6. ASSUME NEW t \in Tx, UndoPurchase(t) PROVE FillInv'
  <2>1. /\ request[t] # NoRequest /\ UNCHANGED sequence
        /\ written' = [written EXCEPT ![request[t].product] = request[t].read]
        /\ request' = [request EXCEPT ![t] = NoRequest]
    BY <1>6 DEF UndoPurchase, AfterUndo
  <2> QED BY <2>1, <1>f DEF FillInv
<1>7. ASSUME NEW t \in Tx, Commit(t) PROVE FillInv'
  BY <1>7 DEF Commit, FillInv
<1>8. ASSUME NEW t \in Tx, Rollback(t) PROVE FillInv'
  BY <1>8, <1>f DEF Rollback, FillInv
<1> QED BY <1>1, <1>2, <1>3, <1>4, <1>5, <1>6, <1>7, <1>8 DEF Next

(* A nonempty set of numbers has a least one.                              *)
LEMMA LeastNumber ==
    ASSUME NEW T, T \subseteq Nat, T # {}
    PROVE  \E x \in T : \A y \in T : x <= y
<1>1. PICK x \in T : \A y \in T : ~ (<<y, x>> \in OpToRel(<, Nat))
  BY NatLessThanWellFounded, WFMin
<1>2. \A y \in T : ~ (y < x) BY <1>1 DEF OpToRel
<1> QED BY <1>2

(* A letter that is not the last one has a next one.                       *)
LEMMA NextLetterExists ==
    ASSUME NEW l \in ticketLetters, \E n \in ticketLetters : n > l
    PROVE  \E n \in firstLetter..lastLetter : IsNextLetter(l, n)
<1> DEFINE T == {n \in ticketLetters : n > l}
<1>1. T \subseteq Nat /\ T # {} BY LetterAssumption DEF ticketLetters
<1> HIDE DEF T
<1>2. PICK n \in T : \A y \in T : n <= y BY <1>1, LeastNumber
<1>3. n \in ticketLetters /\ n > l /\ \A y \in ticketLetters : y > l => n <= y
  BY <1>2 DEF T
<1> QED BY <1>3 DEF IsNextLetter, ticketLetters

(* A reservation is refused exactly when it would use up a letter.         *)
LEMMA RefusedMeansExact == IInv /\ FillInv => OnlyExactFillFails
<1> SUFFICES ASSUME IInv, FillInv, NEW t \in Tx, request[t] # NoRequest,
                    \E next \in ticketLetters : next > request[t].read.letter
             PROVE  (\E letter \in firstLetter..lastLetter,
                        start \in {0, request[t].read.number} :
                           Reserves(request[t], letter, start))
                    <=> request[t].units \notin
                           {ticketsPerLetter - request[t].read.number, ticketsPerLetter}
  BY DEF OnlyExactFillFails
<1> DEFINE r == request[t]
           n == r.read.number
           u == r.units
           l == r.read.letter
<1>1. /\ n \in Nat /\ u \in Nat \ {0} /\ l \in ticketLetters
      /\ n < ticketsPerLetter /\ u <= ticketsPerLetter
      /\ ticketsPerLetter \in Nat \ {0}
  BY RequestType, CursorType, CapacityAssumption DEF IInv, FillInv
<1>2. l \in firstLetter..lastLetter BY <1>1 DEF ticketLetters
<1>3. PICK next \in firstLetter..lastLetter : IsNextLetter(l, next)
  BY <1>1, NextLetterExists
<1>4. Fits(r) <=> u <= ticketsPerLetter - n BY DEF Fits
<1>5. CASE Fits(r)
  <2>1. \A letter, start : Reserves(r, letter, start) <=>
           letter = l /\ start = n /\ CursorCheck(n + u)
    BY <1>5 DEF Reserves, StartsAt
  <2>2. CursorCheck(n + u) <=> u # ticketsPerLetter - n
    BY <1>1, <1>4, <1>5 DEF CursorCheck
  <2>3. u = ticketsPerLetter => u = ticketsPerLetter - n
    BY <1>1, <1>4, <1>5
  <2> HIDE DEF l, n, u, r
  <2>4. (\E letter \in firstLetter..lastLetter, start \in {0, n} :
            Reserves(r, letter, start)) <=> CursorCheck(n + u)
    BY <2>1, <1>2
  <2>5. u # ticketsPerLetter - n <=> u \notin {ticketsPerLetter - n, ticketsPerLetter}
    BY <2>3
  <2> QED BY <2>2, <2>4, <2>5 DEF l, n, u, r
<1>6. CASE ~ Fits(r)
  <2>1. \A letter, start : Reserves(r, letter, start) <=>
           IsNextLetter(l, letter) /\ start = 0 /\ CursorCheck(start + u)
    BY <1>6 DEF Reserves, StartsAt
  <2>2. CursorCheck(0 + u) <=> u # ticketsPerLetter
    BY <1>1 DEF CursorCheck
  <2>3. u # ticketsPerLetter - n BY <1>1, <1>4, <1>6
  <2> HIDE DEF l, n, u, r
  <2>4. (\E letter \in firstLetter..lastLetter, start \in {0, n} :
            Reserves(r, letter, start)) <=> CursorCheck(0 + u)
    BY <2>1, <1>3
  <2>5. u # ticketsPerLetter <=> u \notin {ticketsPerLetter - n, ticketsPerLetter}
    BY <2>3
  <2> QED BY <2>2, <2>4, <2>5 DEF l, n, u, r
<1> QED BY <1>5, <1>6

-----------------------------------------------------------------------------
(* The strengthened invariant holds in every reachable state.              *)
THEOREM Invariant == Spec => []IInv
BY InitInvariant, StepInvariant, PTL DEF Spec

(* Cursors stay on ticket letters, rows and requests well-typed.           *)
THEOREM TypeCorrect == Spec => []TypeOK
BY Invariant, PTL DEF IInv

(* No two holdings ever share a ticket: the row lock alone rules it out,   *)
(* whatever is undone, rolled back or committed, and in whatever order.    *)
THEOREM TicketsAreUnique == Spec => []NoOverlap
BY Invariant, PTL DEF IInv

(* The chain of rows is never broken.                                      *)
THEOREM ChainInvariant == Spec => []ChainInv
BY Invariant, ChainInit, ChainStep, PTL DEF Spec

(* Within a letter the tickets are issued from 0 on without a gap, up to   *)
(* the committed cursor, whatever purchases fail and however.              *)
THEOREM FailuresLeaveNoHole == Spec => []NoHole
BY Invariant, ChainInvariant, ChainSaysWhere, PTL

(* A letter is left only for the next one, and only by a range its block   *)
(* had no room for.                                                        *)
THEOREM LettersAreUsedUp == Spec => []LettersInOrder
BY Invariant, ChainInvariant, ChainSaysWhere, PTL

(* While there is a next letter, a reservation is refused exactly if it    *)
(* would use up a letter to its last number.                               *)
THEOREM OnlyExactFillsAreRefused == Spec => []OnlyExactFillFails
<1>1. Init => FillInv BY CapacityAssumption DEF Init, FillInv
<1> QED BY <1>1, FillStep, RefusedMeansExact, Invariant, PTL DEF Spec

(* A committed cursor only ever moves forward.                             *)
THEOREM CursorsAdvance == Spec => CursorAdvances
<1>1. IInv /\ [Next]_vars => [CursorStep]_vars BY StepInvariant
<1>2. Spec => [][CursorStep]_vars BY <1>1, Invariant, PTL DEF Spec
<1> QED BY <1>2, PTL DEF CursorAdvances, CursorStep
=============================================================================
