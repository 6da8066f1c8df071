SPECIFICATION Spec
CONSTANTS
    Product = {p1, p2}
    Tx = {t1, t2, w1}
    Pass = {w1}
    NoTx = NoTx
    NoRequest = NoRequest
    HoldingId = {h1, h2, h3, h4}
    firstLetter = 1
    lastLetter = 4
    Vowel = {3}
    ticketsPerLetter = 6
    PurchaseUnits = {1, 2, 3, 4, 6}
SYMMETRY Symmetry
INVARIANTS
    NoOverlap
    NoHole
    LettersInOrder
    
