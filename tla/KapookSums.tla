----------------------------- MODULE KapookSums -----------------------------
(***************************************************************************)
(* The properties of Kapook that add up holdings.                          *)
(***************************************************************************)
EXTENDS Kapook, Sums

FaceValue == [h \in DOMAIN holdings |-> holdings[h].amount]

LiveOf(u) == {h \in DOMAIN holdings : holdings[h].owner = u /\ ~ holdings[h].settled}

LiveFrom(g) == {h \in DOMAIN holdings : holdings[h].goal = g /\ ~ holdings[h].settled}

(* The balance of a salak account is the face value of the user's holdings *)
(* that are not settled, so every one of them can be paid out.             *)
SalakAccountCovers == \A u \in User : salak[u] = Total(FaceValue, LiveOf(u))

(* salakAmount of a goal is the face value of its live holdings: the       *)
(* clamp at zero in SettleMaturedHolding never hides a shortfall.          *)
GoalSalakIsLive ==
    \A g \in DOMAIN goals : goals[g].salakAmount = Total(FaceValue, LiveFrom(g))
=============================================================================
