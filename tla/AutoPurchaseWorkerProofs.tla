---------------------- MODULE AutoPurchaseWorkerProofs ----------------------
(***************************************************************************)
(* Passes of the worker and requests of customers: a goal is closed once,  *)
(* never before its time, and dated on a draw day only over midnight, for  *)
(* every number of replicas, customers and goals and every calendar.       *)
(***************************************************************************)
EXTENDS AutoPurchaseWorker, TLAPS

PassType == [pc : {"idle", "started", "working", "minting", "deferring", "failing"},
             now : Nat, todo : SUBSET GoalId, goal : GoalId \cup {NoGoal}]

(* Only a pass leaves a row of its own behind the lock it holds, and the   *)
(* committed row under a lock is still the open goal that was locked: for  *)
(* a pass, one that was due when the pass began.                           *)
RowOK(g) ==
    /\ rowLock[g] \notin Replica => written[g] = goals[g]
    /\ rowLock[g] # NoTx => goals[g].fate = "open"
    /\ rowLock[g] \in Replica =>
          /\ pass[rowLock[g]].pc \notin {"idle", "started"}
          /\ Due(g, pass[rowLock[g]].now)
          /\ written[g].fate \in {"open", "auto"}

(* What a pass has left to do it has locked; the goal it is at is one of   *)
(* these, and was open for purchase on a day since the pass began.         *)
PassOK(w) ==
    /\ pass[w].now <= now
    /\ \A g \in pass[w].todo : rowLock[g] = w
    /\ pass[w].pc \in {"minting", "deferring", "failing"} =>
          pass[w].goal \in pass[w].todo
    /\ pass[w].pc = "minting" =>
          \E d \in pass[w].now..now : ~ IsDrawDay(productOf[pass[w].goal], d)

PassInv ==
    /\ TypeOK
    /\ \A g \in GoalId : RowOK(g)
    /\ \A w \in Replica : PassOK(w)

(* What a step may do to the fate and the date of a goal.                  *)
DatedStep(g) ==
    /\ written[g].fate = "open" /\ written'[g].fate = "auto"
    /\ IsDrawDay(productOf[g], written'[g].purchaseDate)
    => pass[rowLock[g]].now < written'[g].purchaseDate

RowStep == \A g \in GoalId : CloseStep(g) /\ DatedStep(g)

-----------------------------------------------------------------------------
(* Rows, passes and the clock have their types.                            *)
LEMMA Types ==
    ASSUME TypeOK
    PROVE  /\ now \in Nat /\ now \in Int /\ Countdown \in Nat
           /\ \A g \in GoalId :
                 /\ goals[g] \in Goal /\ written[g] \in Goal
                 /\ rowLock[g] \in Replica \cup Customer \cup {NoTx}
                 /\ goals[g].reachedAt \in Int /\ goals[g].deferredUntil \in Int
           /\ \A w \in Replica : /\ pass[w] \in PassType
                                 /\ pass[w].now \in Nat /\ pass[w].now \in Int
                                 /\ pass[w].todo \subseteq GoalId
BY DayAssumption DEF TypeOK, PassType, Goal, Never

(* A goal that was due to a pass is due by now.                            *)
LEMMA DueByNow ==
    ASSUME TypeOK, NEW g \in GoalId, NEW w \in Replica, pass[w].now <= now,
           Due(g, pass[w].now)
    PROVE  /\ goals[g].fate = "open"
           /\ goals[g].reachedAt + Countdown <= now
           /\ goals[g].deferredUntil <= now
<1>1. /\ now \in Nat /\ Countdown \in Nat /\ pass[w].now \in Nat
      /\ goals[g].reachedAt \in Int /\ goals[g].deferredUntil \in Int
  BY Types
<1> QED BY <1>1 DEF Due, Never

(* A step of replica w that changes no committed row and no lock: at most  *)
(* the newest version of the goal it is at, whose fate stays open or turns *)
(* auto.                                                                   *)
LEMMA WorkStep ==
    ASSUME PassInv, NEW w \in Replica, NEW g \in GoalId, NEW row \in Goal,
           NEW p \in PassType,
           rowLock[g] = w,
           rowLock' = rowLock, goals' = goals, UNCHANGED outside,
           written' = [written EXCEPT ![g] = row],
           pass' = [pass EXCEPT ![w] = p],
           row.fate \in {"open", "auto"},
           p.now = pass[w].now, p.todo \subseteq pass[w].todo,
           p.pc \in {"working", "minting", "deferring", "failing"},
           p.pc # "working" => p.goal \in p.todo,
           p.pc = "minting" => \E d \in p.now..now : ~ IsDrawDay(productOf[p.goal], d),
           written[g].fate = "open" /\ row.fate = "auto"
              /\ IsDrawDay(productOf[g], row.purchaseDate)
              => pass[w].now < row.purchaseDate
    PROVE  PassInv' /\ RowStep
<1>1. /\ pass'[w] = p /\ \A v \in Replica \ {w} : pass'[v] = pass[v]
      /\ written'[g] = row /\ \A h \in GoalId \ {g} : written'[h] = written[h]
      /\ now' = now
  BY DEF PassInv, TypeOK, outside, environment
<1>2. TypeOK'
  <2>1. pass' \in [Replica -> PassType] BY DEF PassInv, TypeOK, PassType
  <2>2. written' \in [GoalId -> Goal] BY DEF PassInv, TypeOK
  <2> QED BY <2>1, <2>2 DEF PassInv, TypeOK, PassType, outside, environment
<1>3. ASSUME NEW h \in GoalId PROVE RowOK(h)'
  <2>1. RowOK(h) BY DEF PassInv
  <2>2. CASE h = g
    <3>1. goals[g].fate = "open" /\ Due(g, pass[w].now)
      BY <2>1, <2>2 DEF RowOK, Due
    <3> QED BY <3>1, <2>2, <1>1 DEF RowOK, Due
  <2>3. CASE h # g
    BY <2>1, <2>3, <1>1 DEF RowOK, Due
  <2> QED BY <2>2, <2>3
<1>4. ASSUME NEW v \in Replica PROVE PassOK(v)'
  <2>1. PassOK(v) BY DEF PassInv
  <2>2. CASE v = w BY <2>1, <2>2, <1>1 DEF PassOK, IsDrawDay
  <2>3. CASE v # w BY <2>1, <2>3, <1>1 DEF PassOK, IsDrawDay
  <2> QED BY <2>2, <2>3
<1>5. ASSUME NEW h \in GoalId PROVE CloseStep(h) /\ DatedStep(h)
  BY <1>1 DEF CloseStep, DatedStep
<1> QED BY <1>2, <1>3, <1>4, <1>5 DEF PassInv, RowStep


-----------------------------------------------------------------------------
(* The start of a pass: it has locked nothing yet.                         *)
LEMMA StartStep ==
    ASSUME PassInv, NEW w \in Replica, StartPass(w)
    PROVE  PassInv' /\ RowStep
<1> DEFINE p == [Idle EXCEPT !.pc = "started", !.now = now]
<1>1. /\ pass[w].pc = "idle" /\ pass' = [pass EXCEPT ![w] = p]
      /\ goals' = goals /\ written' = written /\ rowLock' = rowLock
      /\ UNCHANGED outside
  BY DEF StartPass
<1>2. now' = now BY <1>1 DEF outside, environment
<1>4. p \in PassType /\ p.pc = "started" /\ p.now = now /\ p.todo = {}
  BY Types DEF PassInv, PassType, Idle
<1> HIDE DEF p
<1>5. pass'[w] = p /\ \A v \in Replica \ {w} : pass'[v] = pass[v]
  BY <1>1 DEF PassInv, TypeOK
<1>6. TypeOK'
  <2>1. pass' \in [Replica -> PassType] BY <1>1, <1>4 DEF PassInv, TypeOK, PassType
  <2> QED BY <2>1, <1>1 DEF PassInv, TypeOK, PassType, outside, environment
<1>7. ASSUME NEW g \in GoalId PROVE RowOK(g)'
  <2>1. RowOK(g) BY DEF PassInv
  <2>2. rowLock[g] # w BY <2>1, <1>1 DEF RowOK
  <2> QED BY <2>1, <2>2, <1>1, <1>5 DEF RowOK, Due
<1>8. ASSUME NEW v \in Replica PROVE PassOK(v)'
  <2>1. PassOK(v) BY DEF PassInv
  <2>2. CASE v = w BY <2>2, <1>2, <1>4, <1>5, Types DEF PassOK, PassInv
  <2>3. CASE v # w BY <2>1, <2>3, <1>1, <1>2, <1>5 DEF PassOK, IsDrawDay
  <2> QED BY <2>2, <2>3
<1>9. RowStep BY <1>1 DEF RowStep, CloseStep, DatedStep
<1> QED BY <1>6, <1>7, <1>8, <1>9 DEF PassInv

(* The claim locks due goals that nobody else has.                         *)
LEMMA ClaimStep ==
    ASSUME PassInv, NEW w \in Replica, ClaimDueGoals(w)
    PROVE  PassInv' /\ RowStep
<1>1. PICK batch \in SUBSET {g \in GoalId : Due(g, pass[w].now) /\ rowLock[g] = NoTx} :
         /\ rowLock' = [g \in GoalId |-> IF g \in claimedLocks(batch)
                                         THEN w ELSE rowLock[g]]
         /\ pass' = [pass EXCEPT ![w].pc = "working", ![w].todo = batch]
  BY DEF ClaimDueGoals
<1>2. /\ pass[w].pc = "started"
      /\ goals' = goals /\ written' = written /\ UNCHANGED outside
  BY DEF ClaimDueGoals
<1>3. now' = now BY <1>2 DEF outside, environment
<1>4. /\ batch \subseteq GoalId
      /\ \A g \in batch : Due(g, pass[w].now) /\ rowLock[g] = NoTx
  BY <1>1
<1> DEFINE p == [pass[w] EXCEPT !.pc = "working", !.todo = batch]
<1>5. pass' = [pass EXCEPT ![w] = p] BY <1>1 DEF PassInv, TypeOK
<1>6. p \in PassType /\ p.pc = "working" /\ p.now = pass[w].now /\ p.todo = batch
  BY <1>4, Types DEF PassInv, PassType
<1> HIDE DEF p
<1>7. pass'[w] = p /\ \A v \in Replica \ {w} : pass'[v] = pass[v]
  BY <1>5 DEF PassInv, TypeOK
<1>8. /\ \A g \in batch : rowLock'[g] = w
      /\ \A g \in GoalId \ batch : rowLock'[g] = rowLock[g]
  BY <1>1, <1>4 DEF claimedLocks
<1>9. TypeOK'
  <2>1. pass' \in [Replica -> PassType] BY <1>5, <1>6 DEF PassInv, TypeOK, PassType
  <2>2. rowLock' \in [GoalId -> Replica \cup Customer \cup {NoTx}]
    BY <1>1 DEF PassInv, TypeOK
  <2> QED BY <2>1, <2>2, <1>2 DEF PassInv, TypeOK, PassType, outside, environment
<1>10. ASSUME NEW g \in GoalId PROVE RowOK(g)'
  <2>1. RowOK(g) BY DEF PassInv
  <2>2. CASE g \in batch
    <3>1. /\ rowLock[g] \notin Replica /\ written[g] = goals[g]
          /\ Due(g, pass[w].now) /\ goals[g].fate = "open"
      BY <2>1, <2>2, <1>4, GoalAssumption DEF RowOK, Due
    <3> QED BY <3>1, <2>2, <1>2, <1>6, <1>7, <1>8 DEF RowOK, Due
  <2>3. CASE g \notin batch
    <3>1. rowLock[g] # w BY <2>1, <1>2 DEF RowOK
    <3> QED BY <2>1, <2>3, <3>1, <1>2, <1>7, <1>8 DEF RowOK, Due
  <2> QED BY <2>2, <2>3
<1>11. ASSUME NEW v \in Replica PROVE PassOK(v)'
  <2>1. PassOK(v) BY DEF PassInv
  <2>2. CASE v = w BY <2>1, <2>2, <1>3, <1>6, <1>7, <1>8 DEF PassOK
  <2>3. CASE v # w
    <3>1. \A g \in pass[v].todo : rowLock'[g] = v
      <4> SUFFICES ASSUME NEW g \in pass[v].todo PROVE rowLock'[g] = v
        OBVIOUS
      <4>1. rowLock[g] = v /\ g \in GoalId BY <2>1, Types DEF PassOK, PassInv
      <4>2. g \notin batch BY <4>1, <1>4, GoalAssumption
      <4> QED BY <4>1, <4>2, <1>8
    <3> QED BY <3>1, <2>1, <2>3, <1>3, <1>7 DEF PassOK, IsDrawDay
  <2> QED BY <2>2, <2>3
<1>12. RowStep BY <1>2 DEF RowStep, CloseStep, DatedStep
<1> QED BY <1>9, <1>10, <1>11, <1>12 DEF PassInv

(* The draw-day guard is asked between the start of the pass and the       *)
(* purchase.                                                               *)
LEMMA BeginStep ==
    ASSUME PassInv, NEW w \in Replica, NEW g \in GoalId, BeginPurchase(w, g)
    PROVE  PassInv' /\ RowStep
<1>1. PICK outcome \in {"failing", "deferring", "minting"} :
         /\ outcome = "minting" => EnsureNotDrawDay(productOf[g])
         /\ pass' = [pass EXCEPT ![w].pc = outcome, ![w].goal = g]
  BY DEF BeginPurchase
<1>2. /\ g \in pass[w].todo
      /\ rowLock' = [rowLock EXCEPT ![g] = w]
      /\ goals' = goals /\ written' = written /\ UNCHANGED outside
  BY DEF BeginPurchase
<1>3. PassOK(w) /\ rowLock[g] = w BY <1>2 DEF PassInv, PassOK
<1> DEFINE p == [pass[w] EXCEPT !.pc = outcome, !.goal = g]
<1>4. pass' = [pass EXCEPT ![w] = p] BY <1>1 DEF PassInv, TypeOK
<1>5. /\ p \in PassType /\ p.pc = outcome /\ p.now = pass[w].now
      /\ p.todo = pass[w].todo /\ p.goal = g
  BY Types DEF PassInv, PassType
<1> HIDE DEF p
<1>6. rowLock' = rowLock BY <1>2, <1>3 DEF PassInv, TypeOK
<1>7. written' = [written EXCEPT ![g] = written[g]] BY <1>2 DEF PassInv, TypeOK
<1>8. written[g] \in Goal /\ written[g].fate \in {"open", "auto"}
  BY <1>3, Types DEF PassInv, RowOK
<1>9. outcome = "minting" => \E d \in pass[w].now..now : ~ IsDrawDay(productOf[g], d)
  <2>1. now \in pass[w].now..now BY <1>3, Types DEF PassOK, PassInv
  <2> QED BY <2>1, <1>1 DEF EnsureNotDrawDay
<1> QED BY <1>2, <1>3, <1>4, <1>5, <1>6, <1>7, <1>8, <1>9, WorkStep, ZenonT(60)

(* The goal that is bought was due, and its date is the day the holding is *)
(* minted; the guard may have been asked the day before.                   *)
LEMMA BuyStep ==
    ASSUME PassInv, NEW w \in Replica, BuyFromGoalInTx(w)
    PROVE  PassInv' /\ RowStep
<1> DEFINE g == pass[w].goal
           fails == [pass[w] EXCEPT !.pc = "failing"]
           goes == [pass[w] EXCEPT !.pc = "working", !.todo = pass[w].todo \ {g},
                                   !.goal = NoGoal]
           row == Bought(written[g], "auto")
<1>1. /\ pass[w].pc = "minting"
      /\ goals' = goals /\ rowLock' = rowLock /\ UNCHANGED outside
      /\ \/ pass' = [pass EXCEPT ![w].pc = "failing"] /\ written' = written
         \/ /\ pass' = [pass EXCEPT ![w].pc = "working",
                                    ![w].todo = @ \ {g}, ![w].goal = NoGoal]
            /\ written' = [written EXCEPT ![g] = Bought(@, "auto")]
  BY DEF BuyFromGoalInTx
<1>2. /\ PassOK(w) /\ g \in pass[w].todo /\ g \in GoalId /\ rowLock[g] = w
      /\ \E d \in pass[w].now..now : ~ IsDrawDay(productOf[g], d)
  BY <1>1, Types DEF PassInv, PassOK
<1>3. written[g] \in Goal /\ written[g].fate \in {"open", "auto"}
  BY <1>2, Types DEF PassInv, RowOK
<1>4. CASE pass' = [pass EXCEPT ![w].pc = "failing"] /\ written' = written
  <2>1. pass' = [pass EXCEPT ![w] = fails] BY <1>4 DEF PassInv, TypeOK
  <2>2. /\ fails \in PassType /\ fails.pc = "failing" /\ fails.now = pass[w].now
        /\ fails.todo = pass[w].todo /\ fails.goal = g
    BY Types DEF PassInv, PassType
  <2>3. written' = [written EXCEPT ![g] = written[g]]
    BY <1>4 DEF PassInv, TypeOK
  <2> HIDE DEF fails, g
  <2> QED BY <2>1, <2>2, <2>3, <1>1, <1>2, <1>3, WorkStep
<1>5. CASE /\ pass' = [pass EXCEPT ![w].pc = "working",
                                   ![w].todo = @ \ {g}, ![w].goal = NoGoal]
           /\ written' = [written EXCEPT ![g] = Bought(@, "auto")]
  <2>1. pass' = [pass EXCEPT ![w] = goes] BY <1>5 DEF PassInv, TypeOK
  <2>2. /\ goes \in PassType /\ goes.pc = "working" /\ goes.now = pass[w].now
        /\ goes.todo \subseteq pass[w].todo
    BY Types DEF PassInv, PassType
  <2>3. written' = [written EXCEPT ![g] = row] BY <1>5 DEF PassInv, TypeOK
  <2>4. row \in Goal /\ row.fate = "auto" /\ row.purchaseDate = now
    <3>1. now \in Nat BY Types DEF PassInv
    <3>2. 0 \in 0..MaxAttempts BY DayAssumption
    <3>3. row = [written[g] EXCEPT !.fate = "auto", !.purchaseDate = now,
                                   !.deferredUntil = Never, !.attempts = 0]
      BY DEF Bought
    <3> QED BY <3>1, <3>2, <3>3, <1>3, ZenonT(60) DEF Goal, Fate
  <2>5. IsDrawDay(productOf[g], now) => pass[w].now < now
    <3>1. PICK d \in pass[w].now..now : ~ IsDrawDay(productOf[g], d) BY <1>2
    <3>2. pass[w].now \in Int /\ now \in Int BY Types DEF PassInv
    <3> QED BY <3>1, <3>2
  <2> HIDE DEF goes, row, g
  <2> QED BY <2>1, <2>2, <2>3, <2>4, <2>5, <1>1, <1>2, <1>3, WorkStep
<1> QED BY <1>1, <1>4, <1>5

(* A deferral moves the date and nothing else.                             *)
LEMMA DeferStep ==
    ASSUME PassInv, NEW w \in Replica, deferGoal(w)
    PROVE  PassInv' /\ RowStep
<1> DEFINE g == pass[w].goal
           fails == [pass[w] EXCEPT !.pc = "failing"]
           goes == [pass[w] EXCEPT !.pc = "working", !.todo = pass[w].todo \ {g},
                                   !.goal = NoGoal]
           Dated(d) == [written[g] EXCEPT !.deferredUntil = d]
<1>1. /\ pass[w].pc = "deferring"
      /\ goals' = goals /\ rowLock' = rowLock /\ UNCHANGED outside
      /\ \/ pass' = [pass EXCEPT ![w].pc = "failing"] /\ written' = written
         \/ /\ pass' = [pass EXCEPT ![w].pc = "working",
                                    ![w].todo = @ \ {g}, ![w].goal = NoGoal]
            /\ \E d \in {now + i : i \in 1..SearchLimit} :
                  written' = [written EXCEPT ![g].deferredUntil = d]
  BY DEF deferGoal
<1>2. /\ PassOK(w) /\ g \in pass[w].todo /\ g \in GoalId /\ rowLock[g] = w
  BY <1>1, Types DEF PassInv, PassOK
<1>3. written[g] \in Goal /\ written[g].fate \in {"open", "auto"}
  BY <1>2, Types DEF PassInv, RowOK
<1>4. CASE pass' = [pass EXCEPT ![w].pc = "failing"] /\ written' = written
  <2>1. pass' = [pass EXCEPT ![w] = fails] BY <1>4 DEF PassInv, TypeOK
  <2>2. /\ fails \in PassType /\ fails.pc = "failing" /\ fails.now = pass[w].now
        /\ fails.todo = pass[w].todo /\ fails.goal = g
    BY Types DEF PassInv, PassType
  <2>3. written' = [written EXCEPT ![g] = written[g]]
    BY <1>4 DEF PassInv, TypeOK
  <2> HIDE DEF fails, g
  <2> QED BY <2>1, <2>2, <2>3, <1>1, <1>2, <1>3, WorkStep
<1>5. CASE /\ pass' = [pass EXCEPT ![w].pc = "working",
                                   ![w].todo = @ \ {g}, ![w].goal = NoGoal]
           /\ \E d \in {now + i : i \in 1..SearchLimit} :
                 written' = [written EXCEPT ![g].deferredUntil = d]
  <2>1. pass' = [pass EXCEPT ![w] = goes] BY <1>5 DEF PassInv, TypeOK
  <2>2. /\ goes \in PassType /\ goes.pc = "working" /\ goes.now = pass[w].now
        /\ goes.todo \subseteq pass[w].todo
    BY Types DEF PassInv, PassType
  <2>3. PICK d \in {now + i : i \in 1..SearchLimit} :
           written' = [written EXCEPT ![g].deferredUntil = d]
    BY <1>5
  <2>4. d \in Nat BY Types, DayAssumption DEF PassInv
  <2>5. written' = [written EXCEPT ![g] = Dated(d)] BY <2>3 DEF PassInv, TypeOK
  <2>6. Dated(d) \in Goal /\ Dated(d).fate = written[g].fate
    BY <1>3, <2>4 DEF Goal
  <2> HIDE DEF goes, Dated, g
  <2> QED BY <2>1, <2>2, <2>5, <2>6, <1>1, <1>2, <1>3, WorkStep
<1> QED BY <1>1, <1>4, <1>5

(* A recorded failure counts the attempt and nothing else.                 *)
LEMMA FailStep ==
    ASSUME PassInv, NEW w \in Replica, fail(w)
    PROVE  PassInv' /\ RowStep
<1> DEFINE g == pass[w].goal
           goes == [pass[w] EXCEPT !.pc = "working", !.todo = pass[w].todo \ {g},
                                   !.goal = NoGoal]
           row == Failed(written[g])
<1>1. /\ pass[w].pc = "failing"
      /\ goals' = goals /\ rowLock' = rowLock /\ UNCHANGED outside
      /\ pass' = [pass EXCEPT ![w].pc = "working",
                              ![w].todo = @ \ {g}, ![w].goal = NoGoal]
      /\ written' = [written EXCEPT ![g] = Failed(@)]
  BY DEF fail
<1>2. /\ PassOK(w) /\ g \in pass[w].todo /\ g \in GoalId /\ rowLock[g] = w
  BY <1>1, Types DEF PassInv, PassOK
<1>3. written[g] \in Goal /\ written[g].fate \in {"open", "auto"}
  BY <1>2, Types DEF PassInv, RowOK
<1>4. pass' = [pass EXCEPT ![w] = goes] BY <1>1 DEF PassInv, TypeOK
<1>5. /\ goes \in PassType /\ goes.pc = "working" /\ goes.now = pass[w].now
      /\ goes.todo \subseteq pass[w].todo
  BY Types DEF PassInv, PassType
<1>6. written' = [written EXCEPT ![g] = row] BY <1>1 DEF PassInv, TypeOK
<1>7. row \in Goal /\ row.fate = written[g].fate
  BY <1>3, DayAssumption DEF Failed, Goal
<1>8. ~ (written[g].fate = "open" /\ row.fate = "auto") BY <1>7
<1> HIDE DEF goes, row, g
<1>9. row.fate \in {"open", "auto"} BY <1>3, <1>7
<1>10. goals' = goals /\ rowLock' = rowLock /\ UNCHANGED outside BY <1>1
<1> QED BY <1>2, <1>4, <1>5, <1>6, <1>7, <1>8, <1>9, <1>10, WorkStep


(* A pass that ends, having published (published) or forgotten its work.   *)
LEMMA EndStep ==
    ASSUME PassInv, NEW w \in Replica, NEW published \in BOOLEAN,
           pass' = [pass EXCEPT ![w] = Idle],
           goals' = [g \in GoalId |-> IF rowLock[g] = w /\ published
                                      THEN written[g] ELSE goals[g]],
           written' = [g \in GoalId |-> IF rowLock[g] = w /\ ~ published
                                        THEN goals[g] ELSE written[g]],
           rowLock' = [g \in GoalId |-> IF rowLock[g] = w THEN NoTx ELSE rowLock[g]],
           UNCHANGED <<environment, requests>>, aborts' \in Nat
    PROVE  PassInv' /\ RowStep
<1>1. /\ pass'[w] = Idle /\ \A v \in Replica \ {w} : pass'[v] = pass[v]
      /\ now' = now
  BY DEF PassInv, TypeOK, environment
<1>2. ASSUME NEW g \in GoalId, rowLock[g] = w
      PROVE  /\ rowLock'[g] = NoTx /\ written'[g] = goals'[g]
             /\ goals'[g] = IF published THEN written[g] ELSE goals[g]
  BY <1>2
<1>3. ASSUME NEW g \in GoalId, rowLock[g] # w
      PROVE  rowLock'[g] = rowLock[g] /\ written'[g] = written[g] /\ goals'[g] = goals[g]
  BY <1>3
<1>4. Idle \in PassType /\ Idle.now = 0 /\ Idle.todo = {} /\ Idle.pc = "idle"
  BY DEF Idle, PassType
<1>5. TypeOK'
  <2>1. pass' \in [Replica -> PassType] BY <1>4 DEF PassInv, TypeOK, PassType
  <2>2. /\ goals' \in [GoalId -> Goal] /\ written' \in [GoalId -> Goal]
        /\ rowLock' \in [GoalId -> Replica \cup Customer \cup {NoTx}]
    BY DEF PassInv, TypeOK
  <2> QED BY <2>1, <2>2 DEF PassInv, TypeOK, PassType, environment
<1>6. ASSUME NEW g \in GoalId PROVE RowOK(g)'
  <2>1. RowOK(g) BY DEF PassInv
  <2>2. CASE rowLock[g] = w BY <2>2, <1>2, GoalAssumption DEF RowOK
  <2>3. CASE rowLock[g] # w BY <2>1, <2>3, <1>1, <1>3 DEF RowOK, Due
  <2> QED BY <2>2, <2>3
<1>7. ASSUME NEW v \in Replica PROVE PassOK(v)'
  <2>1. PassOK(v) BY DEF PassInv
  <2>2. CASE v = w BY <2>2, <1>1, <1>4, Types DEF PassOK, PassInv
  <2>3. CASE v # w
    <3>1. \A g \in pass[v].todo : rowLock'[g] = v
      <4> SUFFICES ASSUME NEW g \in pass[v].todo PROVE rowLock'[g] = v
        OBVIOUS
      <4>1. rowLock[g] = v /\ g \in GoalId BY <2>1, Types DEF PassOK, PassInv
      <4> QED BY <4>1, <2>3, <1>3
    <3> QED BY <3>1, <2>1, <2>3, <1>1 DEF PassOK, IsDrawDay
  <2> QED BY <2>2, <2>3
<1>8. ASSUME NEW g \in GoalId PROVE CloseStep(g) /\ DatedStep(g)
  <2>1. RowOK(g) /\ PassOK(w) BY DEF PassInv
  <2>2. CASE rowLock[g] = w
    <3>1. Due(g, pass[w].now) /\ goals[g].fate = "open"
      BY <2>1, <2>2 DEF RowOK, Due
    <3>2. goals[g].reachedAt + Countdown <= now /\ goals[g].deferredUntil <= now
      BY <2>1, <3>1, DueByNow DEF PassInv, PassOK
    <3>3. CloseStep(g) BY <3>1, <3>2 DEF CloseStep
    <3>4. written'[g] = written[g] \/ written'[g].fate = "open"
      BY <3>1, <2>2, <1>2
    <3>5. DatedStep(g) BY <3>4 DEF DatedStep
    <3> QED BY <3>3, <3>5
  <2>3. CASE rowLock[g] # w BY <2>3, <1>3 DEF CloseStep, DatedStep
  <2> QED BY <2>2, <2>3
<1> QED BY <1>5, <1>6, <1>7, <1>8 DEF PassInv, RowStep

(* One commit publishes the pass ...                                       *)
LEMMA CommitStep ==
    ASSUME PassInv, NEW w \in Replica, CommitPass(w)
    PROVE  PassInv' /\ RowStep
<1>1. /\ pass' = [pass EXCEPT ![w] = Idle]
      /\ goals' = [g \in GoalId |-> IF rowLock[g] = w /\ TRUE
                                    THEN written[g] ELSE goals[g]]
      /\ rowLock' = [g \in GoalId |-> IF rowLock[g] = w THEN NoTx ELSE rowLock[g]]
      /\ written' = written /\ UNCHANGED outside
  BY DEF CommitPass, LockedBy
<1>2. written' = [g \in GoalId |-> IF rowLock[g] = w /\ ~ TRUE
                                   THEN goals[g] ELSE written[g]]
  BY <1>1 DEF PassInv, TypeOK
<1>3. UNCHANGED <<environment, requests>> /\ aborts' \in Nat
  BY <1>1 DEF outside, PassInv, TypeOK
<1> QED BY <1>1, <1>2, <1>3, EndStep

(* ... and when it dies the database forgets it.                           *)
LEMMA AbortStep ==
    ASSUME PassInv, NEW w \in Replica, AbortPass(w)
    PROVE  PassInv' /\ RowStep
<1>1. /\ pass' = [pass EXCEPT ![w] = Idle]
      /\ written' = [g \in GoalId |-> IF rowLock[g] = w /\ ~ FALSE
                                      THEN goals[g] ELSE written[g]]
      /\ rowLock' = [g \in GoalId |-> IF rowLock[g] = w THEN NoTx ELSE rowLock[g]]
      /\ goals' = goals /\ UNCHANGED <<environment, requests>> /\ aborts' = aborts + 1
  BY DEF AbortPass, Discard, LockedBy
<1>2. goals' = [g \in GoalId |-> IF rowLock[g] = w /\ FALSE
                                 THEN written[g] ELSE goals[g]]
  BY <1>1 DEF PassInv, TypeOK
<1>3. aborts' \in Nat BY <1>1 DEF PassInv, TypeOK
<1> QED BY <1>1, <1>2, <1>3, EndStep

-----------------------------------------------------------------------------
(* A step of a customer or of the environment: time may pass, and the rows *)
(* it touches are locked by no pass, neither before nor after; it closes   *)
(* none that is closed already and none for the worker.                    *)
LEMMA OutsideStep ==
    ASSUME PassInv, TypeOK', pass' = pass, now <= now',
           \A g \in GoalId :
              \/ /\ goals'[g] = goals[g] /\ written'[g] = written[g]
                 /\ rowLock'[g] = rowLock[g]
              \/ /\ rowLock[g] \notin Replica /\ rowLock'[g] \notin Replica
                 /\ written'[g] = goals'[g]
                 /\ rowLock'[g] # NoTx => goals'[g].fate = "open"
                 /\ goals[g].fate # "open" => goals'[g].fate = goals[g].fate
                 /\ goals'[g].fate = "auto" => goals[g].fate = "auto"
    PROVE  PassInv' /\ RowStep
<1>1. ASSUME NEW g \in GoalId PROVE RowOK(g)' /\ CloseStep(g) /\ DatedStep(g)
  <2>1. RowOK(g) BY DEF PassInv
  <2>2. CASE /\ goals'[g] = goals[g] /\ written'[g] = written[g]
             /\ rowLock'[g] = rowLock[g]
    BY <2>1, <2>2 DEF RowOK, Due, CloseStep, DatedStep
  <2>3. CASE /\ rowLock[g] \notin Replica /\ rowLock'[g] \notin Replica
             /\ written'[g] = goals'[g]
             /\ rowLock'[g] # NoTx => goals'[g].fate = "open"
             /\ goals[g].fate # "open" => goals'[g].fate = goals[g].fate
             /\ goals'[g].fate = "auto" => goals[g].fate = "auto"
    <3>1. RowOK(g)' BY <2>3 DEF RowOK
    <3>2. CloseStep(g) BY <2>3 DEF CloseStep
    <3>3. DatedStep(g) BY <2>1, <2>3 DEF DatedStep, RowOK
    <3> QED BY <3>1, <3>2, <3>3
  <2> QED BY <2>2, <2>3
<1>2. ASSUME NEW w \in Replica PROVE PassOK(w)'
  <2>1. PassOK(w) BY DEF PassInv
  <2>2. now \in Int /\ now' \in Int /\ pass[w].now \in Int
    <3>1. now \in Nat /\ pass[w].now \in Nat BY Types DEF PassInv
    <3>2. now' \in 0..MaxNow BY DEF TypeOK
    <3> QED BY <3>1, <3>2
  <2>3. pass[w].now <= now' BY <2>1, <2>2 DEF PassOK
  <2>4. \A g \in pass[w].todo : rowLock'[g] = w
    <3> SUFFICES ASSUME NEW g \in pass[w].todo PROVE rowLock'[g] = w
      OBVIOUS
    <3>1. rowLock[g] = w /\ g \in GoalId BY <2>1, Types DEF PassOK, PassInv
    <3> QED BY <3>1
  <2>5. pass[w].pc = "minting" =>
           \E d \in pass[w].now..now' : ~ IsDrawDay(productOf[pass[w].goal], d)
    BY <2>1, <2>2 DEF PassOK
  <2> QED BY <2>1, <2>3, <2>4, <2>5 DEF PassOK, IsDrawDay
<1> QED BY <1>1, <1>2 DEF PassInv, RowStep

(* The deposit that fills a goal.                                          *)
LEMMA DepositStep ==
    ASSUME PassInv, NEW g \in GoalId, Deposit(g)
    PROVE  PassInv' /\ RowStep
<1> DEFINE row == [goals[g] EXCEPT !.reachedAt = now]
<1>1. /\ rowLock[g] = NoTx
      /\ goals' = [goals EXCEPT ![g].reachedAt = now]
      /\ written' = [written EXCEPT ![g].reachedAt = now]
      /\ rowLock' = rowLock /\ pass' = pass /\ UNCHANGED <<environment, requests, aborts>>
  BY DEF Deposit
<1>2. written[g] = goals[g] BY <1>1, GoalAssumption DEF PassInv, RowOK
<1>3. goals' = [goals EXCEPT ![g] = row] /\ written' = [written EXCEPT ![g] = row]
  BY <1>1, <1>2 DEF PassInv, TypeOK
<1>4. row \in Goal /\ row.fate = goals[g].fate
  <2>1. goals[g] \in Goal /\ now \in Nat BY Types DEF PassInv
  <2> QED BY <2>1 DEF Goal
<1> HIDE DEF row
<1>5. /\ goals'[g] = row /\ written'[g] = row
      /\ \A h \in GoalId \ {g} : goals'[h] = goals[h] /\ written'[h] = written[h]
      /\ now' = now /\ now <= now
  BY <1>1, <1>3, Types DEF PassInv, TypeOK, environment
<1>6. TypeOK' BY <1>1, <1>3, <1>4, ZenonT(60) DEF PassInv, TypeOK, environment
<1>7. NoTx \notin Replica BY GoalAssumption
<1> QED BY <1>1, <1>4, <1>5, <1>6, <1>7, OutsideStep

(* A customer locks an open goal ...                                       *)
LEMMA LockStep ==
    ASSUME PassInv, NEW c \in Customer, NEW g \in GoalId, LockGoal(c, g)
    PROVE  PassInv' /\ RowStep
<1>1. /\ rowLock[g] = NoTx /\ goals[g].fate = "open"
      /\ rowLock' = [rowLock EXCEPT ![g] = c]
      /\ requests' = requests + 1
      /\ UNCHANGED <<goals, written, pass, environment, aborts>>
  BY DEF LockGoal
<1>2. written[g] = goals[g] BY <1>1, GoalAssumption DEF PassInv, RowOK
<1>3. /\ rowLock'[g] = c /\ \A h \in GoalId \ {g} : rowLock'[h] = rowLock[h]
      /\ now' = now /\ now <= now
  BY <1>1, Types DEF PassInv, TypeOK, environment
<1>4. TypeOK' BY <1>1 DEF PassInv, TypeOK, environment
<1>5. NoTx \notin Replica /\ c \notin Replica BY GoalAssumption
<1> QED BY <1>1, <1>2, <1>3, <1>4, <1>5, OutsideStep

(* ... and writes it once, when its request commits.                       *)
LEMMA RowCommitted ==
    ASSUME PassInv, NEW c \in Customer, NEW g \in GoalId, NEW row \in Goal,
           rowLock[g] = c, CommitRow(c, g, row), row.fate # "auto"
    PROVE  PassInv' /\ RowStep
<1>1. /\ goals' = [goals EXCEPT ![g] = row] /\ written' = [written EXCEPT ![g] = row]
      /\ rowLock' = [rowLock EXCEPT ![g] = NoTx]
      /\ pass' = pass /\ UNCHANGED outside
  BY DEF CommitRow
<1>2. c # NoTx /\ c \notin Replica /\ NoTx \notin Replica BY GoalAssumption
<1>3. goals[g].fate = "open" BY <1>2 DEF PassInv, RowOK
<1>4. /\ goals'[g] = row /\ written'[g] = row /\ rowLock'[g] = NoTx
      /\ \A h \in GoalId \ {g} : /\ goals'[h] = goals[h] /\ written'[h] = written[h]
                                 /\ rowLock'[h] = rowLock[h]
      /\ now' = now /\ now <= now
  BY <1>1, Types DEF PassInv, TypeOK, outside, environment
<1>5. TypeOK' BY <1>1 DEF PassInv, TypeOK, outside, environment
<1> QED BY <1>1, <1>2, <1>3, <1>4, <1>5, OutsideStep

(* A withdrawal or a purchase of the owner closes the goal; a purchase of  *)
(* a part only clears what the worker noted.                               *)
LEMMA RequestStep ==
    ASSUME PassInv, NEW c \in Customer, Request(c)
    PROVE  PassInv' /\ RowStep
<1>1. ASSUME NEW g \in GoalId, Withdraw(c, g)
      PROVE  PassInv' /\ RowStep
  <2> DEFINE row == [goals[g] EXCEPT !.fate = "withdrawn"]
  <2>1. rowLock[g] = c /\ CommitRow(c, g, row) BY <1>1 DEF Withdraw, LockedBy
  <2>2. row \in Goal /\ row.fate = "withdrawn" BY Types DEF PassInv, Goal, Fate
  <2> QED BY <2>1, <2>2, RowCommitted
<1>2. ASSUME NEW g \in GoalId, BuyFromGoal(c, g)
      PROVE  PassInv' /\ RowStep
  <2> DEFINE part == [goals[g] EXCEPT !.deferredUntil = Never, !.attempts = 0]
             all == Bought(goals[g], "bought")
  <2>1. /\ rowLock[g] = c
        /\ CommitRow(c, g, all) \/ CommitRow(c, g, part)
    BY <1>2 DEF BuyFromGoal, LockedBy
  <2>2. goals[g] \in Goal /\ now \in Nat /\ 0 \in 0..MaxAttempts
    BY Types, DayAssumption DEF PassInv
  <2>3. goals[g].fate = "open" BY <2>1, GoalAssumption DEF PassInv, RowOK
  <2>4. part \in Goal /\ part.fate = "open" BY <2>2, <2>3 DEF Goal
  <2>5. all \in Goal /\ all.fate = "bought"
    <3>1. all = [goals[g] EXCEPT !.fate = "bought", !.purchaseDate = now,
                                 !.deferredUntil = Never, !.attempts = 0]
      BY DEF Bought
    <3> QED BY <3>1, <2>2 DEF Goal, Fate
  <2> HIDE DEF part, all
  <2> QED BY <2>1, <2>4, <2>5, RowCommitted
<1>3. ASSUME RollbackRequest(c)
      PROVE  PassInv' /\ RowStep
  <2>1. /\ written' = [g \in GoalId |-> IF rowLock[g] = c THEN goals[g] ELSE written[g]]
        /\ rowLock' = [g \in GoalId |-> IF rowLock[g] = c THEN NoTx ELSE rowLock[g]]
        /\ goals' = goals /\ pass' = pass /\ UNCHANGED outside
    BY <1>3 DEF RollbackRequest, Discard, LockedBy
  <2>2. NoTx \notin Replica /\ c \notin Replica BY GoalAssumption
  <2>3. /\ \A g \in GoalId : rowLock[g] = c =>
              written'[g] = goals[g] /\ rowLock'[g] = NoTx
        /\ \A g \in GoalId : rowLock[g] # c =>
              written'[g] = written[g] /\ rowLock'[g] = rowLock[g]
        /\ now' = now /\ now <= now
    BY <2>1, Types DEF PassInv, outside, environment
  <2>4. TypeOK' BY <2>1 DEF PassInv, TypeOK, outside, environment
  <2> QED BY <2>1, <2>2, <2>3, <2>4, OutsideStep
<1> QED BY <1>1, <1>2, <1>3 DEF Request

(* Settlements, products and the calendar touch no row and no pass.        *)
LEMMA EnvironmentStep ==
    ASSUME PassInv,
           \/ \E g \in GoalId : SettleMaturedHolding(g)
           \/ \E p \in Product : UpsertProduct(p)
           \/ Midnight
    PROVE  PassInv' /\ RowStep
<1>1. /\ UNCHANGED <<goals, written, rowLock, pass>> /\ now <= now' /\ TypeOK'
  <2>1. now \in Nat BY Types DEF PassInv
  <2>2. ASSUME NEW g \in GoalId, SettleMaturedHolding(g)
        PROVE  UNCHANGED <<goals, written, rowLock, pass>> /\ now <= now' /\ TypeOK'
    BY <2>1, <2>2 DEF SettleMaturedHolding, PassInv, TypeOK
  <2>3. ASSUME NEW p \in Product, UpsertProduct(p)
        PROVE  UNCHANGED <<goals, written, rowLock, pass>> /\ now <= now' /\ TypeOK'
    <3>1. productActive' \in [Product -> BOOLEAN]
      BY <2>3 DEF UpsertProduct, PassInv, TypeOK
    <3> QED BY <2>1, <2>3, <3>1 DEF UpsertProduct, PassInv, TypeOK
  <2>4. ASSUME Midnight
        PROVE  UNCHANGED <<goals, written, rowLock, pass>> /\ now <= now' /\ TypeOK'
    <3>1. now' \in 0..MaxNow /\ now <= now'
      BY <2>1, <2>4, DayAssumption DEF Midnight
    <3> QED BY <2>4, <3>1 DEF Midnight, PassInv, TypeOK
  <2> QED BY <2>2, <2>3, <2>4
<1> QED BY <1>1, OutsideStep

-----------------------------------------------------------------------------
(* No goal is locked or written and every replica is idle.                 *)
LEMMA InitInvariant == Init => PassInv
<1> SUFFICES ASSUME Init PROVE PassInv
  OBVIOUS
<1>1. TypeOK
  <2>1. Idle \in PassType BY DEF Idle, PassType
  <2>2. 0 \in 0..MaxNow /\ 0 \in 0..MaxAttempts BY DayAssumption
  <2>3. [fate |-> "open", reachedAt |-> Never, deferredUntil |-> Never,
         attempts |-> 0, purchaseDate |-> Never] \in Goal
    BY <2>2 DEF Goal, Fate
  <2> QED BY <2>1, <2>2, <2>3 DEF Init, TypeOK, PassType
<1>2. \A g \in GoalId : RowOK(g) BY GoalAssumption DEF Init, RowOK
<1>3. \A w \in Replica : PassOK(w) BY DEF Init, PassOK, Idle
<1> QED BY <1>1, <1>2, <1>3 DEF PassInv

(* Every step keeps the invariant, and treats the rows as promised.        *)
LEMMA StepInvariant == PassInv /\ [Next]_vars => PassInv' /\ [RowStep]_vars
<1> SUFFICES ASSUME PassInv, [Next]_vars PROVE PassInv' /\ [RowStep]_vars
  OBVIOUS
<1>1. CASE UNCHANGED vars
  <2>1. /\ UNCHANGED <<goals, written, rowLock, pass, short, productActive,
                       now, requests, aborts>>
    BY <1>1 DEF vars, outside, environment
  <2>2. TypeOK' /\ now <= now'
    BY <2>1, Types DEF PassInv, TypeOK
  <2> QED BY <1>1, <2>1, <2>2, OutsideStep
<1>2. ASSUME NEW w \in Replica, Pass(w) PROVE PassInv' /\ RowStep
  BY <1>2, StartStep, ClaimStep, BeginStep, BuyStep, DeferStep, FailStep, CommitStep
     DEF Pass
<1>3. CASE Next
  BY <1>2, <1>3, AbortStep, DepositStep, LockStep, RequestStep, EnvironmentStep
     DEF Next
<1> QED BY <1>1, <1>3

(* The invariant holds in every reachable state.                           *)
THEOREM PassInvariant == Spec => []PassInv
BY InitInvariant, StepInvariant, PTL DEF Spec

(* Rows, locks and passes keep their types.                                *)
THEOREM PassTypeCorrect == Spec => []TypeOK
BY PassInvariant, PTL DEF PassInv

(* However many replicas and customers race for a goal, it leaves the open *)
(* ones once, and the worker takes it only after its countdown and its     *)
(* deferral have run out.                                                  *)
THEOREM GoalsCloseOnce == Spec => ClosedOnce
<1>1. Spec => [][RowStep]_vars BY PassInvariant, StepInvariant, PTL DEF Spec
<1>2. RowStep => \A g \in GoalId : CloseStep(g) BY DEF RowStep
<1> QED BY <1>1, <1>2, PTL DEF ClosedOnce

(* A purchase of the worker is dated on a draw day only if midnight passed *)
(* since its pass began.                                                   *)
THEOREM OnlyMidnightDatesADrawDay == Spec => DrawDayOnlyOverMidnight
<1>1. Spec => [][RowStep]_vars BY PassInvariant, StepInvariant, PTL DEF Spec
<1>2. RowStep => \A g \in GoalId :
                    /\ written[g].fate = "open" /\ written'[g].fate = "auto"
                    /\ IsDrawDay(productOf[g], written'[g].purchaseDate)
                    => pass[rowLock[g]].now < written'[g].purchaseDate
  BY DEF RowStep, DatedStep
<1> QED BY <1>1, <1>2, PTL DEF DrawDayOnlyOverMidnight
=============================================================================
