-------------------------------- MODULE Seed --------------------------------
(***************************************************************************)
(* cmd/seed beside a live system.  The program writes row after row, each  *)
(* in a transaction of its own, may die between any two of them, and is    *)
(* run again and again on the same database, which may be older than the   *)
(* program.  Meanwhile customers register, the demo customer saves, and    *)
(* the worker buys.  The draw-date rows are the subject of DrawCalendar.   *)
(*                                                                         *)
(* Money is counted in units of demoFallbackGoalAmount.                    *)
(***************************************************************************)
EXTENDS Integers, FiniteSets

CONSTANTS
    Password,          \* values ADMIN_PASSWORD is set to
    Unset,             \* ADMIN_PASSWORD left empty
    SavingsBalance,    \* what the savings account is seeded with
    OwnGoalAmount,     \* the target of a goal the demo customer creates
    MaxRuns            \* bound: runs of the program

ASSUME SeedAssumption == {SavingsBalance, OwnGoalAmount, MaxRuns} \subseteq Nat

VARIABLES
    seed,        \* the run under way
    runs,        \* runs so far
    finished,    \* settings of the last run that reached its end
    adminRow,    \* the password of the admin credential
    demoUser,    \* who has the username demo
    cash,        \* balances of the demo accounts that exist
    goals,       \* goals on the demo kapook account
    cursor       \* the product's ticket cursor: tickets handed out

database == <<adminRow, demoUser, cash, goals, cursor>>

seedVars == <<seed, runs, finished, database>>

DemoAccount == {"savings", "salak", "kapook"}

GoalId == {"fallback", "own"}

Goal == [goalAmount : Nat, saving : Nat, bought : Nat, isActive : BOOLEAN,
         reached : BOOLEAN]

NoCursor == -1

Settings == [admin : Password \cup {Unset}, demo : BOOLEAN]

Stopped == [at |-> "stopped"]

Run == [at : {"products", "admin", "user", "savings", "salak", "kapook",
              "look", "goal"},
        settings : Settings, fresh : BOOLEAN, blocked : BOOLEAN]

SeedTypeOK ==
    /\ seed \in Run \cup {Stopped}
    /\ runs \in 0..MaxRuns
    /\ finished \in Settings \cup {Stopped}
    /\ adminRow \in Password \cup {Unset}
    /\ demoUser \in {"nobody", "seed", "somebody"}
    /\ DOMAIN cash \subseteq DemoAccount /\ cash \in [DOMAIN cash -> Nat]
    /\ DOMAIN goals \subseteq GoalId /\ goals \in [DOMAIN goals -> Goal]
    /\ cursor \in Nat \cup {NoCursor}

(* f with the row of k, unless there is one: ON CONFLICT DO NOTHING.       *)
Insert(f, k, row) ==
    [x \in DOMAIN f \cup {k} |-> IF x \in DOMAIN f THEN f[x] ELSE row]

Available(goal) == goal.saving - goal.bought

ActiveGoals == {g \in DOMAIN goals : goals[g].isActive}

-----------------------------------------------------------------------------
(***************************************************************************)
(* Faults.  Each replaces the definition below whose name it starts with.  *)
(***************************************************************************)
InsertAccount_Overwrites(kind, balance) ==  \* DO UPDATE on the account
    [k \in DOMAIN cash \cup {kind} |-> IF k = kind THEN balance ELSE cash[k]]

FallbackAllowed_Always == ~ seed.blocked    \* without the check for a fresh account

ReferencesUser_Ignored == TRUE              \* no foreign key

-----------------------------------------------------------------------------
(***************************************************************************)
(* The program.                                                            *)
(***************************************************************************)
demoFallbackGoalAmount == 1

StartingBalance == [savings |-> SavingsBalance, salak |-> 0,
                    kapook |-> demoFallbackGoalAmount]

At(step) == seed # Stopped /\ seed.at = step

Goto(step) == seed' = [seed EXCEPT !.at = step]

Start(settings) ==
    /\ seed = Stopped
    /\ runs < MaxRuns
    /\ runs' = runs + 1
    /\ seed' = [at |-> "products", settings |-> settings, fresh |-> FALSE,
                blocked |-> FALSE]
    /\ UNCHANGED <<finished, database>>

(* The cursor of a product that exists keeps its place.                    *)
Provisioned == IF cursor = NoCursor THEN 0 ELSE cursor

SeedProducts ==
    /\ At("products")
    /\ cursor' = Provisioned
    /\ Goto("admin")
    /\ UNCHANGED <<runs, finished, adminRow, demoUser, cash, goals>>

Finish ==
    /\ seed' = Stopped
    /\ finished' = seed.settings

SeedAdmin ==
    /\ At("admin")
    /\ adminRow' = IF adminRow = Unset THEN seed.settings.admin ELSE adminRow
    /\ IF seed.settings.demo
       THEN Goto("user") /\ UNCHANGED finished
       ELSE Finish
    /\ UNCHANGED <<runs, demoUser, cash, goals, cursor>>

SeedUser ==
    /\ At("user")
    /\ demoUser' = IF demoUser = "nobody" THEN "seed" ELSE demoUser
    /\ Goto("savings")
    /\ UNCHANGED <<runs, finished, adminRow, cash, goals, cursor>>

(* accounts.user_id references the user the program believes it inserted.  *)
ReferencesUser == demoUser = "seed"

InsertAccount(kind, balance) == Insert(cash, kind, balance)

AfterAccount == [savings |-> "salak", salak |-> "kapook", kapook |-> "look"]

SeedAccount ==
    \E kind \in DemoAccount :
        /\ At(kind)
        /\ IF ReferencesUser \/ kind \in DOMAIN cash
           THEN /\ cash' = InsertAccount(kind, StartingBalance[kind])
                /\ seed' = [seed EXCEPT !.at = AfterAccount[kind],
                                        !.fresh = kind \notin DOMAIN cash]
           ELSE /\ seed' = Stopped           \* log.Fatalf
                /\ UNCHANGED cash
        /\ UNCHANGED <<runs, finished, adminRow, demoUser, goals, cursor>>

LookForGoal ==
    /\ At("look")
    /\ seed' = [seed EXCEPT !.at = "goal", !.blocked = ActiveGoals # {}]
    /\ UNCHANGED <<runs, finished, database>>

FallbackAllowed == seed.fresh /\ ~ seed.blocked

FallbackGoal == [goalAmount |-> demoFallbackGoalAmount,
                 saving |-> demoFallbackGoalAmount, bought |-> 0,
                 isActive |-> TRUE, reached |-> TRUE]

SeedGoal ==
    /\ At("goal")
    /\ IF FallbackAllowed /\ ActiveGoals # {} /\ "fallback" \notin DOMAIN goals
       THEN /\ seed' = Stopped               \* the partial unique index objects
            /\ UNCHANGED <<finished, goals>>
       ELSE /\ goals' = IF FallbackAllowed
                        THEN Insert(goals, "fallback", FallbackGoal) ELSE goals
            /\ Finish
    /\ UNCHANGED <<runs, adminRow, demoUser, cash, cursor>>

Die ==
    /\ seed # Stopped
    /\ seed' = Stopped
    /\ UNCHANGED <<runs, finished, database>>

SeedStep ==
    \/ SeedProducts
    \/ SeedAdmin
    \/ SeedUser
    \/ SeedAccount
    \/ LookForGoal
    \/ SeedGoal

-----------------------------------------------------------------------------
(***************************************************************************)
(* What goes on meanwhile.                                                 *)
(***************************************************************************)
Elsewhere == UNCHANGED <<seed, runs, finished, adminRow>>

(* Somebody registers the username demo through the API.                   *)
RegisterDemo ==
    /\ demoUser = "nobody"
    /\ demoUser' = "somebody"
    /\ Elsewhere
    /\ UNCHANGED <<cash, goals, cursor>>

Opened == DOMAIN cash = DemoAccount

SufficientFunds(account, amount) == cash[account] >= amount

CreateGoal ==
    /\ Opened /\ cursor # NoCursor
    /\ ActiveGoals = {} /\ "own" \notin DOMAIN goals
    /\ goals' = Insert(goals, "own",
                       [goalAmount |-> OwnGoalAmount, saving |-> 0, bought |-> 0,
                        isActive |-> TRUE, reached |-> FALSE])
    /\ Elsewhere
    /\ UNCHANGED <<demoUser, cash, cursor>>

Deposit ==
    \E g \in ActiveGoals :
        /\ Opened
        /\ goals[g].saving < goals[g].goalAmount
        /\ SufficientFunds("savings", 1)
        /\ cash' = [cash EXCEPT !.savings = cash.savings - 1, !.kapook = cash.kapook + 1]
        /\ goals' = [goals EXCEPT ![g].saving = goals[g].saving + 1,
                                  ![g].reached = goals[g].saving + 1 = goals[g].goalAmount]
        /\ Elsewhere
        /\ UNCHANGED <<demoUser, cursor>>

Withdraw ==
    \E g \in ActiveGoals :
        /\ Opened
        /\ Available(goals[g]) > 0
        /\ SufficientFunds("kapook", Available(goals[g]))
        /\ cash' = [cash EXCEPT !.savings = cash.savings + Available(goals[g]),
                                !.kapook = cash.kapook - Available(goals[g])]
        /\ goals' = [goals EXCEPT ![g].saving = goals[g].bought,
                                  ![g].isActive = ~ goals[g].reached]
        /\ Elsewhere
        /\ UNCHANGED <<demoUser, cursor>>

AutoPurchase ==
    \E g \in ActiveGoals :
        /\ Opened /\ cursor # NoCursor
        /\ goals[g].reached
        /\ SufficientFunds("kapook", Available(goals[g]))
        /\ cash' = [cash EXCEPT !.salak = cash.salak + Available(goals[g]),
                                !.kapook = cash.kapook - Available(goals[g])]
        /\ goals' = [goals EXCEPT ![g].bought = goals[g].saving, ![g].isActive = FALSE]
        /\ cursor' = cursor + Available(goals[g])
        /\ Elsewhere
        /\ UNCHANGED demoUser

Meanwhile ==
    \/ RegisterDemo
    \/ CreateGoal
    \/ Deposit
    \/ Withdraw
    \/ AutoPurchase

(* An empty database, or one seeded before the kapook account was funded.  *)
SeedInit ==
    /\ seed = Stopped
    /\ runs = 0
    /\ finished = Stopped
    /\ adminRow = Unset
    /\ goals = [g \in {} |-> FallbackGoal]
    /\ \/ demoUser = "nobody" /\ cash = [k \in {} |-> 0] /\ cursor = NoCursor
       \/ /\ demoUser = "seed"
          /\ cash = [StartingBalance EXCEPT !.kapook = 0]
          /\ cursor = 0

SeedNext ==
    \/ \E settings \in Settings : Start(settings)
    \/ SeedStep
    \/ Die
    \/ Meanwhile
    \/ runs = MaxRuns /\ seed = Stopped /\ UNCHANGED seedVars

SeedSpec == SeedInit /\ [][SeedNext]_seedVars

-----------------------------------------------------------------------------
(***************************************************************************)
(* Properties.                                                             *)
(***************************************************************************)

(* main.go:213-218: no run seeds "a SavingAmount the account can't         *)
(* actually back": what an active goal has left is in the kapook account.  *)
GoalsAreBacked ==
    \A g \in ActiveGoals : "kapook" \in DOMAIN cash /\ Available(goals[g]) =< cash.kapook

(* main.go:24: "Fixed IDs keep local seeding idempotent".  Once a run with *)
(* the demo data has finished, later runs leave the demo data as it is.    *)
(* And no run, finished or not, resets "an already-advanced cursor"        *)
(* (gorm_product_repo.go, Upsert), or a ticket would be handed out twice.  *)
RerunChangesNothing ==
    [][SeedStep =>
          /\ cursor' >= cursor
          /\ finished # Stopped /\ finished.demo =>
                UNCHANGED <<demoUser, cash, goals>>]_seedVars

(* README.md: "The seed script creates a demo login": a run that reached   *)
(* its end has left a demo user of its own with all three accounts, even   *)
(* if somebody registered the name first.                                  *)
FinishedRunGivesDemoLogin ==
    finished # Stopped /\ finished.demo => demoUser = "seed" /\ Opened
=============================================================================
