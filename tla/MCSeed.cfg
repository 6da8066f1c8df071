SPECIFICATION SeedSpec
CONSTANTS
    Password = {p1, p2}
    Unset = Unset
    SavingsBalance = 1
    OwnGoalAmount = 2
    MaxRuns = 3
SYMMETRY Symmetry
INVARIANTS
    GoalsAreBacked
    FinishedRunGivesDemoLogin
PROPERTIES
    RerunChangesNothing
