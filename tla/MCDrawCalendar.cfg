SPECIFICATION DrawSpec
CONSTANTS
    FirstYear = 2027
    LastYear = 2029
    MaxUptime = 60
    MaxSeeds = 2
    RowsWritten <- MCRowsWritten
INVARIANTS
    ClosedExactlyOnDrawDays
    WarnedBeforeItFailsOpen
