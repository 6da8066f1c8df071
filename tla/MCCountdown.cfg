SPECIFICATION CountdownSpec
CONSTANTS
    Durations <- MCDurations
    DefaultCountdown = 2
    DefaultTick = 2
    MaxTime = 5
    MaxEdits = 2
INVARIANTS
    AtZeroForLessThanATick
PROPERTIES
    EarlyOnlyWhenProcessesDiffer
