SPECIFICATION Spec
CONSTANTS
    MaxAttempts = 2
    MaxRepairs = 1
    MaxPiCalls = 4
    MaxDuration = 1
    BeatAll = FALSE
    GoalPercent = 110
    FloorPercent = 3
    ProtectPercent = 95
    Rates <- MCRates
    GuardedRates <- MCGuardedRates
    Rival = 104
    Proposals = {"change", "research", "stop"}
INVARIANTS
    RunSound
    WorktreeFollows
    ReportHonest
PROPERTIES
    KeepEarned
    EffectOnce
    ImplementsContract
    RunEnds
CHECK_DEADLOCK FALSE
