SPECIFICATION CampaignSpec
CONSTANTS
    MaxAttempts = 2
    MaxRepairs = 0
    MaxPiCalls = 6
    MaxDuration = 1
    BeatAll = FALSE
    GoalPercent = 120
    FloorPercent = 3
    ProtectPercent = 95
    Rates <- MCRates
    GuardedRates <- MCGuardedRates
    Rival = 104
    Proposals = {"change"}
    MaxRuns = 2

    
PROPERTIES
    YardstickHolds
CHECK_DEADLOCK FALSE
