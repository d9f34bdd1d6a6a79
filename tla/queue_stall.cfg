\* A session that delivered no pull request keeps the only slot.
SPECIFICATION FairSpec
CONSTANTS
    Issues = {1, 2}
    MaxSessions = 2
    Pulls = {}
    Shas = {}
    Events <- NoEvents
    Acus = {0}
    Failing = {}
    Observations <- OnlyFinished
    PullStates = {}
    MaxConcurrent = 1
    SessionCap = 1
    Budget = 10
    MaxNudges = 1
    MaxCiRounds = 1
    MaxConflictRounds = 1
    InboxLimit = 2
    PrEvery = 1
    SlowEvery = 1
    Deadlines = {"age"}
    MaxCrashes = 0
PROPERTIES
    QueuedIsServed
