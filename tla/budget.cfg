\* Three issues against a budget and two slots, sessions that may never finish.
SPECIFICATION FairSpec
CONSTANTS
    Issues = {1, 2, 3}
    MaxSessions = 3
    Pulls = {}
    Shas = {}
    Events <- NoEvents
    Acus = {0, 2}
    Failing = {"insights"}
    Observations <- SpendingObservations
    PullStates = {}
    MaxConcurrent = 2
    SessionCap = 2
    Budget = 2
    MaxNudges = 1
    MaxCiRounds = 1
    MaxConflictRounds = 1
    InboxLimit = 2
    PrEvery = 1
    SlowEvery = 1
    Deadlines = {"age"}
    MaxCrashes = 0
PROPERTIES
    BudgetStopsStarts
    QueuedIsServed
