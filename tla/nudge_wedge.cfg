\* A crash between the record of a nudge and its count.
SPECIFICATION Spec
CONSTANTS
    Issues = {1}
    MaxSessions = 1
    Pulls = {}
    Shas = {}
    Events <- NoEvents
    Acus = {0}
    Failing = {}
    Observations <- OnlyBlocked
    PullStates = {}
    MaxConcurrent = 1
    SessionCap = 1
    Budget = 10
    MaxNudges = 2
    MaxCiRounds = 1
    MaxConflictRounds = 1
    InboxLimit = 2
    PrEvery = 1
    SlowEvery = 1
    Deadlines = {"grace"}
    MaxCrashes = 1
INVARIANTS
    NudgeNotWedged
