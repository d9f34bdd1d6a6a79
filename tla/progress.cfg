\* A session that stays blocked or opens a pull request nobody merges, two answers.
SPECIFICATION FairSpec
CONSTANTS
    Issues = {1}
    MaxSessions = 1
    Pulls = {1}
    Shas = {"a"}
    Events <- ReplyEvents
    Acus = {0}
    Failing = {"comment"}
    Observations <- IdleObservations
    PullStates = {"success"}
    MaxConcurrent = 1
    SessionCap = 1
    Budget = 10
    MaxNudges = 2
    MaxCiRounds = 1
    MaxConflictRounds = 1
    InboxLimit = 2
    PrEvery = 1
    SlowEvery = 1
    Deadlines = {"grace", "stale"}
    MaxCrashes = 0
INVARIANTS
    NudgesBounded
PROPERTIES
    BlockedIsEscalated
    PullIsWatched
