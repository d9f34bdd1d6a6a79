\* An answer about a closed pull request, and the session ends.
SPECIFICATION Spec
CONSTANTS
    Issues = {1}
    MaxSessions = 1
    Pulls = {1}
    Shas = {"a"}
    Events <- ReplyEvents
    Acus = {0}
    Failing = {}
    Observations <- SettlingObservations
    PullStates = {"closed", "success"}
    MaxConcurrent = 1
    SessionCap = 1
    Budget = 10
    MaxNudges = 1
    MaxCiRounds = 1
    MaxConflictRounds = 1
    InboxLimit = 2
    PrEvery = 1
    SlowEvery = 1
    Deadlines = {"grace"}
    MaxCrashes = 0
INVARIANTS
    NoSilentDeadEnd
