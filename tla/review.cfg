\* One pull request that conflicts, is reviewed and is settled.
SPECIFICATION Spec
CONSTANTS
    Issues = {1}
    MaxSessions = 1
    Pulls = {1}
    Shas = {"a", "b"}
    Events <- ReviewEvents
    Acus = {0}
    Failing = {"get_pull"}
    Observations <- SettlingObservations
    PullStates = {"merged", "closed", "conflicted", "pending"}
    MaxConcurrent = 1
    SessionCap = 1
    Budget = 10
    MaxNudges = 1
    MaxCiRounds = 1
    MaxConflictRounds = 1
    InboxLimit = 1
    PrEvery = 2
    SlowEvery = 1
    Deadlines = {"grace"}
    MaxCrashes = 0
INVARIANTS
    ConflictRoundsBounded
    ClosureAnnounced
PROPERTIES
    CommentAccounted
    ClosedIsFinal
    TickOrder
