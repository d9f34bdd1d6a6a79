\* Two issues, two slots: labels, a retry, failed starts, the age watchdog.
SPECIFICATION Spec
CONSTANTS
    Issues = {1, 2}
    MaxSessions = 3
    Pulls = {}
    Shas = {}
    Events <- RetryEvent
    Acus = {0}
    Failing = {"create_session", "create_session_ambiguous", "get_issue", "get_session"}
    Observations <- LifecycleObservations
    PullStates = {}
    MaxConcurrent = 2
    SessionCap = 1
    Budget = 10
    MaxNudges = 1
    MaxCiRounds = 1
    MaxConflictRounds = 1
    InboxLimit = 2
    PrEvery = 1
    SlowEvery = 1
    Deadlines = {"age"}
    MaxCrashes = 0
INVARIANTS
    TypeOK
    CapRespected
    OneWorkingSession
    NoSilentDeadEnd
    FlagAnnounced
PROPERTIES
    BillsOnlyQueued
