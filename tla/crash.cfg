\* One issue retried, two slots, and a crash anywhere.
SPECIFICATION Spec
CONSTANTS
    Issues = {1}
    MaxSessions = 4
    Pulls = {}
    Shas = {}
    Events <- RetryEvents
    Acus = {0}
    Failing = {"create_session_ambiguous"}
    Observations <- LifecycleObservations
    PullStates = {}
    MaxConcurrent = 2
    SessionCap = 1
    Budget = 10
    MaxNudges = 1
    MaxCiRounds = 1
    MaxConflictRounds = 1
    InboxLimit = 2
    PrEvery = 1
    SlowEvery = 1
    Deadlines = {"age"}
    MaxCrashes = 1
INVARIANTS
    CapRespected
    NoAttemptBilledTwice
PROPERTIES
    RemediationSpec
