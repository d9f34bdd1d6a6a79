\* One pull request, two commits, a red check reported by polls and by a webhook, and an answer.
SPECIFICATION Spec
CONSTANTS
    Issues = {1}
    MaxSessions = 1
    Pulls = {1}
    Shas = {"a", "b"}
    Events <- RedEvents
    Acus = {0}
    Failing = {"failed_check_summary_empty", "check_runs", "get_pull", "send_message"}
    Observations <- PullObservations
    PullStates = {"merged", "success", "failure"}
    MaxConcurrent = 1
    SessionCap = 1
    Budget = 10
    MaxNudges = 1
    MaxCiRounds = 1
    MaxConflictRounds = 1
    InboxLimit = 1
    PrEvery = 1
    SlowEvery = 1
    Deadlines = {"grace"}
    MaxCrashes = 0
INVARIANTS
    CiRoundsBounded
    NoMessageTwice
PROPERTIES
    RemediationSpec
