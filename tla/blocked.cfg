\* A session that asks questions, two answers, calls that fail.
SPECIFICATION Spec
CONSTANTS
    Issues = {1}
    MaxSessions = 1
    Pulls = {}
    Shas = {}
    Events <- ReplyEvents
    Acus = {0}
    Failing = {"send_message_ambiguous"}
    Observations <- BlockedObservations
    PullStates = {}
    MaxConcurrent = 1
    SessionCap = 1
    Budget = 10
    MaxNudges = 2
    MaxCiRounds = 1
    MaxConflictRounds = 1
    InboxLimit = 2
    PrEvery = 1
    SlowEvery = 1
    Deadlines = {"grace"}
    MaxCrashes = 0
INVARIANTS
    NudgeNotWedged
    EscalationsEarned
PROPERTIES
    CommentAccounted
