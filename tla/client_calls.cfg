\* A POST or a listing of two short pages, every failure, one change at a time.
SPECIFICATION Spec
CONSTANTS
    MaxAttempts = 3
    Ids <- MCIds
    PerPage = 2
    PageLimit = 2
    Limit = 2
    MaxChanges = 1
INVARIANTS
    PostAppliedOnce
    BackoffsCounted
    IssuesNotMissed
    GreenIsEarned
    RedIsNamed
    LatestQuoted
PROPERTIES
    CallSpec
