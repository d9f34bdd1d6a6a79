\* The receiver, the loop and an operator, faults and a crash anywhere.
SPECIFICATION Spec
CONSTANTS
    TriggerLabel = "devin-fix"
    Payloads <- MCPayloads
    Requests <- MCRequests
    Self = "self"
    IdentityMayFail = TRUE
    Numbers = {1}
    MaxForced = 1
    Loop = "loop"
    Admins = {"admin"}
    PrEvery = 2
    SlowEvery = 1
    InboxLimit = 1
    MaxMishaps = 1
INVARIANTS
    TicksSerialised
    RowServedOnce
    OwnTextStaysOut
PROPERTIES
    IntakeSpec
    TicksSpec
    RowIsSettled
    LabelIsRecovered
    LoopTicksAgain
