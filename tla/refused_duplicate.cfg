SPECIFICATION ConnectorSpec
CONSTANTS
    Action = {a1}
    MaxActions = 1
    MaxTime = 0
    Drift = 0
    RequestedAts = {0}
    ActionExpiries = {1}
    RecourseExpiries = {1}
    ReservedAts = {}
    RemedyWindow = 0
    AttemptLimits = {1}
    Kinds = {"reverse"}
    Modes = {"enforced"}
    Custody = TRUE
    PreflightDecisions = {FALSE}
    DrillExpiries = {}
    MaxQualifications = 0
    Implementations = {0}
    Lapses = {"consumed", "expired"}
    MaxAge = 1
    MaxInFlight = 1
    ForeignFacts = FALSE
    FinalAnswers = FALSE
    Failures = FALSE
    Keys = {k1}
    Orders = {o1}
    Products = {"inventory"}
    Baseline = 1
INVARIANT
    RefusalPrecedesEffect
CHECK_DEADLOCK FALSE
