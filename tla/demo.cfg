SPECIFICATION DemoSpec
CONSTANTS
    Action = {a1}
    MaxActions = 1
    MaxTime = 0
    Drift = 0
    RequestedAts = {0}
    ActionExpiries = {1}
    RecourseExpiries = {2}
    ReservedAts = {}
    RemedyWindow = 1
    AttemptLimits = {1}
    Kinds = {"reverse"}
    Modes = {"enforced", "cooperative"}
    Custody = TRUE
    PreflightDecisions = {FALSE}
    DrillExpiries = {}
    MaxQualifications = 0
    Implementations = {0}
    Lapses = {"consumed"}
    MaxAge = 1
    MaxInFlight = 1
    ForeignFacts = FALSE
    FinalAnswers = FALSE
    Failures = FALSE
    Keys = {k1, k2}
    Orders = {o1}
    Products = {"refund", "inventory"}
    Baseline = 2
PROPERTIES
    OnePassSuffices
CHECK_DEADLOCK FALSE
