SPECIFICATION ConnectorSpec
CONSTANTS
    Action = {a1, a2}
    MaxActions = 2
    MaxTime = 1
    Drift = 0
    RequestedAts = {0}
    ActionExpiries = {1}
    RecourseExpiries = {1}
    ReservedAts = {}
    RemedyWindow = 0
    AttemptLimits = {1}
    Kinds = {"reverse"}
    Modes = {"enforced"}
    Custody = TRUE
    PreflightDecisions = {FALSE}
    DrillExpiries = {}
    MaxQualifications = 0
    Implementations = {0}
    Lapses = {"consumed", "expired"}
    MaxAge = 1
    MaxInFlight = 2
    ForeignFacts = FALSE
    FinalAnswers = FALSE
    Failures = FALSE
    Keys = {k1, k2}
    Orders = {o1}
    Products = {"refund", "inventory"}
    Baseline = 2
INVARIANTS
    ConfirmedHasEffect
    WithdrawnLeavesNoEffect
    SettledStands
    StockConserved
PROPERTIES
    ReceiptIsFinal
SYMMETRY Symmetry
CHECK_DEADLOCK FALSE
