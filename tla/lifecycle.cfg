SPECIFICATION LiveSpec
CONSTANTS
    Action = {a1}
    MaxActions = 1
    MaxTime = 3
    Drift = 0
    RequestedAts = {0}
    ActionExpiries = {2}
    RecourseExpiries = {3}
    ReservedAts = {}
    RemedyWindow = 1
    AttemptLimits = {2}
    Kinds = {"reverse", "escalate"}
    Modes = {"enforced", "observed"}
    Custody = TRUE
    PreflightDecisions = {FALSE}
    DrillExpiries = {}
    MaxQualifications = 0
    Implementations = {0}
    Lapses = {"consumed", "unknown"}
    MaxAge = 1
    MaxInFlight = 2
    ForeignFacts = FALSE
    FinalAnswers = TRUE
    Failures = FALSE
INVARIANTS
    TypeOK
    AtMostOneCall
    RecourseHeldWhileExposed
    BundleVerifies
    NothingStranded
PROPERTIES
    ReceiptIsFinal
    EveryCallConcludes
CHECK_DEADLOCK FALSE
