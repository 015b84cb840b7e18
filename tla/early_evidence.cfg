SPECIFICATION Spec
CONSTANTS
    Action = {a1}
    MaxActions = 1
    MaxTime = 2
    Drift = 0
    RequestedAts = {0}
    ActionExpiries = {1}
    RecourseExpiries = {2}
    ReservedAts = {}
    RemedyWindow = 1
    AttemptLimits = {2}
    Kinds = {"reverse"}
    Modes = {"enforced"}
    Custody = TRUE
    PreflightDecisions = {FALSE}
    DrillExpiries = {}
    MaxQualifications = 0
    Implementations = {0}
    Lapses = {}
    MaxAge = 1
    MaxInFlight = 2
    ForeignFacts = FALSE
    FinalAnswers = TRUE
    Failures = FALSE
INVARIANTS
    CompensatedOnLaterEvidence
CHECK_DEADLOCK FALSE
