SPECIFICATION Spec
CONSTANTS
    Action = {a1}
    MaxActions = 1
    MaxTime = 2
    Drift = 0
    RequestedAts = {0, 1}
    ActionExpiries = {2}
    RecourseExpiries = {2}
    ReservedAts = {1}
    RemedyWindow = 0
    AttemptLimits = {2}
    Kinds = {"reverse"}
    Modes = {"enforced"}
    Custody = TRUE
    PreflightDecisions = {FALSE}
    DrillExpiries = {}
    MaxQualifications = 0
    Implementations = {0}
    Lapses = {}
    MaxAge = 1
    MaxInFlight = 2
    ForeignFacts = TRUE
    FinalAnswers = TRUE
    Failures = FALSE
INVARIANTS
    OwnInputsVerify
CHECK_DEADLOCK FALSE
