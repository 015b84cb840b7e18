SPECIFICATION Spec
CONSTANTS
    Action = {a1, a2}
    MaxActions = 1
    MaxTime = 2
    Drift = 0
    RequestedAts = {0}
    ActionExpiries = {2}
    RecourseExpiries = {2}
    ReservedAts = {}
    RemedyWindow = 0
    AttemptLimits = {2}
    Kinds = {"compensate", "escalate"}
    Modes = {"enforced", "cooperative"}
    Custody = FALSE
    PreflightDecisions = {TRUE, FALSE}
    DrillExpiries = {1}
    MaxQualifications = 1
    Implementations = {i1, i2}
    Lapses = {"expired", "unknown"}
    MaxAge = 1
    MaxInFlight = 2
    ForeignFacts = FALSE
    FinalAnswers = TRUE
    Failures = TRUE
INVARIANTS
    RecordFollowsLog
    BundleVerifies
    PreflightBeforePermit
PROPERTIES
    ImplementsSettlement
    QualifiedRemedyOnly
SYMMETRY Interchangeable
CHECK_DEADLOCK FALSE
