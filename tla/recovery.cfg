SPECIFICATION DrillSpec
CONSTANTS
    Drill = {d1, d2}
    MaxTime = 2
    MaxDepartures = 3
INVARIANTS
    OnlyWholeBundlesReplay
    QualifiedMeansRestored
    FaultsClassified
    ChecksExplainVerdict
    CurrentWhileCovered
SYMMETRY Symmetry
CHECK_DEADLOCK FALSE
