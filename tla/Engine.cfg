SPECIFICATION Spec
CONSTANTS
    Levels = {0, 10, 20}
    Darkness = {30, 60, 97, 100}
    Thresholds = {101, 60}
    LEARN = 2
    MEMORY = 3
    PATIENCE = 2
    Timeout = 4
    MaxDt = 2
    Samples = 2
    SAMPLE_SPACING = 2
    RuleSets <- MCRuleSets
    StampTimeout = 2
    MinDirections = 2
INVARIANTS CameraHandedBack DarkIsSaid PairingHolds EveryStampPassed
PROPERTIES ScanEnds
CHECK_DEADLOCK FALSE
