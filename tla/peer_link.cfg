SPECIFICATION FairSpec
CONSTANTS
    Cfg <- BothCfg
    Setting <- Settings
    Probes = 2
    Idle = 3
    Cap = 2
    Drain = 1
INVARIANTS Aligned NothingForgotten  HealthyStays
PROPERTY SilenceEnds
CHECK_DEADLOCK FALSE
