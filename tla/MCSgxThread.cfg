SPECIFICATION FairSpec
CONSTANTS
    NSSA = 3
    MaxSally = 3
INVARIANTS
    CssaTracked
    NoDeadEnds
    ResumesPastTrap
PROPERTIES
    ServiceSpec
    TrapAnswered
