SPECIFICATION FairSpec
CONSTANTS
    MAX_LOCOS = 2
    MaxSpeed = 4
    UseDefault = 255
    Locos <- ThreeLocos
    Fns <- SomeFns
    Momenta <- SlowOrDefault
    FnBytes <- SomeFnBytes
    MOMENTUM_FACTOR = 1
    PowerDiv = 2
    DelayMod = 12
    MaxConsist = 3
    Sessions <- AllSessions
INVARIANTS TableOK LockHolds
PROPERTIES RampInside Settles
CHECK_DEADLOCK FALSE
