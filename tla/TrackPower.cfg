SPECIFICATION FairSpec
CONSTANT
    Sessions <- AllSessions
INVARIANTS AlertBounded ModesOK BackOff
PROPERTIES Retried
