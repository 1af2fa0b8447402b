SPECIFICATION FairSpec
CONSTANTS
    Sessions <- AllSessions
INVARIANTS AnsweredOnce
PROPERTIES AnswerTrue Restored Answered
CHECK_DEADLOCK FALSE
