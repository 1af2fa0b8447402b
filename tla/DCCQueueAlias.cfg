SPECIFICATION Spec
CONSTANTS
    Locos <- AliasLoco
    Speeds <- Moving
    Groups <- NoGroup
    Accs <- OneAcc
    EstopRepeats = 1
    AccRepeats = 1
    PacketRepeats <- Repeats
    Delay = 2
    LocoMod = 8
    TimeMod = 64
    StartTicks = 4
    MaxCmds = 4
INVARIANT SentSpeedIsLatest
