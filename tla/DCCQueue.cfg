SPECIFICATION FairSpec
CONSTANTS
    Locos <- TwoLocos
    Speeds <- TwoSpeeds
    Groups <- OneGroup
    Accs <- OneAcc
    EstopRepeats = 1
    AccRepeats = 1
    PacketRepeats <- Repeats
    Delay = 2
    LocoMod = 100
    TimeMod = 1000
    StartTicks = 0
    MaxCmds = 4
INVARIANTS SlotConservation SentSpeedIsLatest CoilPulsed
PROPERTIES QueuesDrain
