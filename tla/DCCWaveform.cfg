SPECIFICATION FairSpec
CONSTANTS
    Bits = 8
    PREAMBLE_BITS_MAIN = 16
    PREAMBLE_BITS_PROG = 22
    WindowFrom = 12
    MaxPacketSize = 5
    MaxResets = 2
    MinPreamble = 10
    Packets <- TwoPackets
    Repeats <- RepeatOne
    MaxPackets = 2
INVARIANTS BufferOwned
PROPERTIES AllHeard RefinesLink
