\* Lists of four nodes as a timeline and as a queue; one of one node behind the uplink; one of two
\* nodes in front of the downlink.
SPECIFICATION McSpec
CONSTANTS
    NULL = NULL
    Size <- McSize
    Packets <- McPackets
    Clock = {0, 2}
    ExecMod = 2
    DataSize = 4
    HeaderLen = 1
    Lengths = {2, 3, 4}
    FifoSize = 2
    CounterMod = 3
    FlushIntervals = {0, 2}
    DefaultInterval = 1
    TelemetryMax = 3
    NumberMod = 5
    DefaultWidth = 2
    Widths = {1, 2}
    Window = 2
    Total = 6
    InFlight = 2
INVARIANTS FramesCarryThePackets CommandsInOrder
PROPERTIES ImplementsQueue TelemetryLeaves LinkRecovers
