\* The frames found in a stream of bytes that arrives in pieces.
SPECIFICATION Spec
CONSTANTS
    Bytes = {0, 1, 2}
    Configs <- SmallStreams
    HalMax = 3
    MaxBytes = 7
INVARIANTS FramesAreTheStreams NoFrameMissed ReportedOnce FramesAreWhole
PROPERTIES BacklogIsServed
