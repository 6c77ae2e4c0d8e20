\* A stream whose lengths are the sizes of whole frames, with the offset 0.
SPECIFICATION Spec
CONSTANTS
    Bytes = {0, 1, 2}
    Configs <- DefaultLengths
    HalMax = 3
    MaxBytes = 5
INVARIANTS EveryFrameIsWhole
