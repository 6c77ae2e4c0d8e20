\* Frames without data and without a footer.
SPECIFICATION Spec
CONSTANTS
    Bytes = {0, 1, 2}
    Configs <- NoData
    HalMax = 3
    MaxBytes = 5
INVARIANTS FixedAtItsEnd
