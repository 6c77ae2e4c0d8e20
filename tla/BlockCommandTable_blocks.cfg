\* The ground and the applications on board work on two blocks, which are also rotated.
SPECIFICATION Spec
CONSTANTS
    NoUpload = NoUpload
    Blocks = {"b0", "b1"}
    FirstBlock = "b0"
    MaxCmds = 2
    Cmds = {"cmd", "nop"}
    NOP = "nop"
    Loads <- McLoads
    FillLength = 2
    MaxInterval = 2
INVARIANTS BlocksAreSound UploadIsWhole
CHECK_DEADLOCK FALSE
