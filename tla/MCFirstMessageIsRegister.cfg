CONSTANTS
    Register = Register
    Lists = {}
    Downloads = {}
    Changes = {w1}
    Chunks = 1
    QueueCap = 2
    MaxDials = 2
    ChanCap = 1
SPECIFICATION Spec
INVARIANT
    FirstMessageIsRegister
CHECK_DEADLOCK FALSE
