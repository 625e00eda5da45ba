CONSTANTS
    Register = Register
    Lists = {}
    Downloads = {}
    Changes = {w1}
    Chunks = 1
    QueueCap = 2
    MaxDials = 1
    ChanCap = 1
SPECIFICATION Spec
PROPERTY
    DisconnectUnblocks
CHECK_DEADLOCK FALSE
