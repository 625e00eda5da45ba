CONSTANTS
    Register = Register
    Lists = {}
    Downloads = {d1}
    Changes = {}
    Chunks = 4
    QueueCap = 2
    MaxDials = 1
    ChanCap = 4
SPECIFICATION Spec
INVARIANT
    DownloadOkIsWhole
CHECK_DEADLOCK FALSE
