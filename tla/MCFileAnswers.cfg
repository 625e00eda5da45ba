\* A download of three chunks and an upload or delete side by side, one reconnection;
\* the channels hold two messages, so each can be full.
CONSTANTS
    Register = Register
    Lists = {}
    Downloads = {d1}
    Changes = {w1}
    Chunks = 3
    QueueCap = 2
    MaxDials = 2
    ChanCap = 2
SPECIFICATION Spec
INVARIANTS
    DownloadIntact
    UnreadableNeverServed
    PipelineTrue
    IInv
PROPERTY
    AnswersAreTrue
CHECK_DEADLOCK FALSE
