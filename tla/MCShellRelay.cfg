\* Two terminals over one connection that may break, or one over two connections; the shell
\* of the first writes twice, and the Frontend channel holds one piece.
CONSTANTS
    Register = Register
    s1 = s1
    s2 = s2
    Terms = {s1, s2}
    MaxOutput <- MCOutput
    QueueCap = 2
    MaxDials = 2
    FrontCap = 1
SPECIFICATION FairSpec
CONSTRAINT OneOrTheOther
INVARIANTS
    OutputInOrder
    OnceInv
    NoOutputTwice
PROPERTIES
    ExitTold
    OutputAsPromised
CHECK_DEADLOCK FALSE
