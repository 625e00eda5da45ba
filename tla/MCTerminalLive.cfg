\* One agent that reconnects once, one terminal: every interleaving of the
\* goroutines that can keep the terminal or a connection alive.
CONSTANTS
    Agents = {a1}
    Conns = {c1, c2}
    Sessions = {s1}
    NoConn = NoConn
    NoSession = NoSession
SPECIFICATION FairSpec
PROPERTIES
    BrowserGoneEndsTerminal
    ReaderEndsWithTerminal
    BrokenLinkIsReaped
CHECK_DEADLOCK FALSE
