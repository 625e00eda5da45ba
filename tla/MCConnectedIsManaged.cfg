CONSTANTS
    Agents = {a1}
    Conns = {c1, c2}
    Sessions = {s1}
    NoConn = NoConn
    NoSession = NoSession
SPECIFICATION Spec
INVARIANT
    ConnectedIsManaged
CHECK_DEADLOCK FALSE
