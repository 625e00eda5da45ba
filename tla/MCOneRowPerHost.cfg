CONSTANTS
    Hosts = {h1}
    Conns = {c1, c2}
    NoHost = NoHost
    NoConn = NoConn
    MaxId = 2
SPECIFICATION Spec
INVARIANT
    OneRowPerHost
CHECK_DEADLOCK FALSE
