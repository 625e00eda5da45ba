\* Two hosts and three connections, any of which may be a host's second or third;
\* as many rows as connections can insert.
CONSTANTS
    Hosts = {h1, h2}
    Conns = {c1, c2, c3}
    NoHost = NoHost
    NoConn = NoConn
    MaxId = 3
SPECIFICATION Spec
SYMMETRY Symmetry
INVARIANTS
    TabReachesItsHost
    RowIsOwn
    StatusLostToSameHost
    DirectoryInv
PROPERTIES
    DeletedStaysDeleted
    DirectoryAsPromised
CHECK_DEADLOCK FALSE
