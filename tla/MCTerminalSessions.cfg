\* Two agents, two connections, two terminals: the connections may be of one agent
\* and overlap, or of two agents; two terminals may share an index or not.
CONSTANTS
    Agents = {a1, a2}
    Conns = {c1, c2}
    Sessions = {s1, s2}
    NoConn = NoConn
    NoSession = NoSession
SPECIFICATION Spec
SYMMETRY Symmetry
INVARIANTS
    ListedIsAttached
    DetachedIsDone
    IndexedWhileRegistered
    DoneHasCause
    IndexAgrees
    DeadEntryOnlyAfterPanic
    LostOnlyToSameAgent
    ServiceInv
PROPERTY
    TerminalsAsPromised
\* Connections and sessions are used once each: a run ends when all are spent.
CHECK_DEADLOCK FALSE
