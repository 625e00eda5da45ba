\* Two tabs, two tokens, two requests under way: a late answer to a call of the first
\* session can meet the second one, with terminals open.
CONSTANTS
    MaxTabs = 2
    Calls = {c1, c2}
    NoCall = NoCall
    MaxLogins = 2
    Sizes = {full}
    Default = Default
    Tiny = Tiny
SPECIFICATION FairSpec
INVARIANTS
    ActiveIsTab
    SocketsFollowPanels
    DisplayedIsFitted
    IInv
PROPERTIES
    DriftsByRefitOnly
    EndsForAReason
    ExpiredSessionEnds
