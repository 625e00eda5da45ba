\* Two agents with a directory below the root each, one delete or upload, outages.
CONSTANTS
    Agents = {a1, a2}
    NoAgent = NoAgent
    Paths <- OneDirectory
    MaxOps = 1
    MaxFetches = 2
SPECIFICATION Spec
SYMMETRY Symmetry
INVARIANTS
    ListedIsHere
    ChangeIsShown
    HitsWhatWasConfirmed
    AdvanceInv
PROPERTY
    ListingsAdvance
