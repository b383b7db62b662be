CONSTANTS
    Callers = {alice, bob}
    Handlers = {h1, h2}
    Length = 2
    MaxOpen = 1
    OwnSpool = TRUE
    MaxUploads = 2
    Nobody = Nobody

SPECIFICATION Spec

INVARIANT TypeOK
INVARIANT HeldByOne
INVARIANT AssembledWhole
INVARIANT FilesAccounted
INVARIANT OvershootBounded

PROPERTY LandedStays
PROPERTY EveryTakeEnds
