CONSTANTS
    image = image
    video = video
    Assets <- MCAssets
    Cost <- MCCost
    MaxAttempts = 2
    StaleAfter = 1
    RetryDelays <- MCDelays
    OverdueCap = 1
    ChargeCap = 4

SPECIFICATION Spec

INVARIANT TypeOK
INVARIANT AttemptBound
INVARIANT LastErrorTellsHow
INVARIANT EveryClaimAccounted
PROPERTY GivenUpIsFinal
PROPERTY ImplementsBoundedRetry
