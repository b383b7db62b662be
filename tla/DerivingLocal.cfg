CONSTANTS
    image = image
    video = video
    local = local
    r1 = r1
    bare = bare
    client = client
    Assets = {image, video}
    Cost <- MCCost
    MaxAttempts = 2
    StaleAfter = 0
    RetryDelays <- MCDelays
    OverdueCap = 0
    ChargeCap = 4
    Locals = {local}
    Remotes = {}
    Clients = {client}
    Ladder <- MCLadder
    Broken = {image}
    AssetsWired = TRUE
    Mishaps = {"stumble", "die", "unqueued", "refused"}
    RemoteRetry = 1
    RetryBase = 1
    RetryCap = 2
    RequeueModes = {"fill"}
    MaxRequeues = 0

SPECIFICATION FairDeriveSpec
INVARIANT DoneMeansWhole
INVARIANT NoOrphanedClaim
INVARIANT OneChargePerClaim
PROPERTY EveryJobSettles
