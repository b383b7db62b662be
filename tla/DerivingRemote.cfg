CONSTANTS
    image = image
    video = video
    local = local
    r1 = r1
    bare = bare
    client = client
    Assets = {video}
    Cost <- MCCost
    MaxAttempts = 2
    StaleAfter = 0
    RetryDelays <- MCDelays
    OverdueCap = 0
    ChargeCap = 4
    Locals = {local}
    Remotes = {r1, bare}
    Clients = {}
    Ladder <- MCLadder
    Broken = {}
    AssetsWired = TRUE
    Mishaps = {"stumble", "die", "unlogged"}
    RemoteRetry = 1
    RetryBase = 1
    RetryCap = 1
    RequeueModes = {"rebuild"}
    MaxRequeues = 1

SPECIFICATION DeriveSpec
INVARIANT WorkTypeOK
INVARIANT DoneMeansWhole
PROPERTY GoneIsCounted
PROPERTY FreshClaimStays
