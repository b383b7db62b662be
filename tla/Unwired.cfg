CONSTANTS
    image = image
    video = video
    local = local
    r1 = r1
    bare = bare
    client = client
    Assets = {image}
    Cost <- MCCost
    MaxAttempts = 4
    StaleAfter = 1
    RetryDelays <- MCDelays
    OverdueCap = 0
    ChargeCap = 6
    Locals = {local}
    Remotes = {}
    Clients = {}
    Ladder <- MCLadder
    Broken = {}
    AssetsWired = FALSE
    Mishaps = {}
    RemoteRetry = 1
    RetryBase = 1
    RetryCap = 3
    RequeueModes = {"fill"}
    MaxRequeues = 0

SPECIFICATION DeriveSpec
INVARIANT NothingGivenUp
