CONSTANTS
    image = image
    video = video
    local = local
    r1 = r1
    bare = bare
    client = client
    Assets = {video}
    Cost <- MCCost
    MaxAttempts = 2
    StaleAfter = 1
    RetryDelays <- MCDelays
    OverdueCap = 0
    ChargeCap = 4
    Locals = {local}
    Remotes = {bare}
    Clients = {}
    Ladder <- MCLadder
    Broken = {}
    AssetsWired = TRUE
    Mishaps = {}
    RemoteRetry = 1
    RetryBase = 1
    RetryCap = 1
    RequeueModes = {"fill"}
    MaxRequeues = 0

SPECIFICATION DeriveSpec
INVARIANT BareReportsFailure
