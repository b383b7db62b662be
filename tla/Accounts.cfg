CONSTANTS
    boss = boss
    guest = guest
    web = web
    guests = guests
    bosses = bosses
    n1 = n1
    Accounts = {boss, guest}
    Namespaces = {web, guests, bosses}
    Everywhere = Everywhere
    Home <- MCHome
    LimitsOf <- MCLimits
    Configured = {boss}
    Names = {n1, n2, n3}
    Wanted <- MCWanted
    Requests = {q1, q2}
    MaxKeys = 3
    Operator = Operator
    NoTier = NoTier
    Uploaders = {u1, u2}
    Bodies <- MCBodies
    MaxFiles = 3
    Callers = {c1, c2}
    Every = 2
    Burst = 2
    Skew = 2
    MaxTime = 12

SPECIFICATION MCSpec
SYMMETRY MCSymmetry

INVARIANT AdmissionTypeOK
INVARIANT WithinRoot
INVARIANT BlockedKeepsNone
INVARIANT IssuedBounded
INVARIANT QuotaBounded
INVARIANT BlockedUploadsWereLetIn
INVARIANT RateBounded
PROPERTY RevokesWhatItMay
