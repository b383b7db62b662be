CONSTANTS
    photo = photo
    scan = scan
    shot = shot
    edit = edit
    NoAsset = NoAsset
    Assets = {shot, edit}
    Stem <- MCStem
    Requests <- MCRequests
    LegacyKind <- MCLegacyKind
    Legacy = {}
    Uploaders = {u1}
    Builders = {b1}
    Readers = {}
    PutAttempts = 2

SPECIFICATION Spec

INVARIANT AccessAgrees

