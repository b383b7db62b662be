CONSTANTS
    photo = photo
    scan = scan
    shot = shot
    edit = edit
    NoAsset = NoAsset
    Assets = {photo, scan, edit}
    Stem <- MCStem
    Requests <- MCRequests
    LegacyKind <- MCLegacyKind
    Legacy = {photo}
    Uploaders = {u1, u2}
    Builders = {b1}
    Readers = {r1}
    PutAttempts = 2

SPECIFICATION Spec
SYMMETRY MCSymmetry
CONSTRAINT OneKeyInUse

INVARIANT TypeOK
INVARIANT RecordedIsStored
INVARIANT AccessAgrees
INVARIANT PublishedIsReadable
INVARIANT WithheldHasCopy

