CONSTANTS
    MaxSegments = 4
    MaxChunks = 6
    MaxSide = 4
    MaxSize = 7
    Widths = {2, 3, 4, 6}
    MaxWidths = 3

SPECIFICATION Spec
CHECK_DEADLOCK FALSE

INVARIANT NotesGoPictureStays
INVARIANT UprightAsTagged
INVARIANT LadderFits
