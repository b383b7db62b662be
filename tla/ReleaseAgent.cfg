CONSTANTS
    Releases = {v1, v2, v3}
    None = None
    Broken = {v2}
    Runs = {timer, hand}

SPECIFICATION Spec

INVARIANT BackToTheLastGood
PROPERTY FailedIsNotPutUp
