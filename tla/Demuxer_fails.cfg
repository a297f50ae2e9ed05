SPECIFICATION Spec
CONSTANTS
    Requests = {q1, q2}
    Notes = {n1, n2}
    Calls = {c1}
    BodyLength = 2
    MaxChunks = 2
    MaxFrames = 2
    NoLength = NoLength
INVARIANT NeverFails

CHECK_DEADLOCK FALSE
