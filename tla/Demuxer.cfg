SPECIFICATION FairSpec
CONSTANTS
    Requests = {q1, q2}
    Notes = {n1, n2}
    Calls = {c1}
    BodyLength = 2
    MaxChunks = 1
    MaxFrames = 2
    NoLength = NoLength
INVARIANTS RoutedInOrder AnswersMatch InStep FailsOnlyOnBatches NothingStaysBehind
PROPERTY EveryRequestAnswered
CHECK_DEADLOCK FALSE
