SPECIFICATION FairSpec
CONSTANTS
    Requests = {p1, p2}
    Pool = 1
INVARIANTS SuccessIsWhole AbandonedUnseen ScratchRemoved
PROPERTY EveryPostAnswered
CHECK_DEADLOCK FALSE
