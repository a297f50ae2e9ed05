SPECIFICATION FairSpec
CONSTANTS
    Readers = {r1, r2}
    Items = {a, b}
    NoItem = NoItem
    NoPromise = NoPromise
    MaxPromises = 4
INVARIANTS DeliveredOnce FifoDelivery NothingLost
PROPERTY ImplementsChannel
CHECK_DEADLOCK FALSE
