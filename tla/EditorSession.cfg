SPECIFICATION FairSpec
CONSTANTS
    MaxEdits = 3
    Wide = {2}
INVARIANT InSyncWhenQuiet
PROPERTY MarkersSettle
CHECK_DEADLOCK FALSE
