SPECIFICATION FairSpec
CONSTANTS
    Files = {f1, f2}
    Home = home
    Null = null
    MaxTasks = 2
    MaxPolls = 2
    MaxEdits = 1
INVARIANT DeploysTheSelected
INVARIANT MethodsMatch
INVARIANT ListedIffOnChain
PROPERTY DialogCloses
CHECK_DEADLOCK FALSE
