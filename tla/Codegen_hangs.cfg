SPECIFICATION FairFinding
CONSTANTS
    Width = 3
    Fuel = 4
    Steps = 60
    Programs <- HangingPrograms
    Storages <- MCStorages
PROPERTY Compiles
CHECK_DEADLOCK FALSE
