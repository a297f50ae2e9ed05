SPECIFICATION Spec
CONSTANTS
    Width = 3
    Fuel = 4
    Steps = 60
    Programs <- StoringPrograms
    Storages <- MCStorages
INVARIANT EliminatesDeadOnly
CHECK_DEADLOCK FALSE
