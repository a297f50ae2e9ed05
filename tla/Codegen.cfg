SPECIFICATION FairSpec
CONSTANTS
    Width = 3
    Fuel = 4
    Steps = 60
    Programs <- MCPrograms
    Storages <- MCStorages
INVARIANTS GeneratedRight NothingMissed PhisCover NoUndefinedRead FoldingKeeps StorageKeeps
PROPERTY Compiles
CHECK_DEADLOCK FALSE
