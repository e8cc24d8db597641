SPECIFICATION FairDisk
CONSTANTS
    NBuses = 2
    NDevices = 3
    NFuncs = 2
    Functions <- MCFunctions
    Multi <- MCMulti
    Controllers <- MCControllers
    Drives <- MCDrives
    Lba = 4
    Numbers = {0, 1, 2, 3}
    RamFs = 1
    MaxDisks = 4
    Blocks = {1, 3, 4, 7, 11, 12}
    MaxMarked = 1
INVARIANT ResultSaysSo
CHECK_DEADLOCK FALSE
