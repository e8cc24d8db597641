\* A password is read into a buffer that is shorter than readLn is told.
CONSTANTS
    WordBits = 8
    NProcs = 4
    LineSize = 3
    CommandSize = 3
    NameSize = 2
    FieldSize = 32
    MaxAhead = 1
    Shadow <- ConstShadow
    Typeable <- ConstTypeable
    Exits <- ConstExits
    Tests <- ConstTests
SPECIFICATION FairSpec
INVARIANTS LengthIsCapacity
