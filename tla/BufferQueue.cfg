SPECIFICATION Spec
CONSTANTS
    INITIAL_BLOCK_SIZE = 2
    MAX_BLOCK_SIZE = 4
    SizeMod = 256
    Byte = {0, 1, 2, 3, 4, 5, 6, 7}
    Positions = 8
    MaxContent = 7
    MaxIoves = 2
INVARIANTS
    BufferWellformed
    SomethingOffered
PROPERTY
    ImplementsByteQueue
