SPECIFICATION Spec
CONSTANTS
    a = a
    b = b
    c = c
    a_too_long = a_too_long
    NoName = NoName
    INODE_TABLE_SIZE = 4
    DATA_BLOCKS = 3
    BLOCK_SIZE = 2
    MAX_OPEN_FILES = 2
    MAX_DIR_ENTRIES = 3
    SizeModulus = 256
    Names <- AllNames
    Clip <- Cut
    Paths <- AllPaths
    Contents <- LongContents
    SharedTruncate = TRUE
    ClosedHandles = TRUE
    MaxOffset = 2
INVARIANTS BlocksAccounted DirectoryConsistent
PROPERTIES BytesKept
VIEW Observable
CHECK_DEADLOCK FALSE
