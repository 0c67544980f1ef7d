SPECIFICATION Spec
CONSTANTS
    Threads = {t1, t2}
    NoThread = NoThread
    INODE_TABLE_SIZE = 2
    DATA_BLOCKS = 4
    BLOCK_SIZE = 2
    MAX_OPEN_FILES = 2
    MAX_DIR_ENTRIES = 2
    DIRECT_BLOCK_COUNT = 1
    MAX_INODE_BLOCKS = 3
    SizeModulus = 256
    Names = {a}
    NoName = NoName
    Sources = {a}
    FlagSets <- MCFlagSets
    Contents <- MCLongContents
    Lengths = {3}
    BUFFER_SIZE = 2
    HandleReuse = FALSE
SYMMETRY MCSymmetry
VIEW view
INVARIANTS TypeOK BlocksAccounted LocksHeld
PROPERTIES ImplementsStreams OnlyFailedCopyLoses
