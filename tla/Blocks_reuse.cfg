SPECIFICATION Spec
CONSTANTS
    Threads = {t1, t2}
    NoThread = NoThread
    INODE_TABLE_SIZE = 4
    DATA_BLOCKS = 4
    BLOCK_SIZE = 1
    MAX_OPEN_FILES = 1
    MAX_DIR_ENTRIES = 2
    DIRECT_BLOCK_COUNT = 1
    MAX_INODE_BLOCKS = 2
    SizeModulus = 256
    Names = {a, b, c}
    NoName = NoName
    Sources = {}
    FlagSets <- MCFewFlagSets
    Contents <- MCShortContents
    Lengths = {2}
    BUFFER_SIZE = 1
    HandleReuse = TRUE
SYMMETRY MCSymmetry
VIEW view
INVARIANTS BlocksAccounted NamesUnique Progress
PROPERTIES FilesApart AppendsExtend
