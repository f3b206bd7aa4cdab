SPECIFICATION MCSpec
CONSTANTS
    Bytes <- MCBytes
    Junk = 0
    Block = 2
    MaxSize = 5
    Chunks <- MCChunks
    Threads <- MCThreads
    Nodes <- MCNodes
INVARIANTS InOrder OnceOnly BlocksReturn OneOwner NoneLost
PROPERTIES IsByteQueue FalseMeansEmpty
CHECK_DEADLOCK FALSE
