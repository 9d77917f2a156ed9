SPECIFICATION LogSpec
CONSTANTS
    Threads = {t1, t2}
    MaxLines = 3
    Sizes <- MCSizes
    LOG_BUFFER_SIZE = 4
    BUFFER_NUM = 4
    None = None
INVARIANTS
    NeverRotates
PROPERTIES
    KeptIsWritten
