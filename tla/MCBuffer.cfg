SPECIFICATION Spec
CONSTANTS
    byte0 = byte0
    byte1 = byte1
    Bytes <- MCBytes
    Junk = junk
    INI_BUFFER_SIZE = 2
    ExtraSize = 2
    MaxReadable = 4
INVARIANTS
    IndicesInBlock
PROPERTIES
    ImplementsByteQueue
