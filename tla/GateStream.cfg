SPECIFICATION Spec
CONSTANTS
    HeaderSize = 2
    BufferSize = 8
    MaxLength = 2
    MaxMessages = 3
INVARIANTS
    TypeOK
    InStep
CHECK_DEADLOCK FALSE
