SPECIFICATION Spec
CONSTANTS
    HeaderSize = 2
    BufferSize = 8
    MaxLength = 2
    MaxMessages = 2
PROPERTY
    TailMoved
CHECK_DEADLOCK FALSE
