SPECIFICATION Spec
CONSTANTS
    NL = NL
    Fragment <- MCFragment
    Writer <- MCWriter
    Program <- MCProgram
    BatchSize = 2
    BufferSize = 1
INVARIANTS
    Accounted
    ChannelOrder
    FlushedOnClose
PROPERTIES
    NeverStuck
CHECK_DEADLOCK FALSE
