CONSTANTS
    Widths <- MCWidths
    Names <- MCNames
    LitWidth = 2
    Opcodes <- SoundOpcodes

INIT OpInit
NEXT OpNext

INVARIANT OpTypeOK
INVARIANT FoldSound

\* Each state is one constructor call, which returns.
CHECK_DEADLOCK FALSE
