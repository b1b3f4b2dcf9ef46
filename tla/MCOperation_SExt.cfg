CONSTANTS
    Widths <- MCWidths
    Names <- MCNames
    LitWidth = 2
    Opcodes <- SExtOnly

INIT OpInit
NEXT OpNext

INVARIANT FoldSound

\* Each state is one constructor call, which returns.
CHECK_DEADLOCK FALSE
