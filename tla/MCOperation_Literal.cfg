CONSTANTS
    Widths <- MCWidths
    Names <- MCNames
    LitWidth = 2
    Opcodes <- LiteralOnly

INIT OpInit
NEXT OpNext

INVARIANT LiteralCompare

\* Each state is one constructor call, which returns.
CHECK_DEADLOCK FALSE
