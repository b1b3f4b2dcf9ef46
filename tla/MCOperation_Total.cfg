CONSTANTS
    Widths <- MCWidths
    Names <- MCNames
    LitWidth = 2
    Opcodes <- AllOpcodes

INIT OpInit
NEXT OpNext

INVARIANT FoldTotal

\* Each state is one constructor call, which returns.
CHECK_DEADLOCK FALSE
