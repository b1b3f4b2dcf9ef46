---------------------------- MODULE MCOperation ----------------------------
(* Constructors called on every leaf of widths 1 to 3.                    *)
EXTENDS Operation, TLC

MCWidths == 1..3
MCNames == {"x", "y"}
AllOpcodes == BinaryOpcodes \cup CastOpcodes \cup {"Not", "Select", "ICmp"}

\* Every constructor but CreateSExt, whose fold of undef FoldSound refutes
\* in MCOperation_SExt.cfg.
SoundOpcodes == AllOpcodes \ {"SExt"}

SExtOnly == {"SExt"}

\* The int64_t literal overloads of CreateICmp, on a two-bit literal so that
\* widths 1..3 truncate it, keep it, and sign-extend it.
LiteralOnly == {"ICmpLit"}

=============================================================================
