------------------------- MODULE MCEMatcherBuilder -------------------------
(* A builder over a binary opcode and the wildcard, with one kind of    *)
(* filter, built any number of times.                                    *)
EXTENDS EMatcherBuilder, TLC

CONSTANTS Add, Inv

MCOpcodes == {Add, Inv}

=============================================================================
