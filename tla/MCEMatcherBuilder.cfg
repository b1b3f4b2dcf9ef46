CONSTANTS
    Add = Add
    Inv = Inv
    Opcodes <- MCOpcodes
    Invalid <- Inv
    FilterKinds = {"is_constant"}
    MaxSub = 2
    MaxArity = 2
    MaxClauses = 1

SPECIFICATION Spec

INVARIANT TypeOK
INVARIANT MatcherIndexesIds
PROPERTY VectorRefinement
