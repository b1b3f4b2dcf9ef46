--------------------------- MODULE SubClauseVector ---------------------------
(***************************************************************************)
(* What EMatcherBuilder (src/src/IR/EGraphMatching.cpp) promises its       *)
(* callers, without the hash map, the filters' ownership or the sub-index: *)
(* the ids add_clause returns are the positions of an append-only vector   *)
(* of sub-clauses.  A new sub-clause, whose sub-matchers are ids already   *)
(* returned, goes at the end and its id is the old length; add_matcher    *)
(* names a position of the vector; build hands the vector and the clauses *)
(* to the matcher and starts an empty builder.                            *)
(***************************************************************************)
EXTENDS Naturals, Sequences

CONSTANTS
    SubClauses,   \* the sub-clauses a caller can build
    MaxSub,       \* bound on the sub-clauses of one builder
    MaxClauses    \* bound on the clauses of one builder

VARIABLES
    vec,          \* the sub-clauses, in the order of their ids
    clauses,      \* the clauses, each naming a position of vec
    matcher       \* the vector and clauses the last build returned

vvars == <<vec, clauses, matcher>>

Init ==
    /\ vec = <<>>
    /\ clauses = <<>>
    /\ matcher = [subclauses |-> <<>>, clauses |-> <<>>]

\* add_clause of a sub-clause the builder does not have: its id is the
\* number of sub-clauses before it.
AddClause(c) ==
    /\ Len(vec) < MaxSub
    /\ \A s \in DOMAIN c.submatchers : c.submatchers[s] < Len(vec)
    /\ vec' = Append(vec, c)
    /\ UNCHANGED <<clauses, matcher>>

\* add_matcher on the id i: the clause's target is the sub-clause at i.
AddMatcher(i, f) ==
    /\ Len(clauses) < MaxClauses
    /\ clauses' = Append(clauses, [clause |-> i, filter |-> f, target |-> vec[i + 1]])
    /\ UNCHANGED <<vec, matcher>>

Build ==
    /\ matcher' = [subclauses |-> vec, clauses |-> clauses]
    /\ vec' = <<>>
    /\ clauses' = <<>>

Next ==
    \/ \E c \in SubClauses : AddClause(c)
    \/ \E i \in 0..(Len(vec) - 1), f \in BOOLEAN : AddMatcher(i, f)
    \/ Build

Spec == Init /\ [][Next]_vvars

=============================================================================
