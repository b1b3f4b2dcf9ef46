-------------------------- MODULE EMatcherRefinement --------------------------
(***************************************************************************)
(* EMatcherBuilder implements SubClauseVector under the mapping Vector,    *)
(* for every set of opcodes and filters and every bound.  The invariant    *)
(* BInv of EMatcherBuilderProofs gives, in every state, that the hash map  *)
(* read in id order is the ghost issued, to which add_clause appends.      *)
(***************************************************************************)
EXTENDS EMatcherBuilderProofs

\* The vector the mapping reads from the hash map.
Vec == ByIdOrder(subclauses)

LEMMA VecInit == Init => Vector!Init
<1> SUFFICES ASSUME Init PROVE Vector!Init
  OBVIOUS
<1>1. Cardinality(DOMAIN subclauses) = 0
  BY FS_EmptySet DEF Init
<1>2. Vec = <<>>
  BY <1>1 DEF Vec, ByIdOrder
<1>. QED
  BY <1>2 DEF Vec, Init, EmptyMatcher, Vector!Init

\* add_clause that inserts appends the new sub-clause to the vector.
LEMMA AddClauseMaps ==
    ASSUME BInv, BInv', AddClause
    PROVE  Vector!Next
<1>1. PICK o \in Opcodes, subs \in SubmatcherLists(subclause_id),
           f \in {"none"} \cup FilterKinds :
         LET filter == IF f = "none" THEN NoFilter
                       ELSE [kind |-> f, addr |-> FreshAddr]
             clause == [opcode |-> o, submatchers |-> subs, filter |-> filter]
         IN  /\ subclause_id < MaxSub
             /\ issued' = Append(issued, clause)
             /\ UNCHANGED <<clauses, matcher>>
  BY DEF AddClause
<1>. DEFINE filter == IF f = "none" THEN NoFilter
                      ELSE [kind |-> f, addr |-> FreshAddr]
            clause == [opcode |-> o, submatchers |-> subs, filter |-> filter]
<1>2. Vec = issued /\ Vec' = issued'
  <2>1. Vec = issued
    BY ByIdOrderIssued DEF BInv, Vec
  <2>2. /\ subclause_id' = subclause_id + 1
        /\ subclause_id + 1 \in Nat
        /\ issued' \in Seq(SubClauseType)
        /\ Len(issued') = subclause_id + 1
        /\ Cardinality(DOMAIN subclauses') = subclause_id + 1
        /\ DOMAIN subclauses' = {issued'[i] : i \in 1..(subclause_id + 1)}
        /\ \A i \in 1..(subclause_id + 1) : subclauses'[issued'[i]] = i - 1
    <3>1. subclause_id' = subclause_id + 1 /\ subclause_id \in Nat
      BY DEF AddClause, BInv, TypeOK
    <3>. QED
      BY <3>1 DEF BInv, TypeOK, IdsInv
  <2>3. Vec' = issued'
    BY <2>2, ByIdOrderOf, Zenon DEF Vec
  <2>. QED
    BY <2>1, <2>3
<1>3. /\ issued \in Seq(SubClauseType) /\ Len(issued) = subclause_id
      /\ issued' \in Seq(SubClauseType)
  BY DEF BInv, TypeOK, IdsInv
<1>4. clause \in SubClauseType
  <2>1. issued'[Len(issued) + 1] = clause /\ Len(issued) + 1 \in DOMAIN issued'
    BY <1>1, <1>3, AppendProperties
  <2>. QED
    BY <1>3, <2>1, ElementOfSeq
<1>5. \A s \in DOMAIN clause.submatchers : clause.submatchers[s] < Len(Vec)
  <2>1. PICK k \in 0..MaxArity : subs \in [1..k -> 0..(subclause_id - 1)]
    BY DEF SubmatcherLists
  <2>. QED
    BY <1>2, <1>3, <2>1
<1>6. Vector!AddClause(clause)
  BY <1>1, <1>2, <1>3, <1>5 DEF Vector!AddClause, Vec
<1>. QED
  BY <1>4, <1>6 DEF Vector!Next

\* add_matcher names the position its id has in the vector.
LEMMA AddMatcherMaps ==
    ASSUME BInv, AddMatcher
    PROVE  Vector!Next
<1>1. PICK c \in 0..(subclause_id - 1), hasFilter \in BOOLEAN :
         /\ Len(clauses) < MaxClauses
         /\ clauses' = Append(clauses, [clause |-> c, filter |-> hasFilter,
                                        target |-> issued[c + 1]])
         /\ UNCHANGED <<subclauses, subclause_id, matcher, issued>>
  BY DEF AddMatcher
<1>2. Vec = issued /\ Vec' = Vec /\ Len(issued) = subclause_id
  BY <1>1, ByIdOrderIssued DEF BInv, Vec, IdsInv
<1>3. Vector!AddMatcher(c, hasFilter)
  BY <1>1, <1>2 DEF Vector!AddMatcher, Vec
<1>. QED
  BY <1>1, <1>2, <1>3 DEF Vector!Next, Vec

\* build hands the vector over and leaves an empty one.
LEMMA BuildMaps ==
    ASSUME Build
    PROVE  Vector!Next
<1>1. Cardinality(DOMAIN subclauses') = 0
  BY FS_EmptySet DEF Build
<1>2. Vec' = <<>>
  BY <1>1 DEF Vec, ByIdOrder
<1>3. Vector!Build
  BY <1>2 DEF Build, Vec, Vector!Build
<1>. QED
  BY <1>3 DEF Vector!Next

LEMMA VecStep == BInv /\ BInv' /\ [Next]_vars => [Vector!Next]_Vector!vvars
<1> SUFFICES ASSUME BInv, BInv', [Next]_vars PROVE [Vector!Next]_Vector!vvars
  OBVIOUS
<1>1. CASE AddClause
  BY <1>1, AddClauseMaps
<1>2. CASE AddMatcher
  BY <1>2, AddMatcherMaps
<1>3. CASE Build
  BY <1>3, BuildMaps
<1>4. CASE UNCHANGED vars
  BY <1>4 DEF vars, Vector!vvars
<1>. QED
  BY <1>1, <1>2, <1>3, <1>4 DEF Next

(* The hash-consing builder is an append-only vector to its callers, over *)
(* any number of add_clause, add_matcher and build calls: the map read in *)
(* id order only ever grows at its end, each id keeps the sub-clause it  *)
(* was returned for until build, and build returns exactly that vector.  *)
THEOREM BuilderRefinement == Spec => VectorRefinement
<1>1. Spec => []BInv
  BY BInvInit, BInvStep, PTL DEF Spec
<1>. QED
  BY <1>1, VecInit, VecStep, PTL DEF Spec, VectorRefinement, Vector!Spec

=============================================================================
