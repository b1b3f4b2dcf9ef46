--------------------------- MODULE EMatcherBuilder ---------------------------
(***************************************************************************)
(* EMatcherBuilder of src/src/IR/EGraphMatching.cpp: add_clause hash-conses *)
(* sub-clauses into an unordered_map from SubClause to id, add_matcher     *)
(* records top-level clauses, and build moves the sub-clauses into a       *)
(* vector ordered by id, indexes them by opcode, and resets the builder.   *)
(*                                                                         *)
(* A sub-clause is a record of its opcode, the ids of its sub-matchers and *)
(* its filter.  A filter is owned through a unique_ptr: it has a kind (its *)
(* type tag and contents, which SubClauseFilter::operator== compares) and  *)
(* the address of the object.  Every filter the caller makes is a new      *)
(* object, at an address no live filter has; the allocator may hand out   *)
(* again the address of a filter that has been destroyed.                  *)
(***************************************************************************)
EXTENDS Naturals, Sequences, FiniteSets

CONSTANTS
    Opcodes,      \* the opcodes sub-clauses are built for
    Invalid,      \* Operation::Invalid, the wildcard opcode
    FilterKinds,  \* the filters a caller can make, by contents
    MaxSub,       \* bound on the sub-clauses of one builder
    MaxArity,     \* bound on the sub-matchers of one sub-clause
    MaxClauses    \* bound on the clauses of one builder

ASSUME EMatcherBuilderAssumption ==
    /\ Invalid \in Opcodes
    /\ MaxSub \in Nat /\ MaxArity \in Nat /\ MaxClauses \in Nat

NoFilter == [kind |-> "none", addr |-> 0]

VARIABLES
    subclauses,   \* EMatcherBuilder::subclauses, a map SubClause -> id
    subclause_id, \* EMatcherBuilder::subclause_id
    clauses,      \* EMatcherBuilder::clauses
    matcher,      \* the EMatcher the last build returned
    issued        \* the sub-clause each id add_clause returned stands for

vars == <<subclauses, subclause_id, clauses, matcher, issued>>

\* SubClause::operator== (lines 29-37): line 34 compares the filters as
\* unique_ptrs, that is by address.
SameSubClause(a, b) ==
    /\ a.opcode = b.opcode
    /\ a.submatchers = b.submatchers
    /\ a.filter = b.filter

\* The same sub-clause in the sense of the spec: equal filters by contents.
Identical(a, b) ==
    /\ a.opcode = b.opcode
    /\ a.submatchers = b.submatchers
    /\ a.filter.kind = b.filter.kind

EmptyMatcher == [subclauses |-> <<>>, clauses |-> <<>>,
                 subindex |-> [o \in Opcodes |-> <<>>]]

Init ==
    /\ subclauses = [k \in {} |-> 0]
    /\ subclause_id = 0
    /\ clauses = <<>>
    /\ matcher = EmptyMatcher
    /\ issued = <<>>

\* The sequences of ids below n of length at most MaxArity.
SubmatcherLists(n) == UNION {[1..k -> 0..(n - 1)] : k \in 0..MaxArity}

\* Faulty variant of Insert storing the id one past the one returned.
InsertPastId(m, k, i) == [x \in DOMAIN m \cup {k} |-> IF x = k THEN i + 1 ELSE m[x]]

\* The map with key k added to it at id i (the emplace of line 82).
Insert(m, k, i) == [x \in DOMAIN m \cup {k} |-> IF x = k THEN i ELSE m[x]]

\* The addresses of the filters alive: those owned by the builder's keys
\* and by the matcher the caller holds.
LiveAddrs ==
    {k.filter.addr : k \in DOMAIN subclauses}
      \cup {matcher.subclauses[i].filter.addr : i \in DOMAIN matcher.subclauses}

\* The address operator new gives a new filter object.
FreshAddr == CHOOSE a \in 1..(2 * MaxSub + 1) : a \notin LiveAddrs

-----------------------------------------------------------------------------
(* add_clause (lines 72-87).  The sub-matchers passed are ids returned     *)
(* before (the assertion of lines 75-76).  emplace finds an equal key and  *)
(* returns its id, or inserts the sub-clause at subclause_id and bumps it; *)
(* a clause that is not inserted is destroyed with its filter.             *)
AddClause ==
    \E o \in Opcodes, subs \in SubmatcherLists(subclause_id),
       f \in {"none"} \cup FilterKinds :
        LET filter == IF f = "none" THEN NoFilter
                      ELSE [kind |-> f, addr |-> FreshAddr]
            clause == [opcode |-> o, submatchers |-> subs, filter |-> filter]
            found  == {k \in DOMAIN subclauses : SameSubClause(k, clause)}
        IN  /\ found = {}
            /\ subclause_id < MaxSub
            /\ subclauses' = Insert(subclauses, clause, subclause_id)
            /\ subclause_id' = subclause_id + 1
            /\ issued' = Append(issued, clause)
            /\ UNCHANGED <<clauses, matcher>>

(* add_matcher (lines 89-92), on an id add_clause returned.  The field    *)
(* target, the sub-clause that id was returned for, is a ghost.  A call   *)
(* of add_clause that finds its key changes nothing and is a stutter.     *)
AddMatcher ==
    /\ Len(clauses) < MaxClauses
    /\ \E c \in 0..(subclause_id - 1), hasFilter \in BOOLEAN :
         clauses' = Append(clauses, [clause |-> c, filter |-> hasFilter,
                                     target |-> issued[c + 1]])
    /\ UNCHANGED <<subclauses, subclause_id, matcher, issued>>

\* Faulty variant of ByIdOrder sorting with the comparison reversed.
ByIdOrderReversed(m) ==
    LET n == Cardinality(DOMAIN m)
    IN  [i \in 1..n |-> CHOOSE k \in DOMAIN m : m[k] = n - i]

\* The sub-clauses in the order of their ids (lines 97-109).
ByIdOrder(m) ==
    [i \in 1..Cardinality(DOMAIN m) |-> CHOOSE k \in DOMAIN m : m[k] = i - 1]

\* The sub-index (lines 116-119): for each opcode, the positions (0-based)
\* of the sub-clauses with that opcode, in increasing order.
SubIndex(subs) ==
    [o \in Opcodes |->
        LET pos == {i \in 1..Len(subs) : subs[i].opcode = o}
        IN  [j \in 1..Cardinality(pos) |->
               (CHOOSE i \in pos : Cardinality({p \in pos : p < i}) = j - 1) - 1]]

(* build (lines 94-122): the matcher takes the sub-clauses sorted by id,   *)
(* the clauses, and the sub-index; the builder is left empty (line 114    *)
(* moves the clauses out, which leaves the vector empty).  The matcher    *)
(* returned before is dropped by the caller, with its filters.            *)
Build ==
    /\ LET subs == ByIdOrder(subclauses)
       IN  matcher' = [subclauses |-> subs, clauses |-> clauses,
                       subindex |-> SubIndex(subs)]
    /\ subclauses' = [k \in {} |-> 0]
    /\ subclause_id' = 0
    /\ clauses' = <<>>
    /\ issued' = <<>>

Next == AddClause \/ AddMatcher \/ Build

Spec == Init /\ [][Next]_vars

-----------------------------------------------------------------------------
SubClauseType ==
    [opcode : Opcodes,
     submatchers : UNION {[1..k -> 0..MaxSub] : k \in 0..MaxArity},
     filter : {NoFilter} \cup [kind : FilterKinds, addr : 1..(2 * MaxSub + 1)]]

TypeOK ==
    /\ DOMAIN subclauses \subseteq SubClauseType
    /\ subclauses \in [DOMAIN subclauses -> 0..(subclause_id - 1)]
    /\ subclause_id \in 0..MaxSub
    /\ clauses \in Seq([clause : 0..MaxSub, filter : BOOLEAN, target : SubClauseType])
    /\ issued \in Seq(SubClauseType)

(* The matcher build returns is the one the ids describe: every clause's  *)
(* sub-clause id indexes, in the matcher's vector, the sub-clause         *)
(* add_clause returned that id for; every sub-clause's sub-matchers come  *)
(* before it, so that a bottom-up pass over the vector evaluates them     *)
(* first; and every sub-clause is listed in the sub-index under its       *)
(* opcode.  This rests on the hash-consing never skipping an id and on    *)
(* build sorting by id.                                                   *)
MatcherIndexesIds ==
    LET subs == matcher.subclauses
    IN  /\ \A j \in DOMAIN matcher.clauses :
              LET c == matcher.clauses[j]
              IN  c.clause < Len(subs) /\ subs[c.clause + 1] = c.target
        /\ \A i \in DOMAIN subs :
              /\ \A s \in DOMAIN subs[i].submatchers : subs[i].submatchers[s] < i - 1
              /\ \E j \in DOMAIN matcher.subindex[subs[i].opcode] :
                    matcher.subindex[subs[i].opcode][j] = i - 1

(* The builder implements the vector of SubClauseVector: the hash map     *)
(* read in the order of its ids, as build reads it, is the vector, and    *)
(* the clauses and the matcher's vector and clauses are the abstract      *)
(* ones.  add_clause that inserts appends to the vector, so every id keeps *)
(* naming the sub-clause it was returned for; add_matcher names a         *)
(* position; build returns the vector.  This needs emplace to number the  *)
(* keys 0, 1, ... without a gap or a repeat, and build to sort by id.     *)
Vector == INSTANCE SubClauseVector WITH
    SubClauses <- SubClauseType,
    vec <- ByIdOrder(subclauses),
    matcher <- [subclauses |-> matcher.subclauses, clauses |-> matcher.clauses]

VectorRefinement == Vector!Spec

(* Spec section 4.3: sub-clauses are hash-consed, identical sub-clauses   *)
(* get the same id; no two ids of the builder stand for the same opcode,  *)
(* sub-matchers and filter.                                               *)
HashConsed ==
    \A k1, k2 \in DOMAIN subclauses : Identical(k1, k2) => k1 = k2

=============================================================================
