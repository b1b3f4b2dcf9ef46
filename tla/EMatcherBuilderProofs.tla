------------------------ MODULE EMatcherBuilderProofs ------------------------
(***************************************************************************)
(* Proofs about EMatcherBuilder, for every set of opcodes and filter kinds *)
(* and every bound.  The ids add_clause hands out are 0..subclause_id-1,   *)
(* each the id of exactly one key, and issued lists the keys in id order;  *)
(* build's sort by id therefore gives back issued, and what MatcherIndexes *)
(* Ids says of the built matcher is what issued says of the ids.           *)
(***************************************************************************)
EXTENDS EMatcherBuilder, FiniteSetTheorems, SequenceTheorems, TLAPS

-----------------------------------------------------------------------------
(* Lemmas on finite sets.                                                  *)

\* A set missing an element of a finite set is smaller than it.
LEMMA StrictSubsetCard ==
    ASSUME NEW S, IsFiniteSet(S), NEW T \in SUBSET S, NEW x \in S \ T
    PROVE  IsFiniteSet(T) /\ Cardinality(T) < Cardinality(S)
<1>1. IsFiniteSet(T) /\ Cardinality(T) <= Cardinality(S)
      /\ (Cardinality(S) = Cardinality(T) => S = T)
  BY FS_Subset
<1>2. Cardinality(T) \in Nat /\ Cardinality(S) \in Nat
  BY <1>1, FS_CardinalityType
<1>. QED
  BY <1>1, <1>2

\* The image of a finite set under a function is finite and no larger.
LEMMA ImageCard ==
    ASSUME NEW S, IsFiniteSet(S), NEW T, NEW f \in [S -> T],
           \A t \in T : \E x \in S : f[x] = t
    PROVE  IsFiniteSet(T) /\ Cardinality(T) <= Cardinality(S)
<1>1. f \in Surjection(S, T)
  BY DEF Surjection
<1>. QED
  BY <1>1, FS_Surjection

\* A union of finite sets is no larger than the sum of their sizes.
LEMMA UnionCard ==
    ASSUME NEW S, IsFiniteSet(S), NEW T, IsFiniteSet(T)
    PROVE  IsFiniteSet(S \cup T) /\ Cardinality(S \cup T) <= Cardinality(S) + Cardinality(T)
<1>1. IsFiniteSet(S \cap T) /\ Cardinality(S \cap T) \in Nat
  BY FS_Intersection, FS_CardinalityType
<1>2. Cardinality(S) \in Nat /\ Cardinality(T) \in Nat
  BY FS_CardinalityType
<1>3. IsFiniteSet(S \cup T)
      /\ Cardinality(S \cup T) = Cardinality(S) + Cardinality(T) - Cardinality(S \cap T)
  BY FS_Union
<1>. QED
  BY <1>1, <1>2, <1>3

-----------------------------------------------------------------------------
(* The sub-index (lines 116-119) lists every position of the vector under *)
(* its opcode: the position i is at the place given by the number of      *)
(* positions with the same opcode before it.                              *)

Rank(pos, i) == Cardinality({p \in pos : p < i})

LEMMA RankFacts ==
    ASSUME NEW n \in Nat, NEW pos \in SUBSET (1..n), NEW i \in pos
    PROVE  /\ Rank(pos, i) \in 0..(Cardinality(pos) - 1)
           /\ \A x \in pos : Rank(pos, x) = Rank(pos, i) => x = i
<1>0. pos \subseteq Int
  OBVIOUS
<1>1. IsFiniteSet(pos)
  <2>1. IsFiniteSet(1..n)
    BY FS_Interval
  <2>. QED
    BY <2>1, FS_Subset
<1>2. \A x \in pos : IsFiniteSet({p \in pos : p < x}) /\ Rank(pos, x) \in Nat
  BY <1>1, FS_Subset, FS_CardinalityType DEF Rank
<1>3. Rank(pos, i) < Cardinality(pos)
  BY <1>1, StrictSubsetCard DEF Rank
<1>4. \A x, y \in pos : x < y => Rank(pos, x) < Rank(pos, y)
  <2> SUFFICES ASSUME NEW x \in pos, NEW y \in pos, x < y
               PROVE  Rank(pos, x) < Rank(pos, y)
    OBVIOUS
  <2>1. {p \in pos : p < x} \subseteq {p \in pos : p < y}
    <3> SUFFICES ASSUME NEW p \in pos, p < x PROVE p < y
      OBVIOUS
    <3>1. p \in 1..n /\ x \in 1..n /\ y \in 1..n
      OBVIOUS
    <3>. QED
      BY <3>1
  <2>2. x \in {p \in pos : p < y} \ {p \in pos : p < x}
    BY <1>0
  <2>. QED
    BY <1>2, <2>1, <2>2, StrictSubsetCard DEF Rank
<1>5. \A x \in pos : x # i => x < i \/ i < x
  BY <1>0
<1>6. Rank(pos, i) \in 0..(Cardinality(pos) - 1)
  <2>1. Cardinality(pos) \in Nat
    BY <1>1, FS_CardinalityType
  <2>2. Rank(pos, i) \in Nat
    BY <1>2
  <2>. QED
    BY <1>3, <2>1, <2>2
<1>7. \A x \in pos : Rank(pos, x) = Rank(pos, i) => x = i
  <2> SUFFICES ASSUME NEW x \in pos, Rank(pos, x) = Rank(pos, i) PROVE x = i
    OBVIOUS
  <2>0. Rank(pos, x) \in Nat /\ Rank(pos, i) \in Nat
    BY <1>2
  <2>1. /\ x < i => Rank(pos, x) < Rank(pos, i)
        /\ i < x => Rank(pos, i) < Rank(pos, x)
    BY <1>4
  <2>. QED
    BY <1>5, <2>0, <2>1
<1>. QED
  BY <1>6, <1>7

LEMMA SubIndexLists ==
    ASSUME NEW subs \in Seq(SubClauseType), NEW i \in 1..Len(subs)
    PROVE  \E j \in DOMAIN SubIndex(subs)[subs[i].opcode] :
              SubIndex(subs)[subs[i].opcode][j] = i - 1
<1>. DEFINE o == subs[i].opcode
            pos == {p \in 1..Len(subs) : subs[p].opcode = o}
            j == Rank(pos, i) + 1
<1>0. Len(subs) \in Nat /\ subs[i] \in SubClauseType /\ i \in pos
  BY ElementOfSeq, LenProperties
<1>1. o \in Opcodes
  BY <1>0 DEF SubClauseType
<1>2. /\ Rank(pos, i) \in 0..(Cardinality(pos) - 1)
      /\ \A x \in pos : Rank(pos, x) = Rank(pos, i) => x = i
  BY <1>0, RankFacts
<1>3. (CHOOSE x \in pos : Cardinality({p \in pos : p < x}) = j - 1) = i
  BY <1>2 DEF Rank
<1>4. SubIndex(subs)[o] =
        [k \in 1..Cardinality(pos) |->
           (CHOOSE x \in pos : Cardinality({p \in pos : p < x}) = k - 1) - 1]
  BY <1>1 DEF SubIndex
<1>5. j \in 1..Cardinality(pos)
  <2>0. IsFiniteSet(1..Len(subs))
    BY <1>0, FS_Interval
  <2>1. IsFiniteSet(pos)
    BY <2>0, FS_Subset
  <2>2. Cardinality(pos) \in Nat
    BY <2>1, FS_CardinalityType
  <2>. QED
    BY <1>2, <2>2
<1>6. SubIndex(subs)[o][j]
        = (CHOOSE x \in pos : Cardinality({p \in pos : p < x}) = j - 1) - 1
  BY <1>4, <1>5
<1>7. j \in DOMAIN SubIndex(subs)[o] /\ SubIndex(subs)[o][j] = i - 1
  BY <1>3, <1>4, <1>5, <1>6
<1>. QED
  BY <1>7
-----------------------------------------------------------------------------
(* The invariant.  IdsInv: the ids are 0..subclause_id-1, issued[i] is the *)
(* one key with id i-1, every sub-matcher of issued[i] is an earlier id,   *)
(* and every clause names an id and the sub-clause it was returned for.   *)
(* MatcherInv: the matcher last built is well typed and within MaxSub, and *)
(* satisfies MatcherIndexesIds.                                            *)

IdsInv ==
    /\ Len(issued) = subclause_id
    /\ IsFiniteSet(DOMAIN subclauses)
    /\ Cardinality(DOMAIN subclauses) = subclause_id
    /\ DOMAIN subclauses = {issued[i] : i \in 1..subclause_id}
    /\ \A i \in 1..subclause_id : subclauses[issued[i]] = i - 1
    /\ \A i \in 1..subclause_id :
          \A s \in DOMAIN issued[i].submatchers : issued[i].submatchers[s] < i - 1
    /\ \A j \in DOMAIN clauses :
          /\ clauses[j].clause < subclause_id
          /\ clauses[j].target = issued[clauses[j].clause + 1]

MatcherInv ==
    /\ matcher.subclauses \in Seq(SubClauseType)
    /\ Len(matcher.subclauses) <= MaxSub
    /\ MatcherIndexesIds

BInv == TypeOK /\ IdsInv /\ MatcherInv

\* build's sort by id (lines 97-109) of a map whose keys are the entries of
\* iss, each at its position less one, lists the keys in the order of iss.
LEMMA ByIdOrderOf ==
    ASSUME NEW m, NEW S, NEW iss \in Seq(S), NEW n \in Nat, Len(iss) = n,
           Cardinality(DOMAIN m) = n,
           DOMAIN m = {iss[i] : i \in 1..n},
           \A i \in 1..n : m[iss[i]] = i - 1
    PROVE  ByIdOrder(m) = iss
<1>. DEFINE K == DOMAIN m
<1>1. DOMAIN iss = 1..n
  BY LenProperties
<1>2. ASSUME NEW i \in 1..n PROVE (CHOOSE k \in K : m[k] = i - 1) = iss[i]
  <2>1. iss[i] \in K /\ m[iss[i]] = i - 1
    OBVIOUS
  <2>2. \A k \in K : m[k] = i - 1 => k = iss[i]
    <3> SUFFICES ASSUME NEW k \in K, m[k] = i - 1 PROVE k = iss[i]
      OBVIOUS
    <3>1. PICK i2 \in 1..n : k = iss[i2]
      OBVIOUS
    <3>2. m[k] = i2 - 1
      BY <3>1
    <3>. QED
      BY <3>1, <3>2
  <2>. QED
    BY <2>1, <2>2
<1>3. ByIdOrder(m) = [i \in 1..n |-> CHOOSE k \in K : m[k] = i - 1]
  BY DEF ByIdOrder
<1>4. iss = [i \in 1..n |-> iss[i]]
  BY <1>1
<1>. QED
  BY <1>2, <1>3, <1>4

\* In every builder state, build's sort by id lists the keys in the order
\* add_clause issued them.
LEMMA ByIdOrderIssued ==
    ASSUME TypeOK, IdsInv
    PROVE  ByIdOrder(subclauses) = issued
<1>1. subclause_id \in Nat /\ issued \in Seq(SubClauseType)
  BY DEF TypeOK
<1>2. /\ Len(issued) = subclause_id
      /\ Cardinality(DOMAIN subclauses) = subclause_id
      /\ DOMAIN subclauses = {issued[i] : i \in 1..subclause_id}
      /\ \A i \in 1..subclause_id : subclauses[issued[i]] = i - 1
  BY DEF IdsInv
<1>. QED
  BY <1>1, <1>2, ByIdOrderOf, Zenon

\* operator new finds an address no live filter holds: the builder's keys
\* are fewer than MaxSub and the matcher's vector at most MaxSub long.
LEMMA FreshAddrFree ==
    ASSUME TypeOK, IdsInv, MatcherInv, subclause_id < MaxSub
    PROVE  FreshAddr \in 1..(2 * MaxSub + 1) /\ FreshAddr \notin LiveAddrs
<1>. DEFINE K == DOMAIN subclauses
            ms == matcher.subclauses
            A1 == {k.filter.addr : k \in K}
            A2 == {ms[i].filter.addr : i \in DOMAIN ms}
            N == 2 * MaxSub + 1
<1>1. IsFiniteSet(A1) /\ Cardinality(A1) <= subclause_id
  <2>. DEFINE f == [k \in K |-> k.filter.addr]
  <2>1. f \in [K -> A1] /\ \A t \in A1 : \E x \in K : f[x] = t
    OBVIOUS
  <2>2. IsFiniteSet(K) /\ Cardinality(K) = subclause_id
    BY DEF IdsInv
  <2>3. IsFiniteSet(A1) /\ Cardinality(A1) <= Cardinality(K)
    BY <2>1, <2>2, ImageCard
  <2>. QED
    BY <2>2, <2>3
<1>2. IsFiniteSet(A2) /\ Cardinality(A2) <= MaxSub
  <2>1. Len(ms) \in Nat /\ DOMAIN ms = 1..Len(ms)
    BY LenProperties DEF MatcherInv
  <2>2. IsFiniteSet(1..Len(ms)) /\ Cardinality(1..Len(ms)) = Len(ms)
    BY <2>1, FS_Interval
  <2>. DEFINE f == [i \in DOMAIN ms |-> ms[i].filter.addr]
  <2>3. f \in [DOMAIN ms -> A2] /\ \A t \in A2 : \E x \in DOMAIN ms : f[x] = t
    OBVIOUS
  <2>4. IsFiniteSet(A2) /\ Cardinality(A2) <= Cardinality(DOMAIN ms)
    BY <2>1, <2>2, <2>3, ImageCard
  <2>5. Cardinality(A2) \in Nat
    BY <2>4, FS_CardinalityType
  <2>6. Len(ms) <= MaxSub
    BY DEF MatcherInv
  <2>7. Cardinality(DOMAIN ms) = Len(ms)
    BY <2>1, <2>2, Zenon
  <2>. QED
    BY <2>1, <2>4, <2>5, <2>6, <2>7, EMatcherBuilderAssumption
<1>3. IsFiniteSet(LiveAddrs) /\ Cardinality(LiveAddrs) < N
  <2>1. LiveAddrs = A1 \cup A2
    BY DEF LiveAddrs
  <2>2. Cardinality(A1) \in Nat /\ Cardinality(A2) \in Nat
    BY <1>1, <1>2, FS_CardinalityType
  <2>3. IsFiniteSet(A1 \cup A2) /\ Cardinality(A1 \cup A2) <= Cardinality(A1) + Cardinality(A2)
    BY <1>1, <1>2, UnionCard
  <2>4. subclause_id \in Nat /\ MaxSub \in Nat
    BY EMatcherBuilderAssumption DEF TypeOK
  <2>5. IsFiniteSet(LiveAddrs) /\ Cardinality(LiveAddrs) = Cardinality(A1 \cup A2)
    BY <2>1, <2>3
  <2>6. Cardinality(A1 \cup A2) \in Nat
    BY <2>3, FS_CardinalityType
  <2>. QED
    BY <1>1, <1>2, <2>2, <2>3, <2>4, <2>5, <2>6
<1>4. \E a \in 1..N : a \notin LiveAddrs
  <2>1. IsFiniteSet(1..N) /\ Cardinality(1..N) = N
    BY EMatcherBuilderAssumption, FS_Interval
  <2>2. ~(1..N \subseteq LiveAddrs)
    BY <1>3, <2>1, FS_Subset, FS_CardinalityType
  <2>. QED
    BY <2>2
<1>. QED
  BY <1>4 DEF FreshAddr
-----------------------------------------------------------------------------
(* One lemma per action: each keeps BInv.                                  *)

\* The sub-clause add_clause builds from its arguments.
ClauseOf(o, subs, f) ==
    [opcode |-> o, submatchers |-> subs,
     filter |-> IF f = "none" THEN NoFilter ELSE [kind |-> f, addr |-> FreshAddr]]

\* add_clause (lines 72-87) inserts a new key at the next id.
LEMMA AddClauseStep ==
    ASSUME BInv, AddClause
    PROVE  BInv'
<1>. DEFINE n == subclause_id
            K == DOMAIN subclauses
<1>1. PICK o \in Opcodes, subs \in SubmatcherLists(subclause_id),
           f \in {"none"} \cup FilterKinds :
        /\ {k \in K : SameSubClause(k, ClauseOf(o, subs, f))} = {}
        /\ n < MaxSub
        /\ subclauses' = Insert(subclauses, ClauseOf(o, subs, f), n)
        /\ subclause_id' = n + 1
        /\ issued' = Append(issued, ClauseOf(o, subs, f))
        /\ UNCHANGED <<clauses, matcher>>
  BY DEF AddClause, ClauseOf
<1>. DEFINE c == ClauseOf(o, subs, f)
<1>2. /\ n \in Nat /\ MaxSub \in Nat
      /\ issued \in Seq(SubClauseType) /\ Len(issued) = n
      /\ K \subseteq SubClauseType /\ IsFiniteSet(K) /\ Cardinality(K) = n
  BY EMatcherBuilderAssumption DEF BInv, TypeOK, IdsInv
<1>3. c \notin K
  BY <1>1 DEF SameSubClause
<1>4. c \in SubClauseType
  <2>1. FreshAddr \in 1..(2 * MaxSub + 1)
    BY <1>1, FreshAddrFree DEF BInv
  <2>2. PICK k \in 0..MaxArity : subs \in [1..k -> 0..(n - 1)]
    BY DEF SubmatcherLists
  <2>3. subs \in [1..k -> 0..MaxSub]
    BY <1>1, <1>2, <2>2
  <2>. QED
    BY <2>1, <2>3 DEF ClauseOf, SubClauseType, NoFilter
<1>5. /\ issued' \in Seq(SubClauseType) /\ Len(issued') = n + 1
      /\ issued'[n + 1] = c
      /\ \A i \in 1..n : issued'[i] = issued[i]
  BY <1>1, <1>2, <1>4, AppendProperties
<1>6. /\ DOMAIN subclauses' = K \cup {c}
      /\ subclauses'[c] = n
      /\ \A k \in K : subclauses'[k] = subclauses[k]
  BY <1>1, <1>3 DEF Insert
<1>7. TypeOK'
  <2>1. subclauses' \in [K \cup {c} -> 0..n]
    BY <1>1, <1>2, <1>6 DEF BInv, TypeOK, Insert
  <2>. QED
    BY <1>1, <1>2, <1>4, <1>5, <1>6, <2>1 DEF BInv, TypeOK
<1>8. IdsInv'
  <2>1. IsFiniteSet(K \cup {c}) /\ Cardinality(K \cup {c}) = n + 1
    BY <1>2, <1>3, FS_AddElement
  <2>2. K \cup {c} = {issued'[i] : i \in 1..(n + 1)}
    BY <1>2, <1>5 DEF BInv, IdsInv
  <2>3. \A i \in 1..(n + 1) : subclauses'[issued'[i]] = i - 1
    <3> SUFFICES ASSUME NEW i \in 1..(n + 1) PROVE subclauses'[issued'[i]] = i - 1
      OBVIOUS
    <3>1. CASE i = n + 1
      BY <1>2, <1>5, <1>6, <3>1
    <3>2. CASE i \in 1..n
      <4>1. issued'[i] = issued[i] /\ issued[i] \in K /\ subclauses[issued[i]] = i - 1
        BY <1>5, <3>2 DEF BInv, IdsInv
      <4>. QED
        BY <1>6, <4>1
    <3>. QED
      BY <1>2, <3>1, <3>2
  <2>4. \A i \in 1..(n + 1) :
          \A s \in DOMAIN issued'[i].submatchers : issued'[i].submatchers[s] < i - 1
    <3>1. \A s \in DOMAIN c.submatchers : c.submatchers[s] < n
      <4>1. PICK k \in 0..MaxArity : subs \in [1..k -> 0..(n - 1)]
        BY DEF SubmatcherLists
      <4>. QED
        BY <1>2, <4>1 DEF ClauseOf
    <3>. QED
      BY <1>2, <1>5, <3>1 DEF BInv, IdsInv
  <2>5. \A j \in DOMAIN clauses' :
          clauses'[j].clause < n + 1 /\ clauses'[j].target = issued'[clauses'[j].clause + 1]
    <3>1. \A j \in DOMAIN clauses : clauses[j].clause \in 0..(n - 1)
      <4> SUFFICES ASSUME NEW j \in DOMAIN clauses PROVE clauses[j].clause \in 0..(n - 1)
        OBVIOUS
      <4>1. clauses \in Seq([clause : 0..MaxSub, filter : BOOLEAN, target : SubClauseType])
        BY DEF BInv, TypeOK
      <4>2. j \in 1..Len(clauses)
        BY <4>1, LenProperties
      <4>3. clauses[j] \in [clause : 0..MaxSub, filter : BOOLEAN, target : SubClauseType]
        BY <4>1, <4>2, ElementOfSeq
      <4>. QED
        BY <1>2, <4>3 DEF BInv, IdsInv
    <3>. QED
      BY <1>1, <1>5, <3>1 DEF BInv, IdsInv
  <2>. QED
    BY <1>1, <1>5, <1>6, <2>1, <2>2, <2>3, <2>4, <2>5 DEF IdsInv
<1>9. MatcherInv'
  BY <1>1 DEF BInv, MatcherInv, MatcherIndexesIds
<1>. QED
  BY <1>7, <1>8, <1>9 DEF BInv
\* add_matcher (lines 89-92) records a clause on an id already issued.
LEMMA AddMatcherStep ==
    ASSUME BInv, AddMatcher
    PROVE  BInv'
<1>. DEFINE n == subclause_id
            CRec == [clause : 0..MaxSub, filter : BOOLEAN, target : SubClauseType]
<1>1. PICK c \in 0..(n - 1), hasFilter \in BOOLEAN :
        clauses' = Append(clauses, [clause |-> c, filter |-> hasFilter,
                                    target |-> issued[c + 1]])
  BY DEF AddMatcher
<1>2. UNCHANGED <<subclauses, subclause_id, matcher, issued>>
  BY DEF AddMatcher
<1>3. /\ n \in 0..MaxSub /\ issued \in Seq(SubClauseType) /\ Len(issued) = n
      /\ clauses \in Seq(CRec)
  BY DEF BInv, TypeOK, IdsInv
<1>4. issued[c + 1] \in SubClauseType
  BY <1>3, ElementOfSeq
<1>. DEFINE new == [clause |-> c, filter |-> hasFilter, target |-> issued[c + 1]]
<1>5. new \in CRec
  <2>1. c \in 0..MaxSub
    BY <1>3, EMatcherBuilderAssumption
  <2>. QED
    BY <2>1, <1>4, Zenon
<1>6. /\ clauses' \in Seq(CRec)
      /\ DOMAIN clauses' = 1..(Len(clauses) + 1)
      /\ clauses'[Len(clauses) + 1] = new
      /\ \A j \in 1..Len(clauses) : clauses'[j] = clauses[j]
      /\ DOMAIN clauses = 1..Len(clauses)
  BY <1>1, <1>3, <1>5, AppendProperties, LenProperties
<1>7. TypeOK'
  BY <1>2, <1>6 DEF BInv, TypeOK
<1>8. IdsInv'
  <2>1. \A j \in DOMAIN clauses' :
          clauses'[j].clause < n /\ clauses'[j].target = issued[clauses'[j].clause + 1]
    BY <1>6 DEF BInv, IdsInv
  <2>. QED
    BY <1>2, <2>1 DEF BInv, IdsInv
<1>9. MatcherInv'
  BY <1>2 DEF BInv, MatcherInv, MatcherIndexesIds
<1>. QED
  BY <1>7, <1>8, <1>9 DEF BInv

\* build (lines 94-122) hands the sorted sub-clauses to the matcher and
\* empties the builder.
LEMMA BuildStep ==
    ASSUME BInv, Build
    PROVE  BInv'
<1>1. /\ matcher' = [subclauses |-> issued, clauses |-> clauses,
                     subindex |-> SubIndex(issued)]
      /\ subclauses' = [k \in {} |-> 0] /\ subclause_id' = 0
      /\ clauses' = <<>> /\ issued' = <<>>
  BY ByIdOrderIssued DEF BInv, Build
<1>2. /\ issued \in Seq(SubClauseType) /\ Len(issued) = subclause_id
      /\ subclause_id \in 0..MaxSub
  BY DEF BInv, TypeOK, IdsInv
<1>3. TypeOK'
  BY <1>1, EMatcherBuilderAssumption DEF TypeOK
<1>4. IdsInv'
  BY <1>1, FS_EmptySet DEF IdsInv
<1>5. MatcherIndexesIds'
  <2>1. \A j \in DOMAIN clauses :
          clauses[j].clause < Len(issued) /\ issued[clauses[j].clause + 1] = clauses[j].target
    BY <1>2 DEF BInv, IdsInv
  <2>2. \A i \in DOMAIN issued :
          \A s \in DOMAIN issued[i].submatchers : issued[i].submatchers[s] < i - 1
    BY <1>2, LenProperties DEF BInv, IdsInv
  <2>3. \A i \in DOMAIN issued :
          \E j \in DOMAIN SubIndex(issued)[issued[i].opcode] :
             SubIndex(issued)[issued[i].opcode][j] = i - 1
    BY <1>2, LenProperties, SubIndexLists
  <2>. QED
    BY <1>1, <2>1, <2>2, <2>3 DEF MatcherIndexesIds
<1>. QED
  BY <1>1, <1>2, <1>3, <1>4, <1>5 DEF BInv, MatcherInv

LEMMA BInvInit == Init => BInv
<1> SUFFICES ASSUME Init PROVE BInv
  OBVIOUS
<1>1. TypeOK
  BY EMatcherBuilderAssumption DEF Init, TypeOK
<1>2. IdsInv
  BY FS_EmptySet DEF Init, IdsInv
<1>3. MatcherInv
  BY EMatcherBuilderAssumption DEF Init, EmptyMatcher, MatcherInv, MatcherIndexesIds
<1>. QED
  BY <1>1, <1>2, <1>3 DEF BInv

LEMMA BInvStep == BInv /\ [Next]_vars => BInv'
<1> SUFFICES ASSUME BInv, [Next]_vars PROVE BInv'
  OBVIOUS
<1>1. CASE UNCHANGED vars
  BY <1>1 DEF vars, BInv, TypeOK, IdsInv, MatcherInv, MatcherIndexesIds
<1>. QED
  BY <1>1, AddClauseStep, AddMatcherStep, BuildStep DEF Next

(* Every state of the builder is well typed: in particular operator new   *)
(* always finds a free address for add_clause's filter, since at most      *)
(* 2 * MaxSub filters are alive, the builder's and the last matcher's.    *)
THEOREM TypeCorrect == Spec => []TypeOK
<1>1. BInv => TypeOK
  BY DEF BInv
<1>. QED
  BY <1>1, BInvInit, BInvStep, PTL DEF Spec

(* Over any number of rounds of add_clause, add_matcher and build, the     *)
(* matcher build returns is indexed by the ids the builder handed out:     *)
(* each clause's id is the position of the sub-clause it was returned for, *)
(* sub-matchers come before the sub-clauses using them, and the sub-index  *)
(* lists every position under its opcode.                                 *)
THEOREM BuildIndexesIds == Spec => []MatcherIndexesIds
<1>1. BInv => MatcherIndexesIds
  BY DEF BInv, MatcherInv
<1>. QED
  BY <1>1, BInvInit, BInvStep, PTL DEF Spec
====
