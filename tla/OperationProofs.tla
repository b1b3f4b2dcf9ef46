--------------------------- MODULE OperationProofs ---------------------------
(***************************************************************************)
(* Proofs about the integer smart-constructors of Operation, for every set *)
(* of widths and every literal width (the code's is 64), where the runs    *)
(* of MCOperation take widths 1..3 and a two-bit literal.                 *)
(***************************************************************************)
EXTENDS Operation, TLAPS

\* e is the abort, or an expression of width w.
HasWidth(e, w) == e = Crash \/ e.w = w

\* Every leaf of width w has width w.
LEMMA LeafWidth ==
    ASSUME NEW w, NEW e \in Leaves(w)
    PROVE  e.w = w
BY DEF Leaves, ConstantInt, Constant, Undef

\* Each BinaryOp::Create* returns its left operand's width, or aborts.
LEMMA BinaryWidth ==
    ASSUME NEW w, NEW o \in BinaryOpcodes, NEW l \in Leaves(w), NEW r \in Leaves(w)
    PROVE  HasWidth(CreateBinary(o, l, r), w)
<1>1. l.w = w /\ r.w = w
  BY LeafWidth
<1>. USE <1>1 DEF HasWidth, Undef, ConstantInt, Node, FromAP, Crash
<1>2. HasWidth(CreateAdd(l, r), w) /\ HasWidth(CreateSub(l, r), w)
      /\ HasWidth(CreateMul(l, r), w)
  BY DEF CreateAdd, CreateSub, CreateMul
<1>3. HasWidth(CreateUDiv(l, r), w) /\ HasWidth(CreateSDiv(l, r), w)
      /\ HasWidth(CreateURem(l, r), w) /\ HasWidth(CreateSRem(l, r), w)
  BY DEF CreateUDiv, CreateSDiv, CreateURem, CreateSRem
<1>4. HasWidth(CreateAnd(l, r), w) /\ HasWidth(CreateOr(l, r), w)
      /\ HasWidth(CreateXor(l, r), w)
  BY DEF CreateAnd, CreateOr, CreateXor
<1>5. \A s \in {"Shl", "LShr", "AShr"} : HasWidth(CreateShift(s, l, r), w)
  BY DEF CreateShift
<1>6. HasWidth(CreateShl(l, r), w) /\ HasWidth(CreateLShr(l, r), w)
      /\ HasWidth(CreateAShr(l, r), w)
  BY <1>5 DEF CreateShl, CreateLShr, CreateAShr
<1>7. \A e \in {CreateBinary(o, l, r)} :
         \/ e \in {CreateAdd(l, r), CreateSub(l, r), CreateMul(l, r)}
         \/ e \in {CreateUDiv(l, r), CreateSDiv(l, r), CreateURem(l, r), CreateSRem(l, r)}
         \/ e \in {CreateAnd(l, r), CreateOr(l, r), CreateXor(l, r)}
         \/ e \in {CreateShl(l, r), CreateLShr(l, r), CreateAShr(l, r)}
  BY DEF CreateBinary, BinaryOpcodes
<1>. HIDE DEF HasWidth, Undef, ConstantInt, Node, FromAP, Crash
<1>. QED
  BY <1>2, <1>3, <1>4, <1>6, <1>7, Zenon

\* UnaryOp::CreateNot keeps its operand's width; a cast returns its target.
LEMMA UnaryWidth ==
    ASSUME NEW w, NEW t, NEW x \in Leaves(w)
    PROVE  /\ HasWidth(CreateNot(x), w)
           /\ \A o \in CastOpcodes : HasWidth(CreateCast(o, t, x), t)
<1>1. x.w = w
  BY LeafWidth
<1>. QED
  BY <1>1 DEF HasWidth, CreateNot, CreateCast, CastOpcodes, CreateTrunc,
             CreateZExt, CreateSExt, Undef, ConstantInt, Node

\* SelectOp::Create returns the width of its arms.
LEMMA SelectWidth ==
    ASSUME NEW w, NEW c, NEW t \in Leaves(w), NEW f \in Leaves(w)
    PROVE  HasWidth(CreateSelect(c, t, f), w)
BY LeafWidth DEF HasWidth, CreateSelect, Node

\* ICmpOp::CreateICmp, with or without a literal, returns an i1.
LEMMA ICmpWidth ==
    ASSUME NEW p, NEW l, NEW r, NEW n
    PROVE  /\ HasWidth(CreateICmp(p, l, r), 1)
           /\ HasWidth(CreateICmpLitL(p, n, r), 1)
           /\ HasWidth(CreateICmpLitR(p, l, n), 1)
<1>1. \A a, b : HasWidth(CreateICmp(p, a, b), 1)
  BY DEF HasWidth, CreateICmp, ConstantInt, Node
<1>. QED
  BY <1>1 DEF CreateICmpLitL, CreateICmpLitR

-----------------------------------------------------------------------------
(* The type of a constructor's result, for every width.                   *)

LEMMA OpTypeInit == OpInit => OpTypeOK
BY DEF OpInit, OpTypeOK

LEMMA OpTypeStep == OpTypeOK /\ [OpNext]_opvars => OpTypeOK'
<1> SUFFICES ASSUME OpTypeOK, [OpNext]_opvars PROVE OpTypeOK'
  OBVIOUS
<1>1. CASE BuildBinary
  <2>1. PICK o \in BinaryOpcodes \cap Opcodes, w \in Widths :
               \E l, r \in Leaves(w) : call' = Call(o, w, <<l, r>>)
                                        /\ result' = CreateBinary(o, l, r)
    BY <1>1 DEF BuildBinary
  <2>2. PICK l, r \in Leaves(w) : call' = Call(o, w, <<l, r>>)
                                   /\ result' = CreateBinary(o, l, r)
    BY <2>1
  <2>. QED
    BY <2>2, BinaryWidth DEF OpTypeOK, HasWidth, Call
<1>2. CASE BuildNot
  <2>0. PICK w \in Widths : \E x \in Leaves(w) :
               call' = Call("Not", w, <<x>>) /\ result' = CreateNot(x)
    BY <1>2 DEF BuildNot
  <2>1. PICK x \in Leaves(w) :
               call' = Call("Not", w, <<x>>) /\ result' = CreateNot(x)
    BY <2>0
  <2>. QED
    BY <2>1, UnaryWidth DEF OpTypeOK, HasWidth, Call
<1>3. CASE BuildCast
  <2>0. PICK o \in CastOpcodes \cap Opcodes, w, t \in Widths : \E x \in Leaves(w) :
               call' = Call(o, t, <<x>>) /\ result' = CreateCast(o, t, x)
    BY <1>3 DEF BuildCast
  <2>1. PICK x \in Leaves(w) :
               call' = Call(o, t, <<x>>) /\ result' = CreateCast(o, t, x)
    BY <2>0
  <2>. QED
    BY <2>1, UnaryWidth DEF OpTypeOK, HasWidth, Call
<1>4. CASE BuildSelect
  <2>0. PICK w \in Widths, c \in Leaves(1) : \E t, f \in Leaves(w) :
               call' = Call("Select", w, <<c, t, f>>)
               /\ result' = CreateSelect(c, t, f)
    BY <1>4 DEF BuildSelect
  <2>1. PICK t, f \in Leaves(w) :
               call' = Call("Select", w, <<c, t, f>>)
               /\ result' = CreateSelect(c, t, f)
    BY <2>0
  <2>. QED
    BY <2>1, SelectWidth DEF OpTypeOK, HasWidth, Call
<1>5. CASE BuildICmp
  <2>1. PICK p \in ICmpPredicates, w \in Widths : \E l, r \in Leaves(w) :
               call' = Call(p, 1, <<l, r>>) /\ result' = CreateICmp(p, l, r)
    BY <1>5 DEF BuildICmp
  <2>. QED
    BY <2>1, ICmpWidth DEF OpTypeOK, HasWidth, Call
<1>6. CASE BuildICmpLit
  <2>1. PICK p \in ICmpPredicates, w \in Widths, n \in Literals,
             side \in {"lhs", "rhs"} : \E x \in Leaves(w) :
               /\ call' = [op |-> "ICmpLit", w |-> 1, args |-> <<x>>, pred |-> p,
                           lit |-> n, side |-> side]
               /\ result' = IF side = "lhs" THEN CreateICmpLitL(p, n, x)
                                            ELSE CreateICmpLitR(p, x, n)
    BY <1>6 DEF BuildICmpLit
  <2>. QED
    BY <2>1, ICmpWidth DEF OpTypeOK, HasWidth
<1>7. CASE UNCHANGED opvars
  BY <1>7 DEF OpTypeOK, opvars, NoCall
<1>. QED
  BY <1>1, <1>2, <1>3, <1>4, <1>5, <1>6, <1>7 DEF OpNext

(* Every constructor call, on operands of any width, returns the abort or *)
(* an expression of the type the operation asks for: the operands' width, *)
(* i1 for a comparison, the target of a cast.                              *)
THEOREM ResultTyped == OpSpec => []OpTypeOK
BY OpTypeInit, OpTypeStep, PTL DEF OpSpec

=============================================================================
