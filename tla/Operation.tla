----------------------------- MODULE Operation -----------------------------
(***************************************************************************)
(* The integer smart-constructors of src/src/IR/Operation.cpp: the undef   *)
(* propagation, identity folds and constant folding each Create* applies   *)
(* before it allocates a node, in the order the code tries them.          *)
(*                                                                         *)
(* An expression is a record: a ConstantInt of width w and value v, a      *)
(* named Constant (a symbol), an Undef, a node that the constructor        *)
(* allocated with its operands, or Crash, the abort of APInt's division    *)
(* by a zero constant.  The operands a constructor is called with are      *)
(* leaves; what a node means is given by the reference semantics RefDen,   *)
(* the LLVM meaning of the operation, under which a division by zero, a    *)
(* signed overflow of sdiv/srem and an over-wide shift are undefined.     *)
(***************************************************************************)
EXTENDS Naturals, Integers, FiniteSets

CONSTANTS
    Widths,   \* the integer bitwidths enumerated
    Names,    \* the names of the symbolic constants of each width
    Opcodes,  \* the constructors whose calls are enumerated
    LitWidth  \* the width of the int64_t literal of CreateICmp

ASSUME OperationAssumption ==
    /\ Widths \subseteq Nat \ {0}
    /\ IsFiniteSet(Widths)
    /\ Names # {}
    /\ LitWidth \in Nat \ {0}

BinaryOpcodes ==
    {"Add", "Sub", "Mul", "UDiv", "SDiv", "URem", "SRem",
     "And", "Or", "Xor", "Shl", "LShr", "AShr"}
CastOpcodes == {"Trunc", "ZExt", "SExt"}
ICmpPredicates ==
    {"EQ", "NE", "UGT", "UGE", "ULT", "ULE", "SGT", "SGE", "SLT", "SLE"}

-----------------------------------------------------------------------------
(* Expressions.                                                           *)

ConstantInt(w, v) == [op |-> "ConstantInt", w |-> w, v |-> v]
Constant(w, n)    == [op |-> "Constant", w |-> w, name |-> n]
Undef(w)          == [op |-> "Undef", w |-> w]
Node(o, w, args)  == [op |-> o, w |-> w, args |-> args]
Crash             == [op |-> "Crash", w |-> 0]

\* The values of width w, as unsigned integers.
Vals(w) == 0..(2^w - 1)

\* The leaves of width w: every constant, every symbol, undef.
Leaves(w) ==
    {ConstantInt(w, v) : v \in Vals(w)} \cup {Constant(w, n) : n \in Names}
    \cup {Undef(w)}

IsConstInt(e) == e.op = "ConstantInt"
IsUndef(e) == e.op = "Undef"

\* is_constant_int(*e, v)
IsConstantInt(e, v) == IsConstInt(e) /\ e.v = v

-----------------------------------------------------------------------------
(* llvm::APInt, the arithmetic constant folding calls.                    *)

\* The two's complement reading of v, and back.
Signed(v, w) == IF v >= 2^(w - 1) THEN v - 2^w ELSE v
Wrap(x, w) == x % 2^w

\* APInt::operator-() (two's complement negation) and isNegative.
Neg(v, w) == Wrap(2^w - v, w)
IsNegative(v, w) == v >= 2^(w - 1)

\* What an APInt operation that fails its assertion returns here.
APCrash == -1

\* APInt::udiv / urem assert a non-zero divisor.
APUDiv(a, b) == IF b = 0 THEN APCrash ELSE a \div b
APURem(a, b) == IF b = 0 THEN APCrash ELSE a % b

\* APInt::sdiv / srem, by the sign cases of the APInt source: negate the
\* negative operands, divide unsigned, negate the result back.
APSDiv(a, b, w) ==
    IF b = 0 THEN APCrash
    ELSE CASE IsNegative(a, w) /\ IsNegative(b, w) -> Neg(a, w) \div Neg(b, w)
           [] IsNegative(a, w) -> Neg(Neg(a, w) \div b, w)
           [] IsNegative(b, w) -> Neg(a \div Neg(b, w), w)
           [] OTHER -> a \div b
APSRem(a, b, w) ==
    IF b = 0 THEN APCrash
    ELSE IF IsNegative(a, w) THEN Neg(Neg(a, w) % (IF IsNegative(b, w) THEN Neg(b, w) ELSE b), w)
         ELSE a % (IF IsNegative(b, w) THEN Neg(b, w) ELSE b)

\* APInt shifts by an APInt amount clamp it to the bitwidth.
Clamp(b, w) == IF b > w THEN w ELSE b
APShl(a, b, w) == Wrap(a * 2^Clamp(b, w), w)
APLShr(a, b, w) == a \div 2^Clamp(b, w)
APAShr(a, b, w) == Wrap(Signed(a, w) \div 2^Clamp(b, w), w)

\* The APInt shift of opcode o.
APShift(o, a, b, w) ==
    CASE o = "Shl" -> APShl(a, b, w)
      [] o = "LShr" -> APLShr(a, b, w)
      [] o = "AShr" -> APAShr(a, b, w)

\* APInt::trunc, zext, sext.
APTrunc(v, t) == v % 2^t
APSExt(v, w, t) == IF IsNegative(v, w) THEN v + 2^t - 2^w ELSE v

\* APInt::operator&, | and ^ on two values of width w: the result's bits
\* from the lowest, each the operation on the operands' bits.
APBitOp(o, x, y) ==
    CASE o = "And" -> x * y
      [] o = "Or" -> x + y - x * y
      [] o = "Xor" -> x + y - 2 * x * y
APBitwise(o, a, b, w) ==
    LET low[i \in 0..w] ==
          IF i = 0 THEN 0
          ELSE low[i - 1] + 2^(i - 1) * APBitOp(o, (a \div 2^(i - 1)) % 2, (b \div 2^(i - 1)) % 2)
    IN  low[w]

\* ConstantInt::Create of an APInt result; an assertion aborts instead.
FromAP(w, r) == IF r = APCrash THEN Crash ELSE ConstantInt(w, r)

-----------------------------------------------------------------------------
(* BinaryOp::Create* (lines 413-659), each in the order of the code:      *)
(* undef propagation, the identity folds, constant folding, and last the  *)
(* allocation of a node by BinaryOp::Create (lines 382-395).              *)

CreateAdd(l, r) ==
    CASE IsUndef(l) \/ IsUndef(r) -> Undef(l.w)
      [] IsConstantInt(l, 0) -> r
      [] IsConstantInt(r, 0) -> l
      [] IsConstInt(l) /\ IsConstInt(r) -> ConstantInt(l.w, Wrap(l.v + r.v, l.w))
      [] OTHER -> Node("Add", l.w, <<l, r>>)

\* Faulty variant of CreateSub that folds 0 - x to x, as CreateAdd folds 0 + x.
CreateSubZeroLhs(l, r) ==
    CASE IsUndef(l) \/ IsUndef(r) -> Undef(l.w)
      [] IsConstantInt(l, 0) -> r
      [] IsConstantInt(r, 0) -> l
      [] IsConstInt(l) /\ IsConstInt(r) -> ConstantInt(l.w, Wrap(l.v - r.v, l.w))
      [] OTHER -> Node("Sub", l.w, <<l, r>>)

CreateSub(l, r) ==
    CASE IsUndef(l) \/ IsUndef(r) -> Undef(l.w)
      [] IsConstantInt(r, 0) -> l
      [] IsConstInt(l) /\ IsConstInt(r) -> ConstantInt(l.w, Wrap(l.v - r.v, l.w))
      [] OTHER -> Node("Sub", l.w, <<l, r>>)

CreateMul(l, r) ==
    CASE IsConstantInt(l, 0) -> l
      [] IsConstantInt(r, 0) -> r
      [] IsConstInt(l) /\ IsConstInt(r) -> ConstantInt(l.w, Wrap(l.v * r.v, l.w))
      [] OTHER -> Node("Mul", l.w, <<l, r>>)

CreateUDiv(l, r) ==
    CASE IsConstantInt(l, 0) \/ IsConstantInt(r, 1) -> l
      [] IsConstInt(l) /\ IsConstInt(r) -> FromAP(l.w, APUDiv(l.v, r.v))
      [] OTHER -> Node("UDiv", l.w, <<l, r>>)

CreateSDiv(l, r) ==
    CASE IsConstantInt(l, 0) -> l
      [] IsConstantInt(r, 1) /\ r.w > 1 -> l
      [] IsConstInt(l) /\ IsConstInt(r) -> FromAP(l.w, APSDiv(l.v, r.v, l.w))
      [] OTHER -> Node("SDiv", l.w, <<l, r>>)

\* Faulty variant of CreateURem building the zero of URem(x, 1) as a 1-bit
\* APInt instead of one of the operand's width.
CreateURemOneBitZero(l, r) ==
    CASE IsConstantInt(l, 0) -> l
      [] IsConstantInt(r, 1) -> ConstantInt(1, 0)
      [] IsConstInt(l) /\ IsConstInt(r) -> FromAP(l.w, APURem(l.v, r.v))
      [] OTHER -> Node("URem", l.w, <<l, r>>)

CreateURem(l, r) ==
    CASE IsConstantInt(l, 0) -> l
      [] IsConstantInt(r, 1) -> ConstantInt(l.w, 0)
      [] IsConstInt(l) /\ IsConstInt(r) -> FromAP(l.w, APURem(l.v, r.v))
      [] OTHER -> Node("URem", l.w, <<l, r>>)

CreateSRem(l, r) ==
    CASE IsConstantInt(l, 0) -> l
      [] IsConstantInt(r, 1) /\ r.w > 1 -> ConstantInt(l.w, 0)
      [] IsConstInt(l) /\ IsConstInt(r) -> FromAP(l.w, APSRem(l.v, r.v, l.w))
      [] OTHER -> Node("SRem", l.w, <<l, r>>)

CreateAnd(l, r) ==
    CASE IsConstantInt(l, 0) -> l
      [] IsConstantInt(r, 0) -> r
      [] IsConstInt(l) /\ IsConstInt(r) -> ConstantInt(l.w, APBitwise("And", l.v, r.v, l.w))
      [] OTHER -> Node("And", l.w, <<l, r>>)

CreateOr(l, r) ==
    CASE IsConstantInt(l, 0) -> r
      [] IsConstantInt(r, 0) -> l
      [] IsConstInt(l) /\ IsConstInt(r) -> ConstantInt(l.w, APBitwise("Or", l.v, r.v, l.w))
      [] OTHER -> Node("Or", l.w, <<l, r>>)

CreateXor(l, r) ==
    CASE IsUndef(l) \/ IsUndef(r) -> Undef(l.w)
      [] IsConstantInt(l, 0) -> r
      [] IsConstantInt(r, 0) -> l
      [] IsConstInt(l) /\ IsConstInt(r) -> ConstantInt(l.w, APBitwise("Xor", l.v, r.v, l.w))
      [] OTHER -> Node("Xor", l.w, <<l, r>>)

\* Shl, LShr and AShr share their folds: a zero value or a zero amount
\* returns the value operand.
CreateShift(o, l, r) ==
    CASE IsConstantInt(l, 0) \/ IsConstantInt(r, 0) -> l
      [] IsConstInt(l) /\ IsConstInt(r) -> ConstantInt(l.w, APShift(o, l.v, r.v, l.w))
      [] OTHER -> Node(o, l.w, <<l, r>>)

CreateShl(l, r) == CreateShift("Shl", l, r)
CreateLShr(l, r) == CreateShift("LShr", l, r)
CreateAShr(l, r) == CreateShift("AShr", l, r)

CreateBinary(o, l, r) ==
    CASE o = "Add" -> CreateAdd(l, r)   [] o = "Sub" -> CreateSub(l, r)
      [] o = "Mul" -> CreateMul(l, r)   [] o = "UDiv" -> CreateUDiv(l, r)
      [] o = "SDiv" -> CreateSDiv(l, r) [] o = "URem" -> CreateURem(l, r)
      [] o = "SRem" -> CreateSRem(l, r) [] o = "And" -> CreateAnd(l, r)
      [] o = "Or" -> CreateOr(l, r)     [] o = "Xor" -> CreateXor(l, r)
      [] o = "Shl" -> CreateShl(l, r)   [] o = "LShr" -> CreateLShr(l, r)
      [] o = "AShr" -> CreateAShr(l, r)

-----------------------------------------------------------------------------
(* UnaryOp::CreateNot and the integer casts (lines 688-733).             *)

CreateNot(x) ==
    IF IsConstInt(x) THEN ConstantInt(x.w, Wrap(2^x.w - 1 - x.v, x.w))
    ELSE Node("Not", x.w, <<x>>)

CreateTrunc(t, x) ==
    CASE IsUndef(x) -> Undef(t)
      [] IsConstInt(x) -> ConstantInt(t, APTrunc(x.v, t))
      [] OTHER -> Node("Trunc", t, <<x>>)

CreateZExt(t, x) ==
    IF IsConstInt(x) THEN ConstantInt(t, x.v) ELSE Node("ZExt", t, <<x>>)

CreateSExt(t, x) ==
    CASE IsUndef(x) -> Undef(t)
      [] IsConstInt(x) -> ConstantInt(t, APSExt(x.v, x.w, t))
      [] OTHER -> Node("SExt", t, <<x>>)

CreateCast(o, t, x) ==
    CASE o = "Trunc" -> CreateTrunc(t, x)
      [] o = "ZExt" -> CreateZExt(t, x)
      [] o = "SExt" -> CreateSExt(t, x)

-----------------------------------------------------------------------------
(* SelectOp::Create (lines 790-807) and ICmpOp::CreateICmp (818-856).     *)

CreateSelect(c, t, f) ==
    IF IsConstInt(c) THEN (IF c.v = 1 THEN t ELSE f)
    ELSE Node("Select", t.w, <<c, t, f>>)

\* constant_int_compare (declared outside src/): the predicate on the
\* unsigned or two's complement readings.
IntCompare(p, a, b, w) ==
    LET sa == Signed(a, w)
        sb == Signed(b, w)
    IN  CASE p = "EQ" -> a = b    [] p = "NE" -> a # b
          [] p = "UGT" -> a > b   [] p = "UGE" -> a >= b
          [] p = "ULT" -> a < b   [] p = "ULE" -> a <= b
          [] p = "SGT" -> sa > sb [] p = "SGE" -> sa >= sb
          [] p = "SLT" -> sa < sb [] p = "SLE" -> sa <= sb

CreateICmp(p, l, r) ==
    IF IsConstInt(l) /\ IsConstInt(r)
    THEN ConstantInt(1, IF IntCompare(p, l.v, r.v, l.w) THEN 1 ELSE 0)
    ELSE Node(p, 1, <<l, r>>)

\* APInt(64, static_cast<uint64_t>(n)): the bits of the int64_t literal n.
LiteralBits(n) == Wrap(n, LitWidth)

\* APInt::sextOrTrunc of a value of width from to width to.
SExtOrTrunc(v, from, to) == IF to > from THEN APSExt(v, from, to) ELSE APTrunc(v, to)

\* Faulty variant of SExtOrTrunc zero-extending the literal.
ZExtOrTrunc(v, from, to) == IF to > from THEN v ELSE APTrunc(v, to)

\* The literal overloads (lines 835-856): the literal is made a ConstantInt
\* of the other operand's width and CreateICmp is called on the two.
CreateICmpLitL(p, n, r) ==
    CreateICmp(p, ConstantInt(r.w, SExtOrTrunc(LiteralBits(n), LitWidth, r.w)), r)

\* Faulty variant of CreateICmpLitR zero-extending the literal.
CreateICmpLitRZExt(p, l, n) ==
    CreateICmp(p, l, ConstantInt(l.w, ZExtOrTrunc(LiteralBits(n), LitWidth, l.w)))

CreateICmpLitR(p, l, n) ==
    CreateICmp(p, l, ConstantInt(l.w, SExtOrTrunc(LiteralBits(n), LitWidth, l.w)))

-----------------------------------------------------------------------------
(* The reference semantics: what the operation means in the IR, on        *)
(* operand values a and b of width w.  An undefined case may produce any   *)
(* value or any behaviour at all, an abort included.                      *)

Abs(x) == IF x < 0 THEN -x ELSE x

\* Division truncating toward zero, on mathematical integers.
TruncDiv(x, y) == IF (x < 0) = (y < 0) THEN Abs(x) \div Abs(y) ELSE -(Abs(x) \div Abs(y))

Bit(v, i) == (v \div 2^i) % 2

\* The value of width w whose i-th bit is f of the operands' i-th bits.
BitwiseRef(a, b, w, f(_, _)) ==
    CHOOSE r \in Vals(w) : \A i \in 0..(w - 1) : Bit(r, i) = f(Bit(a, i), Bit(b, i))

BitAnd(x, y) == x * y
BitOr(x, y) == IF x + y > 0 THEN 1 ELSE 0
BitXor(x, y) == (x + y) % 2

Undefined(o, a, b, w) ==
    \/ o \in {"UDiv", "URem"} /\ b = 0
    \/ o \in {"SDiv", "SRem"} /\ (b = 0 \/ (Signed(a, w) = -(2^(w - 1)) /\ Signed(b, w) = -1))
    \/ o \in {"Shl", "LShr", "AShr"} /\ b >= w

SemBinary(o, a, b, w) ==
    LET sa == Signed(a, w)
        sb == Signed(b, w)
    IN  CASE o = "Add" -> Wrap(a + b, w)
          [] o = "Sub" -> Wrap(a - b, w)
          [] o = "Mul" -> Wrap(a * b, w)
          [] o = "UDiv" -> a \div b
          [] o = "URem" -> a % b
          [] o = "SDiv" -> Wrap(TruncDiv(sa, sb), w)
          [] o = "SRem" -> Wrap(sa - sb * TruncDiv(sa, sb), w)
          [] o = "And" -> BitwiseRef(a, b, w, BitAnd)
          [] o = "Or" -> BitwiseRef(a, b, w, BitOr)
          [] o = "Xor" -> BitwiseRef(a, b, w, BitXor)
          [] o = "Shl" -> Wrap(a * 2^b, w)
          [] o = "LShr" -> a \div 2^b
          [] o = "AShr" -> Wrap(sa \div 2^b, w)

SemUnary(o, a, w, t) ==
    CASE o = "Not" -> 2^w - 1 - a
      [] o = "Trunc" -> a % 2^t
      [] o = "ZExt" -> a
      [] o = "SExt" -> Wrap(Signed(a, w), t)

\* The IR's icmp, written independently of constant_int_compare: a signed
\* predicate orders the bit patterns with the sign bit flipped; the
\* predicate holds when the order of the operands is one it names.
SemICmp(p, a, b, w) ==
    LET flip(x) == IF p \in {"SGT", "SGE", "SLT", "SLE"}
                   THEN (x + 2^(w - 1)) % 2^w ELSE x
        x == flip(a)
        y == flip(b)
    IN  \/ p \in {"EQ", "UGE", "ULE", "SGE", "SLE"} /\ x = y
        \/ p \in {"NE", "UGT", "UGE", "SGT", "SGE"} /\ x > y
        \/ p \in {"NE", "ULT", "ULE", "SLT", "SLE"} /\ x < y

\* The values a leaf takes under env, the values of the symbols.
DenLeaf(e, env) ==
    CASE e.op = "ConstantInt" -> {e.v}
      [] e.op = "Constant" -> {env[e]}
      [] e.op = "Undef" -> Vals(e.w)

\* The values of operation o of result width t on leaf operands args, and
\* whether some choice of the operands' values is undefined.
RefDen(o, t, args, env) ==
    CASE o \in BinaryOpcodes ->
            UNION {IF Undefined(o, a, b, t) THEN Vals(t) ELSE {SemBinary(o, a, b, t)} :
                     a \in DenLeaf(args[1], env), b \in DenLeaf(args[2], env)}
      [] o \in {"Not"} \cup CastOpcodes ->
            {SemUnary(o, a, args[1].w, t) : a \in DenLeaf(args[1], env)}
      [] o = "Select" ->
            UNION {IF c = 1 THEN DenLeaf(args[2], env) ELSE DenLeaf(args[3], env) :
                     c \in DenLeaf(args[1], env)}
      [] o \in ICmpPredicates ->
            {IF SemICmp(o, a, b, args[1].w) THEN 1 ELSE 0 :
               a \in DenLeaf(args[1], env), b \in DenLeaf(args[2], env)}

RefUndefined(o, t, args, env) ==
    /\ o \in BinaryOpcodes
    /\ \E a \in DenLeaf(args[1], env), b \in DenLeaf(args[2], env) : Undefined(o, a, b, t)

\* The values the result of a constructor takes: a node means what its
\* operation means; Crash takes none.
Den(e, env) ==
    CASE e.op = "Crash" -> {}
      [] e.op \in {"ConstantInt", "Constant", "Undef"} -> DenLeaf(e, env)
      [] OTHER -> RefDen(e.op, e.w, e.args, env)

\* The assignments of values to the symbols among the operands args.
Envs(args) ==
    LET syms == {args[i] : i \in {j \in DOMAIN args : args[j].op = "Constant"}}
    IN  {env \in [syms -> UNION {Vals(e.w) : e \in syms}] :
           \A e \in syms : env[e] < 2^e.w}

-----------------------------------------------------------------------------
(* The interpreter calling one constructor on leaf operands.  call is the *)
(* call made, result what the constructor returned.                       *)

VARIABLES call, result

opvars == <<call, result>>

NoCall == [op |-> "none"]

\* A call: the operation, its result width, its operands.
Call(o, t, args) == [op |-> o, w |-> t, args |-> args]

OpInit ==
    /\ call = NoCall
    /\ result = NoCall

BuildBinary ==
    /\ call = NoCall
    /\ \E o \in BinaryOpcodes \cap Opcodes, w \in Widths :
         \E l, r \in Leaves(w) :
            /\ call' = Call(o, w, <<l, r>>)
            /\ result' = CreateBinary(o, l, r)

BuildNot ==
    /\ call = NoCall
    /\ "Not" \in Opcodes
    /\ \E w \in Widths :
         \E x \in Leaves(w) :
            /\ call' = Call("Not", w, <<x>>)
            /\ result' = CreateNot(x)

\* The casts assert that Trunc narrows and ZExt and SExt widen.
BuildCast ==
    /\ call = NoCall
    /\ \E o \in CastOpcodes \cap Opcodes, w, t \in Widths :
         /\ IF o = "Trunc" THEN t < w ELSE t > w
         /\ \E x \in Leaves(w) :
              /\ call' = Call(o, t, <<x>>)
              /\ result' = CreateCast(o, t, x)

BuildSelect ==
    /\ call = NoCall
    /\ "Select" \in Opcodes
    /\ \E w \in Widths, c \in Leaves(1) :
         \E t \in Leaves(w), f \in Leaves(w) :
            /\ call' = Call("Select", w, <<c, t, f>>)
            /\ result' = CreateSelect(c, t, f)

BuildICmp ==
    /\ call = NoCall
    /\ "ICmp" \in Opcodes
    /\ \E p \in ICmpPredicates, w \in Widths :
         \E l, r \in Leaves(w) :
            /\ call' = Call(p, 1, <<l, r>>)
            /\ result' = CreateICmp(p, l, r)

\* The values of an int64_t literal.
Literals == (-(2^(LitWidth - 1)))..(2^(LitWidth - 1) - 1)

\* CreateICmp with an int64_t literal on either side.
BuildICmpLit ==
    /\ call = NoCall
    /\ "ICmpLit" \in Opcodes
    /\ \E p \in ICmpPredicates, w \in Widths, n \in Literals, side \in {"lhs", "rhs"} :
         \E x \in Leaves(w) :
            /\ call' = [op |-> "ICmpLit", w |-> 1, args |-> <<x>>, pred |-> p,
                        lit |-> n, side |-> side]
            /\ result' = IF side = "lhs" THEN CreateICmpLitL(p, n, x)
                                         ELSE CreateICmpLitR(p, x, n)

OpNext == BuildBinary \/ BuildNot \/ BuildCast \/ BuildSelect \/ BuildICmp
          \/ BuildICmpLit

OpSpec == OpInit /\ [][OpNext]_opvars

-----------------------------------------------------------------------------
(* The result of a constructor has the type of the operation it was asked *)
(* for: the operands' width, i1 for a comparison, the target of a cast.   *)
OpTypeOK ==
    call # NoCall => result = Crash \/ result.w = call.w

(* Every fold is a refinement (spec section 4.1): under every assignment  *)
(* of the symbols, each value the returned expression can take is one the *)
(* requested operation can take, and it takes at least one, unless the    *)
(* operation is undefined for some values of its operands.                *)
FoldSound ==
    call # NoCall =>
        \A env \in Envs(call.args) :
            ~RefUndefined(call.op, call.w, call.args, env) =>
                /\ Den(result, env) \subseteq RefDen(call.op, call.w, call.args, env)
                /\ Den(result, env) # {}

(* Spec section 8, constant folding totality: on constant operands every   *)
(* binary integer constructor returns a ConstantInt.                      *)
FoldTotal ==
    (call.op \in BinaryOpcodes /\ \A i \in 1..2 : IsConstInt(call.args[i])) =>
        IsConstInt(result)

SignedPredicates == {"SGT", "SGE", "SLT", "SLE"}
UnsignedPredicates == {"UGT", "UGE", "ULT", "ULE"}

\* The literal n is a value of width w in the reading the predicate uses.
LiteralFits(p, n, w) ==
    CASE p \in SignedPredicates -> n \in (-(2^(w - 1)))..(2^(w - 1) - 1)
      [] p \in UnsignedPredicates -> n \in 0..(2^w - 1)
      [] OTHER -> n \in (-(2^(w - 1)))..(2^w - 1)

\* The predicate p on two mathematical integers.
Relation(p, x, y) ==
    CASE p = "EQ" -> x = y               [] p = "NE" -> x # y
      [] p \in {"UGT", "SGT"} -> x > y   [] p \in {"UGE", "SGE"} -> x >= y
      [] p \in {"ULT", "SLT"} -> x < y   [] p \in {"ULE", "SLE"} -> x <= y

\* x ~ n, or n ~ x, for the value a of the operand x of width w.
LiteralHolds(p, a, n, w, side) ==
    LET xv == IF p \in SignedPredicates THEN Signed(a, w) ELSE a
        nv == IF p \in {"EQ", "NE"} THEN Wrap(n, w) ELSE n
    IN  IF side = "lhs" THEN Relation(p, nv, xv) ELSE Relation(p, xv, nv)

(* The int64_t overloads of CreateICmp compare with the literal's value    *)
(* (spec section 4.1: the literal is sign-extended or truncated to the     *)
(* other operand's width): whenever the literal is a value of that width,  *)
(* under every assignment of the symbols the comparison built holds        *)
(* exactly when the operand's value and the literal, read signed for a     *)
(* signed predicate and unsigned otherwise, are in the relation.  A        *)
(* literal that does not fit is truncated and compared as its low bits.    *)
LiteralCompare ==
    (call.op = "ICmpLit" /\ LiteralFits(call.pred, call.lit, call.args[1].w)) =>
        \A env \in Envs(call.args) :
            Den(result, env) =
                {IF LiteralHolds(call.pred, a, call.lit, call.args[1].w, call.side)
                 THEN 1 ELSE 0 : a \in DenLeaf(call.args[1], env)}

=============================================================================
