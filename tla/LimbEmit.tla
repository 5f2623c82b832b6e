-------------------------------- MODULE LimbEmit --------------------------------
(***************************************************************************)
(* What the C++ that emit.py writes for an expression computes.  Values of *)
(* up to 128 bits are C integers, wider ones limb arrays; which of the     *)
(* emitters is used, and what each masks, decides whether bits above the   *)
(* width of a value survive into the operation that reads it.  C types     *)
(* below 32 bits count as the 32-bit one; memory and array reads are left  *)
(* out.                                                                    *)
(*                                                                         *)
(* A C value is [t |-> bits of its type, v |-> number]; `st` holds the     *)
(* stored signals: a number, or a limb array.                              *)
(***************************************************************************)
EXTENDS RtlExpr, LimbOps

CONSTANTS
    WordBits,       \* the type for narrow values: 32
    AmountBits      \* bits of a shift amount that a helper takes: 32

ASSUME EmitAssumption ==
    /\ WordBits \in 1 .. LimbBits
    /\ AmountBits \in Nat \ {0}

Double == 2 * LimbBits

\* is_wide, c_type
IsWide(width) == width > Double
TypeOf(width) ==
    IF width <= WordBits THEN WordBits ELSE IF width <= LimbBits THEN LimbBits ELSE Double

C(t, v) == [t |-> t, v |-> Cut(v, t)]
Wider(t, u) == IF t > u THEN t ELSE u
Lesser(w, u) == IF w < u THEN w ELSE u

\* Bug: only types up to a limb are masked.
HasMaskOfLimb(width) == width < LimbBits

\* mask_expr: widths that fill a type of a limb or more get no mask.
HasMask(width) == width < Double /\ width # LimbBits

Masked(c, width) == IF HasMask(width) THEN C(c.t, Cut(c.v, width)) ELSE c

\* _shift_call; the amount is converted to the parameter type of the helper.
ShiftCall(op, c, amount, width) ==
    LET t == TypeOf(width)
        n == Cut(amount, AmountBits)
    IN  C(t, IF op = "<<" THEN ShiftLeft(Cut(c.v, t), n, t) ELSE ShiftRight(Cut(c.v, t), n, t))

\* _signed_cast: (x ^ sign) - sign.  When the width fills its type this overflows for
\* negative numbers; the compiler takes both sides of a comparison to be off by the
\* same and compares x ^ sign, as a signed number of the type.
SignedCast(c, width) ==
    LET sign == 2^(width - 1)
    IN  IF width \in {LimbBits, Double} THEN Signed(Cut(c.v, width) ^^ sign, width)
        ELSE (Cut(c.v, IF width <= LimbBits THEN LimbBits ELSE Double) ^^ sign) - sign

\* _load_bits
LoadBits(w, low, width) ==
    IF width <= LimbBits THEN C(LimbBits, GetBits(w, low, width))
    ELSE C(Double, GetBits(w, low + LimbBits, width - LimbBits) * 2^LimbBits
                   + GetBits(w, low, LimbBits))

\* _emit_setbits_scalar
PutScalar(w, low, width, v) ==
    IF width <= LimbBits THEN SetBits(w, low, width, Cut(v, LimbBits))
    ELSE SetBits(SetBits(w, low, LimbBits, Cut(v, LimbBits)),
                 low + LimbBits, width - LimbBits, v \div 2^LimbBits)

\* A C operator on two values of the usual common type.
Operate(op, a, b) ==
    LET t == Wider(a.t, b.t)
    IN  IF op \in Compares THEN C(WordBits, Applied(op, a.v, b.v, t))
        ELSE C(t, Applied(op, a.v, b.v, t))

SignedOps == {"s<", "s<=", "s>", "s>=", "s/", "s%"}
Plain(op) ==
    CASE op = "s<" -> "<" [] op = "s<=" -> "<=" [] op = "s>" -> ">" [] op = "s>=" -> ">="
      [] op = "s/" -> "/" [] op = "s%" -> "%" [] OTHER -> op

\* The signed operators, on operands of the width of the left one.
OperateSigned(op, a, b, aw, bw) ==
    LET x == SignedCast(a, aw)
        y == SignedCast(b, bw)
        t == Wider(LimbBits, TypeOf(aw))
    IN  IF op \in Compares THEN C(WordBits, Applied(Plain(op), x, y, t))
        ELSE C(t, IF op = "s/" THEN Quotient(x, y) ELSE x - y * Quotient(x, y))

-----------------------------------------------------------------------------
(* Which emitter an expression needs. *)

WideId(e) == IsId(e) /\ IsWide(Bits(e))

MuxDepth == 8       \* nested muxes that are still one C expression

RECURSIVE Nesting(_)
Nesting(e) == IF e[1] = "mux" THEN 1 + Nesting(e[4]) ELSE 0

RECURSIVE NeedsLimbs(_)
NeedsLimbs(e) ==
    CASE IsConst(e) \/ IsId(e) -> FALSE
      [] e[1] = "extract" -> ~WideId(e[2]) /\ (Bits(e[2]) >= Double \/ NeedsLimbs(e[2]))
      [] e[1] = "concat" -> Bits(e) >= Double \/ \E k \in Range(e[2]) : NeedsLimbs(k)
      [] e[1] = "mux" -> Nesting(e) > MuxDepth \/ \E k \in Range(Kids(e)) : NeedsLimbs(k)
      [] OTHER -> \E k \in Range(Kids(e)) : Bits(k) >= Double \/ NeedsLimbs(k)

-----------------------------------------------------------------------------
(* The emitters. *)

\* emit_expr
RECURSIVE Scalar(_, _)
Scalar(e, st) ==
    LET At(i) == Scalar(e[i], st)
    IN  CASE IsId(e) -> C(TypeOf(Bits(e)), st[e[2]])
          [] IsConst(e) -> C(TypeOf(e[3]), e[2])
          [] e[1] \in {"~", "!"} /\ Bits(e) = 1 -> C(WordBits, Truth(At(2).v = 0))
          [] e[1] = "~" /\ Bits(e) > 1 -> Masked(C(At(2).t, -1 - At(2).v), Bits(e))
          [] e[1] \in Shifts -> ShiftCall(e[1], At(2), At(3).v, Bits(e[2]))
          [] e[1] \in SignedOps -> OperateSigned(e[1], At(2), At(3), Bits(e[2]), Bits(e[2]))
          [] e[1] \in {"+", "-", "*"} -> Masked(Operate(e[1], At(2), At(3)), Bits(e))
          [] e[1] = "mux" -> C(Wider(At(3).t, At(4).t), IF At(2).v # 0 THEN At(3).v ELSE At(4).v)
          [] e[1] = "extract" /\ WideId(e[2]) -> LoadBits(st[e[2][2]], e[3], e[4])
          [] e[1] = "extract" /\ ~WideId(e[2]) ->
                Masked(IF e[3] = 0 THEN At(2)
                       ELSE ShiftCall(">>", At(2), e[3], Bits(e[2])), e[4])
          [] e[1] = "concat" ->
                FoldLeft(LAMBDA acc, k :
                            LET piece == Masked(Scalar(k, st), Bits(k))
                                t == Wider(acc.t, piece.t)
                            IN  C(t, Cut(acc.v * 2^Bits(k), acc.t) | piece.v),
                         C(TypeOf(Bits(e)), 0), e[2])
          [] OTHER -> Operate(e[1], At(2), At(3))

\* The emitters call each other; Emit is the one they recurse through.
RECURSIVE Emit(_, _, _, _)
FromWide(e, width, st) == Emit("narrow from wide", e, width, st)
Bind(e, width, st) == Emit("bind", e, width, st)
Materialize(e, width, st) == Emit("materialize", e, width, st)
WideAssign(e, st) == Emit("wide assign", e, Bits(e), st)

\* _emit_shift_amt
Amount(e, st) ==
    IF IsWide(Bits(e)) THEN GetBits(WideAssign(e, st), 0, Lesser(AmountBits, LimbBits))
    ELSE Cut(Scalar(e, st).v, AmountBits)

Shifted(e, st) ==
    LET aw == Bits(e[2])
        s == Materialize(e[2], aw, st)
        n == LimbCount(aw)
        amount == Amount(e[3], st)
    IN  IF e[1] = "<<" THEN ShlLimbs(s, n, amount) ELSE ShrLimbs(s, n, amount)

\* Comparison of wide operands, each in whole limbs.
WideCompare(e, st) ==
    LET n == LimbCount(Wider(Bits(e[2]), Bits(e[3])))
        left == Materialize(e[2], n * LimbBits, st)
        right == Materialize(e[3], n * LimbBits, st)
    IN  Applied(e[1], Ucmp(left, right, n), 0, Double)

\* _cond_code, for a condition that is not wide.
Holds(c, st) == (IF NeedsLimbs(c) THEN FromWide(c, Bits(c), st) ELSE Scalar(c, st)).v # 0

\* _emit_narrow_from_wide, into a C variable for `width` bits.
EmitNarrowFromWide(e, width, st) ==
    LET t == TypeOf(width)
        Into(c) == C(t, c.v)
        aw == Bits(e[2])
        bw == Bits(e[3])
        Left == Bind(e[2], aw, st)
        Right == Bind(e[3], bw, st)
        Whole == Into(LoadBits(Materialize(e, Bits(e), st), 0, width))
    IN  CASE e[1] = "mux" -> IF Holds(e[2], st) THEN FromWide(e[3], width, st)
                             ELSE FromWide(e[4], width, st)
          [] e[1] = "extract" -> IF IsWide(aw) THEN Into(LoadBits(Materialize(e[2], aw, st), e[3], e[4]))
                                 ELSE Into(Masked(ShiftCall(">>", Left, e[3], aw), e[4]))
          [] e[1] \in Shifts -> IF IsWide(aw) THEN Into(LoadBits(Shifted(e, st), 0, width))
                                ELSE Into(ShiftCall(e[1], Left, Amount(e[3], st), aw))
          [] e[1] \in Compares ->
                IF IsWide(aw) \/ IsWide(bw) THEN C(t, WideCompare(e, st))
                ELSE IF e[1] \in SignedOps THEN Into(OperateSigned(e[1], Left, Right, aw, bw))
                ELSE Into(Operate(e[1], Left, Right))
          [] e[1] = "concat" ->
                IF IsWide(Bits(e)) THEN Whole
                ELSE FoldLeft(LAMBDA acc, k :
                                [c |-> C(t, acc.c.v
                                            | Cut(Masked(Bind(k, Bits(k), st), Bits(k)).v * 2^acc.bit, t)),
                                 bit |-> acc.bit + Bits(k)],
                              [c |-> C(t, 0), bit |-> 0], Reverse(e[2])).c
          [] e[1] \in {"~", "!"} ->
                IF IsWide(aw) THEN Whole
                ELSE IF width = 1 THEN C(t, Truth(Left.v = 0))
                ELSE Into(Masked(C(Left.t, -1 - Left.v), width))
          [] IsId(e) -> IF WideId(e) THEN Into(LoadBits(st[e[2]], 0, width)) ELSE Into(Scalar(e, st))
          [] IsConst(e) -> C(t, e[2])
          [] OTHER -> IF IsWide(aw) \/ IsWide(bw) THEN Whole
                      ELSE IF e[1] \in SignedOps THEN Into(OperateSigned(e[1], Left, Right, aw, bw))
                      ELSE Into(Operate(e[1], Left, Right))

\* _bind_narrow, the value of an operand.
EmitBind(e, width, st) ==
    CASE IsConst(e) /\ ~IsWide(e[3]) -> C(TypeOf(width), Cut(e[2], Lesser(width, Double)))
      [] IsId(e) /\ ~WideId(e) -> Scalar(e, st)
      [] ~IsConst(e) /\ ~IsId(e) /\ ~NeedsLimbs(e) /\ ~IsWide(width) -> Scalar(e, st)
      [] OTHER -> FromWide(e, width, st)

\* _materialize_limbs, the limbs of an operand.
EmitMaterialize(e, width, st) ==
    LET actual == Bits(e)
        n == LimbCount(width)
    IN  CASE WideId(e) /\ LimbCount(actual) >= n -> st[e[2]]
          [] ~IsWide(actual) ->
                PutScalar(Zeros(n), 0, Lesser(width, actual), Bind(e, actual, st).v)
          [] IsWide(actual) /\ LimbCount(actual) < n ->
                CopyBits(Zeros(n), 0, Materialize(e, actual, st), 0, actual)
          [] OTHER -> WideAssign(e, st)

\* _place_bits
Place(w, low, e, st) ==
    IF IsConst(e) THEN CopyBits(w, low, [i \in 0 .. LimbCount(e[3]) - 1 |->
                                            Cut(e[2] \div 2^(i * LimbBits), LimbBits)], 0, e[3])
    ELSE IF IsId(e) /\ ~WideId(e) THEN PutScalar(w, low, Bits(e), Scalar(e, st).v)
    ELSE CopyBits(w, low, Materialize(e, Bits(e), st), 0, Bits(e))

\* The operators with a helper for limb arrays.
Helper(op, a, b, n, width) ==
    CASE op = "&" -> [i \in 0 .. n - 1 |-> a[i] & b[i]]
      [] op = "|" -> [i \in 0 .. n - 1 |-> a[i] | b[i]]
      [] op = "^" -> [i \in 0 .. n - 1 |-> a[i] ^^ b[i]]
      [] op = "+" -> AddLimbs(a, b, n)
      [] op = "-" -> SubLimbs(a, b, n)
      [] op = "*" -> MulLimbs(a, b, n)
      [] OTHER -> DivRem(a, b, n, width, op \in SignedOps, Plain(op) = "/")

\* _emit_wide_assign
EmitWideAssign(e, width, st) ==
    LET n == LimbCount(width)
        operand == Wider(Wider(Bits(e[2]), Bits(e[3])), width)
    IN  CASE e[1] = "mux" -> IF Holds(e[2], st) THEN WideAssign(e[3], st) ELSE WideAssign(e[4], st)
          [] IsConst(e) -> Place(Zeros(n), 0, e, st)
          [] IsId(e) -> IF WideId(e) THEN CopyBits(Zeros(n), 0, st[e[2]], 0, width)
                        ELSE PutScalar(Zeros(n), 0, width, Scalar(e, st).v)
          [] e[1] = "concat" ->
                FoldLeft(LAMBDA acc, k :
                            [w |-> Place(acc.w, acc.bit - Bits(k), k, st), bit |-> acc.bit - Bits(k)],
                         [w |-> Zeros(n), bit |-> width], e[2]).w
          [] e[1] = "extract" ->
                CopyBits(Zeros(n), 0, Materialize(e[2], Bits(e[2]), st), e[3], width)
          [] e[1] \in Shifts -> Shifted(e, st)
          [] e[1] = "~" ->
                LET s == Materialize(e[2], width, st)
                IN  [i \in 0 .. n - 1 |-> 2^LimbBits - 1 - s[i]]
          [] OTHER -> Helper(e[1], Materialize(e[2], operand, st), Materialize(e[3], operand, st),
                             n, operand)

Emit(emitter, e, width, st) ==
    CASE emitter = "narrow from wide" -> EmitNarrowFromWide(e, width, st)
      [] emitter = "bind" -> EmitBind(e, width, st)
      [] emitter = "materialize" -> EmitMaterialize(e, width, st)
      [] emitter = "wide assign" -> EmitWideAssign(e, width, st)

\* _emit_assign, into a signal of `width` bits.
RECURSIVE Assigned(_, _, _)
Assigned(e, width, st) ==
    CASE IsWide(width) -> WideAssign(e, st)
      [] ~IsWide(width) /\ e[1] = "mux" ->
            IF Holds(e[2], st) THEN Assigned(e[3], width, st) ELSE Assigned(e[4], width, st)
      [] OTHER ->
            Cut(Masked(IF NeedsLimbs(e) THEN FromWide(e, Bits(e), st) ELSE Scalar(e, st), width).v,
                TypeOf(width))
=============================================================================
