-------------------------------- MODULE RtlExpr --------------------------------
(***************************************************************************)
(* The intermediate representation of ir.py that the optimizer rewrites:   *)
(* expressions over registers, inputs and wires, and the statements of the *)
(* clocked process.  An expression is a tuple whose first element names    *)
(* its kind, <<kind, operand, ...>>; the wires are a function from names   *)
(* to expressions.  Arrays and memory reads are left out.                  *)
(***************************************************************************)
EXTENDS Integers, Sequences, FiniteSets, SequencesExt, FiniteSetsExt, Bitwise

CONSTANTS
    Width,          \* register, input or wire -> its width in bits
    Registers       \* those that are registers

ASSUME ExprAssumption == Registers \subseteq DOMAIN Width

Id(name) == <<"id", name>>
Num(value, width) == <<"num", value, width>>
Bang(e) == <<"!", e>>
Tilde(e) == <<"~", e>>
Amp(e, f) == <<"&", e, f>>
Bar(e, f) == <<"|", e, f>>
Caret(e, f) == <<"^", e, f>>
Differ(e, f) == <<"!=", e, f>>
Mux(c, e, f) == <<"mux", c, e, f>>
Extract(e, low, width) == <<"extract", e, low, width>>
Concat(parts) == <<"concat", parts>>    \* the most significant part first

Compares == {"==", "!=", "<", "<=", ">", ">=", "s<", "s<=", "s>", "s>="}
Shifts == {"<<", ">>"}

IsId(e) == e[1] = "id"
IsConst(e) == e[1] = "num"

Kids(e) ==
    CASE IsId(e) \/ IsConst(e) -> <<>>
      [] e[1] = "concat" -> e[2]
      [] e[1] = "extract" -> <<e[2]>>
      [] OTHER -> Tail(e)

WithKids(e, kids) ==
    CASE IsId(e) \/ IsConst(e) -> e
      [] e[1] = "concat" -> Concat(kids)
      [] e[1] = "extract" -> Extract(kids[1], e[3], e[4])
      [] OTHER -> <<e[1]>> \o kids

RECURSIVE IdsOf(_)
IdsOf(e) == IF IsId(e) THEN {e[2]} ELSE UNION {IdsOf(k) : k \in Range(Kids(e))}

RECURSIVE Occurrences(_, _)
Occurrences(name, e) ==
    IF e = Id(name) THEN 1
    ELSE FoldLeft(LAMBDA n, k : n + Occurrences(name, k), 0, Kids(e))

\* A name that the passes made up has no declared width: all of them are one bit.
RECURSIVE Bits(_)
Bits(e) ==
    CASE IsId(e) -> IF e[2] \in DOMAIN Width THEN Width[e[2]] ELSE 1
      [] IsConst(e) -> e[3]
      [] e[1] = "extract" -> e[4]
      [] e[1] = "concat" -> FoldLeft(LAMBDA n, k : n + Bits(k), 0, e[2])
      [] e[1] \in Compares -> 1
      [] e[1] \in {"!", "~"} \union Shifts -> Bits(e[2])
      [] e[1] = "mux" -> Bits(e[3])
      [] OTHER -> LET a == Bits(e[2])
                      b == Bits(e[3])
                  IN  IF a > b THEN a ELSE b

Signed(x, width) == IF x >= 2^(width - 1) THEN x - 2^width ELSE x
Truth(b) == IF b THEN 1 ELSE 0

\* Division of signed numbers, which rounds towards zero, and its remainder.
Magnitude(x) == IF x < 0 THEN -x ELSE x
Quotient(x, y) ==
    LET q == Magnitude(x) \div Magnitude(y) IN IF (x < 0) # (y < 0) THEN -q ELSE q

\* A binary operator on integers, before the result is cut to its width.
Applied(op, x, y, width) ==
    CASE op = "&" -> x & y
      [] op = "|" -> x | y
      [] op = "^" -> x ^^ y
      [] op = "+" -> x + y
      [] op = "-" -> x - y
      [] op = "*" -> x * y
      [] op = "/" -> x \div y
      [] op = "%" -> x % y
      [] op = "s/" -> Quotient(Signed(x, width), Signed(y, width))
      [] op = "s%" -> LET a == Signed(x, width)
                          b == Signed(y, width)
                      IN  a - b * Quotient(a, b)
      [] op = "<<" -> x * 2^y
      [] op = ">>" -> x \div 2^y
      [] op = "==" -> Truth(x = y)
      [] op = "!=" -> Truth(x # y)
      [] op = "<" -> Truth(x < y)
      [] op = "<=" -> Truth(x <= y)
      [] op = ">" -> Truth(x > y)
      [] op = ">=" -> Truth(x >= y)
      [] op = "s<" -> Truth(Signed(x, width) < Signed(y, width))
      [] op = "s<=" -> Truth(Signed(x, width) <= Signed(y, width))
      [] op = "s>" -> Truth(Signed(x, width) > Signed(y, width))
      [] op = "s>=" -> Truth(Signed(x, width) >= Signed(y, width))

\* The value of e in `env`, which holds registers and inputs, under the wires `defs`.
RECURSIVE Value(_, _, _)
Value(e, env, defs) ==
    LET At(i) == Value(e[i], env, defs)
    IN  CASE IsId(e) -> IF e[2] \in DOMAIN env THEN env[e[2]]
                        ELSE Value(defs[e[2]], env, defs) % 2^Bits(e)
          [] IsConst(e) -> e[2]
          [] e[1] = "!" -> Truth(At(2) = 0)
          [] e[1] = "~" -> 2^Bits(e[2]) - 1 - At(2)
          [] e[1] = "mux" -> IF At(2) # 0 THEN At(3) ELSE At(4)
          [] e[1] = "extract" -> (At(2) \div 2^e[3]) % 2^e[4]
          [] e[1] = "concat" ->
                FoldLeft(LAMBDA n, k : n * 2^Bits(k) + Value(k, env, defs), 0, e[2])
          [] OTHER -> LET a == Bits(e[2])
                          b == Bits(e[3])
                      IN  Applied(e[1], At(2), At(3), IF a > b THEN a ELSE b) % 2^Bits(e)

-----------------------------------------------------------------------------
(* Statements: an assignment or an if; a body is a sequence of them. *)

Assign(x, e) == [lhs |-> x, rhs |-> e]
If(c, then, else) == [cond |-> c, then |-> then, else |-> else]
IsIf(s) == "cond" \in DOMAIN s

\* stmt_writes
RECURSIVE Writes(_)
Writes(b) == UNION {IF IsIf(b[i]) THEN Writes(b[i].then) \union Writes(b[i].else)
                    ELSE {b[i].lhs} : i \in DOMAIN b}

\* Every expression of a body.
RECURSIVE ExprsOf(_)
ExprsOf(b) ==
    FlattenSeq([i \in DOMAIN b |->
        IF IsIf(b[i]) THEN <<b[i].cond>> \o ExprsOf(b[i].then) \o ExprsOf(b[i].else)
        ELSE <<b[i].rhs>>])

\* One edge: every right-hand side sees `env`, the last assignment wins.
RECURSIVE After(_, _, _, _)
After(b, env, defs, next) ==
    FoldLeft(LAMBDA nx, s :
                IF IsIf(s)
                THEN After(IF Value(s.cond, env, defs) # 0 THEN s.then ELSE s.else, env, defs, nx)
                ELSE [nx EXCEPT ![s.lhs] = Value(s.rhs, env, defs) % 2^Width[s.lhs]],
             next, b)

Edge(b, env, defs) == After(b, env, defs, [x \in Registers |-> env[x]])
=============================================================================
