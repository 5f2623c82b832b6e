------------------------------ MODULE WireRewrite ------------------------------
(***************************************************************************)
(* The passes of opt.py that rewrite the wires: constants are substituted  *)
(* and folded, wires read once are inlined, dead ones dropped, and two     *)
(* passes simplify one-bit logic: ORs whose terms recombine, and ANDs that *)
(* share operands.  Each takes and returns the wires, a function `defs`    *)
(* from names to expressions, which has no cycle.                          *)
(***************************************************************************)
EXTENDS RtlExpr

CONSTANTS
    LitsMax,        \* _SOP_LITS_MAX
    TermsMax,       \* _SOP_TERMS_MAX
    FewTerms,       \* terms up to which only the exhaustive merge is used (64)
    AndMax          \* _REASSOC_AND_MAX

ASSUME WireAssumption ==
    LitsMax \in Nat /\ TermsMax \in Nat /\ FewTerms \in Nat /\ AndMax \in Nat

MapWires(defs, Fn(_)) == [n \in DOMAIN defs |-> Fn(defs[n])]

RECURSIVE Subst(_, _)
Subst(e, to) ==
    IF IsId(e) THEN IF e[2] \in DOMAIN to THEN to[e[2]] ELSE e
    ELSE WithKids(e, [i \in DOMAIN Kids(e) |-> Subst(Kids(e)[i], to)])

ConstsOf(defs) == [n \in {m \in DOMAIN defs : IsConst(defs[m])} |-> defs[n]]

\* _subst_consts
SubstConsts(defs) ==
    [n \in DOMAIN defs \ DOMAIN ConstsOf(defs) |-> Subst(defs[n], ConstsOf(defs))]

-----------------------------------------------------------------------------
(* _rewrite_expr *)

RECURSIVE Unwrap(_, _)
Unwrap(e, defs) ==
    IF IsId(e) /\ e[2] \in DOMAIN defs THEN Unwrap(defs[e[2]], defs) ELSE e

BitLength(n) == CHOOSE k \in 0 .. 31 : n < 2^k /\ (k = 0 \/ n >= 2^(k - 1))
Count(n) == Num(n, IF n = 0 THEN 1 ELSE BitLength(n))

\* Bug: any slice of x is taken for its lower part.
IsSliceOverZeros(l, r) ==
    l[1] = "extract" /\ IsConst(r) /\ r[2] = 0 /\ l[4] + r[3] = Bits(l[2])

\* {x[w-n-1:0], n'b0} and {n'b0, x[w-1:n]}
IsShiftLeft(l, r) ==
    l[1] = "extract" /\ IsConst(r) /\ r[2] = 0 /\ l[3] = 0 /\ l[4] + r[3] = Bits(l[2])
IsShiftRight(l, r) ==
    r[1] = "extract" /\ IsConst(l) /\ l[2] = 0 /\ r[3] = l[3] /\ r[4] + l[3] = Bits(r[2])

ConcatAsShift(e, l, r) ==
    CASE IsShiftLeft(l, r) -> <<"<<", l[2], Count(r[3])>>
      [] ~IsShiftLeft(l, r) /\ IsShiftRight(l, r) -> <<">>", r[2], Count(l[3])>>
      [] OTHER -> e

RewriteNode(e, defs) ==
    CASE e[1] = "concat" /\ Len(e[2]) = 2 ->
            ConcatAsShift(e, Unwrap(e[2][1], defs), Unwrap(e[2][2], defs))
      [] e[1] = "^" /\ e[3] = Num(1, 1) /\ Bits(e[2]) = 1 -> Tilde(e[2])
      [] e[1] = "^" /\ e[2] = Num(1, 1) /\ e[3] # Num(1, 1) /\ Bits(e[3]) = 1 -> Tilde(e[3])
      [] e[1] = "mux" /\ IsConst(Unwrap(e[2], defs)) ->
            IF Unwrap(e[2], defs)[2] # 0 THEN e[3] ELSE e[4]
      [] OTHER -> e

RECURSIVE RewriteExpr(_, _)
RewriteExpr(e, defs) ==
    RewriteNode(WithKids(e, [i \in DOMAIN Kids(e) |-> RewriteExpr(Kids(e)[i], defs)]), defs)

-----------------------------------------------------------------------------
(* _inline_single_use and _dce.  `outside` are the expressions of the body *)
(* and of the memory ports, `keep` the names observed from elsewhere.      *)

Uses(name, defs, outside) ==
    FoldLeft(LAMBDA n, e : n + Occurrences(name, e), 0, outside)
        + MapThenSumSet(LAMBDA u : Occurrences(name, defs[u]), DOMAIN defs)

Drop(defs, names) == [n \in DOMAIN defs \ names |-> defs[n]]

\* Bug: the uses by the body and the ports are not counted.
WireUses(defs, keep, outside) ==
    {p \in (DOMAIN defs \ keep) \X DOMAIN defs :
        Uses(p[1], defs, <<>>) = 1 /\ Occurrences(p[1], defs[p[2]]) = 1}

\* The pairs of a name and the one wire that reads it, once.
OnlyUses(defs, keep, outside) ==
    {p \in (DOMAIN defs \ keep) \X DOMAIN defs :
        Uses(p[1], defs, outside) = 1 /\ Occurrences(p[1], defs[p[2]]) = 1}

RECURSIVE InlineSingleUse(_, _, _)
InlineSingleUse(defs, keep, outside) ==
    LET unused == {n \in DOMAIN defs \ keep : Uses(n, defs, outside) = 0}
        single == OnlyUses(defs, keep, outside)
    IN  CASE unused # {} -> InlineSingleUse(Drop(defs, unused), keep, outside)
          [] unused = {} /\ single # {} ->
                LET p == CHOOSE p \in single : TRUE
                    into == Subst(defs[p[2]], p[1] :> defs[p[1]])
                IN  InlineSingleUse(Drop([defs EXCEPT ![p[2]] = into], {p[1]}), keep, outside)
          [] OTHER -> defs

RECURSIVE Live(_, _)
Live(names, defs) ==
    LET more == names \union UNION {IdsOf(defs[n]) : n \in names \intersect DOMAIN defs}
    IN  IF more = names THEN names ELSE Live(more, defs)

Dce(defs, keep, outside) ==
    Drop(defs, DOMAIN defs \ Live(keep \union UNION {IdsOf(e) : e \in Range(outside)}, defs))

-----------------------------------------------------------------------------
(* _fold_expr *)

RECURSIVE TermsIn(_, _)
TermsIn(e, op) == IF e[1] = op THEN TermsIn(e[2], op) \o TermsIn(e[3], op) ELSE <<e>>

Joined(op, parts) == FoldLeft(LAMBDA e, f : <<op, e, f>>, Head(parts), Tail(parts))

\* _absorb_and: v & v is v, v & (v | ...) is v.
Absorbed(parts, i) ==
    LET ids == {p \in Range(parts) : IsId(p)}
    IN  IF IsId(parts[i]) THEN \E j \in 1 .. i - 1 : parts[j] = parts[i]
        ELSE parts[i][1] = "|" /\ Range(TermsIn(parts[i], "|")) \intersect ids # {}

AbsorbAnd(e) ==
    LET parts == TermsIn(e, "&")
        kept == SelectSeq([i \in DOMAIN parts |-> i], LAMBDA i : ~Absorbed(parts, i))
    IN  IF Len(kept) = Len(parts) THEN e ELSE Joined("&", [k \in DOMAIN kept |-> parts[kept[k]]])

FoldUnary(e) == Num(2^e[2][3] - 1 - e[2][2], e[2][3])

FoldBinary(e) ==
    LET a == e[2]
        b == e[3]
        width == IF a[3] > b[3] THEN a[3] ELSE b[3]
    IN  Num(Applied(e[1], a[2], b[2], width) % 2^width, IF e[1] \in Compares THEN 1 ELSE width)

FoldNode(e) ==
    CASE e[1] \in {"!", "~"} /\ IsConst(e[2]) -> FoldUnary(e)
      [] e[1] = "mux" /\ IsConst(e[2]) -> IF e[2][2] # 0 THEN e[3] ELSE e[4]
      [] e[1] = "extract" /\ IsConst(e[2]) -> Num((e[2][2] \div 2^e[3]) % 2^e[4], e[4])
      [] e[1] \in {"&", "|", "^", "+", "-", "*"} \union Shifts \union Compares
            /\ IsConst(e[2]) /\ IsConst(e[3]) -> FoldBinary(e)
      [] e[1] = "&" /\ ~(IsConst(e[2]) /\ IsConst(e[3])) -> AbsorbAnd(e)
      [] OTHER -> e

RECURSIVE FoldExpr(_)
FoldExpr(e) == FoldNode(WithKids(e, [i \in DOMAIN Kids(e) |-> FoldExpr(Kids(e)[i])]))

-----------------------------------------------------------------------------
(* _merge_sop_terms.  A literal is a pair of an expression and a polarity, *)
(* a term a set of literals.                                               *)

IsBit(e) == IdsOf(e) \subseteq DOMAIN Width /\ Bits(e) = 1

\* neg_of, as the set of what e negates.
Negated(e) ==
    CASE e[1] \in {"!", "~"} /\ IsBit(e[2]) -> {e[2]}
      [] e[1] = "^" /\ IsBit(e[2]) /\ IsConst(e[3]) /\ e[3][2] = 1 -> {e[2]}
      [] e[1] = "^" /\ IsBit(e[2]) /\ ~IsConst(e[3]) /\ e[2] = Num(1, 1) -> {e[3]}
      [] OTHER -> {}

RECURSIVE Resolve(_, _)
Resolve(e, defs) ==
    IF IsId(e) /\ e[2] \in DOMAIN defs /\ (IsId(defs[e[2]]) \/ Negated(defs[e[2]]) # {})
    THEN Resolve(defs[e[2]], defs) ELSE e

RECURSIVE Atom(_, _, _)
Atom(e, polarity, defs) ==
    LET r == Resolve(e, defs)
    IN  IF Negated(r) = {} THEN <<r, polarity>>
        ELSE Atom(CHOOSE n \in Negated(r) : TRUE, ~polarity, defs)

\* is_and, as the set of the two operands.
Conjuncts(e, defs) ==
    LET d == IF IsId(e) /\ e[2] \in DOMAIN defs THEN defs[e[2]] ELSE e
    IN  IF d[1] = "&" /\ IsBit(d[2]) /\ IsBit(d[3]) THEN {d[2], d[3]} ELSE {}

RECURSIVE Literals(_, _, _)
Literals(e, opaque, defs) ==
    LET a == Atom(e, TRUE, defs)
    IN  IF a[2] /\ a[1] \notin opaque /\ Conjuncts(a[1], defs) # {}
        THEN UNION {Literals(c, opaque, defs) : c \in Conjuncts(a[1], defs)}
        ELSE {a}

Opposite(lit) == <<lit[1], ~lit[2]>>

Consistent(t) == \A lit \in t : Opposite(lit) \notin t

NegatedIn(terms) == {lit[1] : lit \in {l \in UNION terms : ~l[2]}}
TooLong(terms) == \E t \in terms : Cardinality(t) > LitsMax
ConsistentOf(terms) == {t \in Range(terms) : Consistent(t)}

LiteralsOfParts(parts, opaque, defs) == [i \in DOMAIN parts |-> Literals(parts[i], opaque, defs)]

\* Expressions that occur negated are not taken apart, until none is added; the
\* code looks at most four times, and gives up at a term that is too long.
RECURSIVE Settled(_, _, _, _, _)
Settled(terms, parts, opaque, rounds, defs) ==
    CASE TooLong(ConsistentOf(terms)) -> <<>>
      [] ~TooLong(ConsistentOf(terms))
            /\ (rounds = 1 \/ NegatedIn(ConsistentOf(terms)) \subseteq opaque) -> terms
      [] OTHER -> LET more == opaque \union NegatedIn(ConsistentOf(terms))
                  IN  Settled(LiteralsOfParts(parts, more, defs), parts, more, rounds - 1, defs)

TermsOfOr(parts, defs) == Settled(LiteralsOfParts(parts, {}, defs), parts, {}, 4, defs)

\* With many terms, pairs that differ in one polarity are merged first.
RECURSIVE MergePairs(_)
MergePairs(terms) ==
    LET Twins(t) == {lit \in t : (t \ {lit}) \union {Opposite(lit)} \in terms}
        twins == {t \in terms : Twins(t) # {}}
    IN  IF twins = {} THEN terms
        ELSE LET t == CHOOSE t \in twins : TRUE
                 lit == CHOOSE lit \in Twins(t) : TRUE
             IN  MergePairs((terms \ {t, (t \ {lit}) \union {Opposite(lit)}}) \union {t \ {lit}})

\* What the pair of s, which is no longer than t, and t becomes, as a set of terms:
\* A | A.B is A, and A.x | A.!x.B is A.x | A.B.
Reduced(s, t) ==
    LET diff == s \ t
        lit == CHOOSE lit \in diff : TRUE
    IN  CASE diff = {} -> {s}
          [] Cardinality(diff) = 1 /\ Opposite(lit) \in t ->
                (IF Cardinality(s) = Cardinality(t) THEN {} ELSE {s}) \union {t \ {Opposite(lit)}}
          [] OTHER -> {s, t}

RECURSIVE ReduceAll(_)
ReduceAll(terms) ==
    LET pairs == {p \in terms \X terms :
                    /\ p[1] # p[2] /\ Cardinality(p[1]) <= Cardinality(p[2])
                    /\ Reduced(p[1], p[2]) # {p[1], p[2]}}
    IN  IF pairs = {} THEN terms
        ELSE LET p == CHOOSE p \in pairs : TRUE
             IN  ReduceAll((terms \ {p[1], p[2]}) \union Reduced(p[1], p[2]))

Simplify(terms) == ReduceAll(IF Cardinality(terms) > FewTerms THEN MergePairs(terms) ELSE terms)

\* negs: the wires that hold a negation, by what they negate.
NegationsOf(defs) ==
    LET Of(n) == Resolve(CHOOSE k \in Negated(defs[n]) : TRUE, defs)
        holders == {n \in DOMAIN defs : n \in DOMAIN Width /\ Negated(defs[n]) # {}}
    IN  [k \in {Of(n) : n \in holders} |-> Id(CHOOSE n \in holders : Of(n) = k)]

\* build
Product(term, negs) ==
    LET Factor(lit) == IF lit[2] THEN lit[1]
                       ELSE IF lit[1] \in DOMAIN negs THEN negs[lit[1]] ELSE Bang(lit[1])
    IN  Joined("&", SetToSeq({Factor(lit) : lit \in term}))

SumOf(parts, terms, live, negs) ==
    LET Part(t) == IF t \in Range(terms) THEN parts[CHOOSE i \in DOMAIN terms : terms[i] = t]
                   ELSE Product(t, negs)
        products == SetToSeq(live)
    IN  CASE live = {} -> Num(0, 1)
          [] {} \in live -> Num(1, 1)
          [] OTHER -> Joined("|", [i \in DOMAIN products |-> Part(products[i])])

\* The OR of `parts`, if the terms that are left are fewer: those that contradict
\* themselves count as one.
Recombined(e, parts, terms, live, negs) ==
    LET distinct == ConsistentOf(terms)
        before == Cardinality(distinct) + (IF distinct = Range(terms) THEN 0 ELSE 1)
    IN  IF terms # <<>> /\ Cardinality(live) < before THEN SumOf(parts, terms, live, negs) ELSE e

RecombineTerms(e, parts, terms, negs) ==
    Recombined(e, parts, terms, Simplify(ConsistentOf(terms)), negs)

MergeOr(e, negs, defs) ==
    LET parts == TermsIn(e, "|")
    IN  IF e[1] = "|" /\ Len(parts) <= TermsMax /\ \A p \in Range(parts) : IsBit(p)
        THEN RecombineTerms(e, parts, TermsOfOr(parts, defs), negs) ELSE e

\* The names of `defs`, each after those that its expression reads.
RECURSIVE Ordered(_, _)
Ordered(defs, done) ==
    LET ready == {n \in DOMAIN defs \ Range(done) : IdsOf(defs[n]) \intersect DOMAIN defs \subseteq Range(done)}
    IN  IF ready = {} THEN done ELSE Ordered(defs, done \o SetToSeq(ready))

IsBitWire(n) == n \in DOMAIN Width /\ Width[n] = 1

MergeSopTerms(defs) ==
    LET negs == NegationsOf(defs)
        Merged(at, n) == IF IsBitWire(n) THEN [at EXCEPT ![n] = MergeOr(@, negs, at)] ELSE at
    IN  FoldLeft(Merged, defs, Ordered(defs, <<>>))

-----------------------------------------------------------------------------
(* _reassoc_and_chains.  A chain is the set of its operands; {} is a chain *)
(* that is too long to be taken apart.                                     *)

RECURSIVE Operands(_, _)
Operands(e, flat) ==
    IF e[1] = "&" /\ IsBit(e[2]) /\ IsBit(e[3])
    THEN LET a == Operands(e[2], flat)
             b == Operands(e[3], flat)
         IN  IF a = {} \/ b = {} \/ Cardinality(a) + Cardinality(b) > AndMax THEN {}
             ELSE a \union b
    ELSE IF IsId(e) /\ e[2] \in DOMAIN flat /\ Cardinality(flat[e[2]]) > 1 THEN flat[e[2]]
    ELSE {e}

\* The wires that are AND chains of at least three operands, each with its operands.
ChainsOf(defs) ==
    LET Add(flat, n) == IF IsBitWire(n) /\ defs[n][1] = "&"
                        THEN flat @@ (n :> Operands(defs[n], flat)) ELSE flat
        flat == FoldLeft(Add, <<>>, Ordered(defs, <<>>))
    IN  [n \in {m \in DOMAIN flat : Cardinality(flat[m]) >= 3} |-> flat[n]]

\* The operand that most chains have comes first.
ByShare(lits, chains) ==
    LET Share(e) == Cardinality({n \in DOMAIN chains : e \in chains[n]})
    IN  SortSeq(SetToSeq(lits), LAMBDA e, f : Share(e) > Share(f))

\* prefix: the wire that holds the AND of `lits`, made up unless there is one;
\* `at` holds the wires and, by its operands, the name of each chain.
RECURSIVE Prefix(_, _)
Prefix(lits, at) ==
    LET key == Range(lits)
        last == Len(lits)
    IN  IF last = 1 THEN [at EXCEPT !.expr = lits[1]]
        ELSE IF key \in DOMAIN at.named THEN [at EXCEPT !.expr = Id(at.named[key])]
        ELSE LET name == "_t9" \o ToString(Cardinality(DOMAIN at.named))
                 p == Prefix(SubSeq(lits, 1, last - 1), [at EXCEPT !.named = @ @@ (key :> name)])
             IN  [expr |-> Id(name), named |-> p.named,
                  defs |-> p.defs @@ (name :> Amp(p.expr, lits[last]))]

Rebuilt(n, lits, at) ==
    LET p == Prefix(SubSeq(lits, 1, Len(lits) - 1), at)
    IN  [p EXCEPT !.defs[n] = Amp(p.expr, lits[Len(lits)])]

ReassocAndChains(defs) ==
    LET chains == ChainsOf(defs)
        order == SelectSeq(Ordered(defs, <<>>), LAMBDA n : n \in DOMAIN chains)
        First(s) == CHOOSE i \in DOMAIN order :
                        chains[order[i]] = s /\ \A j \in 1 .. i - 1 : chains[order[j]] # s
        named == [s \in Range(chains) |-> order[First(s)]]
        start == [expr |-> Num(0, 1), named |-> named, defs |-> defs]
    IN  FoldLeft(LAMBDA at, n : Rebuilt(n, ByShare(chains[n], chains), at), start, order).defs
=============================================================================
