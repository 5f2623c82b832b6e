------------------------------ MODULE HoldRewrite ------------------------------
(***************************************************************************)
(* The passes of opt.py that rewrite the body of the clocked process into  *)
(* holds, statements `if (c) x <= e` that the kernel can leave asleep:     *)
(* muxes become ifs, nested ifs are lifted, ifs with one condition are     *)
(* merged, assignments are gated by "it would change something", and       *)
(* prefixes that the conditions of siblings share become wires.            *)
(***************************************************************************)
EXTENDS RtlExpr

CONSTANTS
    PartOf,         \* register -> its skip partition, the longer key the greater
    ElseMax,        \* _FLATTEN_ELSE_MAX
    CseNodes,       \* _CSE_CHAIN_NODES_MIN
    CseGroup        \* _CSE_OR_GROUP_MIN

ASSUME HoldAssumption ==
    /\ PartOf \in [Registers -> Nat]
    /\ ElseMax \in Nat /\ CseNodes \in Nat /\ CseGroup \in Nat \ {0}

-----------------------------------------------------------------------------
(* _lower_seq_mux *)

RECURSIVE FlattenOp(_, _)
FlattenOp(e, op) == IF e[1] = op THEN FlattenOp(e[2], op) \o FlattenOp(e[3], op) ELSE <<e>>

Chain(op, parts) == FoldLeft(LAMBDA e, f : <<op, e, f>>, Head(parts), Tail(parts))

\* _hold_next: the first factor of `enable & (set | x)` or `enable & (toggle ^ x)`
\* that mentions x, as a set of at most one.
HoldNext(e, x) ==
    LET ands == FlattenOp(e, "&")
        Keeps(i) == Contains(FlattenOp(ands[i], "|"), Id(x))
        Toggles(i) == ands[i][1] = "^" /\ Id(x) \in {ands[i][2], ands[i][3]}
        hits == {i \in DOMAIN ands : Keeps(i) \/ Toggles(i)}
    IN  IF hits = {} \/ Len(ands) = 1 THEN {}
        ELSE LET i == Min(hits)
                 rest == SelectSeq(FlattenOp(ands[i], "|"), LAMBDA p : p # Id(x))
             IN  {[enable |-> Chain("&", RemoveAt(ands, i)),
                   extra |-> CASE Keeps(i) /\ rest = <<>> -> Num(0, 1)
                               [] Keeps(i) /\ rest # <<>> -> Chain("|", rest)
                               [] OTHER -> IF ands[i][2] = Id(x) THEN ands[i][3] ELSE ands[i][2],
                   taken |-> IF Keeps(i) THEN Num(1, 1) ELSE Tilde(Id(x))]}

\* _is_hold
IsHold(x, b) == b = <<Assign(x, Id(x))>>

RECURSIVE NbaToIf(_, _)
NbaToIf(x, e) ==
    IF e[1] = "mux"
    THEN LET then == NbaToIf(x, e[3])
             else == NbaToIf(x, e[4])
         IN  CASE IsHold(x, else) -> <<If(e[2], then, <<>>)>>
               [] IsHold(x, then) /\ ~IsHold(x, else) -> <<If(Bang(e[2]), else, <<>>)>>
               [] OTHER -> <<If(e[2], then, else)>>
    ELSE IF Width[x] = 1 /\ HoldNext(e, x) # {}
    THEN LET h == CHOOSE h \in HoldNext(e, x) : TRUE
         IN  <<If(Bang(h.enable), <<Assign(x, Num(0, 1))>>,
                  <<If(h.extra, <<Assign(x, h.taken)>>, <<>>)>>)>>
    ELSE <<Assign(x, e)>>

\* _follow: look through a wire only at a mux or a hold.
Follow(e, x, defs) ==
    IF /\ IsId(e) /\ e[2] \in DOMAIN defs
       /\ defs[e[2]][1] = "mux" \/ (Width[x] = 1 /\ HoldNext(defs[e[2]], x) # {})
    THEN defs[e[2]] ELSE e

RECURSIVE LowerSeqMux(_, _)
LowerSeqMux(b, defs) ==
    FlattenSeq([i \in DOMAIN b |->
        IF IsIf(b[i])
        THEN <<If(b[i].cond, LowerSeqMux(b[i].then, defs), LowerSeqMux(b[i].else, defs))>>
        ELSE NbaToIf(b[i].lhs, Follow(b[i].rhs, b[i].lhs, defs))])

-----------------------------------------------------------------------------
(* _flatten_nested_holds *)

\* _all_holds
AllHolds(b) == b # <<>> /\ \A i \in DOMAIN b : IsIf(b[i]) /\ b[i].else = <<>>

\* _not_expr
NotExpr(e) == IF e[1] \in {"!", "~"} THEN e[2] ELSE Bang(e)

Lifted(c, holds) ==
    [i \in DOMAIN holds |-> If(Amp(c, holds[i].cond), holds[i].then, <<>>)]

FlattenIf(c, then, else) ==
    CASE AllHolds(else) /\ Len(else) <= ElseMax ->
            (IF AllHolds(then) THEN Lifted(c, then) ELSE <<If(c, then, <<>>)>>)
                \o Lifted(NotExpr(c), else)
      [] else = <<>> /\ AllHolds(then) -> Lifted(c, then)
      [] OTHER -> <<If(c, then, else)>>

RECURSIVE FlattenNestedHolds(_)
FlattenNestedHolds(b) ==
    FlattenSeq([i \in DOMAIN b |->
        IF IsIf(b[i])
        THEN FlattenIf(b[i].cond, FlattenNestedHolds(b[i].then), FlattenNestedHolds(b[i].else))
        ELSE <<b[i]>>])

-----------------------------------------------------------------------------
(* _merge_hold_ifs *)

\* _merge_hold_key, for an if that writes something.
MergeKey(s) == <<s.cond, Max({PartOf[x] : x \in Writes(<<s>>)})>>

MergeOne(out, s) ==
    LET same == {i \in DOMAIN out :
                    /\ IsIf(s) /\ Writes(<<s>>) # {}
                    /\ IsIf(out[i]) /\ Writes(<<out[i]>>) # {}
                    /\ MergeKey(out[i]) = MergeKey(s)}
        i == Min(same)
    IN  IF same = {} THEN Append(out, s)
        ELSE [out EXCEPT ![i] = If(s.cond, @.then \o s.then, @.else \o s.else)]

RECURSIVE MergeHoldIfs(_)
MergeHoldIfs(b) ==
    FoldLeft(LAMBDA out, s :
                MergeOne(out, IF IsIf(s)
                              THEN If(s.cond, MergeHoldIfs(s.then), MergeHoldIfs(s.else))
                              ELSE s),
             <<>>, b)

-----------------------------------------------------------------------------
(* _self_gate_const_holds and _wrap_sticky_nbas *)

\* _value_differs
ValueDiffers(x, v) ==
    IF Width[x] # 1 THEN Differ(Id(x), Num(v, Width[x]))
    ELSE IF v # 0 THEN Bang(Id(x)) ELSE Id(x)

GateHold(c, then, else) ==
    IF else = <<>> /\ then # <<>> /\ \A i \in DOMAIN then : ~IsIf(then[i]) /\ IsConst(then[i].rhs)
    THEN If(Amp(c, Chain("|", [i \in DOMAIN then |-> ValueDiffers(then[i].lhs, then[i].rhs[2])])),
            then, <<>>)
    ELSE If(c, then, else)

RECURSIVE SelfGateConstHolds(_)
SelfGateConstHolds(b) ==
    [i \in DOMAIN b |->
        IF IsIf(b[i])
        THEN GateHold(b[i].cond, SelfGateConstHolds(b[i].then), SelfGateConstHolds(b[i].else))
        ELSE b[i]]

\* _sticky_rhs, for registers within the width of a C compare.
StickyRhs(x, e) == IsConst(e) \/ (IsId(e) /\ e[2] # x)

\* Bug: the compare of one bit is used for every width.
DiffersBitwise(x, e) == IF IsConst(e) THEN ValueDiffers(x, e[2]) ELSE Caret(Id(x), e)

\* _differs
Differs(x, e) ==
    CASE IsConst(e) -> ValueDiffers(x, e[2])
      [] ~IsConst(e) /\ Width[x] = 1 -> Caret(Id(x), e)
      [] OTHER -> Differ(Id(x), e)

WrapNba(s) ==
    CASE s.rhs = Id(s.lhs) -> <<>>
      [] StickyRhs(s.lhs, s.rhs) -> <<If(Differs(s.lhs, s.rhs), <<s>>, <<>>)>>
      [] OTHER -> <<s>>

RECURSIVE WrapStickyNbas(_)
WrapStickyNbas(b) ==
    FlattenSeq([i \in DOMAIN b |->
        IF IsIf(b[i])
        THEN <<If(b[i].cond, WrapStickyNbas(b[i].then), WrapStickyNbas(b[i].else))>>
        ELSE WrapNba(b[i])])

-----------------------------------------------------------------------------
(* _cse_sibling_or_prefixes *)

\* _expr_nodes
RECURSIVE Nodes(_)
Nodes(e) == FoldLeft(LAMBDA n, k : n + Nodes(k), 1, Kids(e))

\* _common_term_prefix
CommonPrefix(seqs) ==
    Max({0} \union {n \in 1 .. Min({Len(s) : s \in Range(seqs)}) :
                        \A i \in 1 .. n : \A s \in Range(seqs) : s[i] = seqs[1][i]})

\* The terms of the conditions of b[i .. j], joined by `op`.
TermsOf(b, i, j, op) == [k \in 1 .. j - i + 1 |-> FlattenOp(b[i + k - 1].cond, op)]

Shared(b, i, j, op) ==
    LET seqs == TermsOf(b, i, j, op)
    IN  SubSeq(seqs[1], 1, CommonPrefix(seqs))

\* The siblings from i on join the group while what they all share is large enough.
RECURSIVE GroupEnd(_, _, _, _)
GroupEnd(b, i, j, op) ==
    IF /\ j < Len(b) /\ IsIf(b[j + 1])
       /\ Shared(b, i, j + 1, op) # <<>>
       /\ Nodes(Chain(op, Shared(b, i, j + 1, op))) >= CseNodes
    THEN GroupEnd(b, i, j + 1, op) ELSE j

\* The groups that start at i, one for each operator.
GroupsAt(b, i) ==
    LET Ops == {op \in {"&", "|"} : Len(FlattenOp(b[i].cond, op)) >= 2 \/ Nodes(b[i].cond) >= CseNodes}
        Group(op) == [op |-> op, last |-> GroupEnd(b, i, i, op),
                      shared |-> Shared(b, i, GroupEnd(b, i, i, op), op)]
    IN  {g \in {Group(op) : op \in Ops} :
            g.last - i + 1 >= CseGroup /\ Nodes(Chain(g.op, g.shared)) >= CseNodes}

TempsOf(defs) == {n \in DOMAIN defs : n \notin DOMAIN Width}

\* The part of a condition that its group does not share.
Suffix(e, g) ==
    LET terms == FlattenOp(e, g.op) IN SubSeq(terms, Len(g.shared) + 1, Len(terms))

\* _cse_or_prefix_run from b[i] on; `at` holds the wires and the statements so far.
RECURSIVE CsePrefixRun(_, _, _)
CsePrefixRun(b, i, at) ==
    IF i > Len(b) THEN at
    ELSE IF ~IsIf(b[i]) \/ GroupsAt(b, i) = {}
    THEN CsePrefixRun(b, i + 1, [at EXCEPT !.out = Append(@, b[i])])
    ELSE LET Size(g) == Nodes(Chain(g.op, g.shared))
             g == CHOOSE g \in GroupsAt(b, i) :
                    \A h \in GroupsAt(b, i) : Size(h) <= Size(g)
             temp == "_fs_cse_t" \o ToString(Cardinality(TempsOf(at.defs)))
             Factored(s) == If(Chain(g.op, <<Id(temp)>> \o Suffix(s.cond, g)), s.then, s.else)
         IN  CsePrefixRun(b, g.last + 1,
                [defs |-> at.defs @@ (temp :> Chain(g.op, g.shared)),
                 out |-> at.out \o [k \in 1 .. g.last - i + 1 |-> Factored(b[i + k - 1])]])

\* Inner bodies first; the result is the new wires and the new body.
RECURSIVE CseSiblingPrefixes(_, _)
CseSiblingPrefixes(b, defs) ==
    LET Inner(at, s) ==
            IF ~IsIf(s) THEN [at EXCEPT !.out = Append(@, s)]
            ELSE LET t == CseSiblingPrefixes(s.then, at.defs)
                     e == CseSiblingPrefixes(s.else, t.defs)
                 IN  [defs |-> e.defs, out |-> Append(at.out, If(s.cond, t.out, e.out))]
        inner == FoldLeft(Inner, [defs |-> defs, out |-> <<>>], b)
    IN  CsePrefixRun(inner.out, 1, [defs |-> inner.defs, out |-> <<>>])
=============================================================================
