------------------------------ MODULE MCOptimize ------------------------------
(* Two registers, x of one bit and w of two, inputs a, b of one bit and d of two. *)
EXTENDS Optimize

MCRegisters == {"x", "w"}
MCInputs == {"a", "b", "d"}
MCOutputs == {"o", "y"}
MCWidth == [x |-> 1, w |-> 2, a |-> 1, b |-> 1, d |-> 2, o |-> 1, y |-> 2,
            k |-> 2, n |-> 1, p |-> 1, q |-> 1, r |-> 1, t |-> 1, u |-> 1, v |-> 1]
OnePart == [r \in MCRegisters |-> 1]

Source(wires, stmts, exprs) == [defs |-> wires, body |-> stmts, ports |-> exprs]

(* Bodies: what the passes over statements see. *)

BodyWires == [t |-> Mux(Id("a"), Num(1, 1), Id("x")),
              u |-> Amp(Id("a"), Bar(Id("b"), Id("x"))),
              v |-> Caret(Id("a"), Id("b"))]

\* As CIRCT hands over: one assignment to each register, of a tree of muxes.
Leaves == {Id("x"), Id("b"), Num(0, 1), Num(1, 1)}
Conds == {Id("a"), Bang(Id("b"))}
XExprs ==
    Leaves
        \union {Mux(c, e, f) : c \in Conds, e \in Leaves, f \in Leaves}
        \union {Mux(Id("a"), e, Mux(Bang(Id("b")), f, g)) : e, f \in Leaves, g \in {Id("x"), Num(1, 1)}}
        \union {Mux(Tilde(Id("a")), Mux(Id("v"), e, f), Id("x")) : e, f \in Leaves}
        \union {Id("t"), Id("u"), Id("v"),
                Amp(Amp(Id("b"), Id("x")), Id("a")),
                Amp(Id("a"), Caret(Id("b"), Id("x"))),
                Amp(Bar(Id("x"), Bar(Id("a"), Id("v"))), Bang(Id("b"))),
                Mux(Id("b"), Amp(Id("a"), Caret(Id("x"), Id("v"))), Num(1, 1))}
WExprs == {Id("d"),
           Mux(Id("a"), Num(2, 2), Mux(Id("b"), Num(0, 2), Id("w"))),
           Mux(Id("b"), Id("w"), Num(0, 2))}
CirctBodies == {<<Assign("x", e), Assign("w", f)>> : e \in XExprs, f \in WExprs}

\* As parse.py hands over: ifs within ifs.
XStmts == {<<>>, <<Assign("x", Num(1, 1))>>, <<Assign("x", Id("b"))>>}
WStmts == {<<>>, <<Assign("w", Id("d"))>>, <<Assign("w", Num(2, 2))>>}
Nested == {<<If(Id("a"), s, <<If(Id("b"), q, <<>>)>>)>> : s \in XStmts, q \in WStmts}
    \union {<<If(Id("a"), <<If(Id("b"), s, q)>>, q)>> : s \in XStmts, q \in WStmts}
    \union {<<If(Id("a"), q \o s, <<If(Id("b"), s, <<If(Bang(Id("b")), q, <<>>)>>)>>)>> :
                s \in XStmts, q \in WStmts}
    \union {<<If(Id("a"), s, <<>>), If(Id("a"), q, <<>>)>> : s \in XStmts, q \in WStmts}
    \union {<<If(Id("a"), <<>>, <<If(Id("b"), s, <<>>), If(Id("b"), q, <<>>)>>)>> :
                s \in XStmts, q \in WStmts}

\* No register is assigned twice on one path, as in what CIRCT hands over.
RECURSIVE AssignsOnce(_)
AssignsOnce(b) ==
    /\ \A i \in DOMAIN b : IsIf(b[i]) => AssignsOnce(b[i].then) /\ AssignsOnce(b[i].else)
    /\ \A i, j \in DOMAIN b :
        i # j => Writes(<<b[i]>>) \intersect Writes(<<b[j]>>) = {}

NativeBodies == {p \in Nested : AssignsOnce(p)}

\* Siblings whose conditions share a prefix.
Sharing ==
    LET ab == Amp(Id("a"), Id("b"))
        Terms == {Bang(Id("x")), Differ(Id("w"), Id("d")), Amp(Id("v"), Id("x"))}
        S == {<<Assign("x", Id("v"))>>, <<If(Id("x"), <<Assign("x", Id("u"))>>, <<>>)>>}
        T == {<<Assign("w", Id("d"))>>, <<Assign("w", Caret(Id("w"), Id("d")))>>}
    IN  {<<If(Amp(ab, e), s, <<>>), If(<<op, ab, f>>, q, <<>>)>> :
            e \in Terms, f \in Terms, s \in S, q \in T, op \in {"&", "|"}}
        \union {<<If(Id("x"), <<If(Bar(Bar(Id("a"), Id("b")), e), s, q),
                               If(Bar(Bar(Id("a"), Id("b")), f), q, <<>>)>>, q)>> :
            e \in Terms, f \in Terms, s \in S, q \in T}

OfBodies(bodies) == {Source(BodyWires, b, <<>>) : b \in bodies}

BodySources == OfBodies(CirctBodies \union NativeBodies \union Sharing)

(* Wires: what the passes over expressions see. *)

Plain == <<Assign("x", Id("a")), If(Id("b"), <<Assign("w", Id("d"))>>, <<>>)>>

\* Constants, shifts written as concatenations, and what folds.
DBits(low, width) == Extract(Id("d"), low, width)
Parts == {Num(0, 1), DBits(0, 1), DBits(1, 1), Id("p"), Id("t")}
Foldable ==
    {Concat(<<e, f>>) : e, f \in Parts}
        \union {Mux(Id("n"), Id("d"), Id("k")), Mux(Id("r"), Id("d"), Id("w")),
                Mux(<<"s<", Id("k"), Num(1, 2)>>, Id("d"), Id("w")),
                Mux(<<"<", Num(1, 2), Id("k")>>, Id("d"), Id("w")),
                <<"+", Id("k"), Num(3, 2)>>, <<"-", Num(1, 2), Id("k")>>,
                <<"<<", Num(3, 2), Num(1, 1)>>, <<">>", Id("k"), Num(1, 1)>>,
                Concat(<<Extract(Id("k"), 1, 1), Extract(Tilde(Id("k")), 0, 1)>>),
                Amp(Id("d"), Amp(Bar(Id("w"), Id("d")), Id("d"))),
                Amp(Bar(Id("w"), Id("d")), Caret(Id("d"), Id("w"))),
                Concat(<<Caret(Id("a"), Num(1, 1)), Caret(Id("n"), Id("p"))>>)}
FoldSources ==
    {Source([y |-> e, k |-> Num(2, 2), n |-> Num(1, 1), p |-> DBits(0, 1), t |-> Num(0, 1),
             r |-> Bang(Id("n"))], Plain, <<Id("k"), Id("p")>>) : e \in Foldable}

\* Wires read once, twice, by the body, by a port, or not at all.
Readers == {Id("p"), Id("q"), Amp(Id("p"), Id("q")), Id("a")}
InlineSources ==
    {Source([o |-> e, p |-> Caret(Id("a"), Id("x")), q |-> Bar(Id("p"), Id("b")), r |-> f],
            <<Assign("x", g), Assign("w", Id("d"))>>, <<h>>) : e, f \in Readers, g, h \in Readers \ {Id("a")}}

\* ORs whose terms recombine; n and t are negations.
OrTerms ==
    {Id("a"), Amp(Id("a"), Id("b")), Amp(Id("n"), Id("x")), Amp(Id("p"), Id("t")),
     Amp(Amp(Id("a"), Id("t")), Bang(Id("x"))), Amp(Id("p"), Amp(Id("x"), Id("n"))), Id("q")}
OrSources ==
    {Source([o |-> Bar(e, Bar(f, g)), n |-> Bang(Id("a")), t |-> Caret(Id("b"), Num(1, 1)),
             p |-> Amp(Id("a"), Id("x")), q |-> Bar(Amp(Id("n"), Id("t")), h)],
            <<Assign("x", Id("q")), Assign("w", Id("d"))>>, <<>>) :
        e, f \in OrTerms, g \in {Id("q"), Amp(Id("n"), Id("x")), Amp(Id("p"), Id("t"))}, h \in {Id("p"), Bang(Id("p"))}}

\* ANDs that share operands.
Bits1 == {Id("a"), Id("b"), DBits(0, 1), Id("v")}
AndSources ==
    {Source([p |-> Amp(e, Amp(f, Id("x"))), q |-> Amp(Id("p"), g), r |-> Amp(Id("x"), Amp(g, h)),
             v |-> Caret(Id("a"), Id("x")), o |-> Caret(Id("q"), Caret(Id("r"), Id("p")))],
            <<Assign("x", Id("r")), If(Id("q"), <<Assign("w", Id("d"))>>, <<>>)>>, <<Id("p")>>) :
        e, g \in Bits1, f, h \in Bits1 \ {Id("a")}}

LogicSources == FoldSources \union InlineSources \union OrSources \union AndSources

MCSources == BodySources \union LogicSources

(* Bodies on which the passes do change the next state. *)

\* A register with a default and a constant override.
DefaultSources ==
    OfBodies({<<Assign("w", Id("d")), If(Id("a"), <<Assign("w", Num(3, 2))>>, <<>>)>>})

\* Two ifs with one condition around an assignment that must come before the second.
SplitSources ==
    OfBodies({<<If(Id("a"), <<Assign("w", Id("d"))>>, <<>>),
       If(Id("b"), <<Assign("w", Num(0, 2))>>, <<>>),
       If(Id("a"), <<Assign("w", Caret(Id("d"), Id("w")))>>, <<>>)>>})

\* A condition of two bits.
WideSources ==
    OfBodies({<<If(Id("d"), <<If(Id("a"), <<Assign("x", Id("b"))>>, <<>>)>>, <<>>)>>,
     <<If(Tilde(Id("d")), <<Assign("x", Id("b"))>>, <<If(Id("a"), <<Assign("w", Id("d"))>>, <<>>)>>)>>})
=============================================================================
