------------------------------- MODULE MCDatapath -------------------------------
(***************************************************************************)
(* Limbs of 4 bits for 64 and words of 3 for 32: signals of 12 bits are    *)
(* whole limbs, those of 9 and 10 bits are not, and 8 bits are the widest  *)
(* C integer.                                                              *)
(***************************************************************************)
EXTENDS Datapath

\* i: aligned wide inputs; u: other wide inputs; r, v: registers of their widths;
\* n: a shift amount; y*: outputs.
MCWidth == [a |-> 12, b |-> 12, u |-> 9, w |-> 9, k |-> 3, l |-> 3, p |-> 6, q |-> 8, f |-> 4,
            n |-> 4, c |-> 1,
            r |-> 12, v |-> 9, s |-> 6,
            y12 |-> 12, y9 |-> 9, y8 |-> 8, y6 |-> 6, y4 |-> 4, y3 |-> 3, y1 |-> 1]
MCRegisters == {"r", "v", "s"}

A == Id("a")
B == Id("b")
U == Id("u")
W == Id("w")
K == Id("k")
L == Id("l")
P == Id("p")
Q == Id("q")
F == Id("f")
N == Id("n")
I == Id("c")
R == Id("r")
V == Id("v")
S == Id("s")
Odd == <<"|", B, Num(1, 12)>>        \* never zero

Corner(a, b, u, w, k, p, n, c) ==
    [a |-> a, b |-> b, u |-> u, w |-> w, k |-> k, l |-> 7 - k, p |-> p, q |-> (5 * p + k) % 256,
     f |-> (p + n) % 16, n |-> n, c |-> c]
MCStimuli ==
    {Corner(4095, 1, 511, 1, 7, 63, 1, 1), Corner(2064, 4080, 256, 511, 4, 33, 4, 0),
     Corner(1911, 3000, 170, 85, 2, 46, 15, 1)}

Bin(ops, e, f) == {<<op, e, f>> : op \in ops}
Arith == {"+", "-", "*", "&", "|", "^"}
Order == {"==", "!=", "<", "<=", ">", ">="}
Divide == {"/", "%", "s/", "s%"}

\* What registers are assigned: whole limbs are combined freely, for other widths one
\* operation whose stray bits go above the width.
NextR == Bin(Arith, R, A) \union Bin(Divide, <<"+", R, A>>, Odd) \union Bin(Shifts, <<"^", R, A>>, N)
         \union {Concat(<<K, U>>), Mux(<<"<", R, B>>, Tilde(<<"-", A, R>>), <<"*", A, P>>),
                 Concat(<<Extract(R, 3, 5), Num(5, 3), F>>), Concat(<<Extract(R, 0, 3), P, K>>)}
NextV == Bin(Arith, V, U) \union {<<"<<", U, N>>, Tilde(V), Extract(<<"+", R, A>>, 2, 9),
         <<"+", <<"-", V, U>>, <<"*", W, V>>>>, Mux(I, <<"+", V, K>>, Num(341, 9)),
         Concat(<<P, Extract(V, 5, 3)>>), Extract(<<">>", A, N>>, 3, 9)}
NextS == Bin(Arith, S, P) \union {Tilde(S), <<"<<", P, N>>, Concat(<<K, L>>), Extract(V, 2, 6),
         <<"s/", P, Num(61, 6)>>, <<"s%", P, Num(5, 6)>>}

Out1 == Bin({"==", "<", ">="}, <<"+", R, A>>, B) \union Bin(Order, S, P)
        \union Bin({"s<", "s>="}, S, P) \union Bin({"!=", "<=", ">"}, <<"-", S, P>>, K)
        \union {<<"==", Concat(<<U, K>>), R>>, Bang(I),
                <<"==", Extract(A, 0, 4), F>>, <<"<", Concat(<<K, L, I, I>>), Q>>}
Out3 == {Extract(R, 3, 3), Extract(<<"+", V, U>>, 3, 3), <<"-", K, L>>, <<"%", K, Num(5, 3)>>}
Out4 == {Extract(<<"*", A, R>>, 6, 4), Concat(<<K, I>>), <<"+", F, N>>, Extract(Q, 4, 4)}
Out8 == {Extract(R, 3, 8), Extract(<<"^", U, V>>, 1, 8), Concat(<<F, F>>), <<"+", Q, Q>>,
         <<"<<", Q, N>>, <<">>", Q, N>>, Tilde(Q), <<"*", Q, Concat(<<F, N>>)>>,
         Extract(Concat(<<A, Q>>), 5, 8), Mux(<<"==", Q, Num(0, 8)>>, Q, <<"-", Q, Num(1, 8)>>)}
Out9 == {Extract(<<">>", R, N>>, 2, 9), <<"|", V, K>>, <<">>", U, N>>}
Out12 == {<<">>", R, F>>, <<"+", R, U>>, <<"s/", R, Odd>>, <<"%", R, Odd>>,
          <<"<<", R, <<"&", U, Num(15, 9)>>>>}

\* What asks for the whole of v: only after assignments that leave no stray bits.
Whole == Bin(Order, V, U) \union {Mux(<<"!=", V, W>>, I, Extract(R, 11, 1))}
Clean == {Extract(<<"+", R, A>>, 2, 9), Concat(<<P, Extract(V, 5, 3)>>), Extract(<<">>", A, N>>, 3, 9),
          <<"^", V, U>>, <<"&", V, U>>, Mux(I, U, Num(341, 9))}

ChoicesOf(name, es) == {name :> e : e \in es}
Nexts == ChoicesOf("r", NextR) \union ChoicesOf("v", NextV \union Clean) \union ChoicesOf("s", NextS)
Outs == ChoicesOf("y1", Out1 \union Whole) \union ChoicesOf("y3", Out3) \union ChoicesOf("y4", Out4)
        \union ChoicesOf("y8", Out8) \union ChoicesOf("y9", Out9) \union ChoicesOf("y12", Out12)
Prog(next, out) == [next |-> next, out |-> out]
ReadBy(o) == UNION {IdsOf(o[y]) : y \in DOMAIN o}

\* A register is paired with the outputs that read it; outputs of inputs alone with one.
MCPrograms ==
    {p \in [next : Nexts, out : Outs] :
        /\ \/ DOMAIN p.next \intersect ReadBy(p.out) # {}
           \/ ReadBy(p.out) \intersect MCRegisters = {} /\ p.next = ("s" :> Tilde(S))
        /\ Range(p.out) \subseteq Whole => Range(p.next) \subseteq Clean \union NextR}

\* What inlining makes of  assign x = p << n; assign y6 = x >> n;
Inlined == {Prog("s" :> Tilde(S), "y6" :> <<">>", <<"<<", P, N>>, N>>)}
=============================================================================
