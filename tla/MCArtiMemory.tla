----------------------------- MODULE MCArtiMemory -----------------------------
(* A two-beat write whose second beat lands where a one-beat write follows; a    *)
(* write that enables no byte; reads that fill the response queue past its limit. *)
EXTENDS ArtiMemory

W(a, s) == [addr |-> a, strobes |-> s]
R(a, n) == [addr |-> a, len |-> n]

MCWritePrograms ==
    {<<W(0, <<{1}, {2}>>), W(1, <<{2}>>)>>,
     <<W(1, <<{}>>), W(0, <<{2}, {1}>>)>>}
MCReadPrograms == {<<R(0, 2), R(0, 2)>>}
=============================================================================
