------------------------------ MODULE MCBuildCache ------------------------------
(* Two designs in one output directory. *)
EXTENDS BuildCache

CONSTANTS Cpu, Gpu

Editions == [d \in Designs |-> IF d = Cpu THEN {1, 2} ELSE {1}]
OwnNames == [d \in Designs |-> IF d = Cpu THEN "Cpu" ELSE "Gpu"]
Req(d, checks, flags, split) == [design |-> d, checks |-> checks, flags |-> flags, split |-> split]
MCRequests ==
    {Req(Cpu, FALSE, "plain", 2), Req(Cpu, TRUE, "plain", 2), Req(Cpu, TRUE, "alias", 2),
     Req(Gpu, FALSE, "plain", 1)}

\* Stages at which breaking off does no harm; all but "top", "flag" and "prints" are.
Harmless == {"check", "mlir", "shards", "objects"}

\* hw.mlir is written, its sidecars are not.
BeforeTop == {"top"}
Anywhere == {"idle", "check", "circt", "mlir", "top", "flag", "prints", "parse"}
=============================================================================
