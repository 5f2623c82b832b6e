-------------------------------- MODULE Optimize --------------------------------
(***************************************************************************)
(* optimize() of opt.py: the passes over the wires and over the clocked    *)
(* body in their order, each an action that maps the whole module.  The    *)
(* promise is that of any optimizer: after every pass the module computes  *)
(* what the source computes.                                               *)
(***************************************************************************)
EXTENDS HoldRewrite, WireRewrite

CONSTANTS
    Sources,        \* the modules a frontend may hand over: [defs, body, ports]
    Inputs,
    Outputs,        \* the wires that are outputs or read by assertions
    ManyWrites      \* written registers from which the second round is run (256)

ASSUME OptimizeAssumption ==
    /\ Inputs \union Outputs \subseteq DOMAIN Width /\ ManyWrites \in Nat
    /\ \A s \in Sources : DOMAIN s.defs \intersect (Registers \union Inputs) = {}

VARIABLES
    source,         \* the module as the frontend handed it over
    defs,           \* assigns: wire -> expression
    body,           \* the statements of the clocked process
    ports,          \* address, data and enable of the memory writes
    stage,          \* passes done
    promise         \* what the source computes, kept for the properties

vars == <<source, defs, body, ports, stage, promise>>

\* The states and inputs of the module.
Envs == {env \in [Registers \union Inputs -> 0 .. 2^Max({Width[x] : x \in DOMAIN Width}) - 1] :
            \A x \in DOMAIN env : env[x] < 2^Width[x]}

NextStates(b, wires) == [env \in Envs |-> Edge(b, env, wires)]

\* The outputs, and the address, data and enable of every memory write.
Observed(ps, wires, ys) ==
    [env \in Envs |-> <<[y \in ys |-> Value(Id(y), env, wires)],
                        [i \in DOMAIN ps |-> Value(ps[i], env, wires)]>>]

-----------------------------------------------------------------------------

Passes == <<"consts", "rewrite", "inline", "fold", "lower", "flatten", "merge", "gate", "tidy",
            "wrap", "flatten", "merge", "gate", "tidy",
            "cse", "dce", "sop", "dce", "reassoc", "dce">>

FirstRound == 9     \* passes before the second round, which is run for many writes
SecondRound == 5

\* _map_stmts, of a function on the expressions of the body.
RECURSIVE MapStmts(_, _)
MapStmts(b, f) ==
    [i \in DOMAIN b |->
        IF IsIf(b[i]) THEN If(f[b[i].cond], MapStmts(b[i].then, f), MapStmts(b[i].else, f))
        ELSE Assign(b[i].lhs, f[b[i].rhs])]

MapBody(b, Fn(_)) == MapStmts(b, [e \in Range(ExprsOf(b)) |-> Fn(e)])
MapPorts(ps, Fn(_)) == [i \in DOMAIN ps |-> Fn(ps[i])]

\* What reads wires beside the wires themselves.
Outside == ExprsOf(body) \o ports

Pass(name) ==
    /\ stage < Len(Passes) /\ Passes[stage + 1] = name
    /\ stage' = IF stage + 1 = FirstRound /\ Cardinality(Writes(body)) < ManyWrites
                THEN stage + 1 + SecondRound ELSE stage + 1
    /\ UNCHANGED <<source, promise>>

OnBody(name, result) == Pass(name) /\ body' = result /\ UNCHANGED <<defs, ports>>
OnWires(name, result) == Pass(name) /\ defs' = result /\ UNCHANGED <<body, ports>>

SubstituteConsts ==
    LET Put(e) == Subst(e, ConstsOf(defs))
    IN  /\ Pass("consts")
        /\ defs' = SubstConsts(defs)
        /\ body' = MapBody(body, Put)
        /\ ports' = MapPorts(ports, Put)

Rewrite ==
    LET wires == MapWires(defs, LAMBDA e : RewriteExpr(e, defs))
        Fn(e) == RewriteExpr(e, wires)
    IN  /\ Pass("rewrite")
        /\ defs' = wires
        /\ body' = MapBody(body, Fn)
        /\ ports' = MapPorts(ports, Fn)

Inline == OnWires("inline", InlineSingleUse(defs, Outputs, Outside))

Fold ==
    /\ Pass("fold")
    /\ defs' = MapWires(defs, FoldExpr)
    /\ body' = MapBody(body, FoldExpr)
    /\ ports' = MapPorts(ports, FoldExpr)

Lower == OnBody("lower", LowerSeqMux(body, defs))
Flatten == OnBody("flatten", FlattenNestedHolds(body))
Merge == OnBody("merge", MergeHoldIfs(body))
SelfGate == OnBody("gate", SelfGateConstHolds(body))
Tidy == OnBody("tidy", MapBody(body, FoldExpr))
Wrap == OnBody("wrap", WrapStickyNbas(body))

CsePrefixes ==
    LET cse == CseSiblingPrefixes(body, defs)
    IN  Pass("cse") /\ defs' = cse.defs /\ body' = cse.out /\ UNCHANGED ports

DropDead == OnWires("dce", Dce(defs, Outputs, Outside))
MergeOrs == OnWires("sop", MergeSopTerms(defs))
ShareAnds == OnWires("reassoc", ReassocAndChains(defs))

Init ==
    /\ source \in Sources
    /\ defs = source.defs /\ body = source.body /\ ports = source.ports
    /\ stage = 0
    /\ promise = [next |-> NextStates(body, defs),
                  seen |-> Observed(ports, defs, Outputs \intersect DOMAIN defs)]

Next ==
    \/ SubstituteConsts \/ Rewrite \/ Inline \/ Fold
    \/ Lower \/ Flatten \/ Merge \/ SelfGate \/ Tidy \/ Wrap
    \/ CsePrefixes \/ DropDead \/ MergeOrs \/ ShareAnds

Spec == Init /\ [][Next]_vars

-----------------------------------------------------------------------------
(* Properties. *)

\* Every condition is one bit: the passes join conditions by bitwise operators.
RECURSIVE OneBitConds(_)
OneBitConds(b) ==
    \A i \in DOMAIN b :
        IsIf(b[i]) => /\ Bits(b[i].cond) = 1
                      /\ OneBitConds(b[i].then) /\ OneBitConds(b[i].else)

\* The passes keep conditions one bit wide and write no register that the source
\* does not write.
TypeOK ==
    /\ source \in Sources /\ stage \in 0 .. Len(Passes)
    /\ Writes(body) \subseteq Writes(source.body)
    /\ OneBitConds(body)

\* After every pass, in every state and for every input, the body computes the next
\* state of the source, and each output and the address, data and enable of every
\* memory write have the value they have in the source: what the kernel may skip is
\* decided on the optimized module, and the reference is the source.
SameBehaviour ==
    LET ys == Outputs \intersect DOMAIN source.defs
    IN  /\ NextStates(body, defs) = promise.next
        /\ ys \subseteq DOMAIN defs
        /\ Observed(ports, defs, ys) = promise.seen

\* No pass leaves a name that nothing drives, which the end of optimize refuses
\* ("dangling wire"), nor a cycle of wires.
NothingDangles ==
    /\ UNION {IdsOf(e) : e \in Range(Outside) \union Range(defs)}
            \subseteq DOMAIN defs \union Registers \union Inputs
    /\ Len(Ordered(defs, <<>>)) = Cardinality(DOMAIN defs)
=============================================================================
