-------------------------------- MODULE Datapath --------------------------------
(***************************************************************************)
(* A design as its generated C++ executes it: inputs that the host pokes,  *)
(* registers that a tick commits and outputs that eval_<output> computes,  *)
(* each stored as a C integer or a limb array, beside the numbers that the *)
(* design means.  A stored value may carry bits above its width from one   *)
(* tick to the next.                                                       *)
(***************************************************************************)
EXTENDS LimbEmit

CONSTANTS
    Programs,       \* [next : register -> expression, out : output -> expression]
    Stimuli,        \* input -> value
    MaxTicks        \* bound of a run

ASSUME DatapathAssumption ==
    /\ MaxTicks \in Nat
    /\ \A p \in Programs : DOMAIN p.next \subseteq Registers
    /\ \A p \in Programs : \A x \in DOMAIN p.next : Bits(p.next[x]) = Width[x]
    /\ \A p \in Programs : \A y \in DOMAIN p.out : Bits(p.out[y]) = Width[y]

VARIABLES
    program,
    store,          \* signal -> C integer or limb array
    meant,          \* signal -> number
    ticks,
    fresh           \* the outputs are evaluated

vars == <<program, store, meant, ticks, fresh>>

Stored(x, value) ==
    IF IsWide(Width[x])
    THEN [i \in 0 .. LimbCount(Width[x]) - 1 |-> Cut(value \div 2^(i * LimbBits), LimbBits)]
    ELSE value

With(s, changes) == [x \in DOMAIN s |-> IF x \in DOMAIN changes THEN changes[x] ELSE s[x]]

Executed(exprs) == [x \in DOMAIN exprs |-> Assigned(exprs[x], Width[x], store)]
Defined(exprs) == [x \in DOMAIN exprs |-> Value(exprs[x], meant, <<>>)]

\* The host writes its ports, whole values of their width.
Poke(inputs) ==
    /\ With(meant, inputs) # meant
    /\ store' = With(store, [x \in DOMAIN inputs |-> Stored(x, inputs[x])])
    /\ meant' = With(meant, inputs)
    /\ fresh' = FALSE
    /\ UNCHANGED <<program, ticks>>

Tick ==
    /\ ticks < MaxTicks
    /\ store' = With(store, Executed(program.next))
    /\ meant' = With(meant, Defined(program.next))
    /\ ticks' = ticks + 1 /\ fresh' = FALSE
    /\ UNCHANGED program

Evaluate ==
    /\ ~fresh /\ fresh' = TRUE
    /\ store' = With(store, Executed(program.out))
    /\ meant' = With(meant, Defined(program.out))
    /\ UNCHANGED <<program, ticks>>

\* Everything is zero but the inputs, which the host has poked.
Init ==
    /\ program \in Programs
    /\ \E inputs \in Stimuli : meant = With([x \in DOMAIN Width |-> 0], inputs)
    /\ store = [x \in DOMAIN Width |-> Stored(x, meant[x])]
    /\ ticks = 0 /\ fresh = FALSE

Next == (\E inputs \in Stimuli : Poke(inputs)) \/ Tick \/ Evaluate

Spec == Init /\ [][Next]_vars

-----------------------------------------------------------------------------
(* Properties. *)

\* The low bits of a limb array, as a number.
NumberIn(w, width) ==
    FoldLeft(LAMBDA n, i : n + w[i] * 2^(i * LimbBits), 0, Upto(LimbCount(width))) % 2^width

Shown(x) == IF IsWide(Width[x]) THEN NumberIn(store[x], Width[x]) ELSE store[x]

\* Every narrow signal is stored within its width and every limb within its type: only
\* then may other code read it without a mask.
TypeOK ==
    \A x \in DOMAIN Width :
        IF IsWide(Width[x])
        THEN \A i \in 0 .. LimbCount(Width[x]) - 1 : store[x][i] \in 0 .. 2^LimbBits - 1
        ELSE store[x] \in 0 .. 2^Width[x] - 1

\* The registers hold and the evaluated outputs show what the design says, over ticks
\* that feed back stored values with more bits than they have ("Cycle-accurate RTL simulation that must match Verilator at DUT ports").
Exact ==
    /\ \A x \in DOMAIN program.next : Shown(x) = meant[x]
    /\ fresh => \A y \in DOMAIN program.out : Shown(y) = meant[y]
=============================================================================
