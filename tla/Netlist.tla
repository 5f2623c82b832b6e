------------------------------ MODULE Netlist ------------------------------
(***************************************************************************)
(* What one compiled RTL module means, independently of how the generated  *)
(* C++ evaluates it (flashsim/ir.py: Module, AlwaysFF, If, NbAssign,       *)
(* MemWrite, ClockedAssertion).                                            *)
(*                                                                         *)
(* A module is a set of state elements (inputs, registers, memory cells),  *)
(* a set of combinational wires, statements that assign registers at the   *)
(* clock edge, ordered memory write ports and clocked assertions.          *)
(* Expressions are abstracted to operators over an environment that gives  *)
(* every state element and every cached wire a value; a statement is an    *)
(* operator that returns the assignments it performs (a partial function   *)
(* from registers to values).                                              *)
(***************************************************************************)
EXTENDS Integers

CONSTANTS
    Inputs, Regs, Cells,    \* state elements: ports, registers, memory cells
    Wires,                  \* the wires the generated model caches
    Val, Zero,              \* values, and the value of zeroed storage
    WireFn(_, _),           \* WireFn(w, e): the expression assigned to wire w
    NHolds,                 \* number of statement groups ("holds")
    HoldFn(_, _),           \* HoldFn(h, e): the assignments hold h performs
    SourceRank,             \* position of each hold's statements in the source
    NPorts,                 \* number of memory write ports
    EnFn(_, _), AddrFn(_, _), DataFn(_, _), \* a port's enable, address, data
    Fails(_)                \* Fails(e): some clocked assertion fails under e

Sigs  == Inputs \cup Regs \cup Cells
Holds == 0 .. NHolds - 1
Ports == 1 .. NPorts
State == [Sigs -> Val]
Env   == [Sigs \cup Wires -> Val]

(* The environments that agree with state s on every state element.        *)
Extend(s, v) == [x \in Sigs \cup Wires |-> IF x \in Sigs THEN s[x] ELSE v[x]]
Extensions(s) == {Extend(s, v) : v \in [Wires -> Val]}

IsSettled(e) == \A w \in Wires : e[w] = WireFn(w, e)

(* The one environment in which every wire has the value of its expression. *)
Settled(s) == CHOOSE e \in Extensions(s) : IsSettled(e)

(* The source order decides between statements that assign one register.   *)
Writers(r, e) == {h \in Holds : r \in DOMAIN HoldFn(h, e)}
LastWriter(r, e) ==
    CHOOSE h \in Writers(r, e) :
        \A g \in Writers(r, e) : SourceRank[g] <= SourceRank[h]

NextReg(r, e) == IF Writers(r, e) = {} THEN e[r]
                 ELSE HoldFn(LastWriter(r, e), e)[r]

(* Ports store in order, so the last enabled port at a cell wins.          *)
Stores(c, e) == {j \in Ports : EnFn(j, e) /\ AddrFn(j, e) = c}
NextCell(c, e) ==
    IF Stores(c, e) = {} THEN e[c]
    ELSE DataFn(CHOOSE j \in Stores(c, e) : \A k \in Stores(c, e) : k <= j, e)

(* Every element after one rising edge, all computed from the old state.   *)
NextState(s) ==
    LET e == Settled(s)
    IN  [x \in Sigs |-> CASE x \in Inputs -> s[x]
                          [] x \in Regs   -> NextReg(x, e)
                          [] x \in Cells  -> NextCell(x, e)]

-----------------------------------------------------------------------------
(* No state has two holds that assign the same register: what the CIRCT    *)
(* frontend produces, one next-state expression per register.              *)
ExclusiveWriters ==
    \A s \in State, r \in Regs, g, h \in Holds :
        (r \in DOMAIN HoldFn(g, Settled(s)) /\ r \in DOMAIN HoldFn(h, Settled(s)))
            => g = h

(* The values and ranges of the constants, and no combinational loop.      *)
WellTyped ==
    /\ Zero \in Val
    /\ NHolds \in Nat /\ NPorts \in Nat
    /\ SourceRank \in [Holds -> Int]
    /\ Inputs \cap Regs = {} /\ Inputs \cap Cells = {} /\ Regs \cap Cells = {}
    /\ Sigs \cap Wires = {}
    /\ \A e \in Env :
          /\ \A w \in Wires : WireFn(w, e) \in Val
          /\ \A h \in Holds : /\ DOMAIN HoldFn(h, e) \subseteq Regs
                              /\ \A r \in DOMAIN HoldFn(h, e) : HoldFn(h, e)[r] \in Val
          /\ \A j \in Ports : /\ EnFn(j, e) \in BOOLEAN
                              /\ AddrFn(j, e) \in Cells
                              /\ DataFn(j, e) \in Val
          /\ Fails(e) \in BOOLEAN

SettlesOnce ==
    \A s \in State :
        /\ \E e \in Extensions(s) : IsSettled(e)
        /\ \A d, e \in Extensions(s) : IsSettled(d) /\ IsSettled(e) => d = e

ASSUME NetlistAssumption == WellTyped
ASSUME NoCombinationalLoop == SettlesOnce
=============================================================================
