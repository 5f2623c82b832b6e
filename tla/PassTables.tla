----------------------------- MODULE PassTables -----------------------------
(***************************************************************************)
(* The tables that emit_cpp compiles into a kernel with eager passes, one  *)
(* record p, and what they promise about the netlist.  EagerPlan says how  *)
(* they are computed; PlannedPasses puts the two together.                 *)
(***************************************************************************)
EXTENDS Netlist, FiniteSets, Sequences

CONSTANT Scalar  \* cached wires whose old and new value the passes compare

InPass(p, r) == {p.order[r][i] : i \in DOMAIN p.order[r]}
Leaves(p, page) == {x \in Sigs : page \in p.leafPages[x]}
Kept(e, names) == [x \in DOMAIN e |-> IF x \in names THEN e[x] ELSE Zero]
DrainedWires(p) == {w \in DOMAIN p.passOf : p.passOf[w] \in p.drained}

PlanTyped(p) ==
    /\ p.order \in Seq(Seq(Wires)) /\ DOMAIN p.passOf \subseteq Wires
    /\ \A w \in DOMAIN p.passOf :
          p.passOf[w] \in DOMAIN p.order /\ w \in InPass(p, p.passOf[w])
    /\ \A r \in DOMAIN p.order :
          /\ p.order[r] # <<>>
          /\ \A i, j \in DOMAIN p.order[r] : p.order[r][i] = p.order[r][j] => i = j
          /\ \A w \in InPass(p, r) :
                w \in DOMAIN p.passOf /\ p.passOf[w] = r /\ p.page[w] = p.page[p.order[r][1]]
    /\ p.page \in [Wires -> p.pages] /\ p.dataPage \in [DOMAIN p.order -> p.pages]
    /\ p.foreign \in [DOMAIN p.order -> SUBSET Wires] /\ p.lazyDeps \in [Wires -> SUBSET Wires]
    /\ p.leafPages \in [Sigs -> SUBSET p.pages]
    /\ p.leafHolds \in [Sigs -> SUBSET Holds]
    /\ p.leafPasses \in [Sigs -> SUBSET (DOMAIN p.order)]
    /\ p.cutHolds \in [DOMAIN p.passOf -> SUBSET Holds]
    /\ p.consumers \in [DOMAIN p.passOf -> SUBSET (DOMAIN p.order)]
    /\ p.holdReads \in [Holds -> SUBSET Wires]
    /\ DOMAIN p.bit \subseteq DOMAIN p.order /\ p.drained \subseteq DOMAIN p.bit

(* The bits number the woken passes in the order of the passes.            *)
BitsNumbered(p) ==
    /\ IsFiniteSet(DOMAIN p.bit)
    /\ {p.bit[r] : r \in DOMAIN p.bit} = 0 .. Cardinality(DOMAIN p.bit) - 1
    /\ \A q, r \in DOMAIN p.bit : q < r => p.bit[q] < p.bit[r]

(* Expressions read the elements and wires that the tables list for them.  *)
ReadsListed(p) ==
    /\ \A r \in DOMAIN p.order, e \in Env : \A i \in DOMAIN p.order[r] :
          WireFn(p.order[r][i], e) =
              WireFn(p.order[r][i],
                     Kept(e, Leaves(p, p.dataPage[r]) \cup p.foreign[r]
                                 \cup {p.order[r][j] : j \in 1 .. i - 1}))
    /\ \A w \in Wires \ DOMAIN p.passOf, e \in Env :
          WireFn(w, e) = WireFn(w, Kept(e, Sigs \cup p.lazyDeps[w]))
    /\ \A h \in Holds, e \in Env :
          HoldFn(h, e) = HoldFn(h, Kept(e, Sigs \cup p.holdReads[h] \cup DrainedWires(p)))

(* A changed element that moves a wire bumps its page.  One that moves a   *)
(* lazy wire bumps the data page of the passes that read the wire, and a   *)
(* data page is bumped together with the page of its pass.                 *)
PagesCover(p) ==
    /\ \A w \in Wires, s \in State :
          Settled(s)[w] = Settled(Kept(s, Leaves(p, p.page[w])))[w]
    /\ \A r \in DOMAIN p.order : \A w \in p.foreign[r] \ DOMAIN p.passOf : \A s \in State :
          Settled(s)[w] = Settled(Kept(s, Leaves(p, p.dataPage[r])))[w]
    /\ \A r \in DOMAIN p.order :
          /\ Leaves(p, p.dataPage[r]) \subseteq Leaves(p, p.page[p.order[r][1]])
          /\ \A w \in p.foreign[r] \cap DOMAIN p.passOf :
                Leaves(p, p.page[w]) \subseteq Leaves(p, p.page[p.order[r][1]])

(* A pass is told by the wires of other passes that it reads, and woken by *)
(* the elements it reads; a drained pass reads wires of drained passes.    *)
PassesTold(p) ==
    /\ \A r \in DOMAIN p.order :
          /\ p.foreign[r] \cap InPass(p, r) = {}
          /\ \A w \in p.foreign[r] \cap DOMAIN p.passOf : r \in p.consumers[w]
    /\ \A w \in DOMAIN p.passOf : \A r \in p.consumers[w] : w \in p.foreign[r]
    /\ \A r \in DOMAIN p.bit : \A x \in Leaves(p, p.dataPage[r]) : r \in p.leafPasses[x]
    /\ \A r \in p.drained : \A w \in p.foreign[r] : w \in DrainedWires(p) /\ p.passOf[w] < r

(* What a hold does follows from the elements that wake it and from the    *)
(* wires it is cut at, and these are compared wires of woken passes.       *)
HoldsCut(p) ==
    /\ \A w \in DOMAIN p.passOf : p.cutHolds[w] # {} => w \in Scalar /\ p.passOf[w] \in DOMAIN p.bit
    /\ \A h \in Holds, s, t \in State :
          /\ \A x \in Sigs : h \in p.leafHolds[x] => s[x] = t[x]
          /\ \A w \in DOMAIN p.passOf : h \in p.cutHolds[w] => Settled(s)[w] = Settled(t)[w]
          => HoldFn(h, Settled(s)) = HoldFn(h, Settled(t))

(* What a call of w evaluates first, and the wires all of whose calls stay *)
(* among the passes up to bit n.                                           *)
Needs(p, w) == IF w \in DOMAIN p.passOf THEN p.foreign[p.passOf[w]] ELSE p.lazyDeps[w]
CallsUpTo(p, n) ==
    UNION {D \in SUBSET Wires : \A w \in D :
              /\ Needs(p, w) \subseteq D
              /\ w \in DOMAIN p.passOf /\ p.passOf[w] \in DOMAIN p.bit => p.bit[p.passOf[w]] <= n}

(* A pass reads wires of earlier passes only, and if it is woken they are; *)
(* what a woken pass calls, through lazy wires too, stays among the woken  *)
(* passes before it.  This holds of the default grouping, but not of every *)
(* grouping that FLASHSIM_EAGER_RE can ask for.                            *)
Ascending(p) ==
    /\ \A r \in DOMAIN p.order : \A w \in p.foreign[r] \cap DOMAIN p.passOf :
          p.passOf[w] < r /\ (r \in DOMAIN p.bit => p.passOf[w] \in DOMAIN p.bit)
    /\ \A r \in DOMAIN p.bit : p.order[r][1] \in CallsUpTo(p, p.bit[r])
=============================================================================
