------------------------------ MODULE SkipPlan ------------------------------
(***************************************************************************)
(* The tables emit_cpp computes from the assignment graph of a module:     *)
(* which state elements a wire depends on, which page stamps it, which     *)
(* pages and holds a changed element disturbs.                             *)
(***************************************************************************)
EXTENDS AssignGraph

CONSTANTS
    Reads,     \* Reads[n]: the names in the expression assigned to n
    Cached,    \* the assigned names that get a skip cache
    StmtIds,   \* StmtIds[h]: names in the conditions and values of hold h
    GateIds,   \* GateIds[h]: those in its top-level conditions and values
    Inline     \* _BUMP_INLINE: longest page list bumped without a table

(* What the frontends deliver: names are assigned once, and the reads of   *)
(* an assignment are known names.                                          *)
GraphOK ==
    /\ Cached \subseteq Assigned /\ Inline \in Nat
    /\ \A n \in Assigned : Reads[n] \subseteq Names

(* Every name reached from S by expanding only the names in Open.          *)
Closure(S, Open) ==
    LET step[i \in 0 .. Cardinality(Assigned)] ==
            IF i = 0 THEN S
            ELSE LET reached == step[i - 1]
                 IN  reached \cup UNION {Reads[n] : n \in reached \cap Open}
    IN  step[Cardinality(Assigned)]

(* A cone cut at the caches: only what a wire reads itself.                *)
OwnLeaves(n) == Closure({n} \cup (IF n \in Stop THEN {} ELSE Reads[n]),
                        Assigned \ Cached) \cap Stop

(* What cone_leaves finds: the state elements below a name.                *)
ConeLeaves(n) == Closure({n}, Assigned) \cap Stop
LeavesBelow(names) == UNION {ConeLeaves(n) : n \in names}

(* The nearest cached wires at or below the names.                         *)
CachedBelow(names) == Closure(names, Assigned \ Cached) \cap Cached

(* What cached_deps finds: the caches an eval_ method refreshes first.     *)
CachedDeps == [w \in Cached |-> CachedBelow(Reads[w]) \ {w}]

(* _partition_maps, at most 128 caches: wires with the same leaves share a *)
(* page, and a page is named by that set of leaves.                        *)
WirePart == [w \in Cached |-> ConeLeaves(w)]
PageSet == {WirePart[w] : w \in Cached}
LeafPartsOf == [x \in Stop |-> {p \in PageSet : x \in p}]

(* _invalidation_tables: page lists too long to bump inline.               *)
InvalidationTables ==
    {t \in {LeafPartsOf[x] : x \in Stop} : Cardinality(t) > Inline}

(* leaf_holds from _stmt_stop_leaves: condition and data path leaves.      *)
LeafHoldsOf == [x \in Stop |->
    {h \in DOMAIN StmtIds : x \in LeavesBelow(StmtIds[h])}]
GateReadsOf == [h \in DOMAIN GateIds |-> CachedBelow(GateIds[h])]
=============================================================================
