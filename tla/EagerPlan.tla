------------------------------ MODULE EagerPlan ------------------------------
(***************************************************************************)
(* The tables emit_cpp computes for a module with more than 128 cached     *)
(* wires: regions of wires that are evaluated eagerly, cut into passes of  *)
(* one leaf set each, the pages that stamp them, what wakes a pass, which  *)
(* passes the worklist of tick_nba can run without their dependencies, and *)
(* the holds a pass wakes itself.                                          *)
(*                                                                         *)
(* A grouping gives every wire that FLASHSIM_EAGER_RE matches the rank of  *)
(* its match; by default all wires match with one empty key.               *)
(***************************************************************************)
EXTENDS SkipPlan, SequencesExt

CONSTANTS
    NameRank,  \* position of a name in sorted order
    SkipKey,   \* skip_partition_key of a cached wire, as a number from 1
    ScalarIds  \* cached wires of at most 128 bits that are not arrays

UsersOf == [w \in Cached |-> {u \in Cached : w \in CachedDeps[u]}]

(* The members of S in the order R, a set of pairs.                        *)
InOrder(S, R) ==
    [i \in 1 .. Cardinality(S) |->
        CHOOSE x \in S : Cardinality({y \in S : <<y, x>> \in R}) = i - 1]
ByRank(names) == CHOOSE n \in names : \A m \in names : NameRank[n] <= NameRank[m]

-----------------------------------------------------------------------------
(* _eager_regions *)

(* What following `next` from a region reaches without entering it.        *)
Outside(region, next) ==
    LET step[i \in 0 .. Cardinality(Cached)] ==
            IF i = 0 THEN (UNION {next[w] : w \in region}) \ region
            ELSE LET reached == step[i - 1]
                 IN  reached \cup ((UNION {next[w] : w \in reached}) \ region)
    IN  step[Cardinality(Cached)]

(* close: a wire that feeds the region and reads it is pulled in.          *)
Close(region) ==
    LET step[i \in 0 .. Cardinality(Cached)] ==
            IF i = 0 THEN region
            ELSE LET grown == step[i - 1]
                 IN  grown \cup (Outside(grown, CachedDeps) \cap Outside(grown, UsersOf))
    IN  step[Cardinality(Cached)]

Feeds(a, b) == \E w \in b : CachedDeps[w] \cap a # {}
Entangled(a, b) == a \cap b # {} \/ (Feeds(a, b) /\ Feeds(b, a))

(* Merge the first two regions that share a wire or read each other.       *)
MergeFirst(sets) ==
    LET pairs == {p \in (DOMAIN sets) \X (DOMAIN sets) :
                     p[1] < p[2] /\ Entangled(sets[p[1]], sets[p[2]])}
        first == CHOOSE p \in pairs :
                    \A q \in pairs : p[1] < q[1] \/ (p[1] = q[1] /\ p[2] <= q[2])
    IN  IF pairs = {} THEN sets
        ELSE RemoveAt([sets EXCEPT ![first[1]] = Close(@ \cup sets[first[2]])], first[2])

RegionsOf(grouping) ==
    LET ranks == {grouping[w] : w \in DOMAIN grouping}
        keys  == InOrder(ranks, {p \in ranks \X ranks : p[1] < p[2]})
        seeds == [i \in DOMAIN keys |->
                    Close({w \in DOMAIN grouping : grouping[w] = keys[i]})]
        step[i \in 0 .. Len(keys)] == IF i = 0 THEN seeds ELSE MergeFirst(step[i - 1])
    IN  step[Len(keys)]

(* Sets of one size in the order of their sorted contents.                 *)
SortedByName(a, b) ==
    a # b /\ LET apart == (a \ b) \cup (b \ a) IN ByRank(apart) \in a

(* _ordered_leaf_sets: by size, then by sorted contents.                   *)
SmallerFirst(a, b) ==
    \/ Cardinality(a) < Cardinality(b)
    \/ Cardinality(a) = Cardinality(b) /\ SortedByName(a, b)

(* The caches below a wire; a dependency has fewer than its reader.        *)
CachesUnder(w) == Closure(Reads[w], Assigned) \cap Cached
DepsFirst(v, w) ==
    \/ Cardinality(CachesUnder(v)) < Cardinality(CachesUnder(w))
    \/ Cardinality(CachesUnder(v)) = Cardinality(CachesUnder(w)) /\ NameRank[v] < NameRank[w]

(* One pass per leaf set, its wires in a topological order.                *)
PassesOfRegion(region) ==
    LET sets == {ConeLeaves(w) : w \in region}
        leafSets == InOrder(sets, {p \in sets \X sets : SmallerFirst(p[1], p[2])})
        having(leaves) == {w \in region : ConeLeaves(w) = leaves}
    IN  [i \in DOMAIN leafSets |->
            LET ws == having(leafSets[i])
            IN  InOrder(ws, {p \in ws \X ws : DepsFirst(p[1], p[2])})]

PassesOf(grouping) ==
    FlattenSeq([i \in DOMAIN RegionsOf(grouping) |-> PassesOfRegion(RegionsOf(grouping)[i])])

-----------------------------------------------------------------------------
(* What emit_cpp derives from the passes, pass r being passes[r].          *)

EagerOf(passes) ==
    [w \in UNION {Range(passes[r]) : r \in DOMAIN passes} |->
        CHOOSE r \in DOMAIN passes : w \in Range(passes[r])]

(* cached_deps of a pass that are not its own wires.                       *)
ForeignOf(order) == (UNION {CachedDeps[w] : w \in Range(order)}) \ Range(order)

(* _pass_inputs: leaves read other than through another pass, lazy caches  *)
(* standing for all leaves below them, and the passes that read a wire.    *)
PassDirect(passes, r) ==
    LET eager == DOMAIN EagerOf(passes) IN
    (UNION {OwnLeaves(w) : w \in Range(passes[r])})
        \cup (UNION {ConeLeaves(l) : l \in ForeignOf(passes[r]) \ eager})
PassConsumers(passes, w) == {r \in DOMAIN passes : w \in ForeignOf(passes[r])}

(* The wires whose movement wakes the holds that read them.                *)
CutWires(passes) == DOMAIN EagerOf(passes) \cap ScalarIds

(* _stmt_cut_leaves: a cone that ends at the cut wires.                    *)
CutCone(passes, h) == Closure(StmtIds[h], Assigned \ CutWires(passes))
LeafHoldsCut(passes, x) == {h \in DOMAIN StmtIds : x \in CutCone(passes, h)}
RegionHolds(passes, w) ==
    {h \in DOMAIN StmtIds : w \in CutCone(passes, h) \cap CutWires(passes)}

(* Passes that reach a hold-facing wire, decided from the last backwards.  *)
Woken(passes) ==
    LET above[r \in 1 .. Len(passes) + 1] ==
            IF r > Len(passes) THEN {}
            ELSE LET later == above[r + 1]
                 IN  IF \E w \in Range(passes[r]) :
                            \/ RegionHolds(passes, w) # {}
                            \/ PassConsumers(passes, w) \cap later # {}
                     THEN later \cup {r} ELSE later
    IN  above[1]

PassBit(passes) == [r \in Woken(passes) |-> Cardinality({q \in Woken(passes) : q < r})]

(* _drained_regions: woken passes all of whose foreign dependencies are in *)
(* earlier drained passes.                                                 *)
DrainedOf(passes) ==
    LET eager == EagerOf(passes)
        upTo[r \in 0 .. Len(passes)] ==
            IF r = 0 THEN {}
            ELSE LET earlier == upTo[r - 1]
                 IN  IF /\ r \in Woken(passes)
                        /\ \A d \in ForeignOf(passes[r]) :
                                d \in DOMAIN eager /\ eager[d] \in earlier
                     THEN earlier \cup {r} ELSE earlier
    IN  upTo[Len(passes)]

(* _partition_maps: a page for each pass and for each skip key of the lazy *)
(* wires; after them a page for what each pass reads itself.               *)
StampPage(passes, w) ==
    IF w \in DOMAIN EagerOf(passes) THEN EagerOf(passes)[w] ELSE 2 * Len(passes) + SkipKey[w]
DataPage(passes, r) == Len(passes) + r
LeafPages(passes, x) ==
    {StampPage(passes, w) : w \in {c \in Cached : x \in ConeLeaves(c)}}
        \cup {DataPage(passes, r) : r \in {q \in DOMAIN passes : x \in PassDirect(passes, q)}}

(* _EAGER_DONE: holds take the wires of drained passes as they are.        *)
HoldDemands(passes, h) ==
    CachedBelow(StmtIds[h])
        \ {w \in DOMAIN EagerOf(passes) : EagerOf(passes)[w] \in DrainedOf(passes)}

TablesOf(passes) ==
    LET eager  == EagerOf(passes)
    IN  [order      |-> passes,
         passOf     |-> eager,
         foreign    |-> [r \in DOMAIN passes |-> ForeignOf(passes[r])],
         lazyDeps   |-> CachedDeps,
         page       |-> [w \in Cached |-> StampPage(passes, w)],
         dataPage   |-> [r \in DOMAIN passes |-> DataPage(passes, r)],
         pages      |-> (UNION {LeafPages(passes, x) : x \in Stop})
                          \cup {StampPage(passes, w) : w \in Cached}
                          \cup {DataPage(passes, r) : r \in DOMAIN passes},
         leafPages  |-> [x \in Stop |-> LeafPages(passes, x)],
         leafHolds  |-> [x \in Stop |-> LeafHoldsCut(passes, x)],
         leafPasses |-> [x \in Stop |->
                            {r \in Woken(passes) : x \in PassDirect(passes, r)}],
         cutHolds   |-> [w \in DOMAIN eager |-> RegionHolds(passes, w)],
         consumers  |-> [w \in DOMAIN eager |-> PassConsumers(passes, w)],
         bit        |-> PassBit(passes),
         drained    |-> DrainedOf(passes),
         holdReads  |-> [h \in DOMAIN StmtIds |-> HoldDemands(passes, h)]]

PlanOf(grouping) == TablesOf(PassesOf(grouping))
=============================================================================
