---------------------------- MODULE BuildCacheProofs ----------------------------
(***************************************************************************)
(* What a build emits and links is of that build, for any designs,         *)
(* versions, requests and number of shards, whatever builds went before it *)
(* and wherever they failed or were broken off.  One invariant: the cache  *)
(* on disk describes itself whenever no build is in the middle of it, and  *)
(* an object that is not older than its shard was compiled from it.        *)
(***************************************************************************)
EXTENDS BuildCache, TLAPS

TypeInv ==
    /\ content \in [Designs -> AllVersions]
    /\ mlir \in Mlirs \union {None}
    /\ header \in Mlirs \union {None}
    /\ text = [k \in Shards |-> text[k]] /\ obj = [k \in Shards |-> obj[k]]
    /\ req \in Requests /\ read \in AllVersions /\ left \subseteq Shards

-----------------------------------------------------------------------------
(* The MLIR cache. *)

\* A cache made without checks is of the sources as they are, unless they are newer.
TimesTell ==
    mlir # None /\ ~mlir.checks /\ mlir.design \notin newer => mlir.version = content[mlir.design]

\* Outside the writing of the sidecars they describe hw.mlir.
SidecarsTell ==
    stage \notin {"top", "flag", "prints"} /\ mlir # None =>
        /\ top = Stem[mlir.design] /\ checked = mlir.checks
        /\ mlir.checks => prints = [design |-> mlir.design, version |-> mlir.version]

\* While they are written, they describe it so far.
SidecarsSoFar ==
    /\ stage \in {"top", "flag", "prints"} => mlir = Made(req.design, read, req.checks)
    /\ stage \in {"flag", "prints"} => top = Stem[req.design]
    /\ stage = "prints" => req.checks /\ checked = req.checks

\* What CIRCT read is no older than the build, and without checks nothing changed since.
ReadIsCurrent ==
    /\ stage # "idle" => content[req.design] \in seen
    /\ stage \in {"mlir", "top", "flag", "prints"} =>
            read \in seen /\ (~req.checks => read = content[req.design])

IsRequested(m) ==
    m \in Mlirs /\ m.design = req.design /\ m.checks = req.checks /\ m.version \in seen

CacheInv ==
    /\ TimesTell /\ SidecarsTell /\ SidecarsSoFar /\ ReadIsCurrent
    /\ stage \in {"parse", "header"} => IsRequested(mlir)
    /\ Emitted => IsRequested(header)
    /\ stage # "missing"

-----------------------------------------------------------------------------
(* The shards and their objects. *)

\* The shards on disk are those of the header, as far as they are written.
ShardsInv ==
    /\ stage \in {"shards", "reuse", "objects", "link"} => header \in Mlirs
    /\ stage \in {"top", "flag", "prints", "parse", "header"} => mlir \in Mlirs
    /\ stage = "shards" => \A k \in 1 .. req.split \ left : text[k] = TextOf(k, req.split)
    /\ stage \in {"reuse", "objects", "link"} =>
            /\ Present = 1 .. req.split
            /\ \A k \in Present : text[k] = TextOf(k, req.split)

IsOf(k, flags) == obj[k].text = text[k] /\ obj[k].header = header /\ obj[k].flags \in flags

\* The flags that an object of an earlier build, or of this one, may have.
Building == IF stage = "objects" THEN {req.flags} ELSE {}

KeptInv ==
    \A k \in Present : obj[k] # None /\ k \notin older => IsOf(k, {stamp} \union broken \union Building)

ObjectsInv ==
    /\ stage = "objects" /\ ~failed => \A k \in Present \ left : IsOf(k, {req.flags})
    /\ stage = "link" => \A k \in Present : IsOf(k, {req.flags} \union broken)

LinkInv == ShardsInv /\ KeptInv /\ ObjectsInv
-----------------------------------------------------------------------------
(* Proofs. *)

\* Steps keep the files what they can be.
LEMMA TypeStep ==
    ASSUME TypeInv, [Next]_vars
    PROVE  TypeInv'
  <1> USE BuildAssumption DEF TypeInv
  <1>1. ASSUME NEW r \in Requests, Start(r) PROVE TypeInv'
    BY <1>1 DEF Start, cacheFiles, outFiles, objFiles, Goto
  <1>2. CASE Check
    BY <1>2 DEF Check, cacheFiles, outFiles, objFiles, Goto, AllVersions
  <1>3. CASE RunCirct
    BY <1>3 DEF RunCirct, cacheFiles, outFiles, objFiles, Goto, AllVersions
  <1>4. CASE WriteMlir
    BY <1>4 DEF WriteMlir, cacheFiles, outFiles, objFiles, Goto, Made, Mlirs
  <1>5. CASE WriteTop
    BY <1>5 DEF WriteTop, cacheFiles, outFiles, objFiles, Goto
  <1>6. CASE WriteFlag
    BY <1>6 DEF WriteFlag, cacheFiles, outFiles, objFiles, Goto
  <1>7. CASE WritePrints
    BY <1>7 DEF WritePrints, cacheFiles, outFiles, objFiles, Goto
  <1>8. CASE Parse
    BY <1>8 DEF Parse, cacheFiles, outFiles, objFiles, Goto
  <1>9. CASE WriteHeader
    BY <1>9 DEF WriteHeader, cacheFiles, outFiles, objFiles, Goto, Shards
  <1>10. CASE WriteShard
    BY <1>10 DEF WriteShard, cacheFiles, outFiles, objFiles, Goto
  <1>11. CASE Unlink
    BY <1>11 DEF Unlink, cacheFiles, outFiles, objFiles, Goto
  <1>12. CASE DecideReuse
    BY <1>12 DEF DecideReuse, cacheFiles, outFiles, objFiles, Goto, Present
  <1>13. CASE WriteStamp
    BY <1>13 DEF WriteStamp, cacheFiles, outFiles, objFiles, Goto
  <1>14. CASE GiveUp
    BY <1>14 DEF GiveUp, cacheFiles, outFiles, objFiles, Goto
  <1>15. CASE Link
    BY <1>15 DEF Link, cacheFiles, outFiles, objFiles, Goto
  <1>16. ASSUME NEW k \in Shards, CompileShard(k) PROVE TypeInv'
    BY <1>16 DEF CompileShard, cacheFiles, outFiles, objFiles, Goto
  <1>17. ASSUME NEW k \in Shards, FailShard(k) PROVE TypeInv'
    BY <1>17 DEF FailShard, cacheFiles, outFiles, objFiles, Goto
  <1>18. ASSUME NEW d \in Designs, NEW version \in Versions[d], Edit(d, version) PROVE TypeInv'
    BY <1>18 DEF Edit, cacheFiles, outFiles, objFiles, Goto, AllVersions
  <1>19. CASE BreakOff
    BY <1>19 DEF BreakOff, cacheFiles, outFiles, objFiles, Goto
  <1>20. CASE UNCHANGED vars
    BY <1>20 DEF vars, cacheFiles, outFiles, objFiles, cacheFiles, outFiles, objFiles, Goto
  <1> QED BY <1>1, <1>2, <1>3, <1>4, <1>5, <1>6, <1>7, <1>8, <1>9, <1>10, <1>11, <1>12, <1>13, <1>14, <1>15, <1>16, <1>17, <1>18, <1>19, <1>20 DEF Next
\* A build, an edit and a build that breaks off keep the cache describing itself.
LEMMA CacheStep ==
    ASSUME StemsDiffer, SidecarsFollow, TypeInv, CacheInv, [Next]_vars
    PROVE  CacheInv'
  <1> USE BuildAssumption DEF TypeInv, CacheInv, TimesTell, SidecarsTell, SidecarsSoFar, ReadIsCurrent,
          IsRequested, Emitted, Made, Mlirs, AllVersions
  <1>1. ASSUME NEW r \in Requests, Start(r) PROVE CacheInv'
    BY <1>1 DEF Start, cacheFiles, outFiles, objFiles, Goto
  <1>2. CASE Check
    BY <1>2 DEF Check, cacheFiles, outFiles, objFiles, Goto, Fresh, Matches, Fingerprint, StemsDiffer
  <1>3. CASE RunCirct
    BY <1>3 DEF RunCirct, cacheFiles, outFiles, objFiles, Goto
  <1>4. CASE WriteMlir
    BY <1>4 DEF WriteMlir, cacheFiles, outFiles, objFiles, Goto
  <1>5. CASE WriteTop
    BY <1>5 DEF WriteTop, cacheFiles, outFiles, objFiles, Goto
  <1>6. CASE WriteFlag
    BY <1>6 DEF WriteFlag, cacheFiles, outFiles, objFiles, Goto
  <1>7. CASE WritePrints
    BY <1>7 DEF WritePrints, cacheFiles, outFiles, objFiles, Goto
  <1>8. CASE Parse
    BY <1>8 DEF Parse, cacheFiles, outFiles, objFiles, Goto, StemsDiffer
  <1>9. CASE WriteHeader
    BY <1>9 DEF WriteHeader, cacheFiles, outFiles, objFiles, Goto
  <1>10. CASE WriteShard
    BY <1>10 DEF WriteShard, cacheFiles, outFiles, objFiles, Goto
  <1>11. CASE Unlink
    BY <1>11 DEF Unlink, cacheFiles, outFiles, objFiles, Goto
  <1>12. CASE DecideReuse
    BY <1>12 DEF DecideReuse, cacheFiles, outFiles, objFiles, Goto
  <1>13. CASE WriteStamp
    BY <1>13 DEF WriteStamp, cacheFiles, outFiles, objFiles, Goto
  <1>14. CASE GiveUp
    BY <1>14 DEF GiveUp, cacheFiles, outFiles, objFiles, Goto
  <1>15. CASE Link
    BY <1>15 DEF Link, cacheFiles, outFiles, objFiles, Goto
  <1>16. ASSUME NEW k \in Shards, CompileShard(k) PROVE CacheInv'
    BY <1>16 DEF CompileShard, cacheFiles, outFiles, objFiles, Goto
  <1>17. ASSUME NEW k \in Shards, FailShard(k) PROVE CacheInv'
    BY <1>17 DEF FailShard, cacheFiles, outFiles, objFiles, Goto
  <1>18. ASSUME NEW d \in Designs, NEW version \in Versions[d], Edit(d, version) PROVE CacheInv'
    BY <1>18 DEF Edit, cacheFiles, outFiles, objFiles, Goto
  <1>19. CASE BreakOff
    BY <1>19 DEF BreakOff, cacheFiles, outFiles, objFiles, Goto, SidecarsFollow
  <1>20. CASE UNCHANGED vars
    BY <1>20 DEF vars, cacheFiles, outFiles, objFiles
  <1> QED BY <1>1, <1>2, <1>3, <1>4, <1>5, <1>6, <1>7, <1>8, <1>9, <1>10, <1>11, <1>12, <1>13, <1>14, <1>15, <1>16, <1>17, <1>18, <1>19, <1>20 DEF Next

\* What is written to a shard is a text, and never the mark of a missing one.
LEMMA TextOfIsText ==
    ASSUME header \in Mlirs, req \in Requests, NEW k
    PROVE  TextOf(k, req.split) \in Texts /\ TextOf(k, req.split) # None
  <1>1. req.split \in 1 .. MaxShards
    BY BuildAssumption
  <1>2. [header EXCEPT !.version = 0] \in [design : Designs, version : AllVersions \union {0}, checks : BOOLEAN]
    BY DEF Mlirs
  <1>3. header \in [design : Designs, version : AllVersions \union {0}, checks : BOOLEAN]
    BY DEF Mlirs
  <1>4. TextOf(k, req.split) \in Texts
    BY <1>1, <1>2, <1>3 DEF TextOf, Texts
  <1> QED BY <1>4, BuildAssumption

\* No step leaves an object newer than a shard that it is not compiled from.
LEMMA LinkStep ==
    ASSUME TypeInv, LinkInv, [Next]_vars
    PROVE  LinkInv'
  <1> USE BuildAssumption DEF TypeInv, LinkInv, ShardsInv, KeptInv, ObjectsInv, IsOf, Building, Present,
          TextOf, Shards
  <1>1. ASSUME NEW r \in Requests, Start(r) PROVE LinkInv'
    BY <1>1 DEF Start, cacheFiles, outFiles, objFiles, Goto
  <1>2. CASE Check
    BY <1>2 DEF Check, cacheFiles, outFiles, objFiles, Goto, Fresh
  <1>3. CASE RunCirct
    BY <1>3 DEF RunCirct, cacheFiles, outFiles, objFiles, Goto
  <1>4. CASE WriteMlir
    BY <1>4 DEF WriteMlir, cacheFiles, outFiles, objFiles, Goto, Made, Mlirs
  <1>5. CASE WriteTop
    BY <1>5 DEF WriteTop, cacheFiles, outFiles, objFiles, Goto
  <1>6. CASE WriteFlag
    BY <1>6 DEF WriteFlag, cacheFiles, outFiles, objFiles, Goto
  <1>7. CASE WritePrints
    BY <1>7 DEF WritePrints, cacheFiles, outFiles, objFiles, Goto
  <1>8. CASE Parse
    BY <1>8 DEF Parse, cacheFiles, outFiles, objFiles, Goto
  <1>9. CASE WriteHeader
    BY <1>9 DEF WriteHeader, cacheFiles, outFiles, objFiles, Goto
  <1>10. CASE WriteShard
    <2> DEFINE k == Min(left)
               t == TextOf(k, req.split)
    <2>1. /\ text' = [text EXCEPT ![k] = t]
          /\ older' = IF text'[k] = text[k] THEN older ELSE older \union {k}
          /\ left' = left \ {k}
      BY <1>10 DEF WriteShard
    <2>2. UNCHANGED <<mlir, header, obj, stamp, broken, req, stage, failed>> /\ stage = "shards"
      BY <1>10 DEF WriteShard, cacheFiles
    <2> HIDE DEF k, t
    <2>3. \A j \in Shards : text'[j] = text[j] \/ (j = k /\ text'[j] = t /\ j \in older')
      BY <2>1
    <2>4. older \subseteq older'
      BY <2>1
    <2>5. KeptInv'
      BY <2>2, <2>3, <2>4
    <2>6. \A j \in 1 .. req.split \ left' : text'[j] = TextOf(j, req.split)
      <3>1. 1 .. req.split \subseteq Shards
        OBVIOUS
      <3>2. TextOf(k, req.split) = t
        BY DEF t
      <3>3. k \in Shards => text'[k] = t
        BY <2>1
      <3>4. \A j \in 1 .. req.split \ left : text[j] = TextOf(j, req.split)
        BY <2>2
      <3> HIDE DEF TextOf
      <3> QED BY <2>1, <2>3, <3>1, <3>2, <3>3, <3>4
    <2> HIDE DEF KeptInv
    <2> QED BY <2>2, <2>5, <2>6
  <1>11. CASE Unlink
    <2>1. /\ text' = [k \in Shards |-> IF k \in 1 .. req.split THEN text[k] ELSE None]
          /\ UNCHANGED <<mlir, header, obj, older, stamp, broken, req, failed>>
          /\ stage = "shards" /\ left = {} /\ stage' = "reuse"
      BY <1>11 DEF Unlink, cacheFiles, objFiles, Goto
    <2>2. \A k \in 1 .. req.split : k \in Shards /\ text'[k] = TextOf(k, req.split) /\ text'[k] # None
      <3>1. 1 .. req.split \subseteq Shards
        OBVIOUS
      <3>2. \A k \in 1 .. req.split : text[k] = TextOf(k, req.split)
        BY <2>1
      <3>3. header \in Mlirs /\ req \in Requests
        BY <2>1
      <3> HIDE DEF TextOf, TypeInv, LinkInv
      <3>4. \A k \in 1 .. req.split : text'[k] = text[k]
        BY <2>1, <3>1
      <3> QED BY <3>1, <3>2, <3>3, <3>4, TextOfIsText
    <2>3. \A k \in Shards : k \notin 1 .. req.split => text'[k] = None
      BY <2>1
    <2>4. Present' = 1 .. req.split
      BY <2>2, <2>3
    <2>5. KeptInv'
      BY <2>1, <2>4
    <2>6. ShardsInv'
      <3> HIDE DEF TextOf, Present
      <3>1. \A k \in Present' : text'[k] = TextOf(k, req.split)
        BY <2>2, <2>4
      <3>2. \A k, n : TextOf(k, n)' = TextOf(k, n)
        BY <2>1 DEF TextOf
      <3> QED BY <2>1, <2>4, <3>1, <3>2
    <2> HIDE DEF KeptInv, ShardsInv
    <2> QED BY <2>1, <2>5, <2>6
  <1>12. CASE DecideReuse
    BY <1>12 DEF DecideReuse, cacheFiles, outFiles, objFiles, Goto, CanReuse
  <1>13. CASE WriteStamp
    BY <1>13 DEF WriteStamp, cacheFiles, outFiles, objFiles, Goto
  <1>14. CASE GiveUp
    BY <1>14 DEF GiveUp, cacheFiles, outFiles, objFiles, Goto
  <1>15. CASE Link
    BY <1>15 DEF Link, cacheFiles, outFiles, objFiles, Goto
  <1>16. ASSUME NEW k \in Shards, CompileShard(k) PROVE LinkInv'
    BY <1>16 DEF CompileShard, cacheFiles, outFiles, objFiles, Goto
  <1>17. ASSUME NEW k \in Shards, FailShard(k) PROVE LinkInv'
    BY <1>17 DEF FailShard, cacheFiles, outFiles, objFiles, Goto
  <1>18. ASSUME NEW d \in Designs, NEW version \in Versions[d], Edit(d, version) PROVE LinkInv'
    BY <1>18 DEF Edit, cacheFiles, outFiles, objFiles, Goto
  <1>19. CASE BreakOff
    BY <1>19 DEF BreakOff, cacheFiles, outFiles, objFiles, Goto
  <1>20. CASE UNCHANGED vars
    BY <1>20 DEF vars, cacheFiles, outFiles, objFiles
  <1> QED BY <1>1, <1>2, <1>3, <1>4, <1>5, <1>6, <1>7, <1>8, <1>9, <1>10, <1>11, <1>12, <1>13, <1>14, <1>15, <1>16, <1>17, <1>18, <1>19, <1>20 DEF Next

-----------------------------------------------------------------------------
(* Theorems. *)

\* An empty output directory satisfies all of it.
LEMMA StartsTyped == Init => TypeInv /\ LinkInv /\ CacheInv
  <1> SUFFICES ASSUME Init PROVE TypeInv /\ LinkInv /\ CacheInv
    OBVIOUS
  <1>1. TypeInv
    <2>1. content \in [Designs -> AllVersions]
      <3>1. \A d \in Designs : (CHOOSE v \in Versions[d] : TRUE) \in Versions[d]
        BY BuildAssumption
      <3>2. \A d \in Designs : Versions[d] \subseteq AllVersions
        BY DEF AllVersions
      <3> QED BY <3>1, <3>2 DEF Init
    <2>2. req \in Requests /\ read \in AllVersions
      BY <2>1, BuildAssumption DEF Init
    <2> QED BY <2>1, <2>2 DEF Init, TypeInv
  <1>2. LinkInv
    BY DEF Init, LinkInv, ShardsInv, KeptInv, ObjectsInv, Present
  <1>3. CacheInv
    BY DEF Init, CacheInv, TimesTell, SidecarsTell, SidecarsSoFar, ReadIsCurrent, Emitted
  <1> QED BY <1>1, <1>2, <1>3

\* The shards, their objects and the flags are as described in every reachable state.
LEMMA AlwaysLinked == Spec => [](TypeInv /\ LinkInv)
  <1>1. Init => TypeInv /\ LinkInv
    BY StartsTyped
  <1>2. TypeInv /\ LinkInv /\ [Next]_vars => (TypeInv /\ LinkInv)'
    BY TypeStep, LinkStep
  <1> QED BY <1>1, <1>2, PTL DEF Spec

\* Whatever failed or was broken off before, a program is linked from objects of the
\* shards and the header on disk, all of the split that was asked for.
THEOREM LinksCurrentObjects == Spec => []LinkedIsCurrent
  <1>1. TypeInv /\ LinkInv => LinkedIsCurrent
    BY DEF LinkInv, ShardsInv, ObjectsInv, IsOf, LinkedIsCurrent
  <1> QED BY <1>1, AlwaysLinked, PTL

\* The flags of linked objects are those of the build, or of a build that broke off.
THEOREM LinksWithFlags == Spec => []FlagsReach
  <1>1. TypeInv /\ LinkInv => FlagsReach
    BY DEF LinkInv, ObjectsInv, IsOf, FlagsReach
  <1> QED BY <1>1, AlwaysLinked, PTL

\* When no two designs share a stem and no build is broken off while sidecars are
\* written, a build emits the design, the mode and a text that was asked for.
THEOREM EmitsRequested ==
    ASSUME StemsDiffer, SidecarsFollow
    PROVE  Spec => []EmittedIsCurrent
  <1>1. Init => TypeInv /\ CacheInv
    BY StartsTyped
  <1>2. TypeInv /\ CacheInv /\ [Next]_vars => (TypeInv /\ CacheInv)'
    BY TypeStep, CacheStep, StemsDiffer, SidecarsFollow
  <1>3. TypeInv /\ CacheInv => EmittedIsCurrent
    BY DEF CacheInv, IsRequested, EmittedIsCurrent
  <1> QED BY <1>1, <1>2, <1>3, PTL DEF Spec
=============================================================================
