------------------------------- MODULE BuildCache -------------------------------
(***************************************************************************)
(* One output directory through many builds: compile_file reuses or        *)
(* rewrites hw.mlir and its sidecars, writes the header and the shards     *)
(* that changed, and _compile_flash reuses or rebuilds the objects and     *)
(* links them.  Between builds sources are edited; a build may be broken   *)
(* off, and a shard may fail to compile.                                   *)
(*                                                                         *)
(* File times are compared only with each other, so the module keeps which *)
(* files are newer than which.  A design stands for all its sources.       *)
(***************************************************************************)
EXTENDS Naturals, FiniteSets, FiniteSetsExt

CONSTANTS
    Designs,        \* Verilog tops, each in a directory of its own
    Stem,           \* design -> the name of its file without suffix
    Versions,       \* design -> what its sources may contain
    MaxShards,      \* shards a header is split into, at most
    Requests,       \* builds: [design, checks, flags, split]
    Strikes,        \* stages at which a build may be broken off
    EditStages,     \* stages during which sources may be edited
    None

AllVersions == UNION {Versions[d] : d \in Designs}

\* hw.mlir, and what a shard may hold.
Mlirs == [design : Designs, version : AllVersions, checks : BOOLEAN]
Texts == [of : [design : Designs, version : AllVersions \union {0}, checks : BOOLEAN],
          split : 1 .. MaxShards]

ASSUME BuildAssumption ==
    /\ MaxShards \in Nat /\ None \notin Texts
    /\ Requests \subseteq [design : Designs, checks : BOOLEAN, flags : {r.flags : r \in Requests},
                           split : 1 .. MaxShards]
    /\ DOMAIN Stem = Designs /\ DOMAIN Versions = Designs
    /\ \A d \in Designs : Versions[d] # {}

VARIABLES
    content,        \* design -> what its sources contain
    newer,          \* designs edited since hw.mlir was written
    mlir,           \* hw.mlir: what CIRCT made of which sources
    top,            \* hw.mlir.top
    checked,        \* hw.mlir.assertions
    prints,         \* hw.mlir.assertion-sources.json
    header,         \* dut.h, named by the MLIR it was emitted from
    text,           \* shard -> dut_k.cpp
    obj,            \* shard -> dut_k.o: what it was compiled from, and how
    older,          \* shards whose object is older than its shard or than the header
    stamp,          \* .flashsim_shards.flags
    stage,          \* where the build is
    req,            \* its request
    read,           \* the sources as CIRCT read them, before that as they were fingerprinted
    seen,           \* contents of the design since the build began
    left,           \* shards still to be written or compiled
    failed,         \* a shard did not compile
    broken          \* flags of the builds that broke off since objects were last complete

cacheFiles == <<mlir, top, checked, prints>>
outFiles == <<header, text>>
objFiles == <<obj, older, stamp, broken>>
vars == <<content, newer, cacheFiles, outFiles, objFiles, stage, req, read, seen, left, failed>>

Shards == 1 .. MaxShards

\* What is compared byte for byte: the MLIR of a design, and the shards of a split, of
\* which an edit of the sources changes the first and the header.
Made(d, version, checks) == [design |-> d, version |-> version, checks |-> checks]
Fingerprint(d) == [design |-> d, version |-> content[d]]
TextOf(k, n) == [of |-> IF k = 1 THEN header ELSE [header EXCEPT !.version = 0], split |-> n]

-----------------------------------------------------------------------------
(* compile_verilog *)

Start(r) ==
    /\ stage = "idle"
    /\ stage' = "check" /\ req' = r /\ seen' = {content[r.design]}
    /\ failed' = FALSE
    /\ UNCHANGED <<content, newer, cacheFiles, outFiles, objFiles, read, left>>

\* Bug: file times stand in for the fingerprints of a build with checks.
FreshByTime == mlir # None /\ req.design \notin newer

\* _mlir_fresh
Fresh ==
    /\ mlir # None
    /\ IF req.checks THEN prints = Fingerprint(req.design) ELSE req.design \notin newer

\* _mlir_matches
Matches == checked = req.checks /\ top = Stem[req.design]

Goto(s) == stage' = s

Check ==
    /\ stage = "check"
    /\ IF Fresh /\ Matches THEN Goto("parse") /\ UNCHANGED read
       ELSE Goto("circt") /\ read' = content[req.design]
    /\ UNCHANGED <<content, newer, cacheFiles, outFiles, objFiles, req, seen, left, failed>>

\* circt_verilog_to_mlir; with checks, inputs that changed since the fingerprint are an
\* error.  That they change and change back while CIRCT runs is left out.
RunCirct ==
    /\ stage = "circt"
    /\ read' = content[req.design]
    /\ Goto(IF req.checks /\ read' # read THEN "idle" ELSE "mlir")
    /\ UNCHANGED <<content, newer, cacheFiles, outFiles, objFiles, req, seen, left, failed>>

WriteMlir ==
    /\ stage = "mlir" /\ Goto("top")
    /\ mlir' = Made(req.design, read, req.checks)
    /\ newer' = {}
    /\ UNCHANGED <<content, top, checked, prints, outFiles, objFiles, req, read, seen, left, failed>>

WriteTop ==
    /\ stage = "top" /\ Goto("flag")
    /\ top' = Stem[req.design]
    /\ UNCHANGED <<content, newer, mlir, checked, prints, outFiles, objFiles, req, read, seen, left, failed>>

WriteFlag ==
    /\ stage = "flag" /\ Goto(IF req.checks THEN "prints" ELSE "parse")
    /\ checked' = req.checks
    /\ UNCHANGED <<content, newer, mlir, top, prints, outFiles, objFiles, req, read, seen, left, failed>>

WritePrints ==
    /\ stage = "prints" /\ Goto("parse")
    /\ prints' = [design |-> req.design, version |-> read]
    /\ UNCHANGED <<content, newer, mlir, top, checked, outFiles, objFiles, req, read, seen, left, failed>>

\* parse_hw_mlir looks the top up by its name.
Parse ==
    /\ stage = "parse"
    /\ Goto(IF Stem[mlir.design] = Stem[req.design] THEN "header" ELSE "missing")
    /\ UNCHANGED <<content, newer, cacheFiles, outFiles, objFiles, req, read, seen, left, failed>>

-----------------------------------------------------------------------------
(* compile_file *)

\* Bug: objects are compared with their shard only.
WriteHeaderAlone ==
    /\ stage = "header" /\ Goto("shards")
    /\ header' = mlir
    /\ left' = 1 .. req.split
    /\ UNCHANGED <<content, newer, cacheFiles, text, objFiles, req, read, seen, failed>>

\* _write_generated: a file that does not change keeps its time.
WriteHeader ==
    /\ stage = "header" /\ Goto("shards")
    /\ header' = mlir
    /\ older' = IF header = mlir THEN older ELSE Shards
    /\ left' = 1 .. req.split
    /\ UNCHANGED <<content, newer, cacheFiles, text, obj, stamp, broken, req, read, seen, failed>>

WriteShard ==
    /\ stage = "shards" /\ left # {}
    /\ LET k == Min(left)
       IN  /\ left' = left \ {k}
           /\ text' = [text EXCEPT ![k] = TextOf(k, req.split)]
           /\ older' = IF text'[k] = text[k] THEN older ELSE older \union {k}
    /\ UNCHANGED <<content, newer, cacheFiles, header, obj, stamp, broken, stage, req, read, seen, failed>>

Present == {k \in Shards : text[k] # None}

\* The stale shards are unlinked; then _compile_flash decides whether to reuse.
Unlink ==
    /\ stage = "shards" /\ left = {} /\ Goto("reuse")
    /\ text' = [k \in Shards |-> IF k \in 1 .. req.split THEN text[k] ELSE None]
    /\ UNCHANGED <<content, newer, cacheFiles, header, objFiles, req, read, seen, left, failed>>

-----------------------------------------------------------------------------
(* _compile_flash *)

\* Bug: the stamp is not compared.
CanReuseAny == \A k \in Present : obj[k] # None /\ k \notin older

CanReuse == stamp = req.flags /\ \A k \in Present : obj[k] # None /\ k \notin older

DecideReuse ==
    /\ stage = "reuse"
    /\ IF CanReuse THEN Goto("link") /\ UNCHANGED left
       ELSE Goto("objects") /\ left' = Present
    /\ UNCHANGED <<content, newer, cacheFiles, outFiles, objFiles, req, read, seen, failed>>

\* compile_shard on the thread pool, in any order; one failure stops none of the others.
CompileShard(k) ==
    /\ stage = "objects" /\ k \in left
    /\ left' = left \ {k}
    /\ obj' = [obj EXCEPT ![k] = [text |-> text[k], header |-> header, flags |-> req.flags]]
    /\ older' = older \ {k}
    /\ UNCHANGED <<content, newer, cacheFiles, outFiles, stamp, broken, stage, req, read, seen, failed>>

FailShard(k) ==
    /\ stage = "objects" /\ k \in left
    /\ left' = left \ {k} /\ failed' = TRUE
    /\ UNCHANGED <<content, newer, cacheFiles, outFiles, objFiles, stage, req, read, seen>>

WriteStamp ==
    /\ stage = "objects" /\ left = {} /\ ~failed /\ Goto("link")
    /\ stamp' = req.flags /\ broken' = {}
    /\ UNCHANGED <<content, newer, cacheFiles, outFiles, obj, older, req, read, seen, left, failed>>

GiveUp ==
    /\ stage = "objects" /\ left = {} /\ failed /\ Goto("idle")
    /\ broken' = broken \union {req.flags}
    /\ UNCHANGED <<content, newer, cacheFiles, outFiles, obj, older, stamp, req, read, seen, left, failed>>

\* The program is linked from the objects as they are.
Link ==
    /\ stage \in {"link", "missing"} /\ Goto("idle")
    /\ UNCHANGED <<content, newer, cacheFiles, outFiles, objFiles, req, read, seen, left, failed>>

-----------------------------------------------------------------------------
(* The world around a build. *)

Edit(d, version) ==
    /\ stage \in EditStages /\ (stage = "idle" \/ req.checks)
    /\ version \in Versions[d] \ {content[d]}
    /\ content' = [content EXCEPT ![d] = version]
    /\ newer' = newer \union {d}
    /\ seen' = IF stage # "idle" /\ d = req.design THEN seen \union {version} ELSE seen
    /\ UNCHANGED <<cacheFiles, outFiles, objFiles, stage, req, read, left, failed>>

BreakOff ==
    /\ stage \in Strikes /\ Goto("idle")
    /\ left' = {}
    /\ broken' = IF stage = "objects" THEN broken \union {req.flags} ELSE broken
    /\ UNCHANGED <<content, newer, cacheFiles, outFiles, obj, older, stamp, req, read, seen, failed>>

Init ==
    /\ content = [d \in Designs |-> CHOOSE v \in Versions[d] : TRUE] /\ newer = {}
    /\ mlir = None /\ top = None /\ checked = FALSE /\ prints = None
    /\ header = None /\ text = [k \in Shards |-> None]
    /\ obj = [k \in Shards |-> None] /\ older = {} /\ stamp = None /\ broken = {}
    /\ stage = "idle" /\ req \in Requests /\ read = content[req.design] /\ seen = {}
    /\ left = {} /\ failed = FALSE

Next ==
    \/ \E r \in Requests : Start(r)
    \/ Check \/ RunCirct \/ WriteMlir \/ WriteTop \/ WriteFlag \/ WritePrints \/ Parse
    \/ WriteHeader \/ WriteShard \/ Unlink
    \/ DecideReuse \/ WriteStamp \/ GiveUp \/ Link
    \/ \E k \in Shards : CompileShard(k) \/ FailShard(k)
    \/ \E d \in Designs : \E version \in Versions[d] : Edit(d, version)
    \/ BreakOff

Spec == Init /\ [][Next]_vars

-----------------------------------------------------------------------------
(* Under what EmittedIsCurrent holds: no two designs have one stem, and no build is *)
(* broken off between hw.mlir and the last of its sidecars.                         *)

StemsDiffer == \A d, e \in Designs : Stem[d] = Stem[e] => d = e
SidecarsFollow == Strikes \intersect {"top", "flag", "prints"} = {}

-----------------------------------------------------------------------------
(* Properties. *)

Emitted == stage \in {"shards", "reuse", "objects", "link"}

\* The header is emitted from the requested design, with or without its checks as
\* requested, and from sources no older than the build: neither a cache of another
\* top, nor one of the other mode, nor one older than an edit is taken for it, and
\* the build finds its top in the MLIR it reuses.
EmittedIsCurrent ==
    /\ stage # "missing"
    /\ Emitted => /\ header.design = req.design /\ header.checks = req.checks
               /\ header.version \in seen

\* Every object that is linked was compiled from the shard and the header on disk, and
\* these belong together, whatever failed or was broken off before.
LinkedIsCurrent ==
    stage = "link" =>
        /\ Present = 1 .. req.split
        /\ \A k \in Present : /\ text[k] = TextOf(k, req.split)
                              /\ obj[k].text = text[k] /\ obj[k].header = header

\* Compiler flags reach every object that is linked, but for objects of builds with
\* other flags that broke off since all objects were last built.
FlagsReach ==
    stage = "link" => \A k \in Present : obj[k].flags \in {req.flags} \union broken

=============================================================================
