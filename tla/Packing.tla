------------------------------- MODULE Packing -------------------------------
(***************************************************************************)
(* Stage B: one model directory and the three programs that write or read  *)
(* it.  stream_pack.py builds the directory unit by unit from the source   *)
(* checkpoint and the artifacts of Stage A; pack.py converts the model     *)
(* (mlx_lm, external) and injects the artifacts into the shards it finds;  *)
(* mix.py composes a second model out of a base and this one.  Any of them *)
(* may die between two steps, or inside the write of a file, and be run    *)
(* again with other settings on what is left.                              *)
(*                                                                         *)
(* A tensor is abstracted to where its codes come from and their format:   *)
(* the mode, affine or one of the MXFP modes, and the bits, with which the *)
(* group size goes.  A module of experts has one artifact per expert.      *)
(***************************************************************************)
EXTENDS Naturals, Sequences, FiniteSets

CONSTANTS Units,        \* the source model: a sequence of sets of modules, "top" first
          Experts,      \* module -> number of its experts, 1 for a plain module
          Excluded,     \* modules left in the source's format
          Formats,      \* formats of codes: [mode, bits]
          MaxCrashes, MaxRuns   \* bounds of the model

Modules == UNION {Units[i] : i \in 1..Len(Units)}

\* What the constants are (evaluated by the module that instantiates this one).
PackingAssumption ==
    /\ Units \in Seq(SUBSET Modules)
    /\ \A i, j \in 1..Len(Units) : i # j => Units[i] \cap Units[j] = {}
    /\ Experts \in [Modules -> Nat \ {0}]
    /\ Excluded \subseteq Modules /\ "stray" \notin Modules
    /\ Formats \subseteq [mode : {"affine", "mxfp"}, bits : Nat \ {0}]
    /\ MaxCrashes \in Nat /\ MaxRuns \in Nat

Pieces(m) == {<<m, e>> : e \in 1..Experts[m]}
Stray     == <<"stray", 1>>       \* an artifact named after no tensor of the model
Kept      == [src |-> "kept", format |-> [mode |-> "none", bits |-> 0]]
Cell(src, f) == [src |-> src, format |-> f]

\* A shard's name: <<its number, how often ".inject-tmp" was put into it>>.
Nothing == [m \in {} |-> Kept]
Torn    == [whole |-> FALSE, cells |-> Nothing]
NoFile  == [state |-> "none"]

VARIABLES
    art,     \* the calibration: the artifacts there are, with their formats
    dir,     \* the model files: name -> [whole, cells]
    cfg,     \* config.json: NoFile, torn, or the global format and those of single modules
    idx,     \* the index: NoFile, torn, or module -> shard
    origin,  \* what built the directory: "nothing", "convert" or "stream"
    ready,   \* the program that last ended without an error and after which no other wrote
    run,     \* the running program and its local variables
    mixed,   \* the composed model
    runs, crashes
vars == <<art, dir, cfg, idx, origin, ready, run, mixed, runs, crashes>>

Idle == [prog |-> "idle"]
Has(m)      == Pieces(m) \subseteq DOMAIN art
HasSome(m)  == Pieces(m) \cap DOMAIN art # {}
Fits(m, f)     == \A p \in Pieces(m) : art[p] = f
SizesFit(m, f) == \A p \in Pieces(m) : art[p].bits = f.bits

\* A calibration is of one mode; only an affine one may give modules other bits.
OneCalibration(a) == \A p, q \in DOMAIN a : /\ a[p].mode = a[q].mode
                                            /\ a[p].mode = "mxfp" => a[p] = a[q]

Init ==
    /\ \E have \in SUBSET (UNION {Pieces(m) : m \in Modules} \cup {Stray}) :
          art \in {a \in [have -> Formats] : OneCalibration(a)}
    /\ dir = Nothing /\ cfg = NoFile /\ idx = NoFile
    /\ origin = "nothing" /\ ready = "no" /\ run = Idle
    /\ mixed = NoFile /\ runs = 0 /\ crashes = 0

Begin(r) == /\ run = Idle /\ runs < MaxRuns
            /\ run' = r /\ runs' = runs + 1
Raise    == run' = Idle
Put(n, f) == dir' = [x \in DOMAIN dir \cup {n} |-> IF x = n THEN f ELSE dir[x]]

-----------------------------------------------------------------------------
(* stream_pack.py                                                          *)

StreamStart(f, limit) ==
    /\ Begin([prog |-> "stream", at |-> "units", format |-> f, limit |-> limit,
              unit |-> 1, buf |-> Nothing, placed |-> [m \in {} |-> 0],
              shards |-> 0, used |-> {}])
    /\ ready' = "no" /\ origin' = "stream"
    /\ UNCHANGED <<art, dir, cfg, idx, mixed, crashes>>

\* A fused module takes its artifacts when every expert has one, a plain one
\* when it is quantizable; whatever is left is rounded or kept.
Injects(m) == Has(m) /\ (Experts[m] > 1 \/ m \notin Excluded)
\* The codes and scales of an artifact are packed as they are, except that of a
\* fused module the affine biases are left behind.
Planes(m) == LET f == art[<<m, 1>>]
             IN IF Experts[m] > 1 /\ f.mode = "affine" THEN [f EXCEPT !.mode = "no biases"] ELSE f
Emit(m, f) ==
    IF Injects(m) THEN Cell("calib", Planes(m))
    ELSE IF m \notin Excluded THEN Cell("rtn", f) ELSE Kept

\* What ends the run: an artifact of other bits or group size (its mode is not
\* compared), or a tensor to round in a mode that is no MXFP one.
Refused(m, f) == \/ Injects(m) /\ ~SizesFit(m, f)
                 \/ ~Injects(m) /\ m \notin Excluded /\ f.mode = "affine"

StreamUnit ==
    /\ run.prog = "stream" /\ run.at = "units" /\ run.unit <= Len(Units)
    /\ LET u   == Units[run.unit]
           buf == [m \in DOMAIN run.buf \cup u |->
                     IF m \in u THEN Emit(m, run.format) ELSE run.buf[m]]
       IN IF \E m \in u : Refused(m, run.format)
          THEN Raise
          ELSE run' = [run EXCEPT !.unit = @ + 1, !.buf = buf,
                         !.used = @ \cup UNION {Pieces(m) : m \in {x \in u : Injects(x)}},
                         !.at = IF Cardinality(DOMAIN buf) >= run.limit
                                THEN "flush" ELSE "units"]
    /\ UNCHANGED <<art, dir, cfg, idx, origin, ready, mixed, runs, crashes>>

StreamLast ==      \* the last flush, if the buffer holds anything
    /\ run.prog = "stream" /\ run.at = "units" /\ run.unit > Len(Units)
    /\ run' = [run EXCEPT !.at = IF DOMAIN run.buf = {} THEN "check" ELSE "flush"]
    /\ UNCHANGED <<art, dir, cfg, idx, origin, ready, mixed, runs, crashes>>

\* save_file writes in place, over a shard of an earlier run if there is one.
StreamFlush ==
    /\ run.prog = "stream" /\ run.at = "flush"
    /\ Put(<<run.shards + 1, 0>>, Torn)
    /\ run' = [run EXCEPT !.at = "saving"]
    /\ UNCHANGED <<art, cfg, idx, origin, ready, mixed, runs, crashes>>

StreamSaved ==
    /\ run.prog = "stream" /\ run.at = "saving"
    /\ Put(<<run.shards + 1, 0>>, [whole |-> TRUE, cells |-> run.buf])
    /\ run' = [run EXCEPT !.at = "units", !.buf = Nothing, !.shards = @ + 1,
                 !.placed = [m \in DOMAIN @ \cup DOMAIN run.buf |->
                               IF m \in DOMAIN run.buf THEN run.shards + 1 ELSE @[m]]]
    /\ UNCHANGED <<art, cfg, idx, origin, ready, mixed, runs, crashes>>

\* Artifacts nobody asked for end the run before anything is published.
StreamCheck ==
    /\ run.prog = "stream" /\ run.at = "check"
    /\ IF DOMAIN art \subseteq run.used
       THEN run' = [run EXCEPT !.at = "index"] /\ idx' = [state |-> "torn"]
       ELSE Raise /\ UNCHANGED idx
    /\ UNCHANGED <<art, dir, cfg, origin, ready, mixed, runs, crashes>>

StreamIndex ==
    /\ run.prog = "stream" /\ run.at = "index"
    /\ idx' = [state |-> "there", shard |-> run.placed]
    /\ cfg' = [state |-> "torn"]
    /\ run' = [run EXCEPT !.at = "config"]
    /\ UNCHANGED <<art, dir, origin, ready, mixed, runs, crashes>>

StreamConfig ==
    /\ run.prog = "stream" /\ run.at = "config"
    /\ cfg' = [state |-> "there", format |-> run.format, single |-> [m \in {} |-> 0]]
    /\ ready' = "stream" /\ run' = Idle
    /\ UNCHANGED <<art, dir, idx, origin, mixed, runs, crashes>>

-----------------------------------------------------------------------------
(* pack.py                                                                 *)

\* The formats the conversion is asked for: the calibration's own, and for a module
\* whose artifacts deviate theirs, on which its experts must agree.
Deviating(f) == {m \in Modules : \E p \in Pieces(m) \cap DOMAIN art : art[p] # f}
Agreed(f)    == \A m \in Deviating(f) : \A p, q \in Pieces(m) \cap DOMAIN art :
                    (art[p] # f /\ art[q] # f) => art[p] = art[q]
Override(f)  == [m \in Deviating(f) |->
                   CHOOSE g \in Formats : \E p \in Pieces(m) \cap DOMAIN art :
                       art[p] = g /\ g # f]
FormatIn(c, m) == IF m \in DOMAIN c.single THEN c.single[m] ELSE c.format
MayBeManifests(f) == \A p \in DOMAIN art : IF f.mode = "mxfp" THEN art[p] = f
                                           ELSE art[p].mode = "affine"

\* mlx_lm.convert, external: refuses a directory that exists; one shard per unit.
Convert(f) ==
    /\ origin = "nothing" /\ MayBeManifests(f) /\ Agreed(f)
    /\ LET c == [state |-> "there", format |-> f, single |-> Override(f)]
       IN /\ cfg' = c
          /\ dir' = [n \in {<<i, 0>> : i \in 1..Len(Units)} |->
                       [whole |-> TRUE,
                        cells |-> [m \in Units[n[1]] |->
                          IF m \in Excluded THEN Kept ELSE Cell("rtn", FormatIn(c, m))]]]
    /\ idx' = [state |-> "there",
               shard |-> [m \in Modules |-> CHOOSE i \in 1..Len(Units) : m \in Units[i]]]
    /\ Begin(Idle)
    /\ origin' = "convert" /\ ready' = "no"
    /\ UNCHANGED <<art, mixed, crashes>>

\* sorted(glob("model*.safetensors")): ".inject-tmp" sorts before ".safetensors".
Before(a, b) == a[1] < b[1] \/ (a[1] = b[1] /\ a[2] > b[2])
First(names, n) == \A o \in names \ {n} : Before(n, o)
Tmp(n) == <<n[1], n[2] + 1>>

InjectStart ==
    /\ cfg.state = "there"
    /\ Begin([prog |-> "inject", at |-> "shard", todo |-> DOMAIN dir, shard |-> <<0, 0>>,
              used |-> {}])
    /\ ready' = "no"
    /\ UNCHANGED <<art, dir, cfg, idx, origin, mixed, crashes>>

Quantized(cells) == {m \in DOMAIN cells : cells[m] # Kept}
Injected(cells)  == {m \in Quantized(cells) : Has(m)}
\* Only some experts; another format than the config's; other bits than the shard's,
\* or no biases in it where the config wants them.
RejectedAs(m, f, g) == ~Fits(m, f) \/ f.bits # g.bits \/ (f.mode = "affine" /\ g.mode # "affine")
Rejected(cells)  ==
    \/ \E m \in Quantized(cells) : HasSome(m) /\ ~Has(m)
    \/ \E m \in Injected(cells) : RejectedAs(m, FormatIn(cfg, m), cells[m].format)
WithArtifacts(cells) ==
    [m \in DOMAIN cells |->
        IF m \in Injected(cells) THEN Cell("calib", cells[m].format) ELSE cells[m]]

\* A mutant: the shard is saved over the file it was loaded from.
InjectOver(n) ==
    /\ run.prog = "inject" /\ run.at = "shard" /\ n \in run.todo /\ First(run.todo, n)
    /\ LET f == dir[n]
       IN IF ~f.whole \/ Rejected(f.cells)
          THEN Raise /\ UNCHANGED dir
          ELSE IF Injected(f.cells) = {}
          THEN run' = [run EXCEPT !.todo = @ \ {n}] /\ UNCHANGED dir
          ELSE /\ run' = [run EXCEPT !.todo = @ \ {n},
                            !.used = @ \cup UNION {Pieces(m) : m \in Injected(f.cells)}]
               /\ Put(n, Torn)
    /\ UNCHANGED <<art, cfg, idx, origin, ready, mixed, runs, crashes>>

\* The shards in order; one that changes is saved beside itself.
InjectShard(n) ==
    /\ run.prog = "inject" /\ run.at = "shard" /\ n \in run.todo /\ First(run.todo, n)
    /\ LET f == dir[n]
       IN IF ~f.whole \/ Rejected(f.cells)
          THEN Raise /\ UNCHANGED dir
          ELSE IF Injected(f.cells) = {}
          THEN run' = [run EXCEPT !.todo = @ \ {n}] /\ UNCHANGED dir
          ELSE /\ run' = [run EXCEPT !.at = "saving", !.todo = @ \ {n}, !.shard = n,
                            !.used = @ \cup UNION {Pieces(m) : m \in Injected(f.cells)}]
               /\ Put(Tmp(n), Torn)
    /\ UNCHANGED <<art, cfg, idx, origin, ready, mixed, runs, crashes>>

InjectSaved ==
    /\ run.prog = "inject" /\ run.at = "saving"
    /\ Put(Tmp(run.shard), [whole |-> TRUE, cells |-> WithArtifacts(dir[run.shard].cells)])
    /\ run' = [run EXCEPT !.at = "replace"]
    /\ UNCHANGED <<art, cfg, idx, origin, ready, mixed, runs, crashes>>

InjectReplace ==
    /\ run.prog = "inject" /\ run.at = "replace"
    /\ dir' = [x \in DOMAIN dir \ {Tmp(run.shard)} |->
                 IF x = run.shard THEN dir[Tmp(run.shard)] ELSE dir[x]]
    /\ run' = [run EXCEPT !.at = "shard"]
    /\ UNCHANGED <<art, cfg, idx, origin, ready, mixed, runs, crashes>>

InjectEnd ==
    /\ run.prog = "inject" /\ run.at = "shard" /\ run.todo = {}
    /\ ready' = IF DOMAIN art \subseteq run.used /\ run.used # {} THEN "inject" ELSE "no"
    /\ Raise
    /\ UNCHANGED <<art, dir, cfg, idx, origin, mixed, runs, crashes>>

-----------------------------------------------------------------------------
(* mix.py: this directory is the override; the base is a model of its own. *)

Holders(m) == {n \in DOMAIN dir : m \in DOMAIN dir[n].cells}

\* Artifacts and config are of one MXFP mode: stream_pack compares the bits only,
\* and of an affine calibration it drops biases.
OfOneMode == cfg.format.mode = "mxfp" /\ \A p \in DOMAIN art : art[p].mode = "mxfp"

\* The last program ended well, and the shards are all of one making: an inject
\* over what a dead stream_pack left of an older model says nothing of the rest.
Accounted == (ready = "stream" /\ OfOneMode) \/ (ready = "inject" /\ origin = "convert")

\* A mutant: of a tensor that is there twice, any is taken.
MixAny(match) ==
    /\ mixed = NoFile /\ cfg.state = "there"
    /\ DOMAIN dir # {} /\ \A n \in DOMAIN dir : dir[n].whole
    /\ \A m \in match : Holders(m) # {}
    /\ \E pick \in [match -> DOMAIN dir] :
          /\ \A m \in match : pick[m] \in Holders(m)
          /\ LET cells == [m \in match |-> dir[pick[m]].cells[m]]
             IN /\ mixed' = [state |-> "weights", cells |-> cells]
                /\ Begin([prog |-> "mix", cells |-> cells, over |-> cfg, of |-> Accounted])
    /\ UNCHANGED <<art, dir, cfg, idx, origin, ready, crashes>>

\* Everything is read and checked before the output is created.
MixStart(match) ==
    /\ mixed = NoFile /\ cfg.state = "there"
    /\ DOMAIN dir # {} /\ \A n \in DOMAIN dir : dir[n].whole
    /\ \A m \in Modules : \A a, b \in Holders(m) : a = b     \* no duplicate tensor
    /\ \A m \in match : Holders(m) # {}
    /\ LET cells == [m \in match |-> dir[CHOOSE n \in Holders(m) : TRUE].cells[m]]
       IN /\ mixed' = [state |-> "weights", cells |-> cells]
          /\ Begin([prog |-> "mix", cells |-> cells, over |-> cfg, of |-> Accounted])
    /\ UNCHANGED <<art, dir, cfg, idx, origin, ready, crashes>>

\* config.json: the override's global format for a module that has scales.
MixConfig ==
    /\ run.prog = "mix" /\ mixed.state = "weights"
    /\ mixed' = [state |-> "config", cells |-> run.cells, over |-> run.over, of |-> run.of,
                 formats |-> [m \in DOMAIN run.cells |->
                   IF run.cells[m] = Kept THEN Kept.format ELSE run.over.format]]
    /\ UNCHANGED <<art, dir, cfg, idx, origin, ready, run, runs, crashes>>

MixIndex ==
    /\ run.prog = "mix" /\ mixed.state = "config"
    /\ mixed' = [mixed EXCEPT !.state = "done"]
    /\ run' = Idle
    /\ UNCHANGED <<art, dir, cfg, idx, origin, ready, runs, crashes>>

-----------------------------------------------------------------------------
Crash ==      \* the process dies; what is on disk stays
    /\ run # Idle /\ crashes < MaxCrashes
    /\ run' = Idle /\ crashes' = crashes + 1
    /\ UNCHANGED <<art, dir, cfg, idx, origin, ready, mixed, runs>>

Next ==
    \/ \E f \in Formats, limit \in 1..Cardinality(Modules) : StreamStart(f, limit)
    \/ StreamUnit \/ StreamLast \/ StreamFlush \/ StreamSaved
    \/ StreamCheck \/ StreamIndex \/ StreamConfig
    \/ \E f \in Formats : Convert(f)
    \/ InjectStart \/ (\E n \in DOMAIN dir : InjectShard(n)) \/ InjectSaved \/ InjectReplace \/ InjectEnd
    \/ \E match \in (SUBSET Modules) \ {{}} : MixStart(match)
    \/ MixConfig \/ MixIndex
    \/ Crash

Spec == Init /\ [][Next]_vars

-----------------------------------------------------------------------------
\* What module m should be in a model whose config is c: the artifact's codes
\* if it has artifacts, rounded or kept otherwise, in the format c names.
Right(cell, m, c) ==
    /\ (cell.src = "calib") <=> Has(m)
    /\ Has(m) => Fits(m, cell.format)
    /\ cell # Kept => cell.format = FormatIn(c, m)

\* Shards of an older run, which made more of them, that stream_pack left in place.
Leftovers == {n \in DOMAIN dir : \A m \in Modules : n # <<idx.shard[m], 0>>}

\* A program that ended without an error left what it was asked for, as every
\* reader reads it, all files model*.safetensors: every file is whole, every
\* artifact is in the model, none is left over and none was taken for part of a
\* module, and each module is there and right in every file that holds it,
\* whatever died before.  After stream_pack this is claimed where no shard of an
\* older run is left over: it removes none, and mlx_lm would merge them.
ReadyIsCalibrated ==
    ready # "no" =>
        /\ cfg.state = "there"
        /\ Stray \notin DOMAIN art
        /\ ready = "stream" => idx.state = "there"
        /\ (ready = "stream" => Leftovers = {}) =>
              /\ \A n \in DOMAIN dir : dir[n].whole
              /\ \A m \in Modules :
                    /\ Accounted => Holders(m) # {}
                    /\ \A n \in Holders(m) :
                          /\ Has(m) /\ m \notin Excluded => dir[n].cells[m].src = "calib"
                          /\ Accounted => Right(dir[n].cells[m], m, cfg)

\* "index file stays valid" (pack.py:225): while a converted model is injected,
\* at every moment and after any death, each module is in a whole shard at the
\* place the index of the conversion names.
IndexStaysValid ==
    origin = "convert" =>
        \A m \in Modules : LET n == <<idx.shard[m], 0>>
                           IN n \in DOMAIN dir /\ dir[n].whole /\ m \in DOMAIN dir[n].cells

ModelIsWhole == ReadyIsCalibrated /\ IndexStaysValid

\* mix.py took from a model that was ready, for every module it matched, the
\* tensors that model was left with, and none of an older run: it refuses a
\* directory in which a tensor is there twice.
MixedFromTheReady ==
    (mixed.state = "done" /\ mixed.of) =>
        \A m \in DOMAIN mixed.cells : Right(mixed.cells[m], m, mixed.over)

\* Whatever died, a directory that a program left as ready is read as calibrated,
\* by mlx_lm where no shard is left over, and by mix.py in any case.
StageBInvariant == ModelIsWhole /\ MixedFromTheReady
=============================================================================
