------------------------------- MODULE Ladder -------------------------------
(***************************************************************************)
(* The provenance chain of the precision ladder: the jobs that stage and   *)
(* verify the source model, quantize and package it, and flatten the       *)
(* reference, all on one volume (modal/*.py with                           *)
(* scripts/quantize_mxfp4_vllm.py and scripts/convert_mxfp4_text_only.py). *)
(* Jobs run one at a time, in any order and any number of times; each may  *)
(* be killed at any step, and the next one finds what it left.             *)
(***************************************************************************)
EXTENDS Integers

CONSTANTS MaxResults,   \* bound: quantization runs; no two give the same weights
          Torn

\* What is compared by content: the files of the source, of the raw output of the
\* quantizer, of the flattened reference.
SourceFiles == {"source/weights", "source/tokenizer"}
RawFiles == {"raw/config", "raw/shard", "raw/recipe"}
\* In the order in which run_flatten writes them.
FlatFiles == <<"bf16/shard", "bf16/config", "bf16/index", "bf16/tokenizer">>
Flat == {FlatFiles[i] : i \in 1..4}

\* What a result of the quantizer is known by, and a packaged model.
Results == [result : 1..MaxResults, of : {"pinned"}]
Packages == [raw : Results, config : Results, recipe : BOOLEAN, tokenizer : {"pinned"}]

\* What the constants are (evaluated by the module that instantiates this one).
LadderAssumption ==
    MaxResults \in Nat /\ Torn \notin {"pinned", "other"} \cup Packages

VARIABLES
    disk,      \* the volume: path -> content
    job,       \* [name, pc, raw: the raw shard it measured], or Idle
    results,   \* of the quantizer so far
    denied     \* an output directory that a job refused because it is not empty

vars == <<disk, job, results, denied>>

Idle == [name |-> "none", pc |-> "idle", raw |-> Torn]
There(f) == f \in DOMAIN disk
Whole(f) == There(f) /\ disk[f] # Torn
Some(F) == F \cap DOMAIN disk # {}
Without(F) == [f \in DOMAIN disk \ F |-> disk[f]]
Copy(F, d) == [f \in F \cap DOMAIN d |-> d[f]]

\* The pinned content manifest: every file of the directory, as pinned.
PinnedManifest == [f \in SourceFiles |-> "pinned"]
Manifest == Copy(SourceFiles \cup {"source/.cache"}, disk)

\* The directory may hold an older download.
Init ==
    /\ disk \in {<<>>, [f \in SourceFiles |-> "other"]}
    /\ job = Idle /\ results = 0 /\ denied = {}

Begin(name, pc) == job = Idle /\ job' = [Idle EXCEPT !.name = name, !.pc = pc]
               /\ UNCHANGED <<disk, results, denied>>
At(name, pc) == job.name = name /\ job.pc = pc
To(pc) == job' = [job EXCEPT !.pc = pc]
Done == job' = Idle
Set(d, f, content) == [g \in {f} \cup DOMAIN d |-> IF g = f THEN content ELSE d[g]]
Put(f, content) == disk' = Set(disk, f, content)

\* stage: snapshot_download moves each file into place when it is whole, and leaves
\* its own cache directory beside them.
StageFile(f) ==
    /\ At("stage", "downloading")
    /\ disk' = Set(Set(disk, "source/.cache", "cache"), f, "pinned")
    /\ UNCHANGED <<job, results, denied>>
Staged == At("stage", "downloading") /\ SourceFiles \subseteq DOMAIN disk
          /\ (\A f \in SourceFiles : disk[f] = "pinned") /\ Done
          /\ UNCHANGED <<disk, results, denied>>

\* verify: the cache goes, the files are compared with their pins, and the manifest
\* is of what is there then.
RemoveCache ==
    /\ At("verify", "cache") /\ To("hash")
    /\ disk' = Without({"source/.cache"}) /\ UNCHANGED <<results, denied>>
WriteVerification ==
    /\ At("verify", "hash") /\ Done
    /\ Put("verification", [verified |-> Manifest = PinnedManifest, manifest |-> Manifest])
    /\ UNCHANGED <<results, denied>>

\* quantize: what was verified is what the campaign is for.  The campaign is written
\* anew, without the pins of an earlier run.
CheckSource ==
    /\ At("quantize", "check")
    /\ IF Whole("verification") /\ disk["verification"].verified
          /\ disk["verification"].manifest = PinnedManifest
       THEN To("raw") /\ Put("campaign", <<>>)
       ELSE Done /\ UNCHANGED disk
    /\ UNCHANGED <<results, denied>>

\* A raw shard that is there is used; else quantize_mxfp4_vllm.py looks at the source
\* itself, and wants an empty output directory.
LookForRaw ==
    /\ At("quantize", "raw")
    /\ IF There("raw/shard") THEN To("pin") /\ UNCHANGED <<results, denied>>
       ELSE /\ IF Manifest # PinnedManifest \/ Some(RawFiles) \/ results = MaxResults
               THEN Done /\ UNCHANGED results
               ELSE To("saving") /\ results' = results + 1
            /\ denied' = IF Some(RawFiles) THEN denied \cup {"raw"} ELSE denied
    /\ UNCHANGED disk

\* save_pretrained, file by file; the recipe may come before or after the weights.
SaveRaw(f) ==
    /\ At("quantize", "saving") /\ ~There(f)
    /\ Put(f, [result |-> results, of |-> disk["source/weights"]])
    /\ UNCHANGED <<job, results, denied>>

WriteQuantization ==
    /\ At("quantize", "saving") /\ RawFiles \subseteq DOMAIN disk /\ To("pin")
    /\ Put("quantization", Copy(RawFiles, disk))
    /\ UNCHANGED <<results, denied>>

\* The raw shard is measured, whichever run left it, and pinned (write_campaign
\* replaces the campaign as a whole).
PinRaw ==
    /\ At("quantize", "pin")
    /\ job' = [job EXCEPT !.pc = "final", !.raw = disk["raw/shard"]]
    /\ Put("campaign", [raw |-> disk["raw/shard"]])
    /\ UNCHANGED <<results, denied>>

\* A torn shard does not load, and without the config of the same save there is
\* nothing to flatten; the recipe is packaged if it is there.
Convertible ==
    /\ Whole("raw/shard") /\ Whole("raw/config")
    /\ disk["campaign"].raw = disk["raw/shard"]
    /\ There("source/tokenizer") /\ disk["source/tokenizer"] = "pinned"

Packaged == [raw |-> disk["raw/shard"], config |-> disk["raw/config"],
             recipe |-> There("raw/recipe"), tokenizer |-> disk["source/tokenizer"]]

\* A mutant: the tensors are saved in the output directory itself.
ConvertInPlace ==
    /\ At("quantize", "final")
    /\ IF There("final") THEN To("measure") /\ UNCHANGED disk
       ELSE IF ~Convertible THEN Done /\ UNCHANGED disk
       ELSE \/ To("packaging") /\ Put("final", Packaged)
            \/ Done /\ Put("final", Torn)
    /\ UNCHANGED <<results, denied>>
\* convert_mxfp4_text_only.py, unless there is a final shard: everything is written
\* to a staging directory that takes the place of the output at once.
Convert ==
    /\ At("quantize", "final")
    /\ IF There("final") THEN To("measure") /\ UNCHANGED disk
       ELSE IF ~Convertible THEN Done /\ UNCHANGED disk
       ELSE To("packaging") /\ Put("final", Packaged)
    /\ UNCHANGED <<results, denied>>

WritePackaging ==
    /\ At("quantize", "packaging") /\ To("measure")
    /\ Put("packaging", [source |-> job.raw, files |-> disk["final"]])
    /\ UNCHANGED <<results, denied>>

Measure ==
    /\ At("quantize", "measure") /\ To("summary")
    /\ Put("campaign", [raw |-> disk["campaign"].raw, text |-> disk["final"]])
    /\ UNCHANGED <<results, denied>>
WriteSummary ==
    /\ At("quantize", "summary") /\ Done
    /\ Put("summary", [raw |-> job.raw, text |-> disk["final"]])
    /\ UNCHANGED <<results, denied>>

\* A mutant: the weights alone tell that the reference is there.
AlreadyFlatByShard == There("bf16/shard")
\* flatten: index and receipt tell that the reference is there.
AlreadyFlat == There("bf16/index") /\ There("flattening")
Flatten ==
    /\ At("flatten", "look")
    /\ IF AlreadyFlat THEN To("present") /\ UNCHANGED denied
       ELSE /\ IF Some(Flat) \/ ~There("source/weights") THEN Done ELSE To("writing")
            /\ denied' = IF Some(Flat) THEN denied \cup {"bf16"} ELSE denied
    /\ UNCHANGED <<disk, results>>

\* run_flatten does not ask what the source is, and fails without a tokenizer.
NextFlat == CHOOSE i \in 1..4 : ~There(FlatFiles[i]) /\ \A j \in 1..(i - 1) : There(FlatFiles[j])
WriteFlat ==
    /\ At("flatten", "writing") /\ ~ (Flat \subseteq DOMAIN disk)
    /\ IF FlatFiles[NextFlat] = "bf16/tokenizer"
       THEN IF There("source/tokenizer")
            THEN Put("bf16/tokenizer", disk["source/tokenizer"]) /\ UNCHANGED job
            ELSE Done /\ UNCHANGED disk
       ELSE Put(FlatFiles[NextFlat], disk["source/weights"]) /\ UNCHANGED job
    /\ UNCHANGED <<results, denied>>
WriteFlattening ==
    /\ At("flatten", "writing") /\ Flat \subseteq DOMAIN disk /\ To("present")
    /\ Put("flattening", Copy(Flat, disk)) /\ UNCHANGED <<results, denied>>
Present == At("flatten", "present") /\ Done /\ UNCHANGED <<disk, results, denied>>

\* A container that dies leaves what it wrote; the file it was writing in place is
\* torn.
InPlace ==
    CASE At("verify", "hash")        -> {"verification"}
      [] At("quantize", "saving")    -> IF RawFiles \subseteq DOMAIN disk THEN {"quantization"}
                                        ELSE RawFiles \ DOMAIN disk
      [] At("quantize", "packaging") -> {"packaging"}
      [] At("quantize", "summary")   -> {"summary"}
      [] At("flatten", "writing")    -> IF Flat \subseteq DOMAIN disk THEN {"flattening"}
                                        ELSE {FlatFiles[NextFlat]}
      [] OTHER                       -> {}
Die ==
    /\ job # Idle /\ Done
    /\ \/ UNCHANGED disk
       \/ \E f \in InPlace : Put(f, Torn)
    /\ UNCHANGED <<results, denied>>

\* The operator deletes an output directory that a job has refused.
Discard(dir) ==
    /\ job = Idle /\ dir \in denied /\ denied' = denied \ {dir}
    /\ disk' = Without(IF dir = "raw" THEN RawFiles ELSE Flat)
    /\ UNCHANGED <<job, results>>

Next ==
    \/ Begin("stage", "downloading") \/ (\E f \in SourceFiles : StageFile(f)) \/ Staged
    \/ Begin("verify", "cache") \/ RemoveCache \/ WriteVerification
    \/ Begin("quantize", "check") \/ CheckSource \/ LookForRaw \/ (\E f \in RawFiles : SaveRaw(f))
    \/ WriteQuantization \/ PinRaw \/ Convert \/ WritePackaging \/ Measure \/ WriteSummary
    \/ Begin("flatten", "look") \/ Flatten \/ WriteFlat \/ WriteFlattening \/ Present
    \/ Die \/ (\E dir \in {"raw", "bf16"} : Discard(dir))

Spec == Init /\ [][Next]_vars

-----------------------------------------------------------------------------
(* Properties                                                              *)

\* What is packaged comes from one result of the quantizer, which had the verified
\* source before it: never from halves of two runs.
PackagedIsOneResult ==
    There("final") =>
        /\ disk["final"] # Torn
        /\ disk["final"].raw = disk["final"].config
        /\ disk["final"].raw.of = "pinned" /\ disk["final"].tokenizer = "pinned"

\* The receipts of packaging and summary, and the campaign once it has both pins,
\* tell from which raw weights the packaged model was made, whichever runs died
\* before.
ReceiptsTellTheSource ==
    /\ Whole("packaging") => /\ disk["packaging"].files = disk["final"]
                             /\ disk["packaging"].source = disk["final"].raw
    /\ Whole("summary")   => /\ disk["summary"].text = disk["final"]
                             /\ disk["summary"].raw = disk["final"].raw
    /\ There("campaign") /\ "text" \in DOMAIN disk["campaign"] =>
           disk["campaign"].raw = disk["campaign"].text.raw

\* A flattened reference that is reported present is whole.  (Of which revision its
\* weights and its tokenizer are is not asked: the script copies what the staged source
\* directory holds.)
PresentIsWhole ==
    job.pc = "present" => \A f \in Flat : Whole(f)

LadderInvariant == PackagedIsOneResult /\ ReceiptsTellTheSource /\ PresentIsWhole
=============================================================================
