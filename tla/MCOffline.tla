------------------------------ MODULE MCOffline ------------------------------
(***************************************************************************)
(* Components that share no state with each other: solving one layer in    *)
(* Stage A, Stage B on one directory, a draft's caches with their replay,  *)
(* the trees of drafted tokens and their verification, the cycles a        *)
(* draft's trainer replays, the trainer's output directory, a calibration  *)
(* campaign, the jobs of the precision ladder on their volume.  Which of   *)
(* them moves is chosen in the initial state.                              *)
(***************************************************************************)
EXTENDS LayerSolve

CONSTANTS qproj, kproj, oproj, gpu0, gpu1, hidden, heads, Partial,
          Scenes,      \* the scenes of this run
          AllReplays,  \* also the command line that stratified_replay is about
          Prints, Settings, MaxEpochs, EpochSteps, Score(_), MaxTrainings,   \* of Distill
          NumLayers, Shards, Pins, MaxCommands,   \* of Campaign
          MaxResults,                             \* of Ladder
          PackUnits, PackExperts, PackExcluded, PackFormats, MaxPackCrashes, MaxPackRuns,
          DraftSink, DraftAsked, DraftReplaySink, DraftReplayWindow, DraftSlide, DraftStep,
          MaxDraftContext, MaxDraftBlock, MaxDraftCycles,
          TreeTokens, TreeCandidates, TreeBudgets, TreeKernel, MaxTreeText   \* of DraftTree

VARIABLES scene,
          art, dir, cfg, idx, origin, ready, run, mixed, runs, crashes,  \* Stage B
          kind, ctx, full, hist, stage, rp, replayed,                    \* the draft
          text, growth, ranked, budget, seeded, tree, heap, accepted, keys, state, conv,
          args, record, part, train, validation, ids, heldIds, todo, caches, epoch,  \* cycles
          ckpt, out, report, proc, trainings, parted,                    \* the trainer
          host, job, pin, cmd, calib, overlay, model, receipt, given, broken, unfinished,
                                                                 \* a campaign
          volume, ladderJob, results, denied            \* the ladder

\* Three matrices of which two share their input, three experts, two devices of
\* different memory.
MCDevices == <<gpu0, gpu1>>
MCChunk == [d \in {gpu0, gpu1} |-> IF d = gpu0 THEN 2 ELSE 1]
MCLinears == <<qproj, oproj, kproj>>
MCInputOf == [l \in {qproj, kproj, oproj} |-> IF l = oproj THEN heads ELSE hidden]

\* A plain module, one of two experts and an excluded one, in three units.
MCUnits == <<{"embed"}, {"proj", "moe"}>>
MCExperts == [m \in {"embed", "proj", "moe"} |-> IF m = "moe" THEN 2 ELSE 1]
MCFormats == {[mode |-> "affine", bits |-> 4], [mode |-> "affine", bits |-> 8],
              [mode |-> "mxfp", bits |-> 4]}
StageB == INSTANCE Packing WITH
    Units <- PackUnits, Experts <- PackExperts, Excluded <- PackExcluded,
    Formats <- PackFormats, MaxCrashes <- MaxPackCrashes, MaxRuns <- MaxPackRuns

\* A sink and a window of two, one and three for the replay: one context of five or
\* two shorter ones trim.
Draft == INSTANCE DraftCache WITH
    Sink <- DraftSink, Asked <- DraftAsked, ReplaySink <- DraftReplaySink,
    ReplayWindow <- DraftReplayWindow, Slide <- DraftSlide, Step <- DraftStep,
    MaxContext <- MaxDraftContext, MaxBlock <- MaxDraftBlock, MaxCycles <- MaxDraftCycles,
    phase <- stage

\* Up to three positions with one or two candidates: clear, equal and far apart.
MCRow(best, second, cost, more) ==
    <<[token |-> best, cost |-> cost], [token |-> second, cost |-> more]>>
MCCandidates == UNION {[1..n -> {MCRow(1, 2, 0, 1), MCRow(2, 1, 1, 1), MCRow(1, 2, 1, 5),
                                 <<[token |-> 2, cost |-> 1]>>}] : n \in 0..3}
Trees == INSTANCE DraftTree WITH
    Token <- TreeTokens, Candidates <- TreeCandidates, Budgets <- TreeBudgets,
    Kernel <- TreeKernel, MaxText <- MaxTreeText, phase <- growth, rows <- ranked

\* Captures of three and two prompts, prompts with one cycle, and one prompt alone.
Replay == INSTANCE DistillReplay WITH
    Captures <- {<<1,1,2,1,3,2>>, <<2,1,1,2,2,3,3>>, <<1,1,1,2>>, <<1,1>>},
    Arguments <- {a \in [exported: BOOLEAN, trainLimit: {0, 3}, limit: {0, 3, 4},
                         stratified: BOOLEAN, percent: {34}, draft: BOOLEAN,
                         loss: {"selector", "hybrid"}, fidelity: {0, 5}, epochs: {2}] :
                    /\ a.exported \/ a.trainLimit = 0
                    /\ AllReplays \/ ~(a.loss = "hybrid" /\ a.stratified /\ a.limit > 0 /\ ~a.draft)},
    stage <- part, capture <- record

\* Two fingerprints.  A first epoch at a high rate makes parameters worse, a
\* second one the best; a low rate improves them a little.
MCScore(params) == IF params.by = <<>> THEN 3
                   ELSE IF params.by[Len(params.by)] = "low" THEN 2
                   ELSE IF Len(params.by) = 2 THEN 1 ELSE 4
MCPrints == {[id |-> 1, lora |-> TRUE, qat |-> TRUE, gated |-> TRUE],
             [id |-> 2, lora |-> FALSE, qat |-> FALSE, gated |-> TRUE]}
Trainer == INSTANCE Distill WITH
    MaxRuns <- MaxTrainings, Torn <- Partial, receipt <- report, runs <- trainings

\* Two layers, two shards with overlay targets.
MCShards == <<"s1", "s2">>
Calibrate == INSTANCE Campaign WITH Torn <- Partial

\* The quantizer may run twice.
Rungs == INSTANCE Ladder WITH Torn <- Partial, disk <- volume, job <- ladderJob

ASSUME OfflineAssumption ==
    /\ StageB!PackingAssumption /\ Draft!DraftCacheAssumption /\ Trees!DraftTreeAssumption
    /\ Replay!DistillReplayAssumption
    /\ Trainer!DistillAssumption /\ Calibrate!CampaignAssumption /\ Rungs!LadderAssumption

stageBVars == <<art, dir, cfg, idx, origin, ready, run, mixed, runs, crashes>>
draftVars == <<kind, ctx, full, hist, stage, rp, replayed>>
treeVars == <<text, growth, ranked, budget, seeded, tree, heap, accepted, keys, state, conv>>
replayVars == <<args, record, part, train, validation, ids, heldIds, todo, caches, epoch>>
trainerVars == <<ckpt, out, report, proc, trainings, parted>>
campaignVars == <<host, job, pin, cmd, calib, overlay, model, receipt, given, broken,
                  unfinished>>
ladderVars == <<volume, ladderJob, results, denied>>

OfflineInit ==
    /\ scene \in Scenes
    /\ Init /\ (scene # "layer" => ~eager)
    /\ Draft!Init /\ (scene # "draft" => kind = "dflash")
    /\ IF scene = "stage B" THEN StageB!Init
       ELSE art = <<>> /\ dir = <<>> /\ cfg = None /\ idx = None /\ origin = "nothing"
            /\ ready = "no" /\ run = None /\ mixed = None /\ runs = 0 /\ crashes = 0
    /\ IF scene = "tree" THEN Trees!Init
       ELSE text = <<>> /\ growth = "draft" /\ ranked = <<>> /\ budget = 0 /\ seeded = FALSE
            /\ tree = <<>> /\ heap = {} /\ accepted = <<>> /\ keys = <<>> /\ state = <<>>
            /\ conv = <<>>
    /\ IF scene = "replay" THEN Replay!ReplayInit
       ELSE args = None /\ record = <<>> /\ part = "load" /\ train = <<>> /\ validation = <<>>
            /\ ids = {} /\ heldIds = {} /\ todo = <<>> /\ caches = <<>> /\ epoch = 0
    /\ Trainer!Init
    /\ Calibrate!Init
    /\ (scene = "stage B" /\ StageB!Stray \in DOMAIN art   \* beside a whole calibration
          => \A m \in StageB!Modules \ PackExcluded : StageB!Has(m))
    /\ (scene # "campaign" => pin = (CHOOSE rev \in Pins : TRUE) /\ ~host.text)
    /\ Rungs!Init /\ (scene # "ladder" => volume = <<>>)

OfflineNext ==
    /\ UNCHANGED scene
    /\ \/ scene = "layer" /\ Next
          /\ UNCHANGED <<stageBVars, draftVars, treeVars, replayVars, trainerVars,
                          campaignVars, ladderVars>>
       \/ scene = "stage B" /\ StageB!Next
          /\ UNCHANGED <<vars, draftVars, treeVars, replayVars, trainerVars,
                          campaignVars, ladderVars>>
       \/ scene = "draft" /\ Draft!Next
          /\ UNCHANGED <<vars, stageBVars, treeVars, replayVars, trainerVars,
                          campaignVars, ladderVars>>
       \/ scene = "tree" /\ Trees!Next
          /\ UNCHANGED <<vars, stageBVars, draftVars, replayVars, trainerVars,
                          campaignVars, ladderVars>>
       \/ scene = "replay" /\ Replay!ReplayNext
          /\ UNCHANGED <<vars, stageBVars, draftVars, treeVars, trainerVars,
                          campaignVars, ladderVars>>
       \/ scene = "trainer" /\ Trainer!Next
          /\ UNCHANGED <<vars, stageBVars, draftVars, treeVars, replayVars,
                          campaignVars, ladderVars>>
       \/ scene = "campaign" /\ Calibrate!Next
          /\ UNCHANGED <<vars, stageBVars, draftVars, treeVars, replayVars,
                          trainerVars, ladderVars>>
       \/ scene = "ladder" /\ Rungs!Next
          /\ UNCHANGED <<vars, stageBVars, draftVars, treeVars, replayVars, trainerVars,
                          campaignVars>>

OfflineSpec == OfflineInit /\ [][OfflineNext]_<<scene, vars, stageBVars, draftVars, treeVars,
                                              replayVars, trainerVars, campaignVars,
                                              ladderVars>>

\* Whatever died, what a program of Stage B left as ready is calibrated, as every
\* reader reads it.
ReadyIsCalibrated == scene = "stage B" => StageB!StageBInvariant

\* Served or replayed, a drafted block attends to the context it is meant to.
DraftSeesItsContext == scene = "draft" => Draft!DraftSeesItsContext

\* A tree of drafted tokens is the likeliest one of its size.
TreeHoldsTheBest == scene = "tree" => Trees!TreeHoldsTheBest

\* Verified in one pass, each of its slots reads what it would have read alone; what
\* the caches keep is the path that was accepted.
TreeReadsAsSequences == scene = "tree" => Trees!TreeInvariant

\* What a draft cache of the trainer holds of a prompt are its cycles from the
\* first on, none skipped, in whatever order selections and passes follow one
\* another.
CachesHoldEveryCycle == scene = "replay" => Replay!CachesHoldEveryCycle

\* The same, and prompts are kept on one side of the split, and a stratified
\* selection is what it is asked to be.
ReplayIsSequential == scene = "replay" => Replay!ReplayIsSequential

\* However often training was interrupted and gone on with: a checkpoint is what
\* one run would have saved, and what the validator accepts is of one training.
DistillIsSound == scene = "trainer" => Trainer!DistillIsSound

\* Fetches are whole, overlays all or nothing, and receipts tell what the packed
\* model is; and on the ladder, whatever jobs died, what is packaged is one result of
\* the quantizer of the verified source, and the receipts tell which.
CampaignIsSound ==
    /\ [](scene = "campaign" => Calibrate!OverlayIsAllOrNothing)
    /\ [](scene = "ladder" => Rungs!LadderInvariant)
    /\ [][scene = "campaign" => Calibrate!CampaignStepIsSound]_campaignVars
==============================================================================
