------------------------------- MODULE MCParts --------------------------------
(***************************************************************************)
(* The parts of the system that share no state and need no fairness.  Here *)
(* are those that say where texts, weights and their receipts come from:   *)
(* the tools that build the calibration corpus, the prompts and the        *)
(* holdouts, Stage A over its restarts, the windows the perplexity of a    *)
(* result is measured over, and its publication.  Then those around the    *)
(* decode loop of one request: the block policy and the copyspec gate, the *)
(* rows and admissions of a batch, the live metrics, the arrays of         *)
(* snapshots, the start of the server, a conversation.  The initial state  *)
(* chooses which one moves; each is explored to the end of its bounds.     *)
(***************************************************************************)
EXTENDS Calibration, TLC

CONSTANTS None, Absent, Bad, Blank

(* --------------------- around the decode loop of a request ------------------- *)

VARIABLES
    policy, gate, long, left, source, spell, before, failed, tries,       \* CyclePolicy
    drafts, maxima, rowBudget, cursor, selected, rowPlan, posterior,              \* Contracts: a batch
    line, arrived, now, granted,                                          \* and admission
    clock, flight, shown, totals, finished, stats, reader, payload, begun,\* LiveMetrics
    arrays, holder, saved, onDisk,                                        \* SnapshotMemory
    facts, process, directories, started, report,                         \* Startup
    interface, history, request, machines, mode, reply, turns, calls, spoken, \* Conversation
    refused, rope, annotated, sparseRun, keys, dense, served              \* SparsePrefill

policyVars == <<policy, gate, long, left, source, spell, before, failed, tries>>
batchVars == <<drafts, maxima, rowBudget, cursor, selected, rowPlan, posterior>>
admissionVars == <<line, arrived, now, granted>>
metricsVars == <<clock, flight, shown, totals, finished, stats, reader, payload, begun>>
memoryVars == <<arrays, holder, saved, onDisk>>
startVars == <<facts, process, directories, started, report>>
talkVars == <<interface, history, request, machines, mode, reply, turns, calls, spoken>>
ropeVars == <<refused, rope, annotated, sparseRun, keys, dense, served>>
engineVars == <<policyVars, batchVars, admissionVars, metricsVars, memoryVars, startVars,
                talkVars, ropeVars>>

\* Blocks of three tokens or two; without the gate, the policy looks at a probe of
\* two cycles and at an early one after a burst cut short.
Blocks == INSTANCE CyclePolicy WITH
    Block <- 3, MinBlock <- 2, Window <- 2, Recent <- 2, Burst <- 3, ProbeCycles <- 2,
    EarlyCycles <- 1, EarlyMin <- 2, EarlyWindow <- 2, EarlyRate <- <<1, 1>>,
    DropRate <- <<1, 2>>, ResumeRate <- <<3, 5>>, LeastTokens <- <<5, 2>>,
    OffCycles <- 1, OnCopies <- 1, OnCycles <- 2, Latch <- 2, BackoffCap <- 1,
    Times <- {1, 2}, Clock <- 1

\* With the gate, and shorter bursts.
Copying == INSTANCE CyclePolicy WITH
    Block <- 3, MinBlock <- 2, Window <- 2, Recent <- 2, Burst <- 2, ProbeCycles <- 1,
    EarlyCycles <- 1, EarlyMin <- 0, EarlyWindow <- 1, EarlyRate <- <<1, 1>>,
    DropRate <- <<1, 2>>, ResumeRate <- <<3, 5>>, LeastTokens <- <<5, 2>>,
    OffCycles <- 1, OnCopies <- 1, OnCycles <- 2, Latch <- 1, BackoffCap <- 1,
    Times <- {1, 2}, Clock <- 1

\* Two slots with up to two drafts each; three requests of up to two tokens.
Batch == INSTANCE Contracts WITH
    Slots <- {1, 2}, MaxDrafts <- 2, MaxRows <- 5, Distances <- {0, 1}, Tokens <- {1},
    Requests <- {1, 2, 3}, Lengths <- {0, 1, 2}, MaxFree <- 1, MaxTick <- 3,
    None <- Absent, rows <- rowBudget, plan <- rowPlan, at <- cursor, waiting <- line

\* Two slots with a draft or two of two tokens.
Agreement == INSTANCE Contracts WITH
    Slots <- {1, 2}, MaxDrafts <- 2, MaxRows <- 6, Distances <- {0}, Tokens <- {1, 2},
    Requests <- {1}, Lengths <- {0}, MaxFree <- 1, MaxTick <- 1,
    None <- Absent, rows <- rowBudget, plan <- rowPlan, at <- cursor, waiting <- line

Metrics == INSTANCE LiveMetrics WITH
    MaxRequests <- 2, MaxTokens <- 1, MaxClock <- 1, RecentMax <- 1, Enabled <- TRUE,
    None <- Absent, current <- shown, recent <- finished, issued <- begun

\* The recurrent layers of Qwen, the rotating ones of Gemma.
Recurrent == INSTANCE SnapshotMemory WITH
    Words <- {1}, MaxText <- 4, MaxCells <- 9, MaxSaved <- 2, Room <- 2, Rings <- FALSE,
    Sink <- 1, Window <- 1, None <- Absent, memory <- arrays, live <- holder, file <- onDisk
Rotating == INSTANCE SnapshotMemory WITH
    Words <- {1}, MaxText <- 4, MaxCells <- 9, MaxSaved <- 2, Room <- 2, Rings <- TRUE,
    Sink <- 1, Window <- 1, None <- Absent, memory <- arrays, live <- holder, file <- onDisk

\* What a setting may be set to: one value that is refused, one that is not.
SettingTexts ==
    [prefill_step_size |-> {0, 8, Bad}, target_fa_window |-> {-1, 0, 4},
     quantize_kv_cache |-> {TRUE, Bad}, prefix_cache |-> BOOLEAN,
     prefix_cache_l2 |-> BOOLEAN, prefix_cache_l2_dir |-> {Blank, "other"},
     prefix_cache_l2_max_bytes |-> {-1, 4}, verify_mode |-> {"off", "ddtree", Bad}]
Plain == [draft |-> Absent, quant |-> Absent, batchOnly |-> FALSE, mode |-> "off",
          explicit |-> FALSE]
Sound == [spec |-> "w4", family |-> TRUE, eagle |-> FALSE, heads |-> "none", emulated |-> FALSE,
          verifies |-> TRUE, writable |-> TRUE]

\* Two flags and a variable of the environment.
Configuring == INSTANCE Startup WITH
    Varied <- DOMAIN SettingTexts, Exported <- DOMAIN SettingTexts, Texts <- SettingTexts,
    Most <- 2, Runs <- 1, Facts <- {Sound},
    Commands <- {Plain, [Plain EXCEPT !.batchOnly = TRUE]}, None <- Absent

\* Runs of which some are refused or die, on a directory of their own or a common one.
Restarting == INSTANCE Startup WITH
    Varied <- {"prefill_step_size", "prefix_cache"}, Exported <- {}, Texts <- SettingTexts,
    Most <- 1, Runs <- 2, Facts <- {Sound},
    Commands <- {[Plain EXCEPT !.mode = m, !.explicit = e] :
                     m \in {"basic", "full"}, e \in BOOLEAN} \cup {Plain},
    None <- Absent

\* Every kind of target, draft and chip, and doctor before the server.
Loading == INSTANCE Startup WITH
    Varied <- {"verify_mode"}, Exported <- {}, Texts <- [verify_mode |-> {"off", "ddtree"}],
    Most <- 1, Runs <- 1,
    Facts <- {[Sound EXCEPT !.spec = s, !.eagle = e, !.heads = h] :
                  s \in {Absent, "w4", "plain"}, e \in BOOLEAN, h \in {"none", "weight", "others"}}
             \cup {[Sound EXCEPT !.emulated = TRUE], [Sound EXCEPT !.verifies = FALSE],
                   [Sound EXCEPT !.writable = FALSE], [Sound EXCEPT !.family = FALSE]},
    Commands <- {[Plain EXCEPT !.draft = d, !.quant = q] :
                     d \in {Absent, "own", "other"}, q \in {Absent, "none", "w8a32", "bad"}}
                \cup {[Plain EXCEPT !.batchOnly = TRUE]},
    None <- Absent

\* Two turns of up to three tokens; a marker the state does not know is a word there.
Talk == INSTANCE Conversation WITH
    Vocabulary <- [normal |-> {"w", "<think>", "<tool>", "eos"},
                   reasoning |-> {"w", "</think>", "eos"},
                   tool |-> {"w", "call", "pair", "alien", "</tool>", "eos"}],
    Longest <- 3, Turns <- 2, CacheMax <- 0, None <- Absent

\* Two layers; three requests after each other: dense, of one run of neighbours, of
\* several, and those that are refused.
Selections == {<<0, 1, 2>>, <<3, 4>>, <<0, 2>>, <<1, 4, 5>>, <<0, 1, 4>>}
Misplaced == {<<3, 0, 5>>, <<2, 2>>, <<-1, 0>>, <<1, 2, 3, 4>>}
Selected(p, n) == [positions |-> p, prompt |-> n, snapshot |-> FALSE, active |-> FALSE]
Selecting == INSTANCE SparsePrefill WITH
    Layers <- 2,
    Requests <- {Selected(p, Len(p)) : p \in Selections}
                \cup {Selected(p, IF Len(p) < 3 THEN Len(p) ELSE 3) : p \in Misplaced}
                \cup {[Selected(Absent, 3) EXCEPT !.active = TRUE],
                      [Selected(<<0, 2>>, 2) EXCEPT !.active = TRUE]},
    Runs <- 3, MaxText <- 5, MaxBlock <- 2, None <- Absent,
    run <- sparseRun, published <- dense

ASSUME EngineAssumption ==
    /\ Selecting!SparsePrefillAssumption
    /\ Talk!ConversationAssumption
    /\ Blocks!CyclePolicyAssumption /\ Copying!CyclePolicyAssumption
    /\ Batch!ContractsAssumption /\ Agreement!ContractsAssumption
    /\ Metrics!LiveMetricsAssumption
    /\ Recurrent!SnapshotMemoryAssumption /\ Rotating!SnapshotMemoryAssumption

EngineScenes == {"blocks", "copying", "rows", "agreement", "admission", "metrics",
                 "recurrent", "rotating", "configuring", "restarting", "loading", "talk",
                 "selecting"}

NoPolicy == /\ policy = Absent /\ gate = Absent /\ long = FALSE /\ left = 0 /\ source = "dflash"
            /\ spell = <<>> /\ before = <<>> /\ failed = FALSE /\ tries = <<>>
NoBatch == /\ drafts = Absent /\ maxima = Absent /\ rowBudget = 0 /\ cursor = Absent
           /\ selected = {} /\ rowPlan = Absent /\ posterior = Absent
           /\ line = {} /\ arrived = <<>> /\ now = 0 /\ granted = <<>>
NoMetrics == /\ clock = 0 /\ flight = Absent /\ shown = Absent /\ totals = <<>> /\ finished = <<>>
             /\ stats = <<>> /\ reader = Absent /\ payload = Absent /\ begun = 0

\* Each is in its initial states when it is the one that moves, else in one state.
EngineInit(scene) ==
    /\ CASE scene = "blocks" -> Blocks!Init /\ gate = Absent
         [] scene = "copying" -> Copying!Init /\ gate # Absent
         [] OTHER -> NoPolicy
    /\ CASE scene = "rows" -> Batch!Init
         [] scene = "agreement" -> /\ Agreement!Init /\ maxima = [s \in {1, 2} |-> 2]
                                   /\ rowBudget = 6 /\ \A s \in {1, 2} : posterior[s] = <<1, 1, 1>>
         [] OTHER -> NoBatch
    /\ IF scene = "metrics" THEN Metrics!Init ELSE NoMetrics
    /\ Recurrent!Init
    /\ CASE scene = "loading" -> Loading!Init
         [] scene = "restarting" -> Restarting!Init
         [] OTHER -> Configuring!Init
    /\ Talk!Init /\ (scene = "talk" \/ interface = "chat")
    /\ Selecting!Init /\ (scene = "selecting" \/ refused = {})

EngineNext(scene) ==
    \/ /\ \/ scene = "blocks" /\ Blocks!Next
          \/ scene = "copying" /\ Copying!Next
       /\ UNCHANGED <<batchVars, admissionVars, metricsVars, memoryVars, startVars, talkVars,
                      ropeVars>>
    \/ /\ \/ scene = "rows" /\ (Batch!Consider \/ Batch!CountRows \/ Batch!Accept)
          \/ scene = "agreement" /\ (Agreement!Consider \/ Agreement!CountRows \/ Agreement!Accept)
          \/ scene = "admission" /\ (\/ \E r \in {1, 2, 3} : Batch!Arrive(r) \/ Batch!Cancel(r)
                                     \/ \E free \in 0 .. 1 : Batch!Admit(free))
       /\ UNCHANGED <<policyVars, metricsVars, memoryVars, startVars, talkVars,
                      ropeVars>>
    \/ /\ scene = "metrics" /\ Metrics!Next
       /\ UNCHANGED <<policyVars, batchVars, admissionVars, memoryVars, startVars, talkVars,
                      ropeVars>>
    \/ /\ \/ scene = "recurrent" /\ Recurrent!Next
          \/ scene = "rotating" /\ Rotating!Next
       /\ UNCHANGED <<policyVars, batchVars, admissionVars, metricsVars, startVars, talkVars,
                      ropeVars>>
    \/ /\ \/ /\ scene = "configuring"
             /\ \/ Configuring!Starts
                \/ Configuring!ResolveConfig
                \/ Configuring!Load
                \/ Configuring!End
          \/ scene = "restarting" /\ (Restarting!Starts \/ Restarting!Works)
          \/ scene = "loading" /\ Loading!Next
       /\ UNCHANGED <<policyVars, batchVars, admissionVars, metricsVars, memoryVars, talkVars,
                      ropeVars>>
    \/ /\ scene = "talk" /\ Talk!Next
       /\ UNCHANGED <<policyVars, batchVars, admissionVars, metricsVars, memoryVars, startVars,
                      ropeVars>>
    \/ /\ scene = "selecting" /\ Selecting!Next
       /\ UNCHANGED <<policyVars, batchVars, admissionVars, metricsVars, memoryVars, startVars,
                      talkVars>>

EngineIsSound(scene) ==
    /\ scene = "blocks" => Blocks!PolicyInvariant
    /\ scene = "copying" => Copying!PolicyInvariant
    /\ scene \in {"rows", "admission"} => Batch!ContractsInvariant
    /\ scene = "agreement" => Agreement!ContractsInvariant
    /\ scene = "metrics" => Metrics!LiveMetricsInvariant
    /\ scene = "recurrent" => Recurrent!SnapshotMemoryInvariant
    /\ scene = "rotating" => Rotating!SnapshotMemoryInvariant
    /\ scene = "configuring" => Configuring!StartupInvariant
    /\ scene = "restarting" => Restarting!StartupInvariant
    /\ scene = "loading" => Loading!StartupInvariant
    /\ scene = "talk" => Talk!ConversationInvariant
    /\ scene = "selecting" => Selecting!SparsePrefillInvariant

(* ------------------------ texts, weights, receipts ------------------------ *)

\* Stage A with four argument lists: "clip" differs from "base" in what a resume
\* does not check and in its dataset, "renamed" in how it names the layers (which a
\* resume does not check either), "bits" in what it checks.
MCSettings == {"base", "clip", "renamed", "bits"}
MCNamed == [s \in MCSettings |-> IF s = "renamed" THEN "language_model" ELSE "model"]
MCChecked == [s \in MCSettings |-> IF s = "bits" THEN 8 ELSE 4]
MCWindowsOf == [s \in MCSettings |-> IF s = "clip" THEN "other" ELSE "mix"]

VARIABLES
    blocks, next, kept, removed, want, array, strata,               \* Corpus
    builder, rows, quotas, sessions, best, seen, output, outcome,   \* ... its prompts
    holdout, inputs, calibration, step, done, heap, scanned, combined,
    listing, vouched, attempts, plan, begin, reached, scored        \* Holdout

corpusVars == <<blocks, next, kept, removed, want, array, strata>>
promptVars == <<builder, rows, quotas, sessions, best, seen, output, outcome>>
holdoutVars == <<holdout, inputs, calibration, step, done, heap, scanned, combined,
                 listing, vouched, attempts>>
dataVars == <<corpusVars, promptVars, holdoutVars>>

\* Three blocks of one, three or four words out of two, so that copies, near copies
\* and blocks too short for either occur.
Texts == UNION {[1..n -> {1, 2}] : n \in {1, 3, 4}}

\* Two sources with two sessions; of three prompts one is too long.
Asking == [source : {"swe", "agentic"}, session : {1, 2}, prompt : {3, 4, 9}]
Rated == [project : {1, 2}, language : {"c", "rust"}, mode : {"exact", "critic"}]

Corpus == INSTANCE Corpus WITH
    Corpora <- [1..3 -> Texts], Ngram <- 2, ExactMin <- 2, NearMin <- 3,
    Jaccard <- <<1, 2>>, Containment <- <<2, 3>>,
    Lengths <- 2..7, Documents <- {<<2>>, <<3, 4>>, <<5, 2>>}, Window <- 2, MaxWindows <- 3,
    Datasets <- [1..3 -> Asking], LengthOf <- [p \in {3, 4, 9} |-> p], Shortest <- 2, Longest <- 5,
    Quotas <- {<< <<"swe", 1>>, <<"agentic", 1>> >>, << <<"swe", 2>> >>}, Reserve <- 1,
    Pools <- [1..3 -> Rated], receipt <- strata, tool <- builder

\* Two repositories, the second with a file that is not plain; or three documents.
\* Word 0 is the header before each file, so that 1, 0 is a run over a junction.
Short == {<<1>>, <<2, 3>>}
RepositoriesOf == {<< [i \in 1..3 |-> [path |-> <<2, 1, 3>>[i], category |-> f[i][1],
                                       text |-> f[i][2], plain |-> TRUE]],
                      << [path |-> 1, category |-> 1, text |-> <<3, 1>>, plain |-> TRUE],
                         [path |-> 2, category |-> 1, text |-> <<3, 3>>, plain |-> FALSE] >> >> :
                    f \in [1..3 -> (1..3) \X Short]}
WebsOf == {[i \in 1..3 |-> [key |-> k[i], domain |-> d[i][1], score |-> d[i][2],
                            text |-> d[i][3], plain |-> TRUE]] :
             k \in {<<1, 2, 3>>, <<2, 3, 1>>}, d \in [1..3 -> (0..2) \X (0..1) \X Short]}
Holdout == INSTANCE Holdout WITH
    Repositories <- RepositoriesOf, Webs <- WebsOf,
    Calibrations <- {<<>>, <<2, 3>>, <<1, 0>>}, FileHeader <- <<0>>, Width <- 2,
    Target <- 4, Quota <- <<2, 1, 1>>, Minimum <- 2, MinimumCombined <- 4,
    CandidateLimit <- 2, Runs <- 2, MaxTotal <- 9, MaxSeqLen <- 4, MaxChunk <- 4,
    tool <- holdout, rows <- listing, receipt <- vouched, runs <- attempts, windows <- scored

\* Each is in its initial states when it is the one that moves, else in one state.
DataInit(scene) ==
    /\ IF scene = "corpus" THEN Corpus!CorpusInit
       ELSE blocks = <<>> /\ next = 1 /\ kept = <<>> /\ removed = {}
            /\ want = <<>> /\ array = <<>> /\ strata = <<>>
    /\ IF scene = "prompts" THEN Corpus!PromptsInit
       ELSE builder = "none" /\ rows = <<>> /\ quotas = <<>> /\ sessions = {} /\ best = <<>>
            /\ seen = 0 /\ output = {} /\ outcome = "open"
    /\ IF scene = "holdout" THEN Holdout!Init
       ELSE holdout = "none" /\ inputs = <<>> /\ calibration = <<>> /\ step = "idle"
            /\ done = <<>> /\ heap = {} /\ scanned = 0 /\ combined = <<>> /\ listing = <<>>
            /\ vouched = <<>> /\ attempts = 0

DataNext(scene) ==
    \/ scene = "corpus" /\ Corpus!CorpusNext /\ UNCHANGED <<promptVars, holdoutVars>>
    \/ scene = "prompts" /\ Corpus!PromptsNext /\ UNCHANGED <<corpusVars, holdoutVars>>
    \/ scene = "holdout" /\ Holdout!Next /\ UNCHANGED <<corpusVars, promptVars>>

DataIsSound(scene) ==
    /\ scene = "corpus" => Corpus!CorpusInvariant
    /\ scene = "prompts" => Corpus!PromptsInvariant
    /\ scene = "holdout" => Holdout!HoldoutInvariant

VARIABLES scene,
          receipts, commits, tag, publisher            \* publishing

\* Two runs; the versions of a document differ in size.
MCSizeOf(version) == version
Publish == INSTANCE Publication WITH
    Runs <- {1, 2}, Versions <- {1, 2}, SizeOf <- MCSizeOf, Pin <- "pinned",
    OlderModel <- "older", volume <- receipts, runOf <- publisher

scoringVars == <<plan, begin, reached, scored>>
publicationVars == <<receipts, commits, tag, publisher>>

ProvenanceScenes ==
    {"corpus", "prompts", "holdout", "stage A", "scoring", "publication"}

ProvenanceInit ==
    /\ DataInit(scene)
    /\ Init /\ (scene # "stage A" => settings = "base")
    /\ IF scene = "scoring" THEN Holdout!ScoringInit
       ELSE plan = None /\ begin = 0 /\ reached = 0 /\ scored = <<>>
    /\ IF scene = "publication" THEN Publish!Init
       ELSE receipts = None /\ commits = <<>> /\ tag = None /\ publisher = None

ProvenanceNext ==
    \/ scene = "stage A" /\ Next
       /\ UNCHANGED <<scoringVars, publicationVars, dataVars>>
    \/ scene = "scoring" /\ Holdout!AddWindow
       /\ UNCHANGED <<vars, publicationVars, dataVars>>
    \/ scene = "publication" /\ Publish!Next
       /\ UNCHANGED <<vars, scoringVars, dataVars>>
    \/ DataNext(scene) /\ UNCHANGED <<vars, scoringVars, publicationVars>>

provenanceVars == <<vars, scoringVars, publicationVars, dataVars>>

\* The corpus, the prompts and the holdouts are as DataIsSound says: no copies, no
\* token lost, quotas kept, nothing of the calibration in a holdout.  Every token of
\* the held-out text is scored once; and whatever publishers do beside each other,
\* what one records is the tagged commit, which holds what it prepared, and the tag
\* never moves.
ProvenanceIsSound ==
    /\ []DataIsSound(scene)
    /\ [](scene = "scoring" => Holdout!EachTokenScoredOnce)
    /\ [](scene = "publication" => Publish!RecordedIsTagged)
    /\ [][scene = "publication" => Publish!TagStays]_publicationVars

CONSTANT Scenes       \* the scenes of this run

ASSUME Scenes \subseteq ProvenanceScenes \cup EngineScenes

PartsInit == scene \in Scenes /\ ProvenanceInit /\ EngineInit(scene)

PartsNext ==
    /\ UNCHANGED scene
    /\ \/ ProvenanceNext /\ UNCHANGED engineVars
       \/ EngineNext(scene) /\ UNCHANGED provenanceVars

PartsSpec == PartsInit /\ [][PartsNext]_<<scene, provenanceVars, engineVars>>

\* The loop's decisions about blocks and copies rest on what was measured since the
\* last one; rows and admissions are shared fairly; an answer of /metrics is coherent
\* and the next does not go back; no request writes into the arrays of a snapshot.
EngineStaysSound ==
    /\ []EngineIsSound(scene)
    /\ Blocks!ResumesFaster
    /\ Metrics!AnswersMoveOn
    /\ Talk!OnlyDeclaredCalls
===============================================================================
