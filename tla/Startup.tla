-------------------------------- MODULE Startup --------------------------------
(***************************************************************************)
(* How a server comes up: the settings of the command line and of the      *)
(* environment become one configuration, a diagnostics directory records   *)
(* it, the worker loads the models and publishes them field by field while *)
(* the main thread waits.  A run may die at any step and the operator may  *)
(* start another on the same directory; doctor and generate resolve the    *)
(* same settings their own way.                                            *)
(***************************************************************************)
EXTENDS Integers, Sequences, FiniteSets, TLC

CONSTANTS
    Varied,        \* the settings somebody sets by a flag
    Exported,      \* and those somebody sets in the environment
    Texts,         \* what each of them may be set to, by a flag or in the environment
    Most,          \* how many flags one command line has at most
    Runs,          \* how many processes are started
    Facts,         \* what the models and the machine may be, see Init
    Commands,      \* the other flags of a command line, see Start
    Bad, Blank,    \* a text that is no value of its setting, and an empty one
    None

VARIABLES
    facts,         \* the models and the machine of this behaviour
    process,       \* the server process, or None
    directories,   \* what lies in the diagnostics directories; 0 is the explicit one
    started,       \* how many processes there were
    report         \* what doctor said last, or None

vars == <<facts, process, directories, started, report>>

Sizes == {"prefill_step_size", "draft_window_size", "prefix_cache_max_entries"}
Counts == {"draft_sink_size", "draft_full_context_min_ctx", "verify_len_cap",
           "prefix_cache_max_bytes", "max_snapshot_tokens", "prefix_cache_l2_max_bytes",
           "target_fa_window", "dflash_max_ctx", "prefix_cache_l2_frontier_stride"}
Switches == {"prefix_cache", "prefix_cache_l2", "clear_cache_boundaries", "quantize_kv_cache"}
Words == {"verify_mode", "copyspec_mode", "prefix_cache_l2_dir"}
Options == Sizes \cup Counts \cup Switches \cup Words

\* The settings generate and benchmark have flags for.
OfflineSettings == {"verify_mode", "copyspec_mode", "prefill_step_size", "target_fa_window",
                    "quantize_kv_cache", "draft_sink_size", "draft_window_size",
                    "draft_full_context_min_ctx", "verify_len_cap"}

Product == [s \in Options |->
    CASE s \in Sizes -> 8
      [] s \in Switches -> s # "quantize_kv_cache"
      [] s = "verify_mode" -> "adaptive"
      [] s = "copyspec_mode" -> "conservative"
      [] s = "prefix_cache_l2_dir" -> "home"
      [] s \in {"verify_len_cap", "target_fa_window", "dflash_max_ctx",
                "prefix_cache_l2_frontier_stride"} -> 0
      [] OTHER -> 8]

Refused == None

----------------------------------------------------------------------------
(* From settings to a configuration.  Flags and environment map some of the  *)
(* settings to values.                                                       *)

\* Mutant: the environment wins over the flag.
ShellWins(s, flags, env) ==
    IF s \in DOMAIN env /\ env[s] # Blank THEN env[s]
    ELSE IF s \in DOMAIN flags THEN flags[s] ELSE Product[s]

\* A flag wins over the environment, the environment over the product's default; a
\* blank text counts as none.
Setting(s, flags, env) ==
    IF s \in DOMAIN flags THEN flags[s]
    ELSE IF s \in DOMAIN env /\ env[s] # Blank THEN env[s]
    ELSE Product[s]

Source(s, flags, env) ==
    IF s \in DOMAIN flags THEN "cli"
    ELSE IF s \in DOMAIN env /\ env[s] # Blank THEN "env" ELSE "default"

InRange(c) ==
    /\ \A s \in Sizes : c[s] > 0
    /\ \A s \in Counts \ {"prefix_cache_l2_max_bytes"} : c[s] >= 0
    /\ ~(c["quantize_kv_cache"] /\ c["target_fa_window"] > 0)
    /\ c["prefix_cache_l2"] =>
           c["prefix_cache_l2_dir"] # Blank /\ c["prefix_cache_l2_max_bytes"] >= 0

\* Mutant: a rotating target cache switches the memory tier off, and forgets the disk.
ForgetsTheDisk(c) ==
    IF ~c["prefix_cache"] THEN {"prefix_cache_l2"}
    ELSE IF c["target_fa_window"] > 0 THEN {"prefix_cache"} ELSE {}

\* A setting another one rules out is switched off, not refused.
SwitchedOff(c) ==
    IF ~c["prefix_cache"] THEN {"prefix_cache_l2"}
    ELSE IF c["target_fa_window"] > 0 THEN {"prefix_cache", "prefix_cache_l2"} ELSE {}

Validated(c) ==
    IF InRange(c)
    THEN [s \in Options |-> IF s \in SwitchedOff(c) THEN FALSE ELSE c[s]]
    ELSE Refused

WithDefaults(given) ==
    Validated([s \in Options |-> IF s \in DOMAIN given THEN given[s] ELSE Product[s]])

Resolve(flags, env) ==
    LET c == [s \in Options |-> Setting(s, flags, env)]
    IN  IF \E s \in Options : c[s] = Bad THEN Refused ELSE WithDefaults(c)

\* generate and benchmark look at their flags only, and keep no snapshots.
OfflineConfig(flags) ==
    WithDefaults([s \in {"prefix_cache", "prefix_cache_l2"} |-> FALSE]
                 @@ [s \in OfflineSettings \cap DOMAIN flags |-> flags[s]])

----------------------------------------------------------------------------
(* Loading: facts holds what the registry knows of the target ("w4" and      *)
(* "plain": it has a draft of its own, quantized by default or not), whether  *)
(* the target is of the family the registry names, whether the draft is an   *)
(* EAGLE-4 one and what lm_head tensors it has, whether the chip emulates    *)
(* bf16, whether the target takes verify linears, and whether the directory  *)
(* of the disk tier can be written.                                          *)

ResolvedDraft(command) ==
    IF command.draft # None THEN command.draft
    ELSE IF facts.spec # None THEN "own" ELSE None

\* Mutant: the default of the product is applied to any draft.
QuantizesAnyDraft(command, draft) ==
    CASE command.quant = "none" -> None
      [] command.quant # None /\ command.quant # "none" -> command.quant
      [] command.quant = None -> IF facts.spec = "w4" THEN "w4" ELSE None

EffectiveQuant(command, draft) ==
    CASE command.quant = "none" -> None
      [] command.quant # None /\ command.quant # "none" -> command.quant
      [] command.quant = None -> IF facts.spec = "w4" /\ draft = "own" THEN "w4" ELSE None

HeadAccepted == \/ facts.heads = "none"
                \/ facts.eagle /\ facts.heads = "weight"

\* Activations of 32 bits are asked for; a chip that emulates bf16 gets fp16 instead.
LoadType(quant) ==
    IF quant = "w8a32" THEN "float32"
    ELSE IF quant # None /\ facts.emulated THEN "float16" ELSE "checkpoint"

\* Whether the verify linears are put into the target.
VerifyLinears(mode) == facts.verifies /\ mode # "off"

\* What the worker has loaded when nothing is refused on the way.
Bundle(command, mode) ==
    LET draft == ResolvedDraft(command)
        quant == EffectiveQuant(command, draft)
    IN  [draft |-> draft, quant |-> quant, type |-> LoadType(quant),
         backend |-> IF facts.eagle THEN "eagle4" ELSE "eager",
         verifies |-> VerifyLinears(mode), hooks |-> TRUE]

TargetOnly(mode) ==
    [draft |-> None, quant |-> None, type |-> "none", backend |-> None,
     verifies |-> VerifyLinears(mode), hooks |-> FALSE]

Loads(command, mode) ==
    \/ command.batchOnly
    \/ LET draft == ResolvedDraft(command) IN
       /\ draft # None
       /\ facts.spec # None => facts.family
       /\ HeadAccepted
       /\ EffectiveQuant(command, draft) # "bad"
       /\ ~(facts.eagle /\ mode = "ddtree")

----------------------------------------------------------------------------
(* The process: it reads its settings, makes the directory, resolves, writes *)
(* the manifest and the effective configuration, and lets a worker load.     *)

Environments == {<<>>} \cup UNION {{s :> v : v \in Texts[s]} : s \in Exported}
FlagSets ==
    LET one == UNION {{s :> v : v \in Texts[s] \ {Bad}} : s \in Varied}
    IN  {<<>>} \cup one \cup
        IF Most > 1 THEN {a @@ b : a \in one, b \in one} ELSE {}

Init ==
    /\ facts \in Facts
    /\ process = None /\ started = 0 /\ report = None
    /\ directories = [d \in 0 .. Runs |-> [events |-> {}, manifest |-> None, effective |-> None,
                                           served |-> FALSE]]

\* A process begins with its flags and a copy of the environment.  Target-only serving
\* turns the snapshots off as if the flags had, and takes no draft.
Start(command, flags, env) ==
    /\ process = None /\ started < Runs
    /\ started' = started + 1
    /\ ~(command.batchOnly /\ command.draft # None)
    /\ ~(command.mode = "off" /\ command.explicit)
    /\ process' = [step |-> IF command.mode = "off" THEN "resolve" ELSE "directory",
                   command |-> command, given |-> flags, env |-> env,
                   flags |-> IF command.batchOnly
                             THEN [s \in {"prefix_cache", "prefix_cache_l2"} |-> FALSE] @@ flags
                             ELSE flags,
                   directory |-> None, config |-> None, bundle |-> None, shown |-> {}]
    /\ UNCHANGED <<facts, directories, report>>

\* The explicit directory is used as it is found, any other is new.
RunDirectory(command) == IF command.explicit THEN 0 ELSE started

ConfigureDiagnostics ==
    /\ process # None /\ process.step = "directory"
    /\ LET d == RunDirectory(process.command) IN
       /\ process' = [process EXCEPT !.directory = d, !.step = "resolve"]
       /\ directories' = [directories EXCEPT ![d].events = @ \cup {"post", "cache"} \cup
                              IF process.command.mode = "full" THEN {"cycle"} ELSE {}]
    /\ UNCHANGED <<facts, started, report>>

\* A refused configuration ends the process, and leaves its directory behind.
ResolveConfig ==
    /\ process # None /\ process.step = "resolve"
    /\ LET config == Resolve(process.flags, process.env) IN
       process' = IF config = Refused THEN None
                  ELSE [process EXCEPT !.config = config,
                            !.step = IF process.directory = None THEN "load" ELSE "manifest"]
    /\ UNCHANGED <<facts, directories, started, report>>

\* Mutant: the manifest of an earlier run in the directory is kept.
KeepsTheManifest ==
    /\ process # None /\ process.step = "manifest"
    /\ directories' = [directories EXCEPT ![process.directory].manifest =
                           IF @ = None THEN process.config ELSE @]
    /\ process' = [process EXCEPT !.step = "effective"]
    /\ UNCHANGED <<facts, started, report>>

WriteManifest ==
    /\ process # None /\ process.step = "manifest"
    /\ directories' = [directories EXCEPT ![process.directory].manifest = process.config]
    /\ process' = [process EXCEPT !.step = "effective"]
    /\ UNCHANGED <<facts, started, report>>

WriteEffective ==
    /\ process # None /\ process.step = "effective"
    /\ directories' = [directories EXCEPT ![process.directory].effective = process.config]
    /\ process' = [process EXCEPT !.step = "load"]
    /\ UNCHANGED <<facts, started, report>>

\* The context validates once more; then the worker loads, or keeps failing.
Load ==
    /\ process # None /\ process.step = "load"
    /\ LET config == Validated(process.config)
           mode == config["verify_mode"]
           command == process.command
       IN  process' = [process EXCEPT !.config = config,
               !.step = IF Loads(command, mode) THEN "publish" ELSE "failed",
               !.bundle = IF ~Loads(command, mode) THEN None
                          ELSE IF command.batchOnly THEN TargetOnly(mode)
                          ELSE Bundle(command, mode)]
    /\ UNCHANGED <<facts, directories, started, report>>

\* The attributes of the provider somebody asks for, in the order the worker assigns them.
Order == <<"model", "draft_model", "draft_backend", "target_ops", "model_key">>

Publish ==
    /\ process # None /\ process.step = "publish" /\ Cardinality(process.shown) < Len(Order)
    /\ process' = [process EXCEPT !.shown = @ \cup {Order[Cardinality(@) + 1]}]
    /\ UNCHANGED <<facts, directories, started, report>>

\* Mutant: the main thread looks at the target only.
TargetReady == "target_ops" \in process.shown

\* What the main thread looks at, in a thread of its own, every 0.2 seconds.
ComponentsReady ==
    /\ "model_key" \in process.shown /\ "target_ops" \in process.shown
    /\ \/ process.command.batchOnly
       \/ "draft_backend" \in process.shown /\ process.bundle.backend # None

BeginServing ==
    /\ process # None /\ process.step = "publish" /\ ComponentsReady
    /\ process' = [process EXCEPT !.step = "serving"]
    /\ directories' = IF process.directory = None THEN directories
                      ELSE [directories EXCEPT ![process.directory].served = TRUE]
    /\ UNCHANGED <<facts, started, report>>

\* The process dies, is stopped, or gives up on a worker that publishes nothing.
End ==
    /\ process # None
    /\ process' = None
    /\ UNCHANGED <<facts, directories, started, report>>

\* Mutant: doctor does not look at what it has loaded.
FatalUnloaded(command, config) ==
    \/ config = Refused
    \/ config # Refused /\ config["prefix_cache_l2"] /\ ~facts.writable
    \/ ResolvedDraft(command) = None

\* The checks of doctor --load-model a server would fail at, and those it would not.
Fatal(command, config) ==
    \/ config = Refused
    \/ config # Refused /\ config["prefix_cache_l2"] /\ ~facts.writable
    \/ ResolvedDraft(command) = None
    \/ ~Loads(command, IF config = Refused THEN "env" ELSE config["verify_mode"])

Warned(config) ==
    \/ facts.emulated
    \/ config # Refused /\ config["target_fa_window"] > 0

ExitCode(command, config) ==
    IF Fatal(command, config) THEN 1 ELSE IF Warned(config) THEN 2 ELSE 0

\* doctor resolves the settings of a server, tries them and reports.
Doctor(command, flags, env) ==
    /\ process = None
    /\ LET config == Resolve(flags, env) IN
       report' = [command |-> command, flags |-> flags, env |-> env, config |-> config,
                  sources |-> [s \in Options |-> Source(s, flags, env)],
                  code |-> ExitCode(command, config)]
    /\ UNCHANGED <<facts, process, directories, started>>

Starts == \E command \in Commands, flags \in FlagSets, env \in Environments :
              Start(command, flags, env)
\* doctor has no flags for diagnostics, draft quantization and target-only serving; it
\* is asked once, before the server.
Asks == \E command \in Commands, flags \in FlagSets, env \in Environments :
            /\ report = None /\ started = 0
            /\ ~command.batchOnly /\ command.quant = None /\ command.mode = "off"
            /\ Doctor(command, flags, env)
Works ==
    \/ ConfigureDiagnostics
    \/ ResolveConfig
    \/ WriteManifest
    \/ WriteEffective
    \/ Load
    \/ Publish
    \/ BeginServing
    \/ End

Next == Starts \/ Asks \/ Works

----------------------------------------------------------------------------
Configured == process # None /\ process.config # None
Serving == process # None /\ process.step = "serving"

\* What somebody set is in effect, whichever way it was set, unless a setting it cannot
\* be combined with has switched it off; and nothing else is.
SettingsAreHeard ==
    Configured => \A s \in Options :
        \/ process.config[s] = Setting(s, process.given, process.env)
        \/ /\ s \in {"prefix_cache", "prefix_cache_l2"} /\ process.config[s] = FALSE
           /\ \/ process.config["target_fa_window"] > 0 \/ process.command.batchOnly
              \/ s = "prefix_cache_l2" /\ ~process.config["prefix_cache"]

\* No process works under settings that exclude each other: the disk tier is the memory
\* tier's, neither exists beside a rotating target cache, which cannot be quantized; a
\* server without a draft has neither.  To validate again changes nothing.
NoContradiction ==
    Configured =>
        LET c == process.config IN
        /\ c["prefix_cache_l2"] => c["prefix_cache"] /\ c["prefix_cache_l2_dir"] # Blank
        /\ c["prefix_cache"] => c["target_fa_window"] = 0 /\ ~process.command.batchOnly
        /\ c["quantize_kv_cache"] => c["target_fa_window"] = 0
        /\ Validated(c) = c

\* generate never reads what the environment says and never keeps snapshots; where it
\* accepts its flags, a server given the same flags and no environment works alike.
OfflineAgrees ==
    Configured /\ DOMAIN process.given \subseteq OfflineSettings /\ process.env = <<>> =>
        LET offline == OfflineConfig(process.given) IN
        /\ offline # Refused
        /\ ~offline["prefix_cache"] /\ ~offline["prefix_cache_l2"]
        /\ \A s \in OfflineSettings : offline[s] = process.config[s]

\* While a server answers, the files of its diagnostics directory hold its configuration,
\* whichever runs used the directory before or died in it; and a directory without a
\* manifest served nobody.
ManifestTellsTheTruth ==
    /\ Serving /\ process.directory # None =>
           /\ directories[process.directory].manifest = process.config
           /\ directories[process.directory].effective = process.config
           /\ {"post", "cache"} \subseteq directories[process.directory].events
    /\ \A d \in DOMAIN directories : directories[d].served => directories[d].manifest # None

\* The main thread answers only once the worker has published everything of one bundle,
\* and a draft it may speak with: one head, a backend that can verify the chosen way,
\* quantized as asked for, else as its own target was validated with.
ServesAWholeBundle ==
    Serving =>
        LET command == process.command
            bundle == process.bundle
        IN  /\ process.shown = {Order[k] : k \in DOMAIN Order}
            /\ command.batchOnly <=> bundle.draft = None
            /\ bundle.backend = "eagle4" => process.config["verify_mode"] # "ddtree"
            /\ bundle.draft # None /\ facts.heads # "none" => bundle.backend = "eagle4"
            /\ command.quant = None /\ bundle.quant # None => bundle.draft = "own"
            /\ command.quant = "none" => bundle.type \in {"checkpoint", "none"}
            /\ process.config["verify_mode"] = "off" => ~bundle.verifies

\* doctor foretells: under the settings it has seen, a server gets the configuration it
\* showed, from the sources it named, and what doctor loaded, the server loads.
DoctorForetells ==
    report # None /\ process # None /\ ~process.command.batchOnly
      /\ process.given = report.flags /\ process.env = report.env =>
        /\ process.config # None =>
               /\ process.config = report.config
               /\ \A s \in Options : report.sources[s] = "default" =>
                      process.config[s] = Product[s] \/ s \in SwitchedOff(process.config)
        /\ /\ report.command.draft = process.command.draft /\ report.code # 1
           /\ process.command.quant # "bad"
           => process.step # "failed"

StartupInvariant ==
    /\ SettingsAreHeard
    /\ NoContradiction
    /\ OfflineAgrees
    /\ ManifestTellsTheTruth
    /\ ServesAWholeBundle
    /\ DoctorForetells
===============================================================================
