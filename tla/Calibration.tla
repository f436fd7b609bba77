----------------------------- MODULE Calibration ------------------------------
(***************************************************************************)
(* Stage A of mlx_gptq: the process started by mlx_gptq.calibrate, with    *)
(* Pipeline.run (sequential.py) and ArtifactWriter/ArtifactReader          *)
(* (artifacts.py) on one --output directory.  The process may die at any   *)
(* step and is started again, perhaps with other arguments.                *)
(*                                                                         *)
(* Grain: one action per change of the directory, and one for what lies in *)
(* memory between two of them.  A layer's quantised weights are the record *)
(* [on, by] of the activations they were solved on and the settings of the *)
(* run that solved them; activations are the token windows and the layers  *)
(* they went through, so two of them are equal exactly when the            *)
(* (deterministic) computation behind them is.                             *)
(***************************************************************************)
EXTENDS Integers, Sequences

CONSTANTS NumLayers,    \* decoder layers
          Settings,     \* the arguments of a run
          Checked,      \* [Settings -> mode, bits, group_size, storage_dtype]
          Windows,      \* contents of calib_tokens.npy
          WindowsOf,    \* [Settings -> Windows]: dataset, nsamples, seqlen, seed
          Named,        \* [Settings -> --artifact-layers-prefix, or --layers-attr]
          Nothing,      \* what a file that is not whole holds
          TearsTokens,  \* may a process die while it writes calib_tokens.npy?
          CrashBound    \* model bound on the number of crashes

ASSUME CalibrationAssumption ==
    /\ NumLayers \in Nat \ {0}
    /\ \A s \in Settings : WindowsOf[s] \in Windows
    /\ TearsTokens \in BOOLEAN /\ CrashBound \in Nat

VARIABLES tokens,    \* calib_tokens.npy
          files,     \* layer_0000.safetensors, ...
          manifest,  \* manifest.json: [header, sha, done, tensors]
          pc,        \* where the process is; "down" when there is none
          settings,  \* its arguments
          held,      \* writer.manifest
          layer,     \* L in Pipeline.run
          act,       \* batches: the activations that enter layer L
          result,    \* what solve_layer returned
          crashes

disk == <<tokens, files, manifest>>
memory == <<settings, held, layer, act, result>>
vars == <<disk, pc, memory, crashes>>

Layers == 0..(NumLayers - 1)

Activations(windows, layers) == [tokens |-> windows, through |-> layers]
Solved(activations, s) == [on |-> activations, by |-> s]
\* Mutant of Through: the forward pass after the solve is forgotten.
ThroughNothing(activations, c) == activations

Through(activations, c) == [activations EXCEPT !.through = Append(@, c)]

\* A layer that no artifact was applied to: the weights of the checkpoint.
Unquantised == Nothing

\* What a run with settings s makes of a layer whose artifacts are c: it finds
\* them only if it names the layer as the run did that solved it.
Applied(c, s) == IF Named[c.by] = Named[s] THEN c ELSE Unquantised

NoFile == [state |-> "none", holds |-> Nothing]
Torn == [state |-> "torn", holds |-> Nothing]
File(x) == [state |-> "whole", holds |-> x]
Whole(f) == f.state = "whole"

\* Mutant of Header: the hash is of the windows the arguments ask for.
HeaderOfArguments(s, windows) ==
    [header |-> s, sha |-> WindowsOf[s], done |-> {},
     tensors |-> [l \in Layers |-> Nothing]]

\* The manifest of a directory without one: the run's arguments, nothing done.
Header(s, windows) ==
    [header |-> s, sha |-> windows, done |-> {},
     tensors |-> [l \in Layers |-> Nothing]]

Init ==
    /\ tokens = NoFile
    /\ files = [l \in Layers |-> NoFile]
    /\ manifest = NoFile
    /\ pc = "down"
    /\ settings \in Settings
    /\ held = Nothing
    /\ layer = 0
    /\ act = Nothing
    /\ result = Nothing
    /\ crashes = 0

(* -------------------------- before the first layer ---------------------- *)

\* The process ends; nothing of its memory is left.
Ends ==
    /\ pc' = "down"
    /\ held' = Nothing /\ layer' = 0 /\ act' = Nothing /\ result' = Nothing
    /\ UNCHANGED <<settings, disk>>

Start(s) ==
    /\ pc = "down"
    /\ pc' = "tokens"
    /\ settings' = s
    /\ UNCHANGED <<disk, held, layer, act, result, crashes>>

\* calib_tokens.npy is used when it exists: np.load raises if it is torn.
ReuseTokens ==
    /\ pc = "tokens"
    /\ Whole(tokens)
    /\ pc' = "open"
    /\ UNCHANGED <<disk, memory, crashes>>

RejectTokens ==
    /\ pc = "tokens"
    /\ tokens = Torn
    /\ Ends
    /\ UNCHANGED crashes

\* np.save or shutil.copyfile writes the file in place: it exists, then it is whole.
CreateTokens ==
    /\ pc = "tokens"
    /\ tokens = NoFile
    /\ tokens' = Torn
    /\ pc' = "writing tokens"
    /\ UNCHANGED <<files, manifest, memory, crashes>>

WriteTokens ==
    /\ pc = "writing tokens"
    /\ tokens' = File(WindowsOf[settings])
    /\ pc' = "open"
    /\ UNCHANGED <<files, manifest, memory, crashes>>

\* Mutant of OpenArtifacts: every run starts a manifest of its own.
OpenAnew ==
    /\ pc = "open"
    /\ held' = Header(settings, tokens.holds)
    /\ act' = Activations(tokens.holds, <<>>)
    /\ layer' = 0
    /\ pc' = "layer"
    /\ UNCHANGED <<disk, settings, result, crashes>>

\* Mutant of OpenArtifacts: no setting is checked.
OpenUnchecked ==
    /\ pc = "open"
    /\ held' = IF Whole(manifest) THEN manifest.holds ELSE Header(settings, tokens.holds)
    /\ act' = Activations(tokens.holds, <<>>)
    /\ layer' = 0
    /\ pc' = "layer"
    /\ UNCHANGED <<disk, settings, result, crashes>>

\* ArtifactWriter.__init__, then catch_layer0_inputs.  A manifest that is there
\* is taken over whole, its header included, if the four checked settings agree.
OpenArtifacts ==
    /\ pc = "open"
    /\ Whole(manifest) => Checked[manifest.holds.header] = Checked[settings]
    /\ held' = IF Whole(manifest) THEN manifest.holds ELSE Header(settings, tokens.holds)
    /\ act' = Activations(tokens.holds, <<>>)
    /\ layer' = 0
    /\ pc' = "layer"
    /\ UNCHANGED <<disk, settings, result, crashes>>

\* Mutant of ResumeMismatch: a directory with a manifest is refused.
RefuseAnyManifest ==
    /\ pc = "open"
    /\ Whole(manifest)
    /\ Ends
    /\ UNCHANGED crashes

ResumeMismatch ==
    /\ pc = "open"
    /\ Whole(manifest)
    /\ Checked[manifest.holds.header] # Checked[settings]
    /\ Ends
    /\ UNCHANGED crashes

(* ------------------------------ layer by layer -------------------------- *)

\* reader.has: the manifest lists the layer's tensors under the run's names.
ReaderHas(l) == Named[held.tensors[l].by] = Named[settings]

\* layer_done: apply_precomputed passes over every tensor that the reader does
\* not have, without a word, and opens no file for it; the activations then go
\* through the layer as the checkpoint has it.
ReplayPassedOver ==
    /\ pc = "layer"
    /\ layer \in held.done
    /\ ~ ReaderHas(layer)
    /\ act' = Through(act, Unquantised)
    /\ layer' = layer + 1
    /\ UNCHANGED <<disk, pc, settings, held, result, crashes>>

\* Otherwise it loads the file of the layer (load_file raises if it is not whole)
\* and the activations go through its weights.
Replay ==
    /\ pc = "layer"
    /\ layer \in held.done
    /\ ReaderHas(layer)
    /\ IF Whole(files[layer])
       THEN /\ act' = Through(act, files[layer].holds)
            /\ layer' = layer + 1
            /\ UNCHANGED <<disk, pc, settings, held, result>>
       ELSE Ends
    /\ UNCHANGED crashes

\* Otherwise: capture, solve_layer, and the activations go through the layer
\* before it is written.
Solve ==
    /\ pc = "layer"
    /\ layer \in Layers \ held.done
    /\ result' = Solved(act, settings)
    /\ act' = Through(act, result')
    /\ pc' = "save"
    /\ UNCHANGED <<disk, settings, held, layer, crashes>>

\* write_layer: save_file writes in place, over what an earlier run left.
SaveLayer ==
    /\ pc = "save"
    /\ files' = [files EXCEPT ![layer] = Torn]
    /\ pc' = "saving"
    /\ UNCHANGED <<tokens, manifest, memory, crashes>>

LayerSaved ==
    /\ pc = "saving"
    /\ files' = [files EXCEPT ![layer] = File(result)]
    /\ pc' = "list"
    /\ UNCHANGED <<tokens, manifest, memory, crashes>>

\* Mutant of ListLayer: the manifest is flushed before the file is written.
ListLayerEarly ==
    /\ pc = "saving"
    /\ held' = [held EXCEPT !.done = @ \cup {layer}, !.tensors[layer] = result]
    /\ manifest' = File(held')
    /\ layer' = layer + 1
    /\ pc' = "layer"
    /\ UNCHANGED <<tokens, files, settings, act, result, crashes>>

\* ... the manifest in memory, and _flush: a temporary file and os.replace.
ListLayer ==
    /\ pc = "list"
    /\ held' = [held EXCEPT !.done = @ \cup {layer}, !.tensors[layer] = result]
    /\ manifest' = File(held')
    /\ layer' = layer + 1
    /\ pc' = "layer"
    /\ UNCHANGED <<tokens, files, settings, act, result, crashes>>

\* All layers: the process exits.
Finish ==
    /\ pc = "layer"
    /\ layer = NumLayers
    /\ Ends
    /\ UNCHANGED crashes

\* The process is killed, or an exception (out of memory, disk full) ends it.
Crash ==
    /\ pc # "down"
    /\ pc = "writing tokens" => TearsTokens
    /\ crashes < CrashBound
    /\ crashes' = crashes + 1
    /\ Ends

(* --------------------------- the specification -------------------------- *)

Run ==
    \/ \E s \in Settings : Start(s)
    \/ ReuseTokens
    \/ RejectTokens
    \/ CreateTokens
    \/ WriteTokens
    \/ OpenArtifacts
    \/ ResumeMismatch
    \/ ReplayPassedOver
    \/ Replay
    \/ Solve
    \/ SaveLayer
    \/ LayerSaved
    \/ ListLayer
    \/ Finish

Next == Run \/ Crash

Spec == Init /\ [][Next]_vars

(* ------------------------------ properties ------------------------------ *)

\* The layers listed in the manifest, from the first on: what Stage B reads.
Listed == IF Whole(manifest) THEN manifest.holds.done ELSE {}

Frontier == CHOOSE k \in 0..NumLayers : k \notin Listed /\ \A j \in 0..(k - 1) : j \in Listed

PublishedLayers == [k \in 1..Frontier |-> files[k - 1].holds]

\* Types of what does not nest (a layer's record holds the layers before it).
TypeOK ==
    /\ tokens \in {NoFile, Torn} \cup {File(w) : w \in Windows}
    /\ DOMAIN files = Layers
    /\ Listed \subseteq Layers
    /\ pc \in {"down", "tokens", "writing tokens", "open", "layer", "save", "saving", "list"}
    /\ settings \in Settings
    /\ layer \in 0..NumLayers
    /\ crashes \in 0..CrashBound

\* calib_tokens.npy is "the exact token windows used": by every listed layer,
\* in whichever run it was solved, and it is the file the header's hash is of.
TokensAreRecorded ==
    \A l \in Listed : /\ tokens = File(manifest.holds.sha)
                     /\ files[l].holds.on.tokens = manifest.holds.sha

\* A reader of the directory, at any moment and after any crash: every layer
\* the manifest lists is a whole file, the one the manifest describes, and solved
\* on the recorded windows.
ListedLayersAreWhole ==
    /\ \A l \in Listed : files[l] = File(manifest.holds.tensors[l])
    /\ TokensAreRecorded

\* The activations that enter a layer have been through every layer before it,
\* replayed or solved by this process: through the one on disk if this run names
\* it as the run did that solved it, else through the unquantised one.
ActivationsAreOfTheArtifacts ==
    pc = "layer" =>
       act = Activations(tokens.holds,
                         [k \in 1..layer |-> Applied(files[k - 1].holds, settings)])

\* A listed layer was solved on what the listed layers before it give, as long as
\* they all are named as it is.
SolvedOverTheListed ==
    \A l \in Listed :
       (\A j \in 0..(l - 1) : Named[files[j].holds.by] = Named[files[l].holds.by])
       => files[l].holds.on =
             Activations(manifest.holds.sha, [k \in 1..l |-> files[k - 1].holds])

\* A listed layer is final: no later run, no crash takes it back.
ListedLayersStay ==
    [][\A l \in Listed : l \in Listed' /\ files'[l] = files[l]]_vars

\* The directory implements a run that is never interrupted.
Promise == INSTANCE CalibrationRun WITH published <- PublishedLayers,
                                       Unquantised <- Unquantised
ImplementsCalibrationRun == Promise!Spec
===============================================================================
