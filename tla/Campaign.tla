------------------------------ MODULE Campaign ------------------------------
(***************************************************************************)
(* A calibration campaign: commands on the Mac that prepare a CUDA host,   *)
(* start Stage A there, fetch what it has written, pack it and lay a BF16  *)
(* overlay over the packed model                                           *)
(* (campaigns/mlx-gptq-calibration/mlx_gptq_calibration/cli.py, hybrid.py, *)
(* campaign.py).  One command runs at a time and may be interrupted at any *)
(* step; Stage A runs beside them on the host and may be killed.           *)
(*                                                                         *)
(* A file is None, Torn (part of it), or whole; a solved layer is the same *)
(* bytes whenever it is solved (Calibration.tla).                          *)
(***************************************************************************)
EXTENDS Integers, Sequences

CONSTANTS
    NumLayers,
    Shards,      \* shards of the packed model that hold overlay targets, in order
    Pins,        \* revisions hybrid.source may be pinned at
    MaxCommands, \* bound: commands given
    None, Torn

\* What the constants are (evaluated by the module that instantiates this one).
CampaignAssumption ==
    /\ NumLayers \in Nat /\ Shards \in Seq({Shards[i] : i \in DOMAIN Shards})
    /\ None \notin Pins \cup {"whole", "load", "save", "solve", "write", "list"}

VARIABLES
    host,        \* inputs and artifacts on the CUDA host
    job,         \* Stage A: None, or what it does next
    pin,         \* hybrid.source.revision of the campaign file
    cmd,         \* the command that runs
    calib,       \* runs/<name>/calibration on the Mac
    overlay,     \* the overlay file: None or the revision it was fetched at
    model,       \* the packed model: None, Torn before its index is there, or its shards
    receipt,     \* the last receipt of apply-overlay or pack
    given,       \* commands given
    broken,      \* history: an overlay was interrupted while it replaced shards of
                 \* this model, and none has been run to its end since
    unfinished   \* history: pack has not been through all shards of this model

vars == <<host, job, pin, cmd, calib, overlay, model, receipt, given, broken, unfinished>>

Layers == 1..NumLayers
Whole == "whole"
ShardSet == {Shards[i] : i \in DOMAIN Shards}
NoFiles == [n \in Layers |-> None]
Idle == [op |-> "none"]

Init ==
    /\ \E text \in BOOLEAN :     \* calibration.txt, or tokens in calibration.npy
          host = [corpus |-> None, weights |-> None, text |-> text, tokens |-> None,
                  pid |-> None, file |-> NoFiles, listed |-> {}]
    /\ job = None /\ pin \in Pins /\ cmd = Idle
    /\ calib = [file |-> NoFiles, listed |-> None]
    /\ overlay = None /\ model = None /\ receipt = None /\ given = 0
    /\ broken = FALSE /\ unfinished = FALSE

Give(c) == cmd = Idle /\ given < MaxCommands /\ cmd' = c /\ given' = given + 1
End == cmd' = Idle

(* -------------------------------- Stage A -------------------------------- *)

\* calib_tokens.npy is made once and written in place; one that is torn ends every
\* run, and so does a torn corpus, unless it is text, of which any part is as good.
JobLoad ==
    /\ job \in {"load", "save"}
    /\ \/ job = "load" /\ host.tokens = Whole /\ job' = "solve" /\ UNCHANGED host
       \/ job = "load" /\ host.tokens = None /\ (host.text \/ host.corpus = Whole)
          /\ job' = "save" /\ host' = [host EXCEPT !.tokens = Torn]
       \/ job = "load" /\ \/ host.tokens = Torn
                          \/ host.tokens = None /\ ~host.text /\ host.corpus # Whole
          /\ job' = None /\ UNCHANGED host
       \/ job = "save" /\ job' = "solve" /\ host' = [host EXCEPT !.tokens = Whole]
    /\ UNCHANGED <<pin, cmd, calib, overlay, model, receipt, given, broken, unfinished>>

\* Layers missing from the manifest are solved in order; the file is written in
\* place, the manifest through a temporary file.
Unlisted == {n \in Layers : n \notin host.listed}
\* The manifest is written before the layer is whole.
JobStepListing ==
    /\ job = "solve"
    /\ \E n \in Unlisted : host' = [host EXCEPT !.file[n] = Torn, !.listed = @ \cup {n}]
    /\ UNCHANGED <<job, pin, cmd, calib, overlay, model, receipt, given, broken, unfinished>>

JobStep ==
    /\ job \in {"solve", "write", "list"}
    /\ \E n \in Unlisted :
          /\ \A m \in Unlisted : n <= m
          /\ \/ job = "solve" /\ job' = "write" /\ host' = [host EXCEPT !.file[n] = Torn]
             \/ job = "write" /\ job' = "list" /\ host' = [host EXCEPT !.file[n] = Whole]
             \/ job = "list" /\ job' = "solve" /\ host' = [host EXCEPT !.listed = @ \cup {n}]
    /\ UNCHANGED <<pin, cmd, calib, overlay, model, receipt, given, broken, unfinished>>

\* It ends after the last layer, or dies; shards of the weights are opened as layers
\* need them, so one that is not there yet ends it late.
JobDies == job # None /\ job' = None
           /\ UNCHANGED <<host, pin, cmd, calib, overlay, model, receipt, given, broken, unfinished>>

(* ------------------------------- on the host ----------------------------- *)

\* prepare: the verified corpus, then the pinned model, each copied in place.
PrepareBegin == Give([op |-> "prepare", file |-> "corpus", begun |-> FALSE])
                /\ UNCHANGED <<host, job, pin, calib, overlay, model, receipt, broken, unfinished>>
Prepare ==
    /\ cmd.op = "prepare"
    /\ IF ~cmd.begun
       THEN /\ host' = [host EXCEPT ![cmd.file] = IF @ = Whole THEN Whole ELSE Torn]
            /\ cmd' = [cmd EXCEPT !.begun = TRUE]
       ELSE /\ host' = [host EXCEPT ![cmd.file] = Whole]
            /\ IF cmd.file = "corpus" THEN cmd' = [cmd EXCEPT !.file = "weights", !.begun = FALSE]
               ELSE End
    /\ UNCHANGED <<job, pin, calib, overlay, model, receipt, given, broken, unfinished>>

\* start: refused while the process of run.pid is alive (or another one that was
\* given its number).  run.pid is written after the job has begun; where that was
\* cut off, a job beside it is left out.
Running(reused) == (host.pid = "job" /\ job # None) \/ (host.pid # None /\ reused)
Start ==
    /\ cmd = Idle /\ given < MaxCommands /\ given' = given + 1
    /\ host.corpus # None /\ host.weights # None
    /\ \E reused \in BOOLEAN :
          IF Running(reused) THEN UNCHANGED <<host, job, cmd>>
          ELSE /\ job = None /\ job' = "load" /\ cmd' = [op |-> "start"]
               /\ host' = [host EXCEPT !.pid = IF @ = None THEN None ELSE "dead"]
    /\ UNCHANGED <<pin, calib, overlay, model, receipt, broken, unfinished>>

StartPid ==
    /\ cmd.op = "start" /\ End
    /\ host' = [host EXCEPT !.pid = "job"]
    /\ UNCHANGED <<job, pin, calib, overlay, model, receipt, given, broken, unfinished>>

\* fetch: rsync takes the list of files, copies each as it finds it (the
\* manifest sorts last), and removes nothing.
FetchBegin ==
    /\ Give([op |-> "fetch", at |-> 1, list |-> {n \in Layers : host.file[n] # None},
             manifest |-> host.listed # {}, quiet |-> job = None])
    /\ UNCHANGED <<host, job, pin, calib, overlay, model, receipt, broken, unfinished>>

FetchFile ==
    /\ cmd.op = "fetch" /\ cmd.at <= NumLayers
    /\ calib' = IF cmd.at \in cmd.list THEN [calib EXCEPT !.file[cmd.at] = host.file[cmd.at]] ELSE calib
    /\ cmd' = [cmd EXCEPT !.at = @ + 1, !.quiet = @ /\ job = None]
    /\ UNCHANGED <<host, job, pin, overlay, model, receipt, given, broken, unfinished>>

\* Without a manifest the command fails.
FetchEnd ==
    /\ cmd.op = "fetch" /\ cmd.at > NumLayers
    /\ calib' = IF cmd.manifest THEN [calib EXCEPT !.listed = host.listed] ELSE calib
    /\ End
    /\ UNCHANGED <<host, job, pin, overlay, model, receipt, given, broken, unfinished>>

(* -------------------------------- the overlay ---------------------------- *)

EditPin == /\ cmd = Idle /\ given < MaxCommands /\ given' = given + 1 /\ pin' \in Pins \ {pin}
           /\ UNCHANGED <<host, job, cmd, calib, overlay, model, receipt, broken, unfinished>>

\* fetch-overlay: downloaded beside the file, then os.replace; fails where the
\* Hub no longer has the revision.
FetchOverlay ==
    /\ cmd = Idle /\ given < MaxCommands /\ given' = given + 1
    /\ overlay' \in {overlay, pin}
    /\ UNCHANGED <<host, job, pin, cmd, calib, model, receipt, broken, unfinished>>

\* apply_overlay: every shard is cloned and patched before the first is put in
\* place; a target that does not match, or an overlay too short, ends it before.
Patched(s, rev) == [layers |-> s.layers, router |-> rev]
Apply(then) == [op |-> "apply", rev |-> overlay, staged |-> {}, at |-> 1, then |-> then]

ApplyBegin ==
    /\ overlay # None /\ model \notin {None, Torn} /\ Give(Apply("apply"))
    /\ UNCHANGED <<host, job, pin, calib, overlay, model, receipt, broken, unfinished>>

Stage ==
    /\ cmd.op = "apply" /\ cmd.staged # ShardSet
    /\ \/ \E s \in ShardSet \ cmd.staged : cmd' = [cmd EXCEPT !.staged = @ \cup {s}]
       \/ End   \* CampaignError; what was staged is unlinked
    /\ UNCHANGED <<host, job, pin, calib, overlay, model, receipt, given, broken, unfinished>>

\* Each shard as soon as it is patched.
ReplaceAtOnce ==
    /\ cmd.op = "apply" /\ cmd.at <= Len(Shards) /\ Shards[cmd.at] \in cmd.staged
    /\ model' = [model EXCEPT ![Shards[cmd.at]] = Patched(@, cmd.rev)]
    /\ cmd' = [cmd EXCEPT !.at = @ + 1]
    /\ UNCHANGED <<host, job, pin, calib, overlay, receipt, given, broken, unfinished>>

Replace ==
    /\ cmd.op = "apply" /\ cmd.staged = ShardSet /\ cmd.at <= Len(Shards)
    /\ model' = [model EXCEPT ![Shards[cmd.at]] = Patched(@, cmd.rev)]
    /\ cmd' = [cmd EXCEPT !.at = @ + 1]
    /\ UNCHANGED <<host, job, pin, calib, overlay, receipt, given, broken, unfinished>>

ApplyEnd ==
    /\ cmd.op = "apply" /\ cmd.staged = ShardSet /\ cmd.at > Len(Shards)
    /\ receipt' = [op |-> cmd.then, source |-> cmd.rev,
                    layers |-> IF cmd.then = "pack" THEN calib.listed ELSE None]
    /\ broken' = FALSE /\ End
    /\ UNCHANGED <<host, job, pin, calib, overlay, model, given, unfinished>>

(* ---------------------------------- pack --------------------------------- *)

\* pack: mlx_gptq.pack over the fetched artifacts (Packing.tla), which opens the
\* manifest, converts, and then injects shard by shard.
PackBegin ==
    /\ calib.listed # None
    /\ \E over \in BOOLEAN : Give([op |-> "pack", overlay |-> over, at |-> 0])
    /\ UNCHANGED <<host, job, pin, calib, overlay, model, receipt, broken, unfinished>>

\* A model that is there is injected into once more.
ConvertOver ==
    /\ cmd.op = "pack" /\ cmd.at = 0 /\ model # Torn
    /\ model' = IF model = None THEN Torn ELSE model
    /\ cmd' = [cmd EXCEPT !.at = 1]
    /\ UNCHANGED <<host, job, pin, calib, overlay, receipt, given, broken, unfinished>>

\* mlx_lm.convert refuses an output that is there, whole or not.
Convert ==
    /\ cmd.op = "pack" /\ cmd.at = 0
    /\ IF model = None
       THEN model' = Torn /\ cmd' = [cmd EXCEPT !.at = 1]
       ELSE End /\ UNCHANGED model
    /\ UNCHANGED <<host, job, pin, calib, overlay, receipt, given, broken, unfinished>>

Converted ==
    /\ cmd.op = "pack" /\ cmd.at = 1 /\ model = Torn
    /\ model' = [s \in ShardSet |-> [layers |-> {}, router |-> "base"]]
    /\ unfinished' = TRUE
    /\ UNCHANGED <<host, job, pin, cmd, calib, overlay, receipt, given, broken>>

\* A listed file that is missing or torn cannot be loaded, whichever shard needs it.
Loadable == \A n \in calib.listed : calib.file[n] = Whole
Injecting == cmd.op = "pack" /\ cmd.at > 0 /\ model # Torn
Inject ==
    /\ Injecting /\ cmd.at <= Len(Shards)
    /\ \/ /\ Loadable \/ cmd.at < Len(Shards)
          /\ model' = [model EXCEPT ![Shards[cmd.at]].layers = calib.listed]
          /\ cmd' = [cmd EXCEPT !.at = @ + 1]
       \/ ~Loadable /\ End /\ UNCHANGED model
    /\ UNCHANGED <<host, job, pin, calib, overlay, receipt, given, broken, unfinished>>

\* With --overlay that is applied to the output, where it has been fetched.
PackEnd ==
    /\ Injecting /\ cmd.at > Len(Shards)
    /\ unfinished' = FALSE
    /\ IF cmd.overlay
       THEN /\ cmd' = IF overlay = None THEN Idle ELSE Apply("pack")
            /\ UNCHANGED receipt
       ELSE End /\ receipt' = [op |-> "pack", source |-> None, layers |-> calib.listed]
    /\ UNCHANGED <<host, job, pin, calib, overlay, model, given, broken>>

\* Another --output is named from now on, or the old one is moved away.
Discard ==
    /\ cmd = Idle /\ given < MaxCommands /\ given' = given + 1
    /\ model' = None /\ broken' = FALSE /\ unfinished' = FALSE
    /\ UNCHANGED <<host, job, pin, cmd, calib, overlay, receipt>>

\* A command is interrupted or fails: rsync keeps part of the file it was at; staged
\* files are left behind and unlinked by the next overlay; a model stays as it is.
Interrupt ==
    /\ cmd # Idle /\ End
    /\ calib' \in IF cmd.op = "fetch" /\ cmd.at \in cmd.list
                  THEN {calib, [calib EXCEPT !.file[cmd.at] = Torn]} ELSE {calib}
    /\ broken' = (broken \/ (cmd.op = "apply" /\ cmd.at > 1))
    /\ UNCHANGED <<host, job, pin, overlay, model, receipt, given, unfinished>>

Next ==
    \/ JobLoad \/ JobStep \/ JobDies
    \/ PrepareBegin \/ Prepare \/ Start \/ StartPid \/ FetchBegin \/ FetchFile \/ FetchEnd
    \/ EditPin \/ FetchOverlay \/ ApplyBegin \/ Stage \/ Replace \/ ApplyEnd
    \/ PackBegin \/ Convert \/ Converted \/ Inject \/ PackEnd \/ Discard
    \/ Interrupt

Spec == Init /\ [][Next]_vars

(* ------------------------------- properties ----------------------------- *)

\* A fetch beside which Stage A did not run leaves the artifacts of the host:
\* every layer listed is there and whole.
QuietFetchIsWhole ==
    (cmd.op = "fetch" /\ cmd.at > NumLayers /\ cmd' = Idle /\ cmd.quiet /\ job = None
       /\ calib'.listed = host.listed) =>
        \A n \in host.listed : calib'.file[n] = Whole

\* An overlay that fails changes nothing: unless one was interrupted while it
\* replaced shards, all shards have overlay tensors of the same revision.
OverlayIsAllOrNothing ==
    (cmd = Idle /\ model \notin {None, Torn} /\ ~broken) =>
        \A s, t \in ShardSet : model[s].router = model[t].router

\* A receipt tells the model: its overlay tensors are all of the revision named, and
\* one of pack names the layers every shard was calibrated with.  That shards are
\* alike is claimed of apply-overlay only where pack has been through all of them: it
\* takes whatever model is there, and pack may have been interrupted between shards.
ReceiptTellsTheModel ==
    receipt' # receipt =>
        /\ \A s \in ShardSet : model'[s].router = IF receipt'.source = None THEN "base" ELSE receipt'.source
        /\ receipt'.op = "pack" => \A s \in ShardSet : model'[s].layers = receipt'.layers
        /\ ~unfinished' => \A s, t \in ShardSet : model'[s].layers = model'[t].layers

CampaignStepIsSound == QuietFetchIsWhole /\ ReceiptTellsTheModel
=============================================================================
