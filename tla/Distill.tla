------------------------------ MODULE Distill ------------------------------
(***************************************************************************)
(* One output directory of the DFlash 2 trainer over any number of runs,   *)
(* of which any may die: mlx_gptq/dflash2_distill.py (run), with the tools *)
(* that judge and merge what it leaves (tools/validate_dflash2_run.py,     *)
(* tools/merge_dflash2_candidate.py).                                      *)
(*                                                                         *)
(* Parameters are known by how they came about: the fingerprint of the     *)
(* training and, per epoch, the settings the fingerprint does not cover.   *)
(* Which cycles an epoch visits is DistillReplay's.                        *)
(***************************************************************************)
EXTENDS Integers, Sequences

CONSTANTS
    Prints,      \* _training_fingerprint, records with the fields
                 \* lora (--mode), qat, gated (the fidelity gate ran)
    Settings,    \* what it leaves out: learning rate, weight decay, ...
    MaxEpochs,   \* bound: --epochs
    EpochSteps,  \* training cycles of an epoch
    Score(_),    \* the validation metric of parameters, lower is better
    MaxRuns,     \* bound: runs on the directory
    None, Torn

\* Parameters there can be: one training, each epoch with settings of its own.
Params == [print : Prints, by : UNION {[1..n -> Settings] : n \in 0..MaxEpochs}]

\* What the constants are (evaluated by the module that instantiates this one).
DistillAssumption ==
    /\ MaxEpochs \in Nat /\ EpochSteps \in Nat
    /\ \A params \in Params : Score(params) \in Int

VARIABLES
    ckpt,        \* checkpoint.pt
    out,         \* the exported files: None, Torn, or whose parameters they hold
    receipt,     \* receipt.json
    proc,        \* the process
    runs,
    parted       \* some export began after the last receipt was written

vars == <<ckpt, out, receipt, proc, runs, parted>>

Files == {"projection", "lora", "qat", "model"}
Fresh(print) == [print |-> print, by |-> <<>>]
After(params, setting) == [print |-> params.print, by |-> Append(params.by, setting)]
Prefix(params, n) == [print |-> params.print, by |-> SubSeq(params.by, 1, n)]

Init ==
    /\ ckpt = None /\ out = [f \in Files |-> None] /\ receipt = None
    /\ proc = None /\ runs = 0 /\ parted = FALSE

\* Up to the fidelity gate nothing is read from the output directory.
Start(print, setting, epochs, resume) ==
    /\ proc = None /\ runs < MaxRuns /\ runs' = runs + 1
    /\ proc' = [at |-> "resume", print |-> print, setting |-> setting, epochs |-> epochs,
                resume |-> resume, next |-> 0, step |-> 0, cur |-> Fresh(print),
                best |-> None, bestOf |-> Fresh(print)]
    /\ UNCHANGED <<ckpt, out, receipt, parted>>

\* The best parameters are taken to be the last.
LoadedLast == [proc EXCEPT !.next = ckpt.next, !.step = ckpt.step, !.cur = ckpt.cur,
                           !.best = ckpt.best, !.bestOf = ckpt.cur]
Loaded == [proc EXCEPT !.next = ckpt.next, !.step = ckpt.step, !.cur = ckpt.cur,
                       !.best = ckpt.best, !.bestOf = ckpt.bestOf]

\* A checkpoint is loaded before its fingerprint is compared; one of another
\* training stops the run.
Resume ==
    /\ proc # None /\ proc.at = "resume"
    /\ proc' = IF ~proc.resume \/ ckpt = None THEN [proc EXCEPT !.at = "evaluate"]
               ELSE IF ckpt.cur.print # proc.print THEN None
               ELSE [Loaded EXCEPT !.at = "evaluate"]
    /\ UNCHANGED <<ckpt, out, receipt, runs, parted>>

\* The first evaluation counts only where training begins.
EvaluateFirst ==
    /\ proc # None /\ proc.at = "evaluate"
    /\ proc' = IF proc.next = 0
               THEN [proc EXCEPT !.at = "train", !.best = Score(proc.cur), !.bestOf = proc.cur]
               ELSE [proc EXCEPT !.at = "train"]
    /\ UNCHANGED <<ckpt, out, receipt, runs, parted>>

BetterOrEqual(score, best) == score <= best
Better(score, best) == score < best

\* An epoch and its validation.
Epoch ==
    /\ proc # None /\ proc.at = "train" /\ proc.next < proc.epochs
    /\ LET cur == After(proc.cur, proc.setting)
           better == Better(Score(cur), proc.best)
       IN proc' = [proc EXCEPT !.at = "save", !.cur = cur, !.step = @ + EpochSteps,
                               !.best = IF better THEN Score(cur) ELSE @,
                               !.bestOf = IF better THEN cur ELSE @]
    /\ UNCHANGED <<ckpt, out, receipt, runs, parted>>

\* torch.save beside the checkpoint, then os.replace: it is the old one or the
\* new one.
Save ==
    /\ proc # None /\ proc.at = "save"
    /\ ckpt' = [next |-> proc.next + 1, step |-> proc.step, cur |-> proc.cur,
                best |-> proc.best, bestOf |-> proc.bestOf]
    /\ proc' = [proc EXCEPT !.at = "train", !.next = @ + 1]
    /\ UNCHANGED <<out, receipt, runs, parted>>

\* The files the export writes, in this order.
Exports(print) ==
    <<"projection">> \o (IF print.lora THEN <<"lora">> ELSE <<>>)
        \o (IF print.qat THEN <<"qat">> ELSE <<>>) \o <<"model">>

\* The best parameters are not put back before the export.
RestoredNot == proc.cur
Restored == proc.bestOf

ExportBegin ==
    /\ proc # None /\ proc.at = "train" /\ proc.next >= proc.epochs
    /\ proc' = [proc EXCEPT !.at = "export", !.cur = Restored, !.next = 1]
    /\ parted' = TRUE
    /\ UNCHANGED <<ckpt, out, receipt, runs>>

Exporting == proc # None /\ proc.at = "export" /\ proc.next <= Len(Exports(proc.print))
FileNow == Exports(proc.print)[proc.next]

ExportFile ==
    /\ Exporting
    /\ out' = [out EXCEPT ![FileNow] = proc.cur]
    /\ proc' = [proc EXCEPT !.next = @ + 1]
    /\ UNCHANGED <<ckpt, receipt, runs, parted>>

WriteReceipt ==
    /\ proc # None /\ proc.at = "export" /\ proc.next > Len(Exports(proc.print))
    /\ receipt' = [print |-> proc.print, steps |-> proc.step, best |-> proc.best]
    /\ proc' = None /\ parted' = FALSE
    /\ UNCHANGED <<ckpt, out, runs>>

\* The process dies; files of the export are written in place.
Die ==
    /\ proc # None /\ proc' = None
    /\ \/ UNCHANGED <<out, receipt>>
       \/ /\ Exporting /\ out' = [out EXCEPT ![FileNow] = Torn] /\ UNCHANGED receipt
       \/ /\ proc.at = "export" /\ ~Exporting
          /\ receipt' = Torn /\ UNCHANGED out
    /\ UNCHANGED <<ckpt, runs, parted>>

Next ==
    \/ \E print \in Prints, s \in Settings, n \in 0..MaxEpochs, r \in BOOLEAN : Start(print, s, n, r)
    \/ Resume \/ EvaluateFirst \/ Epoch \/ Save
    \/ ExportBegin \/ ExportFile \/ WriteReceipt
    \/ Die

Spec == Init /\ [][Next]_vars

(* ---------------------------- what is done with it ---------------------- *)

There(x) == x # None /\ x # Torn

\* validate_dflash2_run.validate, asked for a number of steps (and for QAT): the
\* adapters of the checkpoint have moved; those exported need not have.
Accepted(steps, qat) ==
    /\ There(receipt) /\ receipt.print.gated /\ receipt.steps = steps
    /\ ckpt # None /\ ckpt.cur.print.lora /\ ckpt.cur.by # <<>>
    /\ There(out["lora"])
    /\ qat => receipt.print.qat /\ There(out["qat"])

\* merge_dflash2_candidate.merge: adapters and projection on the base model.
Merged == {out["lora"], out["projection"]}

(* ------------------------------- properties ----------------------------- *)

\* best and bestOf are the earliest of the best parameters after 0..n epochs.
BestAfter(n, params, best, bestOf) ==
    /\ best = Score(bestOf)
    /\ \E k \in 0..n :
          /\ bestOf = Prefix(params, k)
          /\ \A j \in 0..n : Score(Prefix(params, j)) >= best
          /\ \A j \in 0..(k - 1) : Score(Prefix(params, j)) > best

\* However often it was interrupted, with whatever settings it went on: a
\* checkpoint is what one run of as many epochs, of one fingerprint, would have
\* saved, the best parameters included.
CheckpointIsTraining ==
    ckpt # None =>
        /\ Len(ckpt.cur.by) = ckpt.next /\ ckpt.step = ckpt.next * EpochSteps
        /\ BestAfter(ckpt.next, ckpt.cur, ckpt.best, ckpt.bestOf)

\* What the validator accepts is of one training, its best, and what merge makes
\* of it is no mixture; unless an export died over it.
AcceptedIsOneTraining ==
    \A steps \in 0..(MaxEpochs * EpochSteps), qat \in BOOLEAN :
        (Accepted(steps, qat) /\ ~parted) =>
            /\ LET exports == Exports(receipt.print)
               IN  \A i \in DOMAIN exports : out[exports[i]] = out["model"]
            /\ out["model"].print = receipt.print /\ Score(out["model"]) = receipt.best
            /\ receipt.print.lora => Merged = {out["model"]}
            /\ qat => out["qat"] = out["model"]

DistillIsSound == CheckpointIsTraining /\ AcceptedIsOneTraining
=============================================================================
