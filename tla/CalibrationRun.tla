---------------------------- MODULE CalibrationRun ----------------------------
(***************************************************************************)
(* What Stage A of mlx_gptq promises of its artifact directory, whatever   *)
(* happens to the processes that fill it: the layers are published in      *)
(* order, each solved on the activations that the published layers before  *)
(* it produce from one set of token windows, and never change afterwards.  *)
(* It is the behaviour of a calibration that is never interrupted, except  *)
(* that the unchecked settings may change from layer to layer.  One of them *)
(* is how the layers are named, and a run does not see the weights that    *)
(* were published under another name: what is promised is the sequential   *)
(* calibration as far as the layers are named alike, and no more.          *)
(***************************************************************************)
EXTENDS Naturals, Sequences

CONSTANTS NumLayers, Settings, Checked, Windows, Named,
          Unquantised  \* a layer as the checkpoint has it

VARIABLE published  \* the layers Stage B may read: [on, by]

\* Activations after the given layers; the layer solved on them by a setting.
Activations(windows, layers) == [tokens |-> windows, through |-> layers]
Solved(activations, s) == [on |-> activations, by |-> s]

\* The published layers as a run with settings s goes through them.
Seen(layers, s) ==
    [k \in DOMAIN layers |-> IF Named[layers[k].by] = Named[s] THEN layers[k] ELSE Unquantised]

Init == published = <<>>

Publish(w, s) ==
    /\ Len(published) < NumLayers
    /\ published # <<>> => /\ w = published[1].on.tokens
                           /\ Checked[s] = Checked[published[1].by]
    /\ published' = Append(published, Solved(Activations(w, Seen(published, s)), s))

Next == \E w \in Windows, s \in Settings : Publish(w, s)

Spec == Init /\ [][Next]_published
===============================================================================
