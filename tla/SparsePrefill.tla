----------------------------- MODULE SparsePrefill -----------------------------
(* Positional sparse prefill (dflash_mlx/engine/sparse_rope.py): a request may    *)
(* bring a selection of its prompt's tokens with the positions they had.  While   *)
(* it runs, the target's own attention layers are patched to rotate each key to   *)
(* its position; other requests use the same model before and after.  One request *)
(* runs at a time.  A key is abstracted to the position it is rotated to.         *)
EXTENDS Integers, Sequences, SequencesExt

CONSTANTS
    Layers,      \* the number of attention layers with a rope
    Requests,    \* [positions, prompt, snapshot, active]: the positions, or None; the
                 \* length of the prompt; is there a snapshot, is the cache in use
    Runs,        \* bound on the requests of a history
    MaxText,     \* bound on what is read
    MaxBlock,    \* bound on a block that is verified
    None

SparsePrefillAssumption ==
    /\ Layers \in Nat \ {0} /\ {Runs, MaxText, MaxBlock} \subseteq Nat \ {0}
    /\ \A r \in Requests : r.prompt \in Nat \ {0}

VARIABLES
    refused,     \* layers whose rope is interleaved, which a wrapper refuses
    rope,        \* per layer: "own", or the positions or the shift it is patched with
    annotated,   \* _dflash_sparse_positions of the text model, or None
    run,         \* [positions, prompt, phase, saved], or None
    keys,        \* per layer: the positions of the keys in the cache
    published,   \* keys of the snapshots handed to the prefix cache
    served       \* requests begun

sparseVars == <<refused, rope, annotated, run, keys, published, served>>

All == 1..Layers
Own == [kind |-> "own"]
From(first, n) == [i \in 1..n |-> first + i - 1]

Init ==
    /\ refused \in SUBSET All
    /\ rope = [l \in All |-> Own] /\ annotated = None
    /\ run = None /\ keys = [l \in All |-> <<>>]
    /\ published = {} /\ served = 0

\* A mutant: positions may come in any order.
ValidUnordered(r) ==
    r.positions # None => /\ ~r.snapshot /\ ~r.active
                          /\ Len(r.positions) = r.prompt /\ r.positions[1] >= 0
\* _validate_token_positions
Valid(r) ==
    r.positions # None =>
        /\ ~r.snapshot /\ ~r.active
        /\ Len(r.positions) = r.prompt
        /\ r.positions[1] >= 0
        /\ \A i \in 2..r.prompt : r.positions[i - 1] < r.positions[i]

Sparse == run.positions # None

Open(r) ==
    /\ run = None /\ served < Runs /\ Valid(r)
    /\ run' = [positions |-> r.positions, prompt |-> r.prompt, saved |-> 0,
               phase |-> IF r.positions = None THEN "prefill" ELSE "install"]
    /\ annotated' = r.positions
    /\ keys' = [l \in All |-> <<>>]
    /\ served' = served + 1
    /\ UNCHANGED <<refused, rope, published>>

\* restore_ropes and clear_sparse_positions, for the layers that were saved.
Restored(saved) ==
    /\ rope' = [l \in All |-> IF l <= saved THEN Own ELSE rope[l]]
    /\ annotated' = None

\* A mutant: the layers patched before the refusal stay patched.
InstallHalf ==
    LET l == run.saved + 1 IN
    /\ run # None /\ run.phase = "install"
    /\ IF l > Layers THEN run' = [run EXCEPT !.phase = "prefill"] /\ UNCHANGED <<rope, annotated>>
       ELSE IF l \in refused THEN run' = None /\ annotated' = None /\ UNCHANGED rope
       ELSE /\ run' = [run EXCEPT !.saved = l]
            /\ rope' = [rope EXCEPT ![l] = [kind |-> "mapped", positions |-> run.positions]]
            /\ UNCHANGED annotated
    /\ UNCHANGED <<refused, keys, published, served>>

\* install_position_mapped_rope, one layer after the other; a layer that cannot be
\* patched ends the request, and those before it get their rope back.
Install ==
    LET l == run.saved + 1 IN
    /\ run # None /\ run.phase = "install"
    /\ IF l > Layers THEN run' = [run EXCEPT !.phase = "prefill"] /\ UNCHANGED <<rope, annotated>>
       ELSE IF l \in refused THEN run' = None /\ Restored(l)
       ELSE /\ run' = [run EXCEPT !.saved = l]
            /\ rope' = [rope EXCEPT ![l] = [kind |-> "mapped", positions |-> run.positions]]
            /\ UNCHANGED annotated
    /\ UNCHANGED <<refused, keys, published, served>>

\* PositionMappedRoPE: n keys from the offset on stand where the request says; a run
\* of consecutive positions is left to the layer's own rope.
Mapped(positions, offset, n) ==
    LET window == SubSeq(positions, offset + 1, offset + n)
    IN  IF Last(window) - window[1] = n - 1 THEN From(window[1], n) ELSE window

\* OffsetAdjustedRoPE
Shifted(by, offset, n) == From(offset + by, n)

Rotated(l, n) ==
    LET offset == Len(keys[l])
    IN  CASE rope[l].kind = "own" -> From(offset, n)
          [] rope[l].kind = "mapped" -> Mapped(rope[l].positions, offset, n)
          [] OTHER -> Shifted(rope[l].by, offset, n)
Read(n) == [l \in All |-> keys[l] \o Rotated(l, n)]

Prefill(n) ==
    /\ run # None /\ run.phase = "prefill" /\ Len(keys[1]) + n <= run.prompt
    /\ keys' = Read(n)
    /\ UNCHANGED <<refused, rope, annotated, run, published, served>>

\* A mutant: decoding goes on from the number of tokens that were selected.
NoAdjustment(positions) == 0
\* decode_position_adjustment
Adjustment(positions) == Last(positions) + 1 - Len(positions)

\* A snapshot is taken of a dense prompt only.
Publishes == IF Sparse THEN {} ELSE {keys}

\* The prompt is in: its snapshot, and the ropes of the decode loop.
Switch ==
    /\ run # None /\ run.phase = "prefill" /\ Len(keys[1]) = run.prompt
    /\ run' = [run EXCEPT !.phase = "decode"]
    /\ rope' = [l \in All |-> IF l <= run.saved
                              THEN [kind |-> "shifted", by |-> Adjustment(run.positions)]
                              ELSE rope[l]]
    /\ published' = published \cup Publishes
    /\ UNCHANGED <<refused, annotated, keys, served>>

\* A block is read and cut to what is accepted of it.
Cycle(n, accepted) ==
    /\ run # None /\ run.phase = "decode" /\ Len(keys[1]) + n <= MaxText
    /\ keys' = [l \in All |-> SubSeq(Read(n)[l], 1, Len(keys[l]) + accepted)]
    /\ UNCHANGED <<refused, rope, annotated, run, published, served>>

\* The `finally` of run_events: after the reply, when the consumer closes the
\* generator, when a step raises.
End ==
    /\ run # None /\ run.phase # "install"
    /\ run' = None
    /\ IF Sparse THEN Restored(run.saved) ELSE UNCHANGED <<rope, annotated>>
    /\ UNCHANGED <<refused, keys, published, served>>

\* The reply is in: its snapshot, then the end.
Finish ==
    /\ run # None /\ run.phase = "decode"
    /\ run' = None
    /\ IF Sparse THEN Restored(run.saved) ELSE UNCHANGED <<rope, annotated>>
    /\ published' = published \cup Publishes
    /\ UNCHANGED <<refused, keys, served>>

Next ==
    \/ \E r \in Requests : Open(r)
    \/ Install
    \/ \E n \in 1..MaxText : Prefill(n)
    \/ Switch
    \/ \E n \in 1..MaxBlock, accepted \in 1..MaxBlock : accepted <= n /\ Cycle(n, accepted)
    \/ End \/ Finish

Spec == Init /\ [][Next]_sparseVars

------------------------------------------------------------------------------
\* Where the i-th token that is read stands: as the request says, then on from there.
Place(i) ==
    CASE ~Sparse -> i - 1
      [] i <= run.prompt -> run.positions[i]
      [] OTHER -> Last(run.positions) + i - run.prompt

\* However a selection is cut into chunks, and wherever runs of neighbours are left
\* to the layer's own rope, every key of every layer stands where its token stood in
\* the whole text, and the reply goes on from there; after any earlier request,
\* finished, abandoned or refused half-way, a dense request finds the plain positions.
KeysKeepTheirPositions ==
    run # None => \A l \in All : \A i \in DOMAIN keys[l] : keys[l][i] = Place(i)

\* The model is as it was found once a request is over, however it ended, and says
\* during one what positions it has.
ModelIsLeftAsFound ==
    IF run = None THEN (\A l \in All : rope[l] = Own) /\ annotated = None
    ELSE annotated = run.positions

\* A snapshot is filed under a dense prefix, so its keys stand one after the other.
SnapshotsAreDense ==
    \A s \in published : \A l \in All : s[l] = From(0, Len(s[l]))

SparsePrefillInvariant == KeysKeepTheirPositions /\ ModelIsLeftAsFound /\ SnapshotsAreDense
================================================================================
