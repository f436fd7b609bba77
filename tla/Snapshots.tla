------------------------------ MODULE Snapshots ------------------------------
(***************************************************************************)
(* The data the prefix caches store: DFlashPrefixSnapshot                  *)
(* (cache/snapshot.py), and the pure helpers that decide what part of a    *)
(* snapshot a request may use (cache/codecs.py, engine/prefill.py).        *)
(*                                                                         *)
(* Abstractions.  Arrays are left out; what the caches decide on is kept:  *)
(*   - tokens: the token prefix the snapshot stands for                    *)
(*   - key:    the DFlashPrefixKey fingerprint (a model value)             *)
(*   - kind:   "prefill" (end of a prompt) or "generation" (end of a reply)*)
(*   - logits: last_logits is not None                                     *)
(*   - side:   sidecar_boundary, 0 when there is no sidecar.  The code     *)
(*     fills the boundary, its recurrent states and its logits together    *)
(*     (spec_epoch.py), so one field stands for the three                  *)
(*   - cover:  the token positions (1..Len(tokens)) whose draft features   *)
(*     lie in target_hidden_chunk_spans; a span list is a set of positions *)
(*   - bytes:  nbytes                                                      *)
(***************************************************************************)
EXTENDS Integers, FiniteSets, SequencesExt

CONSTANTS Tokens,   \* token ids
          Keys,     \* fingerprints (model, draft, template, ... of a request)
          Sink,     \* [Keys -> Nat]: key.draft_sink_size
          Window    \* [Keys -> Nat]: key.draft_window_size

ASSUME KeyAssumption == Sink \in [Keys -> Nat] /\ Window \in [Keys -> Nat]

Kinds == {"prefill", "generation"}

Snapshot == [tokens : Seq(Tokens), key : Keys, kind : Kinds, logits : BOOLEAN,
             side : Nat, cover : SUBSET Nat, bytes : Nat]

\* What a request asks a cache: its tokens, its fingerprint, and whether the
\* draft model needs the features of the whole prefix.
Request == [tokens : Seq(Tokens), key : Keys, full : BOOLEAN]

Covers(s, positions) == positions \subseteq s.cover

\* engine/prefill.py snapshot_covers_prefix
CoversPrefix(s, n) == Covers(s, 1..n)

\* codecs.py snapshot_covers_sidecar_context: either the whole prefix, or the
\* attention sink at its start and the sliding window at its end.
CoversSidecarContext(s, n, full) ==
    IF full THEN CoversPrefix(s, n)
    ELSE Covers(s, {p \in 1..n : \/ p <= Sink[s.key]
                                 \/ p > n - Window[s.key]
                                 \/ p = n})     \* the window is at least 1

\* The prefix a snapshot may be sliced to for q: _usable_sidecar_boundary > 0.
UsableSidecar(s, q) ==
    /\ s.side \in 1..Len(q.tokens)
    /\ SubSeq(q.tokens, 1, s.side) = SubSeq(s.tokens, 1, s.side)
    /\ CoversSidecarContext(s, s.side, q.full)

\* codecs.py slice_snapshot_at_sidecar_boundary: a prefill snapshot of the
\* sidecar prefix.  (bytes stays the carrier's: a slice is never stored.)
Slice(s) == [s EXCEPT !.tokens = SubSeq(@, 1, s.side),
                      !.kind = "prefill",
                      !.logits = TRUE,
                      !.side = 0,
                      !.cover = @ \cap (1..s.side)]

\* The answer h gives a request q a state it may start decoding from: a true
\* prefix under the same fingerprint; the whole request only together with
\* the logits its next token is sampled from; features wherever q needs them.
Reusable(h, q) ==
    /\ h.key = q.key
    /\ h.tokens # <<>>
    /\ IsPrefix(h.tokens, q.tokens)
    /\ Len(h.tokens) = Len(q.tokens) => h.kind = "prefill" /\ h.logits
    /\ q.full => CoversPrefix(h, Len(h.tokens))

\* The snapshots builder.build can make: the sidecar prefix is a proper one, a
\* sidecar is only attached to a generation, features exist for real positions.
WellFormed(s) ==
    /\ s \in Snapshot
    /\ s.tokens # <<>>
    /\ s.side > 0 => s.kind = "generation" /\ s.side < Len(s.tokens)
    /\ s.cover \subseteq 1..Len(s.tokens)
==============================================================================
