--------------------------- MODULE SnapshotMemory ---------------------------
(***************************************************************************)
(* Which arrays a prefix snapshot shares with the caches of a request      *)
(* (cache/codecs.py, and the file format of cache/prefix_l2.py).  A        *)
(* request builds snapshots of its caches by copying or by adopting their  *)
(* arrays, later requests take the arrays of a snapshot over, and all of   *)
(* them write: mlx_lm's KVCache in place while its array has room, its     *)
(* RotatingKVCache in place for single tokens, the recurrent layers into   *)
(* new arrays.  An array is a cell of memory; what it holds is the text    *)
(* its rows were computed from.                                            *)
(***************************************************************************)
EXTENDS Integers, Sequences, FiniteSets, SequencesExt

CONSTANTS Words,              \* the tokens
          MaxText, MaxCells, MaxSaved,  \* bounds: of a text, of memory, of the snapshots kept
          Room,               \* the rows KVCache allocates at a time (256)
          Rings,              \* the model has rotating layers (Gemma), or recurrent ones (Qwen)
          Sink, Window,       \* of the draft: draft_sink_size, draft_window_size
          None

SnapshotMemoryAssumption ==
    /\ MaxText \in Nat /\ MaxCells \in Nat /\ MaxSaved \in Nat /\ Room \in Nat \ {0}
    /\ Rings \in BOOLEAN /\ Sink \in Nat /\ Window \in Nat \ {0}

VARIABLES memory,    \* what each cell holds; a row that was never written holds None
          live,      \* the request at work, or None
          saved,     \* the snapshots in memory
          file       \* a snapshot on disk, or None

vars == <<memory, live, saved, file>>

Upto(s, n) == SubSeq(s, 1, n)
Fresh(n) == [i \in 1 .. n |-> None]
Rounds(n) == (n + Room - 1) \div Room

-----------------------------------------------------------------------------
(* The caches of the target; `kv` has a cell and an offset, `state` is the *)
(* cell of the recurrent or of the rotating layer.                         *)

Free == Len(memory) + 1

\* KVCache.update_and_fetch: rows at the offset, in place while they fit.
Written(rows, offset, words) ==
    IF offset + Len(words) <= Len(rows)
    THEN [i \in DOMAIN rows |-> IF i \in offset + 1 .. offset + Len(words) THEN words[i - offset]
                                ELSE rows[i]]
    ELSE Upto(rows, offset) \o words \o Fresh(Rounds(Len(words)) * Room - Len(words))

\* The text a request has after `words`, of which it keeps the first `keep`: the
\* rows behind the kept ones stay where they are, behind the offset.
Feed(words, keep) ==
    LET rows == memory[live.kv.cell]
        text == live.text \o Upto(words, keep)
        inPlace == live.kv.offset + Len(words) <= Len(rows)
        kvCell == IF inPlace THEN live.kv.cell ELSE Free
        grown == IF inPlace THEN [memory EXCEPT ![kvCell] = Written(rows, live.kv.offset, words)]
                 ELSE Append(memory, Written(rows, live.kv.offset, words))
    IN /\ Len(grown) < MaxCells
       /\ \E single \in {Rings /\ Len(words) = 1, FALSE} :   \* grows, or writes in place
             /\ memory' = IF single THEN [grown EXCEPT ![live.state] = text] ELSE Append(grown, text)
             /\ live' = [live EXCEPT !.text = text, !.kv = [cell |-> kvCell, offset |-> Len(text)],
                                     !.state = IF single THEN @ ELSE Len(grown) + 1]

\* make_cache: empty caches.
Cold ==
    /\ live = None /\ Len(memory) + 2 <= MaxCells
    /\ memory' = memory \o <<<<>>, <<>>>>
    /\ live' = [text |-> <<>>, kv |-> [cell |-> Free, offset |-> 0], state |-> Free + 1,
                side |-> [at |-> 0, cell |-> None]]
    /\ UNCHANGED <<saved, file>>

Prefill(words) ==
    /\ live # None /\ Len(live.text) + Len(words) <= MaxText
    /\ Feed(words, Len(words))
    /\ UNCHANGED <<saved, file>>

\* A block is verified and a part of it kept.
Verify(words, keep) ==
    /\ live # None /\ live.text # <<>> /\ Len(live.text) + Len(words) <= MaxText
    /\ keep \in 1 .. Len(words) - 1
    /\ Feed(words, keep)
    /\ UNCHANGED <<saved, file>>

\* sidecar_eligible, capture_gdn_sidecar: the recurrent states at a boundary of the
\* prompt, as they are.
Capture ==
    /\ ~Rings /\ live # None /\ live.text # <<>> /\ live.side.at = 0
    /\ live' = [live EXCEPT !.side = [at |-> Len(live.text), cell |-> live.state]]
    /\ UNCHANGED <<memory, saved, file>>

-----------------------------------------------------------------------------
(* build_snapshot. *)

\* Mutant: the window reaches back from the end only.
ChunksOfEnd(total, boundary) ==
    IF total <= Sink + Window THEN 1 .. total ELSE (1 .. Sink) \cup (total - Window + 1 .. total)

\* _build_target_hidden_chunks: the sink and the window, the window reaching back
\* far enough for the boundary too.
Chunks(total, boundary) ==
    LET back == total - Window
        toBoundary == IF boundary > Window THEN boundary - Window ELSE 0
        tail == IF boundary > 0 /\ toBoundary < back THEN toBoundary ELSE back
    IN IF total <= Sink + Window \/ tail <= Sink THEN 1 .. total
       ELSE (1 .. Sink) \cup (tail + 1 .. total)

\* serialize_target_cache: KVCache.state is a slice, which is the array itself
\* where it is full; `grab` copies, or adopts.
Build(adopt) ==
    LET exact == Len(memory[live.kv.cell]) = live.kv.offset
        kept == Upto(memory[live.kv.cell], live.kv.offset)
        side == IF adopt /\ live.side.at \in 1 .. Len(live.text) - 1
                THEN live.side ELSE [at |-> 0, cell |-> None]
        kvCell == IF adopt /\ exact THEN live.kv.cell ELSE Free
        withKv == IF adopt /\ exact THEN memory ELSE Append(memory, kept)
        stateCell == IF adopt THEN live.state ELSE Len(withKv) + 1
    IN /\ memory' = IF adopt THEN withKv ELSE Append(withKv, memory[live.state])
       /\ saved' = saved \cup {[text |-> live.text,
                                kv |-> [cell |-> kvCell, offset |-> live.kv.offset],
                                state |-> stateCell, side |-> side,
                                cover |-> Chunks(Len(live.text), side.at)]}

Publishable == live # None /\ live.text # <<>> /\ Len(memory) + 2 <= MaxCells
               /\ Cardinality(saved) < MaxSaved

\* Mutant: arrays are adopted though the request goes on.
PublishPrefillAdopting == Publishable /\ Build(TRUE) /\ UNCHANGED <<live, file>>

\* At the end of a prompt the arrays are copied, the request goes on ...
PublishPrefill == Publishable /\ Build(FALSE) /\ UNCHANGED <<live, file>>
\* ... at the end of a reply they are adopted, and the request is over.
PublishGeneration == Publishable /\ Build(TRUE) /\ live' = None /\ UNCHANGED file

-----------------------------------------------------------------------------
(* A snapshot serves a request. *)

\* Mutant: a view on the rows up to the boundary.
SliceView ==
    \E s \in saved :
        /\ s.side.at > 0 /\ Cardinality(saved) < MaxSaved
        /\ saved' = saved \cup {[text |-> Upto(s.text, s.side.at),
                                 kv |-> [cell |-> s.kv.cell, offset |-> s.side.at],
                                 state |-> s.side.cell, side |-> [at |-> 0, cell |-> None],
                                 cover |-> s.cover]}
        /\ UNCHANGED <<memory, live, file>>

\* slice_snapshot_at_sidecar_boundary: the rows up to the boundary, and the states
\* captured there.
Slice ==
    \E s \in saved :
        /\ s.side.at > 0 /\ Len(memory) < MaxCells /\ Cardinality(saved) < MaxSaved
        /\ memory' = Append(memory, Upto(memory[s.kv.cell], s.side.at))
        /\ saved' = saved \cup {[text |-> Upto(s.text, s.side.at),
                                 kv |-> [cell |-> Free, offset |-> s.side.at],
                                 state |-> s.side.cell, side |-> [at |-> 0, cell |-> None],
                                 cover |-> s.cover \cap (1 .. s.side.at)]}
        /\ UNCHANGED <<live, file>>

\* hydrate_target_cache refuses arrays that are longer than the text, and takes the
\* others over; those of a rotating layer are copied.
Adoptable(s) == Len(memory[s.kv.cell]) = s.kv.offset /\ s.kv.offset = Len(s.text)

\* Mutant: the arrays of rotating layers are taken over like the others.
HydrateShared ==
    /\ live = None
    /\ \E s \in saved :
        /\ Adoptable(s)
        /\ live' = [text |-> s.text, kv |-> s.kv, state |-> s.state, side |-> [at |-> 0, cell |-> None]]
    /\ UNCHANGED <<memory, saved, file>>

Hydrate ==
    /\ live = None
    /\ \E s \in saved :
        /\ Adoptable(s) /\ (Rings => Len(memory) < MaxCells)
        /\ memory' = IF Rings THEN Append(memory, memory[s.state]) ELSE memory
        /\ live' = [text |-> s.text, kv |-> s.kv, state |-> IF Rings THEN Free ELSE s.state,
                    side |-> [at |-> 0, cell |-> None]]
    /\ UNCHANGED <<saved, file>>

\* The request is over, its snapshots stay; or one of them is dropped.
Leave == live # None /\ live' = None /\ UNCHANGED <<memory, saved, file>>
Drop == \E s \in saved : saved' = saved \ {s} /\ UNCHANGED <<memory, live, file>>

\* _serialize and _deserialize: the arrays by value, the rest in the metadata.
Write ==
    /\ file = None
    /\ \E s \in saved :
         file' = [text |-> s.text, kv |-> memory[s.kv.cell], offset |-> s.kv.offset,
                  state |-> memory[s.state], at |-> s.side.at,
                  side |-> IF s.side.at = 0 THEN None ELSE memory[s.side.cell], cover |-> s.cover]
    /\ UNCHANGED <<memory, live, saved>>

Read ==
    /\ file # None /\ Len(memory) + 3 <= MaxCells /\ Cardinality(saved) < MaxSaved
    /\ memory' = memory \o <<file.kv, file.state>> \o (IF file.at = 0 THEN <<>> ELSE <<file.side>>)
    /\ saved' = saved \cup {[text |-> file.text, kv |-> [cell |-> Free, offset |-> file.offset],
                             state |-> Free + 1, cover |-> file.cover,
                             side |-> [at |-> file.at, cell |-> IF file.at = 0 THEN None ELSE Free + 2]]}
    /\ file' = None
    /\ UNCHANGED live

Init == memory = <<>> /\ live = None /\ saved = {} /\ file = None

Texts == UNION {[1 .. n -> Words] : n \in 1 .. 2}

Next ==
    \/ Cold \/ Capture \/ PublishPrefill \/ PublishGeneration \/ Slice \/ Hydrate
    \/ Leave \/ Drop \/ Write \/ Read
    \/ \E words \in Texts : Prefill(words)
    \/ \E words \in Texts : \E keep \in 1 .. Len(words) : Verify(words, keep)

Spec == Init /\ [][Next]_vars

-----------------------------------------------------------------------------
\* Whatever requests wrote since: a snapshot in memory or on disk holds the caches
\* of its own text, in arrays just as long, so that any request it fits can take it
\* over; its features reach as far back as the draft looks, at its end and at its
\* boundary.
Looked(n) == {p \in 1 .. n : p <= Sink \/ p > n - Window}

SnapshotsKeepTheirText ==
    /\ \A s \in saved :
        /\ Adoptable(s)
        /\ memory[s.kv.cell] = s.text /\ memory[s.state] = s.text
        /\ s.side.at > 0 => memory[s.side.cell] = Upto(s.text, s.side.at)
        /\ Looked(Len(s.text)) \cup Looked(s.side.at) \subseteq s.cover
    /\ file # None => file.kv = file.text /\ file.state = file.text

\* And a request computes on the rows of its own text.
CachesAreOwn ==
    live # None => /\ live.kv.offset = Len(live.text)
                   /\ Upto(memory[live.kv.cell], live.kv.offset) = live.text
                   /\ memory[live.state] = live.text

SnapshotMemoryInvariant == SnapshotsKeepTheirText /\ CachesAreOwn
=============================================================================
