------------------------------ MODULE DraftCache ------------------------------
(***************************************************************************)
(* What one attention layer of a draft model sees of the text while a      *)
(* request is served, and what the replay of that request sees when the    *)
(* draft is trained on it later.                                           *)
(*                                                                         *)
(* model.py keeps projected target features of the committed text in one   *)
(* of two caches: a sink and a window of positions, or everything in a     *)
(* buffer that grows in steps and whose tail is scratch for the block      *)
(* being drafted.  dflash2_replay.py rebuilds the first of them from the   *)
(* captured cycles.  An entry is [feat, rope]: the position whose feature  *)
(* it was projected from and the position it was rotated to.  Numbers and  *)
(* tensors are abstracted to who attends to what.                          *)
(***************************************************************************)
EXTENDS Integers, Sequences, FiniteSetsExt

CONSTANTS Sink, Asked,    \* of the trimmed cache (draft_sink_size, draft_window_size)
          ReplaySink, ReplayWindow,   \* of the replay's (CONTEXT_SINK, CONTEXT_WINDOW)
          Slide,          \* the layer's sliding_window
          Step,           \* growth of the full cache's buffer
          MaxContext, MaxBlock, MaxCycles   \* bounds of the model

\* What the constants are (evaluated by the module that instantiates this one).
DraftCacheAssumption ==
    /\ {Sink, Asked} \subseteq Nat /\ Slide \in Nat \ {0}
    /\ ReplaySink \in Nat \ {0} /\ ReplayWindow \in Nat /\ ReplayWindow >= Slide
    /\ Step \in Nat \ {0}
    /\ MaxContext \in Nat \ {0} /\ MaxBlock \in Nat /\ MaxCycles \in Nat

\* _effective_draft_window_size: no smaller than what a layer looks back over.
Window == Max({1, Asked, Slide})

Served   == [sink |-> Sink, window |-> Window]
Rebuilt  == [sink |-> ReplaySink, window |-> ReplayWindow]

VARIABLES
    kind,     \* the draft: "dflash" (model.py) or "dflash2" (draft/dflash2.py)
    ctx,      \* ContextOnlyDraftKVCache: keys, at (position_indices), offset
    full,     \* FullContextDraftKVCache: buf, length, offset
    hist,     \* the cycles of the request, with what each of them attended to
    phase,    \* "serving", then "training"
    rp,       \* the replay's cache of this prompt, the last order it served, its next cycle
    replayed  \* the replayed cycle and what it attended to
vars == <<kind, ctx, full, hist, phase, rp, replayed>>

Entry(p, r) == [feat |-> p, rope |-> r]
Run(from, n) == [i \in 1..n |-> from + i - 1]
Last_(s, n)  == SubSeq(s, Len(s) - n + 1, Len(s))
First_(s, n) == SubSeq(s, 1, n)
Blank == [keys |-> <<>>, at |-> <<>>, offset |-> 0]

\* The position cycle k begins behind, and those handed over so far.
Before(k) == hist[k].start + hist[k].context
Total     == IF hist = <<>> THEN 0 ELSE Before(Len(hist))

-----------------------------------------------------------------------------
(* The trimmed cache, of a size b.                                         *)

\* The part of a context of n positions worth projecting, as positions of the
\* context: everything while it fits, sink and window of a long first context,
\* the window of a long later one.
Spans(b, n, cached) ==
    IF cached = 0
    THEN IF n <= b.sink + b.window THEN Run(0, n)
         ELSE Run(0, b.sink) \o Run(n - b.window, b.window)
    ELSE IF n <= b.window THEN Run(0, n) ELSE Run(n - b.window, b.window)

Trimmed(b, s) == IF Len(s) <= b.sink + b.window THEN s
                 ELSE First_(s, b.sink) \o Last_(s, b.window)

Projected(b, n, cached, offset, start) ==
    LET sp == Spans(b, n, cached)
    IN [i \in DOMAIN sp |-> Entry(start + sp[i], offset + sp[i])]

AppendContext(b, c, n, start) ==
    LET new == Projected(b, n, Len(c.keys), c.offset, start)
    IN [keys   |-> Trimmed(b, c.keys \o new),
        at     |-> Trimmed(b, c.at \o [i \in DOMAIN new |-> new[i].rope]),
        offset |-> c.offset + n]

-----------------------------------------------------------------------------
(* The full cache.                                                         *)

Capacity(needed) == ((needed + Step - 1) \div Step) * Step
Zero == Entry(-1, -1)
\* A mutant: the buffer grows without what it held.
GrownBlank(f, needed) ==
    IF needed <= Len(f.buf) THEN f.buf ELSE [i \in 1..Capacity(needed) |-> Zero]
Grown(f, needed) ==
    IF needed <= Len(f.buf) THEN f.buf
    ELSE [i \in 1..Capacity(needed) |-> IF i <= f.length THEN f.buf[i] ELSE Zero]
Written(f, es) ==
    LET buf == Grown(f, f.length + Len(es))
    IN [i \in DOMAIN buf |-> IF i \in (f.length + 1)..(f.length + Len(es))
                             THEN es[i - f.length] ELSE buf[i]]

FullAppend(f, n, start) ==
    [buf |-> Written(f, [i \in 1..n |-> Entry(start + i - 1, f.offset + i - 1)]),
     length |-> f.length + n, offset |-> f.offset + n]
\* The block's own keys are written behind the length and overwritten later.
WithBlock(f, es) == [f EXCEPT !.buf = Written(f, es)]

-----------------------------------------------------------------------------
(* Attention of a block of n queries behind the context.                   *)

\* The masks: of a DFlash draft and of the replay, and of a DFlash 2 draft, whose
\* block sees the whole of itself.
Sees(mask, q, k, behind) ==
    IF mask = "dflash" THEN q >= k /\ q < k + Slide
    ELSE (k < behind /\ q - k < Slide) \/ k >= behind

Attended(mask, keys, at, q0, n) ==
    {<<x[1], keys[x[2]]>> :
        x \in {y \in (q0..(q0 + n - 1)) \X DOMAIN keys : Sees(mask, y[1], at[y[2]], q0)}}

Noise(q0, n) == [i \in 1..n |-> Entry(q0 + i - 1, q0 + i - 1)]

\* One forward pass: the context is appended, then the block attends.
Draft(n, block) ==
    /\ phase = "serving" /\ Len(hist) < MaxCycles
    /\ LET c  == AppendContext(Served, ctx, n, Total)
           f  == FullAppend(full, n, Total)
           q0 == ctx.offset + n
           g  == WithBlock(f, Noise(full.offset + n, block))
       IN /\ ctx' = c /\ full' = g
          /\ hist' = Append(hist,
               [start |-> Total, context |-> n, block |-> block,
                window |-> Attended(kind, c.keys \o Noise(q0, block), c.at \o Run(q0, block),
                                    q0, block),
                all    |-> First_(g.buf, f.length + block)])
    /\ UNCHANGED <<kind, phase, rp, replayed>>

\* A copied block needs no draft: the context is only appended.
Advance(n) ==
    /\ phase = "serving" /\ Len(hist) < MaxCycles
    /\ ctx' = AppendContext(Served, ctx, n, Total)
    /\ full' = FullAppend(full, n, Total)
    /\ hist' = Append(hist, [start |-> Total, context |-> n, block |-> 0])
    /\ UNCHANGED <<kind, phase, rp, replayed>>

-----------------------------------------------------------------------------
(* Training on the captured cycles of a DFlash 2 draft.                    *)

StartTraining ==
    /\ phase = "serving" /\ kind = "dflash2" /\ hist # <<>>
    /\ \A i \in DOMAIN hist : hist[i].block > 0     \* captured without copies
    /\ phase' = "training"
    /\ UNCHANGED <<kind, ctx, full, hist, rp, replayed>>

Retained(prev, n) == IF n = 0 THEN prev ELSE Last_(prev, n)   \* prev[-0:] is all of it

\* _layer_attention: what replays cycle k on a cache c.
ReplayOn(c, k) ==
    LET n    == hist[k].context
        new  == Projected(Rebuilt, n, Len(c.keys), c.offset, hist[k].start)
        next == AppendContext(Rebuilt, c, n, hist[k].start)
        prev == Len(next.keys) - Len(new)
        keys == (IF c.keys = <<>> THEN new ELSE Retained(c.keys, prev) \o new)
                \o Noise(c.offset + n, hist[k].block)
        at   == next.at \o Run(c.offset + n, hist[k].block)
    IN [next |-> next,
        counts |-> <<Len(keys), Len(at)>>,
        window |-> Attended("dflash", keys, at, c.offset + n, hist[k].block)]

\* A mutant: whatever cache the prompt has is continued.
FreshOnce(k) == IF rp.last = -1 THEN Blank ELSE rp.cache
\* PromptCaches.replay: a cache that does not continue the last cycle is rebuilt.
Fresh(k) == IF rp.last = -1 \/ rp.last + 1 # k - 1 THEN Blank ELSE rp.cache

Replay ==
    /\ phase = "training" /\ rp.pass <= 2
    /\ LET k == rp.next
           r == ReplayOn(Fresh(k), k)
       IN /\ replayed' = [cycle |-> k, counts |-> r.counts, window |-> r.window]
          /\ rp' = IF k < Len(hist)
                   THEN [rp EXCEPT !.cache = r.next, !.last = k - 1, !.next = k + 1]
                   ELSE [cache |-> r.next, last |-> k - 1, next |-> 1, pass |-> rp.pass + 1]
    /\ UNCHANGED <<kind, ctx, full, hist, phase>>

Init ==
    /\ kind \in {"dflash", "dflash2"}
    /\ ctx = Blank /\ full = [buf |-> <<>>, length |-> 0, offset |-> 0]
    /\ hist = <<>> /\ phase = "serving"
    /\ rp = [cache |-> Blank, last |-> -1, next |-> 1, pass |-> 1]
    /\ replayed = [cycle |-> 0]

Next ==
    \/ \E n \in 1..MaxContext : Advance(n) \/ \E block \in 2..MaxBlock : Draft(n, block)
    \/ StartTraining
    \/ Replay

Spec == Init /\ [][Next]_vars

-----------------------------------------------------------------------------
Behind(k, w) == {x \in w : x[2].feat < Before(k)}     \* the context of cycle k

\* After any mixture of drafted and copied blocks, of contexts shorter and longer
\* than the window, a sliding layer of the draft attends to exactly the positions
\* its mask is meant to show it, each with its own feature at its own rotation,
\* and a full-attention layer to the whole text and its block, in order, with no
\* scratch of an earlier block left among it.
BlocksSeeTheirContext ==
    hist # <<>> =>
        LET k == Len(hist)
            c == hist[k]
            q0 == Before(k)
        IN c.block > 0 =>
             /\ c.window = {<<x[1], Entry(x[2], x[2])>> :
                              x \in {y \in (q0..(q0 + c.block - 1)) \X (0..(q0 + c.block - 1)) :
                                       Sees(kind, y[1], y[2], q0)}}
             /\ c.all = [i \in 1..(q0 + c.block) |-> Entry(i - 1, i - 1)]

\* The trimmed cache never exceeds its budget, keeps the positions of its first
\* context that fit the sink for ever and the last of the window, and its three
\* arrays agree entry by entry.
SinkAndWindowAreKept ==
    LET held == {ctx.keys[i].feat : i \in DOMAIN ctx.keys}
        t    == Total
    IN /\ Len(ctx.keys) <= Sink + Window /\ ctx.offset = t
       /\ DOMAIN ctx.at = DOMAIN ctx.keys
       /\ \A i \in DOMAIN ctx.keys : ctx.keys[i] = Entry(ctx.at[i], ctx.at[i])
       /\ \A i, j \in DOMAIN ctx.at : i < j => ctx.at[i] < ctx.at[j]
       /\ {p \in 0..(t - 1) : p >= t - Window} \subseteq held
       /\ hist # <<>> =>
             {p \in 0..(Sink - 1) : p < hist[1].context} \subseteq held

\* A replayed cycle attends to the context that the cycle was served with, in every
\* pass over the prompt, and has a position for every key ("replay key count ...
\* does not match" is never raised).  Once the cache is trimmed the replay's keys and
\* positions no longer belong together in the sink (it keeps the tail of the old keys
\* where the positions say sink); the mask hides that as long as the sliding window is
\* no longer than the cache's.  Of its own block a query is shown less than it was
\* served with: the replay's mask is causal there.
ReplaySeesTheContext ==
    LET k == replayed.cycle
    IN k > 0 => /\ Behind(k, replayed.window) = Behind(k, hist[k].window)
                /\ replayed.counts[1] = replayed.counts[2]

\* Served or replayed, a block attends to the context it is meant to attend to.
DraftSeesItsContext == BlocksSeeTheirContext /\ SinkAndWindowAreKept /\ ReplaySeesTheContext
=============================================================================
