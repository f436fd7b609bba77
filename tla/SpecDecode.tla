------------------------------ MODULE SpecDecode ------------------------------
(* One request in the speculative engine of the dflash runtime                   *)
(* (dflash_mlx/engine/spec_epoch.py: SpeculativeSession.run_events), from the    *)
(* restored prefix to the generation snapshot, and the plain decoder it falls    *)
(* back to (engine/fallback.py).                                                 *)
(*                                                                               *)
(* The engine is a generator: it runs until it yields an event, and goes on when *)
(* the consumer asks for the next one.  `event` is what was yielded and not yet  *)
(* consumed; the consumer may close the generator instead of resuming it.        *)
(*                                                                               *)
(* Numbers are abstracted to where they come from.  The attention cache and the  *)
(* recurrent state are the sequences of tokens they have read; the features of a *)
(* position are the tokens up to it, or Hole where a trimmed snapshot left none; *)
(* logits are their argmax.                                                      *)
EXTENDS Integers, Sequences, FiniteSets

CONSTANTS
    Token,          \* the vocabulary
    Stop,           \* stop_token_ids
    Suppressed,     \* suppress_token_ids
    Target(_, _),   \* argmax of the target by what its attention and its
                    \* recurrent layers have read: a token that is not suppressed
    Requests,       \* the requests considered, see RequestType
    Block,          \* effective_block_tokens
    MinBlock,       \* block limit of the adaptive policy when it is reduced
    PrefillStep,    \* prefill_step_size
    Stride,         \* distance of the frontier snapshots, 0 for none
    SidecarMin,     \* _SIDECAR_MIN_BOUNDARY
    CopyWindow,     \* COPYSPEC_WINDOW_SIZE
    BranchPositions,\* _DDTREE_MAX_BRANCH_POSITIONS, with two tokens at each
    None

Hole == <<>>

\* What a request brings.  `snap` is the length of the snapshot found for it (0:
\* a miss), `cover` the positions whose features that snapshot has, `boundary`
\* the stable prefix; `full` says that the draft model can attend to the whole
\* context and `fullFrom` from what length it does (0: always), `limit` is
\* DFLASH_MAX_CTX (0: none), `cached` says that a snapshot service exists, `keep`
\* that the reply is to be kept too; `cap` is the verify_len_cap asked for (0:
\* none), `adaptive`, `copy` and `profile` are the modes of the engine.  `tree` is
\* "no" unless verify_mode is ddtree; then it tells whether the target verifies
\* trees, or a batch of branches.
RequestType ==
    [prompt : Seq(Token), max : Nat, boundary : Nat, snap : Nat, cover : SUBSET Nat,
     full : BOOLEAN, fullFrom : Nat, limit : Nat,
     cached : BOOLEAN, keep : BOOLEAN, profile : BOOLEAN,
     adaptive : BOOLEAN, cap : Nat, copy : {"off", "conservative", "auto"},
     tree : {"no", "target", "branches"}]

Lesser(a, b) == IF a < b THEN a ELSE b
Greater(a, b) == IF a > b THEN a ELSE b

\* The reply at its longest.
Projected(r) == Len(r.prompt) + r.max
\* Beyond the limit the target decodes alone (stream_dflash_generate_impl).
BeyondLimit(r) == r.limit > 0 /\ Projected(r) >= r.limit
\* resolve_full_context_draft_layers: the draft model needs every feature.
Full(r) == r.full /\ (r.fullFrom = 0 \/ Projected(r) >= r.fullFrom)
\* resolve_verify_len_cap
Cap(r) == IF r.cap = 0 THEN Block ELSE Lesser(Block, r.cap)

\* The lookup is made on the stable prefix, so the snapshot ends within it.
ASSUME RequestAssumption ==
    /\ Requests \subseteq RequestType
    /\ \A r \in Requests :
          /\ r.boundary \in 1..Len(r.prompt)
          /\ r.snap \in 0..r.boundary
          /\ r.snap > 0 => r.cached
          /\ r.cover \subseteq 1..r.snap
          /\ BeyondLimit(r) => r.max > 0
          /\ r.tree = "target" => Cap(r) > 1    \* else draft_block_with_topk raises
ASSUME ModelAssumption ==
    /\ Stop \subseteq Token /\ Suppressed \subseteq Token
    /\ Block \in Nat \ {0}
    /\ MinBlock \in 1..Block /\ (MinBlock = 1 => Block = 1)   \* the lesser of 4 and Block
    /\ PrefillStep \in Nat \ {0}
    /\ Stride \in Nat
    /\ SidecarMin \in Nat
    /\ CopyWindow \in Nat \ {0}
    /\ BranchPositions \in Nat

\* The sidecar of a snapshot, and a draft made ahead of its cycle.
Sidecar == [at : Nat, gdn : Seq(Token), logits : Token]
Ahead == [len : Nat, first : Token, tail : Seq(Token), source : {"copy", "draft"}]

\* None is no value.
ASSUME NoneAssumption == None \notin Seq(Seq(Token)) \cup Sidecar \cup Ahead

VARIABLES
    req,            \* the request, fixed
    pc,             \* where the generator stands
    event,          \* the event yielded and not yet consumed, or None
    alive,          \* the prefix cache manager is open (SnapshotService.active)
    pos,            \* prompt tokens prefilled
    kv, gdn,        \* what attention cache and recurrent state have read
    logits,         \* argmax of prefill_logits, then of last_cycle_logits
    feats,          \* the TargetFeatureStore: current_hidden, the frozen prefill
                    \* features, the chunks of the reply, and whether to collect
    draft,          \* draft cache (features fed to it), prefetched draft, copy
                    \* index, copyspec_disabled, block limit
    staged,         \* state.staged_first
    verify, source, \* the block being verified and where its tail came from
    branches,       \* what is verified beside it in a batch
    committed,      \* the committed segment of the cycle,
    given,          \* how many tokens of it are in generated_token_ids
    start,          \* state.start
    generated,      \* state.generated_token_ids
    skip,           \* first_token_yielded: the next token was yielded before
    emitted,        \* the tokens yielded in token events
    side,           \* the sidecar taken at the boundary, or None
    published       \* the snapshots handed to the cache

prefill == <<pos, side>>
batch == <<verify, source, branches>>
cycle == <<staged, batch, committed, given, start, generated, skip>>
vars == <<req, pc, event, alive, prefill, kv, gdn, logits, feats, draft, cycle, emitted,
          published>>

Prefix(s, n) == SubSeq(s, 1, n)

Greedy(s) == Target(s, s)
Context == req.prompt \o generated

\* The features of the last n tokens read.
Features(read, n) == [i \in 1..n |-> Prefix(read, Len(read) - n + i)]

\* should_collect_generation_snapshot_hidden: asked at several points, since the
\* manager may be closed in between.
Collects == req.cached /\ req.keep /\ alive

\* A snapshot with holes is no use to a draft model that needs everything.
SnapLen(r) == IF BeyondLimit(r) \/ (Full(r) /\ r.cover # 1..r.snap) THEN 0 ELSE r.snap

\* Mutant of ChunkEnd: the token at the boundary goes through with the chunks.
ChunkEndAtBoundary == req.boundary

\* The prompt up to here goes through in chunks; the token at the boundary is
\* forwarded on its own.
ChunkEnd == req.boundary - 1

\* The block lengths the adaptive policy moves between; without it, the full one.
Limits ==
    IF req.tree = "no" /\ req.adaptive /\ Cap(req) >= Block THEN {MinBlock, Block} ELSE {Block}

Init ==
    /\ req \in Requests
    /\ pc = IF BeyondLimit(req) THEN "plain" ELSE "prefill"
    /\ event = None
    /\ alive = req.cached
    /\ kv = Prefix(req.prompt, SnapLen(req))
    /\ gdn = kv
    /\ logits = IF SnapLen(req) > 0 THEN Greedy(kv) ELSE None
    /\ pos = Lesser(SnapLen(req), ChunkEnd)
    /\ feats = [hidden |-> [i \in 1..Len(req.prompt) |->
                                IF i <= SnapLen(req) /\ i \in req.cover
                                THEN Prefix(req.prompt, i) ELSE Hole],
                frozen |-> None, chunks |-> <<>>, collecting |-> FALSE]
    /\ \E limit \in Limits :
          draft = [fed |-> <<>>, ahead |-> None, copies |-> req.prompt,
                   copyOff |-> FALSE, limit |-> limit]
    /\ staged = None
    /\ verify = <<>> /\ source = "none" /\ branches = <<>>
    /\ committed = <<>> /\ given = 0
    /\ start = 0
    /\ generated = <<>>
    /\ skip = FALSE
    /\ emitted = <<>>
    /\ side = None
    /\ published = {}

\* The generator runs when its last event has been consumed.
At(label) == pc = label /\ event = None

(* ------------------------------- publication ---------------------------- *)

\* A snapshot as it reaches the cache: what it is filed under, and the states.
State(kind, tokens, features, sidecar) ==
    [kind |-> kind, tokens |-> tokens, kv |-> kv', gdn |-> gdn', logits |-> logits',
     feats |-> features, side |-> sidecar]

\* A closed manager takes nothing; nobody is told.
Publish(wanted, snapshot) ==
    published' = IF wanted /\ alive THEN published \cup {snapshot} ELSE published

(* --------------------------------- prefill ------------------------------- *)

\* forward_with_hidden_capture over prompt[from+1 .. to], whose features are
\* written to the same positions.
Forward(from, to) ==
    LET tokens == SubSeq(req.prompt, from + 1, to)
        new == Features(kv \o tokens, to - from)
    IN  /\ kv' = kv \o tokens
        /\ gdn' = gdn \o tokens
        /\ logits' = Target(kv', gdn')
        /\ feats' = [feats EXCEPT !.hidden =
               [i \in 1..Len(req.prompt) |->
                   IF i \in from + 1 .. to THEN new[i - from] ELSE feats.hidden[i]]]

PrefillChunk ==
    /\ At("prefill")
    /\ pos < ChunkEnd
    /\ LET to == Lesser(pos + PrefillStep, ChunkEnd)
       IN  /\ Forward(pos, to)
           /\ pos' = to
           /\ Publish(req.cached /\ Stride > 0 /\ to % Stride = 0,
                      State("frontier", Prefix(req.prompt, to),
                            Prefix(feats'.hidden, to), None))
    /\ event' = "progress"
    /\ UNCHANGED <<req, pc, alive, side, draft, cycle, emitted>>

\* The token at the boundary, or the logits of a snapshot that ends there.
PrefillSeam ==
    /\ At("prefill")
    /\ pos >= ChunkEnd
    /\ IF SnapLen(req) = req.boundary
       THEN UNCHANGED <<kv, gdn, logits, feats>>
       ELSE Forward(req.boundary - 1, req.boundary)
    /\ pos' = req.boundary
    /\ pc' = "boundary"
    /\ event' = "progress"
    /\ UNCHANGED <<req, alive, side, draft, cycle, emitted, published>>

SidecarState == [at |-> req.boundary, gdn |-> gdn, logits |-> logits]

\* The snapshot of the stable prefix, and the sidecar that the generation snapshot
\* will carry: a recurrent state cannot be rewound later.  A snapshot meant
\* for the disk tier alone is not announced when that tier refuses it.
PrefillBoundary ==
    /\ At("boundary")
    /\ UNCHANGED <<kv, gdn, logits>>
    /\ LET wanted == req.cached /\ SnapLen(req) # req.boundary
       IN  /\ Publish(wanted, State("prefill", Prefix(req.prompt, req.boundary),
                                    Prefix(feats.hidden, req.boundary), None))
           /\ event' \in IF wanted THEN {"snapshot", None} ELSE {None}
    /\ side' = IF req.boundary >= SidecarMin /\ req.max > 0 /\ Collects
               THEN SidecarState ELSE None
    /\ pc' = IF req.boundary < Len(req.prompt) THEN "tail" ELSE "freeze"
    /\ UNCHANGED <<req, alive, pos, feats, draft, cycle, emitted>>

PrefillTail ==
    /\ At("tail")
    /\ Forward(req.boundary, Len(req.prompt))
    /\ pos' = Len(req.prompt)
    /\ pc' = "freeze"
    /\ event' = "progress"
    /\ UNCHANGED <<req, alive, side, draft, cycle, emitted, published>>

\* The prompt is in; its features are kept for the generation snapshot.
PrefillComplete ==
    /\ At("freeze")
    /\ feats' = [feats EXCEPT !.frozen = IF Collects THEN feats.hidden ELSE None]
    /\ staged' = logits
    /\ start' = Len(req.prompt)
    /\ pc' = "decode"
    /\ event' = "prefilled"
    /\ UNCHANGED <<req, alive, prefill, kv, gdn, logits, draft, batch, committed,
                   given, generated, skip, emitted, published>>

(* --------------------------------- drafting ------------------------------ *)

BlockLen(limit, remaining) == Greater(1, Lesser(Lesser(Block, limit), remaining))

\* CopySpecIndex.draft_after: n tokens that followed an earlier occurrence of the
\* last tokens, the occurrence with the most after it; at most one, or none.
CopyOf(copies, first, n) ==
    LET window == SubSeq(copies, Len(copies) - CopyWindow + 2, Len(copies)) \o <<first>>
        ends == {p \in CopyWindow..Len(copies) :
                    SubSeq(copies, p - CopyWindow + 1, p) = window}
        best == {p \in ends : \A q \in ends : p <= q}
    IN  {SubSeq(copies, p + 1, p + n) : p \in
            {q \in best : /\ Len(req.prompt) > CopyWindow
                          /\ Len(copies) - q >= n
                          /\ \A i \in q + 1..q + n : copies[i] \notin Suppressed}}

\* The tails of n tokens that may be proposed after `first`: a copy if there is
\* one and copying is on, else anything the draft model may say.  In mode auto
\* a gate that measures throughput decides whether to copy, but not for trees.
Proposals(d, first, n) ==
    LET copies == IF req.copy # "off" /\ ~ d.copyOff THEN CopyOf(d.copies, first, n) ELSE {}
        must == copies # {} /\ (req.copy = "conservative" \/ req.tree # "no")
    IN  {[tail |-> t, source |-> "copy"] : t \in copies}
        \cup (IF must THEN {} ELSE {[tail |-> t, source |-> "draft"] : t \in [1..n -> Token \ Suppressed]})

\* Whoever proposes, the features of the tokens since the last proposal go into
\* the draft cache (draft_greedy, or advance_context beside a copy).
Feed(d, hidden) == [d EXCEPT !.fed = d.fed \o hidden]

\* The prefetched draft, if it has the right length, or one made now.
Drafts(n) ==
    IF ~ req.profile /\ draft.ahead # None /\ draft.ahead.len = n
    THEN {[first |-> draft.ahead.first, tail |-> draft.ahead.tail,
           source |-> draft.ahead.source, draft |-> [draft EXCEPT !.ahead = None]]}
    ELSE {[first |-> staged, tail |-> p.tail, source |-> p.source,
           draft |-> [Feed(draft, feats.hidden) EXCEPT !.ahead = None]] :
             p \in Proposals(draft, staged, n)}

(* --------------------------------- decoding ------------------------------ *)

\* The first token is known from the prefill and is yielded before any cycle.
FirstToken ==
    /\ At("decode")
    /\ feats' = [feats EXCEPT !.collecting = Collects]
    /\ pc' = "cycle"
    /\ IF req.max > 0
       THEN /\ skip' = TRUE
            /\ emitted' = <<staged>>
            /\ event' = "token"
       ELSE UNCHANGED <<skip, emitted, event>>
    /\ UNCHANGED <<req, alive, prefill, kv, gdn, logits, draft, staged, batch,
                   committed, given, start, generated, published>>

\* The top of the loop: choose the length of the block, get a tail for it, and cut
\* it to what may be verified.
Propose ==
    /\ At("cycle")
    /\ req.tree = "no"
    /\ Len(generated) < req.max
    /\ LET n == BlockLen(draft.limit, req.max - Len(generated))
       IN  IF n > 1
           THEN \E d \in Drafts(n - 1) :
                   /\ verify' = <<d.first>> \o Prefix(d.tail, Lesser(n, Cap(req)) - 1)
                   /\ source' = d.source
                   /\ draft' = d.draft
           ELSE verify' = <<staged>> /\ source' = "none" /\ UNCHANGED draft
    /\ pc' = "verify"
    /\ UNCHANGED <<req, event, alive, prefill, kv, gdn, logits, feats, staged, branches,
                   committed, given, start, generated, skip, emitted, published>>

\* The branches beside a greedy tail: at each of the first positions the runner-up
\* instead of the greedy token, and a tail drafted anew behind it.
Branches(first, tail) ==
    LET n == Len(tail)
        At_(p) == {<<first>> \o b : b \in {t \in [1..n -> Token \ Suppressed] :
                        Prefix(t, p - 1) = Prefix(tail, p - 1) /\ t[p] # tail[p]}}
    IN  {bs \in [1..Lesser(BranchPositions, n) -> UNION {At_(p) : p \in 1..n}] :
            \A p \in DOMAIN bs : bs[p] \in At_(p)}

\* Mutant of AfterBranches: the cache stays as it was restored for the branches.
AfterBranchesRestored(d, hidden) == d

\* The branches are drafted on copies of the draft cache as it was; then it is put
\* back to where the greedy draft left it.
AfterBranches(d, hidden) == Feed(d, hidden)

\* The top of the loop with trees or branches: a copy goes alone.  A tree has as
\* many nodes as rows of candidates, so the chain it is seeded with fills it.
ProposeTree ==
    /\ At("cycle")
    /\ req.tree # "no"
    /\ Len(generated) < req.max
    /\ LET n == BlockLen(Block, req.max - Len(generated))
           v == Lesser(n, Cap(req))
           rows == IF req.tree = "target" THEN v - 1 ELSE n - 1
           copied == {p \in Proposals(draft, staged, n - 1) : p.source = "copy"}
       IN  IF n = 1
           THEN verify' = <<staged>> /\ source' = "none" /\ branches' = <<>>
                /\ UNCHANGED draft
           ELSE \/ \E p \in copied :
                      /\ verify' = <<staged>> \o Prefix(p.tail, v - 1)
                      /\ source' = "copy" /\ branches' = <<>>
                      /\ draft' = Feed(draft, feats.hidden)
                \/ /\ copied = {}
                   /\ \E tail \in [1..rows -> Token \ Suppressed] :
                         /\ verify' = <<staged>> \o Prefix(tail, v - 1)
                         /\ IF req.tree = "target"
                            THEN /\ source' = "tree" /\ branches' = <<>>
                                 /\ draft' = Feed(draft, feats.hidden)
                            ELSE /\ source' = "draft"
                                 /\ \E bs \in Branches(staged, tail) :
                                       branches' = [p \in DOMAIN bs |-> Prefix(bs[p], v)]
                                 /\ draft' = AfterBranches(draft, feats.hidden)
    /\ pc' = "verify"
    /\ UNCHANGED <<req, event, alive, prefill, kv, gdn, logits, feats, staged, committed,
                   given, start, generated, skip, emitted, published>>

\* The target's argmax after each token of a block.
Posterior(block) == [i \in 1..Len(block) |->
                        Target(kv \o Prefix(block, i), gdn \o Prefix(block, i))]

\* Mutant of Accepts: a token that does not agree is accepted too.
AcceptsOneMore(block, k) ==
    LET says == Posterior(block)
    IN  /\ \A i \in 1..(k - 1) : block[i + 1] = says[i]
        /\ k + 1 < Len(block) => block[k + 2] # says[k + 1]

\* match_acceptance_length: k tokens of the tail agree, and no more than k.
Accepts(block, k) ==
    LET says == Posterior(block)
    IN  /\ \A i \in 1..k : block[i + 1] = says[i]
        /\ k + 1 < Len(block) => block[k + 2] # says[k + 1]

\* Mutant of Rollback: the staged token is not counted.
RollbackShort(checkpoint, tape, accepted) == checkpoint \o Prefix(tape, accepted)

\* RecurrentRollbackCache: the checkpoint taken when the cache was armed, and as
\* many steps of the tape as were accepted, the staged token included.
Rollback(checkpoint, tape, accepted) == checkpoint \o Prefix(tape, accepted + 1)

\* restore_after_acceptance: the recurrent state is rolled back unless everything
\* was accepted; an attention cache is trimmed to the committed length.
RecurrentAfter(block, k) ==
    IF k = Len(block) - 1 THEN gdn \o block ELSE Rollback(gdn, block, k)
AttentionAfter(block, len) ==
    LET read == kv \o block
    IN  IF Len(read) > len THEN Prefix(read, len) ELSE read

\* Mutant of Prefetched: a copy does not feed the draft cache.
PrefetchedUnfed(d, hidden, first, remaining) ==
    LET n == BlockLen(d.limit, remaining)
    IN  IF req.profile \/ remaining <= 0 \/ n <= 1 THEN {[d EXCEPT !.ahead = None]}
        ELSE {[d EXCEPT !.fed = IF p.source = "copy" THEN @ ELSE @ \o hidden,
                   !.ahead = [len |-> n - 1, first |-> first, tail |-> p.tail,
                              source |-> p.source]] :
                 p \in Proposals(d, first, n - 1)}

\* The draft for the next cycle, launched before the tokens of this one are handed
\* out (not when cycles are profiled).
Prefetched(d, hidden, first, remaining) ==
    LET n == BlockLen(d.limit, remaining)
    IN  IF req.profile \/ remaining <= 0 \/ n <= 1 THEN {[d EXCEPT !.ahead = None]}
        ELSE {[Feed(d, hidden) EXCEPT !.ahead =
                  [len |-> n - 1, first |-> first, tail |-> p.tail, source |-> p.source]] :
                 p \in Proposals(d, first, n - 1)}

\* Commit the staged token and k tokens of the tail: the segment, its features and
\* the logits after it.
Commit(block, k) ==
    LET hidden == Prefix(Features(kv \o block, Len(block)), k + 1)
    IN  /\ committed' = Prefix(block, k + 1)
        /\ given' = 0
        /\ start' = start + k + 1
        /\ feats' = [feats EXCEPT !.hidden = hidden,
                        !.chunks = IF feats.collecting THEN @ \o hidden ELSE @]
        /\ logits' = Posterior(block)[k + 1]

\* Verify the block in one pass, bring the caches back to the committed length, and
\* draft ahead.
VerifyAndCommit ==
    /\ At("verify") /\ req.tree = "no"
    /\ \E k \in 0..(Len(verify) - 1) :
          /\ Accepts(verify, k)
          /\ Commit(verify, k)
          /\ gdn' = RecurrentAfter(verify, k)
          /\ kv' = AttentionAfter(verify, start')
          /\ \E limit \in Limits :
                draft' \in Prefetched(
                    [draft EXCEPT !.limit = limit,
                         !.copies = @ \o committed',
                         !.copyOff = @ \/ (/\ source = "copy" /\ k = 0
                                          /\ req.copy = "conservative")],
                    feats'.hidden, logits', req.max - Len(generated) - (k + 1))
    /\ pc' = "emit"
    /\ UNCHANGED <<req, event, alive, prefill, staged, batch, generated, skip, emitted,
                   published>>

\* The candidates, a row of the batch each, the greedy one or the copy first.
Rows == <<verify>> \o branches

\* Verify the candidates on copies of the target's caches, one row each; the one
\* with the most accepted is taken, its row copied back and cut to what it commits.
VerifyBatch ==
    /\ At("verify") /\ req.tree # "no" /\ source # "tree"
    /\ \E best \in DOMAIN Rows, k \in 0..(Len(verify) - 1) :
          /\ Accepts(Rows[best], k)
          /\ \A i \in DOMAIN Rows :      \* no other row accepts more
                \A j \in (IF i < best THEN k ELSE k + 1)..(Len(verify) - 1) :
                    ~ Accepts(Rows[i], j)
          /\ Commit(Rows[best], k)
          /\ gdn' = RecurrentAfter(Rows[best], k)
          /\ kv' = AttentionAfter(Rows[best], start')
          /\ draft' = [draft EXCEPT !.copies = @ \o committed',
                          !.copyOff = @ \/ (source = "copy" /\ k = 0)]
    /\ pc' = "emit"
    /\ UNCHANGED <<req, event, alive, prefill, staged, batch, generated, skip, emitted,
                   published>>

\* Verify the tree in one pass; of what both caches read, the path that the target
\* follows is kept.
VerifyTree ==
    /\ At("verify") /\ source = "tree"
    /\ \E k \in 0..(Len(verify) - 1) :
          /\ Accepts(verify, k)
          /\ Commit(verify, k)
    /\ gdn' = gdn \o committed'
    /\ kv' = kv \o committed'
    /\ draft' = [draft EXCEPT !.copies = @ \o committed']
    /\ pc' = "emit"
    /\ UNCHANGED <<req, event, alive, prefill, staged, batch, generated, skip, emitted,
                   published>>

\* One committed token after the other; the first of all was yielded before.
EmitToken ==
    /\ At("emit")
    /\ given < Len(committed)
    /\ Len(generated) < req.max
    /\ generated' = Append(generated, committed[given + 1])
    /\ given' = given + 1
    /\ IF skip THEN skip' = FALSE /\ UNCHANGED <<event, emitted>>
       ELSE /\ emitted' = Append(emitted, committed[given + 1])
            /\ event' = "token"
            /\ UNCHANGED skip
    /\ UNCHANGED <<req, pc, alive, prefill, kv, gdn, logits, feats, draft, staged, batch,
                   committed, start, published>>

StopHit == \E i \in 1..Len(committed) : committed[i] \in Stop

\* The end of the cycle: leave the loop after a stop token anywhere in the
\* segment, else stage the next token.
EndCycle ==
    /\ At("emit")
    /\ given = Len(committed) \/ Len(generated) >= req.max
    /\ IF StopHit THEN pc' = "finish" /\ UNCHANGED <<staged, event>>
       ELSE /\ pc' = "cycle"
            /\ staged' = logits
            /\ event' = IF req.profile THEN "cycle" ELSE None
    /\ UNCHANGED <<req, alive, prefill, kv, gdn, logits, feats, draft, batch,
                   committed, given, start, generated, skip, emitted, published>>

\* Mutant of LoopDone: the snapshot of the reply is skipped.
LoopDoneUnpublished ==
    /\ At("cycle")
    /\ Len(generated) >= req.max
    /\ pc' = "summary"
    /\ UNCHANGED <<req, event, alive, prefill, kv, gdn, logits, feats, draft, cycle,
                   emitted, published>>

\* Mutant of LoopDone: the loop waits for one token more than was asked for.
LoopDoneLate ==
    /\ At("cycle")
    /\ Len(generated) > req.max
    /\ pc' = "finish"
    /\ UNCHANGED <<req, event, alive, prefill, kv, gdn, logits, feats, draft, cycle,
                   emitted, published>>

LoopDone ==
    /\ At("cycle")
    /\ Len(generated) >= req.max
    /\ pc' = "finish"
    /\ UNCHANGED <<req, event, alive, prefill, kv, gdn, logits, feats, draft, cycle,
                   emitted, published>>

\* The snapshot of prompt and reply, with the features collected on the way.
PublishGeneration ==
    /\ At("finish")
    /\ UNCHANGED <<kv, gdn, logits>>
    /\ LET wanted == /\ generated # <<>> /\ Collects
                     /\ feats.frozen # None /\ feats.chunks # <<>>
       IN  /\ IF wanted
              THEN Publish(TRUE, State("generation", Context, feats.frozen \o feats.chunks,
                                       side))
              ELSE UNCHANGED published
           /\ event' = IF wanted THEN "snapshot" ELSE None
    /\ pc' = "summary"
    /\ UNCHANGED <<req, alive, prefill, feats, draft, cycle, emitted>>

Summary ==
    /\ At("summary")
    /\ event' = "summary"
    /\ pc' = "return"
    /\ UNCHANGED <<req, alive, prefill, kv, gdn, logits, feats, draft, cycle, emitted,
                   published>>

\* session.close(), in the `finally` of run_events.
Cleanup ==
    /\ kv' = <<>> /\ gdn' = <<>>
    /\ draft' = [draft EXCEPT !.fed = <<>>, !.ahead = None]

Return ==
    /\ At("return")
    /\ Cleanup
    /\ pc' = "done"
    /\ UNCHANGED <<req, event, alive, prefill, logits, feats, cycle, emitted, published>>

(* ---------------------- the decoder it falls back to ---------------------- *)

\* stream_baseline_generate: the prompt in one pass, then token by token.
PlainPrefill ==
    /\ At("plain")
    /\ kv' = req.prompt /\ gdn' = req.prompt
    /\ logits' = Target(kv', gdn')
    /\ generated' = <<logits'>>
    /\ pc' = "plain first"
    /\ event' = "prefilled"
    /\ UNCHANGED <<req, alive, prefill, feats, draft, staged, batch, committed,
                   given, start, skip, emitted, published>>

PlainFirst ==
    /\ At("plain first")
    /\ emitted' = generated
    /\ pc' = "plain loop"
    /\ event' = "token"
    /\ UNCHANGED <<req, alive, prefill, kv, gdn, logits, feats, draft, cycle, published>>

PlainMore == Len(generated) < req.max /\ logits \notin Stop

PlainToken ==
    /\ At("plain loop")
    /\ PlainMore
    /\ kv' = Append(kv, logits) /\ gdn' = Append(gdn, logits)
    /\ logits' = Target(kv', gdn')
    /\ generated' = Append(generated, logits')
    /\ emitted' = generated'
    /\ event' = "token"
    /\ UNCHANGED <<req, pc, alive, prefill, feats, draft, staged, batch, committed,
                   given, start, skip, published>>

PlainEnd ==
    /\ At("plain loop")
    /\ ~ PlainMore
    /\ event' = "summary"
    /\ pc' = "return"
    /\ UNCHANGED <<req, alive, prefill, kv, gdn, logits, feats, draft, cycle, emitted,
                   published>>

(* ------------------------------ the consumer ------------------------------ *)

\* The consumer takes the event and asks for the next.
Resume ==
    /\ event # None
    /\ event' = None
    /\ UNCHANGED <<req, pc, alive, prefill, kv, gdn, logits, feats, draft, cycle, emitted,
                   published>>

\* Or it closes the generator where it stands.
Close ==
    /\ event # None
    /\ event' = None
    /\ pc' = "closed"
    /\ Cleanup
    /\ UNCHANGED <<req, alive, prefill, logits, feats, cycle, emitted, published>>

\* Another thread shuts the request's cache manager down.
CacheCloses ==
    /\ alive
    /\ alive' = FALSE
    /\ UNCHANGED <<req, pc, event, prefill, kv, gdn, logits, feats, draft, cycle, emitted,
                   published>>

Prefill == PrefillChunk \/ PrefillSeam \/ PrefillBoundary \/ PrefillTail \/ PrefillComplete
Decode == FirstToken \/ Propose \/ ProposeTree \/ VerifyAndCommit \/ VerifyBatch
              \/ VerifyTree \/ EmitToken \/ EndCycle \/ LoopDone
Finish == PublishGeneration \/ Summary \/ Return
Plain == PlainPrefill \/ PlainFirst \/ PlainToken \/ PlainEnd
Engine == Prefill \/ Decode \/ Finish \/ Plain

Next == Engine \/ Resume \/ Close \/ CacheCloses

Spec == Init /\ [][Next]_vars

(* ------------------------------- properties ------------------------------- *)

FeatureStore ==
    [hidden : Seq(Seq(Token)), frozen : Seq(Seq(Token)) \cup {None},
     chunks : Seq(Seq(Token)), collecting : BOOLEAN]
DraftState ==
    [fed : Seq(Seq(Token)), ahead : Ahead \cup {None}, copies : Seq(Token),
     copyOff : BOOLEAN, limit : Limits]

\* Every variable holds what the code keeps there.
TypeOK ==
    /\ req \in Requests
    /\ pc \in {"prefill", "boundary", "tail", "freeze", "decode", "cycle", "verify", "emit",
               "finish", "summary", "return", "plain", "plain first", "plain loop",
               "done", "closed"}
    /\ event \in {None, "progress", "prefilled", "snapshot", "token", "cycle", "summary"}
    /\ alive \in BOOLEAN /\ skip \in BOOLEAN
    /\ {kv, gdn, verify, committed, generated, emitted} \subseteq Seq(Token)
    /\ {logits, staged} \subseteq Token \cup {None}
    /\ pos \in 0..Len(req.prompt)
    /\ given \in 0..Len(committed)
    /\ start \in Nat
    /\ source \in {"none", "copy", "draft", "tree"}
    /\ branches \in Seq(Seq(Token))
    /\ side \in Sidecar \cup {None}
    /\ feats \in FeatureStore
    /\ draft \in DraftState

\* What has been committed: the prompt, the tokens counted as generated, and those
\* of the last block still to be handed out.
Text == Context \o SubSeq(committed, given + 1, Len(committed))

\* What the features of a text are, given that the restored snapshot has none for
\* some positions of the prompt.
FeaturesOf(r, text) ==
    [i \in 1..Len(text) |->
        IF i <= SnapLen(r) /\ i \notin r.cover THEN Hole ELSE Prefix(text, i)]

Decoding == ~ BeyondLimit(req) /\ pc \in {"cycle", "verify", "emit", "finish", "summary", "return"}

\* What the engine promises: whatever the draft model or the copy index propose,
\* whatever is accepted, rolled back, restored or drafted ahead, the tokens handed
\* out are the target's own greedy continuation of the prompt, at most max_new_tokens
\* of them, at most a block past a stop token, and none after the end.
Outcome == CASE pc = "done" -> "complete" [] pc = "closed" -> "abandoned"
             [] OTHER -> "running"
Decoder == INSTANCE GreedyDecode WITH
    Argmax <- Greedy, Slack <- Block - 1,
    prompt <- req.prompt, max <- req.max, outcome <- Outcome
ImplementsGreedyDecode == Decoder!Spec

\* After every verification both caches have read exactly the committed text,
\* though they are brought back differently (one is trimmed, the other rolled back
\* from a checkpoint); the logits are those of that text, and the cycle counts
\* from its end.
CachesHoldTheText ==
    Decoding =>
        /\ kv = Text /\ gdn = Text
        /\ start = Len(Text)
        /\ logits = Greedy(Text)
        /\ pc = "cycle" => staged = logits
        /\ pc = "verify" => verify[1] = logits

\* A draft is made after the draft cache has been fed the target's features of
\* every position before the block, each once and in order, whoever proposed the
\* blocks in between and whether they were drafted ahead or not; what a snapshot
\* lacked is missing only for a draft model that does without.
DraftSeesEachPositionOnce ==
    (/\ Decoding
     /\ \/ pc = "verify" /\ source # "none"
        \/ pc \in {"cycle", "emit"} /\ draft.ahead # None) =>
        /\ draft.fed = FeaturesOf(req, Text)
        /\ Full(req) => \A i \in 1..Len(draft.fed) : draft.fed[i] # Hole

\* Everything handed to the cache, at a frontier, at the stable boundary or after
\* the reply, is what it says: the state of both caches, the logits and the
\* features after exactly its tokens; the sidecar of a reply is the state at the
\* boundary, not a later one.
PublishedStatesAreTrue ==
    \A p \in published :
        /\ p.kv = p.tokens /\ p.gdn = p.tokens
        /\ p.logits = Greedy(p.tokens)
        /\ p.feats = FeaturesOf(req, p.tokens)
        /\ p.side # None =>
              /\ p.side.gdn = Prefix(p.tokens, p.side.at)
              /\ p.side.logits = Greedy(p.side.gdn)

\* A reply that was finished while the cache was open is remembered, with all the
\* tokens that were handed out, and with a sidecar if its boundary is far enough in.
RepliesAreRemembered ==
    (pc = "done" /\ ~ BeyondLimit(req) /\ Collects /\ emitted # <<>>) =>
        \E p \in published :
            /\ p.kind = "generation"
            /\ p.tokens = req.prompt \o emitted
            /\ req.boundary >= SidecarMin => p.side # None /\ p.side.at = req.boundary

=============================================================================
