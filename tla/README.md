# A verification project for mlx-gptq-mxfp

TLA+ modules that model the parts of this repository whose correctness rests on
the order of things. In the dflash runtime: the prefix cache in two tiers, the
speculative decoding of a request with trees and sparse prompts, the loop that
turns it into a reply, the server around it from start-up to shutdown, a
conversation with tools. In the calibration: Stage A and Stage B with deaths at
any step, the training of a draft model, campaigns on a remote host, the
precision ladder with its publication, and the tools that build the texts. TLC
checks small instances; TLAPS proves central results for every value of the
constants.

    tlc -config MCPrefixL1.cfg MCPrefixL1
    tlc -config Reply.cfg MCReplyLoop          (and so on, see "Runs")
    tlapm PrefixL1Proofs.tla                   (also PrefixL2Proofs, PrefixStoreProofs,
                                                ReplyLoopProofs, ServingProofs, CalibrationProofs,
                                                OfflineProofs, AdmissionProxy)

Paths below are relative to the repository; `dflash_mlx/` stands for
`runtime/dflash-mlx/dflash_mlx/`, and so do `cache/`, `engine/`, `server/` and
`runtime/*.py`; `modal/` and `scripts/*mxfp4*` are those of
`campaigns/mlx-gptq-calibration/`.

## 1. Inventory

The runtime. A connection thread of `serve.py` puts a request into the queue of
one generation thread; that thread asks the cache manager for a snapshot
(`prefix_cache_flow.py`), opens the engine (a generator) and consumes its events
(`request_loop.py`), while the disk tier's writer thread and readers of
`/metrics` run beside it.

| component | state it keeps | operations | what is hard | what makes it correct |
|---|---|---|---|---|
| **Prefix snapshots** `cache/snapshot.py`, `cache/codecs.py`, `engine/prefill.py` | immutable records; arrays that may be shared with live caches | coverage, slicing at the sidecar boundary, hydrate, (de)serialise | holes in the feature spans, boundaries off by one, arrays written in place | a served state is a true prefix of the request and stays it |
| **Memory tier (L1)** `cache/prefix_l1.py` | `_entries`, `_lru_order`, `_next_id` | lookup (recording or peeking), insert with pruning and eviction, clear | long histories of nested prompts and replies under two budgets | no useless entry, no masked prompt, nothing lost |
| **Disk tier (L2)** `cache/prefix_l2.py` | directory, flock, tracked bytes, epoch, slots, queue, gate | lookup, insert_async, clear, begin/end_request, shutdown, writer loop | writer against caller, failures at every file call, crashes, timeouts, other processes | one owner writes, cleared files stay away, slots come back, budget |
| **Store** `cache/store.py` | the two tiers | lookup, insert, insert_l2_only, clear, shutdown | two lookups that must agree, promotion, spilling | neither tier hides the other, evictions reach the disk |
| **Manager and registry** `cache/manager.py`, `cache/snapshot_service.py` | retired flags, registry by identity, "current" | get, sync, shutdown, forwarding | a manager retired under a running request; a shutdown that raises | per-model isolation, every manager accounted for |
| **Speculative engine** `engine/spec_epoch.py` and its helpers | target caches, draft context, staged token, copy index, policy windows | prefill, draft or copy, verify, accept, roll back, publish | acceptance at block ends, rollback of two kinds of cache, prefetching, trees, patched ropes | the output is that of plain decoding; the policies decide on current data |
| **Server** `serve.py`, `server/*.py`, `runtime/*.py` | queue, response queues, model in place, live metrics, settings | load, serve, hang up, shut down; configure, publish the bundle | failures at every point, shared attributes, restarts on one directory | every request is answered once; metrics agree; settings mean what was said |
| **Protocol adapters** `server/protocol.py`, `responses_adapter.py`, `tool_calls.py` | cached state machines, history | items to messages, tokens to parts, spans to calls | two interfaces, reasoning, undeclared tools | nothing said is lost on the way round |
| **Draft models** `model.py`, `draft/dflash2.py` | sink-and-window cache, growing cache | append, trim, attend | cuts that must stay aligned | a block sees the context it is meant to |
| **Admission proxy** `scripts/local27_admission_proxy.py` | semaphore, counters | begin, call, end | counters and semaphore move in different steps | counters agree, the queue moves |

The calibration.

| component | state it keeps | operations | what is hard | what makes it correct |
|---|---|---|---|---|
| **Stage A** `mlx_gptq/calibrate.py`, `artifacts.py` | `calib_tokens.npy`, layer files, manifest; activations | start, resume, replay, solve, write | death at any write, other arguments on resume | the directory is that of an uninterrupted run |
| **One layer** `sequential.py`, `capture.py` | stashes, span counter, shared parameter and result | capture, backfill, claim, solve, put, add | workers that share, stashes that siblings share, memory | every expert solved once, on its own inputs |
| **Stage B** `pack.py`, `stream_pack.py`, `mix.py` | shards, index, config | stream, inject, mix | what older runs and deaths left | a ready directory is read as calibrated |
| **DFlash 2 training** `dflash2_distill.py`, `dflash2_replay.py`, tools | replay caches, checkpoint, exports, receipt | select, replay, train, resume, export, validate, merge | order of cycles, interruptions | replay is sequential; a result is of one training |
| **Campaigns** `campaigns/.../cli.py`, `hybrid.py` | host directory, copies, overlay, receipts | prepare, start, fetch, overlay, pack | commands interrupted, or beside Stage A | fetches are whole, receipts true |
| **Precision ladder** `modal/*.py`, `scripts/quantize_mxfp4_vllm.py`, `convert_mxfp4_text_only.py` | one volume with models and receipts; one repository | download, verify, quantise, convert, flatten, bench, publish | jobs that die and are repeated; publishers beside each other | what is packaged is one result, and receipts tell which |
| **Data tools** `tools/*.py`, holdout builders | texts, windows, receipts | dedup, stratify, choose, hold out | greedy choices, near copies, repeated runs | no copies, quotas, nothing of the calibration in a holdout |

Kernels, solvers, grids, the numeric parts of the models, benchmarks and
supervision scripts are not modelled (section 7); `PROJECT.json` lists every
component with its status.

## 2. Modules

### The runtime

| module | models | in terms of the code |
|---|---|---|
| `Snapshots` | `Snapshot`, `Request`, coverage, `UsableSidecar`, `Slice`, and `Reusable`: when a request may start from a state | spans are sets of positions; arrays are left out; sidecar boundary, states and logits are one field, as the engine fills them together |
| `SnapshotCache` | the abstract promise of any prefix cache: a miss, or a reusable state out of what it holds; it may forget, it may not invent or bring back | `held`, `answer` |
| `PrefixL1` | `DFlashPrefixCache`; each operation is one action because it runs under the cache's lock from its first read to its last write | `entries` is the dict (ids increase, so its order is that of the ids), `older` is `_lru_order` as a strict order, `out` is what the call returned. A lookup is `LookupConsume`, `LookupTouch`, `LookupPeek` or `LookupMiss`; an insert `InsertTooLong`, `InsertYield` or `InsertAdmit`, the last with pruning and eviction in the same step |
| `PrefixL2` | `DFlashPrefixL2Cache`, one record per object, any number of objects on one directory | one action per section under `_lock` and per file-system call outside of it; a directory walk is one action. `call` and `writer` are program counters. `Faults` switches the environment on: unreadable files, I/O errors, an `unlink` that raises on a file that is there, a `save_safetensors` that raises something else, a failing `rmtree`, the join's timeout, crashes |
| `PrefixStore` | `PrefixSnapshotStore` behind the manager's lock: `PrefixL1` as the memory tier (by `INSTANCE`, with every action of it), the disk tier as the set of snapshots that have a file and the queue of those that wait | `todo` is what the operation in progress still has to pass to `insert_async`, one per step, so that the writer runs in between; `up` is the manager's life; a new process finds the files |
| `CacheRegistry` | the registry of managers and requests that hold one while it is reconfigured, switched off, unloaded or shut down | registry functions are steps under the registry's lock; a request holds its manager from step to step without any lock |
| `SnapshotMemory` | which arrays a snapshot shares with the caches of requests | an array is a cell of memory; `KVCache` writes in place while it has room, rotating caches in place for single tokens, recurrent states into new arrays |
| `GreedyDecode` | the abstract promise of decoding: the target's argmax, one token at a time, at most `max_new_tokens` and at most `Slack` past a stop token | `emitted`, `outcome` |
| `SpecDecode` | `SpeculativeSession.run_events`, one request from the restored prefix to the summary, with linear drafts, copies, trees and batches of branches, and `stream_baseline_generate`, which it falls back to | the engine is a generator: an action runs a part of it, `event` is what it yielded and nobody consumed yet, `Resume` and `Close` are the consumer. `kv` and `gdn` are the tokens that the attention cache and the recurrent state have read, a feature is the text up to its position (or `Hole`), logits are their argmax. The target is a function of both `kv` and `gdn`, so that a mistake in either shows in the text. Draft models may propose anything; copies come from the copy index; `CacheCloses` is another thread that shuts the manager down |
| `ReplyLoop` | `consume_dflash_events`: the response held back, the reasons to finish, a client whose reply is over, a client that has left | extends `SpecDecode`: each of its actions consumes an event and resumes or closes the engine in the same step |
| `DraftTree` | `build_flat_ddtree` and one pass of `target_qwen_gdn.py` over the tree: positions, attention, recurrence, convolution windows; `follow_verified_tree`, `restore_after_tree_acceptance` | a score is a cost; three caches hold the tokens they were computed from. The state after acceptance is the one kept for the last slot, or a replay of the accepted ones |
| `CyclePolicy` | the adaptive block policy and the automatic copyspec gate, which `SpecDecode` leaves free | a cycle commits some tokens and takes some time; rates are fractions |
| `SparsePrefill` | positional sparse prefill: ropes of the one target model patched and restored around requests | a key is the position it was rotated to. The library offers it; the HTTP server never asks for it |
| `DraftCache` | the two context caches of a draft, served and replayed | an entry is the position of its feature and of its rotation |
| `Contracts` | rows of a verify batch shared by confidence, accepted lengths, short-first admission | `serving_contracts.py` is used by its tests and `scripts/check_stack.py` only |
| `Serving` | queue, generation thread, loads, requests served by the target alone, live metrics, clients that hang up, salvage of a broken tool call, shutdown | `mlx_lm`'s response generator and handler are external: how `serve.py` uses them |
| `LiveMetrics` | the counters behind `/metrics` and the two steps in which they are read | one lock for the live state, another for the cache's statistics; one cache manager for the life of the process (section 6) |
| `Startup` | flags, environment and defaults; refusals; the diagnostics directory; loading and publishing the bundle field by field; the main thread that waits; doctor and generate beside it | a process may die at any step and another be started on the same directory |
| `Conversation` | turns of a conversation on both interfaces: state machines, tool calls, the history | a text is a sequence of words, markers and spans |
| `AdmissionProxy` | the handlers' `_begin`, backend call and `_end` | one action per section under `_state_lock` and per semaphore operation |

### The calibration

| module | models | in terms of the code |
|---|---|---|
| `CalibrationRun` | the abstract promise of Stage A: layers published in order, each solved on the activations of those before it, never changed | `published` |
| `Calibration` | `mlx_gptq.calibrate`: one process at a time on an output directory, killed at any step and started again, perhaps under another `--artifact-layers-prefix` | one action per change of the directory; a file is absent, torn or whole. `Named` is what a run calls the layers; a listed layer it names otherwise is gone through unquantised (`ReplayPassedOver`) |
| `LayerSolve` | one decoder layer: capture, backfill, worker pool, serial solve, write | a row is the token it came from; one action per section under the lock and per shared write |
| `Packing` | Stage B: `stream_pack`, `pack` and `mix` on one directory over any number of runs | a tensor is where its codes come from and their format (mode and bits); each file write may be torn; readers take all files `model*.safetensors`, whatever the index names |
| `DistillReplay` | selections, splits and passes of the trainer, the replay caches, the fidelity gate, the capture split | a cycle is <<prompt, number>> |
| `Distill` | the trainer's directory over interrupted runs; validator and merge | parameters are the fingerprint of the training and its epochs |
| `Campaign` | `prepare`, `start`, `fetch`, the overlay, `pack`, any of them interrupted at any of its steps, beside Stage A | a file is None, Torn or whole; `pack` is `Convert`, `Converted`, one `Inject` per shard and `PackEnd`; `start` is the process and then `run.pid` |
| `Ladder` | download, verify, quantise, convert, flatten, summary on one volume | one action per file written; a job may be killed between any two |
| `Publication` | publishers of one artifact to one repository: prepare, check, commit, verify, tag | runs interleave at every call to the hub |
| `Corpus` | dedup and stratified windows; prompts by quota, the diverse mix | a text is a short sequence of words; sampling is any choice of its size. Two machines on variables of their own: `CorpusNext`, `PromptsNext` |
| `Holdout` | holdouts and their receipts; the scoring plan of the benches (`window_plan`, `causal_score_slices`) | words as in `Corpus`; two machines as well |
| `MC...` | the instances for TLC (section 3) | |
| `...Proofs` | theorems and proofs (section 5): those of the engine and its consumer are in `ReplyLoopProofs`, those of the calibration but for Stage A and the trainer in `OfflineProofs` (these two in `CalibrationProofs`); those of `AdmissionProxy` are few and stand in it | |

How they compose: `PrefixStore` instantiates `PrefixL1`; `PrefixL1` and
`PrefixStore` both implement `SnapshotCache`, `Calibration` implements
`CalibrationRun`, `SpecDecode` implements `GreedyDecode` with a slack of a block
less one token (refinement mappings at the end of each module). `ReplyLoop`
composes the engine with its consumer: its steps are steps of `SpecDecode`, whose
properties are checked under it. `PrefixL2` is the detail behind the disk half of
`PrefixStore`: `WriteJob` is one turn of its writer, `LoseFile` its evictions and
the removal of unreadable files. That correspondence, and that of `CyclePolicy`
and `DraftTree` to the free choices of `SpecDecode`, is by reading, not by a
checked refinement.

A definition whose comment begins with "Mutant" or "A mutant" is not part of any
specification. Each is a definition below it with a plausible bug in it; each
property was seen to fail when it takes that definition's place.


## 3. Runs

Components that share no state are checked in one run, as scenes: the initial
state chooses the scene, `Next` moves only that component, and each scene is
explored to the end of its bounds. Nothing is lost by this and nothing is
gained but fewer files; a property says in which scene it speaks.

| run | scenes and instances | what is checked |
|---|---|---|
| `prefix_l1` (`MCPrefixL1`) | ten snapshots of one branching conversation under two fingerprints: prompts with and without logits, replies with a sidecar, replies whose features have a hole before the draft's window and in it. 3 entries, 7 bytes, ids below `IdBound` = 4: each budget binds without the other, an insert can evict two entries and itself; stride 2 and cap 3 make an aligned frontier and an oversized prompt occur | `EntriesAccountedFor` (types, the LRU list, both budgets), `NoDominated`, `ResidentPromptIsServed`, `LookupIsBest`, `NothingLost`; refinement of `SnapshotCache` |
| `prefix_l2` (`MCPrefixL2`) | *writer*: one object, three files (one of size 2), two slots, faults io, unlink, save, timeout, crash; budget 2 below the sum of the files, two epochs (`EpochBound`), one request at a time (`ActiveBound`): eviction, a clear in every state of the writer, a queue of two. *shared*: two objects on one directory, faults spoil, io, unlink, rmtree, crash: two owners in turn are enough for the flock to change hands at every point of the writer | `WriterAccounts` (every job is in the queue, in hand or over; slots; the tracked bytes never below the directory's), `PublishesWithinBudget` (or what is left are files this very eviction could not unlink: `_evict_until_under_budget` goes on to the next one), `PublishesNothingStale`, `SharedDirectory` (only the holder of the flock writes, and nothing stale is published, with two objects) |
| `store` (`MCPrefixStore`) | prompts, one trimmed and in full, one too long for memory, and a reply with a sidecar. 2 entries, 3 bytes, ids below 2 in each life of the process, one writer slot (what the program uses); files lost, writes that fail in two ways, crashes and restarts | `NothingLostBetweenTiers`, `BestOfBothTiers`; refinement of `SnapshotCache` over both tiers and restarts |
| `parts` (`MCParts`) | *stage A*: three layers, four argument lists: one differs from the first in what a resume compares, one in its windows, one only in how it names the layers; three crashes. *corpus, prompts, holdout*: three blocks or records of up to four words out of two, so that copies, near copies and texts too short for either occur; a second holdout run. *scoring*: all plans up to nine tokens. *publication*: two publishers, two versions. *blocks, copying*: the policy and the gate with short windows. *rows, agreement, admission*: two slots, three requests. *metrics*: two requests, a reader. *recurrent, rotating*: nine cells of memory, two snapshots. *configuring, restarting, loading*: every pair of settings, two runs, every kind of target and draft. *talk*: two turns of three tokens on two interfaces. *selecting*: two layers, three requests | `ListedLayersAreWhole`; refinement of `CalibrationRun`; `ProvenanceIsSound` (no copies, windows without loss, quotas, no calibration text in a holdout, every token scored once, what is recorded is the tagged commit); `EngineStaysSound` (decisions on current measurements, rows and admissions fair, answers of /metrics coherent and never going back, snapshots unwritten, settings as said, restarts apart, tool calls declared and paired, ropes back in place) |
| `reply` (`MCReplyLoop`) | seventeen requests over four tokens, of which 3 stops and 4 is suppressed: a miss, hits one short of the boundary, at it and further back, snapshots with a hole for a draft that needs all features and for one that does not; copies, adaptive blocks, capped verification, profiling, trees, branches, a context limit, no cache, no reply to keep, nothing to generate, the plain decoder. Blocks of 3 (2 when reduced), prefill steps, stride, sidecar minimum and copy window of 2, at most 5 tokens, hence two to five cycles: copies are accepted in full and refused, a stop token lies inside a block and at its end, a prefetched draft meets every change of the block limit | `CachesHoldTheText`, `DraftSeesEachPositionOnce`, `PublishedStatesAreTrue`, `RepliesAreRemembered`, `ResponsesFollowTheEngine`, `RepliesEndWell`; refinement of `GreedyDecode`; `LoopReturns` |
| `server` (`MCServing`) | *server*: three connections, two models (one spelled differently), one request served by the target alone, one token each. *registry*: two threads (alike, hence symmetric), two models, one with two configurations and callers that switch its cache off, three managers | `ServerIsSound` (each response queue gets its answer once and only from the thread that serves it, the live metrics and the model in place are those of the request served), `RegistryIsSound` (every manager in its entry until it is shut down, held for the configuration it was built for, its count that of the requests that run on it; other models keep theirs) |
| `progress` (`MCProgress`) | *proxy*: four handlers, two slots, so that a queue forms. *disk*: one object, one slot, faults spoil and io. *server*: two connections. *stage A*: six crashes at most. Fairness: section 4 | `ActiveHoldsSlots`, `QueueMoves`, `WorkGetsDone`, `EveryRequestIsAnswered` |
| `offline` (`MCOffline`) | *layer*: three experts, two devices of different memory, three matrices of which two share an input. *stage B*: two units with three modules, one of them of two experts and one excluded, formats affine 4, affine 8 and mxfp 4, every calibration of these modules (a stray artifact only beside a whole one), three runs, one death. *draft*: a sink and a window of two, of one and three for the replay, a layer that looks back over two, a buffer that grows by four; contexts up to five, blocks of two and three, three cycles, so that a first context trims, two short ones together do, and a replay trims at other places than serving did. *tree*: up to three positions of one or two candidates with clear, equal and distant scores, two tokens, budgets 0 to 5, a convolution over three inputs behind texts of none to three tokens. *replay*: captures of one to three prompts and every accepted argument list out of two or three values each. *trainer*: two fingerprints, two rates, three runs. *campaign*: two layers, two shards, six commands (enough for a fetch, a pack that is cut off or ends, and two overlays), a text corpus or one of tokens. *ladder*: the quantiser runs at most twice | `EachExpertOnce`, `SolvedOnOwnInputs`, `ReadyIsCalibrated`, `DraftSeesItsContext`, `TreeHoldsTheBest`, `TreeReadsAsSequences`, `ReplayIsSequential`, `DistillIsSound`, `CampaignIsSound` (with the ladder's receipts) |

`CHECK_DEADLOCK FALSE` stands where the system does stop: a reply, a stage, a
layer, a conversation of two turns, a server after shutdown, and scenes whose
histories end at their bounds.

Runs that show a disagreement between the code and what the repository says of
it; TLC finds the property violated:

| run | what is said | what happens |
|---|---|---|
| `stratified_replay` | `dflash2_distill.py:664`: "stratified cycle sampling is incompatible with replay"; `dflash2_replay.py:228`: each committed cycle extends the cache | the guard looks at `--replay-draft` only; a distribution or hybrid loss replays as well, and then the replay caches skip the cycles that were not drawn |
| `l2_writer_death` | architecture.md: L2 writes "flush between requests" | an exception other than `OSError` from `save_safetensors` leaves `_writer_loop`; the thread is gone, the slot is back, the next job is accepted and stays in the queue |
| `calibration_tokens` | README.md: "Crash-safe: ... re-running with the same `--output` resumes" | `calib_tokens.npy` is written in place and reused when it exists; after a death inside the write every later run fails |
| `serving_salvage` | `tests/test_serve_state_machine.py:819`: a reply closed after a tool call that does not parse reports its request's counts | finish reason and counts are read from the response generator, which all connections share; with two requests at once they are those of the other |

### Divergences of lesser weight

Seen while modelling; without a run of their own.

Caches:
- "At shutdown, resident L1 entries spill to L2" (architecture.md:223): the store is
  built with one writer slot, so a resident handed over while it is taken is
  dropped without any fault (`store.py:260`, `prefix_l2.py:590`).
- "L2 disk writes are paused while a request is served": the writer waits for the
  gate once per job (`prefix_l2.py:664`); a request that begins just after does
  not pause the write.
- `shutdown` gives up the flock after ten seconds while the writer may be between
  its last look at `writable` and `os.replace` (`prefix_l2.py:637-645`, `726-769`):
  with that timeout a non-owner writes once.
- An unreadable file removed beside an eviction is subtracted twice: `stats()` then
  reports less than is on disk until the next walk (`tests/test_prefix_l2.py:1204`
  expects equality).
- A file that a lookup touches after the eviction walk is evicted although an
  older one is there.
- "generation snapshots reach disk only through this spill": a reply evicted from
  memory is handed to the disk tier too (`store.py:201`).

Engine and reply:
- The tree's budget is `verify_token_count - 1` and its seed is the greedy chain of
  that length, so the engine's trees are always chains (runtime-flags.md:72:
  "`ddtree` verifies a small branch batch"). `DraftTree` checks the trees the
  function can build, with larger budgets; `SpecDecode` the chain.
- `ddtree` with a verify length cap of 1 on a target that can verify trees raises
  "draft logits are empty". `RequestAssumption` excludes it.
- With copyspec `auto` and a verify mode other than adaptive, and no profiling, no
  cycle's wall time is tracked (`spec_epoch.py:2093`); the gate then compares
  tokens per cycle, not speed (`config.py:238`: "latches to whichever is faster").
- Disengaging the policy resets the counts of reductions (observability.md:57).
- The summary's reason replaces the one of the response held back: when a stop
  ended the client's reply and the engine went on to `max_new_tokens`, the last
  response says "length". `RepliesEndWell` promises of "length" only that the
  engine did produce that many tokens.
- After the end of the client's reply the engine runs to its own end, and a reply
  published for later contains the tokens past the stop token up to the end of
  the block (`RepliesAreRemembered` says so).
- The plain decoder yields one token when none was asked for, the speculative
  one none. `RequestAssumption` excludes the first.
- The fallback decoder ignores `prompt_token_positions` without a word; a session
  whose `_install` raises leaves its caches open (`spec_epoch.py:2605`).
- `eagle4_backend.py:202`'s docstring and its code differ on the root of the tree
  (harmless).

Server:
- A model asked for under another spelling of its name is loaded again for every
  request. Threads that wait for a response stay blocked after shutdown.
- `--verify-mode off` still installs verify linears in a 4 or 8 bit draft; a refused
  configuration leaves an empty diagnostics directory; the reported source of a
  setting says "cli" or "env" when normalisation switched its value off; `doctor`
  has no flags for the draft's quantisation.
- On the Responses interface two tool calls of one reply, or a text and a call,
  become separate assistant messages of the history.

Stage A and B:
- A resumed Stage A is compared with the manifest on four settings and keeps the
  old header; layers solved with another clip, damp or algorithm stand under it
  (`artifacts.py:51-55`).
- `--artifact-layers-prefix` and `--layers-attr` are not compared on resume either. A run
  that names the layers otherwise passes over every tensor of a listed layer without a
  word (`sequential.py:638-680`), its activations go through the layer as the
  checkpoint has it, and the layers after it are solved on these. `SolvedOverTheListed`
  promises a layer only where all before it are named as it is; `CalibrationRun` says
  what the other ones get.
- `stream_pack` removes nothing (`stream_pack.py:312-362`): shards of an older, longer
  run stay, and `pack` (`pack.py:94`), `mix` (`mix.py:29`) and `mlx_lm` read all files
  `model*.safetensors`, not those the index names. `mix` refuses a tensor that is there
  twice, `mlx_lm` merges. `ReadyIsCalibrated` promises a directory after `stream_pack`
  only where no older shard is left (`Leftovers`), and of every file that is read.
- `stream_pack` compares bits and group size, not the mode (`stream_pack.py:167-174`,
  `188-195`), and drops the biases of fused experts; a dead one leaves the older config.
  `ReadyIsCalibrated` asks the format of a module only where artifacts and config are
  of one MXFP mode, or after a conversion (`Accounted`).
- `mix.py` gives a replaced module the override model's global quantisation, where
  its docstring speaks of the module's own metadata (`mix.py:4`).

DFlash 2:
- Replay masks causally inside the block (`dflash2_replay.py:170`), serving does not
  (`draft/dflash2.py:59-60`, `239-242`), though replay "must reproduce that contract
  exactly" (`dflash2_replay.py:6-9`). `DraftSeesItsContext` compares what the two see of
  the context.
- `_stratified_indices` reduces once and may raise although a selection exists.
- The receipt's `validation_metrics` repeats the initial ones; epochs, rate, limit
  and the initial projection are not in the fingerprint, and the schedule's length
  is restored from the checkpoint. The validator accepts exports that a dead run
  left beside another's receipt.

Campaigns and ladder:
- `start` tests that inputs exist (README: "verifies ... before calibration begins");
  two starts at once both pass the check of the pid, and so does one after a start that
  was cut off between the process and `run.pid` (`cli.py:580-581`). A corpus of tokens
  that was copied in part ends Stage A when it is loaded; of `calibration.txt` a part
  is taken as it is (`JobLoad`), and the windows drawn from it are kept in
  `calib_tokens.npy` even when the whole text is there later. A fetch beside Stage A may
  copy a torn layer whose receipt counts it; `apply_overlay` does not compare the
  overlay's revision with the pin; `pack` does not ask for all layers.
- A `pack` that dies between two shards leaves a model some of whose shards are
  calibrated. `pack` refuses that output from then on, `apply-overlay` does not: it ends
  well over such a model and writes its receipt. `ReceiptTellsTheModel` therefore
  promises that all shards have the same layers only of a model pack has been through
  (`~unfinished`); of the overlay's own tensors it says what they are in any case.
- Publication: a refresh with the same tag commits first and raises then; documents
  that are not refreshed are compared by size.
- Ladder: a death inside `save_pretrained` makes later runs refuse until someone
  removes the output; a death between the raw shards and their receipt leaves that
  receipt missing for good; the summary may pair receipts of two results when the
  raw one is removed by hand; `flatten` does not ask for the verified source and
  may report an incomplete directory as present; receipts of the benches do not
  bind the tokenizer's hashes (`docs/qwen38-precision-ladder.md` says every receipt
  does). With a stride of the whole window each window's first token is not
  scored ("Every later token is scored exactly once"), as `Holdout` says.
- Data tools: `--emit-last-source-only` selects by file name; the DFlash prompts may
  fall short of their quota after copies are dropped; the ultra holdout does not
  check its combined text; a failed run of the agentic holdout leaves its text
  beside an older receipt; the calibration file is read at the start of the run
  and hashed at its end.

## 4. Fairness

- Disk tier (scene *disk*): the writer thread runs (weak fairness of its steps); the
  wait for the gate is strongly fair, because `Event.set()` wakes the waiting
  thread even if the event is cleared again at once; a call in progress returns; a
  request that began ends (`end_request` is called in a `finally`). New calls,
  `clear()` and `shutdown()` are not forced. `ShutdownFinish` is weakly fair: the
  join returns when the writer ended.
- `ReplyLoop!ReplyFairSpec`: one thread runs the loop and, within it, the engine. The
  client's departure and the closing of the cache are not forced.
- Server (scene *server*): the generation thread runs, and a connection's thread reads
  its own response queue. Posting, hanging up and shutdown are not forced;
  `EveryRequestIsAnswered` speaks of a server that is not shut down.
- Stage A (scene *stage A*): a process runs, and is started again after it died; the
  crash bound makes crashes finite.
- Proxy (scene *proxy*): a thread that is not blocked runs and a backend call ends (it
  has a timeout of 300 s); a free slot is taken by some waiting thread.
  `threading.Semaphore` does not say which, so no single request is promised to be
  admitted.

The other specifications are safety specifications and have no fairness.

## 5. What is proved

Every theorem is for all values of the constants under the assumptions named in
the modules, which are ranges of the constants and facts about their inputs:
`KeyAssumption`, `L1Assumption` (what is published is well formed),
`L2Assumption` (finitely many files at the start), `StoreAssumption`,
`CalibrationAssumption`,
`LayerAssumption`, `ProxyAssumption`, `RequestAssumption` and `ModelAssumption`
(what a request and a target may be: the combinations the program refuses or
never makes are excluded there), `ReplyAssumption`, `ServingAssumption`,
`RegistryAssumption`, `OfflineAssumption` (those of `Packing`, `DraftCache`, `DraftTree`,
`DistillReplay`, `Distill`, `Campaign` and `Ladder` together), and that `None` is none of the things it
stands beside. TLC evaluates each of them on its runs. Three theorems take a hypothesis more,
`TargetSpeaks`, `Alone` and `DistillAssumption`; it stands in the theorem and is
explained below.

- **`PrefixL1Proofs`**. `IInv` strengthens the type of the entries with: ids are
  below `nextId`, `older` is a strict total order of exactly the ids in
  `entries`, both budgets hold, and `NoDominated` over all pairs of ids. It is
  inductive: pruning and eviction only restrict, and the new id is the largest,
  so only pairs with the new entry are new, and these are what `Pruned` removed.
  From it: `EntriesAccountedForAlways`, `NoDominatedAlways`,
  `ResidentPromptIsServedAlways` (a masking entry would have to be an earlier
  entry with the same tokens, hence dominated, or a later one that pruned the
  prompt), `LookupIsBestAlways` (candidates are tried by length and kind; what one
  of them serves is no longer than itself, so the first that serves is best),
  `NothingLostAlways`, `RefinesSnapshotCache`. The first attempt to prove
  `LookupIsBest` failed on a reply whose features have a hole in the draft's window,
  of which TLC's instance had none: `Resident` offered its sidecar, from which the
  draft cannot go on. The property was corrected and the instance has such replies.
- **`PrefixL2Proofs`**. For any number of objects on a directory, of slots and of
  files, with every fault of the model: `IInv` says of each object that its slots
  are the free ones, the queued jobs and the job in the writer's hands, that the
  end mark is the last thing in a queue, and that a call in progress keeps the
  object open (`JobsAccountedForAlways`); `PublishesNothingStaleAlways` follows
  the epoch of a job through the queue. `OnlyOwnerWritesAlways`: `OInv` says that
  a writer at work has the lock while shutdown waits for it; it excludes the fault
  *timeout*, with which shutdown gives the lock up (section 3 lists what happens
  then). `WriterAccountsAlways` and `PublishesWithinBudgetAlways` are about the
  count of bytes: `CInv` says, for each place of the writer, what the count owes
  the directory. An unlink may fail on a file that is there (`prefix_l2.py:918-921`,
  `991-994`): then the eviction goes on to the next file and its size stays counted. So
  what a publish leaves is within the budget or consists of files this eviction has
  tried and not unlinked (`refused`), and the proof carries along that the files still to
  be tried and the refused ones are all there are. They have the hypothesis `Alone`: one object, no unreadable
  file, no failing `rmtree`; each of the three is known to make the count wrong
  until the next walk (section 3). The second also wants `MaxBytes > 0`, as 0
  means no budget.
- **`PrefixStoreProofs`**. The two tiers together, for any snapshots, requests and
  budgets, any number of writer slots and every set of faults. What the memory tier
  does in a step is not proved again: `PrefixL1Proofs` is instantiated as `Tier`, and
  its `IInv` and `BInv` are conjuncts of `SInv`, which adds that no two files have one
  name, that what waits for the disk are snapshots and that the queue keeps its bound.
  `NothingLostBetweenTiersAlways`: what an eviction, a pruning or a shutdown removes is
  what `todo` lists (a list of a finite set in some order loses none of it), and what
  is not written for its name has a file of that name. `BestOfBothTiersAlways`: the two
  lookups agree on what a request may use. `ImplementsSnapshotCacheAlways`: held is what
  lies in memory, in a file, in the queue or in `todo`; a step gives back what it takes
  over and no more.
- **`ReplyLoopProofs`, the engine**. For every vocabulary, target, draft, block length, prompt
  and restored snapshot. `IInv` says at each program counter how far the target's
  two caches, the draft's context, the stored features and the staged token are
  along one text, the greedy continuation of the prompt. From it
  `CachesHoldTheTextAlways`, `DraftSeesEachPositionOnceAlways`,
  `PublishedStatesAreTrueAlways`, `RepliesAreRememberedAlways`, and
  `ImplementsGreedyDecodeAlways`: a cycle that commits n tokens is mapped to the
  step of `GreedyDecode` that hands them out. The hypothesis `TargetSpeaks` says
  that the target's argmax is a token of the vocabulary; it is about an operator
  on all sequences, which TLC cannot enumerate, hence no assumption of the module.
- **`ReplyLoopProofs`, its consumer**. Each step of the consumer is a step of the engine
  (`ReplyDrivesTheEngine`), so the engine's invariant is available; on top of it
  `RInv` relates what was sent, what is held back and what the engine has handed
  out: `ResponsesFollowTheEngineAlways`, `RepliesEndWellAlways`.
- **`ServingProofs`**. The server: `SInv` says where each request is (with its
  thread, queued, at the worker, answered), that only the worker writes a
  response queue and nothing after its end, that ids are issued, shown and
  recorded in order, that the replies that came to their end are no more than
  those recorded, and that the model in place is that of the job between load
  and end (`ServerIsSoundAlways`, for any number of connections and models). The
  registry: `RInv` says that entries stand for managers of their own model, that
  a manager not shut down for good is in one, and that a request holds a manager
  built for its configuration and is counted on it while it runs
  (`RegistryIsSoundAlways`, for any number of threads, models, configurations and
  failing shutdowns). The lemma `HolderMoves` is the reason it is inductive:
  managers only grow and never open again, so what others hold stays what it was.
- **`CalibrationProofs`**. `IInv` relates the directory, the manifest in memory
  and the activations at each program counter: what is listed is whole, is what
  the manifest says and is solved on the activations of the layers below it, and
  `act` is those of the first `layer` files. A crash keeps only the part about the
  directory, which is why that part is stated on its own. From it:
  `ListedLayersAreWholeAlways`, `ActivationsAlways` (a layer under another name counts
  as unquantised), `ListedLayersStayAlways`, the refinement
  `ImplementsCalibrationRunAlways`, where `ListLayer` maps to `Publish` and every other
  step stutters, and `SolvedOverTheListedAlways`: in a directory whose runs name the
  layers alike each is solved on what those before it give.
  The module also has *the trainer* (`DistillIsSoundAlways`), as an instance of `Distill`
  for any fingerprints, settings and scores, with `DistillAssumption` as its hypothesis;
  it is the property the scene *trainer* of `offline` checks. `TInv` says at each place
  of a run which training its parameters are of and that `best` is the best of its
  epochs; that the checkpoint is such a state between two epochs; that the exported
  files before the counter are the parameters in hand.
- **`OfflineProofs`**. Each scene of `MCOffline` has an inductive invariant of its own;
  in the scenes in which another component moves it stays, as its variables do.
  - *One layer*, for any number of experts, any devices, spans, batches and routings. The
    invariant of `EachExpertOnceAlways` says that the counter splits the experts into
    claimed and unclaimed ones, that the spans of two workers do not meet
    (`SpansApart`), that the tasks follow the list in order (`TasksInOrder`), and that
    what a worker has put or added follows its place in its span (`WeightsFollow`). The
    property alone is not inductive: it does not see two workers that hold one expert
    before either writes it. A second invariant follows the rows from the hooks through
    shared stashes to the results: `SolvedOnOwnInputsAlways`.
  - *A campaign* and *the ladder* (`CampaignIsSoundAlways`). `CampInv` says which part of a
    fetch is already here while nothing runs on the host, which shards a begun
    overlay has replaced (`ApplyIs`) and which a begun pack has been through (`InjectedSoFar`);
    an interrupt keeps what the model then is, with `broken` or `unfinished` set. `LInv`
    says that whole raw files are of one result of the pinned source, that what is packaged is of the raw shard that lies there (a
    directory with a shard is never refused, hence never deleted), and that each receipt
    tells of what lies beside it.
  - *Stage B* (`ReadyIsCalibratedAlways`), for any model, artifacts and formats.
    `PackInv` follows a run: what `stream_pack` has emitted is in its buffer or in a
    whole shard below its counter (`StreamIs`); every shard that `inject` has left
    behind is treated, the one in hand and the file beside it excepted (`InjectIs`);
    what the conversion made keeps its place, its modules and their formats, whatever is
    put beside it (`ConvertIs`). The last two survive a death at any write.
  - *A draft's caches* (`DraftSeesItsContextAlways`), for every size of sink, window,
    block, buffer and context and every sequence of drafted and copied blocks.
    `Positions` is what a trimmed cache keeps of a text: increasing positions, the last
    of the window, the first of the sink as far as the first context had them.
    `PositionsGrow` and `FirstPositions` show that the cuts of one more context keep it;
    `BlockSees` that a block behind such positions attends to what its mask says of the
    whole text. A replay's keys are not those of its positions once the cache is
    trimmed: `RejoinedIs` shows that they are wherever the mask looks (`KeysInSight`),
    which needs `ReplayWindow >= Slide` and a sink that is not empty, as the constants
    of `dflash2_replay.py` are (`CONTEXT_WINDOW`, `CONTEXT_SINK`); `ReplaySees` follows.
  - *Trees* (`TreeReadsAsSequencesAlways`), for any tokens, candidates sorted by cost,
    budgets and width of the convolution. `IsTree` says that a slot's parent stands
    before it and is one less deep; `TreeGrows` that a step of the builder keeps it. Hence
    the i-th slot of a path has depth i - 1 (`PathIs`), which is what position ids,
    mask and rollback use in its place. A candidate stays in the heap with a parent that
    is in the tree (`IsCandidate`), and the heap has a least one (`LeastCandidate`).
    `EndOf` says what the convolution holds of a text, zeros where the text is
    too short; `EndMoves` and `WindowIs` show that the windows gathered along a path hold
    just that. `KeysOfPath` and `RestoreHolds` do the same for the keys and the state
    that are kept. The recursive functions of the module (`path`, the cost of a
    chain) are shown to exist and to be unique by a least counterexample (`LeastOf`).
    That the builder takes the *best* slots (`TreeHoldsTheBest`) is not proved.
- **`AdmissionProxy`**. `ActiveHoldsSlots` is inductive with the types: each
  step moves one handler between two of the counted sets, by lemmas on the
  cardinality of a set with one element more or less.

Sums over a set (the byte budgets of both tiers) are folds. What they yield is
shown by a least counterexample: that < is well founded on the naturals is a
theorem about sets (`NatMin` in `PrefixL2Proofs`), where the library's induction
rules take a predicate that no installed prover can instantiate. `Cardinality` is
expanded only by its own name: properties that count are stated in the module
that is proved about, not reached through `INSTANCE`.

Only model-checked:

- liveness: `LoopReturns`, `QueueMoves`, `WorkGetsDone`, `EveryRequestIsAnswered`
  (fairness and `ENABLED` are outside the prover's reach);
- which slots a tree takes and the trainer's selections: `TreeHoldsTheBest`,
  `ReplayIsSequential`;
- `ProvenanceIsSound` and `EngineStaysSound`, and `SharedDirectory` with the faults
  of its instance;
- what a fold over a sequence, `SelectSeq` or a sorted sequence computes: induction
  over data. The best subtree of a given size and the data tools are built of these.

## 6. What the models leave out

- Numeric content: weights, KV and recurrent states are records of where they come
  from. The computation is taken to be deterministic, and a kernel to compute
  what its reference does.
- Statistics (but for those of `/metrics`), logs, tracing, wording.
- `PrefixL2`: an `OSError` of `stat()` or `iterdir()` in a directory walk
  (`prefix_l2.py:935-965`, `978-981`); temporary files left by a crash (never candidates, never counted);
  collisions of hashes in file names; power cuts that undo an `os.replace`, other
  than as an unreadable file.
- `PrefixStore`: a process that did not get the flock (`PrefixL2` has it); the disk
  budget is the fault `lose`.
- `SpecDecode`: diagnostics events, exceptions out of the models; a frontier chunk's two
  events are one. `ReplyLoop`: stop sequences are a match that may occur at any
  token; failures to open a session.
- `CyclePolicy`: the burst of long contexts equals the ordinary one, so there is one
  `Burst`. `SparsePrefill`: two generators on one target at once.
- `Serving`: the two reads of `model_key` in `generate_response` are one step.
- `LiveMetrics`: the cache's counters are those of one manager that stays. The code asks the
  current one (`metrics.py:500`, `manager.py:290-304`): when it is retired or another
  becomes current, these counters may fall, and "never going back" is said of the
  totals and, for the cache, only between such switches.
- `Startup`: Metal limits, the banner. `Conversation`: call ids a model makes up twice;
  reasoning as an item of the history.
- `Calibration`, `Ladder`: two processes on one output directory; nothing in the code
  prevents it and nothing promises it.
- `Packing`: bits that contradict their mode, and BF16 affine scales, over which `pack`
  raises a `TypeError`.
- `Campaign`: a second job beside the first; whatever else writes to the output of `pack`.
  `Discard` stands for naming another output or moving the old one away.
- `Corpus`: the challenge windows without `--challenge-split-marker`, which are drawn like
  the general ones (`build_stratified_calibration_tokens.py:152-155`). The receipts of both
  builders have the same fields here; in the code `build_priority_calibration_tokens.py:98-117`
  names its own otherwise than `export_calibration_parquet.py:37-39` reads them, so the
  exporter takes the receipts of the stratified builder only.
- `Ladder`: of which revision the tokenizer beside flattened weights is
  (`flatten_bf16_text_only.py:157-162` copies what the source directory holds).
- `Publication`: the artifact is stable between hashing and upload; nobody else writes
  to the repository.
- `AdmissionProxy`: HTTP, `accepted`, `backend_errors`, and that a slot lies between the
  client's disconnect and the backend's answer.

## 7. Not modelled, and next

Not modelled, because there is no order of steps to get wrong or nothing but
numbers: the Metal kernels and `verify_qmm`, the quantisation solvers and grids, the
layers of the target and draft models, losses and QAT; the benchmarks, trace
viewers and report generators (sequential scripts without state); the launchd
supervisors and watchers; the export tools; the CUDA probe. The service scripts
poll processes from outside and share no state with the parts above.

Next, in this order:

1. `PrefixL2` as the disk half of `PrefixStore` by a checked refinement; the free
   choices of `SpecDecode` as those of `CyclePolicy` and `DraftTree`.
2. `ReplayIsSequential` for every capture and command line: the order of a pass is one
   of ranks, but the quotas of a stratified selection are sums of floors.
3. `EngineStaysSound` and `ProvenanceIsSound`, a scene at a time, beginning with the
   live metrics and the publishers, whose invariants are about few fields.
