------------------------------ MODULE LayerSolve ------------------------------
(* capture.py and Pipeline.solve_layer of sequential.py: one decoder layer of *)
(* Stage A.  A forward pass over the calibration batches leaves the inputs of *)
(* every matrix in a stash; experts no token was routed to are given a sample *)
(* of the block's inputs; then one worker per device takes spans of experts   *)
(* from a shared counter, solves them and writes them back into the shared    *)
(* parameter and the shared result; the plain matrices follow one by one.     *)
(*                                                                            *)
(* A row is the token it came from; how it was made is kept for the inputs of *)
(* down_proj.  What the solver computes from rows and weights is left out.    *)
EXTENDS Naturals, Sequences, FiniteSets

CONSTANTS
    E,          \* experts are 0 .. E-1
    Devices,    \* the devices, as a sequence
    Chunk,      \* [devices -> experts that fit in one solve]
    Linears,    \* the plain matrices in the order the layer calls them
    InputOf,    \* [linears -> the tensor of a batch it is called with]
    Batches,    \* number of batches
    Tokens,     \* tokens of a batch that the router places
    SampleMax,  \* rows sampled from the block's input in one batch (64)
    None

Device == {Devices[i] : i \in DOMAIN Devices}
Linear == {Linears[i] : i \in DOMAIN Linears}
Experts == 0..(E - 1)
Params == {"gate_up_proj", "down_proj"}
Tasks == <<"gate_up_proj", "down_proj">>

ASSUME LayerAssumption ==
    /\ E \in Nat \ {0} /\ Batches \in Nat \ {0} /\ SampleMax \in Nat \ {0}
    /\ IsFiniteSet(Tokens)
    /\ Devices \in Seq(Device) /\ Devices # <<>>
    /\ Chunk \in [Device -> Nat \ {0}]
    /\ Linears \in Seq(Linear)
    /\ \A i, j \in DOMAIN Linears : Linears[i] = Linears[j] => i = j

\* What a linear or an expert was solved on, when all went well.
Inputs(n, x) == [b \in 1..n |-> <<b, x>>]
RowType == [batch : 1..Batches, token : Tokens, made : {0}]

ASSUME NoneAssumption ==
    /\ \A l \in Linear : None # [rows |-> Inputs(Batches, InputOf[l]), damped |-> FALSE]
    /\ None \notin [rows : SUBSET RowType, over : {0}]

VARIABLES
    phase,    \* where solving this layer stands
    batch,    \* the batch being forwarded
    pos,      \* the next matrix of the layer, or of the serial solve
    eager,    \* the experts go through F.linear, where they can be intercepted
    keyOf,    \* LinearTask.stash_key
    seen,     \* _batch_seen: [tensor -> stash key], tensors of this batch
    rows,     \* stashes of the linears
    tokens,   \* stashes of the experts, per parameter
    sample,   \* _fused_input_stashes
    weight,   \* how often each expert's weights were replaced
    task,     \* index of the fused task being solved
    next,     \* next_expert
    worker,   \* per device: what its thread does
    basis,    \* per device: what its solve has read, per expert of the span
    result,   \* SolveResult: [parameter -> [expert -> basis or None]]
    cached,   \* hess_cache: [stash key -> device and whether damped, or None]
    devq,     \* dev_q
    solved    \* results of the linears: [rows, damped], or None

capture == <<batch, pos, eager, keyOf, seen, rows, tokens, sample>>
fused == <<weight, task, next, worker, basis, result>>
serial == <<cached, devq, solved>>
vars == <<phase, capture, fused, serial>>

Idle == [pc |-> "claim", lo |-> 0, hi |-> 0]

Init ==
    /\ phase = "capture" /\ batch = 1 /\ pos = 1
    /\ eager \in BOOLEAN
    /\ keyOf = [l \in Linear |-> l] /\ seen = <<>>
    /\ rows = [l \in Linear |-> <<>>]
    /\ tokens = [p \in Params |-> [e \in Experts |-> {}]]
    /\ sample = {}
    /\ weight = [p \in Params |-> [e \in Experts |-> 0]]
    /\ task = 1 /\ next = 0
    /\ worker = [d \in Device |-> Idle] /\ basis = [d \in Device |-> None]
    /\ result = [p \in Params |-> [e \in Experts |-> None]]
    /\ cached = [l \in Linear |-> None]
    /\ devq = Devices
    /\ solved = [l \in Linear |-> None]

(* -------------------------------- capture ------------------------------- *)

\* Mutant of Shared: the matrix keeps its own, empty stash.
SharedForgotten(l) == UNCHANGED <<keyOf, rows, seen>>

\* The same tensor was stashed by a sibling in this batch: share its stash.
Shared(l) ==
    /\ keyOf' = [keyOf EXCEPT ![l] = seen[InputOf[l]]]
    /\ UNCHANGED <<rows, seen>>

\* The pre-hook of a plain matrix.
Hook ==
    LET l == Linears[pos]  x == InputOf[l] IN
    /\ phase = "capture" /\ pos <= Len(Linears)
    /\ IF x \in DOMAIN seen
       THEN Shared(l)
       ELSE /\ seen' = [y \in DOMAIN seen \cup {x} |-> IF y = x THEN keyOf[l] ELSE seen[y]]
            /\ rows' = [rows EXCEPT ![keyOf[l]] = Append(@, <<batch, x>>)]
            /\ UNCHANGED keyOf
    /\ pos' = pos + 1
    /\ UNCHANGED <<phase, batch, eager, tokens, sample, fused, serial>>

Row(b, t, e) == [batch |-> b, token |-> t, made |-> weight["gate_up_proj"][e]]

\* The experts of a batch: a sample of the block's input, and every token in the
\* stash of the expert the router sends it to.  begin_batch follows.
Route ==
    /\ phase = "capture" /\ pos = Len(Linears) + 1
    /\ \E to \in [Tokens -> Experts], kept \in SUBSET Tokens :
          /\ Cardinality(kept) = IF Cardinality(Tokens) > SampleMax THEN SampleMax ELSE Cardinality(Tokens)
          /\ sample' = sample \cup {<<batch, t>> : t \in kept}
          /\ tokens' = [p \in Params |-> [e \in Experts |->
                          tokens[p][e] \cup {Row(batch, t, e) : t \in {u \in Tokens : eager /\ to[u] = e}}]]
    /\ seen' = <<>> /\ pos' = 1
    /\ IF batch < Batches THEN batch' = batch + 1 /\ UNCHANGED phase
                          ELSE phase' = "captured" /\ UNCHANGED batch
    /\ UNCHANGED <<eager, keyOf, rows, fused, serial>>

\* check_capture_happened
Uncaptured == \E p \in Params : \A e \in Experts : tokens[p][e] = {}

CheckFails ==
    /\ phase = "captured" /\ Uncaptured
    /\ phase' = "aborted"
    /\ UNCHANGED <<capture, fused, serial>>

\* Mutant of Missing: experts with few tokens are given the sample as well.
MissingOrRare == {e \in Experts : Cardinality(tokens["gate_up_proj"][e]) < 2}

Missing == {e \in Experts : tokens["gate_up_proj"][e] = {}}

\* backfill_unrouted_experts: the sample for gate and up; what the expert makes
\* of it, with the weights it has now, for down.
Backfill ==
    /\ phase = "captured" /\ ~Uncaptured
    /\ tokens' = [p \in Params |-> [e \in Experts |->
                    IF e \in Missing THEN tokens[p][e] \cup {Row(r[1], r[2], e) : r \in sample}
                                     ELSE tokens[p][e]]]
    /\ phase' = "fused"
    /\ UNCHANGED <<batch, pos, eager, keyOf, seen, rows, sample, fused, serial>>

(* --------------------------- experts, in parallel ----------------------- *)

p == Tasks[task]
Span(d) == worker[d].lo..(worker[d].hi - 1)

\* Mutant of Claim: the counter is read before the lock and set after it.
ClaimUnlocked(d) ==
    /\ phase = "fused" /\ worker[d].pc = "claim"
    /\ IF next >= E
       THEN worker' = [worker EXCEPT ![d].pc = "out"] /\ UNCHANGED next
       ELSE LET hi == IF next + Chunk[d] > E THEN E ELSE next + Chunk[d] IN
            /\ next' \in {next, hi}
            /\ worker' = [worker EXCEPT ![d] = [pc |-> "solve", lo |-> next, hi |-> hi]]
    /\ UNCHANGED <<phase, capture, weight, task, basis, result, serial>>

\* worker(device), under span_lock: the next span, or nothing is left.
Claim(d) ==
    /\ phase = "fused" /\ worker[d].pc = "claim"
    /\ IF next >= E
       THEN worker' = [worker EXCEPT ![d].pc = "out"] /\ UNCHANGED next
       ELSE LET hi == IF next + Chunk[d] > E THEN E ELSE next + Chunk[d] IN
            /\ next' = hi
            /\ worker' = [worker EXCEPT ![d] = [pc |-> "solve", lo |-> next, hi |-> hi]]
    /\ UNCHANGED <<phase, capture, weight, task, basis, result, serial>>

\* one_span reads stashes and weights and solves; memory may run out.
SolveSpan(d) ==
    /\ phase = "fused" /\ worker[d].pc = "solve"
    /\ \/ /\ basis' = [basis EXCEPT ![d] =
                        [e \in Span(d) |-> [rows |-> tokens[p][e], over |-> weight[p][e]]]]
          /\ worker' = [worker EXCEPT ![d].pc = "put"]
       \/ worker' = [worker EXCEPT ![d].pc = "raised"] /\ UNCHANGED basis
    /\ UNCHANGED <<phase, capture, weight, task, next, result, serial>>

\* The dequantized weights go into the shared parameter ...
PutSpan(d) ==
    /\ phase = "fused" /\ worker[d].pc = "put"
    /\ weight' = [weight EXCEPT ![p] = [e \in Experts |-> IF e \in Span(d) THEN @[e] + 1 ELSE @[e]]]
    /\ worker' = [worker EXCEPT ![d].pc = "add"]
    /\ UNCHANGED <<phase, capture, task, next, basis, result, serial>>

\* ... and its experts, one after the other, into the shared result.
AddExpert(d) ==
    LET e == worker[d].lo IN
    /\ phase = "fused" /\ worker[d].pc = "add"
    /\ result' = [result EXCEPT ![p][e] = basis[d][e]]
    /\ worker' = [worker EXCEPT ![d] = IF e + 1 < worker[d].hi THEN [@ EXCEPT !.lo = e + 1] ELSE Idle]
    /\ UNCHANGED <<phase, capture, weight, task, next, basis, serial>>

\* The pool is left when every worker is; an exception of one ends the layer,
\* after the others have taken what was left.
Join ==
    /\ phase = "fused" /\ \A d \in Device : worker[d].pc \in {"out", "raised"}
    /\ IF \E d \in Device : worker[d].pc = "raised"
       THEN phase' = "aborted" /\ UNCHANGED <<task, next, worker>>
       ELSE IF task < Len(Tasks)
       THEN /\ task' = task + 1 /\ next' = 0
            /\ worker' = [d \in Device |-> Idle]
            /\ UNCHANGED phase
       ELSE phase' = "linear" /\ UNCHANGED <<task, next, worker>>
    /\ UNCHANGED <<capture, weight, basis, result, serial>>

(* ------------------------- plain matrices, in turn ---------------------- *)

\* get_hessian: the cached one if it lies on this device.
Hessian(key, dev) ==
    IF cached[key] # None /\ cached[key].device = dev THEN cached[key] ELSE [device |-> dev, damped |-> FALSE]

\* Mutant of Keep: the solver damps the cached Hessian itself.
KeepDamped(key, H) == cached' = [cached EXCEPT ![key] = [H EXCEPT !.damped = TRUE]]

\* The solver works on a clone of it.
Keep(key, H) == cached' = [cached EXCEPT ![key] = H]

\* run_linear on the device that has waited longest.
SolveLinear ==
    LET l == Linears[pos]  H == Hessian(keyOf[l], Head(devq)) IN
    /\ phase = "linear" /\ pos <= Len(Linears)
    /\ devq' = Append(Tail(devq), Head(devq))
    /\ Keep(keyOf[l], H)
    /\ \/ /\ solved' = [solved EXCEPT ![l] = [rows |-> rows[keyOf[l]], damped |-> H.damped]]
          /\ pos' = pos + 1 /\ UNCHANGED phase
       \/ phase' = "aborted" /\ UNCHANGED <<solved, pos>>
    /\ UNCHANGED <<batch, eager, keyOf, seen, rows, tokens, sample, fused>>

\* drop_all, the second forward pass and write_layer.
Finish ==
    /\ phase = "linear" /\ pos > Len(Linears)
    /\ phase' = "written"
    /\ UNCHANGED <<capture, fused, serial>>

Over == phase \in {"written", "aborted"} /\ UNCHANGED vars

Next ==
    \/ Hook \/ Route \/ CheckFails \/ Backfill
    \/ \E d \in Device : Claim(d) \/ SolveSpan(d) \/ PutSpan(d) \/ AddExpert(d)
    \/ Join \/ SolveLinear \/ Finish \/ Over

Spec == Init /\ [][Next]_vars

(* ------------------------------ properties ------------------------------ *)

Held(d) == worker[d].pc \in {"solve", "put"}

\* Whatever the workers' order: spans do not overlap, no expert is solved twice,
\* and none is left out unless a worker raised.
EachExpertOnce ==
    /\ \A c, d \in Device : c # d /\ Held(c) /\ Held(d) => Span(c) \cap Span(d) = {}
    /\ \A q \in Params, e \in Experts :
          /\ weight[q][e] <= 1
          /\ phase \in {"linear", "written"} => weight[q][e] = 1

TokensOf(res) == {<<r.batch, r.token>> : r \in res.rows}

\* Every matrix is solved on its own inputs in this layer's raw state: each
\* batch once for a plain matrix though siblings share a stash, the routed
\* tokens for an expert (the sample if there were none), with a Hessian no
\* other solve has touched; a layer that is written is whole.
SolvedOnOwnInputs ==
    /\ \A l \in Linear : solved[l] # None =>
          solved[l] = [rows |-> Inputs(Batches, InputOf[l]), damped |-> FALSE]
    /\ \A q \in Params, e \in Experts : result[q][e] # None =>
          /\ result[q][e].over = 0
          /\ \A r \in result[q][e].rows : r.made = 0
          /\ result[q][e].rows # {}
          /\ TokensOf(result[q][e]) = TokensOf(result["gate_up_proj"][e])
          /\ \A f \in Experts : f # e /\ result[q][f] # None =>
                \/ result[q][e].rows \cap result[q][f].rows = {}
                \/ sample \in {TokensOf(result[q][e]), TokensOf(result[q][f])}
    /\ phase = "written" =>
          /\ \A l \in Linear : solved[l] # None
          /\ \A q \in Params, e \in Experts : result[q][e] # None

==============================================================================
