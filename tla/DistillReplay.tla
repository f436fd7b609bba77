--------------------------- MODULE DistillReplay ---------------------------
(***************************************************************************)
(* Which captured cycles the DFlash 2 trainer replays, and in which order: *)
(* mlx_gptq/dflash2_distill.py (datasets, prompt split, passes over them), *)
(* mlx_gptq/dflash2_replay.py (PromptCaches, the fidelity gate) and        *)
(* tools/export_dflash2_capture_split.py.                                  *)
(*                                                                         *)
(* A captured cycle is <<p, n>>, the n-th cycle of prompt p; a capture and *)
(* a dataset are sequences of cycles.  What a draft cache holds of a       *)
(* prompt is the sequence of cycles whose contexts it was given (how it    *)
(* trims them is DraftCache's).  A sample or shuffle of the standard       *)
(* library's random is any outcome of its kind.                            *)
(***************************************************************************)
EXTENDS Integers, Sequences, FiniteSetsExt

CONSTANTS
    Captures,    \* the capture directories: sequences of prompt indices
    Arguments    \* command lines, records
                 \* [exported, trainLimit: of the exporter,
                 \*  limit, stratified, percent (validation_fraction),
                 \*  draft (--replay-draft), loss, fidelity (cycles), epochs]

DistillReplayAssumption ==
    /\ Captures \subseteq Seq(Nat)
    /\ \A a \in Arguments :
          /\ {a.trainLimit, a.limit, a.percent, a.fidelity} \subseteq Nat
          /\ {a.exported, a.stratified, a.draft} \subseteq BOOLEAN

VARIABLES
    args, capture,
    stage,       \* what the process is doing
    train, validation,  \* datasets
    ids, heldIds,\* their indices that are used
    todo,        \* indices the current pass has yet to visit
    caches,      \* PromptCaches.state: [prompt -> [seen, last]]
    epoch

replayVars == <<args, capture, stage, train, validation, ids, heldIds, todo, caches, epoch>>

Cycles(prompts) == [i \in DOMAIN prompts |->
    <<prompts[i], Cardinality({j \in 1..i : prompts[j] = prompts[i]})>>]
PromptOf(data, i) == data[i][1]
PromptsOf(data) == {PromptOf(data, i) : i \in DOMAIN data}
Of(data, p) == {i \in DOMAIN data : PromptOf(data, i) = p}

\* A set as a sequence, in an order.
SortedBy(set, Before(_, _)) ==
    [n \in 1..Cardinality(set) |->
        CHOOSE x \in set : Cardinality({y \in set : Before(y, x)}) = n - 1]
Sorted(set) == SortedBy(set, <)
Pick(data, set) == [k \in DOMAIN Sorted(set) |-> data[Sorted(set)[k]]]

\* The first n members of a set in an order.
FirstBy(set, n, Before(_, _)) ==
    {x \in set : Cardinality({y \in set : Before(y, x)}) < n}
FirstOf(data, set, n) == FirstBy(Of(data, set), n, <)

(* ------------------------- how many of each prompt ---------------------- *)

\* What floor(limit * share) leaves over, times the number of cycles: the prompts
\* with the most come first, then the lower index.
LeftOver(data, limit, q, p) == limit * Cardinality(Of(data, p)) - q[p] * Len(data)
ByFraction(data, limit, q, x, y) ==
    \/ LeftOver(data, limit, q, x) > LeftOver(data, limit, q, y)
    \/ LeftOver(data, limit, q, x) = LeftOver(data, limit, q, y) /\ x < y

Share(data, limit, p) == (limit * Cardinality(Of(data, p))) \div Len(data)
TotalOf(q) == MapThenSumSet(LAMBDA p : q[p], DOMAIN q)

ToppedUp(data, limit, q) ==
    LET more == FirstBy(DOMAIN q, limit - TotalOf(q),
                        LAMBDA x, y : ByFraction(data, limit, q, x, y))
    IN [p \in DOMAIN q |-> IF p \in more THEN q[p] + 1 ELSE q[p]]

\* One round over the prompts, the least sampled first (of two alike the one
\* captured first); no prompt loses its last cycle.
Reducible(q) == {p \in DOMAIN q : q[p] > 1}
Reduced(data, limit, q) ==
    LET before(x, y) ==
            LET a == q[x] * Cardinality(Of(data, y))
                b == q[y] * Cardinality(Of(data, x))
            IN a < b \/ (a = b /\ Min(Of(data, x)) < Min(Of(data, y)))
        fewer == FirstBy(Reducible(q), TotalOf(q) - limit, before)
    IN [p \in DOMAIN q |-> IF p \in fewer THEN q[p] - 1 ELSE q[p]]

\* The floor alone.
AtLeastNone(data, limit) == [p \in PromptsOf(data) |-> Share(data, limit, p)]
AtLeastOne(data, limit) ==
    [p \in PromptsOf(data) |-> Max({1, Share(data, limit, p)})]
QuotaFails(data, limit) ==
    LET q == AtLeastOne(data, limit)
    IN TotalOf(q) - limit > Cardinality(Reducible(q))
Quotas(data, limit) ==
    LET q == AtLeastOne(data, limit)
    IN ToppedUp(data, limit, IF TotalOf(q) > limit THEN Reduced(data, limit, q) ELSE q)

\* _stratified_indices: any sample of the quotas' sizes.
StratifiedIndices(data, limit) ==
    {set \in SUBSET DOMAIN data : \A p \in PromptsOf(data) :
        Cardinality(set \cap Of(data, p)) = Quotas(data, limit)[p]}

\* prefix_cycles of the exporter: the first cycles of each prompt.
PrefixCycles(data, limit) ==
    IF limit = 0 \/ limit >= Len(data) THEN DOMAIN data
    ELSE LET q == ToppedUp(data, limit, [p \in PromptsOf(data) |-> Share(data, limit, p)])
         IN UNION {FirstBy(Of(data, p), q[p], <) : p \in PromptsOf(data)}

HeldOutCount(prompts) == Max({1, (Cardinality(prompts) * args.percent) \div 100})

(* ------------------------------ the datasets ---------------------------- *)

ReplayInit ==
    /\ args \in Arguments /\ capture \in Captures
    /\ stage = IF args.exported THEN "export" ELSE "load"
    /\ train = <<>> /\ validation = <<>> /\ ids = {} /\ heldIds = {}
    /\ todo = <<>> /\ caches = <<>> /\ epoch = 0

Refuse == /\ stage' = "refused"
          /\ UNCHANGED <<args, capture, train, validation, ids, heldIds, todo, caches, epoch>>

\* export_split: prompts on two sides, of each the first cycles; what fails
\* half way is removed.
Export ==
    /\ stage = "export"
    /\ LET whole == Cycles(capture)
           prompts == PromptsOf(whole)
       IN \/ Refuse
          \/ /\ Cardinality(prompts) >= 2 /\ HeldOutCount(prompts) < Cardinality(prompts)
             /\ \E out \in kSubset(HeldOutCount(prompts), prompts) :
                   LET of(side) == Pick(whole, {i \in DOMAIN whole : PromptOf(whole, i) \in side})
                       kept == of(prompts \ out)
                   IN /\ train' = Pick(kept, PrefixCycles(kept, args.trainLimit))
                      /\ validation' = of(out)
             /\ stage' = "load"
             /\ UNCHANGED <<args, capture, ids, heldIds, todo, caches, epoch>>

UseCapturedHidden == args.loss = "selector" /\ ~args.draft

\* The only combination the trainer refuses.
StratifiedReplay == args.draft /\ args.stratified /\ args.limit > 0

Limited(data) ==
    IF args.limit = 0 THEN {DOMAIN data}
    ELSE IF ~args.stratified THEN {1..Min({args.limit, Len(data)})}
    ELSE IF args.limit >= Len(data) THEN {DOMAIN data}
    ELSE IF QuotaFails(data, args.limit) THEN {}
    ELSE StratifiedIndices(data, args.limit)

NoCaches == [p \in PromptsOf(train') \cup PromptsOf(validation') |-> [seen |-> <<>>, last |-> -1]]

\* _fidelity_plan: the first cycles of several prompts, in capture order.
FidelityPlan(data, limit) ==
    LET count == Min({Cardinality(PromptsOf(data)), Max({1, limit \div 4})})
        groups == FirstBy(PromptsOf(data), count,
                          LAMBDA x, y : Min(Of(data, x)) < Min(Of(data, y)))
        depth == (limit + count - 1) \div count
        place(i) == Cardinality({j \in Of(data, PromptOf(data, i)) : j < i})
        plan == {i \in DOMAIN data : PromptOf(data, i) \in groups /\ place(i) < depth}
        before(i, j) == LET a == Min(Of(data, PromptOf(data, i)))
                            b == Min(Of(data, PromptOf(data, j)))
                        IN a < b \/ (a = b /\ i < j)
    IN Sorted(FirstBy(plan, limit, before))

Source == IF args.exported THEN train ELSE Cycles(capture)

\* _prompt_split has no training prompt left.
TooFewPrompts(data) ==
    ~args.exported /\ HeldOutCount(PromptsOf(data)) >= Cardinality(PromptsOf(data))

LoadFails ==
    \/ StratifiedReplay
    \/ Limited(Source) = {}
    \/ \E set \in Limited(Source) : TooFewPrompts(Pick(Source, set))

\* From the arguments to the two datasets; a run that replays begins with the
\* fidelity gate.
Load ==
    /\ stage = "load" /\ ~StratifiedReplay
    /\ \E set \in Limited(Source) :
          /\ train' = Pick(Source, set) /\ ~TooFewPrompts(train')
          /\ IF args.exported
             THEN ids' = DOMAIN train' /\ heldIds' = DOMAIN validation /\ UNCHANGED validation
             ELSE /\ validation' = train'
                  /\ \E out \in kSubset(HeldOutCount(PromptsOf(train')), PromptsOf(train')) :
                        heldIds' = {i \in DOMAIN train' : PromptOf(train', i) \in out}
                  /\ ids' = DOMAIN train' \ heldIds'
    /\ stage' = IF UseCapturedHidden THEN "evaluate" ELSE "fidelity"
    /\ todo' = IF UseCapturedHidden THEN Sorted(heldIds')
               ELSE FidelityPlan(train', Min({args.fidelity, Len(train')}))
    /\ caches' = NoCaches
    /\ UNCHANGED <<args, capture, epoch>>

LoadRefused == stage = "load" /\ LoadFails /\ Refuse

(* ------------------------------- the passes ----------------------------- *)

\* The dataset the pass is over.
Data == IF stage = "evaluate" THEN validation ELSE train

\* The cache always goes on where it stands.
ReplayedOn(data, i) ==
    LET p == PromptOf(data, i)
    IN [caches EXCEPT ![p] = [seen |-> Append(@.seen, data[i][2]), last |-> @.last + 1]]

\* PromptCaches.replay: the cache goes on where it stands if this cycle is the
\* one after the last, and begins anew otherwise.
Replayed(data, i) ==
    LET p == PromptOf(data, i)
        order == Cardinality({j \in Of(data, p) : j < i})
        seen == IF caches[p].last + 1 # order THEN <<>> ELSE caches[p].seen
    IN [caches EXCEPT ![p] = [seen |-> Append(seen, data[i][2]), last |-> order]]

Visit ==
    /\ stage \in {"fidelity", "evaluate", "train"} /\ todo # <<>>
    /\ todo' = Tail(todo)
    /\ caches' = IF UseCapturedHidden THEN caches ELSE Replayed(Data, Head(todo))
    /\ UNCHANGED <<args, capture, stage, train, validation, ids, heldIds, epoch>>

\* The gate is passed, or its median cosine is too low; it had caches of its own.
FidelityEnd ==
    /\ stage = "fidelity" /\ todo = <<>>
    /\ \/ Refuse
       \/ /\ FidelityPlan(train, Min({args.fidelity, Len(train)})) # <<>>
          /\ stage' = "evaluate" /\ todo' = Sorted(heldIds)
          /\ caches' = [p \in DOMAIN caches |-> [seen |-> <<>>, last |-> -1]]
          /\ UNCHANGED <<args, capture, train, validation, ids, heldIds, epoch>>

\* _capture_order: prompt by prompt, each in capture order.
CaptureOrder(data, set) ==
    SortedBy(set, LAMBDA i, j :
        LET a == Min(Of(data, PromptOf(data, i)))
            b == Min(Of(data, PromptOf(data, j)))
        IN a < b \/ (a = b /\ i < j))

EvaluateEnd ==
    /\ stage = "evaluate" /\ todo = <<>>
    /\ IF epoch < args.epochs
       THEN stage' = "train" /\ todo' = CaptureOrder(train, ids)
       ELSE stage' = "export weights" /\ UNCHANGED todo
    /\ UNCHANGED <<args, capture, train, validation, ids, heldIds, caches, epoch>>

TrainEnd ==
    /\ stage = "train" /\ todo = <<>>
    /\ stage' = "evaluate" /\ todo' = Sorted(heldIds) /\ epoch' = epoch + 1
    /\ UNCHANGED <<args, capture, train, validation, ids, heldIds, caches>>

ReplayNext == Export \/ Load \/ LoadRefused \/ Visit \/ FidelityEnd \/ EvaluateEnd \/ TrainEnd

ReplaySpec == ReplayInit /\ [][ReplayNext]_replayVars

(* ------------------------------- properties ----------------------------- *)

\* What a cache holds of a prompt are its cycles from the first on, none
\* skipped, whatever was selected and however passes follow one another.
CachesHoldEveryCycle ==
    \A p \in DOMAIN caches : \A k \in DOMAIN caches[p].seen : caches[p].seen[k] = k

\* No prompt is both trained on and validated with, and both have cycles.
PromptsKeptApart ==
    stage \notin {"export", "load", "refused"} =>
        /\ ids # {} /\ heldIds # {}
        /\ {PromptOf(train, i) : i \in ids} \cap {PromptOf(validation, i) : i \in heldIds} = {}

\* A stratified selection has as many cycles as asked for, and some of every
\* prompt.
SelectionIsStratified ==
    (stage \notin {"export", "load", "refused"} /\ args.stratified /\ args.limit > 0
        /\ ~args.exported /\ args.limit < Len(capture)) =>
        Len(train) = args.limit /\ PromptsOf(train) = {capture[i] : i \in DOMAIN capture}

ReplayIsSequential == CachesHoldEveryCycle /\ PromptsKeptApart /\ SelectionIsStratified
=============================================================================
