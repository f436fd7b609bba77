------------------------------ MODULE DraftTree ------------------------------
(***************************************************************************)
(* Trees of drafted tokens (dflash_mlx/engine/ddtree.py) and the caches of *)
(* a target that verifies one in a single pass (engine/target_qwen_gdn.py).*)
(* Slots are counted from 1, the root; a node's parent comes before it.    *)
(*                                                                         *)
(* A candidate's score is given as its cost, the negated log-probability.  *)
(* Keys, recurrent state and convolution inputs are abstracted to the      *)
(* tokens, keys with their position, that they were computed from.         *)
(***************************************************************************)
EXTENDS Integers, Sequences, FiniteSetsExt

CONSTANTS
    Token,
    Candidates,   \* top-k lists: a row per position, [token, cost] by cost
    Budgets,      \* of nodes
    Kernel,       \* conv_kernel_size
    MaxText       \* bound: text after which no cycle begins

\* What the constants are (evaluated by the module that instantiates this one).
DraftTreeAssumption ==
    /\ Kernel \in Nat \ {0} /\ MaxText \in Nat /\ Budgets \subseteq Nat
    /\ \A rows \in Candidates :
          /\ rows \in Seq(Seq([token : Token, cost : Nat]))
          /\ \A d \in DOMAIN rows :
                /\ rows[d] # <<>>
                /\ IsInjective([r \in DOMAIN rows[d] |-> rows[d][r].token])
                /\ \A r \in DOMAIN rows[d] : r > 1 => rows[d][r - 1].cost <= rows[d][r].cost

VARIABLES
    text,       \* the committed text, and the staged token: what is meant
    phase,      \* "draft", "seed", "grow" or "follow"
    rows, budget,
    seeded,     \* chain_seed
    tree,       \* per slot [token, depth, parent]
    heap,       \* candidates [cost, parent, depth, rank]
    accepted,   \* slots followed so far
    keys,       \* KVCache: <<position, token>>
    state,      \* the recurrent state
    conv        \* the last Kernel - 1 inputs of the convolution, 0 for zeros

vars == <<text, phase, rows, budget, seeded, tree, heap, accepted, keys, state, conv>>

Keep == Kernel - 1
Prefix_ == SubSeq(text, 1, Len(text) - 1)
Last(s) == s[Len(s)]
LastN(s, n) == SubSeq(s, Len(s) - n + 1, Len(s))
Padded(s) == LastN([i \in 1..Keep |-> 0] \o s, Keep)

Init ==
    /\ \E first, second \in Token : text = <<first, second>>
    /\ phase = "draft" /\ rows = <<>> /\ budget = 0 /\ seeded = FALSE
    /\ tree = <<>> /\ heap = {} /\ accepted = <<>>
    /\ keys = <<<<0, text[1]>>>> /\ state = <<text[1]>> /\ conv = Padded(<<text[1]>>)

-----------------------------------------------------------------------------
(* build_flat_ddtree                                                       *)

CostAt(d, r) == rows[d][r].cost
Node(t, d, p) == [token |-> t, depth |-> d, parent |-> p]

\* push_candidate: nothing beyond the last row or the last of a row.
Pushed(cost, parent, depth, rank) ==
    IF depth > Len(rows) \/ rank > Len(rows[depth]) THEN {}
    ELSE {[cost |-> cost, parent |-> parent, depth |-> depth, rank |-> rank]}

ChainLength == Min({Len(rows), budget})
\* The cumulative score of the chain.
ChainCost(d) ==
    LET sum[i \in 0..d] == IF i = 0 THEN 0 ELSE sum[i - 1] + CostAt(i, 1) IN sum[d]

Draft ==
    /\ phase = "draft" /\ Len(text) <= MaxText
    /\ rows' \in Candidates /\ budget' \in Budgets /\ seeded' \in BOOLEAN
    /\ tree' = <<Node(Last(text), 0, 0)>>
    /\ phase' = "seed"
    /\ UNCHANGED <<text, heap, accepted, keys, state, conv>>

\* The greedy chain with every runner-up beside it, or only the best root child.
Seed ==
    /\ phase = "seed"
    /\ phase' = "grow"
    /\ IF budget = 0 \/ rows = <<>> THEN UNCHANGED <<tree, heap>>
       ELSE IF seeded
       THEN /\ tree' = tree \o [d \in 1..ChainLength |-> Node(rows[d][1].token, d, d)]
            /\ heap' = UNION {Pushed(ChainCost(d - 1) + CostAt(d, 2), d, d, 2) : d \in 1..ChainLength}
       ELSE heap' = Pushed(CostAt(1, 1), 1, 1, 1) /\ UNCHANGED tree
    /\ UNCHANGED <<text, rows, budget, seeded, accepted, keys, state, conv>>

\* The order of the heap's tuples.
Before(x, y) ==
    \/ x.cost < y.cost
    \/ x.cost = y.cost /\ x.parent < y.parent
    \/ x.cost = y.cost /\ x.parent = y.parent /\ x.depth < y.depth
    \/ x.cost = y.cost /\ x.parent = y.parent /\ x.depth = y.depth /\ x.rank <= y.rank

\* A mutant: the runner-up of a node that is taken is forgotten.
SuccessorsBelow(c, slot) ==
    Pushed(c.cost + CostAt(c.depth + 1, 1), slot, c.depth + 1, 1)
\* What follows a taken candidate: the next of its row, and the best below it.
Successors(c, slot) ==
    Pushed(c.cost - CostAt(c.depth, c.rank) + CostAt(c.depth, c.rank + 1),
           c.parent, c.depth, c.rank + 1)
    \cup Pushed(c.cost + CostAt(c.depth + 1, 1), slot, c.depth + 1, 1)

Growing == heap # {} /\ Len(tree) - 1 < budget

Grow ==
    /\ phase = "grow" /\ Growing
    /\ LET c == CHOOSE x \in heap : \A y \in heap : Before(x, y)
       IN  /\ tree' = Append(tree, Node(rows[c.depth][c.rank].token, c.depth, c.parent))
           /\ heap' = (heap \ {c}) \cup Successors(c, Len(tree) + 1)
    /\ UNCHANGED <<text, phase, rows, budget, seeded, accepted, keys, state, conv>>

-----------------------------------------------------------------------------
(* Verification: what each slot reads.                                     *)

\* _tree_path_indices: the slots from the root to this one.
Path(slot) ==
    LET path[s \in DOMAIN tree] ==
            IF tree[s].parent = 0 THEN <<s>> ELSE Append(path[tree[s].parent], s)
    IN  path[slot]
TokensOf(slots) == [i \in DOMAIN slots |-> tree[slots[i]].token]

\* A mutant: a slot is placed by its number.
PositionBySlot(slot) == Len(Prefix_) + slot - 1
\* flat_tree_positions: a slot stands as deep as it is in the tree.
Position(slot) == Len(Prefix_) + tree[slot].depth

\* _tree_attention_call: the keys of the prefix, and of the slots on the path.
AppendedKeys == keys \o [s \in DOMAIN tree |-> <<Position(s), tree[s].token>>]
AttendedBy(slot) ==
    {AppendedKeys[i] : i \in 1..Len(Prefix_)}
    \cup {AppendedKeys[Len(Prefix_) + s] : s \in Range(Path(slot))}

\* The recurrence starts at the prefix and goes along the parents.
RecurrentAt(slot) == state \o TokensOf(Path(slot))

\* _tree_conv_window_indices: the end of the path, before it the end of the prefix.
WindowOf(slot) ==
    LET tail == LastN(Path(slot), Min({Kernel, Len(Path(slot))}))
    IN  LastN(conv, Kernel - Len(tail)) \o TokensOf(tail)

Verify ==
    /\ phase = "grow" /\ ~Growing
    /\ phase' = "follow"
    /\ heap' = {}
    /\ accepted' = <<1>>
    /\ UNCHANGED <<text, rows, budget, seeded, tree, keys, state, conv>>

-----------------------------------------------------------------------------
(* Acceptance                                                              *)

ChildOf(slot, token) == {s \in DOMAIN tree : tree[s].parent = slot /\ tree[s].token = token}

\* A mutant: as many keys as were accepted, whichever slots they are of.
KeptKeysInOrder == SubSeq(AppendedKeys, 1, Len(Prefix_) + Len(accepted))
\* _commit_kv_tree_path: the prefix, and the accepted slots gathered.
KeptKeys == SubSeq(AppendedKeys, 1, Len(Prefix_))
            \o [i \in DOMAIN accepted |-> AppendedKeys[Len(Prefix_) + accepted[i]]]

\* _commit_recurrent_tree_path: the state kept for the last slot or, where only the
\* inputs of the recurrence were, those of the accepted slots once more.
KeptState == RecurrentAt(Last(accepted))
Replayed == state \o TokensOf(accepted)
KeptConv == LastN(conv \o TokensOf(accepted), Keep)

\* restore_after_tree_acceptance: every cache is brought to the accepted path.
Restore ==
    /\ keys' = KeptKeys
    /\ state' \in {KeptState, Replayed}
    /\ conv' = KeptConv

\* follow_verified_tree at the last accepted slot, where the target says `next`.
Follow ==
    /\ phase = "follow"
    /\ \E next \in Token :
          LET child == ChildOf(Last(accepted), next)
          IN  IF child # {}
              THEN /\ \E s \in child : accepted' = Append(accepted, s)
                   /\ UNCHANGED <<text, phase, rows, budget, seeded, tree, keys, state, conv>>
              ELSE /\ Restore
                   /\ text' = Prefix_ \o TokensOf(accepted) \o <<next>>
                   /\ phase' = "draft" /\ rows' = <<>> /\ budget' = 0 /\ seeded' = FALSE
                   /\ tree' = <<>> /\ accepted' = <<>>
    /\ UNCHANGED heap

Next == Draft \/ Seed \/ Grow \/ Verify \/ Follow

Spec == Init /\ [][Next]_vars

-----------------------------------------------------------------------------
(* Properties                                                              *)

\* All paths of candidates, by rank, and what they cost together.
Paths == UNION {{p \in [1..n -> UNION {DOMAIN rows[d] : d \in 1..n}] :
                    \A d \in 1..n : p[d] \in DOMAIN rows[d]} : n \in 1..Len(rows)}
PathCost(p) == MapThenSumSet(LAMBDA i : CostAt(i, p[i]), DOMAIN p)
PathTokens(p) == [d \in DOMAIN p |-> rows[d][p[d]].token]
IsChain(p) == seeded /\ \A d \in DOMAIN p : p[d] = 1

\* A finished tree has no node twice and as many as it may; and none that was
\* left out is likelier than one that was taken, the greedy chain apart.
TreeHoldsTheBest ==
    phase = "follow" =>
        LET inside == {p \in Paths : \E s \in DOMAIN tree :
                          TokensOf(Tail(Path(s))) = PathTokens(p)}
        IN  /\ Len(tree) - 1 = Cardinality(inside)
            /\ Len(tree) - 1 = Min({budget, Cardinality(Paths)})
            /\ \A p \in inside, q \in Paths \ inside : IsChain(p) \/ PathCost(p) <= PathCost(q)

KeysOf(s) == [i \in DOMAIN s |-> <<i - 1, s[i]>>]

\* In one pass every slot of the tree reads what it would have read had its path
\* been decoded alone: in attention, recurrence and convolution.
SlotsReadTheirPath ==
    phase = "follow" => \A s \in DOMAIN tree :
        LET alone == Prefix_ \o TokensOf(Path(s))
        IN  /\ AttendedBy(s) = Range(KeysOf(alone))
            /\ RecurrentAt(s) = alone
            /\ WindowOf(s) = LastN([i \in 1..Kernel |-> 0] \o alone, Kernel)

\* Between the cycles the three caches hold the committed text and nothing of the
\* other branches.
CachesFollowTheText ==
    /\ keys = KeysOf(Prefix_)
    /\ state = Prefix_
    /\ conv = Padded(Prefix_)

TreeInvariant == SlotsReadTheirPath /\ CachesFollowTheText
=============================================================================
