------------------------------ MODULE Contracts ------------------------------
(***************************************************************************)
(* The backend-neutral contracts of serving_contracts.py: how the rows of  *)
(* one verify batch are shared between slots by confidence, how many       *)
(* drafts of a row are accepted, and which waiting requests are admitted.  *)
(* A confidence is its distance from certainty: a product of confidences   *)
(* is a sum of distances, and None stands for a confidence of zero.        *)
(***************************************************************************)
EXTENDS Integers, Sequences, FiniteSets, SequencesExt

CONSTANTS Slots, MaxDrafts, MaxRows, Distances,   \* the batch
          Tokens,                                 \* the alphabet of drafts
          Requests, Lengths, MaxFree, MaxTick,    \* admission
          None

ContractsAssumption ==
    /\ Slots \subseteq Nat /\ MaxDrafts \in Nat /\ MaxRows \in Nat /\ Distances \subseteq Nat
    /\ Requests \subseteq Nat /\ Lengths \subseteq Nat /\ MaxFree \in Nat /\ MaxTick \in Nat

VARIABLES drafts, maxima, rows,      \* proposals of each slot, draft_maxima, total_rows
          at, selected, plan,        \* the loop of plan_confidence_varlen and its result
          posterior,                 \* what the target answers each drafted row
          waiting, arrived, now, granted  \* admission; granted: the ids in their order

batchVars == <<drafts, maxima, rows, at, selected, plan, posterior>>
admissionVars == <<waiting, arrived, now, granted>>
vars == <<batchVars, admissionVars>>

Smaller(a, b) == IF a < b THEN a ELSE b
Larger(a, b) == IF a > b THEN a ELSE b
SumOf(s) == FoldSeq(LAMBDA x, sum : x + sum, 0, s)
SlotSeq == SetToSortSeq(Slots, <)

-----------------------------------------------------------------------------
(* The rows of a batch: one for the golden token of each slot, the others  *)
(* go to the drafts with the best product of confidences up to them.       *)

Extra == rows - Cardinality(Slots)
Available(s) == Smaller(Len(drafts[s]), Smaller(maxima[s], Extra))

\* _candidate_better; a candidate is <<distance, slot, position>>.
Better(c, d) ==
    \/ c[1] < d[1]
    \/ c[1] = d[1] /\ c[2] < d[2]
    \/ c[1] = d[1] /\ c[2] = d[2] /\ c[3] < d[3]

\* Mutant: the heap in the order of the plan.
WorstFirst(S) == CHOOSE c \in S : \A d \in S \ {c} : Better(c, d)

\* The root of the heap.
Worst(S) == CHOOSE c \in S : \A d \in S \ {c} : Better(d, c)

\* The drafts of a slot a row may go to: those before the first of confidence zero.
Reach(s) == {p \in 1 .. Available(s) : \A q \in 1 .. p : drafts[s][q].distance # None}
Candidate(s, p) == <<SumOf([q \in 1 .. p |-> drafts[s][q].distance]), s, p>>

NextSlot(s) == CHOOSE t \in Slots : t > s /\ \A u \in Slots : u > s => t <= u
LastSlot(s) == \A t \in Slots : t <= s

\* One proposal of the loop over slots and positions.
Consider ==
    /\ plan = None
    /\ at # None
    /\ LET s == at[1]  p == at[2]
           c == Candidate(s, p)
       IN IF p \in Reach(s)
          THEN /\ selected' = IF Cardinality(selected) < Extra THEN selected \cup {c}
                              ELSE IF Better(c, Worst(selected))
                                   THEN (selected \ {Worst(selected)}) \cup {c}
                                   ELSE selected
               /\ at' = <<s, p + 1>>
          ELSE /\ at' = IF LastSlot(s) THEN None ELSE <<NextSlot(s), 1>>
               /\ UNCHANGED selected
    /\ UNCHANGED <<drafts, maxima, rows, plan, posterior, admissionVars>>

\* Rows are counted from the best candidate on; a draft whose predecessor has no
\* row refuses the plan.
CountRows ==
    /\ plan = None /\ at = None
    /\ LET order == SetToSortSeq(selected, Better)
           gap == \E i \in DOMAIN order :
                     order[i][3] # 1 + Cardinality({j \in 1 .. i - 1 : order[j][2] = order[i][2]})
           count == [s \in Slots |-> 1 + Cardinality({c \in selected : c[2] = s})]
       IN plan' = IF gap THEN [refused |-> TRUE, rows |-> count, accepted |-> None]
                  ELSE [refused |-> FALSE, rows |-> count, accepted |-> None]
    /\ UNCHANGED <<drafts, maxima, rows, at, selected, posterior, admissionVars>>

\* Mutant: every match counts, behind a mismatch too.
MatchedAnywhere(proposed, target) ==
    Cardinality({i \in DOMAIN proposed : proposed[i] = target[i]})

\* accepted_draft_lengths: the first mismatch rejects the rest of the row.
Matched(proposed, target) ==
    LET wrong == {i \in DOMAIN proposed : proposed[i] # target[i]}
    IN IF wrong = {} THEN Len(proposed) ELSE (CHOOSE i \in wrong : \A j \in wrong : i <= j) - 1

Accept ==
    /\ plan # None /\ ~plan.refused /\ plan.accepted = None
    /\ plan' = [plan EXCEPT !.accepted = [s \in Slots |->
                   Matched([p \in 1 .. plan.rows[s] - 1 |-> drafts[s][p].token], posterior[s])]]
    /\ UNCHANGED <<drafts, maxima, rows, at, selected, posterior, admissionVars>>

\* rollback_groups: the rows that commit the same number of tokens.
RollbackGroups ==
    [n \in {plan.accepted[s] + 1 : s \in Slots} |-> {s \in Slots : plan.accepted[s] + 1 = n}]

-----------------------------------------------------------------------------
(* Admission: short prefills first, a request's length shrinking by a      *)
(* token each tick it waits.                                               *)

\* Mutant: waiting does not help.
AgedLengthNot(r) == arrived[r].length

AgedLength(r) == Larger(0, arrived[r].length - Larger(0, now - arrived[r].tick))

Precedes(r, q) ==
    \/ AgedLength(r) < AgedLength(q)
    \/ AgedLength(r) = AgedLength(q) /\ arrived[r].tick < arrived[q].tick
    \/ AgedLength(r) = AgedLength(q) /\ arrived[r].tick = arrived[q].tick /\ r < q

Arrive(r) ==
    /\ r \notin DOMAIN arrived
    /\ \E n \in Lengths :
          arrived' = [q \in DOMAIN arrived \cup {r} |->
                         IF q = r THEN [tick |-> now, length |-> n] ELSE arrived[q]]
    /\ waiting' = waiting \cup {r}
    /\ UNCHANGED <<batchVars, now, granted>>

\* A cancelled request is neither admitted nor kept.
Cancel(r) ==
    /\ r \in waiting
    /\ waiting' = waiting \ {r}
    /\ UNCHANGED <<batchVars, arrived, now, granted>>

\* plan_short_first_admission, once a tick.
Admit(free) ==
    /\ now < MaxTick
    /\ LET ordered == SetToSortSeq(waiting, Precedes)
           first == SubSeq(ordered, 1, Smaller(free, Len(ordered)))
       IN /\ granted' = granted \o first
          /\ waiting' = waiting \ ToSet(first)
    /\ now' = now + 1
    /\ UNCHANGED <<batchVars, arrived>>

-----------------------------------------------------------------------------
Drafts == [distance : Distances \cup {None}, token : Tokens]

Init ==
    /\ drafts \in [Slots -> UNION {[1 .. n -> Drafts] : n \in 0 .. MaxDrafts}]
    /\ maxima \in [Slots -> {MaxDrafts - 1, MaxDrafts}]
    /\ rows \in Cardinality(Slots) .. MaxRows
    /\ posterior \in [Slots -> [1 .. MaxDrafts + 1 -> Tokens]]
    /\ at = <<SlotSeq[1], 1>> /\ selected = {} /\ plan = None
    /\ waiting = {} /\ arrived = <<>> /\ now = 0 /\ granted = <<>>

Next ==
    \/ Consider \/ CountRows \/ Accept
    \/ \E r \in Requests : Arrive(r) \/ Cancel(r)
    \/ \E free \in 0 .. MaxFree : Admit(free)

Spec == Init /\ [][Next]_vars

-----------------------------------------------------------------------------
Everyone == {Candidate(s, p) : <<s, p>> \in {x \in Slots \X (1 .. MaxDrafts) : x[2] \in Reach(x[1])}}

\* The heap holds what a sort of all the proposals would: no proposal left out is
\* better than one taken, the budget is used up while there are proposals, and no
\* draft gets a row without the drafts before it.  A row then commits the longest
\* prefix the target agrees with, and every slot is rolled back in one group.
RowsAreShared ==
    plan # None =>
        /\ ~plan.refused
        /\ selected \subseteq Everyone
        /\ \A c \in selected, d \in Everyone \ selected : Better(c, d)
        /\ Cardinality(selected) = Smaller(Extra, Cardinality(Everyone))
        /\ SumOf([i \in DOMAIN SlotSeq |-> plan.rows[SlotSeq[i]]]) <= rows
        /\ plan.accepted # None =>
             /\ \A s \in Slots :
                   /\ plan.accepted[s] < plan.rows[s]
                   /\ \A p \in 1 .. plan.accepted[s] : drafts[s][p].token = posterior[s][p]
                   /\ plan.accepted[s] < plan.rows[s] - 1 =>
                        drafts[s][plan.accepted[s] + 1].token # posterior[s][plan.accepted[s] + 1]
             /\ UNION {RollbackGroups[n] : n \in DOMAIN RollbackGroups} = Slots

\* Short requests do not starve a long one: those that came later overtake it at
\* most as often as there are slots in the ticks its length takes to age away.
NobodyStarves ==
    \A q \in waiting :
        Cardinality({i \in DOMAIN granted : arrived[granted[i]].tick > arrived[q].tick})
            <= arrived[q].length * MaxFree

ContractsInvariant == RowsAreShared /\ NobodyStarves
==============================================================================
