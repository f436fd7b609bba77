----------------------------- MODULE PrefixL1Proofs -----------------------------
(***************************************************************************)
(* What holds of the in-memory tier for every universe of snapshots, every *)
(* set of requests and every budget.                                       *)
(***************************************************************************)
EXTENDS PrefixL1, TLAPS, FiniteSetTheorems, SequenceTheorems, WellFoundedInduction

\* What the entries and ids are, without the operation's output.
StateType ==
    /\ nextId \in Nat
    /\ entries = [i \in Ids |-> entries[i]]
    /\ Ids \subseteq 0..(nextId - 1)
    /\ \A i \in Ids : entries[i] \in Snaps
    /\ older \subseteq Ids \X Ids

\* The pair NoDominated forbids: e, stored before f, serves nothing beyond f.
Redundant(e, f) ==
    /\ e.key = f.key
    /\ IsPrefix(e.tokens, f.tokens)
    /\ \/ e.kind = f.kind /\ ~ AlignedFrontier(e, f)
       \/ CrossKindPrune /\ e.kind = "generation" /\ f.kind = "prefill"

IInv == StateType /\ LruIsTotal /\ EntryBudget /\ NoDominated

(* ------------------------ what one operation does ----------------------- *)

\* An operation that only removes entries keeps the invariant, whichever it
\* removes: lookups that consume, and clear().
LEMMA RemovalKeepsInvariant ==
    ASSUME IInv, NEW D \in SUBSET Ids,
           entries' = Restrict(entries, Ids \ D),
           older' = Without(older, D),
           nextId' = nextId
    PROVE  IInv'
<1>1. Ids' = Ids \ D /\ \A i \in Ids' : entries'[i] = entries[i]
  BY DEF Ids, Restrict
<1>2. StateType'
  BY <1>1 DEF IInv, StateType, Ids, Without, Restrict
<1>3. LruIsTotal'
  BY <1>1 DEF IInv, LruIsTotal, StateType, Without
<1>4. EntryBudget'
  <2>1. IsFiniteSet(Ids)
    BY FS_Interval, FS_Subset DEF IInv, StateType
  <2>2. Cardinality(Ids') <= Cardinality(Ids) /\ Cardinality(Ids') \in Nat
    BY <1>1, <2>1, FS_Subset, FS_CardinalityType
  <2>3. Cardinality(Ids) \in Nat
    BY <2>1, FS_CardinalityType
  <2> QED
    BY <2>2, <2>3, L1Assumption DEF IInv, EntryBudget
<1>5. NoDominated'
  <2> SUFFICES ASSUME NEW i \in Ids', NEW j \in Ids', i < j
               PROVE  ~ Redundant(entries[i], entries[j])'
    BY DEF NoDominated, Redundant
  <2>1. ~ Redundant(entries[i], entries[j])
    BY <1>1 DEF IInv, NoDominated, Redundant
  <2> QED
    BY <1>1, <2>1 DEF Redundant, AlignedFrontier
<1> QED
  BY <1>2, <1>3, <1>4, <1>5 DEF IInv

\* Moving a served prefill to the end of the list keeps the order total.
LEMMA TouchKeepsInvariant ==
    ASSUME IInv, NEW i \in Ids,
           older' = Without(older, {i}) \cup ((Ids \ {i}) \X {i}),
           entries' = entries,
           nextId' = nextId
    PROVE  IInv'
<1>1. Ids' = Ids
  BY DEF Ids
<1>2. StateType'
  BY <1>1 DEF IInv, StateType, Without
<1>3. LruIsTotal'
  BY <1>1 DEF IInv, LruIsTotal, StateType, Without
<1>4. EntryBudget'
  BY <1>1 DEF IInv, EntryBudget
<1>5. NoDominated'
  BY <1>1 DEF IInv, NoDominated, AlignedFrontier
<1> QED
  BY <1>2, <1>3, <1>4, <1>5 DEF IInv

\* An insertion: what was pruned for the incoming snapshot is exactly what it
\* would have made redundant, and eviction stops at the first fit.
LEMMA AdmitKeepsInvariant ==
    ASSUME IInv, NEW s \in Snaps, InsertAdmit(s)
    PROVE  IInv'
<1> DEFINE f == Stored(s)
           order == StoredOrder(s)
<1>1. PICK E \in SUBSET DOMAIN f :
         /\ Evicted(E, f, order)
         /\ entries' = Restrict(f, DOMAIN f \ E)
         /\ older' = Without(order, E)
         /\ nextId' = nextId + 1
  BY DEF InsertAdmit
<1>2. /\ DOMAIN f = (Ids \ Pruned(s)) \cup {nextId}
      /\ f[nextId] = s
      /\ nextId \notin Ids
      /\ \A i \in Ids \ Pruned(s) : f[i] = entries[i] /\ i < nextId
  BY DEF Stored, SnapshotAt, IInv, StateType
<1>3. Ids' = DOMAIN f \ E /\ \A i \in Ids' : entries'[i] = f[i]
  BY <1>1 DEF Ids, Restrict
<1> HIDE DEF f
<1>4. StateType'
  <2>1. entries' = [i \in Ids' |-> entries'[i]]
    BY <1>1 DEF Ids, Restrict
  <2>2. nextId' \in Nat /\ Ids' \subseteq 0..(nextId' - 1)
    BY <1>1, <1>2, <1>3 DEF IInv, StateType
  <2>3. \A i \in Ids' : entries'[i] \in Snaps
    BY <1>2, <1>3 DEF IInv, StateType
  <2>4. older' \subseteq Ids' \X Ids'
    BY <1>1, <1>2, <1>3 DEF IInv, StateType, Without, StoredOrder
  <2> QED
    BY <2>1, <2>2, <2>3, <2>4 DEF StateType
<1>5. LruIsTotal'
  BY <1>1, <1>2, <1>3 DEF IInv, LruIsTotal, StateType, Without, StoredOrder
<1>6. EntryBudget'
  <2>1. CASE E = DOMAIN f
    BY <2>1, <1>3, FS_EmptySet, L1Assumption DEF EntryBudget
  <2>2. CASE UnderBudget(Restrict(f, DOMAIN f \ E))
    BY <2>2, <1>1 DEF EntryBudget, UnderBudget, Ids
  <2> QED
    BY <2>1, <2>2, <1>1 DEF Evicted
<1>7. NoDominated'
  <2> SUFFICES ASSUME NEW i \in Ids', NEW j \in Ids', i < j
               PROVE  ~ Redundant(entries[i], entries[j])'
    BY DEF NoDominated, Redundant
  <2>1. ~ Redundant(f[i], f[j])
    <3>1. i \in Ids \ Pruned(s) /\ f[i] = entries[i]
      BY <1>2, <1>3 DEF IInv, StateType
    <3>2. CASE j = nextId
      BY <3>1, <3>2, <1>2 DEF Pruned, Dominates, Redundant
    <3>3. CASE j # nextId
      <4>1. j \in Ids /\ f[j] = entries[j]
        BY <3>3, <1>2, <1>3
      <4> QED
        BY <4>1, <3>1 DEF IInv, NoDominated, Redundant
    <3> QED
      BY <3>2, <3>3
  <2> QED
    BY <1>3, <2>1 DEF Redundant, AlignedFrontier
<1> QED
  BY <1>4, <1>5, <1>6, <1>7 DEF IInv

(* ------------------------------ the invariant --------------------------- *)

LEMMA FoundIsResident ==
    ASSUME NEW q, NEW h \in Served(q)
    PROVE  h.id \in Ids
BY DEF Served, Found, FoundFull, FoundSidecar

LEMMA InvariantInit == Init => IInv
<1> SUFFICES ASSUME Init PROVE IInv
  OBVIOUS
<1>1. Ids = {}
  BY DEF Init, Ids
<1>2. Cardinality(Ids) = 0
  BY <1>1, FS_EmptySet
<1> QED
  BY <1>1, <1>2, L1Assumption DEF Init, IInv, StateType, LruIsTotal, EntryBudget, NoDominated

LEMMA InvariantNext == IInv /\ [Next]_vars => IInv'
<1> SUFFICES ASSUME IInv, [Next]_vars PROVE IInv'
  OBVIOUS
<1>1. ASSUME NEW q \in Requests, LookupConsume(q) PROVE IInv'
  BY <1>1, FoundIsResident, RemovalKeepsInvariant DEF LookupConsume
<1>2. ASSUME NEW q \in Requests, LookupTouch(q) PROVE IInv'
  BY <1>2, FoundIsResident, TouchKeepsInvariant DEF LookupTouch
<1>3. ASSUME UNCHANGED <<entries, older, nextId>> PROVE IInv'
  BY <1>3 DEF IInv, StateType, LruIsTotal, EntryBudget, NoDominated, AlignedFrontier, Ids
<1>4. ASSUME NEW s \in Snaps, InsertAdmit(s) PROVE IInv'
  BY <1>4, AdmitKeepsInvariant
<1>5. ASSUME Clear PROVE IInv'
  <2>1. entries' = Restrict(entries, Ids \ Ids) /\ older' = Without(older, Ids)
    BY <1>5 DEF Clear, Restrict, Without, IInv, StateType
  <2> QED
    BY <2>1, <1>5, RemovalKeepsInvariant DEF Clear
<1> QED
  BY <1>1, <1>2, <1>3, <1>4, <1>5
  DEF Next, Lookup, LookupPeek, LookupMiss, Insert, InsertTooLong, InsertYield, vars

THEOREM InvariantHolds == Spec => []IInv
BY InvariantInit, InvariantNext, PTL DEF Spec

(* ------------------------------- properties ----------------------------- *)

\* Of two resident snapshots the earlier is never useless beside the later,
\* and the LRU order stays total, whatever was inserted, served and evicted.
THEOREM NoDominatedAlways == Spec => []NoDominated
BY InvariantHolds, PTL DEF IInv

THEOREM LruIsTotalAlways == Spec => []LruIsTotal
BY InvariantHolds, PTL DEF IInv

\* prefix_cache_max_entries is never exceeded between operations.
THEOREM EntryBudgetAlways == Spec => []EntryBudget
BY InvariantHolds, PTL DEF IInv

\* Snapshots that reach the cache are well formed.
LEMMA EntryIsSnapshot ==
    ASSUME StateType, NEW i \in Ids
    PROVE  /\ entries[i] \in Snapshot
           /\ entries[i].tokens \in Seq(Tokens)
           /\ Len(entries[i].tokens) \in Nat \ {0}
           /\ entries[i].side \in Nat
           /\ entries[i].side > 0 => entries[i].side < Len(entries[i].tokens)
           /\ entries[i].cover \subseteq 1..Len(entries[i].tokens)
<1>1. WellFormed(entries[i])
  BY L1Assumption DEF StateType
<1>2. entries[i].tokens \in Seq(Tokens) /\ entries[i].tokens # <<>>
  BY <1>1 DEF WellFormed, Snapshot
<1>3. Len(entries[i].tokens) \in Nat \ {0}
  BY <1>2, LenProperties, EmptySeq
<1> QED
  BY <1>1, <1>2, <1>3 DEF WellFormed, Snapshot

LEMMA ResidentPromptStep == IInv => ResidentPromptIsServed
<1> SUFFICES ASSUME IInv, NEW i \in Ids, NEW full \in BOOLEAN,
                    CrossKindPrune,
                    entries[i].kind = "prefill",
                    entries[i].logits,
                    full => CoversPrefix(entries[i], Len(entries[i].tokens))
             PROVE  \E h \in Served([tokens |-> entries[i].tokens, key |-> entries[i].key,
                                     full |-> full]) :
                       h.id = i /\ h.snap = entries[i]
  BY DEF ResidentPromptIsServed
<1> DEFINE q == [tokens |-> entries[i].tokens, key |-> entries[i].key, full |-> full]
           n == Len(entries[i].tokens)
<1> USE DEF IInv
<1>0. n \in Nat \ {0} /\ q.tokens = entries[i].tokens /\ q.key = entries[i].key
      /\ q.full = full
  BY EntryIsSnapshot
<1>1. FullLens(q)[i] = n
  BY <1>0 DEF FullLens, FullLen, IsPrefix
<1>2. \A j \in Ids : FullLens(q)[j] \in 0..n /\ (FullLens(q)[j] = n => i <= j)
  <2> SUFFICES ASSUME NEW j \in Ids
               PROVE  FullLens(q)[j] \in 0..n /\ (FullLens(q)[j] = n => i <= j)
    OBVIOUS
  <2>0. Len(entries[j].tokens) \in Nat
    BY EntryIsSnapshot
  <2>1. FullLens(q)[j] \in 0..n
    BY <1>0, <2>0 DEF FullLens, FullLen, IsPrefix
  <2>2. ASSUME FullLens(q)[j] = n, j < i PROVE FALSE
    <3>1. /\ entries[j].key = entries[i].key
          /\ IsPrefix(entries[j].tokens, entries[i].tokens)
          /\ Len(entries[j].tokens) = n
      BY <2>2, <1>0 DEF FullLens, FullLen
    <3>2. ~ AlignedFrontier(entries[j], entries[i])
      BY <3>1, <1>0 DEF AlignedFrontier
    <3>3. entries[j].kind \in {"prefill", "generation"}
      BY EntryIsSnapshot DEF Snapshot, Kinds
    <3> QED
      BY <2>2, <3>1, <3>2, <3>3 DEF NoDominated
  <2>3. i \in Int /\ j \in Int
    BY DEF StateType
  <2> QED
    BY <2>1, <2>2, <2>3
<1>3. \A j \in Ids : SideLens(q)[j] <= n
  BY <1>0, EntryIsSnapshot DEF SideLens, SideLen, UsableSidecar
<1>4. i \in FoundFull(q)
  BY <1>0, <1>1, <1>2, <1>3 DEF FoundFull, Leads, FullLens
<1>5. [id |-> i, snap |-> entries[i]] \in Served(q)
  BY <1>4, <1>0 DEF Found, Served
<1> QED
  BY <1>5

\* A resident prompt is never masked by a reply with the same tokens.
THEOREM ResidentPromptIsServedAlways == Spec => []ResidentPromptIsServed
BY InvariantHolds, ResidentPromptStep, PTL

(* --------------------------- what lookup answers ------------------------ *)

\* An answer is a resident snapshot, or the sidecar slice of a resident
\* generation; either way the request may start decoding from it.
LEMMA ServedIsReusable ==
    ASSUME IInv, NEW q \in Requests, NEW h \in Served(q)
    PROVE  /\ h.id \in Ids
           /\ \/ h.snap = entries[h.id]
              \/ /\ entries[h.id].side > 0
                 /\ entries[h.id].kind = "generation"
                 /\ h.snap = Slice(entries[h.id])
           /\ Reusable(h.snap, q)
<1> DEFINE e == entries[h.id]
<1> USE DEF IInv
<1>0. h \in Found(q) /\ (Len(h.snap.tokens) = Len(q.tokens)
                             => h.snap.kind = "prefill" /\ h.snap.logits)
  BY DEF Served
<1>1. q.tokens \in Seq(Tokens) /\ Len(q.tokens) \in Nat
  BY L1Assumption, LenProperties DEF Request
<1>2. CASE h.id \in FoundFull(q) /\ h.snap = e
  <2>1. h.id \in Ids /\ FullLen(e, q) > 0
    BY <1>2 DEF FoundFull, Leads, FullLens
  <2>2. /\ e.key = q.key
        /\ IsPrefix(e.tokens, q.tokens)
        /\ q.full => CoversPrefix(e, Len(e.tokens))
    BY <2>1 DEF FullLen
  <2>3. e.tokens # <<>>
    BY <2>1, EntryIsSnapshot, EmptySeq
  <2> QED
    BY <1>0, <1>2, <2>1, <2>2, <2>3 DEF Reusable
<1>3. CASE h.id \in FoundSidecar(q) /\ h.snap = Slice(e)
  <2>1. h.id \in Ids /\ SideLen(e, q) > 0
    BY <1>3 DEF FoundSidecar, Leads, SideLens
  <2>2. e.key = q.key /\ UsableSidecar(e, q) /\ e.side > 0
    BY <2>1 DEF SideLen
  <2>3. e.kind = "generation" /\ e.side < Len(e.tokens)
    BY <2>1, <2>2, L1Assumption DEF WellFormed, StateType
  <2>4. e \in Snapshot /\ e.tokens \in Seq(Tokens) /\ Len(e.tokens) \in Nat /\ e.side \in Nat
    BY <2>1, EntryIsSnapshot
  <2>5. /\ h.snap.key = q.key
        /\ h.snap.tokens = SubSeq(e.tokens, 1, e.side)
        /\ h.snap.cover = e.cover \cap (1..e.side)
    BY <1>3, <2>2, <2>4 DEF Slice, Snapshot
  <2>6. Len(h.snap.tokens) = e.side /\ h.snap.tokens \in Seq(Tokens)
    BY <2>2, <2>3, <2>4, <2>5, SubSeqProperties
  <2>7. e.side <= Len(q.tokens) /\ SubSeq(q.tokens, 1, e.side) = h.snap.tokens
    BY <2>2, <2>5 DEF UsableSidecar
  <2>8. SubSeq(h.snap.tokens, 1, e.side) = h.snap.tokens
    BY <2>6, <2>4, <2>2, SubSeqProperties, SeqEqual
  <2>9. IsPrefix(h.snap.tokens, q.tokens)
    BY <2>6, <2>7, <2>8 DEF IsPrefix
  <2>10. q.full => CoversPrefix(h.snap, Len(h.snap.tokens))
    BY <2>2, <2>5, <2>6 DEF UsableSidecar, CoversSidecarContext, CoversPrefix, Covers
  <2>11. h.snap.tokens # <<>>
    BY <2>2, <2>6, EmptySeq
  <2> QED
    BY <1>0, <1>3, <2>1, <2>2, <2>3, <2>5, <2>9, <2>10, <2>11 DEF Reusable
<1> QED
  BY <1>0, <1>2, <1>3 DEF Found

(* ------------------------------- refinement ----------------------------- *)

\* The snapshots a step leaves resident were resident, or are the one inserted.
LEMMA HeldAfterInsert ==
    ASSUME IInv, NEW s \in Snaps, InsertAdmit(s)
    PROVE  {entries'[i] : i \in Ids'} \subseteq {entries[i] : i \in Ids} \cup {s}
<1> SUFFICES ASSUME NEW i \in Ids'
             PROVE  entries'[i] \in {entries[k] : k \in Ids} \cup {s}
  OBVIOUS
<1>1. PICK E \in SUBSET DOMAIN Stored(s) :
         entries' = Restrict(Stored(s), DOMAIN Stored(s) \ E)
  BY DEF InsertAdmit
<1>2. i \in DOMAIN Stored(s) /\ entries'[i] = Stored(s)[i]
  BY <1>1 DEF Ids, Restrict
<1> QED
  BY <1>2 DEF Stored, SnapshotAt

\* The abstract module's data helpers are the concrete ones.
LEMMA SameHelpers ==
    /\ \A s : Promise!Slice(s) = Slice(s)
    /\ \A h, q : Promise!Reusable(h, q) <=> Reusable(h, q)
<1>1. \A s : Promise!Slice(s) = Slice(s)
  BY Zenon DEF Promise!Slice, Slice
<1>2. \A h, q : Promise!Reusable(h, q) <=> Reusable(h, q)
  BY DEF Promise!Reusable, Reusable, Promise!CoversPrefix, CoversPrefix,
         Promise!Covers, Covers, Promise!IsPrefix, IsPrefix
<1> QED
  BY <1>1, <1>2

LEMMA StepRefines ==
    ASSUME IInv, [Next]_vars
    PROVE  [Promise!Next]_(Promise!vars)
<1> DEFINE held == {entries[i] : i \in Ids}
           answer == [put |-> out.put, q |-> out.q, hit |-> {g.snap : g \in out.hit}]
<1> USE DEF Answered, Inserted, Cleared
<1>1. ASSUME NEW q \in Requests, NEW h \in Served(q), out' = Answered(q, {h}),
             {entries'[i] : i \in Ids'} \subseteq held
      PROVE  Promise!Lookup(q)
  <2>1. /\ h.id \in Ids
        /\ h.snap = entries[h.id] \/ (entries[h.id].side > 0 /\ h.snap = Slice(entries[h.id]))
        /\ Reusable(h.snap, q)
    BY <1>1, ServedIsReusable
  <2>2. h.snap \in Promise!Offers(held, q)
    <3>1. Reusable(h.snap, q) <=> Promise!Reusable(h.snap, q)
      BY SameHelpers
    <3>2. Slice(entries[h.id]) = Promise!Slice(entries[h.id])
      BY SameHelpers
    <3> QED
      BY <2>1, <3>1, <3>2 DEF Promise!Offers
  <2>3. answer' = [put |-> {}, q |-> {q}, hit |-> {h.snap}]
    BY <1>1
  <2> QED
    BY <1>1, <2>2, <2>3 DEF Promise!Lookup
<1>2. ASSUME NEW q \in Requests, Lookup(q) PROVE Promise!Lookup(q)
  <2>1. CASE LookupConsume(q)
    BY <2>1, <1>1 DEF LookupConsume, Restrict, Ids
  <2>2. CASE LookupTouch(q)
    BY <2>2, <1>1 DEF LookupTouch, Ids
  <2>3. CASE LookupPeek(q)
    BY <2>3, <1>1 DEF LookupPeek, Ids
  <2>4. CASE LookupMiss(q)
    BY <2>4 DEF LookupMiss, Promise!Lookup, Ids
  <2> QED
    BY <1>2, <2>1, <2>2, <2>3, <2>4 DEF Lookup
<1>3. ASSUME NEW s \in Snaps, Insert(s) PROVE Promise!Publish(s)
  <2>1. CASE InsertTooLong(s)
    BY <2>1 DEF InsertTooLong, Promise!Publish, Ids
  <2>2. CASE InsertYield(s)
    BY <2>2 DEF InsertYield, Promise!Publish, Ids
  <2>3. CASE InsertAdmit(s)
    <3>1. \E removed : out' = Inserted(s, removed, FALSE)
      BY <2>3, Zenon DEF InsertAdmit
    <3>2. answer' = [put |-> {s}, q |-> {}, hit |-> {}]
      BY <3>1
    <3> QED
      BY <2>3, <3>2, HeldAfterInsert DEF Promise!Publish
  <2> QED
    BY <1>3, <2>1, <2>2, <2>3 DEF Insert
<1>4. ASSUME Clear PROVE Promise!Forget
  <2>1. {entries'[i] : i \in Ids'} = {}
    BY <1>4 DEF Clear, Ids
  <2>2. answer' = [put |-> {}, q |-> {}, hit |-> {}]
    BY <1>4 DEF Clear
  <2> QED
    BY <2>1, <2>2 DEF Promise!Forget, Promise!NoAnswer
<1>5. ASSUME UNCHANGED vars PROVE UNCHANGED Promise!vars
  BY <1>5 DEF vars, Promise!vars, Ids
<1> QED
  BY <1>2, <1>3, <1>4, <1>5 DEF Next, Promise!Next

\* The in-memory tier implements the abstract snapshot cache: it never hands
\* out a state it was not given, has let go of, or that q may not start from.
THEOREM RefinesSnapshotCache == Spec => ImplementsSnapshotCache
<1>1. Init => Promise!Init
  <2> SUFFICES ASSUME Init PROVE Promise!Init
    OBVIOUS
  <2>1. {entries[i] : i \in Ids} = {}
    BY DEF Init, Ids
  <2>2. out.put = {} /\ out.q = {} /\ {h.snap : h \in out.hit} = {}
    BY DEF Init, Cleared
  <2> QED
    BY <2>1, <2>2, Zenon DEF Promise!Init, Promise!NoAnswer
<1> QED
  BY <1>1, InvariantHolds, StepRefines, PTL DEF Spec, ImplementsSnapshotCache, Promise!Spec

(* ------------------------------ nothing lost ---------------------------- *)

LEMMA StepLosesNothing ==
    ASSUME IInv, [Next]_vars, ~ UNCHANGED vars
    PROVE  (\A i \in Ids \ DOMAIN entries' : LeavesKnowingly(i)) /\ IncomingAccounted
<1> USE DEF Answered, Inserted, Cleared
<1>1. ASSUME NEW q \in Requests, Lookup(q)
      PROVE  (\A i \in Ids \ DOMAIN entries' : LeavesKnowingly(i)) /\ IncomingAccounted
  <2>1. CASE LookupConsume(q)
    <3>1. PICK h \in Served(q) : /\ h.snap # entries[h.id] \/ h.snap.kind = "generation"
                                 /\ entries' = Restrict(entries, Ids \ {h.id})
                                 /\ out' = Answered(q, {h})
      BY <2>1 DEF LookupConsume
    <3>2. entries[h.id].kind = "generation"
      BY <3>1, ServedIsReusable
    <3> QED
      BY <3>1, <3>2 DEF LeavesKnowingly, IncomingAccounted, Restrict
  <2>2. CASE LookupTouch(q) \/ LookupPeek(q) \/ LookupMiss(q)
    <3>1. entries' = entries /\ \E hit : out' = Answered(q, hit)
      BY <2>2, Zenon DEF LookupTouch, LookupPeek, LookupMiss
    <3> QED
      BY <3>1 DEF IncomingAccounted, Ids
  <2> QED
    BY <1>1, <2>1, <2>2 DEF Lookup
<1>2. ASSUME NEW s \in Snaps, Insert(s)
      PROVE  (\A i \in Ids \ DOMAIN entries' : LeavesKnowingly(i)) /\ IncomingAccounted
  <2>1. CASE InsertTooLong(s) \/ InsertYield(s)
    BY <2>1 DEF InsertTooLong, InsertYield, LeavesKnowingly, IncomingAccounted, Ids
  <2>2. CASE InsertAdmit(s)
    <3>1. PICK E \in SUBSET DOMAIN Stored(s) :
             /\ entries' = Restrict(Stored(s), DOMAIN Stored(s) \ E)
             /\ out' = Inserted(s, [i \in Pruned(s) \cup E |-> SnapshotAt(i, s)], FALSE)
      BY <2>2 DEF InsertAdmit
    <3>2. DOMAIN Stored(s) = (Ids \ Pruned(s)) \cup {nextId} /\ nextId \notin Ids
      BY DEF Stored, IInv, StateType
    <3>3. DOMAIN entries' = DOMAIN Stored(s) \ E
      BY <3>1 DEF Restrict
    <3>4. /\ DOMAIN out'.removed = Pruned(s) \cup E
          /\ \A i \in Pruned(s) \cup E : out'.removed[i] = SnapshotAt(i, s)
      BY <3>1
    <3> QED
      BY <3>2, <3>3, <3>4 DEF LeavesKnowingly, IncomingAccounted, SnapshotAt
  <2> QED
    BY <1>2, <2>1, <2>2 DEF Insert
<1>3. CASE Clear
  BY <1>3 DEF Clear, LeavesKnowingly, IncomingAccounted
<1> QED
  BY <1>1, <1>2, <1>3 DEF Next

\* No snapshot leaves the in-memory tier unnoticed.
THEOREM NothingLostAlways == Spec => NothingLost
BY InvariantHolds, StepLosesNothing, PTL DEF Spec, NothingLost

(* ------------------------- numbers, sums and budgets --------------------- *)
(* The library's induction theorems take a predicate as parameter, which no   *)
(* prover here can instantiate.  That < is well founded on Nat is stated of   *)
(* sets, and does instead: a least counterexample is reached the same way.    *)

\* The least-number principle.
LEMMA NatMin ==
    ASSUME NEW T \in SUBSET Nat, T # {}
    PROVE  \E x \in T : \A y \in T : x <= y
<1> DEFINE R == {ss \in Nat \X Nat : ss[1] < ss[2]}
<1>1. IsWellFoundedOn(R, Nat)
  BY NatLessThanWellFounded DEF OpToRel
<1>2. PICK x \in T : \A y \in T : ~ (<<y, x>> \in R)
  BY <1>1, WFMin
<1>3. ASSUME NEW y \in T PROVE x <= y
  <2>1. <<y, x>> \notin R
    BY <1>2
  <2>2. x \in Nat /\ y \in Nat
    OBVIOUS
  <2>3. <<y, x>> \in Nat \X Nat /\ <<y, x>>[1] = y /\ <<y, x>>[2] = x
    BY <2>2
  <2>4. ~ (y < x)
    BY <2>1, <2>3
  <2> QED BY <2>2, <2>4
<1> QED BY <1>3

\* ... and its counterpart for what is bounded.
LEMMA NatMax ==
    ASSUME NEW n \in Nat, NEW T \in SUBSET (0..n), T # {}
    PROVE  \E x \in T : \A y \in T : y <= x
<1> DEFINE U == {n - x : x \in T}
<1>1. U \in SUBSET Nat /\ U # {}
  <2>1. \A x \in T : n - x \in Nat
    OBVIOUS
  <2> QED BY <2>1
<1>2. PICK u \in U : \A v \in U : u <= v
  BY <1>1, NatMin
<1>3. PICK x \in T : u = n - x
  OBVIOUS
<1>4. ASSUME NEW y \in T
      PROVE  y <= x
  <2>1. n - x <= n - y
    BY <1>2, <1>3
  <2> QED BY <2>1
<1> QED BY <1>4

\* A family of finite sets of which each member comes with its index.
Units(w, S) == UNION {{i} \X (1..w[i]) : i \in S}

\* The numbers from 1 to n.
LEMMA UpToCount ==
    ASSUME NEW n \in Nat
    PROVE  IsFiniteSet(1..n) /\ Cardinality(1..n) = n
<1>1. IsFiniteSet(1..n) /\ Cardinality(1..n) = IF 1 > n THEN 0 ELSE n - 1 + 1
  BY FS_Interval
<1> QED
  BY <1>1

LEMMA UnitsFinite ==
    ASSUME NEW S, IsFiniteSet(S), NEW w, \A i \in S : w[i] \in Nat
    PROVE  IsFiniteSet(Units(w, S))
<1> DEFINE g == [i \in S |-> {i} \X (1..w[i])]
           T == {{i} \X (1..w[i]) : i \in S}
<1>1. g \in Surjection(S, T)
  BY DEF Surjection
<1>2. IsFiniteSet(T)
  BY <1>1, FS_Surjection
<1>3. \A i \in S : IsFiniteSet({i} \X (1..w[i]))
  <2> SUFFICES ASSUME NEW i \in S
               PROVE  IsFiniteSet({i} \X (1..w[i]))
    OBVIOUS
  <2>1. IsFiniteSet({i})
    BY FS_Singleton
  <2>2. IsFiniteSet(1..w[i])
    BY UpToCount
  <2> QED BY <2>1, <2>2, FS_Product
<1> QED BY <1>2, <1>3, FS_UNION DEF Units

LEMMA UnitsStep ==
    ASSUME NEW S, IsFiniteSet(S), NEW w, \A i \in S : w[i] \in Nat, NEW c \in S
    PROVE  Cardinality(Units(w, S)) = w[c] + Cardinality(Units(w, S \ {c}))
<1> DEFINE A == {c} \X (1..w[c])
           B == Units(w, S \ {c})
<1>1. Units(w, S) = A \cup B
  BY DEF Units
<1>2. A \cap B = {}
  BY DEF Units
<1>3. IsFiniteSet(A) /\ Cardinality(A) = w[c]
  <2>1. IsFiniteSet({c}) /\ Cardinality({c}) = 1
    BY FS_Singleton
  <2>2. w[c] \in Nat
    OBVIOUS
  <2>3. IsFiniteSet(1..w[c]) /\ Cardinality(1..w[c]) = w[c]
    BY <2>2, UpToCount
  <2>4. IsFiniteSet(A) /\ Cardinality(A) = 1 * w[c]
    BY <2>1, <2>3, FS_Product
  <2> QED BY <2>2, <2>4
<1>4. IsFiniteSet(B) /\ Cardinality(B) \in Nat
  <2>1. IsFiniteSet(S \ {c})
    BY FS_Subset
  <2> QED BY <2>1, UnitsFinite, FS_CardinalityType
<1>5. Cardinality({}) = 0
  BY FS_EmptySet
<1>7. Units(w, S \ {c}) = B /\ w[c] \in Nat
  OBVIOUS
<1> HIDE DEF A, B
<1>6. Cardinality(A \cup B) = Cardinality(A) + Cardinality(B) - Cardinality(A \cap B)
  BY <1>3, <1>4, FS_Union
<1>8. Cardinality(A \cap B) = 0
  BY <1>2, <1>5
<1>9. Cardinality(A \cup B) = w[c] + Cardinality(B)
  BY <1>3, <1>4, <1>6, <1>7, <1>8
<1> QED BY <1>1, <1>7, <1>9

\* What MapThenSumSet computes: as many as there are units.
LEMMA BytesAreUnits ==
    ASSUME NEW f, IsFiniteSet(DOMAIN f), \A i \in DOMAIN f : f[i].bytes \in Nat
    PROVE  BytesOf(f) = Cardinality(Units([i \in DOMAIN f |-> f[i].bytes], DOMAIN f))
<1> DEFINE D == DOMAIN f
           w == [i \in D |-> f[i].bytes]
           c(s) == CHOOSE x \in s : TRUE
           Body(g) == [s \in SUBSET D |-> IF s = {} THEN 0 ELSE f[c(s)].bytes + g[s \ {c(s)}]]
           Closed == [s \in SUBSET D |-> Cardinality(Units(w, s))]
<1>1. BytesOf(f) = (CHOOSE g : g = Body(g))[D]
  BY DEF BytesOf, MapThenSumSet, MapThenFoldSet
<1>2. \A s \in SUBSET D : s # {} => c(s) \in s
  OBVIOUS
<1>3. \A s \in SUBSET D : IsFiniteSet(s)
  BY FS_Subset
<1>4. \A i \in D : w[i] \in Nat
  OBVIOUS
<1>5. Units(w, {}) = {}
  BY DEF Units
<1>6. \A s \in SUBSET D : s # {} =>
          Cardinality(Units(w, s)) = f[c(s)].bytes + Cardinality(Units(w, s \ {c(s)}))
  <2>1. \A s \in SUBSET D : s # {} => w[c(s)] = f[c(s)].bytes
    BY <1>2
  <2> HIDE DEF w, c
  <2> QED BY <1>2, <1>3, <1>4, <2>1, UnitsStep
<1>7. Cardinality(Units(w, {})) = 0
  BY <1>5, FS_EmptySet
<1> HIDE DEF w, c
<1>8. Closed = Body(Closed)
  <2>1. \A s \in SUBSET D : Closed[s] = IF s = {} THEN 0 ELSE f[c(s)].bytes + Closed[s \ {c(s)}]
    BY <1>6, <1>7
  <2> QED BY <2>1
<1>9. ASSUME NEW g, g = Body(g)
      PROVE  g = Closed
  <2> DEFINE Wrong == {s \in SUBSET D : g[s] # Closed[s]}
             Sizes == {Cardinality(s) : s \in Wrong}
  <2>1. CASE Wrong = {}
    <3>1. \A s \in SUBSET D : g[s] = Closed[s]
      BY <2>1
    <3>2. DOMAIN g = SUBSET D /\ g = [s \in SUBSET D |-> g[s]]
      BY <1>9, Zenon
    <3> QED BY <3>1, <3>2
  <2>2. CASE Wrong # {}
    <3>1. Sizes \in SUBSET Nat /\ Sizes # {}
      BY <1>3, <2>2, FS_CardinalityType
    <3>2. PICK n \in Sizes : \A m \in Sizes : n <= m
      BY <3>1, NatMin
    <3>3. PICK s \in Wrong : Cardinality(s) = n
      BY <3>2
    <3>4. g[s] = IF s = {} THEN 0 ELSE f[c(s)].bytes + g[s \ {c(s)}]
      BY <1>9, <3>3
    <3>5. Closed[s] = IF s = {} THEN 0 ELSE f[c(s)].bytes + Closed[s \ {c(s)}]
      BY <1>8, <3>3
    <3>6. s # {}
      BY <3>3, <3>4, <3>5
    <3>7. s \ {c(s)} \in SUBSET D /\ Cardinality(s \ {c(s)}) = n - 1
      BY <1>2, <1>3, <3>3, <3>6, FS_RemoveElement
    <3>8. s \ {c(s)} \notin Wrong
      <4>1. n \in Nat
        BY <3>1
      <4>2. s \ {c(s)} \in Wrong => n <= n - 1
        BY <3>2, <3>7
      <4> QED BY <4>1, <4>2
    <3> QED BY <3>3, <3>4, <3>5, <3>7, <3>8
  <2> QED BY <2>1, <2>2
<1>10. (CHOOSE g : g = Body(g)) = Closed
  <2> HIDE DEF Closed, Body
  <2>1. \E g : g = Body(g)
    BY <1>8
  <2> QED BY <1>9, <2>1
<1> QED BY <1>1, <1>10 DEF w

LEMMA BytesTyped ==
    ASSUME NEW f, IsFiniteSet(DOMAIN f), \A i \in DOMAIN f : f[i].bytes \in Nat
    PROVE  BytesOf(f) \in Nat
<1> DEFINE w == [i \in DOMAIN f |-> f[i].bytes]
<1>1. \A i \in DOMAIN f : w[i] \in Nat
  OBVIOUS
<1>2. BytesOf(f) = Cardinality(Units(w, DOMAIN f))
  BY BytesAreUnits
<1> HIDE DEF w
<1> QED BY <1>1, <1>2, UnitsFinite, FS_CardinalityType

\* Removing entries frees bytes.
LEMMA BytesShrink ==
    ASSUME NEW f, IsFiniteSet(DOMAIN f), \A i \in DOMAIN f : f[i].bytes \in Nat,
           NEW S \in SUBSET DOMAIN f
    PROVE  BytesOf(Restrict(f, S)) <= BytesOf(f)
<1> DEFINE g == Restrict(f, S)
           v == [i \in DOMAIN f |-> f[i].bytes]
           w == [i \in S |-> g[i].bytes]
<1>1. DOMAIN g = S /\ \A i \in S : g[i] = f[i]
  BY DEF Restrict
<1>2. IsFiniteSet(S)
  BY FS_Subset
<1>3. BytesOf(f) = Cardinality(Units(v, DOMAIN f))
  BY BytesAreUnits
<1>4. BytesOf(g) = Cardinality(Units(w, S))
  <2>1. \A i \in DOMAIN g : g[i].bytes \in Nat
    BY <1>1
  <2> HIDE DEF g
  <2> QED BY <1>1, <1>2, <2>1, BytesAreUnits
<1>5. Units(w, S) \subseteq Units(v, DOMAIN f)
  <2>1. \A i \in S : w[i] = v[i]
    BY <1>1
  <2> HIDE DEF v, w
  <2> QED BY <2>1 DEF Units
<1>6. IsFiniteSet(Units(v, DOMAIN f))
  <2>1. \A i \in DOMAIN f : v[i] \in Nat
    OBVIOUS
  <2> HIDE DEF v
  <2> QED BY <2>1, UnitsFinite
<1> HIDE DEF g, v, w
<1> QED BY <1>3, <1>4, <1>5, <1>6, FS_Subset DEF g

LEMMA NoBytes ==
    ASSUME NEW f, DOMAIN f = {}
    PROVE  BytesOf(f) = 0
<1>1. BytesOf(f) = Cardinality(Units([i \in DOMAIN f |-> f[i].bytes], DOMAIN f))
  BY BytesAreUnits, FS_EmptySet
<1>2. \A w : Units(w, {}) = {}
  BY DEF Units
<1> QED BY <1>1, <1>2, FS_EmptySet

\* What the invariant leaves open of TypeOK, and the byte budget.
BInv == nextId \in 0..IdBound /\ ByteBudget /\ out \in Outcome

\* Entries have bytes, and there are finitely many.
LEMMA EntriesFinite ==
    ASSUME IInv
    PROVE  IsFiniteSet(Ids) /\ \A i \in Ids : entries[i].bytes \in Nat
<1>1. IsFiniteSet(Ids)
  BY FS_Interval, FS_Subset DEF IInv, StateType
<1>2. \A i \in Ids : entries[i].bytes \in Nat
  BY EntryIsSnapshot DEF IInv, Snapshot
<1> QED BY <1>1, <1>2

LEMMA NothingRemoved == <<>> \in UNION {[D -> Snaps] : D \in SUBSET (0..IdBound)}
<1>1. <<>> \in [{} -> Snaps]
  OBVIOUS
<1> QED BY <1>1

LEMMA AnswerTyped ==
    ASSUME IInv, BInv, NEW q \in Requests, NEW h \in Served(q)
    PROVE  Answered(q, {h}) \in Outcome
<1>1. h.id \in Ids /\ (h.snap = entries[h.id] \/ h.snap = Slice(entries[h.id]))
  BY ServedIsReusable
<1>2. h = [id |-> h.id, snap |-> h.snap]
  BY DEF Served, Found
<1>3. h.id \in 0..IdBound /\ entries[h.id] \in Snaps
  BY <1>1, L1Assumption DEF IInv, StateType, BInv
<1>4. h \in [id : 0..IdBound, snap : Snaps \cup {Slice(s) : s \in Snaps}]
  BY <1>1, <1>2, <1>3
<1> QED BY <1>4, NothingRemoved DEF Answered, Outcome

LEMMA LookupKeepsBudget ==
    ASSUME IInv, BInv, NEW q \in Requests, Lookup(q)
    PROVE  BInv'
<1>1. CASE LookupConsume(q)
  <2>1. PICK h \in Served(q) : /\ entries' = Restrict(entries, Ids \ {h.id})
                               /\ out' = Answered(q, {h})
                               /\ nextId' = nextId
    BY <1>1 DEF LookupConsume
  <2>2. BytesOf(entries') <= BytesOf(entries)
    BY <2>1, EntriesFinite, BytesShrink DEF Ids
  <2>3. BytesOf(entries') \in Nat /\ BytesOf(entries) \in Nat
    <3>1. BytesOf(entries) \in Nat
      BY EntriesFinite, BytesTyped DEF Ids
    <3>2. DOMAIN entries' = Ids \ {h.id} /\ \A i \in Ids \ {h.id} : entries'[i] = entries[i]
      BY <2>1 DEF Restrict
    <3>3. IsFiniteSet(DOMAIN entries') /\ \A i \in DOMAIN entries' : entries'[i].bytes \in Nat
      BY <3>2, EntriesFinite, FS_Subset
    <3> QED BY <3>1, <3>3, BytesTyped
  <2>4. ByteBudget'
    BY <2>2, <2>3, L1Assumption DEF BInv, ByteBudget
  <2> QED BY <2>1, <2>4, AnswerTyped DEF BInv
<1>2. CASE LookupTouch(q) \/ LookupPeek(q)
  <2>1. PICK h \in Served(q) : out' = Answered(q, {h}) /\ entries' = entries /\ nextId' = nextId
    BY <1>2 DEF LookupTouch, LookupPeek
  <2> QED BY <2>1, AnswerTyped DEF BInv, ByteBudget
<1>3. CASE LookupMiss(q)
  <2>1. Answered(q, {}) \in Outcome
    BY NothingRemoved DEF Answered, Outcome
  <2> QED BY <1>3, <2>1 DEF LookupMiss, BInv, ByteBudget
<1> QED BY <1>1, <1>2, <1>3 DEF Lookup

LEMMA InsertKeepsBudget ==
    ASSUME IInv, BInv, NEW s \in Snaps, Insert(s)
    PROVE  BInv'
<1>0. nextId \in 0..IdBound /\ IdBound \in Nat
  BY L1Assumption DEF BInv
<1>1. CASE InsertTooLong(s)
  <2>1. Inserted(s, <<>>, TRUE) \in Outcome
    BY NothingRemoved DEF Inserted, Outcome
  <2> QED BY <1>1, <2>1 DEF InsertTooLong, BInv, ByteBudget
<1>2. CASE InsertYield(s)
  <2>1. [i \in {nextId} |-> s] \in UNION {[D -> Snaps] : D \in SUBSET (0..IdBound)}
    <3>1. [i \in {nextId} |-> s] \in [{nextId} -> Snaps] /\ {nextId} \in SUBSET (0..IdBound)
      BY <1>0
    <3> QED BY <3>1
  <2>2. Inserted(s, [i \in {nextId} |-> s], FALSE) \in Outcome
    BY <2>1 DEF Inserted, Outcome
  <2> QED BY <1>2, <2>2 DEF InsertYield, BInv, ByteBudget
<1>3. CASE InsertAdmit(s)
  <2> DEFINE f == Stored(s)
  <2>1. PICK E \in SUBSET DOMAIN f :
           /\ Evicted(E, f, StoredOrder(s))
           /\ entries' = Restrict(f, DOMAIN f \ E)
           /\ out' = Inserted(s, [i \in Pruned(s) \cup E |-> SnapshotAt(i, s)], FALSE)
           /\ nextId < IdBound /\ nextId' = nextId + 1
    BY <1>3 DEF InsertAdmit
  <2>2. nextId' \in 0..IdBound
    BY <1>0, <2>1
  <2>3. ByteBudget'
    <3>1. CASE E = DOMAIN f
      <4>1. DOMAIN entries' = {}
        BY <2>1, <3>1 DEF Restrict
      <4> QED BY <4>1, NoBytes, L1Assumption DEF ByteBudget
    <3>2. CASE UnderBudget(Restrict(f, DOMAIN f \ E))
      BY <2>1, <3>2 DEF UnderBudget, ByteBudget
    <3> QED BY <2>1, <3>1, <3>2 DEF Evicted
  <2>4. [i \in Pruned(s) \cup E |-> SnapshotAt(i, s)] \in UNION {[D -> Snaps] : D \in SUBSET (0..IdBound)}
    <3>1. Pruned(s) \cup E \subseteq Ids \cup {nextId}
      BY DEF Pruned, Stored
    <3>2. \A i \in Ids \cup {nextId} : SnapshotAt(i, s) \in Snaps /\ i \in 0..IdBound
      BY <1>0 DEF SnapshotAt, IInv, StateType
    <3>3. \A i \in Pruned(s) \cup E : SnapshotAt(i, s) \in Snaps
      BY <3>1, <3>2
    <3>4. [i \in Pruned(s) \cup E |-> SnapshotAt(i, s)] \in [Pruned(s) \cup E -> Snaps]
      BY <3>3
    <3>5. Pruned(s) \cup E \in SUBSET (0..IdBound)
      BY <3>1, <3>2
    <3> QED BY <3>4, <3>5
  <2>5. out' \in Outcome
    BY <2>1, <2>4 DEF Inserted, Outcome
  <2> QED BY <2>2, <2>3, <2>5 DEF BInv
<1> QED BY <1>1, <1>2, <1>3 DEF Insert

LEMMA ClearedTyped == Cleared \in Outcome
BY NothingRemoved DEF Cleared, Outcome

\* An empty tier is as it should be.
LEMMA InitIsSound == Init => IInv /\ BInv
<1> SUFFICES ASSUME Init
             PROVE  IInv /\ BInv
  OBVIOUS
<1>1. DOMAIN entries = {}
  BY DEF Init
<1>2. BytesOf(entries) = 0
  BY <1>1, NoBytes
<1> QED BY <1>2, InvariantInit, ClearedTyped, L1Assumption DEF Init, BInv, ByteBudget

LEMMA BudgetNext == IInv /\ BInv /\ [Next]_vars => BInv'
<1> SUFFICES ASSUME IInv, BInv, [Next]_vars
             PROVE  BInv'
  OBVIOUS
<1>1. CASE Clear
  <2>1. DOMAIN entries' = {}
    BY <1>1 DEF Clear
  <2>2. BytesOf(entries') = 0
    BY <2>1, NoBytes
  <2> QED BY <1>1, <2>2, ClearedTyped, L1Assumption DEF Clear, BInv, ByteBudget
<1>2. CASE UNCHANGED vars
  BY <1>2 DEF vars, BInv, ByteBudget
<1> QED BY <1>1, <1>2, LookupKeepsBudget, InsertKeepsBudget DEF Next

LEMMA Accounted == IInv /\ BInv => EntriesAccountedFor
BY DEF IInv, StateType, BInv, EntriesAccountedFor, TypeOK, WithinBudgets

\* After any history the LRU list and the entries name the same snapshots, and
\* these fit both budgets: an insert evicts until they do.
THEOREM EntriesAccountedForAlways == Spec => []EntriesAccountedFor
BY InitIsSound, BudgetNext, Accounted, InvariantHolds, PTL DEF Spec

(* --------------------------- the longest is found ------------------------ *)

\* Of natural numbers bounded by n there is a first largest.
LEMMA SomeLeads ==
    ASSUME NEW n \in Nat, NEW S \in SUBSET Nat, NEW len \in [S -> 0..n],
           NEW k \in S, len[k] > 0
    PROVE  \E i \in S : Leads(i, len) /\ len[i] >= len[k]
<1> DEFINE T == {len[i] : i \in S}
<1>1. T \in SUBSET (0..n) /\ T # {}
  OBVIOUS
<1>2. PICK m \in T : \A y \in T : y <= m
  BY <1>1, NatMax
<1> DEFINE First == {i \in S : len[i] = m}
<1>3. First \in SUBSET Nat /\ First # {}
  BY <1>2
<1>4. PICK i \in First : \A j \in First : i <= j
  BY <1>3, NatMin
<1>5. i \in S /\ len[i] = m /\ m >= len[k] /\ m \in 0..n
  BY <1>1, <1>2, <1>4
<1>6. \A j \in S : len[j] < m \/ (len[j] = m /\ i <= j)
  <2> SUFFICES ASSUME NEW j \in S, ~ (len[j] < m)
               PROVE  len[j] = m /\ i <= j
    OBVIOUS
  <2>1. len[j] <= m /\ len[j] \in 0..n
    BY <1>2
  <2>2. len[j] = m
    BY <1>5, <2>1
  <2> QED BY <1>4, <2>2
<1>7. Leads(i, len)
  BY <1>5, <1>6 DEF Leads
<1> QED BY <1>5, <1>7

\* How long a prefix the entries serve is bounded by the request.
LEMMA LengthsBounded ==
    ASSUME IInv, NEW q \in Requests
    PROVE  /\ Len(q.tokens) \in Nat
           /\ FullLens(q) \in [Ids -> 0..Len(q.tokens)]
           /\ SideLens(q) \in [Ids -> 0..Len(q.tokens)]
<1>1. Len(q.tokens) \in Nat
  BY L1Assumption, LenProperties DEF Request
<1>2. \A i \in Ids : Len(entries[i].tokens) \in Nat /\ entries[i].side \in Nat
  BY EntryIsSnapshot DEF IInv
<1>3. \A i \in Ids : FullLen(entries[i], q) \in 0..Len(q.tokens)
  BY <1>1, <1>2 DEF FullLen, IsPrefix
<1>4. \A i \in Ids : SideLen(entries[i], q) \in 0..Len(q.tokens)
  BY <1>1, <1>2 DEF SideLen, UsableSidecar
<1> QED BY <1>1, <1>3, <1>4 DEF FullLens, SideLens

\* At most one thing is found, whichever entry it comes from.
LEMMA OneIsFound ==
    ASSUME IInv, NEW q \in Requests, NEW h \in Found(q), NEW k \in Found(q)
    PROVE  h = k
<1>1. /\ FullLens(q) \in [Ids -> Nat] /\ SideLens(q) \in [Ids -> Nat]
      /\ Ids \subseteq Int
  BY LengthsBounded DEF IInv, StateType
<1>2. \A i, j \in FoundFull(q) : i = j
  BY <1>1 DEF FoundFull, Leads
<1>3. \A i, j \in FoundSidecar(q) : i = j
  BY <1>1 DEF FoundSidecar, Leads
<1>4. \A i \in FoundFull(q), j \in FoundSidecar(q) : FALSE
  BY <1>1 DEF FoundFull, FoundSidecar
<1> QED BY <1>2, <1>3, <1>4 DEF Found

\* The slice of an entry that serves through its sidecar is as long as that.
LEMMA SliceLength ==
    ASSUME IInv, NEW i \in Ids, entries[i].side > 0
    PROVE  /\ Len(Slice(entries[i]).tokens) = entries[i].side
           /\ Slice(entries[i]).tokens = SubSeq(entries[i].tokens, 1, entries[i].side)
           /\ Slice(entries[i]).key = entries[i].key
           /\ Slice(entries[i]).kind = "prefill" /\ Slice(entries[i]).logits
           /\ Slice(entries[i]).cover = entries[i].cover \cap (1..entries[i].side)
<1> DEFINE e == entries[i]
<1>1. /\ e \in Snapshot /\ e.tokens \in Seq(Tokens) /\ Len(e.tokens) \in Nat
      /\ e.side \in Nat /\ e.side < Len(e.tokens)
  BY EntryIsSnapshot DEF IInv
<1>2. /\ Slice(e).tokens = SubSeq(e.tokens, 1, e.side) /\ Slice(e).key = e.key
      /\ Slice(e).kind = "prefill" /\ Slice(e).logits
      /\ Slice(e).cover = e.cover \cap (1..e.side)
  BY <1>1 DEF Slice, Snapshot
<1>3. Len(SubSeq(e.tokens, 1, e.side)) = e.side
  BY <1>1, SubSeqProperties
<1> QED BY <1>2, <1>3

\* Whatever a resident entry offers q, itself or its slice, is measured by the
\* scan, unless the entry hides its own sidecar.
LEMMA OfferIsMeasured ==
    ASSUME IInv, NEW q \in Requests, NEW h \in Resident(q)
    PROVE  \/ \E i \in Ids : /\ h = Slice(entries[i])
                             /\ IsPrefix(entries[i].tokens, q.tokens)
                             /\ ~ Reusable(entries[i], q)
           \/ \E i \in Ids : FullLens(q)[i] >= Len(h.tokens) /\ FullLens(q)[i] > 0
           \/ \E i \in Ids : SideLens(q)[i] >= Len(h.tokens) /\ SideLens(q)[i] > 0
<1>0. Reusable(h, q)
  BY DEF Resident
<1>1. ASSUME NEW i \in Ids, Reusable(entries[i], q)
      PROVE  FullLens(q)[i] = Len(entries[i].tokens) /\ Len(entries[i].tokens) \in Nat \ {0}
  <2>1. FullLen(entries[i], q) = Len(entries[i].tokens)
    BY <1>1 DEF Reusable, FullLen
  <2> QED BY <2>1, EntryIsSnapshot DEF FullLens, IInv
<1>2. CASE \E i \in Ids : h = entries[i]
  <2>1. PICK i \in Ids : h = entries[i]
    BY <1>2
  <2>2. FullLens(q)[i] = Len(h.tokens) /\ Len(h.tokens) \in Nat \ {0}
    BY <1>0, <1>1, <2>1
  <2> QED BY <2>2
<1>3. CASE \E i \in Ids : /\ h = Slice(entries[i]) /\ entries[i].side > 0
                          /\ CoversSidecarContext(entries[i], entries[i].side, q.full)
  <2>1. PICK i \in Ids : /\ h = Slice(entries[i]) /\ entries[i].side > 0
                         /\ CoversSidecarContext(entries[i], entries[i].side, q.full)
    BY <1>3
  <2> DEFINE e == entries[i]
  <2>2. /\ Len(h.tokens) = e.side /\ h.tokens = SubSeq(e.tokens, 1, e.side) /\ h.key = e.key
        /\ e.side \in Nat /\ Len(e.tokens) \in Nat /\ e.side < Len(e.tokens)
    BY <2>1, SliceLength, EntryIsSnapshot DEF IInv
  <2>3. CASE IsPrefix(e.tokens, q.tokens)
    <3>1. CASE Reusable(e, q)
      <4>1. FullLens(q)[i] = Len(e.tokens)
        BY <1>1, <3>1
      <4>2. FullLens(q)[i] >= e.side /\ FullLens(q)[i] > 0
        BY <2>2, <4>1
      <4> QED BY <2>2, <4>2
    <3>2. CASE ~ Reusable(e, q)
      BY <2>1, <2>3, <3>2
    <3> QED BY <3>1, <3>2
  <2>4. CASE ~ IsPrefix(e.tokens, q.tokens)
    <3>1. IsPrefix(h.tokens, q.tokens) /\ e.key = q.key
      BY <1>0, <2>2 DEF Reusable
    <3>2. e.side <= Len(q.tokens) /\ SubSeq(q.tokens, 1, e.side) = SubSeq(h.tokens, 1, e.side)
      BY <2>2, <3>1 DEF IsPrefix
    <3>3. SubSeq(h.tokens, 1, e.side) = h.tokens
      <4>1. h.tokens \in Seq(Tokens)
        BY <2>1, <2>2, EntryIsSnapshot, SubSeqProperties DEF IInv
      <4> QED BY <2>1, <2>2, <4>1, SubSeqProperties, SeqEqual
    <3>4. Len(q.tokens) \in Nat
      BY LengthsBounded
    <3>5. UsableSidecar(e, q)
      BY <2>1, <2>2, <3>2, <3>3, <3>4 DEF UsableSidecar
    <3>6. SideLen(e, q) = e.side
      BY <2>4, <3>1, <3>5 DEF SideLen
    <3>7. SideLens(q)[i] = e.side
      BY <3>6 DEF SideLens
    <3> QED BY <2>1, <2>2, <3>7
  <2> QED BY <2>3, <2>4
<1> QED BY <1>2, <1>3 DEF Resident

\* lookup's scan finds the longest there is: what it answers with is at least as
\* long as anything it measured, unless a reply ends where the request ends.
LEMMA LongestIsServed ==
    ASSUME IInv, NEW q \in Requests, NEW n \in Nat,
           \/ \E i \in Ids : FullLens(q)[i] >= n /\ FullLens(q)[i] > 0
           \/ \E i \in Ids : SideLens(q)[i] >= n /\ SideLens(q)[i] > 0
    PROVE  \/ \E a \in Served(q) : Len(a.snap.tokens) >= n
           \/ \E i \in Ids : /\ entries[i].key = q.key
                             /\ entries[i].tokens = q.tokens
                             /\ ~ Reusable(entries[i], q)
<1> DEFINE F == FullLens(q)
           S == SideLens(q)
           m == Len(q.tokens)
<1>0. m \in Nat /\ F \in [Ids -> 0..m] /\ S \in [Ids -> 0..m] /\ Ids \in SUBSET Nat
  BY LengthsBounded DEF IInv, StateType
<1> HIDE DEF F, S, m
<1>1. ASSUME NEW i \in Ids, Leads(i, F), F[i] >= n, \A j \in Ids : S[j] <= F[i]
      PROVE  \/ \E a \in Served(q) : Len(a.snap.tokens) >= n
             \/ \E j \in Ids : /\ entries[j].key = q.key
                               /\ entries[j].tokens = q.tokens
                               /\ ~ Reusable(entries[j], q)
  <2> DEFINE a == [id |-> i, snap |-> entries[i]]
  <2>1. a \in Found(q)
    BY <1>1 DEF Found, FoundFull, F, S
  <2>2. FullLen(entries[i], q) > 0 /\ FullLen(entries[i], q) = F[i]
    BY <1>1 DEF Leads, F, FullLens
  <2>3. /\ entries[i].key = q.key /\ IsPrefix(entries[i].tokens, q.tokens)
        /\ F[i] = Len(entries[i].tokens)
    BY <2>2 DEF FullLen
  <2>4. CASE Len(entries[i].tokens) = m =>
                entries[i].kind = "prefill" /\ entries[i].logits
    <3>1. a \in Served(q)
      BY <2>1, <2>4 DEF Served, m
    <3> QED BY <1>1, <2>3, <3>1
  <2>5. CASE ~ (Len(entries[i].tokens) = m =>
                entries[i].kind = "prefill" /\ entries[i].logits)
    <3>1. Len(entries[i].tokens) = Len(q.tokens)
      BY <2>5 DEF m
    <3>2. entries[i].tokens = q.tokens
      <4>1. entries[i].tokens \in Seq(Tokens) /\ q.tokens \in Seq(Tokens)
        BY EntryIsSnapshot, L1Assumption DEF IInv, Request
      <4>2. \A t \in Seq(Tokens) : SubSeq(t, 1, Len(t)) = t
        OBVIOUS
      <4>3. SubSeq(entries[i].tokens, 1, Len(entries[i].tokens))
                = SubSeq(q.tokens, 1, Len(entries[i].tokens))
        BY <2>3 DEF IsPrefix
      <4> QED BY <3>1, <4>1, <4>2, <4>3
    <3>3. ~ Reusable(entries[i], q)
      BY <2>5, <3>1 DEF Reusable, m
    <3> QED BY <2>3, <3>2, <3>3
  <2> QED BY <2>4, <2>5
<1>2. ASSUME NEW i \in Ids, Leads(i, S), S[i] >= n, \A j \in Ids : F[j] < S[i]
      PROVE  \E a \in Served(q) : Len(a.snap.tokens) >= n
  <2> DEFINE a == [id |-> i, snap |-> Slice(entries[i])]
  <2>1. a \in Found(q)
    BY <1>2 DEF Found, FoundSidecar, F, S
  <2>2. SideLen(entries[i], q) > 0 /\ SideLen(entries[i], q) = S[i]
    BY <1>2 DEF Leads, S, SideLens
  <2>3. entries[i].side = S[i] /\ entries[i].side > 0
    BY <2>2 DEF SideLen
  <2>4. a.snap.kind = "prefill" /\ a.snap.logits /\ Len(a.snap.tokens) = entries[i].side
    BY <2>3, SliceLength
  <2>5. a \in Served(q)
    BY <2>1, <2>4 DEF Served
  <2> QED BY <1>2, <2>3, <2>4, <2>5
<1>3. \/ \E i \in Ids : F[i] >= n /\ F[i] > 0
      \/ \E i \in Ids : S[i] >= n /\ S[i] > 0
  BY DEF F, S
<1>4. CASE \A k \in Ids : ~ (F[k] > 0)
  <2>1. PICK s \in Ids : S[s] >= n /\ S[s] > 0
    BY <1>3, <1>4
  <2>2. PICK j \in Ids : Leads(j, S) /\ S[j] >= S[s]
    BY <1>0, <2>1, SomeLeads
  <2>3. S[j] \in Nat /\ S[s] \in Nat /\ (\A k \in Ids : F[k] \in Nat)
    BY <1>0
  <2>4. S[j] >= n /\ \A k \in Ids : F[k] < S[j]
    BY <1>4, <2>1, <2>2, <2>3
  <2> QED BY <1>2, <2>2, <2>4
<1>5. CASE \A k \in Ids : ~ (S[k] > 0)
  <2>1. PICK f \in Ids : F[f] >= n /\ F[f] > 0
    BY <1>3, <1>5
  <2>2. PICK i \in Ids : Leads(i, F) /\ F[i] >= F[f]
    BY <1>0, <2>1, SomeLeads
  <2>3. F[i] \in Nat /\ F[f] \in Nat /\ (\A k \in Ids : S[k] \in Nat)
    BY <1>0
  <2>4. F[i] >= n /\ \A k \in Ids : S[k] <= F[i]
    BY <1>5, <2>1, <2>2, <2>3
  <2> QED BY <1>1, <2>2, <2>4
<1>6. CASE (\E f \in Ids : F[f] > 0) /\ (\E s \in Ids : S[s] > 0)
  <2>1. PICK f \in Ids, s \in Ids : F[f] > 0 /\ S[s] > 0
    BY <1>6
  <2>2. PICK i \in Ids : Leads(i, F)
    BY <1>0, <2>1, SomeLeads
  <2>3. PICK j \in Ids : Leads(j, S)
    BY <1>0, <2>1, SomeLeads
  <2>4. (\A k \in Ids : F[k] \in Nat /\ S[k] \in Nat) /\ DOMAIN F = Ids /\ DOMAIN S = Ids
    BY <1>0
  <2>5. \A k \in Ids : F[k] <= F[i] /\ S[k] <= S[j]
    <3>1. \A k \in Ids : F[k] < F[i] \/ F[k] = F[i]
      BY <2>2, <2>4 DEF Leads
    <3>2. \A k \in Ids : S[k] < S[j] \/ S[k] = S[j]
      BY <2>3, <2>4 DEF Leads
    <3> QED BY <2>4, <3>1, <3>2
  <2>6. F[i] >= n \/ S[j] >= n
    <3>1. CASE \E k \in Ids : F[k] >= n /\ F[k] > 0
      <4>1. PICK k \in Ids : F[k] >= n
        BY <3>1
      <4>2. F[k] \in Nat /\ F[i] \in Nat /\ F[k] <= F[i]
        BY <2>4, <2>5
      <4> QED BY <4>1, <4>2
    <3>2. CASE \E k \in Ids : S[k] >= n /\ S[k] > 0
      <4>1. PICK k \in Ids : S[k] >= n
        BY <3>2
      <4>2. S[k] \in Nat /\ S[j] \in Nat /\ S[k] <= S[j]
        BY <2>4, <2>5
      <4> QED BY <4>1, <4>2
    <3> QED BY <1>3, <3>1, <3>2
  <2>7. CASE S[j] <= F[i]
    <3>1. F[i] >= n /\ \A k \in Ids : S[k] <= F[i]
      BY <2>4, <2>5, <2>6, <2>7
    <3> QED BY <1>1, <2>2, <3>1
  <2>8. CASE F[i] < S[j]
    <3>1. S[j] >= n /\ \A k \in Ids : F[k] < S[j]
      BY <2>4, <2>5, <2>6, <2>8
    <3> QED BY <1>2, <2>3, <3>1
  <2> QED BY <2>4, <2>7, <2>8
<1> QED BY <1>4, <1>5, <1>6

\* After every sequence of operations lookup (cache/prefix_l1.py) answers with
\* something at least as long as any resident snapshot or sidecar could serve,
\* but for the two cases the property names.
THEOREM LookupIsBestAlways == Spec => []LookupIsBest
<1>1. IInv => LookupIsBest
  <2> SUFFICES ASSUME IInv, NEW q \in Requests, NEW h \in Resident(q)
               PROVE  \/ \E a \in Served(q) : Len(a.snap.tokens) >= Len(h.tokens)
                      \/ \E i \in Ids : /\ entries[i].key = q.key
                                        /\ entries[i].tokens = q.tokens
                                        /\ ~ Reusable(entries[i], q)
                      \/ \E i \in Ids : /\ h = Slice(entries[i])
                                        /\ IsPrefix(entries[i].tokens, q.tokens)
                                        /\ ~ Reusable(entries[i], q)
    BY DEF LookupIsBest
  <2>1. Len(h.tokens) \in Nat
    <3>1. \A i \in Ids : Len(entries[i].tokens) \in Nat /\ entries[i].side \in Nat
      BY EntryIsSnapshot DEF IInv
    <3>2. \A i \in Ids : entries[i].side > 0 => Len(Slice(entries[i]).tokens) = entries[i].side
      BY SliceLength
    <3> QED BY <3>1, <3>2 DEF Resident
  <2> QED BY <2>1, OfferIsMeasured, LongestIsServed
<1> QED BY <1>1, InvariantHolds, PTL
==============================================================================
