------------------------------- MODULE PrefixL1 -------------------------------
(***************************************************************************)
(* DFlashPrefixCache (cache/prefix_l1.py): the in-memory tier of the       *)
(* prefix cache.  Every operation runs under the cache's lock from its     *)
(* first read to its last write, so each is one action.                    *)
(*                                                                         *)
(* _entries is a dict in insertion order and ids are issued in increasing  *)
(* order, so iterating it is going through the ids in increasing order.    *)
(* _lru_order never holds an id twice (ids are appended when new, or right *)
(* after being removed), so the list is a strict order: <<a, b>> \in older *)
(* iff a stands before b in it.                                            *)
(***************************************************************************)
EXTENDS Snapshots

CONSTANTS Snaps,              \* the snapshots the engine may publish
          Requests,           \* the requests it may look up
          MaxEntries,         \* prefix_cache_max_entries
          MaxBytes,           \* prefix_cache_max_bytes
          MaxSnapshotTokens,  \* max_snapshot_tokens, 0: no cap
          FrontierStride,     \* frontier_stride, 0: no frontier snapshots
          CrossKindPrune,     \* cross_kind_prune
          IdBound             \* model bound: how many ids are issued

ASSUME L1Assumption ==
    /\ \A s \in Snaps : WellFormed(s)
    /\ Requests \subseteq Request
    /\ {MaxEntries, MaxBytes, MaxSnapshotTokens, FrontierStride, IdBound} \subseteq Nat
    /\ CrossKindPrune \in BOOLEAN

VARIABLES entries,    \* _entries: id -> snapshot
          older,      \* _lru_order, as the order of its ids
          nextId,     \* _next_id
          out         \* what the last operation returned

vars == <<entries, older, nextId, out>>

Ids == DOMAIN entries

(* ---------------------------- what is returned -------------------------- *)

\* q, put: the request, the snapshot inserted, when there was one; hit: the
\* served snapshot with the id it came from (at most one); removed: the
\* snapshots handed back to the caller, by id (removed_snapshots).
Answered(q, hit) ==
    [op |-> "lookup", q |-> {q}, put |-> {}, hit |-> hit,
     removed |-> <<>>, skipped |-> FALSE]

Inserted(s, removed, skipped) ==
    [op |-> "insert", q |-> {}, put |-> {s}, hit |-> {},
     removed |-> removed, skipped |-> skipped]

Cleared ==
    [op |-> "clear", q |-> {}, put |-> {}, hit |-> {},
     removed |-> <<>>, skipped |-> FALSE]

(* -------------------------------- lookup -------------------------------- *)

\* How long a prefix of q the entry e serves as it is, and through its sidecar.
FullLen(e, q) ==
    IF /\ e.key = q.key
       /\ IsPrefix(e.tokens, q.tokens)
       /\ q.full => CoversPrefix(e, Len(e.tokens))
    THEN Len(e.tokens) ELSE 0

SideLen(e, q) ==
    IF /\ e.key = q.key
       /\ ~ IsPrefix(e.tokens, q.tokens)
       /\ UsableSidecar(e, q)
    THEN e.side ELSE 0

\* Mutant of Leads: the first match wins, however short.
LeadsFirst(i, len) == len[i] > 0 /\ \A j \in DOMAIN len : len[j] > 0 => i <= j

\* The scan keeps the first of the longest: "if length > best".
Leads(i, len) ==
    /\ len[i] > 0
    /\ \A j \in DOMAIN len : len[j] < len[i] \/ (len[j] = len[i] /\ i <= j)

FullLens(q) == [i \in Ids |-> FullLen(entries[i], q)]
SideLens(q) == [i \in Ids |-> SideLen(entries[i], q)]

\* A sidecar is used only when it serves strictly more than any full entry.
FoundFull(q) ==
    {i \in Ids : Leads(i, FullLens(q)) /\ \A j \in Ids : SideLens(q)[j] <= FullLens(q)[i]}

FoundSidecar(q) ==
    {i \in Ids : Leads(i, SideLens(q)) /\ \A j \in Ids : FullLens(q)[j] < SideLens(q)[i]}

Found(q) == {[id |-> i, snap |-> entries[i]] : i \in FoundFull(q)}
            \cup {[id |-> i, snap |-> Slice(entries[i])] : i \in FoundSidecar(q)}

\* Mutant of Served: whole-request matches are served unfiltered.
ServedUnfiltered(q) == Found(q)

\* A whole-request match is dropped unless it is a prefill with logits; no
\* second best is looked for.
Served(q) ==
    {h \in Found(q) : Len(h.snap.tokens) = Len(q.tokens)
                         => h.snap.kind = "prefill" /\ h.snap.logits}

Without(order, D) == {p \in order : p[1] \notin D /\ p[2] \notin D}

\* record=True: a generation, or the carrier of a used sidecar, leaves ...
LookupConsume(q) ==
    \E h \in Served(q) :
       /\ \/ h.snap # entries[h.id]
          \/ h.snap.kind = "generation"
       /\ entries' = Restrict(entries, Ids \ {h.id})
       /\ older' = Without(older, {h.id})
       /\ out' = Answered(q, {h})
       /\ UNCHANGED nextId

\* ... and a prefill becomes the most recently used.
LookupTouch(q) ==
    \E h \in Served(q) :
       /\ h.snap = entries[h.id]
       /\ h.snap.kind # "generation"
       /\ older' = Without(older, {h.id}) \cup ((Ids \ {h.id}) \X {h.id})
       /\ out' = Answered(q, {h})
       /\ UNCHANGED <<entries, nextId>>

\* record=False: the two-tier store peeks before it asks the disk.
LookupPeek(q) ==
    \E h \in Served(q) :
       /\ out' = Answered(q, {h})
       /\ UNCHANGED <<entries, older, nextId>>

LookupMiss(q) ==
    /\ Served(q) = {}
    /\ out' = Answered(q, {})
    /\ UNCHANGED <<entries, older, nextId>>

(* -------------------------------- insert -------------------------------- *)

\* Every caller passes skip_too_long=True.
TooLong(s) ==
    /\ s.kind # "generation"
    /\ MaxSnapshotTokens > 0
    /\ Len(s.tokens) > MaxSnapshotTokens

\* _incoming_generation_should_yield_to_prefill
YieldsToPrefill(s) ==
    /\ s.kind = "generation"
    /\ \E i \in Ids : /\ entries[i].key = s.key
                      /\ entries[i].kind = "prefill"
                      /\ IsPrefix(entries[i].tokens, s.tokens)
                      /\ entries[i].bytes + s.bytes > MaxBytes

\* _preserve_aligned_frontier
AlignedFrontier(e, s) ==
    /\ e.kind = "prefill"
    /\ FrontierStride > 0
    /\ Len(e.tokens) < Len(s.tokens)
    /\ Len(e.tokens) % FrontierStride = 0

\* Mutant of Dominates: an entry with the very same tokens is kept.
DominatesProper(s, e) ==
    /\ e.key = s.key
    /\ IsStrictPrefix(e.tokens, s.tokens)
    /\ \/ e.kind = s.kind /\ ~ AlignedFrontier(e, s)
       \/ e.kind = "generation" /\ s.kind = "prefill" /\ CrossKindPrune

\* Mutant of Dominates: only entries of the same kind are pruned.
DominatesSameKind(s, e) ==
    /\ e.key = s.key
    /\ IsPrefix(e.tokens, s.tokens)
    /\ e.kind = s.kind /\ ~ AlignedFrontier(e, s)

\* _prune_dominated_prefixes: the entries an incoming s makes useless.
Dominates(s, e) ==
    /\ e.key = s.key
    /\ IsPrefix(e.tokens, s.tokens)
    /\ \/ e.kind = s.kind /\ ~ AlignedFrontier(e, s)
       \/ e.kind = "generation" /\ s.kind = "prefill" /\ CrossKindPrune

BytesOf(f) == MapThenSumSet(LAMBDA i : f[i].bytes, DOMAIN f)

\* Mutant of UnderBudget: one entry too many.
UnderBudgetOffByOne(f) == Cardinality(DOMAIN f) <= MaxEntries + 1 /\ BytesOf(f) <= MaxBytes

\* Mutant of UnderBudget: only the entries are counted.
UnderBudgetByCount(f) == Cardinality(DOMAIN f) <= MaxEntries

UnderBudget(f) == Cardinality(DOMAIN f) <= MaxEntries /\ BytesOf(f) <= MaxBytes

\* E is a head of the list: whatever stands before a member is a member.
OldestPart(E, order) == \A p \in order : p[2] \in E => p[1] \in E

\* _evict_until_under_budget: pop the list's head until what is left fits.
Evicted(E, f, order) ==
    /\ OldestPart(E, order)
    /\ E = DOMAIN f \/ UnderBudget(Restrict(f, DOMAIN f \ E))
    /\ \A F \in SUBSET E : F # E /\ OldestPart(F, order)
                              => ~ UnderBudget(Restrict(f, DOMAIN f \ F))

InsertTooLong(s) ==
    /\ TooLong(s)
    /\ out' = Inserted(s, <<>>, TRUE)
    /\ UNCHANGED <<entries, older, nextId>>

\* Mutant of InsertYield: the generation is dropped.
InsertYieldDropping(s) ==
    /\ ~ TooLong(s)
    /\ YieldsToPrefill(s)
    /\ out' = Inserted(s, <<>>, FALSE)
    /\ UNCHANGED <<entries, older, nextId>>

\* The generation is handed back as if it had been inserted and evicted; it
\* never had an id, so the model gives it the next one.
InsertYield(s) ==
    /\ ~ TooLong(s)
    /\ YieldsToPrefill(s)
    /\ out' = Inserted(s, [i \in {nextId} |-> s], FALSE)
    /\ UNCHANGED <<entries, older, nextId>>

\* The entries, and the LRU order, once s has been pruned for and appended.
Pruned(s) == {i \in Ids : Dominates(s, entries[i])}

SnapshotAt(i, s) == IF i = nextId THEN s ELSE entries[i]

Stored(s) == [i \in (Ids \ Pruned(s)) \cup {nextId} |-> SnapshotAt(i, s)]

\* Mutant of StoredOrder: the new id is not appended to the LRU list.
StoredOrderUnlisted(s) == Without(older, Pruned(s))

StoredOrder(s) == Without(older, Pruned(s)) \cup ((Ids \ Pruned(s)) \X {nextId})

InsertAdmit(s) ==
    /\ ~ TooLong(s)
    /\ ~ YieldsToPrefill(s)
    /\ nextId < IdBound
    /\ \E E \in SUBSET DOMAIN Stored(s) :
          /\ Evicted(E, Stored(s), StoredOrder(s))
          /\ entries' = Restrict(Stored(s), DOMAIN Stored(s) \ E)
          /\ older' = Without(StoredOrder(s), E)
          /\ out' = Inserted(s, [i \in Pruned(s) \cup E |-> SnapshotAt(i, s)], FALSE)
    /\ nextId' = nextId + 1

Clear ==
    /\ entries' = <<>>
    /\ older' = {}
    /\ out' = Cleared
    /\ UNCHANGED nextId

Init ==
    /\ entries = <<>>
    /\ older = {}
    /\ nextId = 0
    /\ out = Cleared

Lookup(q) ==
    \/ LookupConsume(q)
    \/ LookupTouch(q)
    \/ LookupPeek(q)
    \/ LookupMiss(q)

Insert(s) ==
    \/ InsertTooLong(s)
    \/ InsertYield(s)
    \/ InsertAdmit(s)

Next ==
    \/ \E q \in Requests : Lookup(q)
    \/ \E s \in Snaps : Insert(s)
    \/ Clear

Spec == Init /\ [][Next]_vars

(* ------------------------------ properties ------------------------------ *)

Outcome ==
    [op : {"lookup", "insert", "clear"}, q : SUBSET Requests, put : SUBSET Snaps,
     hit : SUBSET [id : 0..IdBound, snap : Snaps \cup {Slice(s) : s \in Snaps}],
     removed : UNION {[D -> Snaps] : D \in SUBSET (0..IdBound)}, skipped : BOOLEAN]

\* The LRU list and the entries name the same snapshots, each once: the order
\* is total on the resident ids (an id missing from the list could never be
\* evicted, a stale one would make the eviction loop pop for nothing).
LruIsTotal ==
    /\ \A i, j \in Ids : i # j => (<<i, j>> \in older <=> <<j, i>> \notin older)
    /\ \A i \in Ids : <<i, i>> \notin older
    /\ \A i, j, k \in Ids : <<i, j>> \in older /\ <<j, k>> \in older => <<i, k>> \in older

\* Types: the entries are stored snapshots under ids already issued, and the LRU
\* list is an order of exactly these ids.
TypeOK ==
    /\ nextId \in 0..IdBound
    /\ Ids \subseteq 0..(nextId - 1)
    /\ \A i \in Ids : entries[i] \in Snaps
    /\ older \subseteq Ids \X Ids
    /\ LruIsTotal
    /\ out \in Outcome

\* prefix_cache_max_entries holds after every operation.
EntryBudget == Cardinality(Ids) <= MaxEntries

\* prefix_cache_max_bytes holds after every operation.
ByteBudget == BytesOf(entries) <= MaxBytes

\* Both budgets bind at once: one insert may have to evict several entries, the
\* new one among them.
WithinBudgets == EntryBudget /\ ByteBudget

\* After every sequence of operations the LRU list orders exactly the resident
\* ids (an id in one of the two only is never evicted, or evicts nothing) and
\* what is resident fits both budgets.
EntriesAccountedFor == TypeOK /\ WithinBudgets

\* What _prune_dominated_prefixes is for, over all pairs and all histories: of
\* two resident snapshots of one kind and one fingerprint the earlier is never
\* a useless prefix of the later, and no reply's snapshot is resident below a
\* later prompt snapshot that extends it.
NoDominated ==
    \A i, j \in Ids :
       (i < j) =>
          ~ /\ entries[i].key = entries[j].key
            /\ IsPrefix(entries[i].tokens, entries[j].tokens)
            /\ \/ /\ entries[i].kind = entries[j].kind
                  /\ ~ AlignedFrontier(entries[i], entries[j])
               \/ /\ CrossKindPrune
                  /\ entries[i].kind = "generation"
                  /\ entries[j].kind = "prefill"

\* A resident prompt is never masked: while a prefill with logits is resident,
\* the request for exactly its tokens is an exact hit, whatever replies with
\* the same tokens came before or after it.  (lookup keeps the first of the
\* longest and turns a whole-request generation match into a miss, so this
\* rests on what pruning kept out.)
ResidentPromptIsServed ==
    \A i \in Ids, full \in BOOLEAN :
       /\ CrossKindPrune
       /\ entries[i].kind = "prefill"
       /\ entries[i].logits
       /\ full => CoversPrefix(entries[i], Len(entries[i].tokens))
       => \E h \in Served([tokens |-> entries[i].tokens, key |-> entries[i].key,
                            full |-> full]) :
             h.id = i /\ h.snap = entries[i]

\* Everything a resident snapshot could offer q: itself, or its sidecar where the
\* features reach that a draft needs to go on from there.
Resident(q) ==
    {h \in {entries[i] : i \in Ids}
            \cup {Slice(entries[i]) : i \in {c \in Ids :
                    /\ entries[c].side > 0
                    /\ CoversSidecarContext(entries[c], entries[c].side, q.full)}} :
        Reusable(h, q)}

\* Lookup wastes reuse in two cases only: a reply that ends exactly where the
\* request ends turns the whole lookup into a miss, and a snapshot that is a
\* prefix of the request but lacks features hides its own sidecar.
LookupIsBest ==
    \A q \in Requests : \A h \in Resident(q) :
       \/ \E a \in Served(q) : Len(a.snap.tokens) >= Len(h.tokens)
       \/ \E i \in Ids : /\ entries[i].key = q.key
                        /\ entries[i].tokens = q.tokens
                        /\ ~ Reusable(entries[i], q)
       \/ \E i \in Ids : /\ h = Slice(entries[i])
                        /\ IsPrefix(entries[i].tokens, q.tokens)
                        /\ ~ Reusable(entries[i], q)

\* One step of NothingLost: how an entry may go, and where an inserted one is.
LeavesKnowingly(i) ==
    \/ out'.op = "clear"
    \/ i \in DOMAIN out'.removed /\ out'.removed[i] = entries[i]
    \/ entries[i].kind = "generation" /\ \E h \in out'.hit : h.id = i

IncomingAccounted ==
    out'.op = "insert" => \/ out'.skipped
                          \/ nextId \in DOMAIN entries' \cup DOMAIN out'.removed

\* A snapshot leaves the cache in three ways only: a reply's snapshot by being
\* served, any by being handed back to the store (which may spill it to disk),
\* or by clear(); and an inserted one is resident, handed back, or reported as
\* skipped.  Nothing is dropped on the floor.
NothingLost ==
    [][(\A i \in Ids \ DOMAIN entries' : LeavesKnowingly(i)) /\ IncomingAccounted]_vars

\* The promise to the engine (SnapshotCache): hits are held, true
\* prefixes, under the request's fingerprint, exact only with logits.
Promise == INSTANCE SnapshotCache WITH
    held <- {entries[i] : i \in Ids},
    answer <- [put |-> out.put, q |-> out.q, hit |-> {h.snap : h \in out.hit}]

\* The in-memory tier implements the abstract snapshot cache.
ImplementsSnapshotCache == Promise!Spec
==============================================================================
