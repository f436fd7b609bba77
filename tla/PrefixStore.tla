----------------------------- MODULE PrefixStore ------------------------------
(***************************************************************************)
(* PrefixSnapshotStore (cache/store.py) behind RuntimeCacheManager         *)
(* (cache/manager.py): the memory tier, which is PrefixL1, in front of the *)
(* disk tier, of which this module keeps what the store can see: which     *)
(* snapshots have a file, and which wait for the writer (PrefixL2 is the   *)
(* detailed model of both).                                                *)
(*                                                                         *)
(* The manager's lock serialises the operations; the writer thread does    *)
(* not take it, so handing several snapshots to the writer is one action   *)
(* per snapshot: todo is what the operation in progress has yet to hand    *)
(* over, and no other operation begins before it is empty.                 *)
(***************************************************************************)
EXTENDS Snapshots

CONSTANTS Snaps, Requests,
          MaxEntries, MaxBytes, MaxSnapshotTokens, FrontierStride,
          CrossKindPrune, IdBound,  \* of PrefixL1
          MaxInFlight,              \* the disk tier's writer slots
          Faults                    \* which of AllFaults may happen

AllFaults == {"lose",       \* a file is evicted, or unreadable
              "io",         \* a write fails
              "serialize",  \* _serialize raises in insert_async
              "crash"}      \* the process dies

VARIABLES entries, older, nextId, out,  \* the memory tier
          disk,   \* the snapshots that have a file
          jobs,   \* queued or in the writer's hands: [snap, live]
          todo,   \* what the operation in progress still has to hand over
          up,     \* up, closing (in shutdown), retired (shutdown raised), down
          ret     \* the last insert or lookup, see SnapshotCache

memory == <<entries, older, nextId, out>>
vars == <<memory, disk, jobs, todo, up, ret>>

L1 == INSTANCE PrefixL1

\* Every prompt is published with require_logits (_validate_snapshot_contract).
ASSUME StoreAssumption ==
    /\ L1!L1Assumption
    /\ MaxInFlight \in Nat \ {0}
    /\ Faults \subseteq AllFaults
    /\ \A s \in Snaps : s.kind = "prefill" => s.logits

NoAnswer == [put |-> {}, q |-> {}, hit |-> {}]

Given(s) == [put |-> {s}, q |-> {}, hit |-> {}]

Ready == up = "up" /\ todo = <<>>

(* ------------------------------ the file names -------------------------- *)

\* Mutant of FileName: trimmed and full snapshots share their name.
FileNameUnmarked(s) == <<s.key, s.kind, s.tokens, s.side>>

\* _final_path_for: what the name of a snapshot's file tells apart.
FileName(s) == <<s.key, s.kind, s.tokens, s.side, CoversPrefix(s, Len(s.tokens))>>

OnDisk(s) == \E f \in disk : FileName(f) = FileName(s)

(* -------------------------------- lookups ------------------------------- *)

\* How much of q the memory tier serves (lookup with record=False).
MatchedLen(q) == LET S == L1!Served(q)
                 IN  IF S = {} THEN 0 ELSE Len((CHOOSE h \in S : TRUE).snap.tokens)

\* Mutant of DiskBest: the disk is asked without a minimum length.
DiskBestOfAny(q) ==
    {f \in disk : /\ Reusable(f, q)
                  /\ \A g \in disk : Reusable(g, q) =>
                        \/ Len(g.tokens) < Len(f.tokens)
                        \/ /\ Len(g.tokens) = Len(f.tokens)
                           /\ f.kind = "prefill" \/ g.kind # "prefill"}

\* DFlashPrefixL2Cache.lookup(min_token_len): the longest usable file of more
\* than the matched length, a prefill before a generation.
DiskBest(q) ==
    {f \in disk : /\ Reusable(f, q)
                  /\ Len(f.tokens) > MatchedLen(q)
                  /\ \A g \in disk : Reusable(g, q) =>
                        \/ Len(g.tokens) < Len(f.tokens)
                        \/ /\ Len(g.tokens) = Len(f.tokens)
                           /\ f.kind = "prefill" \/ g.kind # "prefill"}

\* The disk has nothing longer: the memory tier answers and records the hit.
LookupMemory(q) ==
    /\ Ready
    /\ DiskBest(q) = {}
    /\ L1!LookupConsume(q) \/ L1!LookupTouch(q) \/ L1!LookupMiss(q)
    /\ ret' = [put |-> {}, q |-> {q}, hit |-> {h.snap : h \in out'.hit}]
    /\ UNCHANGED <<disk, jobs, todo, up>>

\* The lists of the members of S, each once, in the given order.
Listings(S, order) ==
    {l \in [1..Cardinality(S) -> S] :
        /\ Range(l) = S
        /\ \A i, j \in DOMAIN l : i < j => <<l[i], l[j]>> \in order}

\* What an insert of s gave back, in the order it is handed over: pruned
\* entries of its kind, pruned replies, then evicted ones from the oldest on.
GivenBackOrder(s) ==
    LET rank(i) == IF i \notin L1!Pruned(s) THEN 2
                   ELSE IF entries[i].kind = s.kind THEN 0 ELSE 1
    IN  {p \in (DOMAIN out'.removed) \X (DOMAIN out'.removed) :
            \/ rank(p[1]) < rank(p[2])
            \/ /\ rank(p[1]) = rank(p[2])
               /\ IF rank(p[1]) = 2 THEN p \in L1!StoredOrder(s) ELSE p[1] < p[2]}

GivenBack(s) ==
    {[k \in DOMAIN l |-> out'.removed[l[k]]] :
        l \in Listings(DOMAIN out'.removed, GivenBackOrder(s))}

\* Mutant of Promote: what the promoted file displaces is dropped.
PromoteDropping(f) == L1!Insert(f) /\ UNCHANGED todo

\* _record_l2_hit: a prompt's file goes back to the memory tier.
Promote(f) == L1!Insert(f) /\ todo' \in GivenBack(f)

LookupDisk(q) ==
    /\ Ready
    /\ \E f \in DiskBest(q) :
          /\ IF f.kind = "generation" THEN UNCHANGED <<memory, todo>> ELSE Promote(f)
          /\ ret' = [put |-> {}, q |-> {q}, hit |-> {f}]
    /\ UNCHANGED <<disk, jobs, up>>

(* -------------------------------- inserts ------------------------------- *)

\* insert: a prompt is written through, unless it was evicted at once (then it
\* is among the removed), and what it displaced is spilled after it.
Insert(s) ==
    /\ Ready
    /\ L1!Insert(s)
    /\ LET through == s.kind = "prefill" /\ (out'.skipped \/ nextId \in DOMAIN entries')
       IN  \E displaced \in GivenBack(s) :
              todo' = (IF through THEN <<s>> ELSE <<>>) \o displaced
    /\ ret' = Given(s)
    /\ UNCHANGED <<disk, jobs, up>>

\* insert_l2_only: prefill frontiers.
InsertL2Only(s) ==
    /\ Ready
    /\ s.kind = "prefill"
    /\ todo' = <<s>>
    /\ ret' = Given(s)
    /\ UNCHANGED <<memory, disk, jobs, up>>

\* Mutant of HandOver: the writer's queue has no bound.
HandOverAnyway ==
    /\ todo # <<>>
    /\ todo' = Tail(todo)
    /\ jobs' = IF OnDisk(Head(todo)) THEN jobs
               ELSE Append(jobs, [snap |-> Head(todo), live |-> TRUE])
    /\ ret' = NoAnswer
    /\ UNCHANGED <<memory, disk, up>>

\* _write_snapshots_to_l2, one insert_async: nothing to do when the file
\* exists, a job when a slot is free, otherwise the snapshot is dropped.
HandOver ==
    /\ todo # <<>>
    /\ todo' = Tail(todo)
    /\ jobs' = IF OnDisk(Head(todo)) \/ Len(jobs) >= MaxInFlight THEN jobs
               ELSE Append(jobs, [snap |-> Head(todo), live |-> TRUE])
    /\ ret' = NoAnswer
    /\ UNCHANGED <<memory, disk, up>>

\* An insert_async that raises ends the whole operation; a shutdown it ends
\* leaves the manager retired but not shut down.
HandOverRaises ==
    /\ "serialize" \in Faults
    /\ todo # <<>>
    /\ ~ OnDisk(Head(todo)) /\ Len(jobs) < MaxInFlight
    /\ todo' = <<>>
    /\ up' = IF up = "closing" THEN "retired" ELSE up
    /\ ret' = NoAnswer
    /\ UNCHANGED <<memory, disk, jobs>>

(* --------------------------- the rest of the store ---------------------- *)

\* clear: both tiers; the jobs that wait are of an older epoch from now on.
Clear ==
    /\ Ready
    /\ L1!Clear
    /\ disk' = {}
    /\ jobs' = [k \in DOMAIN jobs |-> [jobs[k] EXCEPT !.live = FALSE]]
    /\ ret' = NoAnswer
    /\ UNCHANGED <<todo, up>>

\* resident_snapshots: in LRU order.
Residents == {[k \in DOMAIN l |-> entries[l[k]]] : l \in Listings(DOMAIN entries, older)}

\* shutdown: the residents are spilled, ... (again, if it raised before)
Shutdown ==
    /\ up \in {"up", "retired"}
    /\ todo = <<>>
    /\ up' = "closing"
    /\ todo' \in Residents
    /\ ret' = NoAnswer
    /\ UNCHANGED <<memory, disk, jobs>>

GoDown ==
    /\ up' = "down"
    /\ entries' = <<>> /\ older' = {} /\ nextId' = 0 /\ out' = L1!Cleared
    /\ jobs' = <<>> /\ todo' = <<>>
    /\ ret' = NoAnswer
    /\ UNCHANGED disk

\* ... and the writer has drained its queue (PrefixL2 has the timeout).
ShutdownFinish ==
    /\ up = "closing"
    /\ todo = <<>> /\ jobs = <<>>
    /\ GoDown

Start ==
    /\ up = "down"
    /\ up' = "up"
    /\ ret' = NoAnswer
    /\ UNCHANGED <<memory, disk, jobs, todo>>

Crash ==
    /\ "crash" \in Faults
    /\ up # "down"
    /\ GoDown

(* ------------------------------- the writer ----------------------------- *)

\* Mutant of WriteJob: a job outlives clear().
WriteJobAnyEpoch ==
    /\ jobs # <<>>
    /\ jobs' = Tail(jobs)
    /\ disk' = IF OnDisk(Head(jobs).snap) THEN disk ELSE disk \cup {Head(jobs).snap}
    /\ ret' = NoAnswer
    /\ UNCHANGED <<memory, todo, up>>

\* One turn of the writer, which publishes the job's file or gives it up.
WriteJob ==
    /\ jobs # <<>>
    /\ jobs' = Tail(jobs)
    /\ LET job == Head(jobs)
       IN  \/ /\ job.live /\ ~ OnDisk(job.snap)
              /\ disk' = disk \cup {job.snap}
           \/ /\ ~ job.live \/ OnDisk(job.snap) \/ "io" \in Faults
              /\ UNCHANGED disk
    /\ ret' = NoAnswer
    /\ UNCHANGED <<memory, todo, up>>

LoseFile(f) ==
    /\ "lose" \in Faults
    /\ disk' = disk \ {f}
    /\ ret' = NoAnswer
    /\ UNCHANGED <<memory, jobs, todo, up>>

Init ==
    /\ L1!Init
    /\ disk = {} /\ jobs = <<>> /\ todo = <<>>
    /\ up = "up"
    /\ ret = NoAnswer

Next ==
    \/ \E q \in Requests : LookupMemory(q) \/ LookupDisk(q)
    \/ \E s \in Snaps : Insert(s) \/ InsertL2Only(s)
    \/ HandOver
    \/ HandOverRaises
    \/ Clear
    \/ Shutdown
    \/ ShutdownFinish
    \/ Start
    \/ Crash
    \/ WriteJob
    \/ \E f \in disk : LoseFile(f)

Spec == Init /\ [][Next]_vars

(* ------------------------------ properties ------------------------------ *)

\* Types; at most MaxInFlight snapshots wait for the disk, and no two files
\* have one name.
TypeOK ==
    /\ L1!TypeOK
    /\ disk \subseteq Snaps
    /\ \A f, g \in disk : FileName(f) = FileName(g) => f = g
    /\ Len(jobs) <= MaxInFlight
    /\ \A k \in DOMAIN jobs : jobs[k] \in [snap : Snaps, live : BOOLEAN]
    /\ \A k \in DOMAIN todo : todo[k] \in Snaps
    /\ up \in {"up", "closing", "retired", "down"}

\* What the memory tier gives up, whether for an insert or for a file that is
\* promoted into it, is handed to the disk tier by the same operation; only a
\* served reply, clear() and the end of the process are exempt.
EvictedIsHandedOver ==
    [][\A i \in DOMAIN entries \ DOMAIN entries' :
          \/ entries[i] \in Range(todo')
          \/ entries[i].kind = "generation" /\ ret'.hit # {}
          \/ entries' = <<>> /\ out' = L1!Cleared]_vars

\* A snapshot that is not written because "its" file exists is not needed:
\* the file serves every request the snapshot would have served, as far.
\* (docs/architecture.md: "a trimmed twin of the same tokens cannot shadow it")
SkippedIsCovered ==
    [][\A q \in Requests :
          /\ todo # <<>> /\ todo' = Tail(todo) /\ jobs' = jobs
          /\ OnDisk(Head(todo))
          /\ Reusable(Head(todo), q)
          => \E f \in disk : f.tokens = Head(todo).tokens /\ Reusable(f, q)]_vars

\* Nothing gets lost on its way from memory to disk: at most MaxInFlight snapshots
\* are in flight, what is evicted sets out, and what does not arrive is not missed.
NothingLostBetweenTiers == []TypeOK /\ EvictedIsHandedOver /\ SkippedIsCovered

\* No tier hides the other: an answer is as long as what the memory tier would
\* have answered alone, and as long as any file that could have served it.
BestOfBothTiers ==
    [][\A q \in ret'.q : \A h \in {a.snap : a \in L1!Served(q)}
                                  \cup {f \in disk : Reusable(f, q)} :
          \E a \in ret'.hit : Len(a.tokens) >= Len(h.tokens)]_vars

\* Everything the two tiers could still answer with.
Held == {entries[i] : i \in DOMAIN entries} \cup disk \cup Range(todo)
        \cup {jobs[k].snap : k \in {j \in DOMAIN jobs : jobs[j].live}}

\* The promise to the engine, over both tiers and over restarts: reusable
\* answers only, and nothing comes back that clear() or a loss took away.
Promise == INSTANCE SnapshotCache WITH held <- Held, answer <- ret
ImplementsSnapshotCache == Promise!Spec
==============================================================================
