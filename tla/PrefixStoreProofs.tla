--------------------------- MODULE PrefixStoreProofs ---------------------------
(***************************************************************************)
(* What holds of the two tiers together, for every universe of snapshots   *)
(* and requests, any budgets, any number of writer slots and every set of  *)
(* faults.  What the memory tier does in a step is cited from its own      *)
(* proofs, instantiated here as Tier.                                      *)
(***************************************************************************)
EXTENDS PrefixStore, TLAPS, FiniteSetTheorems, SequenceTheorems

Tier == INSTANCE PrefixL1Proofs

\* The memory tier by its own invariant.
MemoryInv == Tier!IInv /\ Tier!BInv

\* No two files have one name, and what waits for the disk are snapshots.
SInv ==
    /\ MemoryInv
    /\ disk \subseteq Snaps
    /\ \A f, g \in disk : FileName(f) = FileName(g) => f = g
    /\ jobs \in Seq([snap : Snaps, live : BOOLEAN])
    /\ Len(jobs) <= MaxInFlight
    /\ todo \in Seq(Snaps)
    /\ up \in {"up", "closing", "retired", "down"}

(* ---------------------------- the memory tier --------------------------- *)

LEMMA SameAssumptions == Tier!KeyAssumption /\ Tier!L1Assumption
BY KeyAssumption, StoreAssumption DEF L1!L1Assumption, L1!WellFormed, Tier!WellFormed,
   L1!Request, Tier!Request, L1!Snapshot, Tier!Snapshot, L1!Kinds, Tier!Kinds

LEMMA SameServed == \A q : L1!Served(q) = Tier!Served(q)
BY DEF L1!Served, Tier!Served, L1!Found, Tier!Found, L1!FoundFull, Tier!FoundFull,
       L1!FoundSidecar, Tier!FoundSidecar, L1!Leads, Tier!Leads, L1!FullLens, Tier!FullLens,
       L1!SideLens, Tier!SideLens, L1!FullLen, Tier!FullLen, L1!SideLen, Tier!SideLen,
       L1!Ids, Tier!Ids, L1!Slice, Tier!Slice, L1!UsableSidecar, Tier!UsableSidecar,
       L1!CoversSidecarContext, Tier!CoversSidecarContext, L1!CoversPrefix, Tier!CoversPrefix,
       L1!Covers, Tier!Covers, L1!IsPrefix, Tier!IsPrefix

LEMMA SameUnderBudget == \A f : L1!UnderBudget(f) <=> Tier!UnderBudget(f)
BY DEF L1!UnderBudget, Tier!UnderBudget, L1!Cardinality, Tier!Cardinality, L1!BytesOf,
       Tier!BytesOf, L1!MapThenSumSet, Tier!MapThenSumSet, L1!MapThenFoldSet,
       Tier!MapThenFoldSet

LEMMA SameStored ==
    \A s : /\ L1!Pruned(s) = Tier!Pruned(s)
           /\ L1!Stored(s) = Tier!Stored(s)
           /\ L1!StoredOrder(s) = Tier!StoredOrder(s)
BY DEF L1!Pruned, Tier!Pruned, L1!Stored, Tier!Stored, L1!StoredOrder, Tier!StoredOrder,
       L1!SnapshotAt, Tier!SnapshotAt, L1!Without, Tier!Without, L1!Ids, Tier!Ids,
       L1!Dominates, Tier!Dominates, L1!AlignedFrontier, Tier!AlignedFrontier,
       L1!IsPrefix, Tier!IsPrefix

LEMMA SameLookups ==
    \A q : /\ L1!LookupConsume(q) <=> Tier!LookupConsume(q)
           /\ L1!LookupTouch(q) <=> Tier!LookupTouch(q)
           /\ L1!LookupMiss(q) <=> Tier!LookupMiss(q)
BY SameServed DEF L1!LookupConsume, Tier!LookupConsume, L1!LookupTouch, Tier!LookupTouch,
       L1!LookupMiss, Tier!LookupMiss, L1!Answered, Tier!Answered, L1!Without, Tier!Without,
       L1!Restrict, Tier!Restrict, L1!Ids, Tier!Ids

LEMMA SameEvicted == \A E, f, order : L1!Evicted(E, f, order) <=> Tier!Evicted(E, f, order)
BY SameUnderBudget DEF L1!Evicted, Tier!Evicted, L1!OldestPart, Tier!OldestPart,
       L1!Restrict, Tier!Restrict

LEMMA SameInsert == \A s : L1!Insert(s) <=> Tier!Insert(s)
<1>1. \A s : L1!InsertAdmit(s) <=> Tier!InsertAdmit(s)
  BY SameStored, SameEvicted
     DEF L1!InsertAdmit, Tier!InsertAdmit, L1!TooLong, Tier!TooLong, L1!YieldsToPrefill,
         Tier!YieldsToPrefill, L1!Inserted, Tier!Inserted, L1!Without, Tier!Without,
         L1!Restrict, Tier!Restrict, L1!SnapshotAt, Tier!SnapshotAt, L1!Ids, Tier!Ids,
         L1!IsPrefix, Tier!IsPrefix
<1>2. \A s : /\ L1!InsertTooLong(s) <=> Tier!InsertTooLong(s)
             /\ L1!InsertYield(s) <=> Tier!InsertYield(s)
  BY DEF L1!InsertTooLong, Tier!InsertTooLong, L1!InsertYield, Tier!InsertYield, L1!TooLong,
         Tier!TooLong, L1!YieldsToPrefill, Tier!YieldsToPrefill, L1!Inserted, Tier!Inserted,
         L1!Ids, Tier!Ids, L1!IsPrefix, Tier!IsPrefix
<1> QED BY <1>1, <1>2 DEF L1!Insert, Tier!Insert

LEMMA SameClear == L1!Clear <=> Tier!Clear
BY DEF L1!Clear, Tier!Clear, L1!Cleared, Tier!Cleared

LEMMA SameInit == L1!Init <=> Tier!Init
BY DEF L1!Init, Tier!Init, L1!Cleared, Tier!Cleared

LEMMA SameTypes == Tier!TypeOK => L1!TypeOK
BY DEF L1!TypeOK, Tier!TypeOK, L1!LruIsTotal, Tier!LruIsTotal, L1!Ids, Tier!Ids,
       L1!Outcome, Tier!Outcome, L1!Slice, Tier!Slice

LEMMA MemoryStarts == L1!Init => MemoryInv
BY SameAssumptions, SameInit, Tier!InitIsSound DEF MemoryInv

\* Whatever the store asks of the memory tier keeps what is true of it.
LEMMA MemoryHolds ==
    ASSUME MemoryInv,
           \/ UNCHANGED memory
           \/ \E q \in Requests : L1!LookupConsume(q) \/ L1!LookupTouch(q) \/ L1!LookupMiss(q)
           \/ \E s \in Snaps : L1!Insert(s)
           \/ L1!Clear
    PROVE  MemoryInv'
<1>1. [Tier!Next]_(Tier!vars)
  BY SameLookups, SameInsert, SameClear DEF Tier!Next, Tier!Lookup, Tier!vars, memory
<1>2. Tier!IInv'
  BY <1>1, SameAssumptions, Tier!InvariantNext DEF MemoryInv
<1>3. Tier!BInv'
  BY <1>1, SameAssumptions, Tier!BudgetNext DEF MemoryInv
<1> QED BY <1>2, <1>3 DEF MemoryInv

(* ------------------------------ ordered lists --------------------------- *)

LEMMA ListingIsOf ==
    \A S, order : IsFiniteSet(S) =>
        \A l \in Listings(S, order) :
            /\ Cardinality(S) \in Nat
            /\ l \in [1..Cardinality(S) -> S]
            /\ \A x \in S : \E k \in DOMAIN l : l[k] = x
BY FS_CardinalityType DEF Listings, Range

\* An interval's subsets are finite.
LEMMA FewNumbers == \A n \in Int : \A D \in SUBSET (0..n) : IsFiniteSet(D)
<1> SUFFICES ASSUME NEW n \in Int, NEW D \in SUBSET (0..n)
             PROVE  IsFiniteSet(D)
  OBVIOUS
<1>1. IsFiniteSet(0..n)
  BY FS_Interval
<1> QED BY <1>1, FS_Subset

\* What an insert gave back is handed over, all of it and nothing else.
LEMMA GivenBackIs ==
    ASSUME MemoryInv', NEW s, NEW l \in GivenBack(s)
    PROVE  /\ l \in Seq(Snaps)
           /\ Range(l) = {out'.removed[i] : i \in DOMAIN out'.removed}
<1> PICK R : R = out'.removed
  OBVIOUS
<1>1. PICK D \in SUBSET (0..IdBound) : R \in [D -> Snaps]
  BY Zenon DEF MemoryInv, Tier!BInv, Tier!Outcome
<1>0. IdBound \in Int
  BY SameAssumptions DEF Tier!L1Assumption
<1>2. IsFiniteSet(DOMAIN R)
  BY <1>0, <1>1, FewNumbers
<1>3. PICK m \in Listings(DOMAIN R, GivenBackOrder(s)) : l = [k \in DOMAIN m |-> R[m[k]]]
  BY DEF GivenBack
<1>4. /\ Cardinality(D) \in Nat
      /\ m \in [1..Cardinality(D) -> D]
      /\ \A x \in D : \E k \in DOMAIN m : m[k] = x
  <2>1. DOMAIN R = D
    BY <1>1
  <2>2. m \in Listings(D, GivenBackOrder(s)) /\ IsFiniteSet(D)
    BY <1>2, <1>3, <2>1
  <2> QED BY <2>2, ListingIsOf
<1>5. l \in [1..Cardinality(D) -> Snaps] /\ \A k \in 1..Cardinality(D) : l[k] = R[m[k]]
  BY <1>1, <1>3, <1>4
<1>6. l \in Seq(Snaps) /\ \A x : x \in Range(l) <=> \E i \in D : x = R[i]
  <2>1. l \in Seq(Snaps)
    BY <1>4, <1>5, SeqDef
  <2>2. ASSUME NEW i \in D
        PROVE  R[i] \in Range(l)
    <3>1. PICK k \in DOMAIN m : m[k] = i
      BY <1>4
    <3>2. k \in DOMAIN l /\ l[k] = R[i]
      BY <1>4, <1>5, <3>1
    <3> QED BY <3>2 DEF Range
  <2>3. ASSUME NEW k \in DOMAIN l
        PROVE  \E i \in D : l[k] = R[i]
    <3>1. k \in DOMAIN m /\ m[k] \in D /\ l[k] = R[m[k]]
      BY <1>4, <1>5
    <3> QED BY <3>1
  <2> QED BY <2>1, <2>2, <2>3 DEF Range
<1> QED BY <1>1, <1>6

\* A shutdown hands over whatever is resident.
LEMMA ResidentsAre ==
    ASSUME MemoryInv, NEW l \in Residents
    PROVE  /\ l \in Seq(Snaps)
           /\ Range(l) = {entries[i] : i \in DOMAIN entries}
<1>1. /\ DOMAIN entries \subseteq 0..(nextId - 1) /\ nextId \in Nat
      /\ \A i \in DOMAIN entries : entries[i] \in Snaps
      /\ entries = [i \in DOMAIN entries |-> entries[i]]
  BY DEF MemoryInv, Tier!IInv, Tier!StateType, Tier!Ids
<1>2. IsFiniteSet(DOMAIN entries)
  BY <1>1, FewNumbers
<1>3. PICK m \in Listings(DOMAIN entries, older) : l = [k \in DOMAIN m |-> entries[m[k]]]
  BY DEF Residents
<1>4. /\ Cardinality(DOMAIN entries) \in Nat
      /\ m \in [1..Cardinality(DOMAIN entries) -> DOMAIN entries]
      /\ \A x \in DOMAIN entries : \E k \in DOMAIN m : m[k] = x
  BY <1>2, <1>3, ListingIsOf
<1> DEFINE n == Cardinality(DOMAIN entries)
<1>5. l \in [1..n -> Snaps] /\ \A k \in 1..n : l[k] = entries[m[k]]
  BY <1>1, <1>3, <1>4
<1>6. l \in Seq(Snaps) /\ \A x : x \in Range(l) <=> \E i \in DOMAIN entries : x = entries[i]
  <2>1. l \in Seq(Snaps)
    BY <1>4, <1>5, SeqDef
  <2>2. \A x : x \in Range(l) <=> \E i \in DOMAIN entries : x = entries[i]
    BY <1>4, <1>5 DEF Range
  <2> QED BY <2>1, <2>2
<1> QED BY <1>6

(* ------------------------------ the invariant --------------------------- *)

\* One turn of the writer keeps the file names apart, and drops or writes the
\* first job.
LEMMA WriterHolds ==
    ASSUME SInv, WriteJob
    PROVE  /\ disk' \subseteq Snaps
           /\ \A f, g \in disk' : FileName(f) = FileName(g) => f = g
           /\ jobs' \in Seq([snap : Snaps, live : BOOLEAN])
           /\ Len(jobs') <= MaxInFlight
<1>1. /\ jobs \in Seq([snap : Snaps, live : BOOLEAN]) /\ jobs # <<>> /\ jobs' = Tail(jobs)
      /\ Len(jobs) <= MaxInFlight /\ MaxInFlight \in Nat
  BY StoreAssumption DEF SInv, WriteJob
<1>2. Head(jobs) \in [snap : Snaps, live : BOOLEAN]
  BY <1>1, HeadTailProperties
<1>3. \/ ~ OnDisk(Head(jobs).snap) /\ disk' = disk \cup {Head(jobs).snap}
      \/ disk' = disk
  BY DEF WriteJob
<1>4. /\ Tail(jobs) \in Seq([snap : Snaps, live : BOOLEAN])
      /\ Len(Tail(jobs)) <= MaxInFlight
  <2>1. Tail(jobs) \in Seq([snap : Snaps, live : BOOLEAN]) /\ Len(Tail(jobs)) = Len(jobs) - 1
        /\ Len(jobs) \in Nat
    BY <1>1, HeadTailProperties, LenProperties
  <2> QED BY <1>1, <2>1
<1>5. disk' \subseteq Snaps /\ \A f, g \in disk' : FileName(f) = FileName(g) => f = g
  BY <1>2, <1>3 DEF SInv, OnDisk
<1> QED BY <1>1, <1>4, <1>5

LEMMA JobTyped ==
    ASSUME SInv, todo # <<>>, Len(jobs) < MaxInFlight
    PROVE  /\ Append(jobs, [snap |-> Head(todo), live |-> TRUE])
                 \in Seq([snap : Snaps, live : BOOLEAN])
           /\ Len(Append(jobs, [snap |-> Head(todo), live |-> TRUE])) <= MaxInFlight
<1>1. Head(todo) \in Snaps
  BY DEF SInv
<1>2. jobs \in Seq([snap : Snaps, live : BOOLEAN]) /\ Len(jobs) \in Nat /\ MaxInFlight \in Nat
  BY StoreAssumption DEF SInv
<1> QED BY <1>1, <1>2

\* The memory tier comes through every operation of the store.
LEMMA MemoryNext ==
    ASSUME SInv, [Next]_vars
    PROVE  MemoryInv'
<1>0. MemoryInv /\ disk \subseteq Snaps
  BY DEF SInv
<1>1. ASSUME GoDown
      PROVE  MemoryInv'
  <2>1. L1!Init'
    BY <1>1 DEF GoDown, L1!Init
  <2>2. (L1!Init => MemoryInv)'
    BY MemoryStarts, PTL
  <2> QED BY <2>1, <2>2
<1>2. ASSUME NEW q \in Requests, LookupMemory(q)
      PROVE  MemoryInv'
  BY <1>0, <1>2, MemoryHolds DEF LookupMemory
<1>3. ASSUME NEW q \in Requests, LookupDisk(q)
      PROVE  MemoryInv'
  <2>1. PICK f \in DiskBest(q) : UNCHANGED memory \/ L1!Insert(f)
    BY <1>3 DEF LookupDisk, Promote
  <2>2. f \in Snaps
    BY <1>0 DEF DiskBest
  <2> QED BY <1>0, <2>1, <2>2, MemoryHolds
<1>4. ASSUME NEW s \in Snaps, Insert(s)
      PROVE  MemoryInv'
  BY <1>0, <1>4, MemoryHolds DEF Insert
<1>5. CASE Clear
  BY <1>0, <1>5, MemoryHolds DEF Clear
<1>6. CASE UNCHANGED memory
  BY <1>0, <1>6, MemoryHolds
<1>7. CASE Crash \/ ShutdownFinish
  BY <1>1, <1>7 DEF Crash, ShutdownFinish
<1>8. ASSUME NEW s \in Snaps, InsertL2Only(s)
      PROVE  UNCHANGED memory
  BY <1>8 DEF InsertL2Only
<1>9. ASSUME NEW f, LoseFile(f)
      PROVE  UNCHANGED memory
  BY <1>9 DEF LoseFile
<1>10. ASSUME \/ HandOver \/ HandOverRaises \/ Shutdown \/ Start \/ WriteJob
              \/ UNCHANGED vars
       PROVE  UNCHANGED memory
  BY <1>10 DEF HandOver, HandOverRaises, Shutdown, Start, WriteJob, vars
<1> QED
  BY <1>2, <1>3, <1>4, <1>5, <1>6, <1>7, <1>8, <1>9, <1>10 DEF Next

\* What the operation in progress hands over are snapshots.
LEMMA HandedTyped ==
    ASSUME SInv, [Next]_vars
    PROVE  todo' \in Seq(Snaps)
<1>0. /\ todo \in Seq(Snaps) /\ disk \subseteq Snaps /\ MemoryInv /\ MemoryInv'
      /\ <<>> \in Seq(Snaps)
  BY MemoryNext DEF SInv
<1>1. ASSUME NEW q \in Requests, LookupDisk(q)
      PROVE  todo' \in Seq(Snaps)
  <2>1. PICK f \in DiskBest(q) : UNCHANGED todo \/ todo' \in GivenBack(f)
    BY <1>1 DEF LookupDisk, Promote
  <2> QED BY <1>0, <2>1, GivenBackIs
<1>2. ASSUME NEW s \in Snaps, Insert(s)
      PROVE  todo' \in Seq(Snaps)
  <2>1. PICK displaced \in GivenBack(s) : \/ todo' = <<s>> \o displaced
                                          \/ todo' = <<>> \o displaced
    BY <1>2 DEF Insert
  <2>2. displaced \in Seq(Snaps)
    BY <1>0, <2>1, GivenBackIs
  <2>3. <<s>> \in Seq(Snaps) /\ <<>> \in Seq(Snaps)
    OBVIOUS
  <2> QED BY <2>1, <2>2, <2>3, ConcatProperties
<1>3. ASSUME NEW s \in Snaps, InsertL2Only(s)
      PROVE  todo' \in Seq(Snaps)
  BY <1>3 DEF InsertL2Only
<1>4. CASE HandOver
  BY <1>0, <1>4, HeadTailProperties DEF HandOver
<1>5. CASE Shutdown
  BY <1>0, <1>5, ResidentsAre DEF Shutdown
<1>6. ASSUME \/ HandOverRaises \/ ShutdownFinish \/ Crash
      PROVE  todo' = <<>>
  BY <1>6 DEF HandOverRaises, ShutdownFinish, Crash, GoDown
<1>7. ASSUME \/ Clear \/ Start \/ WriteJob \/ UNCHANGED vars
             \/ \E q \in Requests : LookupMemory(q)
             \/ \E f \in disk : LoseFile(f)
      PROVE  UNCHANGED todo
  BY <1>7 DEF Clear, Start, WriteJob, LookupMemory, LoseFile, vars
<1> QED BY <1>0, <1>1, <1>2, <1>3, <1>4, <1>5, <1>6, <1>7 DEF Next

\* The files and the writer's queue.
LEMMA DiskTyped ==
    ASSUME SInv, [Next]_vars
    PROVE  /\ disk' \subseteq Snaps
           /\ \A f, g \in disk' : FileName(f) = FileName(g) => f = g
           /\ jobs' \in Seq([snap : Snaps, live : BOOLEAN])
           /\ Len(jobs') <= MaxInFlight
<1>0. /\ disk \subseteq Snaps
      /\ \A f, g \in disk : FileName(f) = FileName(g) => f = g
      /\ jobs \in Seq([snap : Snaps, live : BOOLEAN])
      /\ Len(jobs) <= MaxInFlight
      /\ MaxInFlight \in Nat
  BY StoreAssumption DEF SInv
<1>1. CASE HandOver
  <2>1. disk' = disk /\ todo # <<>>
    BY <1>1 DEF HandOver
  <2>2. \/ jobs' = jobs
        \/ /\ ~ (Len(jobs) >= MaxInFlight)
           /\ jobs' = Append(jobs, [snap |-> Head(todo), live |-> TRUE])
    BY <1>1 DEF HandOver
  <2>3. Len(jobs) \in Nat
    BY <1>0
  <2>4. CASE jobs' = jobs
    BY <1>0, <2>1, <2>4
  <2>5. CASE jobs' = Append(jobs, [snap |-> Head(todo), live |-> TRUE])
             /\ Len(jobs) < MaxInFlight
    BY <1>0, <2>1, <2>5, JobTyped
  <2> QED BY <1>0, <2>2, <2>3, <2>4, <2>5
<1>2. CASE Clear
  <2>1. jobs' \in Seq([snap : Snaps, live : BOOLEAN]) /\ Len(jobs') = Len(jobs)
    <3>1. DOMAIN jobs = 1..Len(jobs) /\ Len(jobs) \in Nat
          /\ \A k \in 1..Len(jobs) : jobs[k] \in [snap : Snaps, live : BOOLEAN]
      BY <1>0, LenProperties, ElementOfSeq
    <3>2. \A k \in 1..Len(jobs) :
             [jobs[k] EXCEPT !.live = FALSE] \in [snap : Snaps, live : BOOLEAN]
      BY <3>1
    <3>3. jobs' = [k \in 1..Len(jobs) |-> [jobs[k] EXCEPT !.live = FALSE]]
      BY <1>2, <3>1 DEF Clear
    <3>4. jobs' \in [1..Len(jobs) -> [snap : Snaps, live : BOOLEAN]]
      BY <3>2, <3>3
    <3>5. jobs' \in Seq([snap : Snaps, live : BOOLEAN])
      <4>1. PICK J : J = [snap : Snaps, live : BOOLEAN]
        OBVIOUS
      <4>2. jobs' \in [1..Len(jobs) -> J] /\ Len(jobs) \in Nat
        BY <3>1, <3>4, <4>1
      <4>3. jobs' \in Seq(J)
        BY <4>2, SeqDef
      <4> QED BY <4>1, <4>3
    <3>6. DOMAIN jobs' = 1..Len(jobs)
      BY <3>4
    <3>7. Len(jobs') = Len(jobs)
      BY <3>1, <3>5, <3>6, LenProperties
    <3> QED BY <3>5, <3>7
  <2>2. disk' = {}
    BY <1>2 DEF Clear
  <2> QED BY <1>0, <2>1, <2>2
<1>3. CASE WriteJob
  BY <1>3, WriterHolds
<1>4. ASSUME \/ ShutdownFinish \/ Crash
      PROVE  disk' = disk /\ jobs' = <<>>
  BY <1>4 DEF ShutdownFinish, Crash, GoDown
<1>5. ASSUME NEW f, LoseFile(f)
      PROVE  disk' \subseteq disk /\ jobs' = jobs
  BY <1>5 DEF LoseFile
<1>6. ASSUME \/ HandOverRaises \/ Shutdown \/ Start \/ UNCHANGED vars
             \/ \E q \in Requests : LookupMemory(q) \/ LookupDisk(q)
             \/ \E s \in Snaps : Insert(s) \/ InsertL2Only(s)
      PROVE  disk' = disk /\ jobs' = jobs
  BY <1>6 DEF HandOverRaises, Shutdown, Start, LookupMemory, LookupDisk, Insert, InsertL2Only,
              vars
<1>7. <<>> \in Seq([snap : Snaps, live : BOOLEAN]) /\ Len(<<>>) <= MaxInFlight
  BY <1>0
<1> QED BY <1>0, <1>1, <1>2, <1>3, <1>4, <1>5, <1>6, <1>7 DEF Next

LEMMA InvariantInit == Init => SInv
<1> SUFFICES ASSUME Init
             PROVE  SInv
  OBVIOUS
<1>1. MemoryInv /\ disk = {} /\ jobs = <<>> /\ todo = <<>> /\ up = "up"
  BY MemoryStarts DEF Init
<1> QED BY <1>1, StoreAssumption DEF SInv

LEMMA InvariantNext == SInv /\ [Next]_vars => SInv'
<1> SUFFICES ASSUME SInv, [Next]_vars
             PROVE  SInv'
  OBVIOUS
<1>1. up' \in {"up", "closing", "retired", "down"}
  BY DEF SInv, Next, vars, LookupMemory, LookupDisk, Insert, InsertL2Only, HandOver,
         HandOverRaises, Clear, Shutdown, ShutdownFinish, GoDown, Start, Crash, WriteJob,
         LoseFile
<1> QED BY <1>1, MemoryNext, HandedTyped, DiskTyped DEF SInv, FileName, CoversPrefix, Covers

THEOREM InvariantHolds == Spec => []SInv
BY InvariantInit, InvariantNext, PTL DEF Spec

(* ------------------------- nothing lost between tiers -------------------- *)

LEMMA Typed == SInv => TypeOK
<1> SUFFICES ASSUME SInv
             PROVE  TypeOK
  OBVIOUS
<1>1. L1!TypeOK
  <2>1. Tier!EntriesAccountedFor
    BY Tier!Accounted, SameAssumptions DEF SInv, MemoryInv
  <2> QED BY <2>1, SameTypes DEF Tier!EntriesAccountedFor
<1>2. /\ \A k \in DOMAIN jobs : jobs[k] \in [snap : Snaps, live : BOOLEAN]
      /\ \A k \in DOMAIN todo : todo[k] \in Snaps
  BY ElementOfSeq, LenProperties DEF SInv
<1> QED BY <1>1, <1>2 DEF SInv, TypeOK

\* An insert gives back every entry it removes.
LEMMA InsertHandsBack ==
    ASSUME MemoryInv, NEW s \in Snaps, L1!Insert(s),
           NEW i \in DOMAIN entries \ DOMAIN entries', NEW l \in GivenBack(s)
    PROVE  entries[i] \in Range(l)
<1>1. MemoryInv'
  BY MemoryHolds
<1>2. Range(l) = {out'.removed[j] : j \in DOMAIN out'.removed}
  BY <1>1, GivenBackIs
<1>3. Tier!LeavesKnowingly(i)
  <2>1. Tier!Next
    BY SameInsert DEF Tier!Next
  <2>2. ~ UNCHANGED Tier!vars
    BY DEF Tier!vars
  <2>3. Tier!IInv
    BY DEF MemoryInv
  <2>4. \A j \in Tier!Ids \ DOMAIN entries' : Tier!LeavesKnowingly(j)
    BY <2>1, <2>2, <2>3, SameAssumptions, Tier!StepLosesNothing
  <2> QED BY <2>4 DEF Tier!Ids
<1>4. out'.op = "insert" /\ out'.hit = {}
  <2>1. \E removed, skipped : out' = L1!Inserted(s, removed, skipped)
    BY Zenon DEF L1!Insert, L1!InsertTooLong, L1!InsertYield, L1!InsertAdmit
  <2> QED BY <2>1 DEF L1!Inserted
<1> QED BY <1>2, <1>3, <1>4 DEF Tier!LeavesKnowingly

\* Only a served reply leaves the memory tier by a lookup.
LEMMA LookupTakesReplies ==
    ASSUME MemoryInv, NEW q \in Requests,
           L1!LookupConsume(q) \/ L1!LookupTouch(q) \/ L1!LookupMiss(q),
           NEW i \in DOMAIN entries \ DOMAIN entries'
    PROVE  entries[i].kind = "generation" /\ out'.hit # {}
<1>1. L1!LookupConsume(q)
  BY DEF L1!LookupTouch, L1!LookupMiss
<1>2. PICK h \in L1!Served(q) : /\ h.snap # entries[h.id] \/ h.snap.kind = "generation"
                                /\ entries' = L1!Restrict(entries, L1!Ids \ {h.id})
                                /\ out' = L1!Answered(q, {h})
  BY <1>1 DEF L1!LookupConsume
<1>3. /\ h.snap = entries[h.id] \/ entries[h.id].kind = "generation"
      /\ h.id \in DOMAIN entries
  <2>1. Tier!IInv /\ h \in Tier!Served(q)
    BY SameServed DEF MemoryInv
  <2> QED BY <2>1, SameAssumptions, Tier!ServedIsReusable DEF Tier!Ids
<1>4. i = h.id
  BY <1>2 DEF L1!Restrict, L1!Ids
<1> QED BY <1>2, <1>3, <1>4 DEF L1!Answered

LEMMA EvictedStep ==
    ASSUME SInv, [Next]_vars, NEW i \in DOMAIN entries \ DOMAIN entries'
    PROVE  \/ entries[i] \in Range(todo')
           \/ entries[i].kind = "generation" /\ ret'.hit # {}
           \/ entries' = <<>> /\ out' = L1!Cleared
<1>0. MemoryInv /\ disk \subseteq Snaps /\ entries' # entries
  BY DEF SInv
<1>1. ASSUME NEW q \in Requests, LookupMemory(q)
      PROVE  entries[i].kind = "generation" /\ ret'.hit # {}
  <2>1. /\ L1!LookupConsume(q) \/ L1!LookupTouch(q) \/ L1!LookupMiss(q)
        /\ ret'.hit = {h.snap : h \in out'.hit}
    BY <1>1 DEF LookupMemory
  <2> QED BY <1>0, <2>1, LookupTakesReplies
<1>2. ASSUME NEW q \in Requests, LookupDisk(q)
      PROVE  entries[i] \in Range(todo')
  <2>1. PICK f \in DiskBest(q) : UNCHANGED memory \/ (L1!Insert(f) /\ todo' \in GivenBack(f))
    BY <1>2 DEF LookupDisk, Promote
  <2>2. f \in Snaps
    BY <1>0 DEF DiskBest
  <2>3. L1!Insert(f) /\ todo' \in GivenBack(f)
    BY <1>0, <2>1 DEF memory
  <2> QED BY <1>0, <2>2, <2>3, InsertHandsBack
<1>3. ASSUME NEW s \in Snaps, Insert(s)
      PROVE  entries[i] \in Range(todo')
  <2>1. PICK displaced \in GivenBack(s) : \/ todo' = <<s>> \o displaced
                                          \/ todo' = <<>> \o displaced
    BY <1>3 DEF Insert
  <2>2. L1!Insert(s)
    BY <1>3 DEF Insert
  <2>3. entries[i] \in Range(displaced)
    BY <1>0, <2>2, InsertHandsBack
  <2>4. displaced \in Seq(Snaps)
    BY <1>0, <2>2, MemoryHolds, GivenBackIs
  <2>5. <<s>> \in Seq(Snaps) /\ <<>> \in Seq(Snaps)
    OBVIOUS
  <2>6. PICK k \in 1..Len(displaced) : entries[i] = displaced[k]
    BY <2>3, <2>4, LenProperties DEF Range
  <2>7. ASSUME NEW head \in Seq(Snaps), todo' = head \o displaced
        PROVE  entries[i] \in Range(todo')
    <3>1. /\ todo' \in Seq(Snaps) /\ Len(todo') = Len(head) + Len(displaced)
          /\ todo'[Len(head) + k] = displaced[k]
      BY <2>4, <2>7, ConcatProperties
    <3>2. Len(head) + k \in DOMAIN todo'
      BY <2>4, <3>1, LenProperties
    <3> QED BY <2>6, <3>1, <3>2 DEF Range
  <2> QED BY <2>1, <2>5, <2>7
<1>4. CASE Clear
  BY <1>4 DEF Clear, L1!Clear
<1>5. ASSUME ShutdownFinish \/ Crash
      PROVE  entries' = <<>> /\ out' = L1!Cleared
  BY <1>5 DEF ShutdownFinish, Crash, GoDown
<1>6. ASSUME \/ HandOver \/ HandOverRaises \/ Shutdown \/ Start \/ WriteJob
             \/ UNCHANGED vars
             \/ \E s \in Snaps : InsertL2Only(s)
             \/ \E f \in disk : LoseFile(f)
      PROVE  FALSE
  BY <1>0, <1>6 DEF HandOver, HandOverRaises, Shutdown, Start, WriteJob, InsertL2Only,
                    LoseFile, memory, vars
<1> QED BY <1>1, <1>2, <1>3, <1>4, <1>5, <1>6 DEF Next

\* Two snapshots of one name serve the same requests.
LEMMA SameNameServes ==
    ASSUME NEW s \in Snaps, NEW f \in Snaps, FileName(f) = FileName(s),
           NEW q \in Requests, Reusable(s, q)
    PROVE  f.tokens = s.tokens /\ Reusable(f, q)
<1>1. f.key = s.key /\ f.kind = s.kind /\ f.tokens = s.tokens
  BY DEF FileName
<1>2. CoversPrefix(f, Len(f.tokens)) = CoversPrefix(s, Len(s.tokens))
  BY DEF FileName
<1>3. CoversPrefix(s, Len(s.tokens)) => CoversPrefix(f, Len(f.tokens))
  BY <1>2 DEF CoversPrefix, Covers
<1>4. f.kind = "prefill" => f.logits
  BY StoreAssumption
<1> QED BY <1>1, <1>3, <1>4 DEF Reusable

LEMMA SkippedStep ==
    ASSUME SInv, NEW q \in Requests, todo # <<>>, OnDisk(Head(todo)), Reusable(Head(todo), q)
    PROVE  \E f \in disk : f.tokens = Head(todo).tokens /\ Reusable(f, q)
<1>1. Head(todo) \in Snaps /\ disk \subseteq Snaps
  BY HeadTailProperties DEF SInv
<1>2. PICK f \in disk : FileName(f) = FileName(Head(todo))
  BY DEF OnDisk
<1> QED BY <1>1, <1>2, SameNameServes

\* Whatever a tier gives up is handed on, and nothing that could not be written
\* is missed (cache/store.py _write_snapshots_to_l2): the files' names stay
\* apart, the writer's queue keeps its bound, what leaves memory is handed over
\* by the operation that removes it, and a skipped snapshot has a stand-in.
THEOREM NothingLostBetweenTiersAlways == Spec => NothingLostBetweenTiers
<1>1. SInv /\ [Next]_vars =>
         [\A i \in DOMAIN entries \ DOMAIN entries' :
             \/ entries[i] \in Range(todo')
             \/ entries[i].kind = "generation" /\ ret'.hit # {}
             \/ entries' = <<>> /\ out' = L1!Cleared]_vars
  BY EvictedStep
<1>2. SInv => \A q \in Requests :
                 /\ todo # <<>> /\ todo' = Tail(todo) /\ jobs' = jobs
                 /\ OnDisk(Head(todo))
                 /\ Reusable(Head(todo), q)
                 => \E f \in disk : f.tokens = Head(todo).tokens /\ Reusable(f, q)
  BY SkippedStep
<1> QED
  BY <1>1, <1>2, InvariantHolds, Typed, PTL
  DEF Spec, NothingLostBetweenTiers, EvictedIsHandedOver, SkippedIsCovered

(* --------------------------- the better of two --------------------------- *)

\* What the peek measures is the length of what the lookup would answer.
LEMMA MatchedIs ==
    ASSUME MemoryInv, NEW q \in Requests
    PROVE  /\ MatchedLen(q) \in Nat
           /\ \A h \in L1!Served(q) : MatchedLen(q) = Len(h.snap.tokens)
           /\ \A h, k \in L1!Served(q) : h = k
           /\ L1!Served(q) = {} => MatchedLen(q) = 0
<1>0. Tier!IInv
  BY DEF MemoryInv
<1>1. \A h, k \in L1!Served(q) : h = k
  <2>1. \A h \in L1!Served(q) : h \in Tier!Found(q)
    BY SameServed DEF Tier!Served
  <2> QED BY <1>0, <2>1, SameAssumptions, Tier!OneIsFound
<1>2. ASSUME NEW h \in L1!Served(q)
      PROVE  Len(h.snap.tokens) \in Nat
  <2>1. h \in Tier!Served(q)
    BY SameServed
  <2>2. /\ h.id \in Tier!Ids
        /\ \/ h.snap = entries[h.id]
           \/ entries[h.id].side > 0 /\ h.snap = Tier!Slice(entries[h.id])
    BY <1>0, <2>1, SameAssumptions, Tier!ServedIsReusable
  <2>3. Len(entries[h.id].tokens) \in Nat /\ entries[h.id].side \in Nat
    BY <1>0, <2>2, SameAssumptions, Tier!EntryIsSnapshot DEF Tier!IInv
  <2>4. entries[h.id].side > 0 =>
           Len(Tier!Slice(entries[h.id]).tokens) = entries[h.id].side
    BY <1>0, <2>2, SameAssumptions, Tier!SliceLength
  <2> QED BY <2>2, <2>3, <2>4
<1>3. CASE L1!Served(q) = {}
  BY <1>3 DEF MatchedLen
<1>4. CASE L1!Served(q) # {}
  <2>1. PICK h \in L1!Served(q) : h = (CHOOSE k \in L1!Served(q) : TRUE)
    BY <1>4
  <2>2. MatchedLen(q) = Len(h.snap.tokens)
    BY <1>4, <2>1 DEF MatchedLen
  <2> QED BY <1>1, <1>2, <1>4, <2>2
<1> QED BY <1>1, <1>3, <1>4

\* How long a file may be that q can use.
LEMMA FileLength ==
    ASSUME disk \subseteq Snaps, NEW q \in Requests, NEW f \in disk, Reusable(f, q)
    PROVE  Len(f.tokens) \in 1..Len(q.tokens) /\ Len(q.tokens) \in Nat
<1>1. f.tokens \in Seq(Tokens) /\ f.tokens # <<>>
  BY SameAssumptions DEF Tier!L1Assumption, Tier!WellFormed, Tier!Snapshot
<1>2. q.tokens \in Seq(Tokens)
  BY SameAssumptions DEF Tier!L1Assumption, Tier!Request
<1>3. Len(f.tokens) <= Len(q.tokens)
  BY DEF Reusable, IsPrefix
<1> QED BY <1>1, <1>2, <1>3, LenProperties, EmptySeq

\* When some file is longer than what memory has, a best one is found.
LEMMA BestIsFound ==
    ASSUME SInv, NEW q \in Requests, NEW f \in disk, Reusable(f, q),
           Len(f.tokens) > MatchedLen(q)
    PROVE  DiskBest(q) # {}
<1>0. disk \subseteq Snaps /\ MemoryInv /\ Len(q.tokens) \in Nat /\ MatchedLen(q) \in Nat
  BY FileLength, MatchedIs DEF SInv
<1> DEFINE Fit == {g \in disk : Reusable(g, q)}
           T == {Len(g.tokens) : g \in Fit}
<1>1. T \in SUBSET (0..Len(q.tokens)) /\ T # {}
  <2>1. \A g \in Fit : Len(g.tokens) \in 0..Len(q.tokens)
    BY <1>0, FileLength
  <2> QED BY <2>1
<1>2. PICK n \in T : \A m \in T : m <= n
  <2> HIDE DEF T
  <2> QED BY <1>0, <1>1, SameAssumptions, Tier!NatMax
<1> DEFINE Longest == {g \in Fit : Len(g.tokens) = n}
<1>3. PICK g \in Longest : g.kind = "prefill" \/ \A k \in Longest : k.kind # "prefill"
  BY <1>2
<1>4. n > MatchedLen(q)
  <2>1. Len(f.tokens) \in T
    OBVIOUS
  <2>2. Len(f.tokens) <= n /\ Len(f.tokens) \in Nat /\ n \in Nat
    BY <1>1, <1>2, <2>1
  <2> QED BY <1>0, <2>2
<1>5. ASSUME NEW k \in disk, Reusable(k, q)
      PROVE  \/ Len(k.tokens) < Len(g.tokens)
             \/ /\ Len(k.tokens) = Len(g.tokens)
                /\ g.kind = "prefill" \/ k.kind # "prefill"
  <2>1. k \in Fit /\ Len(k.tokens) \in T
    BY <1>5
  <2>2. Len(k.tokens) <= n /\ Len(k.tokens) \in Nat /\ n \in Nat
    BY <1>1, <1>2, <2>1
  <2>3. CASE Len(k.tokens) = n
    BY <1>3, <2>1, <2>3
  <2>4. CASE Len(k.tokens) < n
    BY <1>3, <2>4
  <2> QED BY <2>2, <2>3, <2>4
<1> QED BY <1>3, <1>4, <1>5 DEF DiskBest

\* What the memory tier answers when it is asked for good.
LEMMA MemoryAnswers ==
    ASSUME NEW q, L1!LookupConsume(q) \/ L1!LookupTouch(q) \/ L1!LookupMiss(q)
    PROVE  \/ L1!Served(q) = {} /\ out'.hit = {}
           \/ \E h \in L1!Served(q) : out'.hit = {h}
<1>1. \/ L1!Served(q) = {} /\ out' = L1!Answered(q, {})
      \/ \E h \in L1!Served(q) : out' = L1!Answered(q, {h})
  BY Zenon DEF L1!LookupConsume, L1!LookupTouch, L1!LookupMiss
<1> QED BY <1>1 DEF L1!Answered

LEMMA BestStep ==
    ASSUME SInv, Next, NEW q \in ret'.q,
           NEW h \in {a.snap : a \in L1!Served(q)} \cup {f \in disk : Reusable(f, q)}
    PROVE  \E a \in ret'.hit : Len(a.tokens) >= Len(h.tokens)
<1>0. MemoryInv /\ disk \subseteq Snaps
  BY DEF SInv
<1>1. ASSUME NEW r \in Requests, LookupMemory(r)
      PROVE  \E a \in ret'.hit : Len(a.tokens) >= Len(h.tokens)
  <2>1. q = r /\ q \in Requests
    BY <1>1 DEF LookupMemory
  <2>2. /\ ret'.hit = {g.snap : g \in out'.hit}
        /\ L1!LookupConsume(q) \/ L1!LookupTouch(q) \/ L1!LookupMiss(q)
        /\ DiskBest(q) = {}
    BY <1>1, <2>1 DEF LookupMemory
  <2>3. /\ MatchedLen(q) \in Nat
        /\ \A g \in L1!Served(q) : MatchedLen(q) = Len(g.snap.tokens)
        /\ L1!Served(q) = {} => MatchedLen(q) = 0
    BY <1>0, <2>1, MatchedIs
  <2>4. Len(h.tokens) <= MatchedLen(q) /\ Len(h.tokens) \in Nat
        /\ (L1!Served(q) = {} => Len(h.tokens) > 0)
    <3>1. CASE h \in disk /\ Reusable(h, q)
      <4>1. Len(h.tokens) \in 1..Len(q.tokens) /\ Len(q.tokens) \in Nat
        BY <1>0, <2>1, <3>1, FileLength
      <4>2. ~ (Len(h.tokens) > MatchedLen(q))
        BY <2>1, <2>2, <3>1, BestIsFound
      <4> QED BY <2>3, <4>1, <4>2
    <3>2. CASE \E g \in L1!Served(q) : h = g.snap
      BY <2>3, <3>2
    <3> QED BY <3>1, <3>2
  <2>5. PICK g \in L1!Served(q) : out'.hit = {g}
    BY <2>2, <2>3, <2>4, MemoryAnswers
  <2>6. g.snap \in ret'.hit /\ Len(g.snap.tokens) = MatchedLen(q)
    BY <2>2, <2>3, <2>5
  <2> QED BY <2>3, <2>4, <2>6
<1>2. ASSUME NEW r \in Requests, LookupDisk(r)
      PROVE  \E a \in ret'.hit : Len(a.tokens) >= Len(h.tokens)
  <2>1. q = r /\ q \in Requests
    BY <1>2 DEF LookupDisk
  <2>2. PICK f \in DiskBest(q) : ret'.hit = {f}
    BY <1>2, <2>1 DEF LookupDisk
  <2>3. /\ f \in disk /\ Reusable(f, q) /\ Len(f.tokens) > MatchedLen(q)
        /\ \A g \in disk : Reusable(g, q) => \/ Len(g.tokens) < Len(f.tokens)
                                             \/ Len(g.tokens) = Len(f.tokens)
    BY <2>2 DEF DiskBest
  <2>4. Len(f.tokens) \in Nat /\ Len(q.tokens) \in Nat
    BY <1>0, <2>1, <2>3, FileLength
  <2>5. CASE h \in disk /\ Reusable(h, q)
    BY <1>0, <2>1, <2>2, <2>3, <2>4, <2>5, FileLength
  <2>6. CASE \E g \in L1!Served(q) : h = g.snap
    BY <1>0, <2>1, <2>2, <2>3, <2>4, <2>6, MatchedIs
  <2> QED BY <2>5, <2>6
<1>3. ASSUME \/ \E s \in Snaps : Insert(s) \/ InsertL2Only(s)
             \/ HandOver \/ HandOverRaises \/ Clear \/ Shutdown \/ ShutdownFinish \/ Start
             \/ Crash \/ WriteJob
             \/ \E f \in disk : LoseFile(f)
      PROVE  ret'.q = {}
  <2>1. ret' = NoAnswer \/ \E s : ret' = Given(s)
    BY <1>3, Zenon DEF Insert, InsertL2Only, HandOver, HandOverRaises, Clear, Shutdown,
       ShutdownFinish, Start, Crash, GoDown, WriteJob, LoseFile
  <2> QED BY <2>1 DEF Given, NoAnswer
<1> QED BY <1>1, <1>2, <1>3 DEF Next

\* Neither tier hides the other (cache/store.py lookup): what is answered is as
\* long as what the memory tier serves and as long as any file q could use.
THEOREM BestOfBothTiersAlways == Spec => BestOfBothTiers
<1>1. SInv /\ [Next]_vars =>
         [\A q \in ret'.q : \A h \in {a.snap : a \in L1!Served(q)}
                                     \cup {f \in disk : Reusable(f, q)} :
             \E a \in ret'.hit : Len(a.tokens) >= Len(h.tokens)]_vars
  BY BestStep
<1> QED BY <1>1, InvariantHolds, PTL DEF Spec, BestOfBothTiers

(* ------------------------------ the refinement --------------------------- *)

LEMMA HeldIs ==
    \A x : x \in Held <=> \/ \E i \in DOMAIN entries : x = entries[i]
                          \/ x \in disk
                          \/ x \in Range(todo)
                          \/ \E k \in DOMAIN jobs : jobs[k].live /\ x = jobs[k].snap
BY DEF Held

\* An insert stores and gives back what was resident, or what it was given.
LEMMA InsertKeeps ==
    ASSUME MemoryInv, NEW s \in Snaps, L1!Insert(s)
    PROVE  /\ \A i \in DOMAIN entries' :
                 entries'[i] = s \/ \E k \in DOMAIN entries : entries'[i] = entries[k]
           /\ \A l \in GivenBack(s) : \A x \in Range(l) :
                 x = s \/ \E k \in DOMAIN entries : x = entries[k]
<1>1. /\ \A i \in DOMAIN entries' :
            entries'[i] = s \/ \E k \in DOMAIN entries : entries'[i] = entries[k]
      /\ \A i \in DOMAIN out'.removed :
            out'.removed[i] = s \/ \E k \in DOMAIN entries : out'.removed[i] = entries[k]
  <2>1. CASE L1!InsertTooLong(s)
    BY <2>1 DEF L1!InsertTooLong, L1!Inserted
  <2>2. CASE L1!InsertYield(s)
    BY <2>2 DEF L1!InsertYield, L1!Inserted
  <2>3. CASE L1!InsertAdmit(s)
    <3>1. PICK E \in SUBSET DOMAIN L1!Stored(s) :
             /\ entries' = L1!Restrict(L1!Stored(s), DOMAIN L1!Stored(s) \ E)
             /\ out' = L1!Inserted(s, [i \in L1!Pruned(s) \cup E |-> L1!SnapshotAt(i, s)],
                                   FALSE)
      BY <2>3 DEF L1!InsertAdmit
    <3>2. /\ DOMAIN L1!Stored(s) \subseteq DOMAIN entries \cup {nextId}
          /\ \A i \in DOMAIN L1!Stored(s) : L1!Stored(s)[i] = L1!SnapshotAt(i, s)
          /\ L1!Pruned(s) \subseteq DOMAIN entries
      BY DEF L1!Stored, L1!Pruned, L1!Ids
    <3>3. \A i \in DOMAIN entries \cup {nextId} :
             \/ L1!SnapshotAt(i, s) = s
             \/ i \in DOMAIN entries /\ L1!SnapshotAt(i, s) = entries[i]
      BY DEF L1!SnapshotAt
    <3>4. \A i \in DOMAIN entries' :
             i \in DOMAIN L1!Stored(s) /\ entries'[i] = L1!SnapshotAt(i, s)
      BY <3>1, <3>2 DEF L1!Restrict
    <3>5. \A i \in DOMAIN out'.removed :
             /\ i \in DOMAIN entries \cup {nextId}
             /\ out'.removed[i] = L1!SnapshotAt(i, s)
      BY <3>1, <3>2 DEF L1!Inserted
    <3> QED BY <3>2, <3>3, <3>4, <3>5
  <2> QED BY <2>1, <2>2, <2>3 DEF L1!Insert
<1>2. ASSUME NEW l \in GivenBack(s), NEW x \in Range(l)
      PROVE  x = s \/ \E k \in DOMAIN entries : x = entries[k]
  <2>1. x \in {out'.removed[i] : i \in DOMAIN out'.removed}
    BY <1>2, MemoryHolds, GivenBackIs
  <2> QED BY <1>1, <2>1
<1> QED BY <1>1, <1>2

LEMMA SameOffers ==
    /\ \A s : Promise!Slice(s) = Tier!Slice(s)
    /\ \A h, q : Promise!Reusable(h, q) <=> Tier!Reusable(h, q)
<1>1. \A s : Promise!Slice(s) = Tier!Slice(s)
  BY Zenon DEF Promise!Slice, Tier!Slice
<1>2. \A h, q : Promise!Reusable(h, q) <=> Tier!Reusable(h, q)
  BY DEF Promise!Reusable, Tier!Reusable, Promise!CoversPrefix, Tier!CoversPrefix,
         Promise!Covers, Tier!Covers, Promise!IsPrefix, Tier!IsPrefix
<1> QED BY <1>1, <1>2

LEMMA SameReusable == \A h, q : Promise!Reusable(h, q) <=> Reusable(h, q)
BY DEF Promise!Reusable, Reusable, Promise!CoversPrefix, CoversPrefix, Promise!Covers, Covers,
       Promise!IsPrefix, IsPrefix

\* What the engine is handed over both tiers, step by step.
LEMMA LookupMemoryRefines ==
    ASSUME SInv, NEW q \in Requests, LookupMemory(q)
    PROVE  Promise!Lookup(q)
<1>0. Tier!IInv
  BY DEF SInv, MemoryInv
<1>1. /\ L1!LookupConsume(q) \/ L1!LookupTouch(q) \/ L1!LookupMiss(q)
      /\ ret' = [put |-> {}, q |-> {q}, hit |-> {h.snap : h \in out'.hit}]
      /\ UNCHANGED <<disk, jobs, todo>>
  BY DEF LookupMemory
<1>2. \A i \in DOMAIN entries' : i \in DOMAIN entries /\ entries'[i] = entries[i]
  BY <1>1 DEF L1!LookupConsume, L1!LookupTouch, L1!LookupMiss, L1!Restrict, L1!Ids
<1>3. Held' \subseteq Held
  BY <1>1, <1>2, HeldIs DEF Held
<1>4. CASE out'.hit = {}
  BY <1>1, <1>3, <1>4 DEF Promise!Lookup
<1>5. CASE \E h \in L1!Served(q) : out'.hit = {h}
  <2>1. PICK h \in L1!Served(q) : out'.hit = {h}
    BY <1>5
  <2>2. /\ h.id \in DOMAIN entries
        /\ \/ h.snap = entries[h.id]
           \/ entries[h.id].side > 0 /\ h.snap = Tier!Slice(entries[h.id])
        /\ Tier!Reusable(h.snap, q)
    <3>1. h \in Tier!Served(q)
      BY SameServed
    <3> QED BY <1>0, <3>1, SameAssumptions, Tier!ServedIsReusable DEF Tier!Ids
  <2>3. /\ \A s : Promise!Slice(s) = Tier!Slice(s)
        /\ \A a, r : Promise!Reusable(a, r) <=> Tier!Reusable(a, r)
    BY SameOffers
  <2>4. entries[h.id] \in Held
    BY <2>2, HeldIs
  <2>5. h.snap \in Promise!Offers(Held, q)
    BY <2>2, <2>3, <2>4 DEF Promise!Offers
  <2>6. ret' = [put |-> {}, q |-> {q}, hit |-> {h.snap}]
    BY <1>1, <2>1
  <2> QED BY <1>3, <2>5, <2>6 DEF Promise!Lookup
<1> QED BY <1>1, <1>4, <1>5, MemoryAnswers

LEMMA LookupDiskRefines ==
    ASSUME SInv, NEW q \in Requests, LookupDisk(q)
    PROVE  Promise!Lookup(q)
<1>1. PICK f \in DiskBest(q) :
         /\ UNCHANGED <<memory, todo>> \/ (L1!Insert(f) /\ todo' \in GivenBack(f))
         /\ ret' = [put |-> {}, q |-> {q}, hit |-> {f}]
  BY DEF LookupDisk, Promote
<1>2. f \in disk /\ f \in Snaps /\ Reusable(f, q) /\ f \in Held /\ MemoryInv
  BY HeldIs DEF DiskBest, SInv
<1>3. disk' = disk /\ jobs' = jobs
  BY DEF LookupDisk
<1>4. Held' \subseteq Held
  <2>1. CASE UNCHANGED <<memory, todo>>
    BY <1>3, <2>1 DEF Held, memory
  <2>2. CASE L1!Insert(f) /\ todo' \in GivenBack(f)
    <3>1. /\ \A i \in DOMAIN entries' :
                entries'[i] = f \/ \E k \in DOMAIN entries : entries'[i] = entries[k]
          /\ \A x \in Range(todo') : x = f \/ \E k \in DOMAIN entries : x = entries[k]
      BY <1>2, <2>2, InsertKeeps
    <3>2. \A x \in Held' : \/ \E i \in DOMAIN entries' : x = entries'[i]
                           \/ x \in disk'
                           \/ x \in Range(todo')
                           \/ \E k \in DOMAIN jobs' : jobs'[k].live /\ x = jobs'[k].snap
      BY DEF Held
    <3> QED BY <1>2, <1>3, <3>1, <3>2, HeldIs
  <2> QED BY <1>1, <2>1, <2>2
<1>5. f \in Promise!Offers(Held, q)
  BY <1>2, SameOffers, SameReusable DEF Promise!Offers
<1> QED BY <1>1, <1>4, <1>5 DEF Promise!Lookup

LEMMA InsertRefines ==
    ASSUME SInv, NEW s \in Snaps, Insert(s)
    PROVE  Promise!Publish(s)
<1>1. PICK displaced \in GivenBack(s) : \/ todo' = <<s>> \o displaced
                                        \/ todo' = <<>> \o displaced
  BY DEF Insert
<1>2. /\ L1!Insert(s) /\ disk' = disk /\ jobs' = jobs
      /\ ret' = [put |-> {s}, q |-> {}, hit |-> {}]
  BY DEF Insert, Given
<1>3. MemoryInv /\ displaced \in Seq(Snaps)
  BY <1>1, <1>2, MemoryHolds, GivenBackIs DEF SInv
<1>4. \A x \in Range(todo') : x = s \/ \E k \in DOMAIN entries : x = entries[k]
  <2>1. \A x \in Range(displaced) : x = s \/ \E k \in DOMAIN entries : x = entries[k]
    BY <1>1, <1>2, <1>3, InsertKeeps
  <2>2. <<s>> \in Seq(Snaps) /\ <<>> \in Seq(Snaps)
        /\ Range(<<s>>) = {s} /\ Range(<<>>) = {}
    BY DEF Range
  <2>3. ASSUME NEW head \in Seq(Snaps), todo' = head \o displaced, Range(head) \subseteq {s},
               NEW x \in Range(todo')
        PROVE  x = s \/ x \in Range(displaced)
    <3>1. /\ todo' \in Seq(Snaps) /\ Len(todo') = Len(head) + Len(displaced)
          /\ \A i \in 1..Len(todo') :
                todo'[i] = IF i <= Len(head) THEN head[i] ELSE displaced[i - Len(head)]
      BY <1>3, <2>3, ConcatProperties
    <3>2. /\ DOMAIN todo' = 1..Len(todo') /\ DOMAIN head = 1..Len(head)
          /\ DOMAIN displaced = 1..Len(displaced)
          /\ Len(head) \in Nat /\ Len(displaced) \in Nat
      BY <1>3, <3>1, LenProperties
    <3>3. PICK i \in 1..Len(todo') : x = todo'[i]
      BY <2>3, <3>2 DEF Range
    <3>4. CASE i <= Len(head)
      <4>1. x = head[i] /\ i \in DOMAIN head
        BY <3>1, <3>2, <3>3, <3>4
      <4> QED BY <2>3, <4>1 DEF Range
    <3>5. CASE ~ (i <= Len(head))
      <4>1. x = displaced[i - Len(head)] /\ i - Len(head) \in DOMAIN displaced
        BY <3>1, <3>2, <3>3, <3>5
      <4> QED BY <4>1 DEF Range
    <3> QED BY <3>4, <3>5
  <2> QED BY <1>1, <2>1, <2>2, <2>3
<1>5. \A i \in DOMAIN entries' :
         entries'[i] = s \/ \E k \in DOMAIN entries : entries'[i] = entries[k]
  BY <1>2, <1>3, InsertKeeps
<1>6. Held' \subseteq Held \cup {s}
  <2>1. \A x \in Held' : \/ \E i \in DOMAIN entries' : x = entries'[i]
                         \/ x \in disk'
                         \/ x \in Range(todo')
                         \/ \E k \in DOMAIN jobs' : jobs'[k].live /\ x = jobs'[k].snap
    BY DEF Held
  <2> QED BY <1>2, <1>4, <1>5, <2>1, HeldIs
<1> QED BY <1>2, <1>6 DEF Promise!Publish

\* What the store still has once it is down: the files.
LEMMA DownHeld == GoDown => Held' = disk
<1> SUFFICES ASSUME GoDown
             PROVE  Held' = disk
  OBVIOUS
<1>1. DOMAIN entries' = {} /\ disk' = disk /\ DOMAIN todo' = {} /\ DOMAIN jobs' = {}
  BY DEF GoDown
<1>2. \A x : x \in Held' <=> \/ \E i \in DOMAIN entries' : x = entries'[i]
                             \/ x \in disk'
                             \/ \E k \in DOMAIN todo' : x = todo'[k]
                             \/ \E k \in DOMAIN jobs' : jobs'[k].live /\ x = jobs'[k].snap
  BY DEF Held, Range
<1> QED BY <1>1, <1>2

\* What a sequence has, its head, its tail and what is appended to it.
LEMMA RangeParts ==
    ASSUME NEW S, NEW seq \in Seq(S)
    PROVE  /\ \A k \in DOMAIN seq : seq[k] \in Range(seq)
           /\ seq # <<>> => Head(seq) \in Range(seq)
           /\ seq # <<>> => \A k \in DOMAIN Tail(seq) :
                               k + 1 \in DOMAIN seq /\ Tail(seq)[k] = seq[k + 1]
           /\ \A e \in S : \A k \in DOMAIN Append(seq, e) :
                 \/ k \in DOMAIN seq /\ Append(seq, e)[k] = seq[k]
                 \/ Append(seq, e)[k] = e
<1>1. DOMAIN seq = 1..Len(seq) /\ Len(seq) \in Nat
  BY LenProperties
<1>2. seq # <<>> => /\ Len(seq) > 0
                    /\ Tail(seq) \in Seq(S) /\ Len(Tail(seq)) = Len(seq) - 1
                    /\ \A k \in 1..Len(Tail(seq)) : Tail(seq)[k] = seq[k + 1]
                    /\ Head(seq) = seq[1]
  BY <1>1, HeadTailProperties, EmptySeq
<1>3. seq # <<>> => \A k \in DOMAIN Tail(seq) :
                       k + 1 \in DOMAIN seq /\ Tail(seq)[k] = seq[k + 1]
  BY <1>1, <1>2, LenProperties
<1>4. \A e \in S : \A k \in DOMAIN Append(seq, e) :
         \/ k \in DOMAIN seq /\ Append(seq, e)[k] = seq[k]
         \/ Append(seq, e)[k] = e
  BY <1>1, AppendProperties, LenProperties
<1>5. seq # <<>> => Head(seq) \in Range(seq)
  BY <1>1, <1>2 DEF Range
<1> QED BY <1>3, <1>4, <1>5 DEF Range

\* Everything else only forgets.
LEMMA ForgetRefines ==
    ASSUME SInv,
           \/ HandOver \/ HandOverRaises \/ Clear \/ Shutdown \/ ShutdownFinish \/ Start
           \/ Crash \/ WriteJob
           \/ \E f \in disk : LoseFile(f)
    PROVE  Promise!Forget
<1> DEFINE J == [snap : Snaps, live : BOOLEAN]
<1>0. todo \in Seq(Snaps) /\ jobs \in Seq(J) /\ MemoryInv
  BY DEF SInv
<1> HIDE DEF J
<1>1. ret' = NoAnswer
  BY Zenon DEF HandOver, HandOverRaises, Clear, Shutdown, ShutdownFinish, Start, Crash, GoDown,
               WriteJob, LoseFile
<1>2. \A x \in Held' : \/ \E i \in DOMAIN entries' : x = entries'[i]
                       \/ x \in disk'
                       \/ x \in Range(todo')
                       \/ \E k \in DOMAIN jobs' : jobs'[k].live /\ x = jobs'[k].snap
  BY DEF Held
<1>3. Held' \subseteq Held
  <2>1. CASE HandOver
    <3>1. entries' = entries /\ disk' = disk /\ todo # <<>> /\ todo' = Tail(todo)
          /\ \/ jobs' = jobs
             \/ jobs' = Append(jobs, [snap |-> Head(todo), live |-> TRUE])
      BY <2>1 DEF HandOver, memory
    <3>2. Head(todo) \in Range(todo) /\ \A x \in Range(todo') : x \in Range(todo)
      BY <1>0, <3>1, RangeParts DEF Range
    <3>3. [snap |-> Head(todo), live |-> TRUE] \in J
      BY <1>0, <3>1, HeadTailProperties DEF J
    <3>4. \A k \in DOMAIN jobs' : \/ k \in DOMAIN jobs /\ jobs'[k] = jobs[k]
                                  \/ jobs'[k].snap = Head(todo)
      <4>1. PICK e \in J : e = [snap |-> Head(todo), live |-> TRUE]
        BY <3>3
      <4>2. e.snap = Head(todo)
        BY <4>1
      <4>3. jobs' = jobs \/ jobs' = Append(jobs, e)
        BY <3>1, <4>1
      <4> QED BY <1>0, <4>2, <4>3, RangeParts
    <3> QED BY <1>2, <3>1, <3>2, <3>4, HeldIs
  <2>2. CASE HandOverRaises
    <3>1. entries' = entries /\ disk' = disk /\ jobs' = jobs /\ Range(todo') = {}
      BY <2>2 DEF HandOverRaises, memory, Range
    <3> QED BY <1>2, <3>1, HeldIs
  <2>3. CASE Clear
    <3>1. DOMAIN entries' = {} /\ disk' = {} /\ Range(todo') = {}
      BY <2>3 DEF Clear, L1!Clear, Ready, Range
    <3>2. \A k \in DOMAIN jobs' : ~ jobs'[k].live
      <4>1. \A k \in DOMAIN jobs : jobs[k] \in [snap : Snaps, live : BOOLEAN]
        BY <1>0, ElementOfSeq, LenProperties DEF J
      <4> QED BY <2>3, <4>1 DEF Clear
    <3> QED BY <1>2, <3>1, <3>2
  <2>4. CASE Shutdown
    <3>1. entries' = entries /\ disk' = disk /\ jobs' = jobs /\ todo' \in Residents
      BY <2>4 DEF Shutdown, memory
    <3>2. \A x \in Range(todo') : \E i \in DOMAIN entries : x = entries[i]
      BY <1>0, <3>1, ResidentsAre
    <3> QED BY <1>2, <3>1, <3>2, HeldIs
  <2>5. CASE ShutdownFinish \/ Crash
    BY <2>5, DownHeld, HeldIs DEF ShutdownFinish, Crash
  <2>6. CASE Start
    BY <2>6 DEF Start, memory, Held
  <2>7. CASE WriteJob
    <3>1. entries' = entries /\ todo' = todo /\ jobs # <<>> /\ jobs' = Tail(jobs)
          /\ \/ disk' = disk
             \/ Head(jobs).live /\ disk' = disk \cup {Head(jobs).snap}
      BY <2>7 DEF WriteJob, memory
    <3>2. PICK k \in DOMAIN jobs : Head(jobs) = jobs[k]
      BY <1>0, <3>1, RangeParts DEF Range
    <3>3. \A j \in DOMAIN jobs' : \E i \in DOMAIN jobs : jobs'[j] = jobs[i]
      BY <1>0, <3>1, RangeParts
    <3> QED BY <1>2, <3>1, <3>2, <3>3, HeldIs
  <2>8. CASE \E f \in disk : LoseFile(f)
    <3>1. entries' = entries /\ todo' = todo /\ jobs' = jobs /\ disk' \subseteq disk
      BY <2>8 DEF LoseFile, memory
    <3> QED BY <1>2, <3>1, HeldIs
  <2> QED BY <2>1, <2>2, <2>3, <2>4, <2>5, <2>6, <2>7, <2>8
<1> QED BY <1>1, <1>3 DEF Promise!Forget, Promise!NoAnswer, NoAnswer

LEMMA FrontierRefines ==
    ASSUME NEW s \in Snaps, InsertL2Only(s)
    PROVE  Promise!Publish(s)
<1>1. /\ entries' = entries /\ disk' = disk /\ jobs' = jobs /\ Range(todo') = {s}
      /\ ret' = [put |-> {s}, q |-> {}, hit |-> {}]
  BY DEF InsertL2Only, memory, Given, Range
<1>2. \A x \in Held' : \/ \E i \in DOMAIN entries' : x = entries'[i]
                       \/ x \in disk'
                       \/ x \in Range(todo')
                       \/ \E k \in DOMAIN jobs' : jobs'[k].live /\ x = jobs'[k].snap
  BY DEF Held
<1>3. Held' \subseteq Held \cup {s}
  BY <1>1, <1>2, HeldIs
<1> QED BY <1>1, <1>3 DEF Promise!Publish

LEMMA Refines == SInv /\ [Next]_vars => [Promise!Next]_(Promise!vars)
<1> SUFFICES ASSUME SInv, [Next]_vars
             PROVE  [Promise!Next]_(Promise!vars)
  OBVIOUS
<1>1. CASE UNCHANGED vars
  BY <1>1 DEF vars, memory, Promise!vars, Held
<1>2. CASE Next
  BY <1>2, LookupMemoryRefines, LookupDiskRefines, InsertRefines, FrontierRefines, ForgetRefines
     DEF Next, Promise!Next
<1> QED BY <1>1, <1>2

\* The two tiers together keep the abstract cache's promise, over restarts,
\* crashes, failed writes and lost files (cache/store.py, cache/manager.py): a
\* request is given only a state it may start from, and nothing comes back
\* after clear() or a loss took it away.
THEOREM ImplementsSnapshotCacheAlways == Spec => ImplementsSnapshotCache
<1>1. Init => Promise!Init
  <2> SUFFICES ASSUME Init
               PROVE  Promise!Init
    OBVIOUS
  <2>1. DOMAIN entries = {} /\ disk = {} /\ Range(todo) = {} /\ DOMAIN jobs = {}
    BY DEF Init, L1!Init, Range
  <2>2. Held = {}
    BY <2>1, HeldIs
  <2> QED BY <2>2 DEF Init, NoAnswer, Promise!Init, Promise!NoAnswer
<1> QED BY <1>1, InvariantHolds, Refines, PTL DEF Spec, ImplementsSnapshotCache, Promise!Spec
================================================================================
