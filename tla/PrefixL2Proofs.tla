----------------------------- MODULE PrefixL2Proofs -----------------------------
(***************************************************************************)
(* What holds of the disk tier for every number of instances and slots,    *)
(* every set of files and every budget, and what of the count of bytes     *)
(* holds when one instance has the directory to itself.                    *)
(***************************************************************************)
EXTENDS MCPrefixL2, TLAPS, FiniteSetTheorems, SequenceTheorems, WellFoundedInduction

(* ----------------------------- the invariants --------------------------- *)

\* The jobs in a queue that holds None at its end at most.
Waiting(q) == IF q # <<>> /\ q[Len(q)] = NoJob THEN Len(q) - 1 ELSE Len(q)

Hands(m) == IF m.writer \in Busy THEN 1 ELSE 0

\* Jobs, and None at the end at most.
Orderly(q) ==
    \A k \in DOMAIN q : q[k].name \in Names \/ (q[k] = NoJob /\ k = Len(q))

NoneQueued(q) == \A k \in DOMAIN q : q[k] # NoJob

\* Of one object: its slots are where its jobs are; None is the last thing in
\* the queue, put there by shutdown and taken by a writer that then ends; a call
\* in progress keeps the object open.
Sound(m) ==
    /\ m \in Object
    /\ Orderly(m.queue)
    /\ m.slots + Waiting(m.queue) + Hands(m) = MaxInFlight
    /\ IF m.writer \in Busy THEN m.job.name \in Names ELSE m.job = NoJob
    /\ NoneQueued(m.queue) \/ (m.life \in {"joining", "closed"} /\ m.writer # "done")
    /\ m.writer = "done" => m.queue = <<>> /\ m.life \in {"joining", "closed"}
    /\ m.call # "idle" => m.life = "open"
    /\ m.call \in {"enqueue", "unlink"} => m.arg \in Names
    /\ m.life = "off" => m = Blank
    /\ m.writer \in {"unlink", "subtract"} => m.files # <<>>

Injective(files) ==
    \A j, k \in DOMAIN files : files[j].name = files[k].name => j = k

DiskOK == disk \in Seq(File) /\ Injective(disk)

IInv ==
    /\ DiskOK
    /\ dirLock \in Instances \cup {None}
    /\ mem \in [Instances -> Object]
    /\ \A i \in Instances : Sound(mem[i])

\* One object has the directory to itself, and no file is found unreadable and
\* no rmtree fails: beside the writer nothing else then removes single files.
Alone ==
    /\ \A i, j \in Instances : i = j
    /\ "spoil" \notin Faults /\ "rmtree" \notin Faults

\* The bytes of a set of files.
Total(S) == MapThenSumSet(LAMBDA n : Size[n], S)

\* What the count owes a directory that holds the files S, at each place of the
\* writer.
Counts(m, S) ==
    /\ m.call \in {"idle", "enqueue"}
    /\ m.life \in {"open", "joining"} => m.tracked >= Total(S)
    /\ m.writer = "observe" => m.observed >= Total(S)
    /\ m.writer = "subtract" /\ m.life \in {"open", "joining"} =>
          S = {} \/ m.tracked >= Total(S) + Size[Head(m.files).name]
    /\ m.writer \in {"observe", "scan", "unlink"} => S \subseteq NamesOf(m.files) \cup m.refused
    /\ m.writer = "subtract" => S \subseteq NamesOf(Tail(m.files)) \cup m.refused

CInv ==
    /\ \A k \in DOMAIN disk : ~ disk[k].bad
    /\ \A i \in Instances : dirLock = i <=> mem[i].life \in {"open", "joining"}
    /\ \A i \in Instances : Counts(mem[i], NamesOf(disk))

\* A writer at work has the lock, as long as shutdown waits for it.
OInv ==
    \A i \in Instances :
       /\ mem[i].writer # "none" /\ mem[i].life \in {"open", "joining"} => dirLock = i
       /\ ~ Ended(i) => mem[i].life \in {"open", "joining"}
       /\ mem[i].call = "unlink" => dirLock = i

(* ------------------------------- the bytes ------------------------------ *)
(* A sum over a set is a recursive function on its subsets.  What it yields *)
(* is shown by a least counterexample: that < is well founded on Nat is a   *)
(* theorem about sets, where the induction rules take a predicate that the  *)
(* provers cannot instantiate.                                              *)

\* The least-number principle.
LEMMA NatMin ==
    ASSUME NEW T \in SUBSET Nat, T # {}
    PROVE  \E x \in T : \A y \in T : x <= y
<1> DEFINE R == {ss \in Nat \X Nat : ss[1] < ss[2]}
<1>1. IsWellFoundedOn(R, Nat)
  BY NatLessThanWellFounded DEF OpToRel
<1>2. PICK x \in T : \A y \in T : ~ (<<y, x>> \in R)
  BY <1>1, WFMin
<1>3. ASSUME NEW y \in T PROVE x <= y
  <2>1. <<y, x>> \notin R
    BY <1>2
  <2>2. x \in Nat /\ y \in Nat
    OBVIOUS
  <2>3. <<y, x>> \in Nat \X Nat /\ <<y, x>>[1] = y /\ <<y, x>>[2] = x
    BY <2>2
  <2>4. ~ (y < x)
    BY <2>1, <2>3
  <2> QED BY <2>2, <2>4
<1> QED BY <1>3

\* A family of finite sets of which each member comes with its index.
Units(w, S) == UNION {{i} \X (1..w[i]) : i \in S}

\* The numbers from 1 to n.
LEMMA UpToCount ==
    ASSUME NEW n \in Nat
    PROVE  IsFiniteSet(1..n) /\ Cardinality(1..n) = n
<1>1. IsFiniteSet(1..n) /\ Cardinality(1..n) = IF 1 > n THEN 0 ELSE n - 1 + 1
  BY FS_Interval
<1> QED
  BY <1>1

LEMMA UnitsFinite ==
    ASSUME NEW S, IsFiniteSet(S), NEW w, \A i \in S : w[i] \in Nat
    PROVE  IsFiniteSet(Units(w, S))
<1> DEFINE g == [i \in S |-> {i} \X (1..w[i])]
           T == {{i} \X (1..w[i]) : i \in S}
<1>1. g \in Surjection(S, T)
  BY DEF Surjection
<1>2. IsFiniteSet(T)
  BY <1>1, FS_Surjection
<1>3. \A i \in S : IsFiniteSet({i} \X (1..w[i]))
  <2> SUFFICES ASSUME NEW i \in S
               PROVE  IsFiniteSet({i} \X (1..w[i]))
    OBVIOUS
  <2>1. IsFiniteSet({i})
    BY FS_Singleton
  <2>2. IsFiniteSet(1..w[i])
    BY UpToCount
  <2> QED BY <2>1, <2>2, FS_Product
<1> QED BY <1>2, <1>3, FS_UNION DEF Units

LEMMA UnitsStep ==
    ASSUME NEW S, IsFiniteSet(S), NEW w, \A i \in S : w[i] \in Nat, NEW c \in S
    PROVE  Cardinality(Units(w, S)) = w[c] + Cardinality(Units(w, S \ {c}))
<1> DEFINE A == {c} \X (1..w[c])
           B == Units(w, S \ {c})
<1>1. Units(w, S) = A \cup B
  BY DEF Units
<1>2. A \cap B = {}
  BY DEF Units
<1>3. IsFiniteSet(A) /\ Cardinality(A) = w[c]
  <2>1. IsFiniteSet({c}) /\ Cardinality({c}) = 1
    BY FS_Singleton
  <2>2. w[c] \in Nat
    OBVIOUS
  <2>3. IsFiniteSet(1..w[c]) /\ Cardinality(1..w[c]) = w[c]
    BY <2>2, UpToCount
  <2>4. IsFiniteSet(A) /\ Cardinality(A) = 1 * w[c]
    BY <2>1, <2>3, FS_Product
  <2> QED BY <2>2, <2>4
<1>4. IsFiniteSet(B) /\ Cardinality(B) \in Nat
  <2>1. IsFiniteSet(S \ {c})
    BY FS_Subset
  <2> QED BY <2>1, UnitsFinite, FS_CardinalityType
<1>5. Cardinality({}) = 0
  BY FS_EmptySet
<1>7. Units(w, S \ {c}) = B /\ w[c] \in Nat
  OBVIOUS
<1> HIDE DEF A, B
<1>6. Cardinality(A \cup B) = Cardinality(A) + Cardinality(B) - Cardinality(A \cap B)
  BY <1>3, <1>4, FS_Union
<1>8. Cardinality(A \cap B) = 0
  BY <1>2, <1>5
<1>9. Cardinality(A \cup B) = w[c] + Cardinality(B)
  BY <1>3, <1>4, <1>6, <1>7, <1>8
<1> QED BY <1>1, <1>7, <1>9

\* What MapThenSumSet computes: as many as there are units.
LEMMA TotalIsUnits ==
    ASSUME NEW D, IsFiniteSet(D), D \subseteq Names
    PROVE  Total(D) = Cardinality(Units(Size, D))
<1> DEFINE w == Size
           c(s) == CHOOSE x \in s : TRUE
           Body(g) == [s \in SUBSET D |-> IF s = {} THEN 0 ELSE Size[c(s)] + g[s \ {c(s)}]]
           Closed == [s \in SUBSET D |-> Cardinality(Units(w, s))]
<1>1. Total(D) = (CHOOSE g : g = Body(g))[D]
  BY DEF Total, MapThenSumSet, MapThenFoldSet
<1>2. \A s \in SUBSET D : s # {} => c(s) \in s
  OBVIOUS
<1>3. \A s \in SUBSET D : IsFiniteSet(s)
  BY FS_Subset
<1>4. \A i \in D : w[i] \in Nat
  BY L2Assumption
<1>5. Units(w, {}) = {}
  BY DEF Units
<1>6. \A s \in SUBSET D : s # {} =>
          Cardinality(Units(w, s)) = Size[c(s)] + Cardinality(Units(w, s \ {c(s)}))
  <2>1. \A s \in SUBSET D : s # {} => w[c(s)] = Size[c(s)]
    BY <1>2
  <2> HIDE DEF w, c
  <2> QED BY <1>2, <1>3, <1>4, <2>1, UnitsStep
<1>7. Cardinality(Units(w, {})) = 0
  BY <1>5, FS_EmptySet
<1> HIDE DEF w, c
<1>8. Closed = Body(Closed)
  <2>1. \A s \in SUBSET D : Closed[s] = IF s = {} THEN 0 ELSE Size[c(s)] + Closed[s \ {c(s)}]
    BY <1>6, <1>7
  <2> QED BY <2>1
<1>9. ASSUME NEW g, g = Body(g)
      PROVE  g = Closed
  <2> DEFINE Wrong == {s \in SUBSET D : g[s] # Closed[s]}
             Sizes == {Cardinality(s) : s \in Wrong}
  <2>1. CASE Wrong = {}
    <3>1. \A s \in SUBSET D : g[s] = Closed[s]
      BY <2>1
    <3>2. DOMAIN g = SUBSET D /\ g = [s \in SUBSET D |-> g[s]]
      BY <1>9, Zenon
    <3> QED BY <3>1, <3>2
  <2>2. CASE Wrong # {}
    <3>1. Sizes \in SUBSET Nat /\ Sizes # {}
      BY <1>3, <2>2, FS_CardinalityType
    <3>2. PICK n \in Sizes : \A m \in Sizes : n <= m
      BY <3>1, NatMin
    <3>3. PICK s \in Wrong : Cardinality(s) = n
      BY <3>2
    <3>4. g[s] = IF s = {} THEN 0 ELSE Size[c(s)] + g[s \ {c(s)}]
      BY <1>9, <3>3
    <3>5. Closed[s] = IF s = {} THEN 0 ELSE Size[c(s)] + Closed[s \ {c(s)}]
      BY <1>8, <3>3
    <3>6. s # {}
      BY <3>3, <3>4, <3>5
    <3>7. s \ {c(s)} \in SUBSET D /\ Cardinality(s \ {c(s)}) = n - 1
      BY <1>2, <1>3, <3>3, <3>6, FS_RemoveElement
    <3>8. s \ {c(s)} \notin Wrong
      <4>1. n \in Nat
        BY <3>1
      <4>2. s \ {c(s)} \in Wrong => n <= n - 1
        BY <3>2, <3>7
      <4> QED BY <4>1, <4>2
    <3> QED BY <3>3, <3>4, <3>5, <3>7, <3>8
  <2> QED BY <2>1, <2>2
<1>10. (CHOOSE g : g = Body(g)) = Closed
  <2> HIDE DEF Closed, Body
  <2>1. \E g : g = Body(g)
    BY <1>8
  <2> QED BY <1>9, <2>1
<1> QED BY <1>1, <1>10 DEF w


LEMMA TotalNat ==
    ASSUME NEW S, IsFiniteSet(S), S \subseteq Names
    PROVE  Total(S) \in Nat
<1>1. \A n \in S : Size[n] \in Nat
  BY L2Assumption
<1> QED BY <1>1, TotalIsUnits, UnitsFinite, FS_CardinalityType

LEMMA TotalRemove ==
    ASSUME NEW S, IsFiniteSet(S), S \subseteq Names, NEW n \in S
    PROVE  Total(S) = Size[n] + Total(S \ {n}) /\ Size[n] \in Nat
<1>1. \A k \in S : Size[k] \in Nat
  BY L2Assumption
<1>2. IsFiniteSet(S \ {n})
  BY FS_Subset
<1>3. Cardinality(Units(Size, S)) = Size[n] + Cardinality(Units(Size, S \ {n}))
  BY <1>1, UnitsStep
<1>4. Total(S) = Cardinality(Units(Size, S))
  BY TotalIsUnits
<1>5. Total(S \ {n}) = Cardinality(Units(Size, S \ {n}))
  BY <1>2, TotalIsUnits
<1> QED BY <1>1, <1>3, <1>4, <1>5

LEMMA TotalAdd ==
    ASSUME NEW S, IsFiniteSet(S), S \subseteq Names, NEW n \in Names
    PROVE  Total(S \cup {n}) <= Total(S) + Size[n] /\ Total(S \cup {n}) \in Nat
<1>1. Size[n] \in Nat /\ Total(S) \in Nat
  BY L2Assumption, TotalNat
<1>2. CASE n \in S
  <2>1. S \cup {n} = S
    BY <1>2
  <2> QED BY <1>1, <2>1
<1>3. CASE n \notin S
  <2>1. IsFiniteSet(S \cup {n}) /\ S \cup {n} \subseteq Names
    BY FS_AddElement
  <2>2. Total(S \cup {n}) = Size[n] + Total((S \cup {n}) \ {n})
    BY <2>1, TotalRemove
  <2>3. (S \cup {n}) \ {n} = S
    BY <1>3
  <2>4. Total(S \cup {n}) = Size[n] + Total(S)
    BY <2>2, <2>3
  <2> QED BY <1>1, <2>4
<1> QED BY <1>2, <1>3

LEMMA TotalEmpty == Total({}) = 0
<1>1. Units(Size, {}) = {}
  BY DEF Units
<1>2. Total({}) = Cardinality(Units(Size, {}))
  BY TotalIsUnits, FS_EmptySet
<1> QED BY <1>1, <1>2, FS_EmptySet

(* ----------------------------- the directory ---------------------------- *)

LEMMA NamesFinite ==
    ASSUME NEW files \in Seq(File)
    PROVE  IsFiniteSet(NamesOf(files)) /\ NamesOf(files) \subseteq Names
<1>1. DOMAIN files = 1..Len(files) /\ Len(files) \in Nat
  BY LenProperties
<1>2. IsFiniteSet(DOMAIN files)
  BY <1>1, FS_Interval
<1>3. IsFiniteSet({files[k].name : k \in DOMAIN files})
  <2> DEFINE g == [k \in DOMAIN files |-> files[k].name]
             T == {files[k].name : k \in DOMAIN files}
  <2>1. g \in Surjection(DOMAIN files, T)
    BY DEF Surjection
  <2> HIDE DEF g, T
  <2>2. IsFiniteSet(T)
    BY <1>2, <2>1, FS_Surjection
  <2> QED BY <2>2 DEF T
<1>4. \A k \in DOMAIN files : files[k] \in File
  BY ElementOfSeq, <1>1
<1> QED BY <1>3, <1>4 DEF NamesOf, File

LEMMA BytesNat ==
    ASSUME NEW files \in Seq(File)
    PROVE  BytesOf(files) \in Nat /\ BytesOf(files) = Total(NamesOf(files))
BY NamesFinite, TotalNat DEF BytesOf, Total

LEMMA NoBytes == NamesOf(<<>>) = {} /\ BytesOf(<<>>) = 0
<1>1. NamesOf(<<>>) = {}
  BY DEF NamesOf
<1> QED BY <1>1, TotalEmpty DEF BytesOf, Total

LEMMA RemovedIsOneLess ==
    ASSUME DiskOK, NEW n
    PROVE  /\ Removed(n) \in Seq(File) /\ Injective(Removed(n))
           /\ NamesOf(Removed(n)) = NamesOf(disk) \ {n}
           /\ \A k \in DOMAIN Removed(n) : \E j \in DOMAIN disk : Removed(n)[k] = disk[j]
<1>0. /\ disk \in Seq(File) /\ Len(disk) \in Nat /\ DOMAIN disk = 1..Len(disk)
      /\ \A k \in 1..Len(disk) : disk[k] \in File
  BY LenProperties, ElementOfSeq DEF DiskOK
<1>1. CASE ~ OnDisk(n)
  BY <1>0, <1>1 DEF Removed, OnDisk, DiskOK
<1>2. CASE OnDisk(n)
  <2> DEFINE c == CHOOSE k \in DOMAIN disk : disk[k].name = n
             len == Len(disk)
             d == Removed(n)
             From(k) == IF k < c THEN k ELSE k + 1
  <2>1. c \in 1..len /\ disk[c].name = n
    BY <1>0, <1>2 DEF OnDisk, NamesOf
  <2>2. d = SubSeq(disk, 1, c - 1) \o SubSeq(disk, c + 1, len)
    BY <1>2 DEF Removed, RemoveAt
  <2> HIDE DEF c, d
  <2> DEFINE front == SubSeq(disk, 1, c - 1)
             back == SubSeq(disk, c + 1, len)
  <2>3. /\ front \in Seq(File) /\ Len(front) = c - 1
        /\ \A k \in 1..(c - 1) : front[k] = disk[k]
    BY <1>0, <2>1, SubSeqProperties
  <2>4. /\ back \in Seq(File) /\ Len(back) = len - c
        /\ \A k \in 1..(len - c) : back[k] = disk[c + k]
    <3>1. c + 1 \in Nat /\ len - c \in Nat
      BY <1>0, <2>1
    <3>2. back \in Seq(File)
      BY <1>0, <2>1
    <3>3. Len(back) = len - c
      <4>1. Len(back) = IF c + 1 <= len THEN len - (c + 1) + 1 ELSE 0
        <5>1. \A k \in (c + 1)..len : disk[k] \in File
          BY <1>0, <2>1
        <5>2. c + 1 \in Int /\ len \in Int
          BY <1>0, <2>1
        <5> HIDE DEF len
        <5> QED BY <5>1, <5>2, SubSeqProperties
      <4>2. c \in Int /\ len \in Int /\ c <= len
        BY <1>0, <2>1
      <4> HIDE DEF back, len
      <4> QED BY <4>1, <4>2
    <3>4. \A k \in 1..(len - c) : back[k] = disk[c + k]
      <4> SUFFICES ASSUME NEW k \in 1..(len - c)
                   PROVE  back[k] = disk[c + k]
        OBVIOUS
      <4>1. back[k] = disk[(c + 1) + k - 1]
        BY <1>0, <2>1, <3>1
      <4>2. (c + 1) + k - 1 = c + k
        BY <1>0, <2>1
      <4> QED BY <4>1, <4>2
    <3> QED BY <3>2, <3>3, <3>4
  <2> HIDE DEF front, back
  <2>5. d = front \o back
    BY <2>2 DEF front, back
  <2>15. /\ d \in Seq(File) /\ Len(d) = (c - 1) + (len - c)
         /\ \A k \in 1..((c - 1) + (len - c)) :
                d[k] = IF k <= c - 1 THEN front[k] ELSE back[k - (c - 1)]
    <3>1. /\ d \in Seq(File) /\ Len(d) = Len(front) + Len(back)
          /\ \A k \in 1..(Len(front) + Len(back)) :
                d[k] = IF k <= Len(front) THEN front[k] ELSE back[k - Len(front)]
      BY <2>3, <2>4, <2>5, ConcatProperties
    <3> QED BY <2>3, <2>4, <3>1
  <2>16. (c - 1) + (len - c) = len - 1
    BY <1>0, <2>1
  <2>17. d \in Seq(File) /\ Len(d) = len - 1
    BY <2>15, <2>16
  <2>6. \A k \in 1..(len - 1) : d[k] = disk[From(k)]
    <3> SUFFICES ASSUME NEW k \in 1..(len - 1)
                 PROVE  d[k] = disk[From(k)]
      OBVIOUS
    <3>0. d[k] = IF k <= c - 1 THEN front[k] ELSE back[k - (c - 1)]
      BY <2>15, <2>16
    <3>1. CASE k < c
      <4>1. k <= c - 1 /\ k \in 1..(c - 1)
        BY <1>0, <2>1, <3>1
      <4> QED BY <2>3, <3>0, <3>1, <4>1
    <3>2. CASE ~ (k < c)
      <4>1. /\ k - (c - 1) \in 1..(len - c) /\ c + (k - (c - 1)) = k + 1
            /\ ~ (k <= c - 1)
        BY <1>0, <2>1, <3>2
      <4>2. d[k] = disk[c + (k - (c - 1))]
        BY <2>4, <3>0, <4>1
      <4> QED BY <3>2, <4>1, <4>2
    <3> QED BY <3>1, <3>2
  <2>7. DOMAIN d = 1..(len - 1)
    BY <1>0, <2>17, LenProperties
  <2>8. \A k \in 1..(len - 1) : From(k) \in 1..len /\ From(k) # c
    BY <1>0, <2>1
  <2>9. \A j, k \in 1..(len - 1) : From(j) = From(k) => j = k
    BY <1>0, <2>1
  <2>10. \A j \in 1..len : j # c => \E k \in 1..(len - 1) : From(k) = j
    <3> SUFFICES ASSUME NEW j \in 1..len, j # c
                 PROVE  \E k \in 1..(len - 1) : From(k) = j
      OBVIOUS
    <3>1. CASE j < c
      BY <1>0, <2>1, <3>1
    <3>2. CASE j > c
      <4>1. j - 1 \in 1..(len - 1) /\ From(j - 1) = j
        BY <1>0, <2>1, <3>2
      <4> QED BY <4>1
    <3> QED BY <1>0, <2>1, <3>1, <3>2
  <2> HIDE DEF From
  <2>11. \A j, k \in 1..len : disk[j].name = disk[k].name => j = k
    BY <1>0 DEF DiskOK, Injective
  <2>12. Injective(d)
    BY <2>6, <2>7, <2>8, <2>9, <2>11 DEF Injective
  <2>13. \A k \in DOMAIN d : \E j \in DOMAIN disk : d[k] = disk[j]
    BY <1>0, <2>6, <2>7, <2>8
  <2>14. NamesOf(d) = NamesOf(disk) \ {n}
    <3>1. ASSUME NEW x \in NamesOf(d) PROVE x \in NamesOf(disk) \ {n}
      <4>1. PICK k \in 1..(len - 1) : x = disk[From(k)].name
        BY <2>6, <2>7 DEF NamesOf
      <4>2. From(k) \in 1..len /\ From(k) # c
        BY <2>8
      <4>3. x # n
        BY <2>1, <2>11, <4>1, <4>2
      <4> QED BY <1>0, <4>1, <4>2, <4>3 DEF NamesOf
    <3>2. ASSUME NEW x \in NamesOf(disk), x # n PROVE x \in NamesOf(d)
      <4>1. PICK j \in 1..len : x = disk[j].name
        BY <1>0 DEF NamesOf
      <4>2. j # c
        BY <2>1, <3>2, <4>1
      <4>3. PICK k \in 1..(len - 1) : From(k) = j
        BY <2>10, <4>2
      <4> QED BY <2>6, <2>7, <4>1, <4>3 DEF NamesOf
    <3> QED BY <3>1, <3>2
  <2> QED BY <2>12, <2>13, <2>14, <2>17 DEF d
<1> QED BY <1>1, <1>2

LEMMA NewestIsOneMore ==
    ASSUME DiskOK, NEW n \in Names
    PROVE  /\ Newest(n) \in Seq(File) /\ Injective(Newest(n))
           /\ NamesOf(Newest(n)) = NamesOf(disk) \cup {n}
           /\ (\A k \in DOMAIN disk : ~ disk[k].bad) => \A k \in DOMAIN Newest(n) : ~ Newest(n)[k].bad
<1> DEFINE r == Removed(n)
           f == [name |-> n, bad |-> FALSE]
           d == Append(r, f)
<1>1. /\ r \in Seq(File) /\ Injective(r) /\ NamesOf(r) = NamesOf(disk) \ {n}
      /\ \A k \in DOMAIN r : \E j \in DOMAIN disk : r[k] = disk[j]
  BY RemovedIsOneLess
<1>2. f \in File /\ f.name = n /\ f.bad = FALSE
  BY DEF File
<1>3. Newest(n) = d
  BY DEF Newest
<1> HIDE DEF r, f
<1>4. Len(r) \in Nat /\ DOMAIN r = 1..Len(r)
  BY <1>1, LenProperties
<1>5. /\ d \in Seq(File) /\ Len(d) = Len(r) + 1 /\ DOMAIN d = 1..(Len(r) + 1)
      /\ d[Len(r) + 1] = f /\ \A k \in 1..Len(r) : d[k] = r[k]
  BY <1>1, <1>2, <1>4, AppendProperties, LenProperties
<1> HIDE DEF d
<1>6. \A k \in 1..Len(r) : r[k].name # n
  BY <1>1, <1>4 DEF NamesOf
<1>7. Injective(d)
  <2> SUFFICES ASSUME NEW j \in 1..(Len(r) + 1), NEW k \in 1..(Len(r) + 1), d[j].name = d[k].name
               PROVE  j = k
    BY <1>5 DEF Injective
  <2>1. CASE j \in 1..Len(r) /\ k \in 1..Len(r)
    BY <1>1, <1>4, <1>5, <2>1 DEF Injective
  <2>2. CASE j = Len(r) + 1 /\ k \in 1..Len(r)
    BY <1>2, <1>5, <1>6, <2>2
  <2>3. CASE k = Len(r) + 1 /\ j \in 1..Len(r)
    BY <1>2, <1>5, <1>6, <2>3
  <2> QED BY <1>4, <2>1, <2>2, <2>3
<1>8. NamesOf(d) = NamesOf(r) \cup {n}
  <2>1. \A k \in 1..(Len(r) + 1) : k \in 1..Len(r) \/ k = Len(r) + 1
    BY <1>4
  <2>2. 1..Len(r) \subseteq 1..(Len(r) + 1) /\ Len(r) + 1 \in 1..(Len(r) + 1)
    BY <1>4
  <2> QED BY <1>2, <1>4, <1>5, <2>1, <2>2 DEF NamesOf
<1>9. NamesOf(d) = NamesOf(disk) \cup {n}
  BY <1>1, <1>8
<1>10. (\A k \in DOMAIN disk : ~ disk[k].bad) => \A k \in DOMAIN d : ~ d[k].bad
  <2>1. \A k \in 1..(Len(r) + 1) : k \in 1..Len(r) \/ k = Len(r) + 1
    BY <1>4
  <2> QED BY <1>1, <1>2, <1>4, <1>5, <2>1
<1> QED BY <1>3, <1>5, <1>7, <1>9, <1>10

LEMMA PartlyIsPart ==
    ASSUME DiskOK, NEW m \in 0..Len(disk), NEW d \in Partly(m)
    PROVE  /\ d \in Seq(File) /\ Injective(d) /\ NamesOf(d) \subseteq NamesOf(disk)
           /\ m = 0 => d = <<>>
           /\ \A k \in DOMAIN d : \E j \in DOMAIN disk : d[k] = disk[j]
<1>0. /\ disk \in Seq(File) /\ Len(disk) \in Nat /\ DOMAIN disk = 1..Len(disk)
      /\ \A k \in 1..Len(disk) : disk[k] \in File
  BY LenProperties, ElementOfSeq DEF DiskOK
<1>1. PICK at \in [1..m -> DOMAIN disk] : /\ \A p, q \in 1..m : p < q => at[p] < at[q]
                                          /\ d = [p \in 1..m |-> disk[at[p]]]
  BY DEF Partly
<1>2. m \in Nat /\ (\A p \in 1..m : at[p] \in 1..Len(disk) /\ d[p] = disk[at[p]]) /\ DOMAIN d = 1..m
  BY <1>0, <1>1
<1>3. d \in Seq(File)
  BY <1>0, <1>1, <1>2
<1>4. Injective(d)
  <2> SUFFICES ASSUME NEW j \in 1..m, NEW k \in 1..m, d[j].name = d[k].name
               PROVE  j = k
    BY <1>2 DEF Injective
  <2>1. at[j] = at[k]
    BY <1>0, <1>2 DEF DiskOK, Injective
  <2>2. j < k => at[j] < at[k]
    BY <1>1
  <2>3. k < j => at[k] < at[j]
    BY <1>1
  <2>4. at[j] \in Nat /\ at[k] \in Nat
    BY <1>0, <1>2
  <2> QED BY <1>2, <2>1, <2>2, <2>3, <2>4
<1>5. NamesOf(d) \subseteq NamesOf(disk)
  BY <1>0, <1>2 DEF NamesOf
<1>6. m = 0 => d = <<>>
  BY <1>1
<1> QED BY <1>0, <1>2, <1>3, <1>4, <1>5, <1>6

(* ------------------------------- one object ----------------------------- *)

LEMMA NoJobType == NoJob \in Job /\ NoJob.name = None /\ None \notin Names
BY L2Assumption DEF NoJob, Job

\* A job, or None, put at the end of a queue without None.
LEMMA Appended ==
    ASSUME NEW q \in Seq(Job), Orderly(q), NoneQueued(q), NEW x \in Job,
           x.name \in Names \/ x = NoJob
    PROVE  /\ Append(q, x) \in Seq(Job) /\ Orderly(Append(q, x))
           /\ x.name \in Names => /\ NoneQueued(Append(q, x))
                                  /\ Waiting(Append(q, x)) = Waiting(q) + 1
           /\ x = NoJob => Waiting(Append(q, x)) = Waiting(q)
<1> DEFINE a == Append(q, x)
<1>0. Len(q) \in Nat /\ DOMAIN q = 1..Len(q)
  BY LenProperties
<1>1. /\ a \in Seq(Job) /\ Len(a) = Len(q) + 1 /\ DOMAIN a = 1..(Len(q) + 1)
      /\ a[Len(q) + 1] = x /\ \A k \in 1..Len(q) : a[k] = q[k]
  BY <1>0, AppendProperties, LenProperties
<1> HIDE DEF a
<1>2. \A k \in 1..(Len(q) + 1) : k \in 1..Len(q) \/ k = Len(q) + 1
  BY <1>0
<1>3. \A k \in 1..Len(q) : q[k].name \in Names
  BY <1>0 DEF Orderly, NoneQueued
<1>4. Orderly(a)
  BY <1>1, <1>2, <1>3 DEF Orderly
<1>5. x.name \in Names => NoneQueued(a)
  BY <1>1, <1>2, <1>3, NoJobType DEF NoneQueued
<1>6. a # <<>> /\ a[Len(a)] = x
  BY <1>0, <1>1
<1>7. Waiting(q) = Len(q)
  <2>1. q # <<>> => Len(q) \in DOMAIN q
    BY <1>0, EmptySeq
  <2>2. ~ (q # <<>> /\ q[Len(q)] = NoJob)
    BY <2>1 DEF NoneQueued
  <2> QED BY <2>2 DEF Waiting
<1>8. x.name \in Names => Waiting(a) = Len(q) + 1
  BY <1>1, <1>6, NoJobType DEF Waiting
<1>9. x = NoJob => Waiting(a) = Len(q)
  BY <1>0, <1>1, <1>6 DEF Waiting
<1> QED BY <1>1, <1>4, <1>5, <1>7, <1>8, <1>9 DEF a

\* The head taken: a job, or the None that leaves nothing behind.
LEMMA Taken ==
    ASSUME NEW q \in Seq(Job), Orderly(q), q # <<>>
    PROVE  /\ Head(q) \in Job /\ Tail(q) \in Seq(Job) /\ Orderly(Tail(q))
           /\ NoneQueued(q) => NoneQueued(Tail(q))
           /\ Head(q) = NoJob \/ Head(q).name \in Names
           /\ Head(q) = NoJob => Tail(q) = <<>> /\ Waiting(q) = 0
           /\ Head(q) # NoJob => Waiting(q) = Waiting(Tail(q)) + 1
<1> DEFINE r == Tail(q)
           h == Head(q)
<1>0. Len(q) \in Nat \ {0} /\ DOMAIN q = 1..Len(q)
  BY LenProperties, EmptySeq
<1>1. /\ h \in Job /\ h = q[1] /\ r \in Seq(Job) /\ Len(r) = Len(q) - 1
      /\ \A k \in 1..(Len(q) - 1) : r[k] = q[k + 1]
  BY <1>0, HeadTailProperties
<1> HIDE DEF r, h
<1>2. Len(r) \in Nat /\ DOMAIN r = 1..(Len(q) - 1)
  BY <1>0, <1>1, LenProperties
<1>3. \A k \in 1..(Len(q) - 1) : k + 1 \in 1..Len(q) /\ (k + 1 = Len(q) => k = Len(r))
  <2>1. Len(r) = Len(q) - 1
    BY <1>1
  <2>2. \A n \in Nat : \A k \in 1..(n - 1) : k + 1 \in 1..n /\ (k + 1 = n => k = n - 1)
    OBVIOUS
  <2>3. Len(q) \in Nat
    BY <1>0
  <2> QED BY <2>1, <2>2, <2>3
<1>4. Orderly(r)
  BY <1>0, <1>1, <1>2, <1>3 DEF Orderly
<1>5. NoneQueued(q) => NoneQueued(r)
  BY <1>0, <1>1, <1>2, <1>3 DEF NoneQueued
<1>6. 1 \in DOMAIN q
  BY <1>0
<1>7. h = NoJob \/ h.name \in Names
  BY <1>1, <1>6 DEF Orderly
<1>8. h = NoJob => Len(q) = 1
  BY <1>1, <1>6, NoJobType DEF Orderly
<1>9. h = NoJob => r = <<>>
  BY <1>1, <1>8, EmptySeq
<1>10. h = NoJob => Waiting(q) = 0
  <2> SUFFICES ASSUME h = NoJob PROVE Waiting(q) = 0
    OBVIOUS
  <2>1. q[Len(q)] = NoJob /\ Len(q) - 1 = 0
    BY <1>1, <1>8
  <2> QED BY <2>1 DEF Waiting
<1>11. h # NoJob => Waiting(q) = Waiting(r) + 1
  <2> SUFFICES ASSUME h # NoJob PROVE Waiting(q) = Waiting(r) + 1
    OBVIOUS
  <2>1. CASE Len(q) = 1
    <3>1. r = <<>> /\ q[Len(q)] # NoJob
      BY <1>1, <2>1, EmptySeq
    <3>2. Waiting(r) = 0 /\ Waiting(q) = 1
      BY <1>1, <2>1, <3>1 DEF Waiting
    <3> QED BY <3>2
  <2>2. CASE Len(q) # 1
    <3>1. /\ r # <<>> /\ Len(r) = Len(q) - 1
          /\ r[Len(r)] = q[Len(q)]
      <4>1. Len(q) - 1 \in 1..(Len(q) - 1) /\ (Len(q) - 1) + 1 = Len(q)
        BY <1>0, <2>2
      <4> QED BY <1>1, <1>2, <4>1
    <3> QED BY <1>0, <3>1 DEF Waiting
  <2> QED BY <2>1, <2>2
<1> QED BY <1>1, <1>4, <1>5, <1>7, <1>9, <1>10, <1>11 DEF r, h

\* What a step of instance i makes of its object.
Becomes(i, m) == mem' = [mem EXCEPT ![i] = m] /\ Sound(m)

LEMMA BlankIsSound == Sound(Blank)
<1>1. Blank \in Object
  BY NoJobType, L2Assumption DEF Blank, Object, Busy
<1>2. Orderly(<<>>) /\ NoneQueued(<<>>) /\ Waiting(<<>>) = 0
  BY DEF Orderly, NoneQueued, Waiting
<1>3. /\ Blank.queue = <<>> /\ Blank.slots = MaxInFlight /\ Blank.writer = "none"
      /\ Blank.job = NoJob /\ Blank.call = "idle"
  BY DEF Blank
<1>4. Hands(Blank) = 0
  BY <1>3 DEF Hands, Busy
<1>5. MaxInFlight + 0 + 0 = MaxInFlight
  BY L2Assumption
<1> QED BY <1>1, <1>2, <1>3, <1>4, <1>5 DEF Sound, Busy

LEMMA StartStep ==
    ASSUME IInv, NEW i \in Instances, Start(i)
    PROVE  \E m : Becomes(i, m)
<1>1. PICK w \in {"get", "none"} :
          mem' = [mem EXCEPT ![i] = [Blank EXCEPT !.life = "open", !.tracked = BytesOf(disk),
                                                  !.writer = w]]
  BY DEF Start
<1> DEFINE m == [Blank EXCEPT !.life = "open", !.tracked = BytesOf(disk), !.writer = w]
<1>2. BytesOf(disk) \in Nat
  BY BytesNat DEF IInv, DiskOK
<1>3. Blank \in Object
  BY BlankIsSound DEF Sound
<1>4. m \in Object
  BY <1>2, <1>3 DEF Object, Blank, Busy
<1>5. /\ m.queue = <<>> /\ m.slots = MaxInFlight /\ m.writer = w /\ m.life = "open"
      /\ m.job = NoJob /\ m.call = "idle"
  BY <1>3 DEF Blank
<1>6. Orderly(<<>>) /\ NoneQueued(<<>>) /\ Waiting(<<>>) = 0 /\ MaxInFlight + 0 + 0 = MaxInFlight
  BY L2Assumption DEF Orderly, NoneQueued, Waiting
<1> HIDE DEF m
<1>7. Hands(m) = 0
  BY <1>5 DEF Hands, Busy
<1>8. Sound(m)
  BY <1>4, <1>5, <1>6, <1>7 DEF Sound, Busy
<1> QED BY <1>1, <1>8 DEF Becomes, m

\* A thread that did something has an object that was initialised.
LEMMA NotOff ==
    ASSUME NEW m, Sound(m), m.life = "open" \/ m.call # "idle" \/ m.writer # "none"
    PROVE  m.life # "off"
BY DEF Sound, Blank

\* A step that leaves the queue, the slots and the job in hand as they are.
LEMMA SameJobs ==
    ASSUME NEW m, Sound(m), m.life # "off", NEW n \in Object,
           n.queue = m.queue, n.slots = m.slots, n.life = m.life,
           n.writer = m.writer \/ {n.writer, m.writer} \subseteq Busy,
           n.job = m.job \/ (m.writer \in Busy /\ n.job.name = m.job.name),
           n.call # "idle" => n.life = "open",
           n.call \in {"enqueue", "unlink"} => n.arg \in Names,
           n.writer \in {"unlink", "subtract"} => n.files # <<>>
    PROVE  Sound(n)
<1>1. Hands(n) = Hands(m)
  BY DEF Hands
<1>2. IF n.writer \in Busy THEN n.job.name \in Names ELSE n.job = NoJob
  BY DEF Sound
<1>3. n.writer = "done" <=> m.writer = "done"
  BY DEF Busy
<1> QED BY <1>1, <1>2, <1>3 DEF Sound

\* The object of an instance, and its change.
LEMMA Own ==
    ASSUME IInv, NEW i \in Instances
    PROVE  Sound(mem[i]) /\ mem[i] \in Object /\ mem[i].queue \in Seq(Job)
BY DEF IInv, Sound, Object

(* ------------------------------- the caller ----------------------------- *)

LEMMA InsertCheckStep ==
    ASSUME IInv, NEW i \in Instances, NEW x \in Names, InsertCheck(i, x)
    PROVE  \E m : Becomes(i, m)
<1> DEFINE o == mem[i]
           m == [o EXCEPT !.call = "enqueue", !.arg = x]
<1>1. mem' = [mem EXCEPT ![i] = m] /\ o.life = "open"
  BY DEF InsertCheck, Idle
<1>2. Sound(o) /\ o \in Object
  BY Own
<1> HIDE DEF o
<1>3. m \in Object
  BY <1>2 DEF Object
<1>4. /\ m.queue = o.queue /\ m.slots = o.slots /\ m.life = o.life /\ m.writer = o.writer
      /\ m.job = o.job /\ m.arg = x /\ m.files = o.files
  BY <1>2 DEF Object
<1>5. o.life # "off"
  BY <1>1
<1>6. o.writer \in {"unlink", "subtract"} => o.files # <<>>
  BY <1>2 DEF Sound
<1> HIDE DEF m
<1>7. Sound(m)
  BY <1>1, <1>2, <1>3, <1>4, <1>5, <1>6, SameJobs
<1> QED BY <1>1, <1>7 DEF Becomes, m

LEMMA InsertEnqueueStep ==
    ASSUME IInv, NEW i \in Instances, InsertEnqueue(i)
    PROVE  \E m : Becomes(i, m)
<1> DEFINE o == mem[i]
           j == [name |-> o.arg, epoch |-> o.epoch, tmp |-> FALSE]
<1>0. Sound(o) /\ o \in Object /\ o.call = "enqueue"
  BY Own DEF InsertEnqueue
<1>1. o.life = "open" /\ o.arg \in Names /\ NoneQueued(o.queue) /\ o.life # "off"
  BY <1>0 DEF Sound
<1>2. j \in Job /\ j.name = o.arg
  BY <1>0, <1>1 DEF Job, Object
<1>3. CASE /\ o.slots > 0
           /\ mem' = [mem EXCEPT
                ![i].call = "idle", ![i].arg = None, ![i].slots = @ - 1,
                ![i].queue = Append(@, [name |-> mem[i].arg, epoch |-> mem[i].epoch,
                                        tmp |-> FALSE])]
  <2> DEFINE m == [o EXCEPT !.call = "idle", !.arg = None, !.slots = @ - 1,
                            !.queue = Append(@, j)]
  <2>1. mem' = [mem EXCEPT ![i] = m]
    BY <1>3
  <2> HIDE DEF o, j
  <2>2. /\ o.queue \in Seq(Job) /\ Orderly(o.queue) /\ o.slots \in 0..MaxInFlight
    BY <1>0 DEF Sound, Object
  <2>3. /\ Append(o.queue, j) \in Seq(Job) /\ Orderly(Append(o.queue, j))
        /\ NoneQueued(Append(o.queue, j))
        /\ Waiting(Append(o.queue, j)) = Waiting(o.queue) + 1
    BY <1>1, <1>2, <2>2, Appended
  <2>4. o.slots - 1 \in 0..MaxInFlight
    BY <1>3, <2>2, L2Assumption DEF o
  <2>5. m \in Object
    BY <1>0, <2>3, <2>4 DEF Object
  <2>6. /\ m.queue = Append(o.queue, j) /\ m.slots = o.slots - 1 /\ m.life = o.life
        /\ m.writer = o.writer /\ m.job = o.job /\ m.call = "idle" /\ m.files = o.files
    BY <1>0 DEF Object
  <2> HIDE DEF m
  <2>7. Hands(m) = Hands(o) /\ Hands(o) \in Int
    BY <2>6 DEF Hands
  <2>8. Waiting(o.queue) \in Int
    BY <2>2, LenProperties DEF Waiting
  <2>9. m.slots + Waiting(m.queue) + Hands(m) = MaxInFlight
    <3>1. o.slots + Waiting(o.queue) + Hands(o) = MaxInFlight
      BY <1>0 DEF Sound
    <3>2. o.slots \in Int /\ m.slots = o.slots - 1 /\ Waiting(m.queue) = Waiting(o.queue) + 1
      BY <2>2, <2>3, <2>6
    <3> QED BY <2>7, <2>8, <3>1, <3>2
  <2>10. Sound(m)
    BY <1>0, <1>1, <2>3, <2>5, <2>6, <2>9 DEF Sound
  <2> QED BY <2>1, <2>10 DEF Becomes
<1>4. CASE mem' = [mem EXCEPT ![i].call = "idle", ![i].arg = None]
  <2> DEFINE m == [o EXCEPT !.call = "idle", !.arg = None]
  <2>1. mem' = [mem EXCEPT ![i] = m]
    BY <1>4
  <2> HIDE DEF o
  <2>2. m \in Object
    BY <1>0 DEF Object
  <2>3. /\ m.queue = o.queue /\ m.slots = o.slots /\ m.life = o.life /\ m.writer = o.writer
        /\ m.job = o.job /\ m.call = "idle" /\ m.files = o.files
    BY <1>0 DEF Object
  <2>4. o.writer \in {"unlink", "subtract"} => o.files # <<>>
    BY <1>0 DEF Sound
  <2> HIDE DEF m
  <2>5. Sound(m)
    BY <1>0, <1>1, <2>2, <2>3, <2>4, SameJobs
  <2> QED BY <2>1, <2>5 DEF Becomes
<1> QED BY <1>3, <1>4 DEF InsertEnqueue

LEMMA LookupUnlinkStep ==
    ASSUME IInv, NEW i \in Instances, LookupUnlink(i)
    PROVE  \E m : Becomes(i, m)
<1> DEFINE o == mem[i]
           Called(c) == [o EXCEPT !.call = c, !.arg = None]
<1>0. Sound(o) /\ o \in Object
  BY Own
<1>8. PICK c \in {"recount", "idle"} : mem' = [mem EXCEPT ![i] = Called(c)]
  BY DEF LookupUnlink
<1> DEFINE m == Called(c)
<1>1. mem' = [mem EXCEPT ![i] = m] /\ o.call = "unlink"
  BY <1>8 DEF LookupUnlink
<1>2. o.life # "off"
  BY <1>0, <1>1, NotOff
<1>3. o.writer \in {"unlink", "subtract"} => o.files # <<>>
  BY <1>0 DEF Sound
<1>4. /\ o.call # "idle" => o.life = "open"
      /\ o.call \in {"enqueue", "unlink"} => o.arg \in Names
  BY <1>0 DEF Sound
<1> HIDE DEF o
<1>5. m \in Object
  BY <1>0, <1>1 DEF Object
<1>6. /\ m.queue = o.queue /\ m.slots = o.slots /\ m.life = o.life /\ m.job = o.job
      /\ m.writer = o.writer /\ m.files = o.files /\ m.arg = None /\ m.call \in {"idle", "recount"}
  BY <1>0 DEF Object
<1> HIDE DEF m
<1>7. Sound(m)
  BY <1>0, <1>1, <1>2, <1>3, <1>4, <1>5, <1>6, SameJobs
<1> QED BY <1>1, <1>7 DEF Becomes, m

LEMMA LookupRecountStep ==
    ASSUME IInv, NEW i \in Instances, LookupRecount(i)
    PROVE  \E m : Becomes(i, m)
<1> DEFINE o == mem[i]
           m == [o EXCEPT !.call = "idle", !.tracked = BytesOf(disk)]
<1>0. Sound(o) /\ o \in Object
  BY Own
<1>1. mem' = [mem EXCEPT ![i] = m] /\ o.call = "recount"
  BY DEF LookupRecount
<1>2. o.life # "off"
  BY <1>0, <1>1, NotOff
<1>3. o.writer \in {"unlink", "subtract"} => o.files # <<>>
  BY <1>0 DEF Sound
<1>4. /\ o.call # "idle" => o.life = "open"
      /\ o.call \in {"enqueue", "unlink"} => o.arg \in Names
  BY <1>0 DEF Sound
<1>8. BytesOf(disk) \in Nat
  BY BytesNat DEF IInv, DiskOK
<1> HIDE DEF o
<1>5. m \in Object
  BY <1>0, <1>8 DEF Object
<1>6. /\ m.queue = o.queue /\ m.slots = o.slots /\ m.life = o.life /\ m.job = o.job
      /\ m.writer = o.writer /\ m.files = o.files /\ m.call = "idle"
  BY <1>0 DEF Object
<1> HIDE DEF m
<1>7. Sound(m)
  BY <1>0, <1>1, <1>2, <1>3, <1>4, <1>5, <1>6, SameJobs
<1> QED BY <1>1, <1>7 DEF Becomes, m

LEMMA BeginRequestStep ==
    ASSUME IInv, NEW i \in Instances, BeginRequest(i)
    PROVE  \E m : Becomes(i, m)
<1> DEFINE o == mem[i]
           m == [o EXCEPT !.active = @ + 1, !.gate = FALSE]
<1>0. Sound(o) /\ o \in Object
  BY Own
<1>1. mem' = [mem EXCEPT ![i] = m] /\ o.life = "open" /\ o.active < ActiveBound
  BY DEF BeginRequest, Idle
<1>2. o.life # "off"
  BY <1>0, <1>1, NotOff
<1>3. o.writer \in {"unlink", "subtract"} => o.files # <<>>
  BY <1>0 DEF Sound
<1>4. /\ o.call # "idle" => o.life = "open"
      /\ o.call \in {"enqueue", "unlink"} => o.arg \in Names
  BY <1>0 DEF Sound
<1> HIDE DEF o
<1>8. o.active + 1 \in 0..ActiveBound
  <2>1. o.active \in 0..ActiveBound /\ o.active < ActiveBound /\ ActiveBound \in Nat
    BY <1>0, <1>1, L2Assumption DEF Object
  <2> QED BY <2>1
<1>5. m \in Object
  BY <1>0, <1>8 DEF Object
<1>6. /\ m.queue = o.queue /\ m.slots = o.slots /\ m.life = o.life /\ m.job = o.job
      /\ m.writer = o.writer /\ m.files = o.files /\ m.call = o.call /\ m.arg = o.arg
  BY <1>0 DEF Object
<1> HIDE DEF m
<1>7. Sound(m)
  BY <1>0, <1>1, <1>2, <1>3, <1>4, <1>5, <1>6, SameJobs
<1> QED BY <1>1, <1>7 DEF Becomes, m

LEMMA EndRequestStep ==
    ASSUME IInv, NEW i \in Instances, EndRequest(i)
    PROVE  \E m : Becomes(i, m)
<1> DEFINE o == mem[i]
           m == [o EXCEPT !.active = @ - 1, !.gate = @ \/ o.active = 1]
<1>0. Sound(o) /\ o \in Object
  BY Own
<1>1. mem' = [mem EXCEPT ![i] = m] /\ o.life = "open" /\ o.active > 0
  BY DEF EndRequest, Idle
<1>2. o.life # "off"
  BY <1>0, <1>1, NotOff
<1>3. o.writer \in {"unlink", "subtract"} => o.files # <<>>
  BY <1>0 DEF Sound
<1>4. /\ o.call # "idle" => o.life = "open"
      /\ o.call \in {"enqueue", "unlink"} => o.arg \in Names
  BY <1>0 DEF Sound
<1> HIDE DEF o
<1>8. o.active - 1 \in 0..ActiveBound /\ o.gate \in BOOLEAN
  <2>1. o.active \in 0..ActiveBound /\ o.active > 0 /\ ActiveBound \in Nat /\ o.gate \in BOOLEAN
    BY <1>0, <1>1, L2Assumption DEF Object
  <2> QED BY <2>1
<1>9. (o.gate \/ o.active = 1) \in BOOLEAN
  OBVIOUS
<1>5. m \in Object
  BY <1>0, <1>8, <1>9 DEF Object
<1>6. /\ m.queue = o.queue /\ m.slots = o.slots /\ m.life = o.life /\ m.job = o.job
      /\ m.writer = o.writer /\ m.files = o.files /\ m.call = o.call /\ m.arg = o.arg
  BY <1>0 DEF Object
<1> HIDE DEF m
<1>7. Sound(m)
  BY <1>0, <1>1, <1>2, <1>3, <1>4, <1>5, <1>6, SameJobs
<1> QED BY <1>1, <1>7 DEF Becomes, m

LEMMA LookupLoadStep ==
    ASSUME IInv, NEW i \in Instances, NEW k \in DOMAIN disk, LookupLoad(i, k)
    PROVE  \E m : Becomes(i, m)
<1> DEFINE o == mem[i]
<1>0. Sound(o) /\ o \in Object /\ o.life = "open" /\ o.call = "idle"
  BY Own DEF LookupLoad, Idle
<1>1. CASE UNCHANGED mem
  <2>1. mem' = [mem EXCEPT ![i] = o]
    BY <1>1 DEF IInv
  <2> QED BY <1>0, <2>1 DEF Becomes
<1>2. CASE mem' = [mem EXCEPT ![i].call = "unlink", ![i].arg = disk[k].name]
  <2> DEFINE m == [o EXCEPT !.call = "unlink", !.arg = disk[k].name]
  <2>1. mem' = [mem EXCEPT ![i] = m]
    BY <1>2
  <2>2. disk[k].name \in Names
    <3>1. disk \in Seq(File)
      BY DEF IInv, DiskOK
    <3>2. disk[k] \in File
      BY <3>1, ElementOfSeq, LenProperties
    <3> QED BY <3>2 DEF File
  <2>3. o.writer \in {"unlink", "subtract"} => o.files # <<>>
    BY <1>0 DEF Sound
  <2> HIDE DEF o
  <2>4. m \in Object
    BY <1>0, <2>2 DEF Object
  <2>5. /\ m.queue = o.queue /\ m.slots = o.slots /\ m.life = o.life /\ m.job = o.job
        /\ m.writer = o.writer /\ m.files = o.files /\ m.arg \in Names
    BY <1>0, <2>2 DEF Object
  <2> HIDE DEF m
  <2>6. Sound(m)
    BY <1>0, <2>3, <2>4, <2>5, SameJobs
  <2> QED BY <2>1, <2>6 DEF Becomes
<1> QED BY <1>1, <1>2 DEF LookupLoad

LEMMA ClearStep ==
    ASSUME IInv, NEW i \in Instances, Clear(i)
    PROVE  /\ \E m : Becomes(i, m)
           /\ disk' \in Seq(File) /\ Injective(disk') /\ NamesOf(disk') \subseteq NamesOf(disk)
<1> DEFINE o == mem[i]
           m == [o EXCEPT !.epoch = @ + 1, !.tracked = BytesOf(disk')]
<1>0. Sound(o) /\ o \in Object /\ o.life = "open" /\ o.call = "idle" /\ o.epoch < EpochBound
  BY Own DEF Clear, Idle
<1>1. PICK r \in 0..Len(disk) : disk' \in Partly(r)
  BY DEF Clear
<1>2. /\ disk' \in Seq(File) /\ Injective(disk') /\ NamesOf(disk') \subseteq NamesOf(disk)
  BY <1>1, PartlyIsPart DEF IInv
<1>3. mem' = [mem EXCEPT ![i] = m]
  BY DEF Clear
<1>4. BytesOf(disk') \in Nat
  BY <1>2, BytesNat
<1>5. o.writer \in {"unlink", "subtract"} => o.files # <<>>
  BY <1>0 DEF Sound
<1> HIDE DEF o
<1>9. o.epoch + 1 \in 0..EpochBound
  <2>1. o.epoch \in 0..EpochBound /\ o.epoch < EpochBound /\ EpochBound \in Nat
    BY <1>0, L2Assumption DEF Object
  <2> QED BY <2>1
<1>6. m \in Object
  BY <1>0, <1>4, <1>9 DEF Object
<1>7. /\ m.queue = o.queue /\ m.slots = o.slots /\ m.life = o.life /\ m.job = o.job
      /\ m.writer = o.writer /\ m.files = o.files /\ m.call = o.call
  BY <1>0 DEF Object
<1> HIDE DEF m
<1>8. Sound(m)
  BY <1>0, <1>5, <1>6, <1>7, SameJobs
<1> QED BY <1>2, <1>3, <1>8 DEF Becomes, m

LEMMA ShutdownStep ==
    ASSUME IInv, NEW i \in Instances, Shutdown(i)
    PROVE  \E m : Becomes(i, m)
<1> DEFINE o == mem[i]
           r == IF o.writer = "none" THEN o.queue ELSE Append(o.queue, NoJob)
           m == [o EXCEPT !.life = "joining", !.gate = TRUE, !.queue = r]
<1>0. Sound(o) /\ o \in Object /\ o.queue \in Seq(Job) /\ o.life = "open" /\ o.call = "idle"
  BY Own DEF Shutdown, Idle
<1>1. mem' = [mem EXCEPT ![i] = m]
  BY DEF Shutdown
<1>2. Orderly(o.queue) /\ NoneQueued(o.queue) /\ o.writer # "done"
  BY <1>0 DEF Sound
<1> HIDE DEF o
<1>3. /\ Append(o.queue, NoJob) \in Seq(Job) /\ Orderly(Append(o.queue, NoJob))
      /\ Waiting(Append(o.queue, NoJob)) = Waiting(o.queue)
  BY <1>0, <1>2, Appended, NoJobType
<1>4. r \in Seq(Job) /\ Orderly(r) /\ Waiting(r) = Waiting(o.queue)
  BY <1>0, <1>2, <1>3
<1> HIDE DEF r
<1>5. m \in Object
  BY <1>0, <1>4 DEF Object
<1>6. /\ m.queue = r /\ m.slots = o.slots /\ m.life = "joining" /\ m.job = o.job
      /\ m.writer = o.writer /\ m.files = o.files /\ m.call = "idle"
  BY <1>0 DEF Object
<1> HIDE DEF m
<1>7. m.slots + Waiting(m.queue) + Hands(m) = MaxInFlight
  BY <1>0, <1>4, <1>6 DEF Sound, Hands
<1>8. Sound(m)
  BY <1>0, <1>2, <1>4, <1>5, <1>6, <1>7 DEF Sound
<1> QED BY <1>1, <1>8 DEF Becomes, m, r

LEMMA ShutdownFinishStep ==
    ASSUME IInv, NEW i \in Instances, ShutdownFinish(i)
    PROVE  \E m : Becomes(i, m)
<1> DEFINE o == mem[i]
           m == [o EXCEPT !.life = "closed", !.stop = TRUE]
<1>0. Sound(o) /\ o \in Object /\ o.life = "joining"
  BY Own DEF ShutdownFinish
<1>1. mem' = [mem EXCEPT ![i] = m]
  BY DEF ShutdownFinish
<1> HIDE DEF o
<1>2. m \in Object
  BY <1>0 DEF Object
<1>3. /\ m.queue = o.queue /\ m.slots = o.slots /\ m.life = "closed" /\ m.job = o.job
      /\ m.writer = o.writer /\ m.files = o.files /\ m.call = o.call
  BY <1>0 DEF Object
<1> HIDE DEF m
<1>4. m.slots + Waiting(m.queue) + Hands(m) = MaxInFlight
  BY <1>0, <1>3 DEF Sound, Hands
<1>5. Sound(m)
  BY <1>0, <1>2, <1>3, <1>4 DEF Sound
<1> QED BY <1>1, <1>5 DEF Becomes, m

(* ------------------------------- the writer ----------------------------- *)

\* The writer goes on with its job.
LEMMA GoesOn ==
    ASSUME IInv, NEW i \in Instances, mem[i].writer \in Busy, NEW m \in Object,
           m.queue = mem[i].queue, m.slots = mem[i].slots, m.life = mem[i].life,
           m.call = mem[i].call, m.arg = mem[i].arg, m.job.name = mem[i].job.name,
           m.writer \in Busy, m.writer \in {"unlink", "subtract"} => m.files # <<>>,
           mem' = [mem EXCEPT ![i] = m]
    PROVE  Becomes(i, m)
<1>1. Sound(mem[i]) /\ mem[i].life # "off"
  BY Own, NotOff DEF Busy
<1>2. /\ mem[i].call # "idle" => mem[i].life = "open"
      /\ mem[i].call \in {"enqueue", "unlink"} => mem[i].arg \in Names
  BY <1>1 DEF Sound
<1> DEFINE o == mem[i]
<1> HIDE DEF o
<1>3. o = mem[i]
  BY DEF o
<1>4. Sound(m)
  BY <1>1, <1>2, SameJobs
<1> QED BY <1>4 DEF Becomes

\* ... or is done with it, for whatever reason: the slot is free again.
LEMMA JobDoneStep ==
    ASSUME IInv, NEW i \in Instances, mem[i].writer \in Busy, NEW pc \in {"get", "dead"},
           mem' = JobDone(i, pc)
    PROVE  \E m : Becomes(i, m) /\ m.writer = pc
<1> DEFINE o == mem[i]
           m == [o EXCEPT !.writer = pc, !.job = NoJob, !.slots = @ + 1,
                          !.files = <<>>, !.observed = 0, !.refused = {}]
<1>0. Sound(o) /\ o \in Object /\ o.queue \in Seq(Job) /\ o.writer \in Busy
  BY Own
<1>1. mem' = [mem EXCEPT ![i] = m]
  BY DEF JobDone
<1> HIDE DEF o
<1>2. /\ o.slots + Waiting(o.queue) + 1 = MaxInFlight /\ o.slots \in 0..MaxInFlight
      /\ o.life # "off"
  BY <1>0, NotOff DEF Sound, Hands, Busy, Object
<1>3. Waiting(o.queue) \in Nat
  <2>1. Len(o.queue) \in Nat /\ (o.queue # <<>> => Len(o.queue) > 0)
    BY <1>0, LenProperties, EmptySeq
  <2> QED BY <2>1 DEF Waiting
<1>4. o.slots + 1 \in 0..MaxInFlight /\ (o.slots + 1) + Waiting(o.queue) + 0 = MaxInFlight
  BY <1>2, <1>3, L2Assumption
<1>5. m \in Object
  <2>1. <<>> \in Seq(File) /\ NoJob \in Job
    BY NoJobType
  <2> QED BY <1>0, <1>4, <2>1 DEF Object
<1>6. /\ m.queue = o.queue /\ m.slots = o.slots + 1 /\ m.life = o.life /\ m.job = NoJob
      /\ m.writer = pc /\ m.call = o.call /\ m.arg = o.arg
  BY <1>0 DEF Object
<1> HIDE DEF m
<1>7. pc \notin Busy /\ pc # "done"
  BY DEF Busy
<1>8. Hands(m) = 0
  BY <1>6, <1>7 DEF Hands
<1>9. m.slots + Waiting(m.queue) + Hands(m) = MaxInFlight
  BY <1>4, <1>6, <1>8
<1>10. Sound(m)
  BY <1>0, <1>2, <1>5, <1>6, <1>7, <1>9 DEF Sound
<1> QED BY <1>1, <1>6, <1>10 DEF Becomes, m

LEMMA WriterGetStep ==
    ASSUME IInv, NEW i \in Instances, WriterGet(i)
    PROVE  \E m : Becomes(i, m)
<1> DEFINE o == mem[i]
           j == Head(o.queue)
           m == [o EXCEPT !.queue = Tail(@), !.job = j,
                          !.writer = IF j = NoJob THEN "done" ELSE "gate"]
<1>0. /\ Sound(o) /\ o \in Object /\ o.queue \in Seq(Job) /\ o.writer = "get"
      /\ o.queue # <<>>
  BY Own DEF WriterGet, WriterAt
<1>1. mem' = [mem EXCEPT ![i] = m]
  BY DEF WriterGet
<1> HIDE DEF o
<1>2. /\ o.slots + Waiting(o.queue) + 0 = MaxInFlight /\ o.life # "off" /\ Orderly(o.queue)
      /\ NoneQueued(o.queue) \/ o.life \in {"joining", "closed"}
  BY <1>0, NotOff DEF Sound, Hands, Busy
<1>3. /\ j \in Job /\ Tail(o.queue) \in Seq(Job) /\ Orderly(Tail(o.queue))
      /\ NoneQueued(o.queue) => NoneQueued(Tail(o.queue))
      /\ j = NoJob \/ j.name \in Names
      /\ j = NoJob => Tail(o.queue) = <<>> /\ Waiting(o.queue) = 0
      /\ j # NoJob => Waiting(o.queue) = Waiting(Tail(o.queue)) + 1
  BY <1>0, <1>2, Taken
<1>4. /\ j = NoJob => ~ NoneQueued(o.queue)
      /\ NoneQueued(<<>>) /\ Waiting(<<>>) = 0
  <2>1. j = o.queue[1] /\ 1 \in DOMAIN o.queue
    BY <1>0, HeadTailProperties, LenProperties, EmptySeq
  <2> QED BY <2>1 DEF NoneQueued, Waiting
<1> HIDE DEF j
<1>5. m \in Object
  BY <1>0, <1>3 DEF Object, Busy
<1>6. /\ m.queue = Tail(o.queue) /\ m.slots = o.slots /\ m.life = o.life /\ m.job = j
      /\ m.writer = IF j = NoJob THEN "done" ELSE "gate"
      /\ m.call = o.call /\ m.arg = o.arg
  BY <1>0 DEF Object
<1> HIDE DEF m
<1>7. CASE j = NoJob
  <2>1. m.writer = "done" /\ m.queue = <<>> /\ m.life \in {"joining", "closed"} /\ Hands(m) = 0
    BY <1>2, <1>3, <1>4, <1>6, <1>7 DEF Hands, Busy
  <2>2. m.slots + Waiting(m.queue) + Hands(m) = MaxInFlight
    BY <1>2, <1>3, <1>4, <1>6, <1>7, <2>1
  <2>3. Sound(m)
    BY <1>0, <1>2, <1>3, <1>4, <1>5, <1>6, <1>7, <2>1, <2>2 DEF Sound, Busy
  <2> QED BY <1>1, <2>3 DEF Becomes, m, j
<1>8. CASE j # NoJob
  <2>1. m.writer = "gate" /\ j.name \in Names /\ Hands(m) = 1
    BY <1>3, <1>6, <1>8 DEF Hands, Busy
  <2>2. m.slots + Waiting(m.queue) + Hands(m) = MaxInFlight
    <3>1. o.slots \in Int /\ Waiting(Tail(o.queue)) \in Int
      BY <1>0, <1>3, LenProperties DEF Object, Waiting
    <3> HIDE DEF j
    <3> QED BY <1>2, <1>3, <1>6, <1>8, <2>1, <3>1
  <2>3. NoneQueued(m.queue) \/ m.life \in {"joining", "closed"}
    BY <1>2, <1>3, <1>6
  <2>4. Sound(m)
    BY <1>0, <1>2, <1>3, <1>5, <1>6, <2>1, <2>2, <2>3 DEF Sound, Busy
  <2> QED BY <1>1, <2>4 DEF Becomes, m, j
<1> QED BY <1>7, <1>8

LEMMA WriterGateStep ==
    ASSUME IInv, NEW i \in Instances, WriterGate(i)
    PROVE  \E m : Becomes(i, m)
<1> DEFINE o == mem[i]
           m == [o EXCEPT !.writer = "check"]
<1>0. Sound(o) /\ o \in Object /\ o.writer = "gate" /\ o.writer \in Busy
  BY Own DEF WriterGate, WriterAt, Busy
<1>1. CASE mem' = [mem EXCEPT ![i] = m]
  <2>1. m \in Object
    BY <1>0 DEF Object, Busy
  <2>2. /\ m.queue = o.queue /\ m.slots = o.slots /\ m.life = o.life /\ m.call = o.call
        /\ m.arg = o.arg /\ m.job.name = o.job.name /\ m.writer \in Busy
        /\ m.writer \in {"unlink", "subtract"} => m.files # <<>>
    BY <1>0 DEF Object, Busy
  <2> HIDE DEF m
  <2>3. Becomes(i, m)
    BY <1>0, <1>1, <2>1, <2>2, GoesOn
  <2> QED BY <2>3
<1> QED BY <1>1 DEF WriterGate

LEMMA WriterCheckEpochStep ==
    ASSUME IInv, NEW i \in Instances, WriterCheckEpoch(i)
    PROVE  \E m : Becomes(i, m)
<1> DEFINE o == mem[i]
           m == [o EXCEPT !.writer = "save"]
<1>0. Sound(o) /\ o \in Object /\ o.writer = "check" /\ o.writer \in Busy
  BY Own DEF WriterCheckEpoch, WriterAt, Busy
<1>1. CASE mem' = [mem EXCEPT ![i] = m]
  <2>1. m \in Object
    BY <1>0 DEF Object, Busy
  <2>2. /\ m.queue = o.queue /\ m.slots = o.slots /\ m.life = o.life /\ m.call = o.call
        /\ m.arg = o.arg /\ m.job.name = o.job.name /\ m.writer \in Busy
        /\ m.writer \in {"unlink", "subtract"} => m.files # <<>>
    BY <1>0 DEF Object, Busy
  <2> HIDE DEF m
  <2>3. Becomes(i, m)
    BY <1>0, <1>1, <2>1, <2>2, GoesOn
  <2> QED BY <2>3
<1>2. CASE \E pc \in {"get", "dead"} : mem' = JobDone(i, pc)
  BY <1>0, <1>2, JobDoneStep
<1> QED BY <1>1, <1>2 DEF WriterCheckEpoch

LEMMA WriterSaveStep ==
    ASSUME IInv, NEW i \in Instances, WriterSave(i)
    PROVE  \E m : Becomes(i, m)
<1> DEFINE o == mem[i]
           j == [o.job EXCEPT !.tmp = ~ OnDisk(o.job.name)]
           m == [o EXCEPT !.writer = "payload", !.job = j]
<1>0. Sound(o) /\ o \in Object /\ o.writer = "save" /\ o.writer \in Busy
  BY Own DEF WriterSave, WriterAt, Busy
<1>1. CASE mem' = [mem EXCEPT ![i].writer = "payload", ![i].job.tmp = ~ OnDisk(mem[i].job.name)]
  <2>0. mem' = [mem EXCEPT ![i] = m]
    BY <1>1
  <2>1. j \in Job /\ j.name = o.job.name
    <3>1. o.job \in Job /\ (~ OnDisk(o.job.name)) \in BOOLEAN
      BY <1>0 DEF Object, OnDisk
    <3> QED BY <3>1 DEF Job
  <2> HIDE DEF j
  <2>2. m \in Object
    BY <1>0, <2>1 DEF Object, Busy
  <2>3. /\ m.queue = o.queue /\ m.slots = o.slots /\ m.life = o.life /\ m.call = o.call
        /\ m.arg = o.arg /\ m.job.name = o.job.name /\ m.writer \in Busy
        /\ m.writer \in {"unlink", "subtract"} => m.files # <<>>
    BY <1>0, <2>1 DEF Object, Busy
  <2> HIDE DEF m
  <2>4. Becomes(i, m)
    BY <1>0, <2>0, <2>2, <2>3, GoesOn
  <2> QED BY <2>4
<1>2. CASE \E pc \in {"get", "dead"} : mem' = JobDone(i, pc)
  BY <1>0, <1>2, JobDoneStep
<1> QED BY <1>1, <1>2 DEF WriterSave

LEMMA WriterPayloadStep ==
    ASSUME IInv, NEW i \in Instances, WriterPayload(i)
    PROVE  \E m : Becomes(i, m)
<1> DEFINE o == mem[i]
           m == [o EXCEPT !.writer = "exists"]
<1>0. Sound(o) /\ o \in Object /\ o.writer = "payload" /\ o.writer \in Busy
  BY Own DEF WriterPayload, WriterAt, Busy
<1>1. CASE mem' = [mem EXCEPT ![i] = m]
  <2>1. m \in Object
    BY <1>0 DEF Object, Busy
  <2>2. /\ m.queue = o.queue /\ m.slots = o.slots /\ m.life = o.life /\ m.call = o.call
        /\ m.arg = o.arg /\ m.job.name = o.job.name /\ m.writer \in Busy
        /\ m.writer \in {"unlink", "subtract"} => m.files # <<>>
    BY <1>0 DEF Object, Busy
  <2> HIDE DEF m
  <2>3. Becomes(i, m)
    BY <1>0, <1>1, <2>1, <2>2, GoesOn
  <2> QED BY <2>3
<1>2. CASE \E pc \in {"get", "dead"} : mem' = JobDone(i, pc)
  BY <1>0, <1>2, JobDoneStep
<1> QED BY <1>1, <1>2 DEF WriterPayload

LEMMA WriterExistsStep ==
    ASSUME IInv, NEW i \in Instances, WriterExists(i)
    PROVE  \E m : Becomes(i, m)
<1> DEFINE o == mem[i]
           m == [o EXCEPT !.writer = "replace"]
<1>0. Sound(o) /\ o \in Object /\ o.writer = "exists" /\ o.writer \in Busy
  BY Own DEF WriterExists, WriterAt, Busy
<1>1. CASE mem' = [mem EXCEPT ![i] = m]
  <2>1. m \in Object
    BY <1>0 DEF Object, Busy
  <2>2. /\ m.queue = o.queue /\ m.slots = o.slots /\ m.life = o.life /\ m.call = o.call
        /\ m.arg = o.arg /\ m.job.name = o.job.name /\ m.writer \in Busy
        /\ m.writer \in {"unlink", "subtract"} => m.files # <<>>
    BY <1>0 DEF Object, Busy
  <2> HIDE DEF m
  <2>3. Becomes(i, m)
    BY <1>0, <1>1, <2>1, <2>2, GoesOn
  <2> QED BY <2>3
<1>2. CASE \E pc \in {"get", "dead"} : mem' = JobDone(i, pc)
  BY <1>0, <1>2, JobDoneStep
<1> QED BY <1>1, <1>2 DEF WriterExists

LEMMA WriterReplaceStep ==
    ASSUME IInv, NEW i \in Instances, WriterReplace(i)
    PROVE  \E m : Becomes(i, m)
<1> DEFINE o == mem[i]
           m == [o EXCEPT !.writer = "evict", !.tracked = @ + Size[o.job.name]]
<1>0. Sound(o) /\ o \in Object /\ o.writer = "replace" /\ o.writer \in Busy
  BY Own DEF WriterReplace, WriterAt, Busy
<1>1. CASE mem' = [mem EXCEPT ![i] = m]
  <2>0. o.tracked + Size[o.job.name] \in Nat
    <3>1. o.job.name \in Names /\ o.tracked \in Nat
      BY <1>0 DEF Sound, Object
    <3>2. Size[o.job.name] \in Nat
      BY <3>1, L2Assumption
    <3> QED BY <3>1, <3>2
  <2>1. m \in Object
    BY <1>0, <2>0 DEF Object, Busy
  <2>2. /\ m.queue = o.queue /\ m.slots = o.slots /\ m.life = o.life /\ m.call = o.call
        /\ m.arg = o.arg /\ m.job.name = o.job.name /\ m.writer \in Busy
        /\ m.writer \in {"unlink", "subtract"} => m.files # <<>>
    BY <1>0 DEF Object, Busy
  <2> HIDE DEF m
  <2>3. Becomes(i, m)
    BY <1>0, <1>1, <2>1, <2>2, GoesOn
  <2> QED BY <2>3
<1>2. CASE \E pc \in {"get", "dead"} : mem' = JobDone(i, pc)
  BY <1>0, <1>2, JobDoneStep
<1> QED BY <1>1, <1>2 DEF WriterReplace

LEMMA WriterOverBudgetStep ==
    ASSUME IInv, NEW i \in Instances, WriterOverBudget(i)
    PROVE  \E m : Becomes(i, m)
<1> DEFINE o == mem[i]
           m == [o EXCEPT !.writer = "walk"]
<1>0. Sound(o) /\ o \in Object /\ o.writer = "evict" /\ o.writer \in Busy
  BY Own DEF WriterOverBudget, WriterAt, Busy
<1>1. CASE mem' = [mem EXCEPT ![i] = m]
  <2>1. m \in Object
    BY <1>0 DEF Object, Busy
  <2>2. /\ m.queue = o.queue /\ m.slots = o.slots /\ m.life = o.life /\ m.call = o.call
        /\ m.arg = o.arg /\ m.job.name = o.job.name /\ m.writer \in Busy
        /\ m.writer \in {"unlink", "subtract"} => m.files # <<>>
    BY <1>0 DEF Object, Busy
  <2> HIDE DEF m
  <2>3. Becomes(i, m)
    BY <1>0, <1>1, <2>1, <2>2, GoesOn
  <2> QED BY <2>3
<1>2. CASE \E pc \in {"get", "dead"} : mem' = JobDone(i, pc)
  BY <1>0, <1>2, JobDoneStep
<1> QED BY <1>1, <1>2 DEF WriterOverBudget

LEMMA WriterWalkStep ==
    ASSUME IInv, NEW i \in Instances, WriterWalk(i)
    PROVE  \E m : Becomes(i, m)
<1> DEFINE o == mem[i]
           m == [o EXCEPT !.writer = "observe", !.files = disk, !.observed = BytesOf(disk)]
<1>0. Sound(o) /\ o \in Object /\ o.writer = "walk" /\ o.writer \in Busy
  BY Own DEF WriterWalk, WriterAt, Busy
<1>1. CASE mem' = [mem EXCEPT ![i] = m]
  <2>0. disk \in Seq(File) /\ BytesOf(disk) \in Nat
    BY BytesNat DEF IInv, DiskOK
  <2>1. m \in Object
    BY <1>0, <2>0 DEF Object, Busy
  <2>2. /\ m.queue = o.queue /\ m.slots = o.slots /\ m.life = o.life /\ m.call = o.call
        /\ m.arg = o.arg /\ m.job.name = o.job.name /\ m.writer \in Busy
        /\ m.writer \in {"unlink", "subtract"} => m.files # <<>>
    BY <1>0 DEF Object, Busy
  <2> HIDE DEF m
  <2>3. Becomes(i, m)
    BY <1>0, <1>1, <2>1, <2>2, GoesOn
  <2> QED BY <2>3
<1> QED BY <1>1 DEF WriterWalk

LEMMA WriterObserveStep ==
    ASSUME IInv, NEW i \in Instances, WriterObserve(i)
    PROVE  \E m : Becomes(i, m)
<1> DEFINE o == mem[i]
           m == [o EXCEPT !.writer = "scan", !.tracked = o.observed]
<1>0. Sound(o) /\ o \in Object /\ o.writer = "observe" /\ o.writer \in Busy
  BY Own DEF WriterObserve, WriterAt, Busy
<1>1. CASE mem' = [mem EXCEPT ![i] = m]
  <2>1. m \in Object
    BY <1>0 DEF Object, Busy
  <2>2. /\ m.queue = o.queue /\ m.slots = o.slots /\ m.life = o.life /\ m.call = o.call
        /\ m.arg = o.arg /\ m.job.name = o.job.name /\ m.writer \in Busy
        /\ m.writer \in {"unlink", "subtract"} => m.files # <<>>
    BY <1>0 DEF Object, Busy
  <2> HIDE DEF m
  <2>3. Becomes(i, m)
    BY <1>0, <1>1, <2>1, <2>2, GoesOn
  <2> QED BY <2>3
<1> QED BY <1>1 DEF WriterObserve

LEMMA WriterScanStep ==
    ASSUME IInv, NEW i \in Instances, WriterScan(i)
    PROVE  \E m : Becomes(i, m)
<1> DEFINE o == mem[i]
           m == [o EXCEPT !.writer = "unlink"]
<1>0. Sound(o) /\ o \in Object /\ o.writer = "scan" /\ o.writer \in Busy
  BY Own DEF WriterScan, WriterAt, Busy
<1>1. CASE mem' = [mem EXCEPT ![i] = m] /\ o.files # <<>>
  <2>1. m \in Object
    BY <1>0 DEF Object, Busy
  <2>2. /\ m.queue = o.queue /\ m.slots = o.slots /\ m.life = o.life /\ m.call = o.call
        /\ m.arg = o.arg /\ m.job.name = o.job.name /\ m.writer \in Busy
        /\ m.writer \in {"unlink", "subtract"} => m.files # <<>>
    BY <1>0, <1>1 DEF Object, Busy
  <2> HIDE DEF m
  <2>3. Becomes(i, m)
    BY <1>0, <1>1, <2>1, <2>2, GoesOn
  <2> QED BY <2>3
<1>2. CASE \E pc \in {"get", "dead"} : mem' = JobDone(i, pc)
  BY <1>0, <1>2, JobDoneStep
<1> QED BY <1>1, <1>2 DEF WriterScan

LEMMA WriterUnlinkStep ==
    ASSUME IInv, NEW i \in Instances, WriterUnlink(i)
    PROVE  \E m : Becomes(i, m)
<1> DEFINE o == mem[i]
           m == [o EXCEPT !.writer = "subtract"]
<1>0. Sound(o) /\ o \in Object /\ o.writer = "unlink" /\ o.writer \in Busy
  BY Own DEF WriterUnlink, WriterAt, Busy
<1>1. CASE mem' = [mem EXCEPT ![i] = m]
  <2>0. o.files # <<>>
    BY <1>0 DEF Sound
  <2>1. m \in Object
    BY <1>0 DEF Object, Busy
  <2>2. /\ m.queue = o.queue /\ m.slots = o.slots /\ m.life = o.life /\ m.call = o.call
        /\ m.arg = o.arg /\ m.job.name = o.job.name /\ m.writer \in Busy
        /\ m.writer \in {"unlink", "subtract"} => m.files # <<>>
    BY <1>0, <2>0 DEF Object, Busy
  <2> HIDE DEF m
  <2>3. Becomes(i, m)
    BY <1>0, <1>1, <2>1, <2>2, GoesOn
  <2> QED BY <2>3
<1>2. CASE mem' = [mem EXCEPT ![i].writer = "scan", ![i].files = Tail(@),
                             ![i].refused = @ \cup {Head(mem[i].files).name}]
  <2> DEFINE x == Head(o.files).name
             n == [o EXCEPT !.writer = "scan", !.files = Tail(@), !.refused = @ \cup {x}]
  <2>0. Tail(o.files) \in Seq(File) /\ x \in Names
    <3>1. o.files # <<>> /\ o.files \in Seq(File)
      BY <1>0 DEF Sound, Object
    <3>2. Head(o.files) \in File /\ Tail(o.files) \in Seq(File)
      BY <3>1, HeadTailProperties
    <3> QED BY <3>2 DEF File
  <2>1. n \in Object
    BY <1>0, <2>0 DEF Object, Busy
  <2>2. /\ n.queue = o.queue /\ n.slots = o.slots /\ n.life = o.life /\ n.call = o.call
        /\ n.arg = o.arg /\ n.job.name = o.job.name /\ n.writer \in Busy
        /\ n.writer \in {"unlink", "subtract"} => n.files # <<>>
    BY <1>0 DEF Object, Busy
  <2>3. mem' = [mem EXCEPT ![i] = n]
    BY <1>2
  <2> HIDE DEF n
  <2>4. Becomes(i, n)
    BY <1>0, <2>1, <2>2, <2>3, GoesOn
  <2> QED BY <2>4
<1> QED BY <1>1, <1>2 DEF WriterUnlink

LEMMA WriterSubtractStep ==
    ASSUME IInv, NEW i \in Instances, WriterSubtract(i)
    PROVE  \E m : Becomes(i, m)
<1> DEFINE o == mem[i]
           m == [o EXCEPT !.writer = "scan", !.files = Tail(@),
                          !.tracked = IF @ > Size[Head(o.files).name]
                                      THEN @ - Size[Head(o.files).name] ELSE 0]
<1>0. Sound(o) /\ o \in Object /\ o.writer = "subtract" /\ o.writer \in Busy
  BY Own DEF WriterSubtract, WriterAt, Busy
<1>1. CASE mem' = [mem EXCEPT ![i] = m]
  <2>4. Head(o.files).name \in Names /\ Tail(o.files) \in Seq(File) /\ o.tracked \in Nat
    <3>1. o.files # <<>> /\ o.files \in Seq(File) /\ o.tracked \in Nat
      BY <1>0 DEF Sound, Object
    <3>2. Head(o.files) \in File /\ Tail(o.files) \in Seq(File)
      BY <3>1, HeadTailProperties
    <3> QED BY <3>1, <3>2 DEF File
  <2>5. (IF o.tracked > Size[Head(o.files).name]
         THEN o.tracked - Size[Head(o.files).name] ELSE 0) \in Nat
    BY <2>4, L2Assumption
  <2>1. m \in Object
    BY <1>0, <2>4, <2>5 DEF Object, Busy
  <2>2. /\ m.queue = o.queue /\ m.slots = o.slots /\ m.life = o.life /\ m.call = o.call
        /\ m.arg = o.arg /\ m.job.name = o.job.name /\ m.writer \in Busy
        /\ m.writer \in {"unlink", "subtract"} => m.files # <<>>
    BY <1>0 DEF Object, Busy
  <2> HIDE DEF m
  <2>3. Becomes(i, m)
    BY <1>0, <1>1, <2>1, <2>2, GoesOn
  <2> QED BY <2>3
<1> QED BY <1>1 DEF WriterSubtract

(* ---------------------------- jobs accounted for ------------------------ *)

\* The files that an earlier run left, each once.
LEMMA InitialDisk ==
    ASSUME Init
    PROVE  DiskOK /\ \A k \in DOMAIN disk : ~ disk[k].bad
<1>1. PICK F \in SUBSET InitialFiles :
          disk = SetToSeq({[name |-> n, bad |-> FALSE] : n \in F})
  BY DEF Init
<1> DEFINE S == {[name |-> n, bad |-> FALSE] : n \in F}
           g == [n \in F |-> [name |-> n, bad |-> FALSE]]
<1>2. IsFiniteSet(F)
  BY L2Assumption, FS_Subset
<1>3. g \in Surjection(F, S)
  BY DEF Surjection
<1>4. S \subseteq File /\ \A r, s \in S : r.name = s.name => r = s
  <2>1. \A s \in S : s \in File /\ s = [name |-> s.name, bad |-> FALSE]
    <3> SUFFICES ASSUME NEW s \in S
                 PROVE  s \in File /\ s = [name |-> s.name, bad |-> FALSE]
      OBVIOUS
    <3>1. PICK n \in F : s = [name |-> n, bad |-> FALSE]
      OBVIOUS
    <3>2. n \in Names
      BY L2Assumption
    <3> QED BY <3>1, <3>2 DEF File
  <2> HIDE DEF S
  <2>2. \A r, s \in S : r.name = s.name => r = s
    BY <2>1, Zenon
  <2> QED BY <2>1, <2>2
<1>5. disk = SetToSeq(S)
  BY <1>1
<1> HIDE DEF S, g
<1>6. IsFiniteSet(S)
  BY <1>2, <1>3, FS_Surjection
<1> DEFINE c == Cardinality(S)
<1>7. c \in Nat /\ ExistsBijection(1..c, S)
  BY <1>6, FS_CardinalityType
<1>8. PICK f \in Bijection(1..c, S) : TRUE
  BY <1>7 DEF ExistsBijection
<1>9. f \in [1..c -> S] /\ IsInjective(f)
  BY <1>8 DEF Bijection, Injection, IsInjective
<1>10. disk \in [1..c -> S] /\ IsInjective(disk)
  BY <1>5, <1>9 DEF SetToSeq
<1> HIDE DEF c
<1>11. DOMAIN disk = 1..c /\ disk \in Seq(File)
  BY <1>4, <1>7, <1>10
<1>12. Injective(disk)
  <2> SUFFICES ASSUME NEW j \in 1..c, NEW k \in 1..c, disk[j].name = disk[k].name
               PROVE  j = k
    BY <1>11 DEF Injective
  <2>1. disk[j] \in S /\ disk[k] \in S
    BY <1>10
  <2>2. disk[j] = disk[k]
    BY <1>4, <2>1
  <2> QED BY <1>10, <1>11, <2>2 DEF IsInjective
<1>13. \A k \in DOMAIN disk : ~ disk[k].bad
  <2>1. \A s \in S : ~ s.bad
    BY DEF S
  <2> QED BY <1>10, <1>11, <2>1
<1> QED BY <1>11, <1>12, <1>13 DEF DiskOK

LEMMA InvariantInit == Init => IInv
<1> SUFFICES ASSUME Init PROVE IInv
  OBVIOUS
<1>1. DiskOK
  BY InitialDisk
<1>2. mem = [i \in Instances |-> Blank] /\ dirLock = None
  BY DEF Init
<1>3. Blank \in Object
  BY BlankIsSound DEF Sound
<1> QED BY <1>1, <1>2, <1>3, BlankIsSound DEF IInv

\* A file that becomes unreadable keeps its place and its name.
LEMMA SpoilStep ==
    ASSUME IInv, NEW k \in DOMAIN disk, Spoil(k)
    PROVE  /\ disk' \in Seq(File) /\ Injective(disk') /\ NamesOf(disk') = NamesOf(disk)
           /\ mem' = mem
<1>1. /\ disk \in Seq(File) /\ DOMAIN disk = 1..Len(disk) /\ Len(disk) \in Nat
      /\ \A j \in DOMAIN disk : disk[j] \in File
  BY LenProperties, ElementOfSeq DEF IInv, DiskOK
<1>2. disk' = [disk EXCEPT ![k].bad = TRUE] /\ mem' = mem
  BY DEF Spoil
<1> DEFINE b == [j \in DOMAIN disk |-> IF j = k THEN [disk[k] EXCEPT !.bad = TRUE] ELSE disk[j]]
<1>3. disk' = b
  BY <1>1, <1>2
<1>4. \A j \in DOMAIN disk : b[j] \in File /\ b[j].name = disk[j].name
  BY <1>1 DEF File
<1>5. DOMAIN b = DOMAIN disk
  OBVIOUS
<1> HIDE DEF b
<1>6. b \in Seq(File)
  <2>1. b = [j \in 1..Len(disk) |-> b[j]]
    BY <1>1 DEF b
  <2> QED BY <1>1, <1>4, <2>1
<1>7. Injective(b)
  BY <1>4, <1>5 DEF Injective, IInv, DiskOK
<1>8. NamesOf(b) = NamesOf(disk)
  BY <1>4, <1>5 DEF NamesOf
<1> QED BY <1>2, <1>3, <1>6, <1>7, <1>8

\* What a step does to the objects, ...
LEMMA ObjectsStep ==
    ASSUME IInv, Next
    PROVE  UNCHANGED mem \/ \E i \in Instances : \E m : Becomes(i, m)
<1>1. CASE \E k \in DOMAIN disk : Spoil(k)
  BY <1>1, SpoilStep
<1>2. CASE \E i \in Instances : Start(i) \/ Crash(i) \/ Discard(i)
  <2>1. PICK i \in Instances : Start(i) \/ Crash(i) \/ Discard(i)
    BY <1>2
  <2>2. CASE Start(i)
    BY <2>2, StartStep
  <2>3. CASE Crash(i) \/ Discard(i)
    <3>1. mem' = [mem EXCEPT ![i] = Blank]
      BY <2>3 DEF Crash, Discard
    <3> QED BY <3>1, BlankIsSound DEF Becomes
  <2> QED BY <2>1, <2>2, <2>3
<1>3. CASE \E i \in Instances : Caller(i)
  <2>1. PICK i \in Instances : Caller(i)
    BY <1>3
  <2>2. CASE \E n \in Names : InsertCheck(i, n)
    BY <2>2, InsertCheckStep
  <2>3. CASE \E k \in DOMAIN disk : LookupLoad(i, k)
    BY <2>3, LookupLoadStep
  <2>4. CASE \/ InsertEnqueue(i) \/ LookupUnlink(i) \/ LookupRecount(i) \/ BeginRequest(i)
             \/ EndRequest(i) \/ Clear(i) \/ Shutdown(i) \/ ShutdownFinish(i)
    BY <2>4, InsertEnqueueStep, LookupUnlinkStep, LookupRecountStep, BeginRequestStep,
       EndRequestStep, ClearStep, ShutdownStep, ShutdownFinishStep
  <2> QED BY <2>1, <2>2, <2>3, <2>4 DEF Caller
<1>4. CASE \E i \in Instances : WriterStep(i) \/ WriterGate(i)
  <2>1. PICK i \in Instances : WriterStep(i) \/ WriterGate(i)
    BY <1>4
  <2>2. CASE \/ WriterGate(i) \/ WriterGet(i) \/ WriterCheckEpoch(i) \/ WriterSave(i)
             \/ WriterPayload(i) \/ WriterExists(i) \/ WriterReplace(i)
    BY <2>2, WriterGateStep, WriterGetStep, WriterCheckEpochStep, WriterSaveStep,
       WriterPayloadStep, WriterExistsStep, WriterReplaceStep
  <2>3. CASE \/ WriterOverBudget(i) \/ WriterWalk(i) \/ WriterObserve(i) \/ WriterScan(i)
             \/ WriterUnlink(i) \/ WriterSubtract(i)
    BY <2>3, WriterOverBudgetStep, WriterWalkStep, WriterObserveStep, WriterScanStep,
       WriterUnlinkStep, WriterSubtractStep
  <2> QED BY <2>1, <2>2, <2>3 DEF WriterStep
<1> QED BY <1>1, <1>2, <1>3, <1>4 DEF Next

\* ... and to the directory.
LEMMA DiskStep ==
    ASSUME IInv, Next
    PROVE  \/ UNCHANGED disk
           \/ \E k \in DOMAIN disk : Spoil(k)
           \/ \E i \in Instances : Clear(i)
           \/ \E n \in Names : disk' = Newest(n)
           \/ \E n \in Names : disk' = Removed(n)
<1>1. CASE \E i \in Instances : Caller(i)
  <2>1. PICK i \in Instances : Caller(i)
    BY <1>1
  <2>2. CASE \E k \in DOMAIN disk : LookupLoad(i, k)
    <3>1. PICK k \in DOMAIN disk : LookupLoad(i, k)
      BY <2>2
    <3>2. disk[k].name \in Names
      <4>1. disk \in Seq(File)
        BY DEF IInv, DiskOK
      <4>2. disk[k] \in File
        BY <4>1, ElementOfSeq, LenProperties
      <4> QED BY <4>2 DEF File
    <3> QED BY <3>1, <3>2 DEF LookupLoad
  <2>3. CASE LookupUnlink(i)
    <3>1. mem[i].arg \in Names
      BY <2>3, Own DEF LookupUnlink, Sound
    <3> QED BY <2>3, <3>1 DEF LookupUnlink
  <2>4. CASE Clear(i)
    BY <2>4
  <2>5. CASE \/ \E n \in Names : InsertCheck(i, n)
             \/ InsertEnqueue(i) \/ LookupRecount(i) \/ BeginRequest(i) \/ EndRequest(i)
             \/ Shutdown(i) \/ ShutdownFinish(i)
    BY <2>5 DEF InsertCheck, InsertEnqueue, LookupRecount, BeginRequest, EndRequest, Shutdown,
                ShutdownFinish
  <2> QED BY <2>1, <2>2, <2>3, <2>4, <2>5 DEF Caller
<1>2. CASE \E i \in Instances : WriterStep(i) \/ WriterGate(i)
  <2>1. PICK i \in Instances : WriterStep(i) \/ WriterGate(i)
    BY <1>2
  <2>2. CASE WriterReplace(i)
    <3>1. mem[i].job.name \in Names
      <4>1. mem[i].writer \in Busy
        BY <2>2 DEF WriterReplace, WriterAt, Busy
      <4> QED BY <4>1, Own DEF Sound
    <3> QED BY <2>2, <3>1 DEF WriterReplace
  <2>3. CASE WriterUnlink(i)
    <3>1. Head(mem[i].files).name \in Names
      <4>1. mem[i].files # <<>> /\ mem[i].files \in Seq(File)
        BY <2>3, Own DEF WriterUnlink, WriterAt, Sound, Object
      <4>2. Head(mem[i].files) \in File
        BY <4>1, HeadTailProperties
      <4> QED BY <4>2 DEF File
    <3> QED BY <2>3, <3>1 DEF WriterUnlink
  <2>4. CASE \/ WriterGate(i) \/ WriterGet(i) \/ WriterCheckEpoch(i) \/ WriterSave(i)
             \/ WriterPayload(i) \/ WriterExists(i) \/ WriterOverBudget(i) \/ WriterWalk(i)
             \/ WriterObserve(i) \/ WriterScan(i) \/ WriterSubtract(i)
    BY <2>4 DEF WriterGate, WriterGet, WriterCheckEpoch, WriterSave, WriterPayload,
                WriterExists, WriterOverBudget, WriterWalk, WriterObserve, WriterScan,
                WriterSubtract
  <2> QED BY <2>1, <2>2, <2>3, <2>4 DEF WriterStep
<1>3. CASE \E i \in Instances : Start(i) \/ Crash(i) \/ Discard(i)
  BY <1>3 DEF Start, Crash, Discard
<1> QED BY <1>1, <1>2, <1>3 DEF Next

LEMMA LockStep ==
    ASSUME IInv, Next
    PROVE  dirLock' \in Instances \cup {None}
<1>0. dirLock \in Instances \cup {None}
  BY DEF IInv
<1>1. CASE \E i \in Instances : Start(i) \/ Crash(i) \/ Discard(i)
  BY <1>0, <1>1 DEF Start, Crash, Discard
<1>2. CASE \E i \in Instances : Caller(i)
  BY <1>0, <1>2 DEF Caller, InsertCheck, InsertEnqueue, LookupLoad, LookupUnlink, LookupRecount,
                    BeginRequest, EndRequest, Clear, Shutdown, ShutdownFinish
<1>3. CASE \E i \in Instances : WriterStep(i) \/ WriterGate(i)
  BY <1>0, <1>3 DEF WriterStep, WriterGate, WriterGet, WriterCheckEpoch, WriterSave,
                    WriterPayload, WriterExists, WriterReplace, WriterOverBudget, WriterWalk,
                    WriterObserve, WriterScan, WriterUnlink, WriterSubtract
<1>4. CASE \E k \in DOMAIN disk : Spoil(k)
  BY <1>0, <1>4 DEF Spoil
<1> QED BY <1>1, <1>2, <1>3, <1>4 DEF Next

LEMMA InvariantNext == IInv /\ [Next]_vars => IInv'
<1>1. CASE UNCHANGED vars
  BY <1>1 DEF vars, IInv, DiskOK, Injective
<1>2. ASSUME IInv, Next PROVE IInv'
  <2>1. DiskOK'
    <3>1. CASE UNCHANGED disk
      BY <1>2, <3>1 DEF IInv, DiskOK, Injective
    <3>2. CASE \E k \in DOMAIN disk : Spoil(k)
      BY <1>2, <3>2, SpoilStep DEF DiskOK, Injective
    <3>3. CASE \E i \in Instances : Clear(i)
      BY <1>2, <3>3, ClearStep DEF DiskOK, Injective
    <3>4. CASE \E n \in Names : disk' = Newest(n)
      <4>1. PICK n \in Names : disk' = Newest(n)
        BY <3>4
      <4>2. Newest(n) \in Seq(File) /\ Injective(Newest(n))
        BY <1>2, NewestIsOneMore DEF IInv
      <4> QED BY <4>1, <4>2 DEF DiskOK, Injective
    <3>5. CASE \E n \in Names : disk' = Removed(n)
      <4>1. PICK n \in Names : disk' = Removed(n)
        BY <3>5
      <4>2. Removed(n) \in Seq(File) /\ Injective(Removed(n))
        BY <1>2, RemovedIsOneLess DEF IInv
      <4> QED BY <4>1, <4>2 DEF DiskOK, Injective
    <3> QED BY <1>2, <3>1, <3>2, <3>3, <3>4, <3>5, DiskStep
  <2>2. dirLock' \in Instances \cup {None}
    BY <1>2, LockStep
  <2>3. mem' \in [Instances -> Object] /\ \A i \in Instances : Sound(mem'[i])
    <3>1. mem \in [Instances -> Object] /\ \A i \in Instances : Sound(mem[i])
      BY <1>2 DEF IInv
    <3>2. CASE UNCHANGED mem
      BY <3>1, <3>2
    <3>3. CASE \E i \in Instances : \E m : Becomes(i, m)
      <4>1. PICK i \in Instances : \E m : Becomes(i, m)
        BY <3>3
      <4>2. PICK m : mem' = [mem EXCEPT ![i] = m] /\ Sound(m)
        BY <4>1 DEF Becomes
      <4>3. m \in Object
        BY <4>2 DEF Sound
      <4> QED BY <3>1, <4>2, <4>3
    <3> QED BY <1>2, <3>2, <3>3, ObjectsStep
  <2> QED BY <2>1, <2>2, <2>3 DEF IInv
<1> QED BY <1>1, <1>2

THEOREM InvariantHolds == Spec => []IInv
BY InvariantInit, InvariantNext, PTL DEF Spec

\* As many jobs as Waiting counts.
LEMMA WaitingCounts ==
    ASSUME NEW q \in Seq(Job), Orderly(q)
    PROVE  Cardinality({k \in DOMAIN q : q[k] # NoJob}) = Waiting(q)
<1>0. Len(q) \in Nat /\ DOMAIN q = 1..Len(q) /\ (q # <<>> => Len(q) >= 1)
  BY LenProperties, EmptySeq
<1>1. CASE q # <<>> /\ q[Len(q)] = NoJob
  <2>1. {k \in DOMAIN q : q[k] # NoJob} = 1..(Len(q) - 1)
    <3> DEFINE len == Len(q)
    <3>1. \A k \in 1..len : k # len => q[k] # NoJob
      BY <1>0, NoJobType DEF Orderly
    <3>2. len \in Nat /\ DOMAIN q = 1..len /\ q[len] = NoJob
      BY <1>0, <1>1
    <3> HIDE DEF len
    <3>3. /\ \A k \in 1..len : k # len => k \in 1..(len - 1)
          /\ \A k \in 1..(len - 1) : k \in 1..len /\ k # len
      BY <3>2
    <3>4. {k \in DOMAIN q : q[k] # NoJob} = 1..(len - 1)
      BY <3>1, <3>2, <3>3
    <3> QED BY <3>4 DEF len
  <2>2. Cardinality(1..(Len(q) - 1)) = Len(q) - 1
    <3>1. \A n \in Nat : n >= 1 => Cardinality(1..(n - 1)) = n - 1
      BY FS_Interval
    <3> QED BY <1>0, <1>1, <3>1
  <2> QED BY <1>1, <2>1, <2>2 DEF Waiting
<1>2. CASE ~ (q # <<>> /\ q[Len(q)] = NoJob)
  <2>1. {k \in DOMAIN q : q[k] # NoJob} = 1..Len(q)
    <3>1. \A k \in 1..Len(q) : q[k] # NoJob
      <4> SUFFICES ASSUME NEW k \in 1..Len(q), q[k] = NoJob PROVE FALSE
        OBVIOUS
      <4>1. k = Len(q)
        BY <1>0, NoJobType DEF Orderly
      <4>2. q # <<>>
        BY <1>0
      <4> QED BY <1>2, <4>1, <4>2
    <3> QED BY <1>0, <3>1
  <2>2. Cardinality(1..Len(q)) = Len(q)
    <3>1. \A n \in Nat : Cardinality(1..n) = n
      BY UpToCount
    <3> QED BY <1>0, <3>1
  <2> QED BY <1>2, <2>1, <2>2 DEF Waiting
<1> QED BY <1>1, <1>2

\* What the invariant says of the jobs.
LEMMA JobsFromInvariant ==
    ASSUME IInv
    PROVE  JobsAccountedFor
<1>1. \A i \in Instances :
          mem[i].slots + Cardinality({k \in DOMAIN mem[i].queue : mem[i].queue[k] # NoJob})
                       + (IF mem[i].job # NoJob THEN 1 ELSE 0) = MaxInFlight
  <2> SUFFICES ASSUME NEW i \in Instances
               PROVE  mem[i].slots
                         + Cardinality({k \in DOMAIN mem[i].queue : mem[i].queue[k] # NoJob})
                         + (IF mem[i].job # NoJob THEN 1 ELSE 0) = MaxInFlight
    OBVIOUS
  <2>1. Sound(mem[i]) /\ mem[i].queue \in Seq(Job) /\ Orderly(mem[i].queue)
    BY Own DEF Sound
  <2>2. Cardinality({k \in DOMAIN mem[i].queue : mem[i].queue[k] # NoJob}) = Waiting(mem[i].queue)
    BY <2>1, WaitingCounts
  <2>3. (IF mem[i].job # NoJob THEN 1 ELSE 0) = Hands(mem[i])
    BY <2>1, NoJobType DEF Sound, Hands
  <2> QED BY <2>1, <2>2, <2>3 DEF Sound
<1>2. \A i \in Instances : Len(mem[i].queue) <= MaxInFlight + 1
  <2> SUFFICES ASSUME NEW i \in Instances PROVE Len(mem[i].queue) <= MaxInFlight + 1
    OBVIOUS
  <2>1. Sound(mem[i]) /\ mem[i].queue \in Seq(Job) /\ mem[i].slots \in Nat
    BY Own DEF Sound, Object
  <2>2. mem[i].slots + Waiting(mem[i].queue) + Hands(mem[i]) = MaxInFlight
    BY <2>1 DEF Sound
  <2>3. Hands(mem[i]) \in Nat /\ MaxInFlight \in Nat /\ Len(mem[i].queue) \in Nat
    BY <2>1, L2Assumption, LenProperties DEF Hands
  <2>4. /\ Waiting(mem[i].queue) \in Int
        /\ Len(mem[i].queue) <= Waiting(mem[i].queue) + 1
    BY <2>3 DEF Waiting
  <2> QED BY <2>1, <2>2, <2>3, <2>4
<1>3. \A i \in Instances : mem[i].writer = "done" => mem[i].queue = <<>>
  BY Own DEF Sound
<1>4. IsInjective([k \in DOMAIN disk |-> disk[k].name])
  BY DEF IInv, DiskOK, Injective, IsInjective
<1> QED BY <1>1, <1>2, <1>3, <1>4
        DEF IInv, DiskOK, JobsAccountedFor, TypeOK, SlotAccounting, DrainedWhenDone

\* For every number of instances, writer slots and files, and whatever fails or
\* dies (cache/prefix_l2.py _writer_loop, insert_async, shutdown, clear): a slot
\* is free, or in the queue with its job, or in the hands of the writer; a writer
\* that ends in order leaves no job behind; no two files have one name.
THEOREM JobsAccountedForAlways == Spec => []JobsAccountedFor
<1>1. IInv => JobsAccountedFor
  BY JobsFromInvariant
<1> QED BY <1>1, InvariantHolds, PTL

(* ------------------- one instance alone: the count ---------------------- *)

\* A step that leaves the count alone, and the files that a walk saw.
LEMMA SameCount ==
    ASSUME NEW m, NEW n, NEW S, Counts(m, S),
           n.call \in {"idle", "enqueue"},
           n.life \in {"open", "joining"} => m.life \in {"open", "joining"} /\ n.tracked = m.tracked,
           \/ n.writer \notin {"observe", "scan", "unlink", "subtract"}
           \/ /\ n.writer = m.writer \/ {n.writer, m.writer} \subseteq {"scan", "unlink"}
              /\ n.files = m.files /\ n.observed = m.observed /\ n.refused = m.refused
    PROVE  Counts(n, S)
BY DEF Counts

\* The files of a walk are its head and its tail.
LEMMA HeadOrTail ==
    ASSUME NEW files \in Seq(File), files # <<>>,
           NEW S, NEW R, S \subseteq NamesOf(files) \cup R
    PROVE  /\ Head(files).name \in Names
           /\ S \ {Head(files).name} \subseteq NamesOf(Tail(files)) \cup R
<1> DEFINE r == Tail(files)
           h == Head(files)
<1>0. Len(files) \in Nat \ {0} /\ DOMAIN files = 1..Len(files)
  BY LenProperties, EmptySeq
<1>1. /\ h \in File /\ h = files[1] /\ r \in Seq(File) /\ Len(r) = Len(files) - 1
      /\ \A k \in 1..(Len(files) - 1) : r[k] = files[k + 1]
  BY <1>0, HeadTailProperties
<1> HIDE DEF r, h
<1>2. DOMAIN r = 1..(Len(files) - 1)
  BY <1>1, LenProperties
<1>3. ASSUME NEW x \in S \ {h.name}, x \notin R
      PROVE  x \in NamesOf(r)
  <2>1. PICK k \in 1..Len(files) : x = files[k].name
    BY <1>0, <1>3 DEF NamesOf
  <2>2. k # 1
    BY <1>1, <1>3, <2>1
  <2>3. k - 1 \in 1..(Len(files) - 1) /\ (k - 1) + 1 = k
    BY <1>0, <2>2
  <2>4. r[k - 1] = files[k]
    BY <1>1, <2>3
  <2> QED BY <1>2, <2>1, <2>3, <2>4 DEF NamesOf
<1> QED BY <1>1, <1>3 DEF File, h, r

\* What CInv says of the only instance.
Only(i) == \A j \in Instances : j = i

CountsHere(i) ==
    /\ \A k \in DOMAIN disk : ~ disk[k].bad
    /\ dirLock = i <=> mem[i].life \in {"open", "joining"}
    /\ Counts(mem[i], NamesOf(disk))

LEMMA CountsOfOne ==
    ASSUME NEW i \in Instances, Only(i)
    PROVE  (CInv <=> CountsHere(i)) /\ (CInv' <=> CountsHere(i)')
BY DEF Only, CInv, CountsHere

\* Of the directory, for the steps below.
LEMMA FilesHere ==
    ASSUME IInv
    PROVE  /\ IsFiniteSet(NamesOf(disk)) /\ NamesOf(disk) \subseteq Names
           /\ Total(NamesOf(disk)) \in Nat /\ BytesOf(disk) = Total(NamesOf(disk))
BY NamesFinite, TotalNat, BytesNat DEF IInv, DiskOK

\* The object after a step of its instance.
LEMMA After ==
    ASSUME IInv, NEW i \in Instances, NEW m, mem' = [mem EXCEPT ![i] = m]
    PROVE  mem'[i] = m
BY DEF IInv

\* A step that changes neither the directory nor the lock.
LEMMA QuietStep ==
    ASSUME IInv, NEW i \in Instances, CountsHere(i), UNCHANGED <<disk, dirLock>>,
           NEW m, mem' = [mem EXCEPT ![i] = m],
           m.life \in {"open", "joining"} <=> mem[i].life \in {"open", "joining"},
           Counts(m, NamesOf(disk))
    PROVE  CountsHere(i)'
BY After DEF CountsHere

\* The caller's sections that touch no file; shutdown.
LEMMA CallerCounts ==
    ASSUME IInv, NEW i \in Instances, CountsHere(i),
           \/ \E n \in Names : InsertCheck(i, n)
           \/ InsertEnqueue(i) \/ BeginRequest(i) \/ EndRequest(i) \/ Shutdown(i)
    PROVE  CountsHere(i)'
<1> DEFINE o == mem[i]
<1>0. o \in Object /\ Counts(o, NamesOf(disk)) /\ UNCHANGED <<disk, dirLock>>
  BY Own DEF CountsHere, InsertCheck, InsertEnqueue, BeginRequest, EndRequest, Shutdown
<1>1. \E m \in Object : /\ mem' = [mem EXCEPT ![i] = m]
                        /\ m.call \in {"idle", "enqueue"} /\ m.tracked = o.tracked
                        /\ m.writer = o.writer /\ m.files = o.files /\ m.observed = o.observed
                        /\ m.refused = o.refused
                        /\ m.life = o.life \/ {m.life, o.life} \subseteq {"open", "joining"}
  <2>0. mem' \in [Instances -> Object]
    <3>1. \E m : Becomes(i, m)
      BY InsertCheckStep, InsertEnqueueStep, BeginRequestStep, EndRequestStep, ShutdownStep
    <3> QED BY <3>1 DEF Becomes, IInv, Sound
  <2>1. mem' = [mem EXCEPT ![i] = mem'[i]]
    <3>1. \E m : mem' = [mem EXCEPT ![i] = m]
      BY InsertCheckStep, InsertEnqueueStep, BeginRequestStep, EndRequestStep, ShutdownStep
         DEF Becomes
    <3> QED BY <3>1, After
  <2>2. mem \in [Instances -> Object]
    BY DEF IInv
  <2>3. CASE \E n \in Names : InsertCheck(i, n)
    <3>1. PICK n \in Names : mem' = [mem EXCEPT ![i].call = "enqueue", ![i].arg = n]
      BY <2>3 DEF InsertCheck
    <3>2. mem'[i] = [o EXCEPT !.call = "enqueue", !.arg = n]
      BY <2>2, <3>1
    <3> QED BY <1>0, <2>0, <2>1, <3>2 DEF Object
  <2>4. CASE InsertEnqueue(i)
    <3>1. \E q, s : mem'[i] = [o EXCEPT !.call = "idle", !.arg = None, !.slots = s, !.queue = q]
      <4>1. CASE mem' = [mem EXCEPT ![i].call = "idle", ![i].arg = None]
        <5>1. mem'[i] = [o EXCEPT !.call = "idle", !.arg = None]
          BY <2>2, <4>1
        <5>2. mem'[i] = [o EXCEPT !.call = "idle", !.arg = None, !.slots = o.slots, !.queue = o.queue]
          BY <1>0, <5>1 DEF Object
        <5> QED BY <5>2
      <4>2. CASE mem' = [mem EXCEPT
                ![i].call = "idle", ![i].arg = None, ![i].slots = @ - 1,
                ![i].queue = Append(@, [name |-> mem[i].arg, epoch |-> mem[i].epoch,
                                        tmp |-> FALSE])]
        BY <2>2, <4>2
      <4> QED BY <2>4, <4>1, <4>2 DEF InsertEnqueue
    <3> QED BY <1>0, <2>0, <2>1, <3>1 DEF Object
  <2>5. CASE BeginRequest(i)
    <3>1. mem'[i] = [o EXCEPT !.active = @ + 1, !.gate = FALSE]
      BY <2>2, <2>5 DEF BeginRequest
    <3>2. o.call = "idle"
      BY <2>5 DEF BeginRequest, Idle
    <3> QED BY <1>0, <2>0, <2>1, <3>1, <3>2 DEF Object
  <2>6. CASE EndRequest(i)
    <3>1. mem'[i] = [o EXCEPT !.active = @ - 1, !.gate = @ \/ mem[i].active = 1]
      BY <2>2, <2>6 DEF EndRequest
    <3>2. o.call = "idle"
      BY <2>6 DEF EndRequest, Idle
    <3> QED BY <1>0, <2>0, <2>1, <3>1, <3>2 DEF Object
  <2>7. CASE Shutdown(i)
    <3>1. \E q : mem'[i] = [o EXCEPT !.life = "joining", !.gate = TRUE, !.queue = q]
      BY <2>2, <2>7 DEF Shutdown
    <3>2. o.call = "idle" /\ o.life = "open"
      BY <2>7 DEF Shutdown, Idle
    <3>3. /\ mem'[i] \in Object /\ mem'[i].call = "idle" /\ mem'[i].tracked = o.tracked
          /\ mem'[i].writer = o.writer /\ mem'[i].files = o.files
          /\ mem'[i].observed = o.observed /\ mem'[i].refused = o.refused
          /\ mem'[i].life = "joining"
      BY <1>0, <2>0, <3>1, <3>2 DEF Object
    <3>4. {mem'[i].life, o.life} \subseteq {"open", "joining"}
      BY <3>2, <3>3
    <3> QED BY <2>1, <3>3, <3>4
  <2> QED BY <2>3, <2>4, <2>5, <2>6, <2>7
<1> HIDE DEF o
<1>2. PICK m \in Object : /\ mem' = [mem EXCEPT ![i] = m]
                          /\ m.call \in {"idle", "enqueue"} /\ m.tracked = o.tracked
                          /\ m.writer = o.writer /\ m.files = o.files /\ m.observed = o.observed
                          /\ m.refused = o.refused
                          /\ m.life = o.life \/ {m.life, o.life} \subseteq {"open", "joining"}
  BY <1>1
<1>3. m.life \in {"open", "joining"} <=> o.life \in {"open", "joining"}
  BY <1>2
<1>4. Counts(m, NamesOf(disk))
  BY <1>0, <1>2, <1>3, SameCount
<1> QED BY <1>0, <1>2, <1>3, <1>4, QuietStep DEF o


\* The caller's steps on the directory.
LEMMA LookupCounts ==
    ASSUME IInv, NEW i \in Instances, CountsHere(i), NEW k \in DOMAIN disk, LookupLoad(i, k)
    PROVE  CountsHere(i)'
<1>1. ~ disk[k].bad
  BY DEF CountsHere
<1>2. disk' = Newest(disk[k].name) /\ UNCHANGED <<mem, dirLock>>
  BY <1>1 DEF LookupLoad
<1>3. disk[k].name \in NamesOf(disk)
  BY DEF NamesOf
<1>4. disk[k].name \in Names
  BY <1>3, FilesHere
<1>5. NamesOf(disk') = NamesOf(disk) /\ \A j \in DOMAIN disk' : ~ disk'[j].bad
  <2>1. DiskOK /\ \A j \in DOMAIN disk : ~ disk[j].bad
    BY DEF IInv, CountsHere
  <2>2. NamesOf(disk') = NamesOf(disk) \cup {disk[k].name}
    BY <1>2, <1>4, <2>1, NewestIsOneMore
  <2> QED BY <1>2, <1>3, <1>4, <2>1, <2>2, NewestIsOneMore
<1> QED BY <1>2, <1>5 DEF CountsHere

\* An rmtree that does not fail leaves nothing.
LEMMA ClearCounts ==
    ASSUME IInv, NEW i \in Instances, CountsHere(i), Clear(i), "rmtree" \notin Faults
    PROVE  CountsHere(i)'
<1> DEFINE o == mem[i]
           m == [o EXCEPT !.epoch = @ + 1, !.tracked = BytesOf(disk')]
<1>0. o \in Object /\ Counts(o, NamesOf(disk)) /\ UNCHANGED dirLock
  BY Own DEF CountsHere, Clear
<1>1. disk' = <<>>
  <2>1. PICK r \in 0..Len(disk) : disk' \in Partly(r) /\ r = 0
    <3>1. PICK r \in 0..Len(disk) : disk' \in Partly(r) /\ (r > 0 => "rmtree" \in Faults)
      BY DEF Clear
    <3>2. Len(disk) \in Nat
      BY LenProperties DEF IInv, DiskOK
    <3> QED BY <3>1, <3>2
  <2> QED BY <2>1, PartlyIsPart DEF IInv
<1>2. mem' = [mem EXCEPT ![i] = m]
  BY DEF Clear
<1>3. mem'[i] = m
  BY <1>2, After
<1>4. NamesOf(disk') = {} /\ BytesOf(disk') = 0 /\ Total({}) = 0
  BY <1>1, NoBytes, TotalEmpty
<1>5. \A k \in DOMAIN disk' : ~ disk'[k].bad
  BY <1>1
<1> HIDE DEF o
<1>6. /\ m.call = o.call /\ m.life = o.life /\ m.tracked = 0 /\ m.writer = o.writer
      /\ m.observed = o.observed /\ o.observed \in Nat
  BY <1>0, <1>4 DEF Object
<1> HIDE DEF m
<1>7. Counts(m, {})
  BY <1>0, <1>4, <1>6 DEF Counts
<1> QED BY <1>0, <1>3, <1>4, <1>5, <1>6, <1>7 DEF CountsHere, o

\* The object begins and ends.
LEMMA LifeCounts ==
    ASSUME IInv, NEW i \in Instances, Only(i), CountsHere(i),
           Start(i) \/ ShutdownFinish(i) \/ Crash(i) \/ Discard(i)
    PROVE  CountsHere(i)'
<1>0. /\ mem[i] \in Object /\ Counts(mem[i], NamesOf(disk)) /\ UNCHANGED disk
      /\ dirLock = i \/ dirLock = None
      /\ dirLock = i <=> mem[i].life \in {"open", "joining"}
      /\ None # i
      /\ \A k \in DOMAIN disk : ~ disk[k].bad
  BY Own, L2Assumption DEF CountsHere, Start, ShutdownFinish, Crash, Discard, IInv, Only
<1>1. CASE Start(i)
  <2>1. PICK w \in {"get", "none"} :
          mem' = [mem EXCEPT ![i] = [Blank EXCEPT !.life = "open", !.tracked = BytesOf(disk),
                                                  !.writer = w]]
    BY <1>1 DEF Start
  <2> DEFINE m == [Blank EXCEPT !.life = "open", !.tracked = BytesOf(disk), !.writer = w]
  <2>2. mem'[i] = m
    BY <2>1, After
  <2>3. dirLock' = i
    BY <1>0, <1>1 DEF Start
  <2>4. m.call = "idle" /\ m.tracked = BytesOf(disk) /\ m.writer = w /\ m.life = "open"
    BY DEF Blank
  <2> HIDE DEF m
  <2>5. Total(NamesOf(disk)) \in Nat /\ BytesOf(disk) = Total(NamesOf(disk))
    BY FilesHere
  <2>6. Counts(m, NamesOf(disk))
    BY <2>4, <2>5 DEF Counts
  <2> QED BY <1>0, <2>2, <2>3, <2>4, <2>6 DEF CountsHere
<1>2. CASE ShutdownFinish(i)
  <2> DEFINE m == [mem[i] EXCEPT !.life = "closed", !.stop = TRUE]
  <2>1. mem' = [mem EXCEPT ![i] = m]
    BY <1>2 DEF ShutdownFinish
  <2>2. mem'[i] = m
    BY <2>1, After
  <2>3. dirLock' # i
    BY <1>0, <1>2 DEF ShutdownFinish, writable
  <2>4. /\ m.call = mem[i].call /\ m.writer = mem[i].writer /\ m.life = "closed"
        /\ m.files = mem[i].files /\ m.observed = mem[i].observed /\ m.refused = mem[i].refused
    BY <1>0 DEF Object
  <2> HIDE DEF m
  <2>5. Counts(m, NamesOf(disk))
    BY <1>0, <2>4 DEF Counts
  <2> QED BY <1>0, <2>2, <2>3, <2>4, <2>5 DEF CountsHere
<1>3. CASE Crash(i) \/ Discard(i)
  <2>1. mem' = [mem EXCEPT ![i] = Blank]
    BY <1>3 DEF Crash, Discard
  <2>2. mem'[i] = Blank
    BY <2>1, After
  <2>3. dirLock' # i
    BY <1>0, <1>3 DEF Crash, Discard, writable
  <2>4. Blank.call = "idle" /\ Blank.writer = "none" /\ Blank.life = "off"
    BY DEF Blank
  <2>5. Counts(Blank, NamesOf(disk))
    BY <2>4 DEF Counts
  <2> QED BY <1>0, <2>2, <2>3, <2>4, <2>5 DEF CountsHere
<1> QED BY <1>1, <1>2, <1>3

\* The writer's steps between its walks.
LEMMA WriterCounts ==
    ASSUME IInv, NEW i \in Instances, CountsHere(i),
           \/ WriterGate(i) \/ WriterGet(i) \/ WriterCheckEpoch(i) \/ WriterSave(i)
           \/ WriterPayload(i) \/ WriterExists(i) \/ WriterOverBudget(i) \/ WriterScan(i)
    PROVE  CountsHere(i)'
<1> DEFINE o == mem[i]
<1>0. /\ o \in Object /\ Counts(o, NamesOf(disk)) /\ UNCHANGED <<disk, dirLock>>
      /\ mem \in [Instances -> Object]
  BY Own DEF CountsHere, IInv, WriterGate, WriterGet, WriterCheckEpoch, WriterSave, WriterPayload,
             WriterExists, WriterOverBudget, WriterScan
<1> DEFINE Moves(m) ==
      /\ m.call = o.call /\ m.life = o.life /\ m.tracked = o.tracked
      /\ \/ m.writer \notin {"observe", "scan", "unlink", "subtract"}
         \/ /\ {m.writer, o.writer} \subseteq {"scan", "unlink"}
            /\ m.files = o.files /\ m.observed = o.observed /\ m.refused = o.refused
<1>1. PICK m \in Object : mem' = [mem EXCEPT ![i] = m]
  <2>1. \E m : Becomes(i, m)
    BY WriterGateStep, WriterGetStep, WriterCheckEpochStep, WriterSaveStep, WriterPayloadStep,
       WriterExistsStep, WriterOverBudgetStep, WriterScanStep
  <2> QED BY <2>1 DEF Becomes, Sound
<1>2. mem'[i] = m
  BY <1>1, After
<1>3. ASSUME NEW pc \in {"get", "dead"}, mem' = JobDone(i, pc)
      PROVE  Moves(mem'[i])
  <2>1. /\ mem'[i].call = o.call /\ mem'[i].life = o.life /\ mem'[i].tracked = o.tracked
        /\ mem'[i].writer = pc
    BY <1>0, <1>3 DEF JobDone, Object
  <2> QED BY <2>1
<1>4. ASSUME NEW pc \in {"gate", "check", "save", "payload", "exists", "replace", "walk"},
             mem' = [mem EXCEPT ![i].writer = pc]
      PROVE  Moves(mem'[i])
  <2>1. /\ mem'[i].call = o.call /\ mem'[i].life = o.life /\ mem'[i].tracked = o.tracked
        /\ mem'[i].writer = pc
    BY <1>0, <1>4 DEF Object
  <2> QED BY <2>1
<1>5. Moves(mem'[i])
  <2>1. CASE WriterGate(i)
    BY <1>4, <2>1 DEF WriterGate
  <2>2. CASE WriterGet(i)
    <3>1. PICK pc \in {"done", "gate"} :
             mem' = [mem EXCEPT ![i].queue = Tail(@), ![i].job = Head(mem[i].queue),
                                ![i].writer = pc]
      BY <2>2 DEF WriterGet
    <3>2. /\ mem'[i].call = o.call /\ mem'[i].life = o.life /\ mem'[i].tracked = o.tracked
          /\ mem'[i].writer = pc
      BY <1>0, <3>1 DEF Object
    <3> QED BY <3>2
  <2>3. CASE WriterCheckEpoch(i)
    BY <1>3, <1>4, <2>3 DEF WriterCheckEpoch
  <2>4. CASE WriterSave(i)
    <3>1. CASE mem' = [mem EXCEPT ![i].writer = "payload",
                                  ![i].job.tmp = ~ OnDisk(mem[i].job.name)]
      <4>1. /\ mem'[i].call = o.call /\ mem'[i].life = o.life /\ mem'[i].tracked = o.tracked
            /\ mem'[i].writer = "payload"
        BY <1>0, <3>1 DEF Object
      <4> QED BY <4>1
    <3> QED BY <1>3, <2>4, <3>1 DEF WriterSave
  <2>5. CASE WriterPayload(i)
    BY <1>3, <1>4, <2>5 DEF WriterPayload
  <2>6. CASE WriterExists(i)
    BY <1>3, <1>4, <2>6 DEF WriterExists
  <2>7. CASE WriterOverBudget(i)
    BY <1>3, <1>4, <2>7 DEF WriterOverBudget
  <2>8. CASE WriterScan(i)
    <3>1. CASE mem' = [mem EXCEPT ![i].writer = "unlink"]
      <4>1. /\ mem'[i].call = o.call /\ mem'[i].life = o.life /\ mem'[i].tracked = o.tracked
            /\ mem'[i].writer = "unlink" /\ mem'[i].files = o.files
            /\ mem'[i].observed = o.observed /\ mem'[i].refused = o.refused
        BY <1>0, <3>1 DEF Object
      <4>2. o.writer = "scan"
        BY <2>8 DEF WriterScan, WriterAt
      <4> QED BY <4>1, <4>2
    <3> QED BY <1>3, <2>8, <3>1 DEF WriterScan
  <2> QED BY <2>1, <2>2, <2>3, <2>4, <2>5, <2>6, <2>7, <2>8
<1> HIDE DEF o
<1>6. o.call \in {"idle", "enqueue"}
  BY <1>0 DEF Counts
<1>7. Counts(m, NamesOf(disk))
  BY <1>0, <1>2, <1>5, <1>6, SameCount
<1>8. m.life = o.life
  BY <1>2, <1>5
<1> QED BY <1>0, <1>1, <1>7, <1>8, QuietStep DEF o

\* os.replace adds a file, and its size to the count.
LEMMA ReplaceCounts ==
    ASSUME IInv, NEW i \in Instances, CountsHere(i), WriterReplace(i)
    PROVE  CountsHere(i)'
<1> DEFINE o == mem[i]
           n == o.job.name
           S == NamesOf(disk)
<1>0. /\ o \in Object /\ Counts(o, S) /\ UNCHANGED dirLock /\ mem \in [Instances -> Object]
      /\ o.writer = "replace"
  BY Own DEF CountsHere, IInv, WriterReplace, WriterAt
<1>1. n \in Names
  BY <1>0, Own DEF Sound, Busy
<1>2. IsFiniteSet(S) /\ S \subseteq Names /\ Total(S) \in Nat /\ Size[n] \in Nat
  BY <1>1, FilesHere, L2Assumption
<1>3. o.call \in {"idle", "enqueue"} /\ (o.life \in {"open", "joining"} => o.tracked >= Total(S))
  BY <1>0 DEF Counts
<1>4. CASE disk' = Newest(n) /\ mem' = [mem EXCEPT ![i].writer = "evict", ![i].tracked = @ + Size[n]]
  <2> DEFINE m == [o EXCEPT !.writer = "evict", !.tracked = @ + Size[n]]
  <2>1. mem'[i] = m
    BY <1>0, <1>4
  <2>2. NamesOf(disk') = S \cup {n} /\ \A j \in DOMAIN disk' : ~ disk'[j].bad
    BY <1>1, <1>4, NewestIsOneMore DEF IInv, CountsHere
  <2>3. Total(S \cup {n}) <= Total(S) + Size[n] /\ Total(S \cup {n}) \in Nat
    BY <1>1, <1>2, TotalAdd
  <2> HIDE DEF S, n
  <2>4. m.writer = "evict" /\ m.tracked = o.tracked + Size[n] /\ m.life = o.life /\ m.call = o.call
    BY <1>0 DEF Object
  <2>5. o.tracked \in Nat
    BY <1>0 DEF Object
  <2> HIDE DEF m, o
  <2>6. m.life \in {"open", "joining"} => m.tracked >= Total(S \cup {n})
    BY <1>2, <1>3, <2>3, <2>4, <2>5
  <2>7. Counts(m, S \cup {n})
    BY <1>3, <2>4, <2>6 DEF Counts
  <2>8. dirLock' = i <=> m.life \in {"open", "joining"}
    BY <1>0, <2>4 DEF CountsHere, o
  <2> QED BY <2>1, <2>2, <2>7, <2>8 DEF CountsHere
<1>5. CASE mem' = JobDone(i, "get") /\ UNCHANGED disk
  <2>1. /\ mem'[i].call = o.call /\ mem'[i].life = o.life /\ mem'[i].tracked = o.tracked
        /\ mem'[i].writer = "get"
    BY <1>0, <1>5 DEF JobDone, Object
  <2> HIDE DEF o, S
  <2>2. Counts(mem'[i], S)
    BY <1>0, <1>3, <2>1, SameCount
  <2> QED BY <1>0, <1>5, <2>1, <2>2 DEF CountsHere, S, o
<1> QED BY <1>4, <1>5 DEF WriterReplace

\* The walk of the eviction.
LEMMA WalkCounts ==
    ASSUME IInv, NEW i \in Instances, CountsHere(i), WriterWalk(i) \/ WriterObserve(i)
    PROVE  CountsHere(i)'
<1> DEFINE o == mem[i]
           S == NamesOf(disk)
<1>0. /\ o \in Object /\ Counts(o, S) /\ UNCHANGED <<disk, dirLock>> /\ mem \in [Instances -> Object]
      /\ Total(S) \in Nat /\ BytesOf(disk) = Total(S)
  BY Own, FilesHere DEF CountsHere, IInv, WriterWalk, WriterObserve
<1>1. CASE WriterWalk(i)
  <2> DEFINE m == [o EXCEPT !.writer = "observe", !.files = disk, !.observed = BytesOf(disk)]
  <2>1. mem'[i] = m
    BY <1>0, <1>1 DEF WriterWalk
  <2>2. /\ m.writer = "observe" /\ m.files = disk /\ m.observed = BytesOf(disk) /\ m.life = o.life
        /\ m.call = o.call /\ m.tracked = o.tracked
    BY <1>0 DEF Object
  <2> HIDE DEF m
  <2>3. Counts(m, S)
    BY <1>0, <2>2 DEF Counts
  <2> QED BY <1>0, <2>1, <2>2, <2>3 DEF CountsHere
<1>2. CASE WriterObserve(i)
  <2> DEFINE m == [o EXCEPT !.writer = "scan", !.tracked = o.observed]
  <2>1. mem'[i] = m /\ o.writer = "observe"
    BY <1>0, <1>2 DEF WriterObserve, WriterAt
  <2>2. /\ m.writer = "scan" /\ m.files = o.files /\ m.life = o.life
        /\ m.call = o.call /\ m.tracked = o.observed /\ m.refused = o.refused
    BY <1>0 DEF Object
  <2> HIDE DEF m
  <2>3. Counts(m, S)
    BY <1>0, <2>1, <2>2 DEF Counts
  <2> QED BY <1>0, <2>1, <2>2, <2>3 DEF CountsHere
<1> QED BY <1>1, <1>2

\* Between an unlink and its subtraction the count is above the directory by the
\* size of the file that went.
LEMMA EvictCounts ==
    ASSUME IInv, NEW i \in Instances, CountsHere(i), WriterUnlink(i) \/ WriterSubtract(i)
    PROVE  CountsHere(i)'
<1> DEFINE o == mem[i]
           S == NamesOf(disk)
           n == Head(o.files).name
<1>0. /\ o \in Object /\ Counts(o, S) /\ UNCHANGED dirLock /\ mem \in [Instances -> Object]
      /\ IsFiniteSet(S) /\ S \subseteq Names /\ Total(S) \in Nat
      /\ o.writer \in {"unlink", "subtract"}
  BY Own, FilesHere DEF CountsHere, IInv, WriterUnlink, WriterSubtract, WriterAt
<1>1. o.files \in Seq(File) /\ o.files # <<>>
  BY <1>0, Own DEF Object, Sound
<1>2. n \in Names /\ Size[n] \in Nat
  BY <1>1, HeadOrTail, L2Assumption
<1>3. o.tracked \in Nat /\ o.call \in {"idle", "enqueue"}
  BY <1>0 DEF Object, Counts
<1>4. CASE WriterUnlink(i)
  <2>1. o.writer = "unlink" /\ S \subseteq NamesOf(o.files) \cup o.refused
    BY <1>0, <1>4 DEF WriterUnlink, WriterAt, Counts
  <2>2. S \ {n} \subseteq NamesOf(Tail(o.files)) \cup o.refused
    BY <1>1, <2>1, HeadOrTail
  <2>4. CASE /\ OnDisk(n) /\ disk' = Removed(n)
             /\ mem' = [mem EXCEPT ![i].writer = "subtract"]
    <3> DEFINE m == [o EXCEPT !.writer = "subtract"]
    <3>1. mem'[i] = m
      BY <1>0, <2>4
    <3>2. /\ m.writer = "subtract" /\ m.files = o.files /\ m.life = o.life
          /\ m.call = o.call /\ m.tracked = o.tracked /\ m.refused = o.refused
      BY <1>0 DEF Object
    <3>3. n \in S
      BY <2>4 DEF OnDisk
    <3> HIDE DEF m
    <3>8. NamesOf(disk') = S \ {n} /\ \A j \in DOMAIN disk' : ~ disk'[j].bad
      <4>1. disk' = Removed(n)
        BY <2>4
      <4>2. DiskOK /\ \A j \in DOMAIN disk : ~ disk[j].bad
        BY DEF IInv, CountsHere
      <4> HIDE DEF n
      <4> QED BY <4>1, <4>2, RemovedIsOneLess
    <3>4. Total(S) = Size[n] + Total(S \ {n}) /\ Total(S \ {n}) \in Nat
      <4>1. IsFiniteSet(S \ {n}) /\ S \ {n} \subseteq Names
        BY <1>0, FS_Subset
      <4> QED BY <1>0, <3>3, <4>1, TotalRemove, TotalNat
    <3>5. o.life \in {"open", "joining"} => o.tracked >= Total(S)
      BY <1>0 DEF Counts
    <3> HIDE DEF S
    <3>6. o.life \in {"open", "joining"} =>
             o.tracked >= Total(S \ {n}) /\ o.tracked >= Total(S \ {n}) + Size[n]
      BY <1>0, <1>2, <1>3, <3>4, <3>5
    <3>7. Counts(m, S \ {n})
      BY <1>3, <2>2, <3>2, <3>6 DEF Counts
    <3> QED BY <1>0, <3>8, <3>1, <3>2, <3>7 DEF CountsHere
  <2>5. CASE /\ mem' = [mem EXCEPT ![i].writer = "scan", ![i].files = Tail(@),
                                   ![i].refused = @ \cup {n}]
             /\ UNCHANGED disk
    <3> DEFINE m == [o EXCEPT !.writer = "scan", !.files = Tail(@), !.refused = @ \cup {n}]
    <3>1. mem'[i] = m
      BY <1>0, <2>5
    <3>2. /\ m.writer = "scan" /\ m.files = Tail(o.files) /\ m.life = o.life
          /\ m.call = o.call /\ m.tracked = o.tracked /\ m.refused = o.refused \cup {n}
      BY <1>0 DEF Object
    <3>3. S \subseteq NamesOf(Tail(o.files)) \cup (o.refused \cup {n})
      BY <2>2
    <3> HIDE DEF m
    <3>4. Counts(m, S)
      BY <1>0, <3>2, <3>3 DEF Counts
    <3> QED BY <1>0, <2>5, <3>1, <3>2, <3>4 DEF CountsHere
  <2> QED BY <1>4, <2>4, <2>5 DEF WriterUnlink
<1>5. CASE WriterSubtract(i)
  <2> DEFINE c == IF o.tracked > Size[n] THEN o.tracked - Size[n] ELSE 0
             m == [o EXCEPT !.writer = "scan", !.files = Tail(@), !.tracked = c]
  <2>1. mem'[i] = m /\ UNCHANGED disk /\ o.writer = "subtract"
    BY <1>0, <1>5 DEF WriterSubtract, WriterAt
  <2>2. /\ m.writer = "scan" /\ m.files = Tail(o.files) /\ m.life = o.life
        /\ m.call = o.call /\ m.tracked = c /\ m.refused = o.refused
    BY <1>0 DEF Object
  <2>3. o.life \in {"open", "joining"} => Total(S) = 0 \/ o.tracked >= Total(S) + Size[n]
    BY <1>0, <2>1, TotalEmpty DEF Counts
  <2>4. S \subseteq NamesOf(Tail(o.files)) \cup o.refused
    BY <1>0, <2>1 DEF Counts
  <2> HIDE DEF m, S, n
  <2>5. o.life \in {"open", "joining"} => c >= Total(S)
    BY <1>0, <1>2, <1>3, <2>3
  <2> HIDE DEF c
  <2>6. Counts(m, S)
    BY <1>3, <2>2, <2>4, <2>5 DEF Counts
  <2> QED BY <1>0, <2>1, <2>2, <2>6 DEF CountsHere, S
<1> QED BY <1>4, <1>5


LEMMA CountInit == Init /\ IInv => CInv
<1> SUFFICES ASSUME Init, IInv PROVE CInv
  OBVIOUS
<1>1. \A i \in Instances : mem[i] = Blank /\ dirLock # i
  BY L2Assumption DEF Init
<1>2. Blank.call = "idle" /\ Blank.writer = "none" /\ Blank.life = "off"
  BY DEF Blank
<1>3. Counts(Blank, NamesOf(disk))
  BY <1>2 DEF Counts
<1> QED BY <1>1, <1>2, <1>3, InitialDisk DEF CInv

LEMMA CountNext == Alone /\ IInv /\ CInv /\ [Next]_vars => CInv'
<1>1. CASE UNCHANGED vars
  BY <1>1 DEF vars, CInv
<1>2. ASSUME Alone, IInv, CInv, Next PROVE CInv'
  <2>1. ~ \E k \in DOMAIN disk : Spoil(k)
    BY <1>2 DEF Spoil, Alone
  <2>2. PICK i \in Instances : \/ Start(i) \/ Caller(i) \/ WriterStep(i) \/ WriterGate(i)
                               \/ Crash(i) \/ Discard(i)
    BY <1>2, <2>1 DEF Next
  <2>3. Only(i) /\ "rmtree" \notin Faults
    BY <1>2 DEF Alone, Only
  <2>4. CountsHere(i)
    BY <1>2, <2>3, CountsOfOne
  <2>5. mem[i].call \in {"idle", "enqueue"}
    BY <2>4 DEF CountsHere, Counts
  <2>6. CountsHere(i)'
    <3>1. CASE Caller(i)
      <4>1. CASE \E k \in DOMAIN disk : LookupLoad(i, k)
        BY <1>2, <2>4, <4>1, LookupCounts
      <4>2. CASE \/ \E n \in Names : InsertCheck(i, n)
                 \/ InsertEnqueue(i) \/ BeginRequest(i) \/ EndRequest(i) \/ Shutdown(i)
        BY <1>2, <2>4, <4>2, CallerCounts
      <4>3. CASE Clear(i)
        BY <1>2, <2>3, <2>4, <4>3, ClearCounts
      <4>4. CASE ShutdownFinish(i)
        BY <1>2, <2>3, <2>4, <4>4, LifeCounts
      <4>5. CASE LookupUnlink(i) \/ LookupRecount(i)
        BY <2>5, <4>5 DEF LookupUnlink, LookupRecount
      <4> QED BY <3>1, <4>1, <4>2, <4>3, <4>4, <4>5 DEF Caller
    <3>2. CASE WriterStep(i) \/ WriterGate(i)
      <4>1. CASE \/ WriterGate(i) \/ WriterGet(i) \/ WriterCheckEpoch(i) \/ WriterSave(i)
                 \/ WriterPayload(i) \/ WriterExists(i) \/ WriterOverBudget(i) \/ WriterScan(i)
        BY <1>2, <2>4, <4>1, WriterCounts
      <4>2. CASE WriterReplace(i)
        BY <1>2, <2>4, <4>2, ReplaceCounts
      <4>3. CASE WriterWalk(i) \/ WriterObserve(i)
        BY <1>2, <2>4, <4>3, WalkCounts
      <4>4. CASE WriterUnlink(i) \/ WriterSubtract(i)
        BY <1>2, <2>4, <4>4, EvictCounts
      <4> QED BY <3>2, <4>1, <4>2, <4>3, <4>4 DEF WriterStep
    <3>3. CASE Start(i) \/ Crash(i) \/ Discard(i)
      BY <1>2, <2>3, <2>4, <3>3, LifeCounts
    <3> QED BY <2>2, <3>1, <3>2, <3>3
  <2> QED BY <2>3, <2>6, CountsOfOne
<1> QED BY <1>1, <1>2

\* The writer scene of the run is a behaviour of the module.
WInv == scene = "writer" => IInv /\ CInv

LEMMA SceneInvariant == Alone => (L2Spec => []WInv)
<1> SUFFICES ASSUME Alone PROVE L2Spec => []WInv
  OBVIOUS
<1> DEFINE SceneInit == \/ scene = "writer" /\ Init
                        \/ scene = "shared" /\ Two!Init
           SceneNext == /\ \/ scene = "writer" /\ Next
                           \/ scene = "shared" /\ Two!Next
                        /\ UNCHANGED scene
<1>1. SceneInit => WInv
  <2> SUFFICES ASSUME scene = "writer", Init PROVE WInv
    BY DEF WInv
  <2> QED BY InvariantInit, CountInit DEF WInv
<1>2. WInv /\ [SceneNext]_<<vars, scene>> => WInv'
  <2> SUFFICES ASSUME WInv, scene' = "writer", [SceneNext]_<<vars, scene>>
               PROVE  (IInv /\ CInv)'
    BY DEF WInv
  <2>1. scene = "writer" /\ [Next]_vars
    OBVIOUS
  <2> QED BY <2>1, InvariantNext, CountNext DEF WInv
<1> QED BY <1>1, <1>2, PTL DEF L2Spec

\* One instance that has the directory to itself, whatever its slots, files and
\* budget, and whether or not saves and unlinks fail, shutdown gives up waiting or the process
\* dies (cache/prefix_l2.py _evict_to_budget, clear, _write_payload): jobs and slots
\* are accounted for, and the count of bytes is never below what the directory
\* holds.  A second instance, an unreadable file or a failing rmtree break the
\* count (see the README), hence the hypothesis.
THEOREM WriterAccountsAlways == Alone => (L2Spec => []WriterAccounts)
<1> SUFFICES ASSUME Alone PROVE L2Spec => []WriterAccounts
  OBVIOUS
<1>1. WInv => WriterAccounts
  <2> SUFFICES ASSUME IInv, CInv PROVE JobsAccountedFor /\ NeverUndercounts
    BY DEF WInv, WriterAccounts
  <2>1. JobsAccountedFor
    BY JobsFromInvariant
  <2>2. ASSUME NEW i \in Instances, writable(i)
        PROVE  mem[i].tracked >= BytesOf(disk)
    <3>1. mem[i].life \in {"open", "joining"} /\ Counts(mem[i], NamesOf(disk))
      BY <2>2 DEF CInv, writable
    <3> QED BY <3>1, FilesHere DEF Counts
  <2> QED BY <2>1, <2>2 DEF NeverUndercounts
<1> QED BY <1>1, SceneInvariant, PTL

\* When the writer of an instance that has the directory to itself comes back
\* from a published file, the directory is within its budget, if it has one, or
\* holds only files that this eviction could not unlink (prefix_l2.py
\* _evict_to_budget: a budget of 0 is none, and an OSError is passed over).
THEOREM PublishesWithinBudgetAlways ==
    Alone /\ MaxBytes > 0 => (L2Spec => PublishesWithinBudget)
<1> SUFFICES ASSUME Alone, MaxBytes > 0 PROVE L2Spec => PublishesWithinBudget
  OBVIOUS
<1>1. ASSUME IInv, CInv, Next PROVE BudgetAfterPublish
  <2> SUFFICES ASSUME NEW i \in Instances, mem[i].writer \in {"evict", "scan"},
                      mem[i].life = "open", mem'[i].writer = "get"
               PROVE  BytesOf(disk') <= MaxBytes \/ NamesOf(disk') \subseteq mem[i].refused
    BY DEF BudgetAfterPublish
  <2>0. /\ mem \in [Instances -> Object] /\ mem[i] \in Object /\ Sound(mem[i]) /\ MaxBytes \in Nat
        /\ \A j \in Instances : j = i
        /\ Counts(mem[i], NamesOf(disk)) /\ dirLock = i
        /\ Total(NamesOf(disk)) \in Nat /\ BytesOf(disk) = Total(NamesOf(disk))
    BY <1>1, Own, FilesHere, L2Assumption DEF Alone, CInv, IInv
  <2>1. /\ mem[i].tracked \in Nat /\ mem[i].tracked >= BytesOf(disk)
        /\ mem[i].writer = "scan" =>
              NamesOf(disk) \subseteq NamesOf(mem[i].files) \cup mem[i].refused
    BY <2>0 DEF Counts, Object
  <2>2. WriterOverBudget(i) \/ WriterScan(i)
    <3>1. mem'[i].writer # mem[i].writer
      OBVIOUS
    <3>2. ~ \E k \in DOMAIN disk : Spoil(k)
      BY <3>1 DEF Spoil
    <3>3. ~ (Start(i) \/ Crash(i) \/ Discard(i))
      BY <2>0 DEF Start, Crash, Discard, Blank
    <3>4. ~ Caller(i)
      <4> SUFFICES ASSUME Caller(i) PROVE mem'[i].writer = mem[i].writer
        BY <3>1
      <4> QED BY <2>0 DEF Caller, InsertCheck, InsertEnqueue, LookupLoad, LookupUnlink,
                          LookupRecount, BeginRequest, EndRequest, Clear, Shutdown,
                          ShutdownFinish, Object
    <3>5. WriterStep(i) \/ WriterGate(i)
      BY <1>1, <2>0, <3>2, <3>3, <3>4 DEF Next
    <3> QED BY <3>5 DEF WriterStep, WriterAt, WriterGate, WriterGet, WriterCheckEpoch, WriterSave,
                        WriterPayload, WriterExists, WriterReplace, WriterWalk, WriterObserve,
                        WriterUnlink, WriterSubtract
  <2>3. UNCHANGED disk
    BY <2>2 DEF WriterOverBudget, WriterScan
  <2>4. CASE WriterOverBudget(i)
    <3>1. CASE mem[i].tracked > MaxBytes
      <4>1. mem' = [mem EXCEPT ![i].writer = "walk"]
        BY <2>0, <2>4, <3>1 DEF WriterOverBudget, writable
      <4>2. mem'[i].writer = "walk"
        BY <2>0, <4>1 DEF Object
      <4> QED BY <4>2
    <3>2. CASE ~ (mem[i].tracked > MaxBytes)
      BY <2>0, <2>1, <2>3, <3>2
    <3> QED BY <3>1, <3>2
  <2>5. CASE WriterScan(i)
    <3>1. CASE mem[i].files = <<>>
      <4>1. NamesOf(disk) \subseteq mem[i].refused
        BY <2>1, <2>5, <3>1, NoBytes DEF WriterScan, WriterAt
      <4> QED BY <2>3, <4>1
    <3>2. CASE mem[i].tracked <= MaxBytes
      BY <2>0, <2>1, <2>3, <3>2
    <3>3. CASE mem[i].files # <<>> /\ ~ (mem[i].tracked <= MaxBytes)
      <4>1. mem' = [mem EXCEPT ![i].writer = "unlink"]
        BY <2>5, <3>3 DEF WriterScan
      <4>2. mem'[i].writer = "unlink"
        BY <2>0, <4>1 DEF Object
      <4> QED BY <4>2
    <3> QED BY <3>1, <3>2, <3>3
  <2> QED BY <2>2, <2>4, <2>5
<1>2. WInv /\ [ /\ \/ scene = "writer" /\ Next
                   \/ scene = "shared" /\ Two!Next
                /\ UNCHANGED scene ]_<<vars, scene>>
        => [scene = "writer" => BudgetAfterPublish]_L2Vars
  BY <1>1 DEF WInv, L2Vars
<1> QED BY <1>2, SceneInvariant, PTL DEF L2Spec, PublishesWithinBudget

\* For every number of instances and whatever fails: a file that appears in the
\* directory was accepted after the last clear() of the instance that publishes it
\* (prefix_l2.py _write_payload looks at the epoch again, under the lock).
LEMMA PublishStep ==
    ASSUME IInv, Next
    PROVE  NoStalePublish
<1> SUFFICES ASSUME NEW n \in Names, ~ OnDisk(n), n \in NamesOf(disk')
             PROVE  \E i \in Instances : /\ mem[i].job.name = n
                                         /\ mem[i].job.epoch = mem'[i].epoch
  BY DEF NoStalePublish, OnDisk
<1>0. DiskOK /\ mem \in [Instances -> Object]
  BY DEF IInv
<1>1. n \notin NamesOf(disk) /\ disk' # disk
  BY DEF OnDisk
<1>2. ~ \E k \in DOMAIN disk : Spoil(k)
  BY <1>1, SpoilStep
<1>3. PICK i \in Instances : \/ Start(i) \/ Caller(i) \/ WriterStep(i) \/ WriterGate(i)
                             \/ Crash(i) \/ Discard(i)
  BY <1>2 DEF Next
<1>4. ASSUME NEW x, disk' = Removed(x) PROVE FALSE
  <2>1. NamesOf(Removed(x)) = NamesOf(disk) \ {x}
    BY <1>0, RemovedIsOneLess
  <2> QED BY <1>1, <1>4, <2>1
<1>5. ~ (Start(i) \/ Crash(i) \/ Discard(i) \/ WriterGate(i))
  BY <1>1 DEF Start, Crash, Discard, WriterGate
<1>6. ~ Caller(i)
  <2>1. ~ Clear(i)
    BY <1>1, ClearStep
  <2>2. ~ LookupUnlink(i)
    BY <1>1, <1>4 DEF LookupUnlink
  <2>3. ~ \E k \in DOMAIN disk : LookupLoad(i, k)
    <3> SUFFICES ASSUME NEW k \in DOMAIN disk, LookupLoad(i, k) PROVE FALSE
      OBVIOUS
    <3>1. disk' = Newest(disk[k].name)
      BY <1>1 DEF LookupLoad
    <3>2. disk[k].name \in NamesOf(disk) /\ disk[k].name \in Names
      BY <1>0, NamesFinite DEF NamesOf, DiskOK
    <3>3. NamesOf(disk') = NamesOf(disk) \cup {disk[k].name}
      BY <1>0, <3>1, <3>2, NewestIsOneMore
    <3> QED BY <1>1, <3>2, <3>3
  <2>4. ~ (\/ \E x \in Names : InsertCheck(i, x)
           \/ InsertEnqueue(i) \/ LookupRecount(i) \/ BeginRequest(i) \/ EndRequest(i)
           \/ Shutdown(i) \/ ShutdownFinish(i))
    BY <1>1 DEF InsertCheck, InsertEnqueue, LookupRecount, BeginRequest, EndRequest, Shutdown,
                ShutdownFinish
  <2> QED BY <2>1, <2>2, <2>3, <2>4 DEF Caller
<1>7. WriterReplace(i)
  <2>1. ~ WriterUnlink(i)
    BY <1>1, <1>4 DEF WriterUnlink
  <2>2. ~ (\/ WriterGet(i) \/ WriterCheckEpoch(i) \/ WriterSave(i) \/ WriterPayload(i)
           \/ WriterExists(i) \/ WriterOverBudget(i) \/ WriterWalk(i)
           \/ WriterObserve(i) \/ WriterScan(i) \/ WriterSubtract(i))
    BY <1>1 DEF WriterGet, WriterCheckEpoch, WriterSave, WriterPayload, WriterExists,
                WriterOverBudget, WriterWalk, WriterObserve, WriterScan, WriterSubtract
  <2> QED BY <1>3, <1>5, <1>6, <2>1, <2>2 DEF WriterStep
<1>8. /\ mem[i].job.epoch = mem[i].epoch /\ disk' = Newest(mem[i].job.name)
      /\ mem' = [mem EXCEPT ![i].writer = "evict", ![i].tracked = @ + Size[mem[i].job.name]]
  BY <1>1, <1>7 DEF WriterReplace
<1>9. mem'[i].epoch = mem[i].epoch
  BY <1>0, <1>8 DEF Object
<1>10. mem[i].job.name \in Names
  <2>1. mem[i].writer \in Busy
    BY <1>7 DEF WriterReplace, WriterAt, Busy
  <2> QED BY <2>1, Own DEF Sound
<1>11. NamesOf(disk') = NamesOf(disk) \cup {mem[i].job.name}
  BY <1>0, <1>8, <1>10, NewestIsOneMore
<1>12. mem[i].job.name = n
  BY <1>1, <1>11
<1> QED BY <1>8, <1>9, <1>12

\* For every number of instances and slots, and whatever fails: no file of before a
\* clear() appears after it, however far its write had got.
THEOREM PublishesNothingStaleAlways == L2Spec => PublishesNothingStale
<1> DEFINE SceneInit == \/ scene = "writer" /\ Init
                        \/ scene = "shared" /\ Two!Init
           SceneNext == /\ \/ scene = "writer" /\ Next
                           \/ scene = "shared" /\ Two!Next
                        /\ UNCHANGED scene
           Inv == scene = "writer" => IInv
<1>1. SceneInit => Inv
  BY InvariantInit
<1>2. Inv /\ [SceneNext]_<<vars, scene>> => Inv'
  <2> SUFFICES ASSUME Inv, scene' = "writer", [SceneNext]_<<vars, scene>>
               PROVE  IInv'
    OBVIOUS
  <2>1. scene = "writer" /\ [Next]_vars
    OBVIOUS
  <2> QED BY <2>1, InvariantNext
<1>3. Inv /\ [SceneNext]_<<vars, scene>> => [scene = "writer" => NoStalePublish]_L2Vars
  BY PublishStep DEF L2Vars
<1> QED BY <1>1, <1>2, <1>3, PTL DEF L2Spec, PublishesNothingStale

(* --------------------------- several instances -------------------------- *)

\* The lock is given up only by the instance that holds it, and not while its
\* writer has a job, if shutdown waits for the writer.
LEMMA OwnerInit == Init => OInv
BY DEF Init, OInv, Blank, Ended

\* A step of instance i that leaves the lock alone.
LEMMA OwnerQuiet ==
    ASSUME IInv, OInv, NEW i \in Instances, NEW m, mem' = [mem EXCEPT ![i] = m],
           UNCHANGED dirLock, m.life = mem[i].life \/ {m.life, mem[i].life} \subseteq {"open", "joining"},
           m.writer # "none" => mem[i].writer # "none",
           m.writer \notin {"none", "done", "dead"} => m.life \in {"open", "joining"},
           m.call = "unlink" => mem[i].call = "unlink" \/ dirLock = i
    PROVE  OInv'
<1>1. mem'[i] = m /\ \A j \in Instances \ {i} : mem'[j] = mem[j]
  BY DEF IInv
<1> QED BY <1>1 DEF OInv, Ended

LEMMA OwnerCaller ==
    ASSUME IInv, OInv, NEW i \in Instances, Caller(i), ~ ShutdownFinish(i)
    PROVE  OInv'
<1>0. mem \in [Instances -> Object] /\ mem[i] \in Object /\ UNCHANGED dirLock
  BY Own DEF IInv, Caller, InsertCheck, InsertEnqueue, LookupLoad, LookupUnlink, LookupRecount,
             BeginRequest, EndRequest, Clear, Shutdown
<1>1. \E m : mem' = [mem EXCEPT ![i] = m]
  <2>1. \E m : Becomes(i, m)
    <3>1. CASE \E n \in Names : InsertCheck(i, n)
      BY <3>1, InsertCheckStep
    <3>2. CASE \E k \in DOMAIN disk : LookupLoad(i, k)
      BY <3>2, LookupLoadStep
    <3>3. CASE \/ InsertEnqueue(i) \/ LookupUnlink(i) \/ LookupRecount(i) \/ BeginRequest(i)
               \/ EndRequest(i) \/ Clear(i) \/ Shutdown(i)
      BY <3>3, InsertEnqueueStep, LookupUnlinkStep, LookupRecountStep, BeginRequestStep,
         EndRequestStep, ClearStep, ShutdownStep
    <3> QED BY <3>1, <3>2, <3>3 DEF Caller
  <2> QED BY <2>1 DEF Becomes
<1>2. PICK m : mem' = [mem EXCEPT ![i] = m]
  BY <1>1
<1>3. mem'[i] = m
  BY <1>2, After
<1>4. /\ m.writer = mem[i].writer
      /\ m.life = mem[i].life \/ {m.life, mem[i].life} \subseteq {"open", "joining"}
      /\ m.call = "unlink" => mem[i].call = "unlink" \/ dirLock = i
  <2> DEFINE o == mem[i]
  <2>1. CASE \E n \in Names : InsertCheck(i, n)
    <3>1. PICK n \in Names : mem' = [mem EXCEPT ![i].call = "enqueue", ![i].arg = n]
      BY <2>1 DEF InsertCheck
    <3>2. mem'[i].writer = o.writer /\ mem'[i].life = o.life /\ mem'[i].call = "enqueue"
      BY <1>0, <3>1 DEF Object
    <3> QED BY <1>3, <3>2
  <2>2. CASE InsertEnqueue(i)
    BY <1>0, <1>3, <2>2 DEF InsertEnqueue, Object
  <2>3. CASE \E k \in DOMAIN disk : LookupLoad(i, k)
    BY <1>0, <1>3, <2>3 DEF LookupLoad, Object, writable
  <2>4. CASE LookupUnlink(i)
    BY <1>0, <1>3, <2>4 DEF LookupUnlink, Object
  <2>5. CASE LookupRecount(i)
    BY <1>0, <1>3, <2>5 DEF LookupRecount, Object
  <2>6. CASE BeginRequest(i) \/ EndRequest(i)
    BY <1>0, <1>3, <2>6 DEF BeginRequest, EndRequest, Object
  <2>7. CASE Clear(i)
    <3>1. PICK c : mem' = [mem EXCEPT ![i].epoch = @ + 1, ![i].tracked = c]
      BY <2>7 DEF Clear
    <3>2. mem'[i].writer = o.writer /\ mem'[i].life = o.life /\ mem'[i].call = o.call
      BY <1>0, <3>1 DEF Object
    <3> QED BY <1>3, <3>2
  <2>8. CASE Shutdown(i)
    <3>1. o.life = "open"
      BY <2>8 DEF Shutdown, Idle
    <3>2. PICK q : mem' = [mem EXCEPT ![i].life = "joining", ![i].gate = TRUE, ![i].queue = q]
      BY <2>8 DEF Shutdown
    <3>3. mem'[i].writer = o.writer /\ mem'[i].life = "joining" /\ mem'[i].call = o.call
      BY <1>0, <3>2 DEF Object
    <3> QED BY <1>3, <3>1, <3>3
  <2> QED BY <2>1, <2>2, <2>3, <2>4, <2>5, <2>6, <2>7, <2>8 DEF Caller
<1>5. m.writer \notin {"none", "done", "dead"} => m.life \in {"open", "joining"}
  BY <1>4 DEF OInv, Ended
<1> QED BY <1>0, <1>2, <1>4, <1>5, OwnerQuiet

LEMMA OwnerWriter ==
    ASSUME IInv, OInv, NEW i \in Instances, WriterStep(i) \/ WriterGate(i)
    PROVE  OInv'
<1>0. mem \in [Instances -> Object] /\ mem[i] \in Object /\ UNCHANGED dirLock
  BY Own DEF IInv, WriterStep, WriterGate, WriterGet, WriterCheckEpoch, WriterSave,
             WriterPayload, WriterExists, WriterReplace, WriterOverBudget, WriterWalk,
             WriterObserve, WriterScan, WriterUnlink, WriterSubtract
<1>1. \E m : Becomes(i, m)
  <2>2. CASE \/ WriterGate(i) \/ WriterGet(i) \/ WriterCheckEpoch(i) \/ WriterSave(i)
             \/ WriterPayload(i) \/ WriterExists(i) \/ WriterReplace(i)
    BY <2>2, WriterGateStep, WriterGetStep, WriterCheckEpochStep, WriterSaveStep,
       WriterPayloadStep, WriterExistsStep, WriterReplaceStep
  <2>3. CASE \/ WriterOverBudget(i) \/ WriterWalk(i) \/ WriterObserve(i) \/ WriterScan(i)
             \/ WriterUnlink(i) \/ WriterSubtract(i)
    BY <2>3, WriterOverBudgetStep, WriterWalkStep, WriterObserveStep, WriterScanStep,
       WriterUnlinkStep, WriterSubtractStep
  <2> QED BY <2>2, <2>3 DEF WriterStep
<1>2. PICK m : mem' = [mem EXCEPT ![i] = m]
  BY <1>1 DEF Becomes
<1>3. mem'[i] = m
  BY <1>2, After
<1>4. m.life = mem[i].life /\ m.call = mem[i].call
  <2> DEFINE o == mem[i]
  <2>1. ASSUME NEW pc, mem' = JobDone(i, pc)
        PROVE  m.life = o.life /\ m.call = o.call
    <3>1. mem'[i].life = o.life /\ mem'[i].call = o.call
      BY <1>0, <2>1 DEF JobDone, Object
    <3> QED BY <1>3, <3>1
  <2>2. CASE WriterGate(i) \/ WriterGet(i) \/ WriterWalk(i) \/ WriterObserve(i) \/ WriterSubtract(i)
    BY <1>0, <1>3, <2>2 DEF WriterGate, WriterGet, WriterWalk, WriterObserve, WriterSubtract, Object
  <2>3. CASE WriterCheckEpoch(i) \/ WriterPayload(i) \/ WriterExists(i) \/ WriterOverBudget(i)
                \/ WriterScan(i)
    BY <1>0, <1>3, <2>1, <2>3 DEF WriterCheckEpoch, WriterPayload, WriterExists,
                                  WriterOverBudget, WriterScan, Object
  <2>4. CASE WriterSave(i)
    BY <1>0, <1>3, <2>1, <2>4 DEF WriterSave, Object
  <2>5. CASE WriterReplace(i)
    BY <1>0, <1>3, <2>1, <2>5 DEF WriterReplace, Object
  <2>6. CASE WriterUnlink(i)
    BY <1>0, <1>3, <2>6 DEF WriterUnlink, Object
  <2> QED BY <2>2, <2>3, <2>4, <2>5, <2>6 DEF WriterStep
<1>5. mem[i].writer \in Busy \cup {"get"}
  BY DEF WriterStep, WriterAt, WriterGate, WriterGet, WriterCheckEpoch, WriterSave,
         WriterPayload, WriterExists, WriterReplace, WriterOverBudget, WriterWalk,
         WriterObserve, WriterScan, WriterUnlink, WriterSubtract, Busy
<1>6. mem[i].writer # "none"
  BY <1>5 DEF Busy
<1>7. m.life \in {"open", "joining"}
  BY <1>4, <1>5 DEF OInv, Ended, Busy
<1> QED BY <1>0, <1>2, <1>4, <1>6, <1>7, OwnerQuiet

LEMMA OwnerLife ==
    ASSUME IInv, OInv, "timeout" \notin Faults, NEW i \in Instances,
           Start(i) \/ ShutdownFinish(i) \/ Crash(i) \/ Discard(i)
    PROVE  OInv'
<1>0. /\ mem \in [Instances -> Object] /\ mem[i] \in Object /\ Sound(mem[i])
      /\ None \notin Instances
  BY Own, L2Assumption DEF IInv
<1>1. ASSUME NEW j \in Instances, j # i, mem'[j] = mem[j]
      PROVE  /\ mem'[j].writer # "none" /\ mem'[j].life \in {"open", "joining"} => dirLock' = j
             /\ ~ Ended(j)' => mem'[j].life \in {"open", "joining"}
             /\ mem'[j].call = "unlink" => dirLock' = j
  <2>1. dirLock = j => dirLock' = j
    BY <1>0, <1>1 DEF Start, ShutdownFinish, Crash, Discard, writable
  <2> QED BY <1>1, <2>1 DEF OInv, Ended
<1>2. CASE Start(i)
  <2>1. PICK w \in {"get", "none"} :
          /\ mem' = [mem EXCEPT ![i] = [Blank EXCEPT !.life = "open", !.tracked = BytesOf(disk),
                                                     !.writer = w]]
          /\ w = "get" => dirLock' = i
    BY <1>2 DEF Start
  <2>2. mem'[i] = [Blank EXCEPT !.life = "open", !.tracked = BytesOf(disk), !.writer = w]
    BY <2>1, After
  <2>3. mem'[i].life = "open" /\ mem'[i].writer = w /\ mem'[i].call = "idle"
    BY <2>2 DEF Blank
  <2>4. \A j \in Instances : j # i => mem'[j] = mem[j]
    BY <1>0, <2>1
  <2> QED BY <1>1, <2>1, <2>3, <2>4 DEF OInv
<1>3. CASE ShutdownFinish(i)
  <2>1. mem' = [mem EXCEPT ![i].life = "closed", ![i].stop = TRUE] /\ Ended(i)
        /\ mem[i].life = "joining"
    BY <1>3 DEF ShutdownFinish
  <2>2. mem'[i].life = "closed" /\ mem'[i].writer = mem[i].writer /\ mem'[i].call = mem[i].call
    BY <1>0, <2>1 DEF Object
  <2>3. mem[i].call = "idle"
    BY <1>0, <2>1 DEF Sound
  <2>4. \A j \in Instances : j # i => mem'[j] = mem[j]
    BY <1>0, <2>1
  <2> QED BY <1>1, <2>1, <2>2, <2>3, <2>4 DEF OInv, Ended
<1>4. CASE Crash(i) \/ Discard(i)
  <2>1. mem' = [mem EXCEPT ![i] = Blank]
    BY <1>4 DEF Crash, Discard
  <2>2. mem'[i] = Blank
    BY <2>1, After
  <2>3. Blank.writer = "none" /\ Blank.call = "idle" /\ Blank.life = "off"
    BY DEF Blank
  <2>4. \A j \in Instances : j # i => mem'[j] = mem[j]
    BY <1>0, <2>1
  <2> QED BY <1>1, <2>2, <2>3, <2>4 DEF OInv, Ended
<1> QED BY <1>2, <1>3, <1>4

LEMMA OwnerNext ==
    ASSUME "timeout" \notin Faults
    PROVE  IInv /\ OInv /\ [Next]_vars => OInv'
<1>1. CASE UNCHANGED vars
  BY <1>1 DEF vars, OInv, Ended
<1>2. ASSUME IInv, OInv, Next PROVE OInv'
  <2>1. CASE \E k \in DOMAIN disk : Spoil(k)
    BY <1>2, <2>1 DEF Spoil, OInv, Ended
  <2>2. CASE \E i \in Instances : \/ Start(i) \/ Caller(i) \/ WriterStep(i) \/ WriterGate(i)
                                  \/ Crash(i) \/ Discard(i)
    BY <1>2, <2>2, OwnerCaller, OwnerWriter, OwnerLife
  <2> QED BY <1>2, <2>1, <2>2 DEF Next
<1> QED BY <1>1, <1>2

\* A step that changes which files there are is one of the instance with the lock.
LEMMA OwnerStep ==
    ASSUME IInv, OInv, Next
    PROVE  OnlyOwnerWrites
<1> SUFFICES ASSUME NamesOf(disk) # NamesOf(disk')
             PROVE  \E i \in Instances : dirLock = i /\ mem'[i] # mem[i]
  BY DEF OnlyOwnerWrites
<1>0. DiskOK /\ mem \in [Instances -> Object]
  BY DEF IInv
<1>1. disk' # disk
  OBVIOUS
<1>2. ~ \E k \in DOMAIN disk : Spoil(k)
  BY SpoilStep
<1>3. PICK i \in Instances : \/ Start(i) \/ Caller(i) \/ WriterStep(i) \/ WriterGate(i)
                             \/ Crash(i) \/ Discard(i)
  BY <1>2 DEF Next
<1>4. mem[i] \in Object
  BY Own
<1>5. ~ (Start(i) \/ Crash(i) \/ Discard(i) \/ WriterGate(i))
  BY <1>1 DEF Start, Crash, Discard, WriterGate
<1>6. CASE Caller(i)
  <2>1. ~ \E k \in DOMAIN disk : LookupLoad(i, k)
    <3> SUFFICES ASSUME NEW k \in DOMAIN disk, LookupLoad(i, k) PROVE FALSE
      OBVIOUS
    <3>1. disk' = Newest(disk[k].name)
      BY <1>1 DEF LookupLoad
    <3>2. disk[k].name \in NamesOf(disk) /\ disk[k].name \in Names
      BY <1>0, NamesFinite DEF NamesOf, DiskOK
    <3>3. NamesOf(disk') = NamesOf(disk) \cup {disk[k].name}
      BY <1>0, <3>1, <3>2, NewestIsOneMore
    <3> QED BY <3>2, <3>3
  <2>2. ~ (\/ \E x \in Names : InsertCheck(i, x)
           \/ InsertEnqueue(i) \/ LookupRecount(i) \/ BeginRequest(i) \/ EndRequest(i)
           \/ Shutdown(i) \/ ShutdownFinish(i))
    BY <1>1 DEF InsertCheck, InsertEnqueue, LookupRecount, BeginRequest, EndRequest, Shutdown,
                ShutdownFinish
  <2>3. CASE Clear(i)
    <3>1. mem'[i].epoch = mem[i].epoch + 1 /\ dirLock = i
      BY <1>0, <1>4, <2>3 DEF Clear, writable, Object
    <3>2. mem[i].epoch \in Nat
      BY <1>4, L2Assumption DEF Object
    <3>3. mem'[i].epoch # mem[i].epoch
      BY <3>1, <3>2
    <3> QED BY <3>1, <3>3
  <2>4. CASE LookupUnlink(i)
    <3>1. mem'[i].call # "unlink" /\ mem[i].call = "unlink"
      BY <1>0, <1>4, <2>4 DEF LookupUnlink, Object
    <3>2. dirLock = i
      BY <3>1 DEF OInv
    <3> QED BY <3>1, <3>2
  <2> QED BY <1>6, <2>1, <2>2, <2>3, <2>4 DEF Caller
<1>7. CASE WriterStep(i)
  <2>1. ~ (\/ WriterGet(i) \/ WriterCheckEpoch(i) \/ WriterSave(i) \/ WriterPayload(i)
           \/ WriterExists(i) \/ WriterOverBudget(i) \/ WriterWalk(i)
           \/ WriterObserve(i) \/ WriterScan(i) \/ WriterSubtract(i))
    BY <1>1 DEF WriterGet, WriterCheckEpoch, WriterSave, WriterPayload, WriterExists,
                WriterOverBudget, WriterWalk, WriterObserve, WriterScan, WriterSubtract
  <2>2. mem[i].writer \in {"replace", "unlink"}
    BY <1>7, <2>1 DEF WriterStep, WriterReplace, WriterUnlink, WriterAt
  <2>3. dirLock = i
    BY <2>2 DEF OInv, Ended
  <2>4. mem'[i].writer \in {"evict", "get", "subtract", "scan"}
    <3>1. CASE WriterReplace(i)
      <4>1. mem' = [mem EXCEPT ![i].writer = "evict", ![i].tracked = @ + Size[mem[i].job.name]]
        BY <1>1, <3>1 DEF WriterReplace
      <4>2. mem'[i].writer = "evict"
        BY <1>0, <1>4, <4>1 DEF Object
      <4> QED BY <4>2
    <3>2. CASE WriterUnlink(i)
      BY <1>0, <1>4, <3>2 DEF WriterUnlink, Object
    <3> QED BY <1>7, <2>1, <3>1, <3>2 DEF WriterStep
  <2>5. mem'[i].writer # mem[i].writer
    BY <2>2, <2>4
  <2> QED BY <2>3, <2>5
<1> QED BY <1>3, <1>5, <1>6, <1>7

\* For every number of instances on one directory, as long as shutdown waits for
\* its writer: only the instance with the flock adds or removes a file
\* (prefix_l2.py __init__ takes l2.lock; insert_async, clear, _unlink_if_writable
\* and the writer ask for it).  With a join that gives up, the writer of a closed
\* instance goes on after the lock is given up (see the README).
THEOREM OnlyOwnerWritesAlways ==
    "timeout" \notin Faults => (Spec => [][OnlyOwnerWrites]_vars)
<1> SUFFICES ASSUME "timeout" \notin Faults PROVE Spec => [][OnlyOwnerWrites]_vars
  OBVIOUS
<1>1. IInv /\ OInv /\ [Next]_vars => OInv'
  BY OwnerNext
<1>2. IInv /\ OInv /\ [Next]_vars => [OnlyOwnerWrites]_vars
  BY OwnerStep
<1> QED BY <1>1, <1>2, OwnerInit, InvariantHolds, PTL DEF Spec
=============================================================================
