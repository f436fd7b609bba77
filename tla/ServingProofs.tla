----------------------------- MODULE ServingProofs -----------------------------
(***************************************************************************)
(* What holds of the server for every number of connections, models and    *)
(* recent requests, and of the registry of cache managers for every number *)
(* of threads, models and configurations.                                  *)
(***************************************************************************)
EXTENDS MCServing, TLAPS, FiniteSetTheorems, SequenceTheorems

(* ------------------------- the server's invariant ----------------------- *)

Items == {"context", "token", "last", "end", "error"}

\* Places at which the worker has an id that is not recorded yet.
Unrecorded == {"hide", "plain", "record", "escape", "prepare", "flow", "run", "finalize"}

Places == {"idle", "load", "enter", "close", "except"} \cup Unrecorded

Types ==
    /\ client \in [Handlers -> {"new", "waiting", "reading", "done"}]
    /\ rqueue \in [Handlers -> Seq(Items)]
    /\ taken \in [Handlers -> Nat]
    /\ ended \in [Handlers -> Handlers \cup {None}]
    /\ lastBy \in Handlers \cup {None}
    /\ requests \in Seq(Handlers)
    /\ worker \in [pc : Places, job : Handlers \cup {None}, rid : Nat \cup {None}]
    /\ provider \in [model : Models \cup {None}, draft : BOOLEAN]
    /\ live \in Nat \cup {None} /\ total \in Nat /\ recent \in Seq(Nat)
    /\ issued \in Nat
    /\ server \in {"serving", "stopping", "closed"}

\* A request is with its thread, in the queue, at the worker or answered: at one
\* place at a time, and its response queue is written by the worker alone.
Jobs ==
    /\ worker.pc = "idle" <=> worker.job = None
    /\ \A i, j \in DOMAIN requests : requests[i] = requests[j] => i = j
    /\ \A i \in DOMAIN requests : /\ client[requests[i]] # "new"
                                  /\ rqueue[requests[i]] = <<>>
                                  /\ requests[i] # worker.job
    /\ \A h \in Handlers : client[h] = "new" => rqueue[h] = <<>> /\ worker.job # h
    /\ worker.job # None => (Ended(worker.job) <=> worker.pc = "record")

InQueue(h) == \E i \in DOMAIN requests : requests[i] = h

Alive(h) == client[h] \in {"waiting", "reading"}

OneEnd(q) == \A i \in DOMAIN q : q[i] \in {"end", "error"} => i = Len(q)

Replies ==
    \A h \in Handlers :
        /\ OneEnd(rqueue[h])
        /\ taken[h] <= Len(rqueue[h])
        /\ Alive(h) /\ Ended(h) => Waiting(h)
        /\ Alive(h) => InQueue(h) \/ worker.job = h \/ Ended(h)

\* Replies that came to their end and are not in the worker's hands any more.
Done == {h \in Handlers : /\ Ended(h) /\ rqueue[h][Len(rqueue[h])] = "end"
                          /\ worker.job # h}

\* Ids are given in order, recorded in order, and shown between their first
\* response and their record.
Books ==
    /\ IF worker.pc \in {"idle", "load", "enter"} THEN worker.rid = None
       ELSE worker.rid = issued /\ issued > 0
    /\ live # None => live = worker.rid
    /\ worker.pc \in {"plain", "run", "record", "escape", "finalize"} => live = worker.rid
    /\ worker.pc \in {"idle", "load", "enter", "close"} => live = None
    /\ \A i, j \in DOMAIN recent : i < j => recent[i] < recent[j]
    /\ \A i \in DOMAIN recent : recent[i] <= issued
    /\ total <= issued
    /\ worker.pc \in Unrecorded =>
          total < issued /\ \A i \in DOMAIN recent : recent[i] < issued
    /\ Len(recent) = IF total < RecentMax THEN total ELSE RecentMax

\* Each finished reply is recorded, and the one about to be closed as well.
Recordings ==
    /\ worker.pc = "close" => Cardinality(Done) + 1 <= total
    /\ Cardinality(Done) <= total

Engine ==
    /\ worker.pc \in {"enter", "hide", "prepare", "flow", "run"} =>
          provider = [model |-> ModelOf[worker.job], draft |-> TRUE]
    /\ worker.pc \in {"plain", "record", "escape"} => provider.model # None
    /\ worker.pc \notin {"plain", "record", "escape"} /\ provider.model # None => provider.draft
    /\ server = "closed" => worker.pc = "idle"

SInv == Types /\ Jobs /\ Replies /\ Books /\ Recordings /\ Engine


(* ------------------------------ sequences ------------------------------- *)

LEMMA AppendFacts ==
    ASSUME NEW S, NEW q \in Seq(S), NEW x \in S
    PROVE  /\ Append(q, x) \in Seq(S)
           /\ Len(Append(q, x)) = Len(q) + 1
           /\ Append(q, x) # <<>>
           /\ \A i \in DOMAIN Append(q, x) :
                 Append(q, x)[i] = IF i = Len(q) + 1 THEN x ELSE q[i]
           /\ DOMAIN Append(q, x) = 1..(Len(q) + 1)
           /\ DOMAIN q = 1..Len(q) /\ Len(q) \in Nat
  OBVIOUS

LEMMA TailFacts ==
    ASSUME NEW S, NEW q \in Seq(S), q # <<>>
    PROVE  /\ Tail(q) \in Seq(S) /\ Head(q) \in S /\ Head(q) = q[1]
           /\ DOMAIN q = 1..Len(q) /\ Len(q) \in Nat /\ Len(q) > 0
           /\ DOMAIN Tail(q) = 1..(Len(q) - 1)
           /\ \A i \in DOMAIN Tail(q) : Tail(q)[i] = q[i + 1] /\ i + 1 \in DOMAIN q
  OBVIOUS

LEMMA SubSeqFacts ==
    ASSUME NEW S, NEW q \in Seq(S), NEW a \in Nat, NEW b \in Nat, 1 <= a, a <= b + 1, b <= Len(q)
    PROVE  /\ SubSeq(q, a, b) \in Seq(S)
           /\ Len(SubSeq(q, a, b)) = b - a + 1
           /\ \A i \in 1..(b - a + 1) : SubSeq(q, a, b)[i] = q[a + i - 1]
  OBVIOUS

\* A response queue before its end and after it.
LEMMA EndFacts ==
    ASSUME NEW q \in Seq(Items), NEW x \in Items, OneEnd(q),
           ~(q # <<>> /\ q[Len(q)] \in {"end", "error"})
    PROVE  /\ OneEnd(Append(q, x))
           /\ Append(q, x)[Len(Append(q, x))] = x
           /\ \A i \in DOMAIN q : q[i] \notin {"end", "error"}
<1> USE AppendFacts
<1>1. \A i \in DOMAIN q : q[i] \notin {"end", "error"}
  BY DEF OneEnd
<1>2. Append(q, x)[Len(Append(q, x))] = x
  OBVIOUS
<1>3. OneEnd(Append(q, x))
  BY <1>1 DEF OneEnd
<1> QED
  BY <1>1, <1>2, <1>3

(* ------------------------- what a step of it does ------------------------ *)

\* The worker takes the next request.
Taking ==
    /\ worker.pc = "idle" /\ requests # <<>> /\ server = "serving"
    /\ worker' = [pc |-> "load", job |-> Head(requests), rid |-> None]
    /\ requests' = Tail(requests) /\ rqueue' = rqueue

\* It goes on with its request without a word, or says something in between.
GoingOn ==
    /\ worker.pc # "idle" /\ worker.job' = worker.job /\ worker.pc' # "idle"
    /\ (worker.pc = "record") <=> (worker.pc' = "record")
    /\ requests' = requests
    /\ \/ rqueue' = rqueue
       \/ worker.pc # "record" /\ \E x \in {"context", "token", "last"} :
            rqueue' = [rqueue EXCEPT ![worker.job] = Append(@, x)]

\* It says the last word.
Ending ==
    /\ worker.pc \notin {"idle", "record"}
    /\ \/ worker' = Asleep
       \/ worker.job' = worker.job /\ worker.pc' = "record"
    /\ requests' = requests
    /\ \E x \in {"end", "error"} :
            rqueue' = [rqueue EXCEPT ![worker.job] = Append(@, x)]

\* It is through with a request that was answered by the base class.
Leaving ==
    /\ worker.pc = "record" /\ worker' = Asleep
    /\ requests' = requests /\ rqueue' = rqueue

LEMMA GenerateSteps ==
    ASSUME Types, Generate
    PROVE  /\ UNCHANGED clients /\ server' = server
           /\ Taking \/ GoingOn \/ Ending \/ Leaving
<1> USE DEF Types, Places, Unrecorded, Go, Put, Asleep, clients, books
<1>1. CASE NextJob
  BY <1>1 DEF NextJob, Taking
<1>2. CASE Load
  BY <1>2 DEF Load, GoingOn, Ending
<1>3. CASE Enter
  BY <1>3 DEF Enter, GoingOn
<1>4. CASE Hide
  BY <1>4 DEF Hide, GoingOn
<1>5. CASE PlainToken
  BY <1>5 DEF PlainToken, GoingOn
<1>6. CASE PlainEnd
  BY <1>6 DEF PlainEnd, GoingOn, Ending
<1>7. CASE PlainRecord
  BY <1>7 DEF PlainRecord, GoingOn, Leaving
<1>8. CASE Prepare
  BY <1>8 DEF Prepare, GoingOn
<1>9. CASE Flow
  BY <1>9 DEF Flow, GoingOn
<1>10. CASE Respond
  BY <1>10 DEF Respond, GoingOn
<1>11. CASE Cancelled
  BY <1>11 DEF Cancelled, GoingOn
<1>12. CASE Finalize
  BY <1>12 DEF Finalize, GoingOn
<1>13. CASE CloseReply
  BY <1>13 DEF CloseReply, Ending
<1>14. CASE Except
  BY <1>14 DEF Except, Ending
<1> QED
  BY <1>1, <1>2, <1>3, <1>4, <1>5, <1>6, <1>7, <1>8, <1>9, <1>10, <1>11, <1>12,
     <1>13, <1>14 DEF Generate

(* -------------------------------- types --------------------------------- *)

LEMMA TypesHold ==
    ASSUME Types, Jobs, Books, [Next]_vars
    PROVE  Types'
<1> USE ServingAssumption
<1>0. /\ requests \in Seq(Handlers) /\ recent \in Seq(Nat)
      /\ issued \in Nat /\ total \in Nat /\ live \in Nat \cup {None}
      /\ rqueue \in [Handlers -> Seq(Items)]
      /\ provider \in [model : Models \cup {None}, draft : BOOLEAN]
      /\ worker \in [pc : Places, job : Handlers \cup {None}, rid : Nat \cup {None}]
  BY DEF Types
<1>1. ASSUME NEW h \in Handlers, Post(h) PROVE Types'
  <2>1. requests' \in Seq(Handlers)
    BY <1>0, <1>1, AppendFacts DEF Post
  <2>2. client' \in [Handlers -> {"new", "waiting", "reading", "done"}]
    BY <1>1 DEF Types, Post
  <2> QED
    BY <1>1, <2>1, <2>2 DEF Types, Post, books
<1>2. ASSUME NEW h \in Handlers, GetContext(h) PROVE Types'
  BY <1>2 DEF Types, GetContext, Take, books
<1>3. ASSUME NEW h \in Handlers, Read(h) PROVE Types'
  BY <1>3 DEF Types, Read, Take, books
<1>4. ASSUME NEW h \in Handlers, HangUp(h) PROVE Types'
  BY <1>4 DEF Types, HangUp, Leave, books
<1>5. ASSUME NEW h \in Handlers, Salvage(h) PROVE Types'
  BY <1>5 DEF Types, Salvage, Leave, books
<1>6. CASE Generate
  <2>1. UNCHANGED <<client, taken, ended, lastBy, server>>
    BY <1>6, GenerateSteps DEF clients
  <2>2. requests' \in Seq(Handlers)
    <3>1. requests' = requests \/ (requests # <<>> /\ requests' = Tail(requests))
      BY <1>6, GenerateSteps DEF Taking, GoingOn, Ending, Leaving
    <3>2. requests # <<>> => Tail(requests) \in Seq(Handlers)
      BY <1>0
    <3> QED
      BY <1>0, <3>1, <3>2
  <2>3. rqueue' \in [Handlers -> Seq(Items)]
    <3>1. \A q \in Seq(Items), x \in Items : Append(q, x) \in Seq(Items)
      BY AppendFacts
    <3>2. worker.pc # "idle" => worker.job \in Handlers
      BY <1>0 DEF Jobs
    <3>3. \/ rqueue' = rqueue
          \/ worker.pc # "idle" /\ \E x \in Items :
                rqueue' = [rqueue EXCEPT ![worker.job] = Append(@, x)]
      BY <1>6, GenerateSteps DEF Taking, GoingOn, Ending, Leaving, Items
    <3>4. \A h \in Handlers, x \in Items : Append(rqueue[h], x) \in Seq(Items)
      BY <1>0, <3>1
    <3>5. CASE rqueue' = rqueue
      BY <1>0, <3>5
    <3>6. ASSUME NEW h \in Handlers, NEW x \in Items,
                 rqueue' = [rqueue EXCEPT ![h] = Append(@, x)]
          PROVE  rqueue' \in [Handlers -> Seq(Items)]
      <4> DEFINE new == Append(rqueue[h], x)
      <4>1. new \in Seq(Items)
        BY <3>4
      <4>2. rqueue' = [rqueue EXCEPT ![h] = new]
        BY <3>6
      <4> HIDE DEF new
      <4> QED
        BY <1>0, <4>1, <4>2
    <3> QED
      BY <3>2, <3>3, <3>5, <3>6
  <2>0. worker.pc # "idle" => worker.job \in Handlers /\ ModelOf[worker.job] \in Models
    BY <1>0 DEF Jobs
  <2>4. worker' \in [pc : Places, job : Handlers \cup {None}, rid : Nat \cup {None}]
    <3>1. CASE NextJob
      <4>1. Head(requests) \in Handlers
        BY <1>0, <3>1, TailFacts DEF NextJob
      <4> QED
        BY <3>1, <4>1 DEF NextJob, Places
    <3>2. CASE Enter
      <4>1. \E p \in Places : worker' = [worker EXCEPT !.rid = issued + 1, !.pc = p]
        BY <3>2 DEF Enter, Places, Unrecorded
      <4>2. issued + 1 \in Nat
        BY <1>0
      <4> QED
        BY <1>0, <4>1, <4>2
    <3>3. CASE ~NextJob /\ ~Enter
      <4>1. worker' = worker \/ worker' = Asleep \/ \E p \in Places : Go(p)
        BY <1>6, <3>3 DEF Generate, Load, Hide, PlainToken, PlainEnd, PlainRecord,
           Prepare, Flow, Respond, Cancelled, Finalize, CloseReply, Except, Places, Unrecorded
      <4>2. \A p \in Places : Go(p) => worker' \in
                [pc : Places, job : Handlers \cup {None}, rid : Nat \cup {None}]
        BY <1>0 DEF Go
      <4>3. Asleep \in [pc : Places, job : Handlers \cup {None}, rid : Nat \cup {None}]
        BY DEF Asleep, Places
      <4> QED
        BY <1>0, <4>1, <4>2, <4>3
    <3> QED
      BY <3>1, <3>2, <3>3
  <2>6. provider' \in [model : Models \cup {None}, draft : BOOLEAN]
    <3>1. \/ provider' = provider
          \/ \E m \in Models : provider' = [model |-> m, draft |-> TRUE]
          \/ provider' = [model |-> None, draft |-> FALSE]
          \/ \E d \in BOOLEAN : provider' = [provider EXCEPT !.draft = d]
      BY <1>6, <2>0 DEF Generate, NextJob, Load, Enter, Hide, PlainToken, PlainEnd, PlainRecord,
           Prepare, Flow, Respond, Cancelled, Finalize, CloseReply, Except
    <3>2. \A m \in Models \cup {None}, d \in BOOLEAN :
              [model |-> m, draft |-> d] \in [model : Models \cup {None}, draft : BOOLEAN]
      OBVIOUS
    <3>3. \A d \in BOOLEAN : [provider EXCEPT !.draft = d] = [model |-> provider.model, draft |-> d]
      BY <1>0
    <3>4. provider.model \in Models \cup {None} /\ TRUE \in BOOLEAN /\ FALSE \in BOOLEAN
      BY <1>0
    <3> QED
      BY <1>0, <3>1, <3>2, <3>3, <3>4, Zenon
  <2>7. issued' \in Nat
    BY <1>0, <1>6 DEF Generate, NextJob, Load, Enter, Hide, PlainToken, PlainEnd, PlainRecord,
           Prepare, Flow, Respond, Cancelled, Finalize, CloseReply, Except
  <2>8. live' \in Nat \cup {None} /\ total' \in Nat
    <3>1. \/ live' = live /\ total' = total
          \/ live' = worker.rid /\ total' = total
          \/ Cleared /\ total' \in {total, total + 1}
      BY <1>6 DEF Generate, NextJob, Load, Enter, Hide, PlainToken, PlainEnd, PlainRecord,
           Prepare, Flow, Respond, Cancelled, Finalize, CloseReply, Except, books, Recorded, Shown
    <3> QED
      BY <1>0, <3>1 DEF Cleared
  <2>5. recent' \in Seq(Nat)
    <3>1. CASE recent' = recent
      BY <1>0, <3>1
    <3>2. CASE Recorded /\ worker.rid \in Nat
      <4> DEFINE all == Append(recent, worker.rid)
      <4>1. all \in Seq(Nat)
        BY <1>0, <3>2
      <4> HIDE DEF all
      <4>2. \A a, b \in Nat : a >= 1 /\ b <= Len(all) => SubSeq(all, a, b) \in Seq(Nat)
        BY <4>1
      <4>3. recent' = SubSeq(all, IF Len(all) > RecentMax THEN 2 ELSE 1, Len(all))
        BY <3>2 DEF Recorded, all
      <4>4. Len(all) \in Nat
        BY <4>1
      <4> QED
        BY <4>1, <4>2, <4>3, <4>4
    <3>3. recent' = recent \/ (Recorded /\ worker.pc \in {"record", "finalize"})
      BY <1>6 DEF Generate, NextJob, Load, Enter, Hide, PlainToken, PlainEnd, PlainRecord,
         Prepare, Flow, Respond, Cancelled, Finalize, CloseReply, Except, books
    <3> QED
      BY <1>0, <3>1, <3>2, <3>3 DEF Books
  <2> QED
    BY <2>1, <2>2, <2>3, <2>4, <2>5, <2>6, <2>7, <2>8 DEF Types
<1>7. CASE Stop
  BY <1>7 DEF Types, Stop, clients, books
<1>8. CASE Close
  BY <1>8 DEF Types, Close, clients, books
<1>9. CASE UNCHANGED vars
  BY <1>9 DEF Types, vars, clients, books
<1> QED
  BY <1>1, <1>2, <1>3, <1>4, <1>5, <1>6, <1>7, <1>8, <1>9 DEF Next

(* ------------------ one place at a time, one end at last ----------------- *)

\* The last word makes an end of it, any other does not.
LEMMA PutFacts ==
    ASSUME Types, Jobs, Replies, worker.pc \notin {"idle", "record"}, NEW x \in Items,
           rqueue' = [rqueue EXCEPT ![worker.job] = Append(@, x)]
    PROVE  /\ worker.job \in Handlers
           /\ \A h \in Handlers : h # worker.job => rqueue'[h] = rqueue[h]
           /\ OneEnd(rqueue'[worker.job])
           /\ Len(rqueue'[worker.job]) = Len(rqueue[worker.job]) + 1
           /\ rqueue'[worker.job] # <<>>
           /\ rqueue'[worker.job][Len(rqueue'[worker.job])] = x
           /\ Len(rqueue[worker.job]) \in Nat
<1>1. worker.job \in Handlers /\ ~Ended(worker.job)
  BY DEF Types, Jobs
<1> DEFINE q == rqueue[worker.job]
<1>2. q \in Seq(Items) /\ OneEnd(q) /\ ~(q # <<>> /\ q[Len(q)] \in {"end", "error"})
  BY <1>1 DEF Types, Replies, Ended
<1>3. /\ rqueue'[worker.job] = Append(q, x)
      /\ \A h \in Handlers : h # worker.job => rqueue'[h] = rqueue[h]
  BY <1>1 DEF Types
<1> HIDE DEF q
<1>4. /\ OneEnd(Append(q, x)) /\ Append(q, x)[Len(Append(q, x))] = x
  BY <1>2, EndFacts
<1>5. Len(Append(q, x)) = Len(q) + 1 /\ Append(q, x) # <<>> /\ Len(q) \in Nat
  BY <1>2, AppendFacts
<1> QED
  BY <1>1, <1>3, <1>4, <1>5 DEF q

LEMMA JobsHold ==
    ASSUME Types, Jobs, Replies, [Next]_vars
    PROVE  Jobs'
<1> USE ServingAssumption
<1>0. /\ requests \in Seq(Handlers) /\ client \in [Handlers -> {"new", "waiting", "reading", "done"}]
      /\ worker.job \in Handlers \cup {None} /\ None \notin Handlers
  BY DEF Types
<1>1. ASSUME NEW h \in Handlers, Post(h) PROVE Jobs'
  <2>1. /\ client[h] = "new" /\ client' = [client EXCEPT ![h] = "waiting"]
        /\ requests' = Append(requests, h) /\ rqueue' = rqueue /\ worker' = worker
    BY <1>1 DEF Post
  <2>2. /\ DOMAIN requests' = 1..(Len(requests) + 1) /\ DOMAIN requests = 1..Len(requests)
        /\ \A i \in DOMAIN requests' : requests'[i] = IF i = Len(requests) + 1 THEN h ELSE requests[i]
        /\ Len(requests) \in Nat
    BY <1>0, <2>1, AppendFacts
  <2>3. \A i \in DOMAIN requests : requests[i] # h
    BY <2>1 DEF Jobs
  <2>4. rqueue[h] = <<>> /\ worker.job # h
    BY <2>1 DEF Jobs
  <2>5. \A k \in Handlers : client'[k] = IF k = h THEN "waiting" ELSE client[k]
    BY <1>0, <2>1
  <2>6. \A i \in DOMAIN requests' : requests'[i] = h \/ (i \in DOMAIN requests /\ requests'[i] = requests[i])
    BY <2>2
  <2>7. \A i \in DOMAIN requests' : requests'[i] \in Handlers
    BY <1>0, <2>6
  <2>8. \A i, j \in DOMAIN requests' : requests'[i] = requests'[j] => i = j
    <3> SUFFICES ASSUME NEW i \in DOMAIN requests', NEW j \in DOMAIN requests',
                        requests'[i] = requests'[j]
                 PROVE  i = j
      OBVIOUS
    <3>1. CASE i = Len(requests) + 1
      BY <2>2, <2>3, <3>1
    <3>2. CASE j = Len(requests) + 1
      BY <2>2, <2>3, <3>2
    <3>3. CASE i # Len(requests) + 1 /\ j # Len(requests) + 1
      <4>1. i \in DOMAIN requests /\ j \in DOMAIN requests
        BY <2>2, <3>3
      <4>2. requests[i] = requests[j]
        BY <2>2, <3>3
      <4> QED
        BY <4>1, <4>2 DEF Jobs
    <3> QED
      BY <3>1, <3>2, <3>3
  <2>9. \A i \in DOMAIN requests' : /\ client'[requests'[i]] # "new"
                                    /\ rqueue[requests'[i]] = <<>>
                                    /\ requests'[i] # worker.job
    BY <2>4, <2>5, <2>6, <2>7 DEF Jobs
  <2>10. \A k \in Handlers : client'[k] = "new" => rqueue[k] = <<>> /\ worker.job # k
    BY <2>5 DEF Jobs
  <2> QED
    BY <2>1, <2>8, <2>9, <2>10 DEF Jobs, Ended
<1>2. ASSUME NEW h \in Handlers, GetContext(h) \/ Read(h) \/ HangUp(h) \/ Salvage(h)
      PROVE Jobs'
  <2>1. /\ requests' = requests /\ rqueue' = rqueue /\ worker' = worker
        /\ \E to \in {"reading", "done"} : client' = [client EXCEPT ![h] = to]
    BY <1>2 DEF GetContext, Read, HangUp, Salvage, Take, Leave
  <2>2. \A k \in Handlers : client'[k] = "new" => client[k] = "new"
    BY <1>0, <2>1
  <2>3. \A i \in DOMAIN requests : requests[i] \in Handlers
    BY <1>0
  <2> QED
    BY <2>1, <2>2, <2>3 DEF Jobs, Ended
<1>3. CASE Generate
  <2>1. client' = client
    BY <1>3, GenerateSteps DEF clients
  <2>2. CASE Taking
    <3>1. /\ DOMAIN requests = 1..Len(requests) /\ Len(requests) \in Nat
          /\ 1 \in DOMAIN requests /\ Head(requests) = requests[1]
          /\ DOMAIN requests' = 1..(Len(requests) - 1)
          /\ \A i \in DOMAIN requests' : requests'[i] = requests[i + 1] /\ i + 1 \in DOMAIN requests
      BY <1>0, <2>2, TailFacts DEF Taking
    <3>2. worker'.pc = "load" /\ worker'.job = requests[1] /\ rqueue' = rqueue
      BY <2>2, <3>1 DEF Taking
    <3>3. requests[1] \in Handlers /\ rqueue[requests[1]] = <<>> /\ client[requests[1]] # "new"
      BY <1>0, <3>1 DEF Jobs
    <3>4. \A i \in DOMAIN requests' : i + 1 # 1
      BY <3>1
    <3>5. \A i \in DOMAIN requests' : requests'[i] # requests[1]
      BY <3>1, <3>4 DEF Jobs
    <3>6. \A i, j \in DOMAIN requests' : requests'[i] = requests'[j] => i = j
      <4>1. \A i, j \in DOMAIN requests' : i + 1 = j + 1 => i = j
        BY <3>1
      <4> QED
        BY <3>1, <4>1 DEF Jobs
    <3>7. \A i \in DOMAIN requests' : client[requests'[i]] # "new" /\ rqueue[requests'[i]] = <<>>
      BY <3>1 DEF Jobs
    <3>8. worker'.job # None
      BY <1>0, <3>2, <3>3
    <3>9. \A k \in Handlers : client[k] = "new" => rqueue[k] = <<>> /\ requests[1] # k
      BY <3>3 DEF Jobs
    <3>10. ~(rqueue'[worker'.job] # <<>> /\ rqueue'[worker'.job][Len(rqueue'[worker'.job])] \in {"end", "error"})
      BY <3>2, <3>3
    <3> QED
      BY <2>1, <3>2, <3>5, <3>6, <3>7, <3>8, <3>9, <3>10 DEF Jobs, Ended
  <2>3. CASE GoingOn
    <3>1. /\ worker.pc # "idle" /\ worker.job' = worker.job /\ worker.pc' # "idle"
          /\ (worker.pc = "record") <=> (worker.pc' = "record")
          /\ requests' = requests
      BY <2>3 DEF GoingOn
    <3>2. CASE rqueue' = rqueue
      BY <2>1, <3>1, <3>2 DEF Jobs, Ended
    <3>3. ASSUME worker.pc # "record", NEW x \in {"context", "token", "last"},
                 rqueue' = [rqueue EXCEPT ![worker.job] = Append(@, x)]
          PROVE  Jobs'
      <4>1. /\ worker.job \in Handlers
            /\ \A h \in Handlers : h # worker.job => rqueue'[h] = rqueue[h]
            /\ rqueue'[worker.job][Len(rqueue'[worker.job])] = x
        BY <3>1, <3>3, PutFacts DEF Items
      <4>2. ~Ended(worker.job)'
        BY <3>1, <4>1 DEF Ended
      <4>3. \A i \in DOMAIN requests : requests[i] \in Handlers
        BY <1>0
      <4>4. \A k \in Handlers : client[k] = "new" => worker.job # k /\ rqueue'[k] = <<>>
        BY <4>1 DEF Jobs
      <4>5. \A i \in DOMAIN requests : requests[i] # worker.job /\ rqueue'[requests[i]] = <<>>
        BY <4>1, <4>3 DEF Jobs
      <4> QED
        BY <2>1, <3>1, <3>3, <4>2, <4>4, <4>5 DEF Jobs
    <3> QED
      BY <2>3, <3>2, <3>3 DEF GoingOn
  <2>4. CASE Ending
    <3>1. PICK x \in {"end", "error"} :
              rqueue' = [rqueue EXCEPT ![worker.job] = Append(@, x)]
      BY <2>4 DEF Ending
    <3>2. worker.pc \notin {"idle", "record"} /\ requests' = requests
      BY <2>4 DEF Ending
    <3>3. /\ worker.job \in Handlers
          /\ \A h \in Handlers : h # worker.job => rqueue'[h] = rqueue[h]
          /\ rqueue'[worker.job][Len(rqueue'[worker.job])] = x
          /\ rqueue'[worker.job] # <<>>
      BY <3>1, <3>2, PutFacts DEF Items
    <3>4. \A i \in DOMAIN requests : requests[i] \in Handlers
      BY <1>0
    <3>5. \A k \in Handlers : client[k] = "new" => worker.job # k /\ rqueue'[k] = <<>>
      BY <3>3 DEF Jobs
    <3>6. \A i \in DOMAIN requests : requests[i] # worker.job /\ rqueue'[requests[i]] = <<>>
      BY <3>3, <3>4 DEF Jobs
    <3>7. \A i \in DOMAIN requests : requests[i] # None
      BY <1>0, <3>4
    <3>8. CASE worker' = Asleep
      <4>1. worker'.pc = "idle" /\ worker'.job = None
        BY <3>8 DEF Asleep
      <4> QED
        BY <1>0, <2>1, <3>2, <3>5, <3>6, <3>7, <4>1 DEF Jobs
    <3>9. CASE worker.job' = worker.job /\ worker.pc' = "record"
      <4>1. Ended(worker.job)'
        BY <3>3, <3>9 DEF Ended
      <4> QED
        BY <1>0, <2>1, <3>2, <3>3, <3>5, <3>6, <3>9, <4>1 DEF Jobs
    <3> QED
      BY <2>4, <3>8, <3>9 DEF Ending
  <2>5. CASE Leaving
    <3>1. worker'.pc = "idle" /\ worker'.job = None /\ requests' = requests /\ rqueue' = rqueue
      BY <2>5 DEF Leaving, Asleep
    <3>2. \A i \in DOMAIN requests : requests[i] # None
      BY <1>0
    <3> QED
      BY <1>0, <2>1, <3>1, <3>2 DEF Jobs
  <2> QED
    BY <1>3, <2>2, <2>3, <2>4, <2>5, GenerateSteps
<1>4. CASE Stop \/ Close \/ UNCHANGED vars
  BY <1>4 DEF Stop, Close, vars, clients, Jobs, Ended
<1> QED
  BY <1>1, <1>2, <1>3, <1>4 DEF Next

LEMMA RepliesHold ==
    ASSUME Types, Jobs, Replies, [Next]_vars
    PROVE  Replies'
<1> USE ServingAssumption
<1>0. /\ requests \in Seq(Handlers) /\ client \in [Handlers -> {"new", "waiting", "reading", "done"}]
      /\ worker.job \in Handlers \cup {None} /\ None \notin Handlers
      /\ taken \in [Handlers -> Nat] /\ rqueue \in [Handlers -> Seq(Items)]
  BY DEF Types
<1>00. \A h \in Handlers : rqueue[h] \in Seq(Items) /\ Len(rqueue[h]) \in Nat /\ taken[h] \in Nat
  BY <1>0
<1>1. ASSUME NEW h \in Handlers, Post(h) PROVE Replies'
  <2>1. /\ client' = [client EXCEPT ![h] = "waiting"] /\ client[h] = "new"
        /\ requests' = Append(requests, h) /\ rqueue' = rqueue /\ worker' = worker
        /\ taken' = taken
    BY <1>1 DEF Post
  <2>2. /\ DOMAIN requests' = 1..(Len(requests) + 1) /\ DOMAIN requests = 1..Len(requests)
        /\ \A i \in DOMAIN requests' : requests'[i] = IF i = Len(requests) + 1 THEN h ELSE requests[i]
        /\ Len(requests) \in Nat
    BY <1>0, <2>1, AppendFacts
  <2>3. \A k \in Handlers : InQueue(k) => InQueue(k)'
    BY <2>2 DEF InQueue
  <2>4. InQueue(h)'
    <3>1. Len(requests) + 1 \in DOMAIN requests' /\ requests'[Len(requests) + 1] = h
      BY <2>2
    <3> QED
      BY <3>1 DEF InQueue
  <2>5. rqueue[h] = <<>>
    BY <2>1 DEF Jobs
  <2>6. \A k \in Handlers : k # h => (Alive(k)' <=> Alive(k))
    BY <1>0, <2>1 DEF Alive
  <2> QED
    BY <2>1, <2>3, <2>4, <2>5, <2>6 DEF Replies, Ended, Waiting
<1>2. ASSUME NEW h \in Handlers, HangUp(h) \/ Salvage(h) PROVE Replies'
  <2>1. /\ client' = [client EXCEPT ![h] = "done"] /\ taken' = [taken EXCEPT ![h] = 0]
        /\ requests' = requests /\ rqueue' = rqueue /\ worker' = worker
    BY <1>2 DEF HangUp, Salvage, Leave
  <2>2. \A k \in Handlers : /\ k # h => (Alive(k)' <=> Alive(k)) /\ taken'[k] = taken[k]
                            /\ ~Alive(h)' /\ taken'[h] = 0
    BY <1>0, <2>1 DEF Alive
  <2> QED
    BY <1>00, <2>1, <2>2 DEF Replies, Ended, Waiting, InQueue
<1>3. ASSUME NEW h \in Handlers, GetContext(h) \/ Read(h) PROVE Replies'
  <2>1. PICK to \in {"reading", "done"} :
           /\ Take(h, to) /\ Waiting(h) /\ Alive(h)
           /\ Item(h) \in {"end", "error"} => to = "done"
    <3>1. CASE GetContext(h)
      BY <3>1 DEF GetContext, Take, Alive
    <3>2. CASE Read(h)
      BY <3>2 DEF Read, Take, Alive
    <3> QED
      BY <1>3, <3>1, <3>2
  <2>2. /\ requests' = requests /\ rqueue' = rqueue /\ worker' = worker
    BY <1>3 DEF GetContext, Read
  <2>3. \A k \in Handlers : k # h => (Alive(k)' <=> Alive(k)) /\ taken'[k] = taken[k]
    BY <1>0, <2>1 DEF Alive, Take
  <2>4. CASE to = "done"
    <3>1. ~Alive(h)' /\ taken'[h] = 0
      BY <1>0, <2>1, <2>4 DEF Alive, Take
    <3> QED
      BY <1>00, <2>2, <2>3, <3>1 DEF Replies, Ended, Waiting, InQueue
  <2>5. CASE to = "reading"
    <3>1. taken'[h] = taken[h] + 1 /\ taken[h] < Len(rqueue[h])
      BY <1>0, <2>1, <2>5 DEF Take, Waiting
    <3>2. rqueue[h][taken[h] + 1] \notin {"end", "error"}
      BY <2>1, <2>5 DEF Item
    <3>3. Ended(h) => taken[h] + 1 # Len(rqueue[h])
      BY <3>2 DEF Ended
    <3>4. taken[h] + 1 <= Len(rqueue[h]) /\ (Ended(h) => taken[h] + 1 < Len(rqueue[h]))
      BY <1>00, <3>1, <3>3
    <3> QED
      BY <2>1, <2>2, <2>3, <3>1, <3>4 DEF Replies, Ended, Waiting, InQueue
  <2> QED
    BY <2>4, <2>5
<1>4. CASE Generate
  <2>1. client' = client /\ taken' = taken
    BY <1>4, GenerateSteps DEF clients
  <2>2. CASE Taking
    <3>1. /\ DOMAIN requests = 1..Len(requests) /\ Len(requests) \in Nat
          /\ Head(requests) = requests[1]
          /\ DOMAIN requests' = 1..(Len(requests) - 1)
          /\ \A i \in DOMAIN requests' : requests'[i] = requests[i + 1]
      BY <1>0, <2>2, TailFacts DEF Taking
    <3>2. worker'.job = requests[1] /\ rqueue' = rqueue /\ worker.pc = "idle"
      BY <2>2, <3>1 DEF Taking
    <3>3. \A k \in Handlers : InQueue(k) => InQueue(k)' \/ worker'.job = k
      <4> SUFFICES ASSUME NEW k \in Handlers, NEW i \in DOMAIN requests, requests[i] = k, i # 1
                   PROVE  InQueue(k)'
        BY <3>2 DEF InQueue
      <4>1. i - 1 \in DOMAIN requests' /\ (i - 1) + 1 = i
        BY <3>1
      <4> QED
        BY <3>1, <4>1 DEF InQueue
    <3>4. worker.job = None
      BY <3>2 DEF Jobs
    <3> QED
      BY <1>0, <2>1, <3>2, <3>3, <3>4 DEF Replies, Ended, Waiting, Alive
  <2>3. ASSUME worker.pc \notin {"idle", "record"}, NEW x \in Items,
               rqueue' = [rqueue EXCEPT ![worker.job] = Append(@, x)],
               requests' = requests,
               worker'.job = worker.job \/ x \in {"end", "error"}
        PROVE  Replies'
    <3>1. /\ worker.job \in Handlers
          /\ \A h \in Handlers : h # worker.job => rqueue'[h] = rqueue[h]
          /\ OneEnd(rqueue'[worker.job])
          /\ Len(rqueue'[worker.job]) = Len(rqueue[worker.job]) + 1
          /\ rqueue'[worker.job] # <<>>
          /\ rqueue'[worker.job][Len(rqueue'[worker.job])] = x
      BY <2>3, PutFacts
    <3>2. taken[worker.job] < Len(rqueue'[worker.job])
      BY <1>00, <3>1 DEF Replies
    <3>3. \A h \in Handlers : (Alive(h)' <=> Alive(h)) /\ (InQueue(h)' <=> InQueue(h))
      BY <2>1, <2>3 DEF Alive, InQueue
    <3>4. \A h \in Handlers : h # worker.job =>
            (Ended(h)' <=> Ended(h)) /\ (Waiting(h)' <=> Waiting(h))
      BY <2>1, <3>1 DEF Ended, Waiting
    <3>5. x \in {"end", "error"} =>
            \A h \in Handlers : h = worker.job => Ended(h)'
      BY <3>1 DEF Ended
    <3>6. \A h \in Handlers : h = worker.job => Waiting(h)'
      BY <2>1, <3>2 DEF Waiting
    <3>7. \A h \in Handlers : OneEnd(rqueue'[h]) /\ taken'[h] <= Len(rqueue'[h])
      BY <1>00, <2>1, <3>1, <3>2 DEF Replies
    <3> QED
      BY <2>1, <2>3, <3>3, <3>4, <3>5, <3>6, <3>7 DEF Replies
  <2>4. CASE GoingOn
    <3>1. CASE rqueue' = rqueue
      BY <2>1, <2>4, <3>1 DEF GoingOn, Replies, Ended, Waiting, Alive, InQueue
    <3>2. CASE rqueue' # rqueue
      BY <2>3, <2>4, <3>2 DEF GoingOn, Items
    <3> QED
      BY <3>1, <3>2
  <2>5. CASE Ending
    BY <2>3, <2>5 DEF Ending, Items
  <2>6. CASE Leaving
    <3>1. worker.job \in Handlers /\ Ended(worker.job)
      BY <1>0, <2>6 DEF Leaving, Jobs
    <3> QED
      BY <2>1, <2>6, <3>1 DEF Leaving, Replies, Ended, Waiting, Alive, InQueue
  <2> QED
    BY <1>4, <2>2, <2>4, <2>5, <2>6, GenerateSteps
<1>5. CASE Stop \/ Close \/ UNCHANGED vars
  BY <1>5 DEF Stop, Close, vars, clients, Replies, Ended, Waiting, Alive, InQueue
<1> QED
  BY <1>1, <1>2, <1>3, <1>4, <1>5 DEF Next

(* ------------------------------ the books -------------------------------- *)

Increasing(q) == \A i, j \in DOMAIN q : i < j => q[i] < q[j]

\* The recent requests after one more, of which the first may have gone.
Newer(q, r, M) ==
    LET all == Append(q, r) IN SubSeq(all, IF Len(all) > M THEN 2 ELSE 1, Len(all))

\* They stay in order, and as many as there can be.
LEMMA RecentFacts ==
    ASSUME NEW q \in Seq(Nat), NEW r \in Nat, NEW M \in Nat \ {0}, Len(q) <= M,
           Increasing(q), \A i \in DOMAIN q : q[i] < r
    PROVE  /\ Len(Newer(q, r, M)) = IF Len(q) < M THEN Len(q) + 1 ELSE M
           /\ Increasing(Newer(q, r, M))
           /\ \A i \in DOMAIN Newer(q, r, M) : Newer(q, r, M)[i] <= r
<1> DEFINE all == Append(q, r)
           new == Newer(q, r, M)
<1>1. /\ all \in Seq(Nat) /\ Len(all) = Len(q) + 1 /\ DOMAIN all = 1..(Len(q) + 1)
      /\ \A i \in DOMAIN all : all[i] = IF i = Len(q) + 1 THEN r ELSE q[i]
      /\ DOMAIN q = 1..Len(q) /\ Len(q) \in Nat
  BY AppendFacts
<1>0. Len(q) \in Nat /\ M \in Nat /\ Len(q) <= M
  BY <1>1
<1>2. PICK d \in {0, 1} : new = SubSeq(all, d + 1, Len(all)) /\ (d = 1 <=> Len(q) = M)
  <2> DEFINE len == Len(q)
             long == Len(all)
  <2>1. new = SubSeq(all, IF long > M THEN 2 ELSE 1, long)
    BY DEF Newer
  <2>2. len \in Nat /\ M \in Nat /\ len <= M /\ long = len + 1
    BY <1>0, <1>1
  <2> HIDE DEF len, long, all, new
  <2>3. CASE len = M
    <3>1. (IF long > M THEN 2 ELSE 1) = 1 + 1
      BY <2>2, <2>3
    <3> QED
      BY <2>1, <2>3, <3>1 DEF len, long
  <2>4. CASE len # M
    <3>1. (IF long > M THEN 2 ELSE 1) = 0 + 1
      BY <2>2, <2>4
    <3> QED
      BY <2>1, <2>4, <3>1 DEF len, long
  <2> QED
    BY <2>3, <2>4
<1> HIDE DEF all, new
<1>3. /\ Len(new) = Len(q) + 1 - d /\ DOMAIN new = 1..(Len(q) + 1 - d)
      /\ \A i \in DOMAIN new : new[i] = all[i + d]
  <2> DEFINE len == Len(q)
  <2>0. len \in Nat /\ Len(all) = len + 1
    BY <1>0, <1>1
  <2> HIDE DEF len
  <2>1. /\ d + 1 \in Nat /\ Len(all) \in Nat /\ 1 <= d + 1 /\ d + 1 <= Len(all) + 1
        /\ Len(all) <= Len(all)
    BY <2>0
  <2>2. /\ new \in Seq(Nat)
        /\ Len(new) = Len(all) - (d + 1) + 1
        /\ \A i \in 1..(Len(all) - (d + 1) + 1) : new[i] = all[(d + 1) + i - 1]
    <3> DEFINE from == d + 1
               long == Len(all)
               part == SubSeq(all, from, long)
    <3>1. all \in Seq(Nat) /\ from \in Nat /\ long \in Nat /\ 1 <= from /\ from <= long + 1
      BY <1>1, <2>1
    <3>2. new = part
      BY <1>2
    <3>3. long <= Len(all)
      BY <2>1
    <3> HIDE DEF from, long
    <3>4. /\ part \in Seq(Nat) /\ Len(part) = long - from + 1
          /\ \A i \in 1..(long - from + 1) : part[i] = all[from + i - 1]
      BY <3>1, <3>3, SubSeqFacts
    <3> QED
      BY <3>2, <3>4, Zenon DEF from, long
  <2>8. new \in Seq(Nat)
    BY <2>2
  <2>7. (IF d + 1 <= Len(all) THEN Len(all) - (d + 1) + 1 ELSE 0) = Len(all) - (d + 1) + 1
    BY <2>0
  <2>3. Len(all) - (d + 1) + 1 = len + 1 - d
    BY <2>0
  <2>4. \A i \in 1..(len + 1 - d) : (d + 1) + i - 1 = i + d
    BY <2>0
  <2>5. DOMAIN new = 1..Len(new)
    BY <2>8
  <2> QED
    BY <2>2, <2>3, <2>4, <2>5 DEF len
<1>4. \A i, j \in DOMAIN all : i < j => all[i] < all[j]
  <2> SUFFICES ASSUME NEW i \in DOMAIN all, NEW j \in DOMAIN all, i < j
               PROVE  all[i] < all[j]
    OBVIOUS
  <2>1. i \in DOMAIN q /\ all[i] = q[i]
    BY <1>1
  <2>2. CASE j = Len(q) + 1
    BY <1>1, <2>1, <2>2
  <2>3. CASE j # Len(q) + 1
    <3>1. j \in DOMAIN q /\ all[j] = q[j]
      BY <1>1, <2>3
    <3> QED
      BY <2>1, <3>1 DEF Increasing
  <2> QED
    BY <2>2, <2>3
<1>5. \A i \in DOMAIN all : all[i] <= r
  <2> SUFFICES ASSUME NEW i \in DOMAIN all PROVE all[i] <= r
    OBVIOUS
  <2>1. CASE i = Len(q) + 1
    BY <1>1, <2>1
  <2>2. CASE i # Len(q) + 1
    <3>1. i \in DOMAIN q /\ all[i] = q[i]
      BY <1>1, <2>2
    <3>2. q[i] < r /\ q[i] \in Nat
      BY <3>1
    <3> QED
      BY <3>1, <3>2
  <2> QED
    BY <2>1, <2>2
<1>6. \A i \in DOMAIN new : i + d \in DOMAIN all /\ i \in Nat
  <2> DEFINE len == Len(q)
  <2>1. /\ len \in Nat /\ DOMAIN all = 1..(len + 1) /\ DOMAIN new = 1..(len + 1 - d)
    BY <1>0, <1>1, <1>3
  <2> HIDE DEF len
  <2> QED
    BY <2>1
<1>7. \A i \in DOMAIN new : new[i] <= r
  BY <1>3, <1>5, <1>6
<1>8. Increasing(new)
  <2> SUFFICES ASSUME NEW i \in DOMAIN new, NEW j \in DOMAIN new, i < j
               PROVE  new[i] < new[j]
    BY DEF Increasing
  <2>1. i + d < j + d
    BY <1>6
  <2>2. i + d \in DOMAIN all /\ j + d \in DOMAIN all
    BY <1>6
  <2>3. all[i + d] < all[j + d]
    BY <1>4, <2>1, <2>2
  <2> QED
    BY <1>3, <2>3
<1>9. Len(new) = IF Len(q) < M THEN Len(q) + 1 ELSE M
  <2> DEFINE len == Len(q)
             size == Len(new)
  <2>1. len \in Nat /\ M \in Nat /\ len <= M /\ size = len + 1 - d /\ (d = 1 <=> len = M)
    BY <1>0, <1>2, <1>3
  <2> HIDE DEF len, size
  <2>2. size = IF len < M THEN len + 1 ELSE M
    BY <2>1
  <2> QED
    BY <2>2 DEF len, size
<1> QED
  BY <1>7, <1>8, <1>9 DEF new

\* What a record makes of the books.
LEMMA RecordedFacts ==
    ASSUME Types, Books, Recorded, worker.pc \in {"record", "finalize"}
    PROVE  /\ live' = None /\ total' = total + 1 /\ total' <= issued
           /\ Increasing(recent') /\ \A i \in DOMAIN recent' : recent'[i] <= issued
           /\ Len(recent') = IF total' < RecentMax THEN total' ELSE RecentMax
<1>1. /\ worker.rid = issued /\ issued \in Nat /\ issued > 0 /\ live = issued
      /\ total < issued /\ total \in Nat
      /\ \A i \in DOMAIN recent : recent[i] < issued
  BY DEF Types, Books, Unrecorded
<1>2. /\ recent \in Seq(Nat) /\ Increasing(recent) /\ Len(recent) <= RecentMax
      /\ RecentMax \in Nat \ {0}
      /\ Len(recent) = IF total < RecentMax THEN total ELSE RecentMax
  BY <1>1, ServingAssumption DEF Types, Books, Increasing
<1>3. recent' = Newer(recent, issued, RecentMax)
  BY <1>1 DEF Recorded, Newer
<1>4. /\ Len(recent') = IF Len(recent) < RecentMax THEN Len(recent) + 1 ELSE RecentMax
      /\ Increasing(recent') /\ \A i \in DOMAIN recent' : recent'[i] <= issued
  <2>1. issued \in Nat /\ Len(recent) <= RecentMax /\ Increasing(recent)
        /\ \A i \in DOMAIN recent : recent[i] < issued
    BY <1>1, <1>2
  <2> QED
    BY <1>2, <1>3, <2>1, RecentFacts, Zenon
<1>5. live' = None /\ total' = total + 1
  BY <1>1 DEF Recorded, Cleared
<1>6. Len(recent') = IF total' < RecentMax THEN total' ELSE RecentMax
  BY <1>1, <1>2, <1>4, <1>5
<1> QED
  BY <1>1, <1>4, <1>5, <1>6

LEMMA BooksHold ==
    ASSUME Types, Jobs, Books, [Next]_vars
    PROVE  Books'
<1> USE ServingAssumption
<1>0. /\ issued \in Nat /\ None \notin Nat /\ total \in Nat
      /\ \A i \in DOMAIN recent : recent[i] \in Nat
      /\ worker.rid \in Nat \cup {None} /\ worker.pc \in Places
      /\ DOMAIN worker = {"pc", "job", "rid"}
  BY DEF Types
<1>00. worker = [pc |-> worker.pc, job |-> worker.job, rid |-> worker.rid]
  BY DEF Types
<1>1. CASE UNCHANGED <<worker, books, issued>>
  BY <1>1 DEF Books, books
<1>2. CASE NextJob
  <2>1. worker'.pc = "load" /\ worker'.rid = None /\ worker.pc = "idle" /\ UNCHANGED <<books, issued>>
    BY <1>2 DEF NextJob
  <2> QED
    BY <2>1 DEF Books, books, Unrecorded
<1>3. CASE Load
  <2>1. /\ worker'.pc \in {"enter", "idle"} /\ worker'.rid = None /\ worker.pc = "load"
        /\ UNCHANGED <<books, issued>>
    <3>1. worker.pc = "load" /\ UNCHANGED <<books, issued>>
      BY <1>3 DEF Load
    <3>2. worker.rid = None
      BY <3>1 DEF Books
    <3>3. worker' = Asleep \/ Go("enter")
      BY <1>3 DEF Load
    <3> QED
      BY <1>00, <3>1, <3>2, <3>3 DEF Asleep, Go
  <2> QED
    BY <2>1 DEF Books, books, Unrecorded
<1>4. CASE Enter
  <2>1. /\ worker'.pc \in {"hide", "prepare"} /\ worker'.rid = issued + 1 /\ worker.pc = "enter"
        /\ issued' = issued + 1 /\ UNCHANGED books
    BY <1>00, <1>4 DEF Enter
  <2>2. \A i \in DOMAIN recent : recent[i] < issued + 1 /\ recent[i] <= issued + 1
    BY <1>0 DEF Books
  <2> QED
    BY <1>0, <2>1, <2>2 DEF Books, books, Unrecorded
<1>5. CASE Hide
  <2>1. /\ worker.pc = "hide" /\ worker'.pc = "plain" /\ worker'.rid = worker.rid
        /\ live' = worker.rid /\ UNCHANGED <<total, recent, issued>>
    BY <1>00, <1>5 DEF Hide, Shown, Go
  <2> QED
    BY <1>0, <2>1 DEF Books, Unrecorded
<1>6. CASE PlainEnd
  <2>1. /\ worker.pc = "plain" /\ worker'.pc \in {"record", "escape"} /\ worker'.rid = worker.rid
        /\ UNCHANGED <<books, issued>>
    BY <1>00, <1>6 DEF PlainEnd, Go
  <2> QED
    BY <1>0, <2>1 DEF Books, books, Unrecorded
<1>7. CASE PlainRecord
  <2>1. CASE worker.pc = "record"
    <3>1. Recorded /\ worker'.pc = "idle" /\ worker'.rid = None /\ issued' = issued
      BY <1>7, <2>1 DEF PlainRecord, Asleep
    <3> QED
      BY <1>0, <2>1, <3>1, RecordedFacts DEF Books, Increasing, Unrecorded
  <2>2. CASE worker.pc = "escape"
    <3>1. worker'.pc = "except" /\ worker'.rid = worker.rid /\ UNCHANGED <<books, issued>>
      BY <1>00, <1>7, <2>2 DEF PlainRecord, Go
    <3> QED
      BY <1>0, <2>2, <3>1 DEF Books, books, Unrecorded
  <2> QED
    BY <1>7, <2>1, <2>2 DEF PlainRecord
<1>8. CASE Prepare
  <2>1. /\ worker.pc = "prepare" /\ worker'.pc \in {"flow", "except"} /\ worker'.rid = worker.rid
        /\ UNCHANGED <<books, issued>>
    BY <1>00, <1>8 DEF Prepare, Go
  <2> QED
    BY <1>0, <2>1 DEF Books, books, Unrecorded
<1>9. CASE Flow
  <2>1. /\ worker.pc = "flow" /\ worker'.rid = worker.rid
        /\ (live' = worker.rid /\ worker'.pc = "run") \/ (live' = live /\ worker'.pc = "except")
        /\ UNCHANGED <<total, recent, issued>>
    BY <1>00, <1>9 DEF Flow, Go, Shown
  <2> QED
    BY <1>0, <2>1 DEF Books, Unrecorded
<1>10. CASE Respond \/ Cancelled
  <2>1. /\ worker.pc = "run" /\ worker'.pc \in {"run", "finalize", "except"}
        /\ worker'.rid = worker.rid
        /\ UNCHANGED <<books, issued>>
    BY <1>00, <1>10 DEF Respond, Cancelled, Go
  <2> QED
    BY <1>0, <2>1 DEF Books, books, Unrecorded
<1>11. CASE Finalize
  <2>1. /\ worker.pc = "finalize" /\ worker'.pc \in {"close", "except"}
        /\ worker'.rid = worker.rid /\ issued' = issued /\ Recorded
    BY <1>00, <1>11 DEF Finalize, Go
  <2> QED
    BY <1>0, <2>1, RecordedFacts DEF Books, Increasing, Unrecorded
<1>12. CASE CloseReply \/ Except
  <2>1. /\ worker.pc \in {"close", "except"} /\ worker'.pc = "idle" /\ worker'.rid = None
        /\ \/ live' = live /\ worker.pc = "close"
           \/ Cleared
        /\ UNCHANGED <<total, recent, issued>>
    BY <1>12 DEF CloseReply, Except, Asleep, books
  <2>2. live' = None
    BY <1>0, <2>1 DEF Books, Cleared
  <2> QED
    BY <1>0, <2>1, <2>2 DEF Books, Unrecorded
<1> QED
  <2>1. ASSUME NEW h \in Handlers,
               Post(h) \/ GetContext(h) \/ Read(h) \/ HangUp(h) \/ Salvage(h)
        PROVE  UNCHANGED <<worker, books, issued>>
    BY <2>1 DEF Post, GetContext, Read, HangUp, Salvage
  <2>2. PlainToken \/ Stop \/ Close \/ UNCHANGED vars => UNCHANGED <<worker, books, issued>>
    BY DEF PlainToken, Stop, Close, vars
  <2> QED
    BY <1>1, <1>2, <1>3, <1>4, <1>5, <1>6, <1>7, <1>8, <1>9, <1>10, <1>11, <1>12, <2>1, <2>2
       DEF Next, Generate

(* ----------------------------- the recordings ---------------------------- *)

\* The finished replies before and after a step.
LEMMA DoneFacts ==
    /\ IsFiniteSet(Done) /\ Cardinality(Done) \in Nat
    /\ IsFiniteSet(Done') /\ Cardinality(Done)' \in Nat
    /\ Done' \subseteq Done => Cardinality(Done)' <= Cardinality(Done)
    /\ \A h : Done' \subseteq Done \cup {h} => Cardinality(Done)' <= Cardinality(Done) + 1
<1>1. IsFiniteSet(Done) /\ IsFiniteSet(Done')
  <2>1. Done \subseteq Handlers /\ Done' \subseteq Handlers
    BY DEF Done
  <2> QED
    BY <2>1, ServingAssumption, FS_Subset
<1>2. Cardinality(Done) \in Nat /\ Cardinality(Done') \in Nat
  BY <1>1, FS_CardinalityType
<1>3. Done' \subseteq Done => Cardinality(Done') <= Cardinality(Done)
  BY <1>1, FS_Subset
<1>4. ASSUME NEW h, Done' \subseteq Done \cup {h}
      PROVE  Cardinality(Done') <= Cardinality(Done) + 1
  <2>1. IsFiniteSet(Done \cup {h})
        /\ Cardinality(Done \cup {h}) = IF h \in Done THEN Cardinality(Done) ELSE Cardinality(Done) + 1
    BY <1>1, FS_AddElement
  <2>2. Cardinality(Done') <= Cardinality(Done \cup {h})
    BY <1>4, <2>1, FS_Subset
  <2> QED
    BY <1>2, <2>1, <2>2
<1> QED
  BY <1>1, <1>2, <1>3, <1>4

LEMMA RecordingsHold ==
    ASSUME Types, Jobs, Replies, Books, Recordings, [Next]_vars
    PROVE  Recordings'
<1> USE ServingAssumption
<1>0. /\ worker.job \in Handlers \cup {None} /\ None \notin Handlers /\ total \in Nat
      /\ \A h \in Handlers : rqueue[h] \in Seq(Items)
  BY DEF Types
<1>00. worker = [pc |-> worker.pc, job |-> worker.job, rid |-> worker.rid]
  BY DEF Types
\* Nothing of what counts is touched.
<1>1. ASSUME rqueue' = rqueue, worker'.job = worker.job, total' = total,
             worker'.pc # "close"
      PROVE  Recordings'
  <2>1. Done' = Done
    BY <1>1 DEF Done, Ended
  <2> QED
    BY <1>0, <1>1, <2>1 DEF Recordings
<1>2. CASE NextJob
  <2>1. /\ worker'.pc = "load" /\ worker.job = None /\ rqueue' = rqueue /\ total' = total
    BY <1>2 DEF NextJob, Jobs, books
  <2>2. Done' \subseteq Done
    BY <1>0, <2>1 DEF Done, Ended
  <2> QED
    BY <1>0, <2>1, <2>2, DoneFacts DEF Recordings
\* A word to the request in hand, which stays in hand or ends in an error.
<1>3. ASSUME worker.pc \notin {"idle", "record"}, total' = total, worker'.pc # "close",
             NEW x \in Items, rqueue' = [rqueue EXCEPT ![worker.job] = Append(@, x)],
             worker'.job = worker.job \/ x = "error"
      PROVE  Recordings'
  <2>1. /\ worker.job \in Handlers
        /\ \A h \in Handlers : h # worker.job => rqueue'[h] = rqueue[h]
        /\ rqueue'[worker.job][Len(rqueue'[worker.job])] = x
    BY <1>3, PutFacts
  <2>2. Done' \subseteq Done
    BY <1>3, <2>1 DEF Done, Ended
  <2> QED
    BY <1>0, <1>3, <2>2, DoneFacts DEF Recordings
<1>4. CASE Load
  <2>1. worker.pc = "load" /\ total' = total
    BY <1>4 DEF Load, books
  <2>2. \/ rqueue' = rqueue /\ Go("enter")
        \/ Put(worker.job, "error") /\ worker' = Asleep
    BY <1>4 DEF Load
  <2>3. CASE rqueue' = rqueue /\ Go("enter")
    <3>1. worker'.pc = "enter" /\ worker'.job = worker.job
      BY <1>00, <2>3 DEF Go
    <3> QED
      BY <1>1, <2>1, <2>3, <3>1
  <2>4. CASE Put(worker.job, "error") /\ worker' = Asleep
    BY <1>3, <2>1, <2>4 DEF Put, Asleep, Items
  <2> QED
    BY <2>2, <2>3, <2>4
<1>5. CASE Enter
  <2>1. /\ worker'.job = worker.job /\ worker'.pc # "close" /\ rqueue' = rqueue /\ total' = total
    BY <1>00, <1>5 DEF Enter, books
  <2> QED
    BY <1>1, <2>1
<1>6. CASE Hide \/ PlainToken \/ PlainEnd \/ Prepare \/ Flow \/ Respond \/ Cancelled
  <2>1. /\ worker'.job = worker.job /\ worker'.pc # "close" /\ worker.pc \notin {"idle", "record"}
    <3>1. worker' = worker \/ \E p \in {"plain", "record", "escape", "flow", "except", "run", "finalize"} : Go(p)
      BY <1>6 DEF Hide, PlainToken, PlainEnd, Prepare, Flow, Respond, Cancelled
    <3>2. worker.pc \notin {"idle", "record", "close"}
      BY <1>6 DEF Hide, PlainToken, PlainEnd, Prepare, Flow, Respond, Cancelled
    <3> QED
      BY <1>00, <3>1, <3>2 DEF Go
  <2>2. total' = total
    BY <1>6 DEF Hide, PlainToken, PlainEnd, Prepare, Flow, Respond, Cancelled, books
  <2>3. rqueue' = rqueue \/ \E x \in Items : Put(worker.job, x)
    BY <1>6 DEF Hide, PlainToken, PlainEnd, Prepare, Flow, Respond, Cancelled, Items
  <2> QED
    BY <1>1, <1>3, <2>1, <2>2, <2>3 DEF Put
<1>7. CASE PlainRecord
  <2>1. CASE worker.pc = "record"
    <3>1. Recorded /\ worker'.pc = "idle" /\ worker'.job = None /\ rqueue' = rqueue
      BY <1>7, <2>1 DEF PlainRecord, Asleep
    <3>2. total' = total + 1
      BY <2>1, <3>1, RecordedFacts
    <3>3. Done' \subseteq Done \cup {worker.job}
      BY <3>1 DEF Done, Ended
    <3>4. Cardinality(Done)' <= Cardinality(Done) + 1 /\ Cardinality(Done) \in Nat /\ Cardinality(Done)' \in Nat
      BY <3>3, DoneFacts
    <3> QED
      BY <1>0, <3>1, <3>2, <3>4 DEF Recordings
  <2>2. CASE worker.pc = "escape"
    <3>1. worker'.pc = "except" /\ worker'.job = worker.job /\ total' = total /\ rqueue' = rqueue
      BY <1>00, <1>7, <2>2 DEF PlainRecord, Go, books
    <3> QED
      BY <1>1, <3>1
  <2> QED
    BY <1>7, <2>1, <2>2 DEF PlainRecord
<1>8. CASE Finalize
  <2>1. /\ worker.pc = "finalize" /\ worker'.pc \in {"close", "except"}
        /\ worker'.job = worker.job /\ rqueue' = rqueue /\ Recorded
    BY <1>00, <1>8 DEF Finalize, Go
  <2>2. total' = total + 1
    BY <2>1, RecordedFacts
  <2>3. Done' = Done
    BY <2>1 DEF Done, Ended
  <2>4. Cardinality(Done) \in Nat
    BY DoneFacts
  <2> QED
    BY <1>0, <2>2, <2>3, <2>4 DEF Recordings
<1>9. CASE CloseReply
  <2>1. /\ worker.pc = "close" /\ worker'.pc = "idle" /\ worker'.job = None
        /\ rqueue' = [rqueue EXCEPT ![worker.job] = Append(@, "end")] /\ total' = total
    BY <1>9 DEF CloseReply, Asleep, Put, books
  <2>2. /\ worker.job \in Handlers
        /\ \A h \in Handlers : h # worker.job => rqueue'[h] = rqueue[h]
    BY <2>1, PutFacts DEF Items
  <2>3. Done' \subseteq Done \cup {worker.job}
    BY <2>1, <2>2 DEF Done, Ended
  <2>4. Cardinality(Done)' <= Cardinality(Done) + 1 /\ Cardinality(Done) \in Nat /\ Cardinality(Done)' \in Nat
    BY <2>3, DoneFacts
  <2> QED
    BY <1>0, <2>1, <2>4 DEF Recordings
<1>10. CASE Except
  <2>1. /\ worker.pc = "except" /\ worker'.pc = "idle" /\ total' = total
        /\ rqueue' = [rqueue EXCEPT ![worker.job] = Append(@, "error")]
    BY <1>10 DEF Except, Asleep, Put
  <2> QED
    BY <1>3, <2>1 DEF Items
<1>11. ASSUME UNCHANGED <<worker, rqueue, total>> PROVE Recordings'
  BY <1>11 DEF Recordings, Done, Ended
<1> QED
  <2>1. ASSUME NEW h \in Handlers,
               Post(h) \/ GetContext(h) \/ Read(h) \/ HangUp(h) \/ Salvage(h)
        PROVE  UNCHANGED <<worker, rqueue, total>>
    BY <2>1 DEF Post, GetContext, Read, HangUp, Salvage, books
  <2>2. Stop \/ Close \/ UNCHANGED vars => UNCHANGED <<worker, rqueue, total>>
    BY DEF Stop, Close, vars, books
  <2> QED
    BY <1>2, <1>4, <1>5, <1>6, <1>7, <1>8, <1>9, <1>10, <1>11, <2>1, <2>2
       DEF Next, Generate

(* ------------------------------- the engine ------------------------------ *)

LEMMA EngineHolds ==
    ASSUME Types, Jobs, Engine, [Next]_vars
    PROVE  Engine'
<1> USE ServingAssumption
<1>0. /\ provider \in [model : Models \cup {None}, draft : BOOLEAN] /\ None \notin Models
      /\ worker.pc # "idle" => ModelOf[worker.job] \in Models
      /\ worker.pc \in Places
  BY DEF Types, Jobs
<1>00. /\ worker = [pc |-> worker.pc, job |-> worker.job, rid |-> worker.rid]
       /\ provider = [model |-> provider.model, draft |-> provider.draft]
  BY DEF Types
<1>1. CASE NextJob
  <2>1. worker.pc = "idle" /\ worker'.pc = "load" /\ provider' = provider /\ server' = server /\ server = "serving"
    BY <1>1 DEF NextJob
  <2> QED
    BY <2>1 DEF Engine
<1>2. CASE Load
  <2>1. worker.pc = "load" /\ server' = server /\ server # "closed"
    BY <1>2 DEF Load, Engine
  <2>2. CASE InPlace(ModelOf[worker.job]) /\ Go("enter") /\ provider' = provider
    <3>1. worker'.pc = "enter" /\ worker'.job = worker.job
      BY <1>00, <2>2 DEF Go
    <3>2. provider.model = ModelOf[worker.job] /\ provider.model # None
      BY <1>0, <2>1, <2>2 DEF InPlace
    <3>3. provider.draft
      BY <2>1, <3>2 DEF Engine
    <3>4. provider.draft = TRUE
      BY <1>0, <3>3
    <3>5. provider = [model |-> ModelOf[worker.job], draft |-> TRUE]
      BY <1>00, <3>2, <3>4, Zenon
    <3> QED
      BY <2>1, <2>2, <3>1, <3>3, <3>5 DEF Engine
  <2>3. CASE provider' = [model |-> ModelOf[worker.job], draft |-> TRUE] /\ Go("enter")
    <3>1. worker'.pc = "enter" /\ worker'.job = worker.job
      BY <1>00, <2>3 DEF Go
    <3> QED
      BY <2>1, <2>3, <3>1 DEF Engine
  <2>4. CASE provider' = [model |-> None, draft |-> FALSE] /\ worker' = Asleep
    BY <2>1, <2>4 DEF Engine, Asleep
  <2> QED
    BY <1>2, <2>2, <2>3, <2>4 DEF Load
<1>3. CASE Enter
  <2>1. /\ worker.pc = "enter" /\ worker'.pc \in {"hide", "prepare"} /\ worker'.job = worker.job
        /\ provider' = provider /\ server' = server
    BY <1>00, <1>3 DEF Enter
  <2> QED
    BY <2>1 DEF Engine
<1>4. CASE Hide
  <2>1. /\ worker.pc = "hide" /\ worker'.pc = "plain" /\ server' = server
        /\ provider' = [provider EXCEPT !.draft = FALSE]
    BY <1>00, <1>4 DEF Hide, Go
  <2>2. provider'.model = provider.model /\ provider.model = ModelOf[worker.job]
    BY <1>0, <2>1 DEF Engine
  <2> QED
    BY <1>0, <2>1, <2>2 DEF Engine
<1>5. CASE PlainToken \/ PlainEnd
  <2>1. /\ worker.pc = "plain" /\ worker'.pc \in {"plain", "record", "escape"}
        /\ provider' = provider /\ server' = server
    BY <1>00, <1>5 DEF PlainToken, PlainEnd, Go
  <2> QED
    BY <2>1 DEF Engine
<1>6. CASE PlainRecord
  <2>1. /\ worker.pc \in {"record", "escape"} /\ worker'.pc \in {"idle", "except"} /\ server' = server
        /\ provider' = [provider EXCEPT !.draft = TRUE]
    BY <1>00, <1>6 DEF PlainRecord, Go, Asleep
  <2>2. provider'.draft = TRUE
    BY <1>0, <2>1
  <2> QED
    BY <2>1, <2>2 DEF Engine
<1>7. CASE Prepare \/ Flow \/ Respond \/ Cancelled
  <2>1. /\ worker.pc \in {"prepare", "flow", "run"} /\ worker'.pc \in {"flow", "run", "finalize", "except"}
        /\ worker'.job = worker.job /\ provider' = provider /\ server' = server
    BY <1>00, <1>7 DEF Prepare, Flow, Respond, Cancelled, Go
  <2>2. provider.model # None => provider.draft
    BY <2>1 DEF Engine
  <2> QED
    BY <2>1, <2>2 DEF Engine
<1>8. CASE Finalize \/ CloseReply \/ Except
  <2>1. /\ worker.pc \in {"finalize", "close", "except"} /\ worker'.pc \in {"close", "except", "idle"}
        /\ provider' = provider /\ server' = server
    BY <1>00, <1>8 DEF Finalize, CloseReply, Except, Go, Asleep
  <2> QED
    BY <2>1 DEF Engine
<1>9. CASE Stop \/ Close
  BY <1>9 DEF Stop, Close, Engine
<1>10. ASSUME UNCHANGED <<worker, provider, server>> PROVE Engine'
  BY <1>10 DEF Engine
<1> QED
  <2>1. ASSUME NEW h \in Handlers,
               Post(h) \/ GetContext(h) \/ Read(h) \/ HangUp(h) \/ Salvage(h)
        PROVE  UNCHANGED <<worker, provider, server>>
    BY <2>1 DEF Post, GetContext, Read, HangUp, Salvage
  <2>2. UNCHANGED vars => UNCHANGED <<worker, provider, server>>
    BY DEF vars
  <2> QED
    BY <1>1, <1>2, <1>3, <1>4, <1>5, <1>6, <1>7, <1>8, <1>9, <1>10, <2>1, <2>2
       DEF Next, Generate

(* -------------------------------- theorems ------------------------------- *)

LEMMA ServerStarts == Init => SInv
<1> SUFFICES ASSUME Init PROVE SInv
  OBVIOUS
<1> USE ServingAssumption DEF Init, Asleep
<1>1. Types
  <2>1. <<>> \in Seq(Items) /\ <<>> \in Seq(Handlers) /\ <<>> \in Seq(Nat)
    OBVIOUS
  <2> QED
    BY <2>1 DEF Types, Places
<1>2. Jobs
  BY DEF Jobs, Ended
<1>3. Replies
  BY DEF Replies, OneEnd, Alive, Ended
<1>4. Books
  BY DEF Books, Unrecorded
<1>5. Recordings
  <2>1. Done = {}
    BY DEF Done, Ended
  <2> QED
    BY <2>1, FS_EmptySet DEF Recordings
<1>6. Engine
  BY DEF Engine
<1> QED
  BY <1>1, <1>2, <1>3, <1>4, <1>5, <1>6 DEF SInv

LEMMA SInvImplies == SInv => ServerInvariant
<1> SUFFICES ASSUME SInv PROVE ServerInvariant
  OBVIOUS
<1> USE ServingAssumption DEF SInv
<1>0. /\ issued \in Nat /\ worker.rid \in Nat \cup {None} /\ None \notin Nat /\ total \in Nat
  BY DEF Types
<1>1. TypeOK
  <2>1. live \in 1..issued \cup {None}
    BY <1>0 DEF Types, Books
  <2>2. total \in 0..issued
    BY <1>0 DEF Books
  <2> QED
    BY <2>1, <2>2 DEF TypeOK, Types
<1>2. MetricsAgree
  BY DEF Books, Recordings, MetricsAgree, Done
<1>3. RepliesHaveOneEnd
  <2>1. \A h \in Handlers : InQueue(h) => h \in {requests[i] : i \in DOMAIN requests}
    BY DEF InQueue
  <2> QED
    BY <2>1 DEF Replies, RepliesHaveOneEnd, OneEnd, Alive
<1>4. EngineIsWhole
  BY DEF Engine, EngineIsWhole
<1> QED
  BY <1>1, <1>2, <1>3, <1>4 DEF ServerInvariant

\* For every number of connections and models, however requests are posted,
\* served, hung up and salvaged, and wherever a load or a request fails
\* (serve.py, server/metrics.py): a response queue has one end, a waiting thread
\* is queued, served or has its end to read, the live metrics are those of the
\* request served and miss no reply, the engine runs on the model asked for.
THEOREM ServerIsSoundAlways == ServerSpec => []ServerIsSound
<1>1. ServerInit => SInv
  BY ServerStarts DEF ServerInit
<1>2. SInv /\ [ServerNext]_serverVars => SInv'
  <2> SUFFICES ASSUME SInv, [Next]_vars PROVE SInv'
    BY DEF ServerNext, serverVars
  <2> QED
    BY TypesHold, JobsHold, RepliesHold, BooksHold, RecordingsHold, EngineHolds DEF SInv
<1>3. SInv => ServerIsSound
  BY SInvImplies DEF ServerIsSound
<1> QED
  BY <1>1, <1>2, <1>3, PTL DEF ServerSpec

(* ------------------------- the registry's invariant ---------------------- *)

\* The registry's entries are sound, and a manager that is not shut down for good
\* is in one.
Entered ==
    /\ registry \in [Models -> Registry!Entry \cup {None}]
    /\ current \in Models \cup {None}
    /\ managers \in Seq(Registry!Manager)
    /\ \A x \in Models : registry[x] # None =>
          /\ registry[x].manager \in DOMAIN managers
          /\ managers[registry[x].manager].key = registry[x].key
          /\ registry[x].key.model = x
    /\ \A m \in DOMAIN managers : managers[m].done => managers[m].retired
    /\ Registry!NoneOrphaned

\* Who holds a manager, holds one of his own configuration.
Held ==
    /\ host \in [Hosts -> Registry!Request]
    /\ \A h \in Hosts : host[h].manager # None =>
          /\ host[h].manager \in DOMAIN managers
          /\ managers[host[h].manager].key = host[h].key
    /\ \A h \in Hosts : host[h].pc = "idle" => host[h].manager = None
    /\ \A h \in Hosts : host[h].pc \in {"lookup", "stats"} =>
          host[h].manager # None /\ host[h].key # None

RInv == Entered /\ Held /\ ActiveCountsRequests

RFacts ==
    /\ \A key \in Keys : key.model \in Models
    /\ None \notin Models /\ None \notin Keys /\ None \notin Nat /\ None \notin Registry!Entry
    /\ IsFiniteSet(Hosts)

LEMMA RConstants == RFacts
  BY RegistryIsConfigured
     DEF RFacts, Registry!RegistryAssumption, Registry!IsFiniteSet, IsFiniteSet

\* What becomes of a manager that is shut down, and of the others.
LEMMA ShutDownFacts ==
    ASSUME managers \in Seq(Registry!Manager), NEW m \in DOMAIN managers, NEW fine \in BOOLEAN
    PROVE  /\ Registry!ShutDown(m, fine) \in Seq(Registry!Manager)
           /\ DOMAIN Registry!ShutDown(m, fine) = DOMAIN managers
           /\ \A k \in DOMAIN managers : k # m => Registry!ShutDown(m, fine)[k] = managers[k]
           /\ Registry!ShutDown(m, fine)[m].key = managers[m].key
           /\ Registry!ShutDown(m, fine)[m].active = managers[m].active
           /\ Registry!ShutDown(m, fine)[m].retired
           /\ Registry!ShutDown(m, fine)[m].done <=> (managers[m].done \/ fine)
<1> DEFINE old == managers[m]
           new == [old EXCEPT !.retired = TRUE, !.done = old.done \/ fine]
<1>1. old \in Registry!Manager
  OBVIOUS
<1>2. new \in Registry!Manager
  BY <1>1 DEF Registry!Manager
<1>3. /\ new.key = old.key /\ new.active = old.active /\ new.retired
      /\ new.done <=> (old.done \/ fine)
  BY <1>1 DEF Registry!Manager
<1>4. Registry!ShutDown(m, fine) = [managers EXCEPT ![m] = new]
  BY DEF Registry!ShutDown
<1> HIDE DEF new
<1>5. /\ [managers EXCEPT ![m] = new] \in Seq(Registry!Manager)
      /\ DOMAIN [managers EXCEPT ![m] = new] = DOMAIN managers
      /\ [managers EXCEPT ![m] = new][m] = new
      /\ \A k \in DOMAIN managers : k # m => [managers EXCEPT ![m] = new][k] = managers[k]
  BY <1>2
<1> QED
  BY <1>3, <1>4, <1>5

(* --------------------------- steps of the registry ----------------------- *)

\* Managers stay, with their keys and counts, and stay retired; new ones count 0.
Grown ==
    /\ DOMAIN managers \subseteq DOMAIN managers'
    /\ \A m \in DOMAIN managers : /\ managers'[m].key = managers[m].key
                                  /\ managers'[m].active = managers[m].active
                                  /\ managers[m].retired => managers'[m].retired
    /\ \A m \in DOMAIN managers' \ DOMAIN managers : managers'[m].active = 0

\* An entry of the registry, and the manager it stands for.
LEMMA EntryFacts ==
    ASSUME Entered, NEW x \in Models, registry[x] # None
    PROVE  /\ registry[x] \in Registry!Entry
           /\ registry[x].manager \in DOMAIN managers
           /\ managers[registry[x].manager] \in Registry!Manager
           /\ managers[registry[x].manager].key = registry[x].key
           /\ registry[x].key.model = x
  BY DEF Entered

\* A manager's model is one of the registry's.
LEMMA ModelOfManager ==
    ASSUME Entered, NEW m \in DOMAIN managers
    PROVE  managers[m] \in Registry!Manager /\ managers[m].key.model \in Models
<1>1. managers[m] \in Registry!Manager
  BY DEF Entered
<1>2. managers[m].key \in Keys
  BY <1>1 DEF Registry!Manager
<1>3. \A key \in Keys : key.model \in Models
  BY RConstants DEF RFacts
<1> QED
  BY <1>1, <1>2, <1>3

\* A model's entry is retired; it goes if the shutdown succeeds.
LEMMA Forgetting ==
    ASSUME Entered, NEW x \in Models, registry[x] # None, NEW fine \in BOOLEAN,
           managers' = Registry!ShutDown(registry[x].manager, fine),
           registry' = IF fine THEN [registry EXCEPT ![x] = None] ELSE registry,
           current' \in Models \cup {None}
    PROVE  Entered' /\ Grown
<1> DEFINE n == registry[x].manager
<1>0. /\ registry \in [Models -> Registry!Entry \cup {None}] /\ managers \in Seq(Registry!Manager)
      /\ n \in DOMAIN managers
  BY EntryFacts DEF Entered
<1>1. /\ managers' \in Seq(Registry!Manager) /\ DOMAIN managers' = DOMAIN managers
      /\ \A k \in DOMAIN managers : k # n => managers'[k] = managers[k]
      /\ managers'[n].key = managers[n].key /\ managers'[n].active = managers[n].active
      /\ managers'[n].retired
      /\ managers'[n].done <=> (managers[n].done \/ fine)
  BY <1>0, ShutDownFacts
<1>2. /\ registry' \in [Models -> Registry!Entry \cup {None}]
      /\ \A y \in Models : registry'[y] = IF fine /\ y = x THEN None ELSE registry[y]
  BY <1>0
<1> HIDE DEF n
<1>3. Grown
  BY <1>1 DEF Grown
<1>4. \A y \in Models : registry'[y] # None =>
          /\ registry'[y].manager \in DOMAIN managers'
          /\ managers'[registry'[y].manager].key = registry'[y].key
          /\ registry'[y].key.model = y
  BY <1>1, <1>2 DEF Entered
<1>5. \A m \in DOMAIN managers' : managers'[m].done => managers'[m].retired
  BY <1>1 DEF Entered
<1>6. Registry!NoneOrphaned'
  <2> SUFFICES ASSUME NEW m \in DOMAIN managers', ~ managers'[m].done
               PROVE  /\ registry'[managers'[m].key.model] # None
                      /\ registry'[managers'[m].key.model].manager = m
    BY DEF Registry!NoneOrphaned, Registry!Identity
  <2>1. m \in DOMAIN managers /\ ~ managers[m].done /\ managers'[m].key = managers[m].key
    BY <1>1
  <2>2. /\ registry[managers[m].key.model] # None /\ registry[managers[m].key.model].manager = m
    BY <2>1 DEF Entered, Registry!NoneOrphaned, Registry!Identity
  <2>3. managers[m].key.model \in Models
    BY <2>1, ModelOfManager
  <2>4. ~(fine /\ managers[m].key.model = x)
    BY <1>1, <2>2 DEF n
  <2> QED
    BY <1>2, <2>1, <2>2, <2>3, <2>4
<1> QED
  BY <1>1, <1>2, <1>3, <1>4, <1>5, <1>6 DEF Entered

\* A new manager takes its model's entry, when the old one is shut down.
LEMMA Building ==
    ASSUME Entered, NEW key \in Keys, Registry!GetNew(key)
    PROVE  /\ Entered' /\ Grown
           /\ Len(managers) + 1 \in DOMAIN managers'
           /\ managers'[Len(managers) + 1].key = key
           /\ \A m \in DOMAIN managers : managers[m].key.model # key.model => managers'[m] = managers[m]
<1> DEFINE x == key.model
           base == IF registry[x] = None THEN managers
                   ELSE Registry!ShutDown(registry[x].manager, TRUE)
           one == Registry!NewManager(key)
           n == Len(managers)
<1>0. /\ registry \in [Models -> Registry!Entry \cup {None}] /\ managers \in Seq(Registry!Manager)
      /\ x \in Models /\ n \in Nat /\ DOMAIN managers = 1..n /\ None \notin Registry!Entry
  BY RConstants DEF Entered, RFacts
<1>1. /\ managers' = Append(base, one)
      /\ registry' = [registry EXCEPT ![x] = [key |-> key, manager |-> n + 1]]
      /\ current' = x
  BY DEF Registry!GetNew, Registry!Identity
<1>2. /\ base \in Seq(Registry!Manager) /\ DOMAIN base = DOMAIN managers
      /\ \A m \in DOMAIN managers :
            /\ base[m].key = managers[m].key /\ base[m].active = managers[m].active
            /\ managers[m].retired => base[m].retired
            /\ base[m].done => base[m].retired
            /\ managers[m].done => base[m].done
            /\ registry[x] # None /\ m = registry[x].manager => base[m].done
            /\ ~(registry[x] # None /\ m = registry[x].manager) => base[m] = managers[m]
  <2>1. CASE registry[x] = None
    BY <1>0, <2>1 DEF Entered
  <2>2. CASE registry[x] # None
    <3>1. registry[x].manager \in DOMAIN managers
      BY <1>0, <2>2, EntryFacts
    <3>2. base = Registry!ShutDown(registry[x].manager, TRUE)
      BY <2>2
    <3>3. /\ base \in Seq(Registry!Manager) /\ DOMAIN base = DOMAIN managers
          /\ \A k \in DOMAIN managers : k # registry[x].manager => base[k] = managers[k]
          /\ base[registry[x].manager].key = managers[registry[x].manager].key
          /\ base[registry[x].manager].active = managers[registry[x].manager].active
          /\ base[registry[x].manager].retired
          /\ base[registry[x].manager].done
      BY <1>0, <3>1, <3>2, ShutDownFacts
    <3>4. \A m \in DOMAIN managers : managers[m].done => managers[m].retired
      BY DEF Entered
    <3> HIDE DEF base, x
    <3> QED
      BY <2>2, <3>3, <3>4
  <2> QED
    BY <2>1, <2>2
<1>3. /\ one \in Registry!Manager /\ one.key = key /\ one.active = 0 /\ one.retired = FALSE /\ one.done = FALSE
  BY DEF Registry!NewManager, Registry!Manager
<1> HIDE DEF base, one
<1>4. Len(base) = n
  BY <1>0, <1>2
<1>5. /\ managers' \in Seq(Registry!Manager) /\ DOMAIN managers' = 1..(n + 1)
      /\ \A i \in 1..(n + 1) : managers'[i] = IF i = n + 1 THEN one ELSE base[i]
  BY <1>1, <1>2, <1>3, <1>4, AppendFacts
<1> HIDE DEF n, x
<1>6. /\ managers'[n + 1] = one /\ n + 1 \in DOMAIN managers'
      /\ \A i \in DOMAIN managers : managers'[i] = base[i] /\ i \in DOMAIN managers'
      /\ \A i \in DOMAIN managers' : i \in DOMAIN managers \/ i = n + 1
  BY <1>0, <1>5
<1>7. Grown
  BY <1>2, <1>3, <1>6 DEF Grown
<1>8. /\ registry' \in [Models -> Registry!Entry \cup {None}]
      /\ registry'[x] # None /\ registry'[x].key = key /\ registry'[x].manager = n + 1
      /\ \A y \in Models : y # x => registry'[y] = registry[y]
  <2>1. [key |-> key, manager |-> n + 1] \in Registry!Entry
    BY <1>0 DEF Registry!Entry
  <2> QED
    BY <1>0, <1>1, <2>1
<1>9. \A y \in Models : registry'[y] # None =>
          /\ registry'[y].manager \in DOMAIN managers'
          /\ managers'[registry'[y].manager].key = registry'[y].key
          /\ registry'[y].key.model = y
  <2> SUFFICES ASSUME NEW y \in Models, registry'[y] # None
               PROVE  /\ registry'[y].manager \in DOMAIN managers'
                      /\ managers'[registry'[y].manager].key = registry'[y].key
                      /\ registry'[y].key.model = y
    OBVIOUS
  <2>1. CASE y = x
    BY <1>3, <1>6, <1>8, <2>1 DEF x
  <2>2. CASE y # x
    BY <1>2, <1>6, <1>8, <2>2 DEF Entered
  <2> QED
    BY <2>1, <2>2
<1>10. \A m \in DOMAIN managers' : managers'[m].done => managers'[m].retired
  BY <1>2, <1>3, <1>6
<1>11. Registry!NoneOrphaned'
  <2> SUFFICES ASSUME NEW m \in DOMAIN managers', ~ managers'[m].done
               PROVE  /\ registry'[managers'[m].key.model] # None
                      /\ registry'[managers'[m].key.model].manager = m
    BY DEF Registry!NoneOrphaned, Registry!Identity
  <2>1. CASE m = n + 1
    BY <1>3, <1>6, <1>8, <2>1 DEF x
  <2>2. CASE m # n + 1
    <3>1. m \in DOMAIN managers /\ managers'[m] = base[m]
      BY <1>6, <2>2
    <3>2. ~ managers[m].done /\ ~(registry[x] # None /\ m = registry[x].manager)
      BY <1>2, <3>1
    <3>3. managers'[m].key = managers[m].key
      BY <1>2, <3>1
    <3>4. registry[managers[m].key.model] # None /\ registry[managers[m].key.model].manager = m
      BY <3>1, <3>2 DEF Entered, Registry!NoneOrphaned, Registry!Identity
    <3>5. managers[m].key.model \in Models
      BY <3>1, ModelOfManager
    <3>6. managers[m].key.model # x
      BY <3>2, <3>4
    <3> QED
      BY <1>8, <3>3, <3>4, <3>5, <3>6
  <2> QED
    BY <2>1, <2>2
<1>12. \A m \in DOMAIN managers : managers[m].key.model # x => managers'[m] = managers[m]
  <2> SUFFICES ASSUME NEW m \in DOMAIN managers, managers[m].key.model # x
               PROVE  managers'[m] = managers[m]
    OBVIOUS
  <2>1. registry[x] # None => managers[registry[x].manager].key.model = x
    BY <1>0, EntryFacts DEF x
  <2>2. ~(registry[x] # None /\ m = registry[x].manager)
    BY <2>1
  <2> QED
    BY <1>2, <1>6, <2>2
<1>13. current' \in Models \cup {None}
  BY <1>0, <1>1 DEF x
<1> QED
  BY <1>3, <1>5, <1>6, <1>7, <1>8, <1>9, <1>10, <1>11, <1>12, <1>13 DEF Entered, n, x

\* Only the current model changes.
LEMMA Reusing ==
    ASSUME Entered, UNCHANGED <<registry, managers>>, current' \in Models \cup {None}
    PROVE  Entered' /\ Grown
<1>1. Grown
  BY DEF Grown
<1> QED
  BY <1>1 DEF Entered, Registry!NoneOrphaned

\* The current model's manager again.
LEMMA Getting ==
    ASSUME Entered, NEW key \in Keys, Registry!GetSame(key)
    PROVE  /\ Entered' /\ Grown
           /\ registry[key.model] # None
           /\ registry[key.model].manager \in DOMAIN managers'
           /\ managers'[registry[key.model].manager].key = key
           /\ managers' = managers
<1>1. key.model \in Models
  BY RConstants DEF RFacts
<1>2. /\ registry[key.model] # None /\ registry[key.model].key = key
      /\ UNCHANGED <<registry, managers>> /\ current' = key.model
  BY DEF Registry!GetSame, Registry!Reusable, Registry!Identity
<1> QED
  BY <1>1, <1>2, Reusing, EntryFacts

\* A manager that could not be shut down stays in its entry.
LEMMA Raising ==
    ASSUME Entered, NEW key \in Keys, Registry!GetRaises(key)
    PROVE  /\ Entered' /\ Grown
           /\ \A m \in DOMAIN managers : managers[m].key.model # key.model => managers'[m] = managers[m]
<1>1. key.model \in Models
  BY RConstants DEF RFacts
<1>2. /\ registry[key.model] # None /\ registry' = registry /\ current' = current
      /\ managers' = Registry!ShutDown(registry[key.model].manager, FALSE)
  BY DEF Registry!GetRaises, Registry!Identity
<1>3. current' \in Models \cup {None}
  BY <1>2 DEF Entered
<1>4. Entered' /\ Grown
  BY <1>1, <1>2, <1>3, Forgetting
<1>5. /\ registry[key.model].manager \in DOMAIN managers /\ managers \in Seq(Registry!Manager)
      /\ managers[registry[key.model].manager].key.model = key.model
  BY <1>1, <1>2, EntryFacts DEF Entered
<1>6. \A m \in DOMAIN managers : m # registry[key.model].manager => managers'[m] = managers[m]
  BY <1>2, <1>5, ShutDownFacts
<1> QED
  BY <1>4, <1>5, <1>6

\* A model's entry goes, if there is one and its manager can be shut down.
LEMMA Clearing ==
    ASSUME Entered, NEW x \in Models, Registry!ClearIdentity(x)
    PROVE  Entered' /\ Grown
<1>0. current \in Models \cup {None}
  BY DEF Entered
<1>1. CASE registry[x] = None
  <2>1. UNCHANGED <<registry, managers, current>>
    BY <1>1 DEF Registry!ClearIdentity, Registry!shared
  <2> QED
    BY <1>0, <2>1, Reusing
<1>2. CASE registry[x] # None
  <2>1. PICK fine \in Registry!Outcomes(registry[x].manager) : Registry!Forget(x, fine)
    BY <1>2 DEF Registry!ClearIdentity
  <2>2. fine \in BOOLEAN
    BY <2>1 DEF Registry!Outcomes
  <2>3. /\ managers' = Registry!ShutDown(registry[x].manager, fine)
        /\ registry' = IF fine THEN [registry EXCEPT ![x] = None] ELSE registry
        /\ current' = IF fine /\ current = x THEN None ELSE current
    BY <2>1 DEF Registry!Forget
  <2> QED
    BY <1>0, <1>2, <2>2, <2>3, Forgetting
<1> QED
  BY <1>1, <1>2

\* Live metrics retire the entry that does not fit their configuration.
LEMMA Syncing ==
    ASSUME Entered, NEW key \in Keys, Registry!Sync(key)
    PROVE  Entered' /\ Grown
<1>1. key.model \in Models /\ current \in Models \cup {None}
  BY RConstants DEF RFacts, Entered
<1>2. CASE Registry!GetSame(key)
  BY <1>2, Getting
<1>3. CASE ~ Registry!GetSame(key)
  <2>1. registry[key.model] # None
    BY DEF Registry!Sync, Registry!Identity
  <2>2. PICK fine \in Registry!Outcomes(registry[key.model].manager) : Registry!Forget(key.model, fine)
    BY <1>3 DEF Registry!Sync, Registry!Identity
  <2>3. fine \in BOOLEAN
    BY <2>2 DEF Registry!Outcomes
  <2>4. /\ managers' = Registry!ShutDown(registry[key.model].manager, fine)
        /\ registry' = IF fine THEN [registry EXCEPT ![key.model] = None] ELSE registry
        /\ current' = IF fine /\ current = key.model THEN None ELSE current
    BY <2>2 DEF Registry!Forget
  <2> QED
    BY <1>1, <2>1, <2>3, <2>4, Forgetting
<1> QED
  BY <1>2, <1>3

\* All entries at once: those whose managers can be shut down go.
LEMMA ShuttingDown ==
    ASSUME Entered, Registry!ShutdownAll
    PROVE  Entered' /\ Grown
<1> DEFINE registered == {x \in Models : registry[x] # None}
           of(m) == {x \in registered : registry[x].manager = m}
<1>1. PICK fine \in [registered -> BOOLEAN] :
          /\ \A x \in registered : fine[x] \in Registry!Outcomes(registry[x].manager)
          /\ managers' = [m \in DOMAIN managers |->
                IF of(m) = {} THEN managers[m]
                ELSE [managers[m] EXCEPT !.retired = TRUE,
                                         !.done = @ \/ \A x \in of(m) : fine[x]]]
          /\ registry' = [x \in Models |->
                IF x \in registered /\ fine[x] THEN None ELSE registry[x]]
  BY DEF Registry!ShutdownAll
<1>2. current' = None
  BY DEF Registry!ShutdownAll
<1>3. /\ DOMAIN managers' = DOMAIN managers
      /\ \A m \in DOMAIN managers :
            managers'[m] = IF of(m) = {} THEN managers[m]
                           ELSE [managers[m] EXCEPT !.retired = TRUE,
                                         !.done = @ \/ \A x \in of(m) : fine[x]]
      /\ \A x \in Models : registry'[x] = IF x \in registered /\ fine[x] THEN None ELSE registry[x]
  BY <1>1
<1>4. \A m \in DOMAIN managers :
         /\ managers'[m] \in Registry!Manager
         /\ managers'[m].key = managers[m].key
         /\ managers'[m].active = managers[m].active
         /\ of(m) = {} => managers'[m] = managers[m]
         /\ of(m) # {} => managers'[m].retired /\ (managers'[m].done <=> managers[m].done \/ \A x \in of(m) : fine[x])
  <2> SUFFICES ASSUME NEW m \in DOMAIN managers
               PROVE  /\ managers'[m] \in Registry!Manager
                      /\ managers'[m].key = managers[m].key
                      /\ managers'[m].active = managers[m].active
                      /\ of(m) = {} => managers'[m] = managers[m]
                      /\ of(m) # {} => managers'[m].retired /\ (managers'[m].done <=> managers[m].done \/ \A x \in of(m) : fine[x])
    OBVIOUS
  <2>1. managers[m] \in Registry!Manager
    BY ModelOfManager
  <2> DEFINE all == \A x \in of(m) : fine[x]
  <2>2. managers'[m] = IF of(m) = {} THEN managers[m]
                       ELSE [managers[m] EXCEPT !.retired = TRUE, !.done = managers[m].done \/ all]
    BY <1>3
  <2> HIDE DEF all, of
  <2>3. CASE of(m) = {}
    BY <2>1, <2>2, <2>3
  <2>4. CASE of(m) # {}
    BY <2>1, <2>2, <2>4 DEF Registry!Manager, all
  <2> QED
    BY <2>3, <2>4
<1>5. managers \in Seq(Registry!Manager) /\ registry \in [Models -> Registry!Entry \cup {None}]
  BY DEF Entered
<1>6. managers' \in Seq(Registry!Manager)
  <2>0. DOMAIN managers = 1..Len(managers) /\ Len(managers) \in Nat
    BY <1>5
  <2>1. DOMAIN managers' = 1..Len(managers) /\ Len(managers) \in Nat
    BY <1>3, <2>0
  <2>2. managers' = [m \in 1..Len(managers) |-> managers'[m]]
    BY <1>1, <2>1
  <2>3. \A m \in 1..Len(managers) : managers'[m] \in Registry!Manager
    BY <1>3, <1>4, <2>1
  <2> HIDE DEF of
  <2> QED
    BY <2>1, <2>2, <2>3
<1>7. registry' \in [Models -> Registry!Entry \cup {None}]
  BY <1>1, <1>5
<1>8. Grown
  <2>1. \A m \in DOMAIN managers : managers[m].retired => managers'[m].retired
    BY <1>4
  <2> QED
    BY <1>3, <1>4, <2>1 DEF Grown
<1>9. \A y \in Models : registry'[y] # None =>
          /\ registry'[y].manager \in DOMAIN managers'
          /\ managers'[registry'[y].manager].key = registry'[y].key
          /\ registry'[y].key.model = y
  <2> SUFFICES ASSUME NEW y \in Models, registry'[y] # None
               PROVE  /\ registry'[y].manager \in DOMAIN managers'
                      /\ managers'[registry'[y].manager].key = registry'[y].key
                      /\ registry'[y].key.model = y
    OBVIOUS
  <2>1. registry'[y] = registry[y]
    BY <1>3
  <2>2. /\ registry[y].manager \in DOMAIN managers
        /\ managers[registry[y].manager].key = registry[y].key
        /\ registry[y].key.model = y
    BY <2>1, EntryFacts
  <2>3. managers'[registry[y].manager].key = managers[registry[y].manager].key
    BY <1>4, <2>2
  <2> QED
    BY <1>3, <2>1, <2>2, <2>3
<1>10. \A m \in DOMAIN managers' : managers'[m].done => managers'[m].retired
  BY <1>3, <1>4 DEF Entered
<1>11. Registry!NoneOrphaned'
  <2> SUFFICES ASSUME NEW m \in DOMAIN managers', ~ managers'[m].done
               PROVE  /\ registry'[managers'[m].key.model] # None
                      /\ registry'[managers'[m].key.model].manager = m
    BY DEF Registry!NoneOrphaned, Registry!Identity
  <2> DEFINE x == managers[m].key.model
  <2>1. m \in DOMAIN managers /\ x \in Models /\ managers'[m].key = managers[m].key
    BY <1>3, <1>4, ModelOfManager
  <2>2. ~ managers[m].done
    BY <1>4, <2>1
  <2>3. registry[x] # None /\ registry[x].manager = m
    BY <2>1, <2>2 DEF Entered, Registry!NoneOrphaned, Registry!Identity
  <2>4. \A y \in of(m) : y = x
    BY <2>3, EntryFacts
  <2>5. x \in of(m)
    BY <2>1, <2>3
  <2>6. ~ fine[x]
    BY <1>4, <2>1, <2>4, <2>5
  <2> QED
    BY <1>3, <2>1, <2>3, <2>6
<1> HIDE DEF of
<1> QED
  BY <1>2, <1>6, <1>7, <1>8, <1>9, <1>10, <1>11 DEF Entered

(* ---------------------------- steps of requests -------------------------- *)

\* While managers only grow, nobody's manager changes hands.
LEMMA HoldersKeep ==
    ASSUME Entered, Held, ActiveCountsRequests, Entered', Grown, UNCHANGED host
    PROVE  Held' /\ ActiveCountsRequests'
<1>0. DOMAIN managers' \subseteq Nat /\ None \notin Nat
  BY RConstants DEF RFacts, Entered
<1>1. Held'
  BY DEF Held, Grown
<1>2. ActiveCountsRequests'
  <2> SUFFICES ASSUME NEW m \in DOMAIN managers', ~ managers'[m].retired
               PROVE  managers'[m].active = Cardinality({h \in Hosts : host[h].pc = "run" /\ host[h].manager = m})
    BY DEF ActiveCountsRequests, Registry!Open, Registry!Running
  <2>1. CASE m \in DOMAIN managers
    BY <2>1 DEF ActiveCountsRequests, Registry!Open, Registry!Running, Grown
  <2>2. CASE m \notin DOMAIN managers
    <3>1. \A h \in Hosts : host[h].manager # m
      BY <1>0, <2>2 DEF Held
    <3>2. {h \in Hosts : host[h].pc = "run" /\ host[h].manager = m} = {}
      BY <3>1
    <3>3. managers'[m].active = 0
      BY <2>2 DEF Grown
    <3> QED
      BY <3>2, <3>3, FS_EmptySet
  <2> QED
    BY <2>1, <2>2
<1> QED
  BY <1>1, <1>2

\* What a request may be, with the managers there are.
Fits(r, all) ==
    /\ r \in Registry!Request /\ r.pc # "run"
    /\ r.manager # None => r.manager \in DOMAIN all /\ all[r.manager].key = r.key
    /\ r.pc = "idle" => r.manager = None
    /\ r.pc \in {"lookup", "stats"} => r.manager # None /\ r.key # None

\* A request that does not run, before and after.
LEMMA HolderMoves ==
    ASSUME Entered, Held, ActiveCountsRequests, Entered', Grown,
           NEW h \in Hosts, host[h].pc # "run", NEW r, Fits(r, managers'),
           host' = [host EXCEPT ![h] = r]
    PROVE  Held' /\ ActiveCountsRequests'
<1>0. DOMAIN managers' \subseteq Nat /\ None \notin Nat /\ host \in [Hosts -> Registry!Request]
  BY RConstants DEF RFacts, Entered, Held
<1>1. /\ host' \in [Hosts -> Registry!Request]
      /\ \A g \in Hosts : host'[g] = IF g = h THEN r ELSE host[g]
  BY <1>0 DEF Fits
<1>2. Held'
  BY <1>1 DEF Held, Grown, Fits
<1>3. ActiveCountsRequests'
  <2> SUFFICES ASSUME NEW m \in DOMAIN managers', ~ managers'[m].retired
               PROVE  managers'[m].active = Cardinality({g \in Hosts : host'[g].pc = "run" /\ host'[g].manager = m})
    BY DEF ActiveCountsRequests, Registry!Open, Registry!Running
  <2>0. {g \in Hosts : host'[g].pc = "run" /\ host'[g].manager = m}
            = {g \in Hosts : host[g].pc = "run" /\ host[g].manager = m}
    BY <1>1 DEF Fits
  <2>1. CASE m \in DOMAIN managers
    BY <2>0, <2>1 DEF ActiveCountsRequests, Registry!Open, Registry!Running, Grown
  <2>2. CASE m \notin DOMAIN managers
    <3>1. \A g \in Hosts : host[g].manager # m
      BY <1>0, <2>2 DEF Held
    <3>2. {g \in Hosts : host[g].pc = "run" /\ host[g].manager = m} = {}
      BY <3>1
    <3>3. managers'[m].active = 0
      BY <2>2 DEF Grown
    <3> QED
      BY <2>0, <3>2, <3>3, FS_EmptySet
  <2> QED
    BY <2>1, <2>2
<1> QED
  BY <1>2, <1>3

\* A request gets its manager, or an exception.
LEMMA Resolving ==
    ASSUME Entered, Held, ActiveCountsRequests,
           NEW h \in Hosts, NEW key \in Keys, Registry!Resolve(h, key)
    PROVE  /\ Entered' /\ Held' /\ ActiveCountsRequests'
           /\ \A m \in DOMAIN managers : managers[m].key.model # key.model => managers'[m] = managers[m]
<1>0. host[h].pc # "run" /\ None \notin Nat /\ None \notin Keys
  BY RConstants DEF Registry!Resolve, RFacts
<1>1. ASSUME NEW n, n \in DOMAIN managers', managers'[n].key = key, Entered', Grown,
             Registry!To(h, "lookup", key, n)
      PROVE  Held' /\ ActiveCountsRequests'
  <2> DEFINE r == [pc |-> "lookup", key |-> key, manager |-> n]
  <2>1. n \in Nat
    BY <1>1 DEF Entered
  <2>2. Fits(r, managers')
    BY <1>0, <1>1, <2>1 DEF Fits, Registry!Request
  <2>3. host' = [host EXCEPT ![h] = r]
    BY <1>1 DEF Registry!To
  <2> QED
    BY <1>0, <1>1, <2>2, <2>3, HolderMoves
<1>2. CASE Registry!GetSame(key) /\ Registry!To(h, "lookup", key, registry[Registry!Identity(key)].manager)
  <2>1. Registry!To(h, "lookup", key, registry[key.model].manager)
    BY <1>2 DEF Registry!Identity
  <2> QED
    BY <1>1, <1>2, <2>1, Getting
<1>3. CASE Registry!GetNew(key) /\ Registry!To(h, "lookup", key, Len(managers) + 1)
  BY <1>1, <1>3, Building
<1>4. CASE Registry!GetRaises(key) /\ UNCHANGED host
  BY <1>4, Raising, HoldersKeep
<1> QED
  BY <1>2, <1>3, <1>4 DEF Registry!Resolve

\* A request without a cache leaves no manager behind for its model.
LEMMA ResolvingOff ==
    ASSUME Entered, Held, ActiveCountsRequests,
           NEW h \in Hosts, NEW x \in Models, Registry!ResolveOff(h, x)
    PROVE  Entered' /\ Held' /\ ActiveCountsRequests'
<1>1. Entered' /\ Grown /\ host[h].pc = "idle"
  BY Clearing DEF Registry!ResolveOff
<1>2. CASE UNCHANGED host
  BY <1>1, <1>2, HoldersKeep
<1>3. CASE Registry!To(h, "begin", None, None)
  <2> DEFINE r == [pc |-> "begin", key |-> None, manager |-> None]
  <2>1. Fits(r, managers')
    BY DEF Fits, Registry!Request
  <2>2. host' = [host EXCEPT ![h] = r]
    BY <1>3 DEF Registry!To
  <2> QED
    BY <1>1, <2>1, <2>2, HolderMoves
<1> QED
  BY <1>1, <1>2, <1>3 DEF Registry!ResolveOff

\* A lookup, and the statistics after it: the request keeps its manager or none.
LEMMA Looking ==
    ASSUME Entered, Held, ActiveCountsRequests, NEW h \in Hosts,
           Registry!Lookup(h) \/ Registry!LogStats(h)
    PROVE  Entered' /\ Held' /\ ActiveCountsRequests'
<1>0. /\ host[h] \in Registry!Request /\ current \in Models \cup {None}
      /\ host[h].pc \in {"lookup", "stats"}
      /\ host[h].manager # None /\ host[h].key # None
      /\ host[h].manager \in DOMAIN managers /\ managers[host[h].manager].key = host[h].key
  BY DEF Held, Entered, Registry!Lookup, Registry!LogStats
<1>1. UNCHANGED <<registry, managers, current>>
  BY DEF Registry!Lookup, Registry!LogStats, Registry!shared
<1>2. Entered' /\ Grown
  BY <1>0, <1>1, Reusing
<1>3. ASSUME NEW pc \in {"stats", "begin"}, NEW n \in {host[h].manager, None}, pc = "stats" => n # None,
             Registry!To(h, pc, host[h].key, n)
      PROVE  Held' /\ ActiveCountsRequests'
  <2> DEFINE r == [pc |-> pc, key |-> host[h].key, manager |-> n]
  <2>1. Fits(r, managers')
    BY <1>0, <1>1, <1>3 DEF Fits, Registry!Request
  <2>2. host' = [host EXCEPT ![h] = r]
    BY <1>3 DEF Registry!To
  <2> QED
    BY <1>0, <1>2, <2>1, <2>2, HolderMoves
<1>4. CASE host' = [host EXCEPT ![h] = Registry!Idle]
  <2>1. Fits(Registry!Idle, managers')
    BY DEF Fits, Registry!Request, Registry!Idle
  <2> QED
    BY <1>0, <1>2, <1>4, <2>1, HolderMoves
<1>5. \/ Registry!To(h, "stats", host[h].key, host[h].manager)
      \/ host' = [host EXCEPT ![h] = Registry!Idle]
      \/ Registry!To(h, "begin", host[h].key, None)
      \/ Registry!To(h, "begin", host[h].key, host[h].manager)
  BY DEF Registry!Lookup, Registry!LogStats
<1> QED
  BY <1>0, <1>2, <1>3, <1>4, <1>5

Counted(m, c) == [managers EXCEPT ![m] = [managers[m] EXCEPT !.active = c]]

\* A manager's count changes and nothing else of it.
LEMMA Counting ==
    ASSUME Entered, NEW m \in DOMAIN managers, NEW c \in Nat,
           managers' = Counted(m, c), UNCHANGED <<registry, current>>
    PROVE  /\ Entered'
           /\ DOMAIN managers' = DOMAIN managers
           /\ managers'[m].active = c
           /\ \A k \in DOMAIN managers : /\ managers'[k].key = managers[k].key
                                         /\ managers'[k].retired = managers[k].retired
                                         /\ k # m => managers'[k].active = managers[k].active
<1> DEFINE old == managers[m]
           new == [old EXCEPT !.active = c]
<1>1. old \in Registry!Manager /\ managers \in Seq(Registry!Manager)
  BY DEF Entered
<1>2. /\ new \in Registry!Manager /\ new.active = c /\ new.key = old.key
      /\ new.retired = old.retired /\ new.done = old.done
  BY <1>1 DEF Registry!Manager
<1>3. managers' = [managers EXCEPT ![m] = new]
  BY DEF Counted
<1> HIDE DEF new
<1>4. /\ managers' \in Seq(Registry!Manager) /\ DOMAIN managers' = DOMAIN managers
      /\ \A k \in DOMAIN managers : managers'[k] = IF k = m THEN new ELSE managers[k]
  BY <1>1, <1>2, <1>3
<1>5. \A k \in DOMAIN managers : /\ managers'[k].key = managers[k].key
                                 /\ managers'[k].retired = managers[k].retired
                                 /\ managers'[k].done = managers[k].done
                                 /\ k # m => managers'[k].active = managers[k].active
  BY <1>2, <1>4
<1>6. managers'[m].active = c
  BY <1>2, <1>4
<1>7. Registry!NoneOrphaned'
  BY <1>4, <1>5 DEF Entered, Registry!NoneOrphaned, Registry!Identity
<1>8. Entered'
  BY <1>4, <1>5, <1>7 DEF Entered
<1> QED
  BY <1>4, <1>5, <1>6, <1>8

\* A request that begins is counted where it is held.
LEMMA Beginning ==
    ASSUME Entered, Held, ActiveCountsRequests, NEW h \in Hosts, Registry!Begin(h)
    PROVE  Entered' /\ Held' /\ ActiveCountsRequests'
<1> DEFINE k == host[h].manager
           runs(m) == {g \in Hosts : host[g].pc = "run" /\ host[g].manager = m}
           runs2(m) == {g \in Hosts : host'[g].pc = "run" /\ host'[g].manager = m}
           r == [pc |-> "run", key |-> host[h].key, manager |-> k]
<1>0. /\ host \in [Hosts -> Registry!Request] /\ host[h].pc = "begin"
      /\ DOMAIN managers \subseteq Nat /\ None \notin Nat /\ IsFiniteSet(Hosts)
      /\ UNCHANGED <<registry, current>> /\ current \in Models \cup {None}
  BY RConstants DEF RFacts, Entered, Held, Registry!Begin
<1>1. /\ host' \in [Hosts -> Registry!Request]
      /\ \A g \in Hosts : host'[g] = IF g = h THEN r ELSE host[g]
  <2>1. host[h] = [pc |-> host[h].pc, key |-> host[h].key, manager |-> k]
    BY <1>0 DEF Registry!Request
  <2>2. r \in Registry!Request
    BY <1>0 DEF Registry!Request
  <2>3. host' = [host EXCEPT ![h] = [host[h] EXCEPT !.pc = "run"]]
    BY DEF Registry!Begin
  <2>4. [host[h] EXCEPT !.pc = "run"] = r
    BY <2>1
  <2> HIDE DEF r
  <2> QED
    BY <1>0, <2>2, <2>3, <2>4
<1>2. \A m \in DOMAIN managers : runs2(m) = IF m = k THEN runs(m) \cup {h} ELSE runs(m)
  BY <1>0, <1>1
<1>3. /\ h \notin runs(k)
      /\ \A m \in DOMAIN managers : IsFiniteSet(runs(m)) /\ Cardinality(runs(m)) \in Nat
  BY <1>0, FS_Subset, FS_CardinalityType
<1>4. \A m \in DOMAIN managers : ~ managers[m].retired => managers[m].active = Cardinality(runs(m))
  BY DEF ActiveCountsRequests, Registry!Open, Registry!Running
<1>5. /\ Entered' /\ DOMAIN managers' = DOMAIN managers
      /\ \A m \in DOMAIN managers : managers'[m].key = managers[m].key /\ managers'[m].retired = managers[m].retired
      /\ \A m \in DOMAIN managers : ~ managers[m].retired =>
              managers'[m].active = IF m = k THEN managers[m].active + 1 ELSE managers[m].active
  <2>1. CASE Registry!Holds(h)
    <3>1. k \in DOMAIN managers
      BY <2>1 DEF Registry!Holds, Held
    <3>2. managers[k].active \in Nat
      BY <3>1, ModelOfManager DEF Registry!Manager
    <3>3. managers' = [managers EXCEPT ![k] = [managers[k] EXCEPT !.active = managers[k].active + 1]]
      BY <2>1 DEF Registry!Begin
    <3>4. managers[k].active + 1 \in Nat
      BY <3>2
    <3> DEFINE c == managers[k].active + 1
    <3> HIDE DEF c
    <3>5. /\ Entered' /\ DOMAIN managers' = DOMAIN managers /\ managers'[k].active = c
          /\ \A m \in DOMAIN managers : /\ managers'[m].key = managers[m].key
                                        /\ managers'[m].retired = managers[m].retired
                                        /\ m # k => managers'[m].active = managers[m].active
      <4>1. managers' = Counted(k, c) /\ c \in Nat
        BY <3>3, <3>4 DEF c, Counted
      <4>2. UNCHANGED <<registry, current>>
        BY <1>0
      <4> HIDE DEF k
      <4> QED
        BY <3>1, <4>1, <4>2, Counting
    <3> QED
      BY <3>5 DEF c
  <2>2. CASE ~ Registry!Holds(h)
    <3>1. managers' = managers
      BY <2>2 DEF Registry!Begin
    <3>2. Entered'
      BY <1>0, <3>1, Reusing
    <3>3. \A m \in DOMAIN managers : ~ managers[m].retired => m # k
      BY <1>0, <2>2 DEF Registry!Holds, Registry!Open
    <3> QED
      BY <3>1, <3>2, <3>3
  <2> QED
    BY <2>1, <2>2
<1>6. Held'
  BY <1>1, <1>5 DEF Held
<1> HIDE DEF runs, runs2, k, r
<1>7. \A m \in DOMAIN managers' : ~ managers'[m].retired => managers'[m].active = Cardinality(runs2(m))
  <2> SUFFICES ASSUME NEW m \in DOMAIN managers, ~ managers[m].retired
               PROVE  managers'[m].active = Cardinality(runs2(m))
    BY <1>5
  <2>1. CASE m = k
    <3>1. Cardinality(runs(m) \cup {h}) = Cardinality(runs(m)) + 1
      BY <1>3, <2>1, FS_AddElement
    <3> QED
      BY <1>2, <1>4, <1>5, <2>1, <3>1
  <2>2. CASE m # k
    BY <1>2, <1>4, <1>5, <2>2
  <2> QED
    BY <2>1, <2>2
<1>8. ActiveCountsRequests'
  BY <1>7 DEF ActiveCountsRequests, Registry!Open, Registry!Running, runs2
<1> QED
  BY <1>5, <1>6, <1>8

\* A request that ends, however it does, is taken off where it was counted.
LEMMA RequestEnds ==
    ASSUME Entered, Held, ActiveCountsRequests, NEW h \in Hosts, Registry!End(h)
    PROVE  Entered' /\ Held' /\ ActiveCountsRequests'
<1> DEFINE k == host[h].manager
           runs(m) == {g \in Hosts : host[g].pc = "run" /\ host[g].manager = m}
           runs2(m) == {g \in Hosts : host'[g].pc = "run" /\ host'[g].manager = m}
<1>0. /\ host \in [Hosts -> Registry!Request] /\ host[h].pc = "run"
      /\ DOMAIN managers \subseteq Nat /\ None \notin Nat /\ IsFiniteSet(Hosts)
      /\ UNCHANGED <<registry, current>> /\ current \in Models \cup {None}
  BY RConstants DEF RFacts, Entered, Held, Registry!End
<1>1. /\ host' \in [Hosts -> Registry!Request]
      /\ \A g \in Hosts : host'[g] = IF g = h THEN Registry!Idle ELSE host[g]
  <2>1. Registry!Idle \in Registry!Request
    BY DEF Registry!Idle, Registry!Request
  <2>2. host' = [host EXCEPT ![h] = Registry!Idle]
    BY DEF Registry!End
  <2> QED
    BY <1>0, <2>1, <2>2
<1>2. \A m \in DOMAIN managers : runs2(m) = IF m = k THEN runs(m) \ {h} ELSE runs(m)
  BY <1>0, <1>1 DEF Registry!Idle
<1>3. /\ h \in runs(k)
      /\ \A m \in DOMAIN managers : IsFiniteSet(runs(m)) /\ Cardinality(runs(m)) \in Nat
  BY <1>0, FS_Subset, FS_CardinalityType
<1>4. \A m \in DOMAIN managers : ~ managers[m].retired => managers[m].active = Cardinality(runs(m))
  BY DEF ActiveCountsRequests, Registry!Open, Registry!Running
<1>5. /\ Entered' /\ DOMAIN managers' = DOMAIN managers
      /\ \A m \in DOMAIN managers : managers'[m].key = managers[m].key /\ managers'[m].retired = managers[m].retired
      /\ \A m \in DOMAIN managers : ~ managers[m].retired =>
              managers'[m].active = IF m = k THEN managers[m].active - 1 ELSE managers[m].active
  <2>1. CASE Registry!Holds(h)
    <3>1. k \in DOMAIN managers /\ ~ managers[k].retired
      BY <2>1 DEF Registry!Holds, Registry!Open, Held
    <3>2. managers[k].active = Cardinality(runs(k)) /\ IsFiniteSet(runs(k)) /\ Cardinality(runs(k)) \in Nat
      BY <1>3, <1>4, <3>1
    <3>3. managers' = [managers EXCEPT ![k] = [managers[k] EXCEPT !.active = managers[k].active - 1]]
      BY <2>1 DEF Registry!End
    <3>4. managers[k].active - 1 \in Nat
      <4> HIDE DEF runs
      <4>1. Cardinality(runs(k)) # 0
        BY <1>3, <3>2, FS_EmptySet
      <4> QED
        BY <3>2, <4>1
    <3> DEFINE c == managers[k].active - 1
    <3> HIDE DEF c
    <3>5. /\ Entered' /\ DOMAIN managers' = DOMAIN managers /\ managers'[k].active = c
          /\ \A m \in DOMAIN managers : /\ managers'[m].key = managers[m].key
                                        /\ managers'[m].retired = managers[m].retired
                                        /\ m # k => managers'[m].active = managers[m].active
      <4>1. managers' = Counted(k, c) /\ c \in Nat
        BY <3>3, <3>4 DEF c, Counted
      <4>2. UNCHANGED <<registry, current>>
        BY <1>0
      <4> HIDE DEF k
      <4> QED
        BY <3>1, <4>1, <4>2, Counting
    <3> QED
      BY <3>5 DEF c
  <2>2. CASE ~ Registry!Holds(h)
    <3>1. managers' = managers
      BY <2>2 DEF Registry!End
    <3>2. Entered'
      BY <1>0, <3>1, Reusing
    <3>3. \A m \in DOMAIN managers : ~ managers[m].retired => m # k
      BY <1>0, <2>2 DEF Registry!Holds, Registry!Open
    <3> QED
      BY <3>1, <3>2, <3>3
  <2> QED
    BY <2>1, <2>2
<1>6. Held'
  BY <1>1, <1>5 DEF Held, Registry!Idle
<1> HIDE DEF runs, runs2, k
<1>7. \A m \in DOMAIN managers' : ~ managers'[m].retired => managers'[m].active = Cardinality(runs2(m))
  <2> SUFFICES ASSUME NEW m \in DOMAIN managers, ~ managers[m].retired
               PROVE  managers'[m].active = Cardinality(runs2(m))
    BY <1>5
  <2>1. CASE m = k
    <3>1. Cardinality(runs(m) \ {h}) = Cardinality(runs(m)) - 1
      BY <1>3, <2>1, FS_RemoveElement
    <3> QED
      BY <1>2, <1>4, <1>5, <2>1, <3>1
  <2>2. CASE m # k
    BY <1>2, <1>4, <1>5, <2>2
  <2> QED
    BY <2>1, <2>2
<1>8. ActiveCountsRequests'
  BY <1>7 DEF ActiveCountsRequests, Registry!Open, Registry!Running, runs2
<1> QED
  BY <1>5, <1>6, <1>8

(* -------------------------------- theorem -------------------------------- *)

LEMMA RegistryStarts == Registry!Init => RInv
<1> SUFFICES ASSUME Registry!Init PROVE RInv
  OBVIOUS
<1>1. /\ registry = [x \in Models |-> None] /\ current = None /\ managers = <<>>
      /\ host = [h \in Hosts |-> [pc |-> "idle", key |-> None, manager |-> None]]
  BY DEF Registry!Init, Registry!Idle
<1>2. Entered
  <2>1. <<>> \in Seq(Registry!Manager) /\ DOMAIN managers = {}
    BY <1>1
  <2>2. Registry!NoneOrphaned
    BY <2>1 DEF Registry!NoneOrphaned
  <2> QED
    BY <1>1, <2>1, <2>2 DEF Entered
<1>3. Held
  BY <1>1 DEF Held, Registry!Request
<1>4. ActiveCountsRequests
  BY <1>1 DEF ActiveCountsRequests
<1> QED
  BY <1>2, <1>3, <1>4 DEF RInv

LEMMA RegistrySteps ==
    ASSUME RInv, Registry!Next \/ UNCHANGED registryVars
    PROVE  RInv'
<1> USE DEF RInv
<1>1. ASSUME NEW h \in Hosts, NEW key \in Keys, Registry!Resolve(h, key) PROVE RInv'
  BY <1>1, Resolving
<1>2. ASSUME NEW h \in Hosts, NEW x \in Models, Registry!ResolveOff(h, x) PROVE RInv'
  BY <1>2, ResolvingOff
<1>3. ASSUME NEW h \in Hosts, Registry!Lookup(h) \/ Registry!LogStats(h) PROVE RInv'
  BY <1>3, Looking
<1>4. ASSUME NEW h \in Hosts, Registry!Begin(h) PROVE RInv'
  BY <1>4, Beginning
<1>5. ASSUME NEW h \in Hosts, Registry!End(h) PROVE RInv'
  BY <1>5, RequestEnds
<1>6. ASSUME NEW key \in Keys, Registry!Sync(key) PROVE RInv'
  <2>1. UNCHANGED host
    BY <1>6 DEF Registry!Sync
  <2> QED
    BY <1>6, <2>1, Syncing, HoldersKeep
<1>7. ASSUME NEW x \in Models, Registry!Unload(x) PROVE RInv'
  <2>1. UNCHANGED host /\ Registry!ClearIdentity(x)
    BY <1>7 DEF Registry!Unload
  <2> QED
    BY <2>1, Clearing, HoldersKeep
<1>8. CASE Registry!ShutdownAll
  <2>1. UNCHANGED host
    BY <1>8, Zenon DEF Registry!ShutdownAll
  <2> QED
    BY <1>8, <2>1, ShuttingDown, HoldersKeep
<1>9. CASE UNCHANGED registryVars
  <2>1. UNCHANGED <<registry, managers, current, host>>
    BY <1>9 DEF registryVars
  <2>2. current \in Models \cup {None}
    BY DEF Entered
  <2> QED
    BY <2>1, <2>2, Reusing, HoldersKeep
<1> QED
  BY <1>1, <1>2, <1>3, <1>4, <1>5, <1>6, <1>7, <1>8, <1>9 DEF Registry!Next

LEMMA RInvImplies == RInv => Registry!ManagersAccountedFor /\ ActiveCountsRequests
<1> SUFFICES ASSUME RInv PROVE Registry!ManagersAccountedFor /\ ActiveCountsRequests
  OBVIOUS
<1>1. Registry!TypeOK
  BY DEF RInv, Entered, Held, Registry!TypeOK
<1>2. Registry!NoneOrphaned
  BY DEF RInv, Entered
<1>3. Registry!OwnConfiguration
  BY DEF RInv, Held, Registry!OwnConfiguration
<1> QED
  BY <1>1, <1>2, <1>3 DEF RInv, Registry!ManagersAccountedFor

\* For every number of threads, models and configurations, however threads
\* reconfigure, unload and shut down each other's caches, and whichever shutdown
\* raises (cache/manager.py): no manager is lost to the registry before it is shut
\* down, who holds a manager holds one of his own configuration, the count that
\* pauses its writer is that of the requests that run on it, and no request
\* touches the manager of another model.
THEOREM RegistryIsSoundAlways == ServerSpec => RegistryIsSound
<1>1. ServerInit => RInv
  BY RegistryStarts DEF ServerInit
<1>2. RInv /\ [ServerNext]_serverVars => RInv'
  <2> SUFFICES ASSUME RInv, [ServerNext]_serverVars PROVE RInv'
    OBVIOUS
  <2>1. Registry!Next \/ UNCHANGED registryVars
    BY DEF ServerNext, serverVars
  <2> QED
    BY <2>1, RegistrySteps
<1>3. RInv => (scene = "registry" => Registry!ManagersAccountedFor /\ ActiveCountsRequests)
  BY RInvImplies
<1>4. RInv => (scene = "registry" => Registry!OthersKeepServing)
  BY Resolving DEF RInv, Registry!OthersKeepServing
<1>5. RInv /\ [ServerNext]_serverVars => [scene = "registry" => Registry!OthersKeepServing]_serverVars
  BY <1>4
<1> QED
  BY <1>1, <1>2, <1>3, <1>5, PTL DEF ServerSpec, RegistryIsSound

==============================================================================
