---------------------------- MODULE AdmissionProxy ----------------------------
(***************************************************************************)
(* scripts/local27_admission_proxy.py: one thread per connection admits its*)
(* requests to the one resident model, at most MaxBackend at a time.  A    *)
(* handler goes through _begin, the backend call and _end; _state_lock is  *)
(* held for each update of the counters that /healthz shows, never over    *)
(* _slots.acquire(), so that a counter and the semaphore move in different *)
(* steps.  accepted and backend_errors only count up and are left out.     *)
(***************************************************************************)
EXTENDS Integers, FiniteSets, FiniteSetTheorems, TLAPS

CONSTANTS Handlers,    \* connection threads
          MaxBackend   \* LOCAL27_MAX_BACKEND

ASSUME ProxyAssumption == IsFiniteSet(Handlers) /\ MaxBackend \in Nat \ {0}

VARIABLES at,       \* where each handler is
          slots,    \* the value of the semaphore
          active, waiting  \* _state

vars == <<at, slots, active, waiting>>

Places == {"idle",      \* between requests (health checks and refusals included)
           "queued",    \* in _slots.acquire()
           "admitted",  \* past it, not yet counted as active
           "calling",   \* the backend has the request
           "leaving"}   \* counted out, slot not yet released

At(places) == {h \in Handlers : at[h] \in places}

Move(h, from, to) == at[h] = from /\ at' = [at EXCEPT ![h] = to]

Init ==
    /\ at = [h \in Handlers |-> "idle"]
    /\ slots = MaxBackend
    /\ active = 0 /\ waiting = 0

\* _begin
Arrive(h) ==
    /\ Move(h, "idle", "queued")
    /\ waiting' = waiting + 1
    /\ UNCHANGED <<slots, active>>

Acquire(h) ==
    /\ Move(h, "queued", "admitted")
    /\ slots > 0
    /\ slots' = slots - 1
    /\ UNCHANGED <<active, waiting>>

Enter(h) ==
    /\ Move(h, "admitted", "calling")
    /\ waiting' = waiting - 1
    /\ active' = active + 1
    /\ UNCHANGED slots

\* Mutant of Leave: the request is not counted out.
LeaveUncounted(h) ==
    /\ Move(h, "calling", "leaving")
    /\ UNCHANGED <<slots, active, waiting>>

\* _end, in a finally: whether the backend answered, failed or timed out (300 s)
\* and whether the client could be written to.
Leave(h) ==
    /\ Move(h, "calling", "leaving")
    /\ active' = active - 1
    /\ UNCHANGED <<slots, waiting>>

\* Mutant of Release: the slot is not given back.
ReleaseNothing(h) ==
    /\ Move(h, "leaving", "idle")
    /\ UNCHANGED <<slots, active, waiting>>

Release(h) ==
    /\ Move(h, "leaving", "idle")
    /\ slots' = slots + 1
    /\ UNCHANGED <<active, waiting>>

Step(h) == Enter(h) \/ Leave(h) \/ Release(h)

Next == \E h \in Handlers : Arrive(h) \/ Acquire(h) \/ Step(h)

Spec == Init /\ [][Next]_vars

\* A thread that is not blocked runs, and a backend call ends: it has a timeout.
\* Arrivals are not forced; which of the queued threads gets a freed slot is not
\* fixed (a newcomer may overtake those that wait).
FairSpec ==
    /\ Spec
    /\ \A h \in Handlers : WF_vars(Step(h))
    /\ WF_vars(\E h \in Handlers : Acquire(h))

\* What is held and what the counters say, at every step of every thread.
TypeOK ==
    /\ at \in [Handlers -> Places]
    /\ slots \in 0..MaxBackend
    /\ waiting \in Nat /\ active \in Nat

\* The backend never has more than MaxBackend requests, and /healthz never says
\* so: every counted request holds a slot, between any two steps of any thread.
ActiveHoldsSlots ==
    /\ active = Cardinality(At({"calling"}))
    /\ waiting = Cardinality(At({"queued", "admitted"}))
    /\ Cardinality(At({"admitted", "calling", "leaving"})) + slots = MaxBackend
    /\ active + slots <= MaxBackend

\* A queued request is waiting or on its way in, and a full backend does not
\* keep a queue: when a request waits, one is admitted.
QueueMoves == At({"queued"}) # {} ~> At({"admitted"}) # {}

(* -- the bound on the backend, for any number of connections and slots -- *)

Inv == TypeOK /\ ActiveHoldsSlots

\* The number of handlers that f puts in P.
Count(f, P) == Cardinality({h \in Handlers : f[h] \in P})

\* When one handler moves, the number at a set of places changes by its part.
LEMMA MoveCounts ==
    ASSUME NEW h \in Handlers, NEW f, NEW g, NEW P,
           \A k \in Handlers : k # h => g[k] = f[k]
    PROVE  /\ Count(f, P) \in Nat
           /\ Count(g, P) = Count(f, P) + (IF g[h] \in P THEN 1 ELSE 0)
                                       - (IF f[h] \in P THEN 1 ELSE 0)
<1> DEFINE F == {k \in Handlers : f[k] \in P}
           G == {k \in Handlers : g[k] \in P}
<1>1. IsFiniteSet(F) /\ IsFiniteSet(G) /\ Cardinality(F) \in Nat /\ Cardinality(G) \in Nat
  BY ProxyAssumption, FS_Subset, FS_CardinalityType
<1>2. (f[h] \in P <=> g[h] \in P) => G = F
  OBVIOUS
<1>3. f[h] \notin P /\ g[h] \in P => G = F \cup {h} /\ h \notin F
  OBVIOUS
<1>4. f[h] \in P /\ g[h] \notin P => G = F \ {h} /\ h \in F
  OBVIOUS
<1>5. Count(f, P) = Cardinality(F) /\ Count(g, P) = Cardinality(G)
  BY DEF Count
<1> HIDE DEF F, G
<1>6. f[h] \notin P /\ g[h] \in P => Cardinality(G) = Cardinality(F) + 1
  BY <1>1, <1>3, FS_AddElement
<1>7. f[h] \in P /\ g[h] \notin P => Cardinality(G) = Cardinality(F) - 1
  BY <1>1, <1>4, FS_RemoveElement
<1> QED
  BY <1>1, <1>2, <1>5, <1>6, <1>7

\* Fewer handlers call the backend than hold a slot.
LEMMA CallersHoldSlots ==
    ASSUME NEW f
    PROVE  /\ Count(f, {"calling"}) \in Nat
           /\ Count(f, {"admitted", "calling", "leaving"}) \in Nat
           /\ Count(f, {"calling"}) <= Count(f, {"admitted", "calling", "leaving"})
<1> DEFINE C == {h \in Handlers : f[h] \in {"calling"}}
           S == {h \in Handlers : f[h] \in {"admitted", "calling", "leaving"}}
<1>1. C \subseteq S /\ IsFiniteSet(S)
  BY ProxyAssumption, FS_Subset
<1>2. Cardinality(C) \in Nat /\ Cardinality(S) \in Nat /\ Cardinality(C) <= Cardinality(S)
  BY <1>1, FS_Subset, FS_CardinalityType
<1> QED
  BY <1>2 DEF Count

\* A count is a number.
LEMMA CountIsNat ==
    ASSUME NEW f, NEW P
    PROVE  Count(f, P) \in Nat
  BY ProxyAssumption, FS_Subset, FS_CardinalityType DEF Count

\* What MoveCounts says of a step.
Moved(h, P) ==
    Count(at', P) = Count(at, P) + (IF at'[h] \in P THEN 1 ELSE 0)
                                 - (IF at[h] \in P THEN 1 ELSE 0)

\* The counters, in terms of Count.
LEMMA CountersAre ==
    ASSUME NEW P
    PROVE  Cardinality(At(P)) = Count(at, P) /\ Cardinality(At(P)') = Count(at', P)
  BY DEF At, Count

\* The invariant is inductive as it stands.
LEMMA InvInductive ==
    /\ Init => Inv
    /\ Inv /\ [Next]_vars => Inv'
<1> USE ProxyAssumption
<1>1. ASSUME Init PROVE Inv
  <2>1. \A P : "idle" \notin P => At(P) = {}
    BY <1>1 DEF Init, At
  <2>2. /\ At({"calling"}) = {} /\ At({"queued", "admitted"}) = {}
        /\ At({"admitted", "calling", "leaving"}) = {}
    BY <2>1
  <2> QED
    BY <1>1, <2>2, FS_EmptySet DEF Init, Inv, TypeOK, ActiveHoldsSlots, Places
<1>2. ASSUME Inv, [Next]_vars PROVE Inv'
  <2> USE <1>2 DEF Inv, TypeOK
  <2>0. /\ at \in [Handlers -> Places]
        /\ Count(at, {"calling"}) = active
        /\ Count(at, {"queued", "admitted"}) = waiting
        /\ Count(at, {"admitted", "calling", "leaving"}) = MaxBackend - slots
    BY CountersAre, CallersHoldSlots DEF ActiveHoldsSlots
  <2>1. ASSUME NEW h \in Handlers, Arrive(h) PROVE TypeOK' /\ ActiveHoldsSlots'
    <3>1. /\ at[h] = "idle" /\ at'[h] = "queued"
          /\ \A k \in Handlers : k # h => at'[k] = at[k]
          /\ at' \in [Handlers -> Places]
      BY <2>1 DEF Arrive, Move, Places
    <3>2. \A P : Moved(h, P)
      BY <3>1, MoveCounts DEF Moved
    <3>3. Count(at', {"calling"}) = active
      BY <2>0, <3>1, <3>2 DEF Moved
    <3>4. Count(at', {"queued", "admitted"}) = waiting + 1
      BY <2>0, <3>1, <3>2 DEF Moved
    <3>5. Count(at', {"admitted", "calling", "leaving"}) = MaxBackend - slots
      BY <2>0, <3>1, <3>2 DEF Moved
    <3>6. /\ Count(at', {"calling"}) \in Nat /\ Count(at', {"queued", "admitted"}) \in Nat
          /\ Count(at', {"calling"}) <= Count(at', {"admitted", "calling", "leaving"})
      BY CallersHoldSlots, CountIsNat
    <3>7. TypeOK'
      BY <2>1, <3>1, <3>3, <3>4, <3>5, <3>6 DEF Arrive
    <3>8. ActiveHoldsSlots'
      BY <2>1, <3>3, <3>4, <3>5, <3>6, <3>7, CountersAre DEF Arrive, ActiveHoldsSlots
    <3> QED
      BY <3>7, <3>8
  <2>2. ASSUME NEW h \in Handlers, Acquire(h) PROVE TypeOK' /\ ActiveHoldsSlots'
    <3>1. /\ at[h] = "queued" /\ at'[h] = "admitted"
          /\ \A k \in Handlers : k # h => at'[k] = at[k]
          /\ at' \in [Handlers -> Places]
      BY <2>2 DEF Acquire, Move, Places
    <3>2. \A P : Moved(h, P)
      BY <3>1, MoveCounts DEF Moved
    <3>3. Count(at', {"calling"}) = active
      BY <2>0, <3>1, <3>2 DEF Moved
    <3>4. Count(at', {"queued", "admitted"}) = waiting
      BY <2>0, <3>1, <3>2 DEF Moved
    <3>5. Count(at', {"admitted", "calling", "leaving"}) = MaxBackend - slots + 1
      BY <2>0, <3>1, <3>2 DEF Moved
    <3>6. /\ Count(at', {"calling"}) \in Nat /\ Count(at', {"queued", "admitted"}) \in Nat
          /\ Count(at', {"calling"}) <= Count(at', {"admitted", "calling", "leaving"})
      BY CallersHoldSlots, CountIsNat
    <3>7. TypeOK'
      BY <2>2, <3>1, <3>3, <3>4, <3>5, <3>6 DEF Acquire
    <3>8. ActiveHoldsSlots'
      BY <2>2, <3>3, <3>4, <3>5, <3>6, <3>7, CountersAre DEF Acquire, ActiveHoldsSlots
    <3> QED
      BY <3>7, <3>8
  <2>3. ASSUME NEW h \in Handlers, Enter(h) PROVE TypeOK' /\ ActiveHoldsSlots'
    <3>1. /\ at[h] = "admitted" /\ at'[h] = "calling"
          /\ \A k \in Handlers : k # h => at'[k] = at[k]
          /\ at' \in [Handlers -> Places]
      BY <2>3 DEF Enter, Move, Places
    <3>2. \A P : Moved(h, P)
      BY <3>1, MoveCounts DEF Moved
    <3>3. Count(at', {"calling"}) = active + 1
      BY <2>0, <3>1, <3>2 DEF Moved
    <3>4. Count(at', {"queued", "admitted"}) = waiting - 1
      BY <2>0, <3>1, <3>2 DEF Moved
    <3>5. Count(at', {"admitted", "calling", "leaving"}) = MaxBackend - slots
      BY <2>0, <3>1, <3>2 DEF Moved
    <3>6. /\ Count(at', {"calling"}) \in Nat /\ Count(at', {"queued", "admitted"}) \in Nat
          /\ Count(at', {"calling"}) <= Count(at', {"admitted", "calling", "leaving"})
      BY CallersHoldSlots, CountIsNat
    <3>7. TypeOK'
      BY <2>3, <3>1, <3>3, <3>4, <3>5, <3>6 DEF Enter
    <3>8. ActiveHoldsSlots'
      BY <2>3, <3>3, <3>4, <3>5, <3>6, <3>7, CountersAre DEF Enter, ActiveHoldsSlots
    <3> QED
      BY <3>7, <3>8
  <2>4. ASSUME NEW h \in Handlers, Leave(h) PROVE TypeOK' /\ ActiveHoldsSlots'
    <3>1. /\ at[h] = "calling" /\ at'[h] = "leaving"
          /\ \A k \in Handlers : k # h => at'[k] = at[k]
          /\ at' \in [Handlers -> Places]
      BY <2>4 DEF Leave, Move, Places
    <3>2. \A P : Moved(h, P)
      BY <3>1, MoveCounts DEF Moved
    <3>3. Count(at', {"calling"}) = active - 1
      BY <2>0, <3>1, <3>2 DEF Moved
    <3>4. Count(at', {"queued", "admitted"}) = waiting
      BY <2>0, <3>1, <3>2 DEF Moved
    <3>5. Count(at', {"admitted", "calling", "leaving"}) = MaxBackend - slots
      BY <2>0, <3>1, <3>2 DEF Moved
    <3>6. /\ Count(at', {"calling"}) \in Nat /\ Count(at', {"queued", "admitted"}) \in Nat
          /\ Count(at', {"calling"}) <= Count(at', {"admitted", "calling", "leaving"})
      BY CallersHoldSlots, CountIsNat
    <3>7. TypeOK'
      BY <2>4, <3>1, <3>3, <3>4, <3>5, <3>6 DEF Leave
    <3>8. ActiveHoldsSlots'
      BY <2>4, <3>3, <3>4, <3>5, <3>6, <3>7, CountersAre DEF Leave, ActiveHoldsSlots
    <3> QED
      BY <3>7, <3>8
  <2>5. ASSUME NEW h \in Handlers, Release(h) PROVE TypeOK' /\ ActiveHoldsSlots'
    <3>1. /\ at[h] = "leaving" /\ at'[h] = "idle"
          /\ \A k \in Handlers : k # h => at'[k] = at[k]
          /\ at' \in [Handlers -> Places]
      BY <2>5 DEF Release, Move, Places
    <3>2. \A P : Moved(h, P)
      BY <3>1, MoveCounts DEF Moved
    <3>3. Count(at', {"calling"}) = active
      BY <2>0, <3>1, <3>2 DEF Moved
    <3>4. Count(at', {"queued", "admitted"}) = waiting
      BY <2>0, <3>1, <3>2 DEF Moved
    <3>5. Count(at', {"admitted", "calling", "leaving"}) = MaxBackend - slots - 1
      BY <2>0, <3>1, <3>2 DEF Moved
    <3>6. /\ Count(at', {"calling"}) \in Nat /\ Count(at', {"queued", "admitted"}) \in Nat
          /\ Count(at', {"calling"}) <= Count(at', {"admitted", "calling", "leaving"})
      BY CallersHoldSlots, CountIsNat
    <3>7. TypeOK'
      BY <2>5, <3>1, <3>3, <3>4, <3>5, <3>6 DEF Release
    <3>8. ActiveHoldsSlots'
      BY <2>5, <3>3, <3>4, <3>5, <3>6, <3>7, CountersAre DEF Release, ActiveHoldsSlots
    <3> QED
      BY <3>7, <3>8
  <2>6. CASE UNCHANGED vars
    BY <2>6 DEF vars, ActiveHoldsSlots, At
  <2> QED
    BY <2>1, <2>2, <2>3, <2>4, <2>5, <2>6 DEF Next, Step
<1> QED
  BY <1>1, <1>2

\* At every step of every thread the backend has at most MaxBackend requests,
\* and the counters of /healthz agree with the semaphore.
THEOREM ActiveHoldsSlotsAlways == Spec => [](TypeOK /\ ActiveHoldsSlots)
<1>1. (Init => Inv) /\ (Inv /\ [Next]_vars => Inv')
  BY InvInductive
<1>2. Inv => TypeOK /\ ActiveHoldsSlots
  BY DEF Inv
<1> QED
  BY <1>1, <1>2, PTL DEF Spec
===============================================================================
