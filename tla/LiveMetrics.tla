----------------------------- MODULE LiveMetrics -----------------------------
(***************************************************************************)
(* What /metrics shows (server/metrics.py): the generation thread keeps    *)
(* the request in flight, the totals and the finished requests under one   *)
(* lock; a connection thread reads the statistics of the prefix cache,     *)
(* then the live state under the lock, and computes rates.  Times are      *)
(* clock ticks; wording, memory and the diagnostics files are left out.    *)
(***************************************************************************)
EXTENDS Integers, Sequences, FiniteSets, SequencesExt

CONSTANTS MaxRequests, MaxTokens, MaxClock,   \* bounds
          RecentMax,                          \* maxlen of the recent requests
          Enabled,                            \* the prefix cache is on
          None

LiveMetricsAssumption ==
    MaxRequests \in Nat /\ MaxTokens \in Nat /\ MaxClock \in Nat /\ RecentMax \in Nat \ {0}

VARIABLES clock,
          flight,    \* the locals of serve_dflash_request and consume_dflash_events
          current,   \* _LIVE_CURRENT_REQUEST
          totals,    \* _LIVE_TOTALS
          recent,    \* _LIVE_RECENT_REQUESTS; its last is _LIVE_LAST_REQUEST
          stats,     \* what the cache counted: hits and misses
          reader,    \* the statistics a /metrics request has read so far, or None
          payload,   \* what it answered last, or None
          issued     \* requests so far

vars == <<clock, flight, current, totals, recent, stats, reader, payload, issued>>
books == <<totals, recent>>
others == <<clock, stats, reader, payload>>

Idle == flight = None
Since(from, to) == to - from

-----------------------------------------------------------------------------
(* A request of the generation thread. *)

\* PrefixCacheFlow.for_request: the cache counts the lookup before the live
\* metrics know the request.
Lookup(kind) ==
    /\ Idle /\ issued < MaxRequests
    /\ (kind = "hit" => Enabled)
    /\ issued' = issued + 1
    /\ flight' = [id |-> issued + 1, kind |-> kind, start |-> clock, first |-> None, done |-> None,
                  made |-> 0, seen |-> 0, summary |-> FALSE]
    /\ stats' = IF Enabled /\ kind # "plain" THEN [stats EXCEPT ![kind] = @ + 1] ELSE stats
    /\ UNCHANGED <<clock, reader, payload, current, books>>

\* start_live_request.
Begin ==
    /\ ~Idle /\ (current # None => current.id # flight.id)
    /\ current' = [id |-> flight.id, state |-> "queued", generated |-> 0, done |-> None]
    /\ UNCHANGED <<flight, books, issued, others>>

Begun == ~Idle /\ current # None /\ current.id = flight.id /\ flight.kind # "plain"

\* update_live_request: of another request than the one shown, it changes nothing.
Update(fields) ==
    current' = IF current = None \/ current.id # flight.id THEN current
               ELSE [f \in DOMAIN current |-> IF f \in DOMAIN fields THEN fields[f] ELSE current[f]]

Progress ==
    /\ Begun /\ flight.done = None
    /\ Update([state |-> "prefill"])
    /\ UNCHANGED <<flight, books, issued, others>>

PrefillDone ==
    /\ Begun /\ flight.done = None
    /\ Update([state |-> "decode", done |-> clock])
    /\ flight' = [flight EXCEPT !.done = clock]
    /\ UNCHANGED <<books, issued, others>>

\* A token of the engine; once the reply was closed towards the client, it is
\* not looked at.
Token(closed) ==
    /\ Begun /\ flight.done # None /\ ~flight.summary /\ flight.made < MaxTokens
    /\ (flight.seen < flight.made => closed)
    /\ flight' = IF closed THEN [flight EXCEPT !.made = @ + 1]
                 ELSE [flight EXCEPT !.made = @ + 1, !.seen = @ + 1,
                                     !.first = IF @ = None THEN clock ELSE @]
    /\ IF closed THEN UNCHANGED current
       ELSE Update([state |-> "decode", generated |-> flight.seen + 1])
    /\ UNCHANGED <<books, issued, others>>

Summary ==
    /\ Begun /\ flight.done # None /\ ~flight.summary
    /\ flight' = [flight EXCEPT !.summary = TRUE]
    /\ Update([state |-> "finishing", generated |-> flight.made])
    /\ UNCHANGED <<books, issued, others>>

\* _RequestAccounting.dflash and .target_only.
Accounting ==
    IF flight.kind = "plain"
    THEN [id |-> flight.id, wall |-> Since(flight.start, clock), ttft |-> None, prefill |-> None,
          decode |-> None, generated |-> None]
    ELSE [id |-> flight.id, wall |-> Since(flight.start, clock),
          ttft |-> IF flight.first = None THEN None ELSE Since(flight.start, flight.first),
          prefill |-> IF flight.done = None THEN None ELSE Since(flight.start, flight.done),
          decode |-> IF flight.done = None THEN None ELSE Since(flight.done, clock),
          generated |-> IF flight.summary THEN flight.made ELSE flight.seen]

Number(n) == IF n = None THEN 0 ELSE n

\* Mutants: the request stays the one in flight; any lookup counts as a hit.
RecordLiveStill(a) ==
    /\ totals' = [totals EXCEPT !.requests = @ + 1, !.generated = @ + Number(a.generated),
                                !.decode = @ + Number(a.decode)]
    /\ recent' = IF Len(recent) = RecentMax THEN Append(Tail(recent), a) ELSE Append(recent, a)
    /\ UNCHANGED current
RecordLiveAsHit(a) ==
    /\ totals' = [totals EXCEPT !.requests = @ + 1, !.generated = @ + Number(a.generated),
                                !.decode = @ + Number(a.decode), !.hit = @ + 1]
    /\ recent' = IF Len(recent) = RecentMax THEN Append(Tail(recent), a) ELSE Append(recent, a)
    /\ current' = None

\* _record_live_accounting and _finish_live_request_unlocked, under one lock.
RecordLive(a) ==
    /\ totals' = [requests |-> totals.requests + 1,
                  generated |-> totals.generated + Number(a.generated),
                  decode |-> totals.decode + IF Number(a.generated) > 0 THEN Number(a.decode) ELSE 0,
                  hit |-> totals.hit + IF Enabled /\ flight.kind = "hit" THEN 1 ELSE 0,
                  miss |-> totals.miss + IF Enabled /\ flight.kind = "miss" THEN 1 ELSE 0]
    /\ recent' = LET all == Append(recent, a)
                 IN IF Len(all) > RecentMax THEN Tail(all) ELSE all
    /\ current' = IF current # None /\ current.id = a.id THEN None ELSE current

\* The request ends after its summary, or where a client that went away stops it.
Finalize ==
    /\ ~Idle /\ (flight.kind = "plain" => current # None /\ current.id = flight.id)
    /\ (flight.kind # "plain" => flight.summary \/ flight.seen > 0)
    /\ RecordLive(Accounting)
    /\ flight' = None
    /\ UNCHANGED <<issued, others>>

\* An exception: the request is no longer shown, and not counted.
Clear ==
    /\ ~Idle
    /\ current' = IF current # None /\ current.id = flight.id THEN None ELSE current
    /\ flight' = None
    /\ UNCHANGED <<books, issued, others>>

Tick ==
    /\ clock < MaxClock /\ clock' = clock + 1
    /\ UNCHANGED <<flight, current, books, stats, reader, payload, issued>>

-----------------------------------------------------------------------------
(* get_live_metrics_payload. *)

ReadStats ==
    /\ reader = None
    /\ reader' = IF Enabled THEN stats ELSE "no manager"
    /\ UNCHANGED <<clock, flight, current, books, stats, payload, issued>>

\* The totals of the cache are those of the manager, where there is one; rates are
\* left out, as the counts and times they are computed from are all in it.
Payload(cache) ==
    [current |-> current, recent |-> recent, requests |-> totals.requests,
     generated |-> totals.generated, decode |-> totals.decode,
     hit |-> IF Enabled THEN cache.hit ELSE totals.hit,
     miss |-> IF Enabled THEN cache.miss ELSE totals.miss,
     elapsed |-> clock]

ReadLive ==
    /\ reader # None
    /\ payload' = Payload(reader)
    /\ reader' = None
    /\ UNCHANGED <<clock, flight, current, books, stats, issued>>

Init ==
    /\ clock = 0 /\ flight = None /\ current = None /\ issued = 0
    /\ totals = [requests |-> 0, generated |-> 0, decode |-> 0, hit |-> 0, miss |-> 0]
    /\ recent = <<>> /\ stats = [hit |-> 0, miss |-> 0] /\ reader = None /\ payload = None

Next ==
    \/ \E kind \in {"hit", "miss", "plain"} : Lookup(kind)
    \/ Begin \/ Progress \/ PrefillDone \/ Summary \/ Finalize \/ Clear \/ Tick
    \/ \E closed \in BOOLEAN : Token(closed)
    \/ ReadStats \/ ReadLive

Spec == Init /\ [][Next]_vars

-----------------------------------------------------------------------------
SumOf(s, field) == FoldSeq(LAMBDA a, sum : Number(a[field]) + sum, 0, s)

\* One answer of /metrics tells one story, whenever it is asked: the request in
\* flight is a later one than every finished one shown; the totals are no less than
\* what the requests shown add up to, and exactly that until the oldest is dropped;
\* and there is a decode average wherever tokens were generated in some time.
PayloadIsCoherent ==
    payload # None =>
        LET shown == payload.recent
        IN /\ \A i, j \in DOMAIN shown : i < j => shown[i].id < shown[j].id
           /\ payload.current # None => \A i \in DOMAIN shown : shown[i].id < payload.current.id
           /\ payload.requests >= Len(shown) /\ payload.generated >= SumOf(shown, "generated")
           /\ payload.requests <= RecentMax =>
                /\ payload.requests = Len(shown) /\ payload.generated = SumOf(shown, "generated")
                /\ payload.decode <= SumOf(shown, "decode")
                /\ payload.decode = 0 => \A i \in DOMAIN shown :
                                            Number(shown[i].generated) > 0 => shown[i].decode = 0
           /\ \A i \in DOMAIN shown :
                shown[i].prefill # None =>
                    /\ shown[i].prefill + shown[i].decode = shown[i].wall
                    /\ shown[i].ttft # None => shown[i].ttft >= shown[i].prefill
           /\ payload.current # None /\ payload.current.state \in {"decode", "finishing"} =>
                payload.current.done # None /\ payload.current.done <= payload.elapsed

\* Where no request was cut short, the lookups the cache counted and those the
\* requests report are the same.
LookupsAreCounted ==
    /\ totals.hit <= stats.hit /\ totals.miss <= stats.miss
    /\ Idle /\ issued = totals.requests => totals.hit = stats.hit /\ totals.miss = stats.miss

LiveMetricsInvariant == PayloadIsCoherent /\ LookupsAreCounted

\* Two answers in a row: counters never fall, and a reply that is still in flight
\* has neither lost tokens nor gone back to an earlier state.
Stage == [queued |-> 0, prefill |-> 1, decode |-> 2, finishing |-> 3]
AnswersMoveOn ==
    [][payload # None /\ payload' # None =>
        /\ payload'.requests >= payload.requests /\ payload'.generated >= payload.generated
        /\ payload'.hit >= payload.hit /\ payload'.miss >= payload.miss
        /\ (/\ payload.current # None /\ payload'.current # None
            /\ payload.current.id = payload'.current.id) =>
             /\ payload'.current.generated >= payload.current.generated
             /\ Stage[payload'.current.state] >= Stage[payload.current.state]]_vars
==============================================================================
