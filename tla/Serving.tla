------------------------------- MODULE Serving -------------------------------
(* serve.py, server/runtime.py, server/model_provider.py, server/metrics.py:  *)
(* one server process.  Connection threads (ThreadingHTTPServer) put requests *)
(* into the queue of one generation thread and read what it puts into their   *)
(* response queues; the generation thread loads the model asked for, serves   *)
(* one request after the other, speculatively or by the target alone, and     *)
(* keeps the live metrics that /metrics shows.                                *)
(*                                                                            *)
(* mlx_lm's ResponseGenerator and APIHandler are external: a generation       *)
(* thread that takes requests in order, loads the model, calls _serve_single  *)
(* and turns an exception of the load into an answer.                         *)
EXTENDS Naturals, Sequences, FiniteSets

CONSTANTS
    Handlers,    \* connection threads, each with one request
    Models,      \* what a request may ask for
    ModelOf,     \* [Handlers -> Models]
    Plain,       \* handlers whose request is served by the target alone
    Respelled,   \* models whose reference resolving rewrites ("./m" to "m")
    RecentMax,   \* maxlen of the recent requests (32)
    MaxTokens,   \* bound on the responses of a reply before its last
    None

ASSUME ServingAssumption ==
    /\ ModelOf \in [Handlers -> Models] /\ Plain \subseteq Handlers /\ Respelled \subseteq Models
    /\ RecentMax \in Nat \ {0} /\ MaxTokens \in Nat \ {0}
    /\ IsFiniteSet(Handlers) /\ None \notin Handlers \cup Models \cup Nat

VARIABLES
    client,    \* per handler: how far its thread is
    rqueue,    \* per handler: everything put into its response queue so far
    taken,     \* per handler: how much of it was taken out
    ended,     \* per handler: finish reason written by the salvage path, as
               \* the handler whose reply it came from
    lastBy,    \* response_generator.last_*: whose reply set them, or None
    requests,  \* queue of the generation thread
    worker,    \* the generation thread
    provider,  \* the loaded model, and whether its draft model is in place
    live,      \* _LIVE_CURRENT_REQUEST: its id, or None
    total,     \* _LIVE_TOTALS["requests"]
    recent,    \* _LIVE_RECENT_REQUESTS
    issued,    \* request ids given out
    server     \* the main thread

clients == <<client, taken, ended, lastBy>>
books == <<live, total, recent>>
vars == <<clients, rqueue, requests, worker, provider, books, issued, server>>

Asleep == [pc |-> "idle", job |-> None, rid |-> None]

Init ==
    /\ client = [h \in Handlers |-> "new"]
    /\ rqueue = [h \in Handlers |-> <<>>]
    /\ taken = [h \in Handlers |-> 0]
    /\ ended = [h \in Handlers |-> None]
    /\ lastBy = None
    /\ requests = <<>>
    /\ worker = Asleep
    /\ provider = [model |-> None, draft |-> FALSE]
    /\ live = None /\ total = 0 /\ recent = <<>>
    /\ issued = 0
    /\ server = "serving"

(* -------------------------- connection threads -------------------------- *)

\* handle_completion: a request refused over tool_choice or
\* parallel_tool_calls goes no further than "new"; otherwise the shared last_*
\* are reset and the request is queued.
Post(h) ==
    /\ server = "serving"
    /\ client[h] = "new" /\ client' = [client EXCEPT ![h] = "waiting"]
    /\ lastBy' = None
    /\ requests' = Append(requests, h)
    /\ UNCHANGED <<rqueue, taken, ended, worker, provider, books, issued, server>>

Waiting(h) == taken[h] < Len(rqueue[h])
Item(h) == rqueue[h][taken[h] + 1]

\* The thread takes the next item, or is through with its request.
Take(h, to) ==
    /\ Waiting(h)
    /\ client' = [client EXCEPT ![h] = to]
    /\ taken' = [taken EXCEPT ![h] = IF to = "done" THEN 0 ELSE @ + 1]
Leave(h) ==
    /\ client[h] = "reading"
    /\ client' = [client EXCEPT ![h] = "done"]
    /\ taken' = [taken EXCEPT ![h] = 0]

\* The context, or the exception that came instead of it.
GetContext(h) ==
    /\ client[h] = "waiting"
    /\ Take(h, IF Item(h) = "context" THEN "reading" ELSE "done")
    /\ UNCHANGED <<rqueue, ended, lastBy, requests, worker, provider, books, issued, server>>

\* One response through _track; the one with the finish reason sets last_*.
Read(h) ==
    /\ client[h] = "reading"
    /\ Take(h, IF Item(h) \in {"end", "error"} THEN "done" ELSE "reading")
    /\ lastBy' = IF Item(h) = "last" THEN h ELSE lastBy
    /\ UNCHANGED <<rqueue, ended, requests, worker, provider, books, issued, server>>

\* The client hangs up: the write fails and the connection is closed.
HangUp(h) ==
    /\ Leave(h)
    /\ UNCHANGED <<rqueue, ended, lastBy, requests, worker, provider, books, issued, server>>

\* A tool call that does not parse after the response has begun: the reply is
\* closed with the finish reason and the counts of the shared attributes.
Salvage(h) ==
    /\ taken[h] > 1
    /\ Leave(h)
    /\ ended' = [ended EXCEPT ![h] = lastBy]
    /\ UNCHANGED <<rqueue, lastBy, requests, worker, provider, books, issued, server>>

(* --------------------------- generation thread -------------------------- *)

Put(h, item) == rqueue' = [rqueue EXCEPT ![h] = Append(@, item)]
Tokens(h) == Cardinality({i \in DOMAIN rqueue[h] : rqueue[h][i] \in {"token", "last"}})
Go(pc) == worker' = [worker EXCEPT !.pc = pc]

NextJob ==
    /\ worker.pc = "idle" /\ requests # <<>> /\ server = "serving"
    /\ worker' = [pc |-> "load", job |-> Head(requests), rid |-> None]
    /\ requests' = Tail(requests)
    /\ UNCHANGED <<clients, rqueue, provider, books, issued, server>>

\* Mutant of InPlace: any loaded model will do.
AnyInPlace(m) == provider.model # None

\* model_key, which holds the resolved reference, against the one asked for.
InPlace(m) == provider.model = m /\ m \notin Respelled

\* DFlashModelProvider.load: nothing to do for the model in place; otherwise
\* everything is cleared first, and a failure leaves it cleared.
Load ==
    LET m == ModelOf[worker.job] IN
    /\ worker.pc = "load"
    /\ \/ /\ InPlace(m)
          /\ Go("enter") /\ UNCHANGED <<rqueue, provider>>
       \/ /\ ~InPlace(m)
          /\ provider' = [model |-> m, draft |-> TRUE]
          /\ Go("enter") /\ UNCHANGED rqueue
       \/ /\ ~InPlace(m)
          /\ provider' = [model |-> None, draft |-> FALSE]
          /\ Put(worker.job, "error") /\ worker' = Asleep
    /\ UNCHANGED <<clients, requests, books, issued, server>>

\* _serve_single: a request id, then one of the two ways to serve.
Enter ==
    /\ worker.pc = "enter"
    /\ issued' = issued + 1
    /\ worker' = [worker EXCEPT !.rid = issued + 1,
                                !.pc = IF worker.job \in Plain THEN "hide" ELSE "prepare"]
    /\ UNCHANGED <<clients, rqueue, requests, provider, books, server>>

\* start_live_request
Shown == live' = worker.rid

\* clear_live_request: only the request that is shown.
Cleared == live' = IF live = worker.rid THEN None ELSE live

\* _record_live_accounting
Recorded ==
    /\ total' = total + 1
    /\ recent' = LET all == Append(recent, worker.rid) IN
                 SubSeq(all, IF Len(all) > RecentMax THEN 2 ELSE 1, Len(all))
    /\ Cleared

\* start_target_only_request, then draft_model = None for the base class.
Hide ==
    /\ worker.pc = "hide"
    /\ Shown
    /\ provider' = [provider EXCEPT !.draft = FALSE]
    /\ Put(worker.job, "context")
    /\ Go("plain")
    /\ UNCHANGED <<clients, requests, total, recent, issued, server>>

\* The base class serves: it answers its own exceptions, and may let one out.
PlainToken ==
    /\ worker.pc = "plain" /\ Tokens(worker.job) < MaxTokens
    /\ Put(worker.job, "token")
    /\ UNCHANGED <<clients, requests, worker, provider, books, issued, server>>

PlainEnd ==
    /\ worker.pc = "plain"
    /\ \/ Put(worker.job, "end") /\ Go("record")
       \/ Put(worker.job, "error") /\ Go("record")
       \/ UNCHANGED rqueue /\ Go("escape")
    /\ UNCHANGED <<clients, requests, provider, books, issued, server>>

\* The finally clause: the draft model is put back, and the request recorded if
\* the base class returned.
PlainRecord ==
    /\ provider' = [provider EXCEPT !.draft = TRUE]
    /\ \/ worker.pc = "record" /\ Recorded /\ worker' = Asleep
       \/ worker.pc = "escape" /\ UNCHANGED books /\ Go("except")
    /\ UNCHANGED <<clients, rqueue, requests, issued, server>>

\* Tokenising the prompt and building the context may raise; then the context
\* goes out before the prefix cache is asked.
Prepare ==
    /\ worker.pc = "prepare"
    /\ \/ Put(worker.job, "context") /\ Go("flow")
       \/ UNCHANGED rqueue /\ Go("except")
    /\ UNCHANGED <<clients, requests, provider, books, issued, server>>

\* PrefixCacheFlow.for_request may raise; start_live_request follows it.
Flow ==
    /\ worker.pc = "flow"
    /\ \/ Shown /\ Go("run")
       \/ UNCHANGED live /\ Go("except")
    /\ UNCHANGED <<clients, rqueue, requests, provider, total, recent, issued, server>>

\* consume_dflash_events: responses, the last with a reason; the client that
\* left, or an exception of the engine, ends it early.
Respond ==
    /\ worker.pc = "run"
    /\ \/ Tokens(worker.job) < MaxTokens /\ Put(worker.job, "token") /\ UNCHANGED worker
       \/ Put(worker.job, "last") /\ Go("finalize")
    /\ UNCHANGED <<clients, requests, provider, books, issued, server>>

Cancelled ==
    /\ worker.pc = "run"
    /\ Go("finalize") \/ Go("except")
    /\ UNCHANGED <<clients, rqueue, requests, provider, books, issued, server>>

\* finalize_request_observability; the memory line after it may still raise.
Finalize ==
    /\ worker.pc = "finalize"
    /\ Recorded
    /\ Go("close") \/ Go("except")
    /\ UNCHANGED <<clients, rqueue, requests, provider, issued, server>>

CloseReply ==
    /\ worker.pc = "close"
    /\ Put(worker.job, "end")
    /\ worker' = Asleep
    /\ UNCHANGED <<clients, requests, provider, books, issued, server>>

\* Mutant of Except: the live request is left to the metrics.
ExceptOnlyAnswering ==
    /\ worker.pc = "except"
    /\ Put(worker.job, "error")
    /\ worker' = Asleep
    /\ UNCHANGED <<clients, requests, provider, books, issued, server>>

\* Mutant of Except: only a request that was already live is answered.
ExceptIfLive ==
    /\ worker.pc = "except"
    /\ IF live = worker.rid THEN Put(worker.job, "error") ELSE UNCHANGED rqueue
    /\ Cleared
    /\ worker' = Asleep
    /\ UNCHANGED <<clients, requests, provider, total, recent, issued, server>>

\* The except clause of _serve_single.
Except ==
    /\ worker.pc = "except"
    /\ Cleared
    /\ Put(worker.job, "error")
    /\ worker' = Asleep
    /\ UNCHANGED <<clients, requests, provider, total, recent, issued, server>>

(* ------------------------------ main thread ----------------------------- *)

\* The HTTP server returns (or raises), stop_and_join is called ...
Stop ==
    /\ server = "serving"
    /\ server' = "stopping"
    /\ UNCHANGED <<clients, rqueue, requests, worker, provider, books, issued>>

\* Mutant of Close: the caches go first.
CloseAtOnce ==
    /\ server = "stopping"
    /\ server' = "closed"
    /\ UNCHANGED <<clients, rqueue, requests, worker, provider, books, issued>>

\* ... and only once the generation thread is done are the caches shut down.
Close ==
    /\ server = "stopping" /\ worker.pc = "idle"
    /\ server' = "closed"
    /\ UNCHANGED <<clients, rqueue, requests, worker, provider, books, issued>>

Generate ==
    \/ NextJob \/ Load \/ Enter
    \/ Hide \/ PlainToken \/ PlainEnd \/ PlainRecord
    \/ Prepare \/ Flow \/ Respond \/ Cancelled \/ Finalize \/ CloseReply \/ Except

Next ==
    \/ \E h \in Handlers : Post(h) \/ GetContext(h) \/ Read(h)
                           \/ HangUp(h) \/ Salvage(h)
    \/ Generate
    \/ Stop \/ Close

Spec == Init /\ [][Next]_vars

\* The generation thread runs, and connection threads read what is there.
FairSpec ==
    /\ Spec
    /\ WF_vars(Generate)
    /\ \A h \in Handlers : WF_vars(GetContext(h)) /\ WF_vars(Read(h))

(* ------------------------------ properties ------------------------------ *)

TypeOK ==
    /\ client \in [Handlers -> {"new", "waiting", "reading", "done"}]
    /\ ended \in [Handlers -> Handlers \cup {None}] /\ lastBy \in Handlers \cup {None}
    /\ requests \in Seq(Handlers)
    /\ provider.model \in Models \cup {None} /\ provider.draft \in BOOLEAN
    /\ live \in 1..issued \cup {None} /\ total \in 0..issued

Ended(h) == rqueue[h] # <<>> /\ rqueue[h][Len(rqueue[h])] \in {"end", "error"}

\* /metrics: the current request is the one being served, from its first
\* response to its last and never after it; requests are recorded in the order
\* they were served, none twice, and no reply that came to its end is missing.
MetricsAgree ==
    /\ live # None => live = worker.rid
    /\ worker.pc \in {"plain", "run", "record", "escape"} => live = worker.rid
    /\ \A i, j \in DOMAIN recent : i < j => recent[i] < recent[j]
    /\ Len(recent) = IF total < RecentMax THEN total ELSE RecentMax
    /\ Cardinality({h \in Handlers : Ended(h) /\ rqueue[h][Len(rqueue[h])] = "end"
                                     /\ worker.job # h}) <= total

\* A reply has one end and nothing comes after it; a thread that waits is in
\* the queue, being served, or has its end to read.
RepliesHaveOneEnd ==
    \A h \in Handlers :
        /\ \A i \in DOMAIN rqueue[h] : rqueue[h][i] \in {"end", "error"} => i = Len(rqueue[h])
        /\ client[h] \in {"waiting", "reading"} =>
              \/ h \in {requests[i] : i \in DOMAIN requests}
              \/ worker.job = h
              \/ Ended(h) /\ Waiting(h)

\* The engine runs on the model its request asked for, with the draft model a
\* request served by the target alone had hidden; the caches are shut down only
\* when nothing is being served.
EngineIsWhole ==
    /\ worker.pc \in {"prepare", "flow", "run"} =>
          provider = [model |-> ModelOf[worker.job], draft |-> TRUE]
    /\ worker.pc = "idle" /\ provider.model # None => provider.draft
    /\ server = "closed" => worker.pc = "idle"

\* What the server keeps true between any two steps of its threads.
ServerInvariant == TypeOK /\ MetricsAgree /\ RepliesHaveOneEnd /\ EngineIsWhole

\* Every request gets its answer while the server serves.
EveryRequestIsAnswered ==
    \A h \in Handlers : client[h] \in {"waiting", "reading"}
        ~> client[h] \notin {"waiting", "reading"} \/ server # "serving"

\* tests/test_serve_state_machine.py:819: a reply closed after a tool call that
\* does not parse carries its own request's reason and counts.
SalvagedWithOwnCounts == \A h \in Handlers : ended[h] \in {None, h}
==============================================================================
