------------------------------ MODULE ReplyLoop -------------------------------
(* The consumer of SpecDecode: dflash_mlx/server/request_loop.py,                *)
(* consume_dflash_events, which turns the engine's events into the responses     *)
(* that the HTTP handler streams to the client.  The first token is handed on at *)
(* once; every later one is held back until the next arrives or the engine ends, *)
(* so that the last response can carry the reason why the reply ends.            *)
EXTENDS SpecDecode

CONSTANT MayMatch   \* a stop sequence or another terminal match may be found

Response == [token : Token, match : BOOLEAN, finish : {None, "stop", "length"}]

ASSUME ReplyAssumption ==
    /\ MayMatch \in BOOLEAN
    /\ None \notin Response \cup {"progress", "prefilled", "snapshot", "token", "cycle",
                                   "summary", "stop", "length"}

VARIABLES
    rqueue,         \* the responses handed on, each [token, match, finish]
    pending,        \* the response held back, or None
    flushed,        \* first_token_flushed
    clientDone,     \* the client's reply is over; later tokens are ignored
    live,           \* live_token_count
    finish,         \* finish_reason, as the summary gives it
    shouldStop,     \* ctx._should_stop, set by the HTTP handler
    over            \* consume_dflash_events has returned

reply == <<rqueue, pending, flushed, clientDone, live, finish, shouldStop, over>>
allVars == <<vars, reply>>

ReplyInit ==
    /\ Init
    /\ rqueue = <<>> /\ pending = None
    /\ flushed = FALSE /\ clientDone = FALSE
    /\ live = 0
    /\ finish = None
    /\ shouldStop = FALSE
    /\ over = FALSE

\* The engine's end: its last event consumed and the generator finished or closed.
Ended == pc \in {"done", "closed"} /\ event = None

EngineStep == (Engine \/ CacheCloses) /\ UNCHANGED reply

\* Progress, cycle and snapshot events concern the metrics only.
TakeProgress ==
    /\ event \notin {None, "token", "summary"}
    /\ Resume
    /\ UNCHANGED reply

TakeSummary ==
    /\ event = "summary"
    /\ finish' = IF /\ generated # <<>>
                    /\ generated[Len(generated)] \notin Stop
                    /\ Len(generated) >= req.max
                 THEN "length" ELSE "stop"
    /\ Resume
    /\ UNCHANGED <<rqueue, pending, flushed, clientDone, live, shouldStop, over>>

\* A token for a client whose reply is over.
IgnoreToken ==
    /\ event = "token" /\ clientDone
    /\ Resume
    /\ UNCHANGED reply

\* Mutant of FinishOf: only a terminal match is a stop.
FinishOfMatch(token, match, count) ==
    IF match THEN "stop" ELSE IF count >= req.max THEN "length" ELSE None

FinishOf(token, match, count) ==
    IF match \/ token \in Stop THEN "stop" ELSE IF count >= req.max THEN "length" ELSE None

\* Mutant of NextOut: the response held back is overwritten.
NextOutNothing == rqueue

\* The response held back makes room for another.
NextOut == IF pending # None THEN Append(rqueue, pending) ELSE rqueue

\* A token for the client: the first goes out, another replaces the one held back,
\* which goes out.  A client that has gone away is noticed here and nowhere else.
TakeToken(match) ==
    /\ event = "token" /\ ~ clientDone
    /\ live' = live + 1
    /\ LET token == emitted[Len(emitted)]
           reason == FinishOf(token, match, live + 1)
           response == [token |-> token, match |-> match, finish |-> reason]
       IN  /\ IF ~ flushed THEN rqueue' = Append(rqueue, response) /\ UNCHANGED pending
              ELSE /\ rqueue' = NextOut
                   /\ pending' = response
           /\ IF shouldStop THEN Close /\ UNCHANGED clientDone
              ELSE Resume /\ clientDone' = (reason # None)
    /\ flushed' = TRUE
    /\ UNCHANGED <<finish, shouldStop, over>>

\* Mutant of LastOut: nothing more for a client whose reply is over.
LastOutUnlessDone ==
    IF pending = None \/ clientDone THEN rqueue
    ELSE Append(rqueue, [pending EXCEPT !.finish = IF finish # None THEN finish ELSE @])

\* Mutant of LastOut: a reply of one token has nothing held back.
LastOutAnyway == Append(rqueue, pending)

\* The response held back goes out at the end, with the summary's reason if there
\* was a summary.
LastOut ==
    IF pending = None THEN rqueue
    ELSE Append(rqueue, [pending EXCEPT !.finish = IF finish # None THEN finish ELSE @])

\* The engine is done or closed.
FlushPending ==
    /\ Ended /\ ~ over
    /\ rqueue' = LastOut
    /\ over' = TRUE
    /\ UNCHANGED <<vars, pending, flushed, clientDone, live, finish, shouldStop>>

\* The HTTP handler gives up on the client.
Cancel ==
    /\ ~ shouldStop /\ ~ over
    /\ shouldStop' = TRUE
    /\ UNCHANGED <<vars, rqueue, pending, flushed, clientDone, live, finish, over>>

TakeEvent ==
    \/ TakeProgress \/ TakeSummary \/ IgnoreToken
    \/ \E match \in IF MayMatch THEN BOOLEAN ELSE {FALSE} : TakeToken(match)

ReplyNext == EngineStep \/ TakeEvent \/ FlushPending \/ Cancel

ReplySpec == ReplyInit /\ [][ReplyNext]_allVars

\* One thread runs the loop and, within it, the engine.
ReplyFairSpec ==
    /\ ReplySpec
    /\ WF_allVars(Engine /\ UNCHANGED reply) /\ WF_allVars(TakeEvent \/ FlushPending)

(* ------------------------------- properties ------------------------------- *)

\* Every variable of the engine and of the loop holds what the code keeps there.
ReplyTypeOK ==
    /\ TypeOK
    /\ rqueue \in Seq(Response)
    /\ pending \in Response \cup {None}
    /\ {flushed, clientDone, shouldStop, over} \subseteq BOOLEAN
    /\ live \in 0..Len(emitted)
    /\ finish \in {None, "stop", "length"}

TokensOf(responses) == [i \in 1..Len(responses) |-> responses[i].token]

\* The responses, with the one held back, are the engine's tokens: each once, in
\* order and none missing, up to where the reply ended.
ResponsesFollowTheEngine ==
    LET sent == IF pending = None \/ over THEN rqueue ELSE Append(rqueue, pending)
        unread == IF event = "token" THEN 1 ELSE 0
    IN  /\ ReplyTypeOK
        /\ TokensOf(sent) = Prefix(emitted, live)
        /\ ~ clientDone => live = Len(emitted) - unread

\* A reply has one end: only its last response gives a reason, a stop token or a
\* terminal match is never followed by another response, and "stop" is said of
\* nothing else.
RepliesEndOnce ==
    \A i \in 1..Len(rqueue) :
        LET r == rqueue[i] IN
        /\ (r.finish # None \/ r.match \/ r.token \in Stop) => i = Len(rqueue)
        /\ r.finish = "stop" => r.match \/ r.token \in Stop
        /\ r.finish = "length" => Len(emitted) = req.max

\* The end is told: a client that stays gets a last response with the reason.
EndIsTold ==
    (over /\ pc = "done" /\ emitted # <<>>) =>
        /\ rqueue # <<>>
        /\ rqueue[Len(rqueue)].finish # None

\* Every reply ends once, for a reason that is true, and the client is told.
RepliesEndWell == RepliesEndOnce /\ EndIsTold

\* The loop returns, whatever the client does: its thread serves the next request.
LoopReturns == <>over
===============================================================================
