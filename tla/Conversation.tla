----------------------------- MODULE Conversation -----------------------------
(***************************************************************************)
(* A conversation of several turns with the server: the client's items     *)
(* become messages, the tokens of the reply are divided by a state machine *)
(* into text, reasoning and tool calls, the spans of calls are parsed, and *)
(* the reply goes back as items the client sends again with its next turn. *)
(* With the Responses interface every turn passes through an adapter.      *)
(***************************************************************************)
EXTENDS Naturals, Sequences, FiniteSets, SequencesExt

CONSTANTS
    Vocabulary,    \* the tokens the model may speak in each state: words, markers, calls
    Longest,       \* how many tokens a reply may have
    Turns,         \* how many requests the client makes
    CacheMax,      \* how many state machines are kept (100 in the code)
    None

ConversationAssumption == /\ Longest \in Nat /\ Turns \in Nat /\ CacheMax \in Nat
                          /\ \A state \in DOMAIN Vocabulary : "eos" \in Vocabulary[state]

VARIABLES
    interface,     \* "responses" or "chat"
    history,       \* what the client will send: items, or messages
    request,       \* the request being answered, or None
    machines,      \* the cached state machines, by key
    mode,          \* the state of the machine of this reply
    reply,         \* what the reply holds so far
    turns,         \* requests made
    calls,         \* calls the client was told of, each named by its number
    spoken         \* what the replies conveyed: texts and calls

vars == <<interface, history, request, machines, mode, reply, turns, calls, spoken>>

Empty == [text |-> <<>>, span |-> <<>>, spans |-> <<>>, length |-> 0]

Init ==
    /\ interface \in {"responses", "chat"}
    /\ history = << [role |-> "user", text |-> <<"ask">>, calls |-> <<>>] >>
    /\ request = None /\ machines = [k \in {} |-> None] /\ mode = None /\ reply = Empty
    /\ turns = 0 /\ calls = 0 /\ spoken = <<>>

----------------------------------------------------------------------------
(* From items to messages.  The items are of the roles "user" and            *)
(* "assistant", of the type of a call ("call") or of its output ("output").  *)

FunctionCallMessage(item) == [role |-> "assistant", text |-> <<>>, calls |-> item.calls]
FunctionOutputMessage(item) == [role |-> "tool", text |-> item.text, calls |-> item.calls]
Message(item) == [role |-> item.role, text |-> item.text, calls |-> <<>>]

InputToMessages(items) ==
    [i \in DOMAIN items |->
        CASE items[i].role = "call" -> FunctionCallMessage(items[i])
          [] items[i].role = "output" -> FunctionOutputMessage(items[i])
          [] OTHER -> Message(items[i])]

\* Mutant: a reply with text is a message, and its calls are forgotten.
TextOrCalls(text, ids) ==
    IF text # <<>> THEN << [role |-> "assistant", text |-> text, calls |-> <<>>] >>
    ELSE [k \in DOMAIN ids |-> [role |-> "call", text |-> <<>>, calls |-> <<ids[k]>>]]

\* From a reply to items: a message when it has text, then its calls.
ResponseItems(text, ids) ==
    (IF text # <<>> THEN << [role |-> "assistant", text |-> text, calls |-> <<>>] >> ELSE <<>>)
    \o [k \in DOMAIN ids |-> [role |-> "call", text |-> <<>>, calls |-> <<ids[k]>>]]

\* A reply of the chat interface is one message.
ChatMessages(text, ids) == << [role |-> "assistant", text |-> text, calls |-> ids] >>

----------------------------------------------------------------------------
(* The state machine of a reply.                                             *)

Machine(thinking, initial) ==
    [thinking |-> thinking,
     initial |-> IF ~thinking /\ initial = "reasoning" THEN "normal" ELSE initial]

\* Mutant: machines are found again by stop words and first state only.
KeyWithoutThinking(thinking, initial) == <<initial>>

CacheKey(thinking, initial) == <<initial, thinking>>

\* What a token does in a state: eos and stop words end a reply in any of them.
Match(machine, state, token) ==
    CASE token = "eos" -> "ended"
      [] state = "normal" /\ token = "<think>" /\ machine.thinking -> "reasoning"
      [] state = "normal" /\ token = "<tool>" -> "tool"
      [] state = "reasoning" /\ token = "</think>" -> "normal"
      [] state = "tool" /\ token = "</tool>" -> "normal"
      [] OTHER -> state

----------------------------------------------------------------------------
(* The calls of a span.  "call" is a call of the declared tool, "pair" a list *)
(* of two, "alien" a call of another tool, anything else does not parse.      *)

NormalizedCalls(span) ==
    CASE span = <<"call">> -> <<"f">>
      [] span = <<"pair">> -> <<"f", "f">>
      [] span = <<"alien">> -> <<"g">>
      [] OTHER -> <<>>

\* Mutant: a call with no declared tools is let through.
ParsesAnyway(span, tools) ==
    LET named == NormalizedCalls(span)
    IN  named # <<>> /\ (tools # {} => \A k \in DOMAIN named : named[k] \in tools)

Parses(span, tools) ==
    LET named == NormalizedCalls(span)
    IN  named # <<>> /\ \A k \in DOMAIN named : named[k] \in tools

----------------------------------------------------------------------------
\* tool_choice "none" takes the tools away; every other choice but "auto", serial calls,
\* and on the Responses interface any choice and streaming, is refused: nothing happens.
Tools(choice) == IF choice = "none" THEN {} ELSE {"f"}
Accepted(choice) == IF interface = "responses" THEN choice = None ELSE choice \in {None, "none"}

\* A request is prepared: messages, tools, and the machine of its kind, built if there is
\* none under its key.  Without thinking the template leaves the reply in its text.
Ask(choice, thinking, opened) ==
    /\ request = None /\ turns < Turns /\ Accepted(choice)
    /\ LET initial == IF thinking /\ opened THEN "reasoning" ELSE "normal"
           key == CacheKey(thinking, initial)
           kept == IF Cardinality(DOMAIN machines) > CacheMax THEN [k \in {} |-> None]
                   ELSE machines
           machine == IF key \in DOMAIN machines THEN machines[key]
                      ELSE Machine(thinking, initial)
       IN  /\ request' = [messages |-> IF interface = "responses" THEN InputToMessages(history)
                                       ELSE history,
                          tools |-> Tools(choice), thinking |-> thinking, initial |-> initial,
                          machine |-> machine]
           /\ machines' = IF key \in DOMAIN machines THEN machines
                          ELSE [k \in DOMAIN kept \cup {key} |->
                                   IF k = key THEN machine ELSE kept[k]]
           /\ mode' = machine.initial
    /\ reply' = Empty /\ turns' = turns + 1
    /\ UNCHANGED <<interface, history, calls, spoken>>

\* A token is shown where the machine stands after it, a marker nowhere; a span closes
\* with its marker.
Emit(token) ==
    /\ request # None /\ mode # "ended" /\ reply.length < Longest /\ token \in Vocabulary[mode]
    /\ LET next == Match(request.machine, mode, token) IN
       /\ mode' = next
       /\ reply' =
              IF next = mode
              THEN [reply EXCEPT !.length = @ + 1,
                        !.text = IF mode = "normal" THEN Append(@, token) ELSE @,
                        !.span = IF mode = "tool" THEN Append(@, token) ELSE @]
              ELSE [reply EXCEPT !.length = @ + 1,
                        !.spans = IF mode = "tool" /\ next = "normal"
                                  THEN Append(@, reply.span) ELSE @,
                        !.span = IF mode = "tool" /\ next = "normal" THEN <<>> ELSE @]
    /\ UNCHANGED <<interface, history, request, machines, turns, calls, spoken>>

Done == request # None /\ (mode = "ended" \/ reply.length = Longest)
Spans == IF reply.span # <<>> THEN Append(reply.spans, reply.span) ELSE reply.spans

\* A span that does not parse fails the reply, and the client asks again or gives up.
Fail ==
    /\ Done /\ \E k \in DOMAIN Spans : ~Parses(Spans[k], request.tools)
    /\ request' = None /\ mode' = None /\ reply' = Empty
    /\ UNCHANGED <<interface, history, machines, turns, calls, spoken>>

\* The reply goes out with a new name for every call; the client keeps it as it came, and
\* adds the results of the calls or what the user says next.
Answer ==
    /\ Done /\ \A k \in DOMAIN Spans : Parses(Spans[k], request.tools)
    /\ LET named == FlattenSeq([k \in DOMAIN Spans |-> NormalizedCalls(Spans[k])])
           ids == [k \in DOMAIN named |-> calls + k]
           role == IF interface = "responses" THEN "output" ELSE "tool"
           out == IF interface = "responses" THEN ResponseItems(reply.text, ids)
                  ELSE ChatMessages(reply.text, ids)
           next == IF ids = <<>> THEN << [role |-> "user", text |-> <<"ask">>, calls |-> <<>>] >>
                   ELSE [k \in DOMAIN ids |->
                            [role |-> role, text |-> <<"result">>, calls |-> <<ids[k]>>]]
       IN  /\ history' = history \o out \o next
           /\ calls' = calls + Len(ids)
           /\ spoken' = spoken \o (IF reply.text # <<>> THEN <<reply.text>> ELSE <<>>) \o ids
    /\ request' = None /\ mode' = None /\ reply' = Empty
    /\ UNCHANGED <<interface, machines, turns>>

Next ==
    \/ \E choice \in {None, "none"}, thinking, opened \in BOOLEAN : Ask(choice, thinking, opened)
    \/ \E token \in UNION {Vocabulary[state] : state \in DOMAIN Vocabulary} : Emit(token)
    \/ Fail
    \/ Answer

----------------------------------------------------------------------------
Parts(message) ==
    IF message.role # "assistant" THEN <<>>
    ELSE (IF message.text # <<>> THEN <<message.text>> ELSE <<>>) \o message.calls

\* Turn after turn the model is shown everything it said before and in that order, texts
\* and calls, whichever interface carried them there and back.
HistorySurvives ==
    request # None =>
        FlattenSeq([i \in DOMAIN request.messages |-> Parts(request.messages[i])]) = spoken

\* The results a model is shown are of calls it made before them, each answered once and
\* before the user speaks again or it makes others.
ResultsFollowTheirCalls ==
    request # None =>
        LET m == request.messages
            Made(i) == {c \in 1 .. calls : \E j \in 1 .. i : m[j].role = "assistant"
                                                            /\ \E k \in DOMAIN m[j].calls :
                                                                   m[j].calls[k] = c}
            Given(i) == {c \in 1 .. calls : \E j \in 1 .. i : m[j].role = "tool"
                                                             /\ m[j].calls = <<c>>}
        IN  \A i \in DOMAIN m :
                /\ m[i].role = "tool" => /\ m[i].calls[1] \in Made(i - 1)
                                         /\ m[i].calls[1] \notin Given(i - 1)
                /\ m[i].role = "user" => Made(i) = Given(i)

\* A reply is divided by the machine of its own request, not by one another request left
\* in the cache: without thinking no part of it disappears as reasoning.
MachineFits ==
    request # None =>
        /\ request.machine = Machine(request.thinking, request.initial)
        /\ mode = "reasoning" => request.thinking

\* The client is told of calls only when its request had tools: the parser refuses what
\* the model made up without them.
OnlyDeclaredCalls == [][calls' > calls => request.tools # {}]_calls

ConversationInvariant ==
    /\ HistorySurvives
    /\ ResultsFollowTheirCalls
    /\ MachineFits
===============================================================================
