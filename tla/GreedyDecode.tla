----------------------------- MODULE GreedyDecode -----------------------------
(* What decoding a request promises (runtime/dflash-mlx/README.md: "every        *)
(* emitted token is the target model's greedy argmax"), as the plainest decoder  *)
(* there is: one token at a time, each the target's argmax after everything      *)
(* before it.  How many tokens are handed over in one go is not visible here,    *)
(* except that a decoder which commits blocks may run at most Slack tokens past  *)
(* a stop token before it ends.                                                  *)
EXTENDS Integers, Sequences

CONSTANTS
    Argmax(_),      \* the target's next token after a sequence of tokens
    Stop,           \* the stop tokens
    Slack           \* tokens that may follow the first stop token

VARIABLES
    prompt,         \* the request's prompt and its max_new_tokens
    max,
    emitted,        \* the tokens handed out so far
    outcome         \* "running", "complete" or "abandoned"

vars == <<prompt, max, emitted, outcome>>

HasStop == \E i \in 1..Len(emitted) : emitted[i] \in Stop

Init ==
    /\ emitted = <<>>
    /\ outcome = "running"

\* The next token: fewer than max so far, and no stop token further back than Slack.
Emit ==
    /\ outcome = "running"
    /\ Len(emitted) < max
    /\ \A i \in 1..(Len(emitted) - Slack) : emitted[i] \notin Stop
    /\ emitted' = Append(emitted, Argmax(prompt \o emitted))
    /\ UNCHANGED <<prompt, max, outcome>>

\* The end is reached for a reason.
Complete ==
    /\ outcome = "running"
    /\ Len(emitted) = max \/ HasStop
    /\ outcome' = "complete"
    /\ UNCHANGED <<prompt, max, emitted>>

\* Whoever consumes the tokens may walk away at any time.
Abandon ==
    /\ outcome = "running"
    /\ outcome' = "abandoned"
    /\ UNCHANGED <<prompt, max, emitted>>

Next == Emit \/ Complete \/ Abandon

Spec == Init /\ [][Next]_vars
=============================================================================
