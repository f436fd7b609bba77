------------------------------ MODULE MCPrefixL1 ------------------------------
(***************************************************************************)
(* Small instances of PrefixL1: one conversation <<1,2,..>> that branches, *)
(* prompts and replies at the same and at nested boundaries, replies with  *)
(* a sidecar, replies whose features have a hole before the draft's window *)
(* or in it, a second fingerprint.                                         *)
(***************************************************************************)
EXTENDS PrefixL1

CONSTANTS k1, k2

MCSink == (k1 :> 1) @@ (k2 :> 0)
MCWindow == (k1 :> 1) @@ (k2 :> 1)

Prefill(tokens, key, logits, bytes) ==
    [tokens |-> tokens, key |-> key, kind |-> "prefill", logits |-> logits,
     side |-> 0, cover |-> 1..Len(tokens), bytes |-> bytes]

Generation(tokens, side, cover, bytes) ==
    [tokens |-> tokens, key |-> k1, kind |-> "generation", logits |-> TRUE,
     side |-> side, cover |-> cover, bytes |-> bytes]

MCSnaps ==
    { Prefill(<<1>>, k1, TRUE, 1),
      Prefill(<<1, 2>>, k1, TRUE, 2),
      Prefill(<<1, 2>>, k1, FALSE, 2),
      Prefill(<<1, 2, 2>>, k1, TRUE, 5),
      Prefill(<<1, 2, 1, 1>>, k1, TRUE, 2),
      Prefill(<<1, 2>>, k2, TRUE, 2),
      Generation(<<1, 2>>, 1, {1, 2}, 2),
      Generation(<<1, 2, 1>>, 2, {1, 2, 3}, 3),
      Generation(<<1, 2, 2, 1>>, 3, {1, 3, 4}, 3),
      Generation(<<1, 2, 2, 1>>, 3, {1, 2, 4}, 3) }

MCRequests ==
    {[tokens |-> t, key |-> k1, full |-> f] :
        t \in {<<1, 2>>, <<1, 2, 2>>, <<1, 2, 1, 1>>, <<1, 2, 2, 1, 1>>}, f \in BOOLEAN}
    \cup {[tokens |-> <<1, 2, 2>>, key |-> k2, full |-> FALSE]}
==============================================================================
