---------------------------- MODULE MCPrefixStore -----------------------------
(***************************************************************************)
(* Small instances of PrefixStore: prompts of one conversation, one of them*)
(* trimmed and in full, one too long for the memory tier, and a reply with *)
(* a sidecar.                                                              *)
(***************************************************************************)
EXTENDS PrefixStore

CONSTANTS k1

MCSink == [k \in Keys |-> 0]
MCWindow == [k \in Keys |-> 1]

Prefill(tokens, cover, bytes) ==
    [tokens |-> tokens, key |-> k1, kind |-> "prefill", logits |-> TRUE,
     side |-> 0, cover |-> cover, bytes |-> bytes]

MCSnaps ==
    { Prefill(<<1>>, {1}, 1),
      Prefill(<<1, 2>>, {2}, 2),
      Prefill(<<1, 2>>, {1, 2}, 2),
      Prefill(<<1, 2, 2>>, {1, 2, 3}, 3),    \* longer than MaxSnapshotTokens
      [tokens |-> <<1, 2, 2>>, key |-> k1, kind |-> "generation", logits |-> TRUE,
       side |-> 1, cover |-> {1, 2, 3}, bytes |-> 2] }

MCRequests ==
    {[tokens |-> t, key |-> k1, full |-> FALSE] : t \in {<<1, 2>>, <<1, 1>>, <<1, 2, 2, 1>>}}
    \cup {[tokens |-> t, key |-> k1, full |-> TRUE] : t \in {<<1, 2>>, <<1, 2, 2>>}}
===============================================================================
