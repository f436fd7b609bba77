---------------------------- MODULE MCReplyLoop -------------------------------
(* Requests for ReplyLoop over four tokens: 3 stops, 4 is suppressed.  Misses,   *)
(* hits before and at the boundary, snapshots with holes, a draft model that     *)
(* needs everything; copies, adaptive blocks, capped verification, profiling,    *)
(* trees and batches of branches; requests without a cache, without a reply to   *)
(* keep, without tokens to generate and beyond the context limit.                *)
EXTENDS ReplyLoop, SequencesExt
\* An arbitrary function of both inputs.
Hash(s) == FoldLeft(LAMBDA h, t : (4 * h + t) % 13, 1, s)
MCTarget(a, b) == LET h == (Hash(a) + 2 * Hash(b)) % 13
                  IN  IF h = 6 THEN 3 ELSE 1 + (h % 2)

\* A copy that is accepted to its end.
Base == [prompt |-> <<2, 1, 2, 2>>, max |-> 5, boundary |-> 3, snap |-> 0, cover |-> {},
         full |-> FALSE, fullFrom |-> 0, limit |-> 0, cached |-> TRUE, keep |-> TRUE,
         profile |-> FALSE, adaptive |-> FALSE, cap |-> 0, copy |-> "conservative",
         tree |-> "no"]

MCRequests ==
    { Base,
      \* hits: one short of the boundary, refused for its hole, at the boundary, shorter
      [snap |-> 2, cover |-> {1, 2}, full |-> TRUE, copy |-> "auto"] @@ Base,
      [snap |-> 2, cover |-> {2}, full |-> TRUE, fullFrom |-> 6, limit |-> 7, max |-> 2] @@ Base,
      [snap |-> 3, cover |-> {1, 3}, full |-> TRUE, fullFrom |-> 10, cap |-> 2] @@ Base,
      [prompt |-> <<1, 2, 1, 1>>, snap |-> 1, cover |-> {1}, boundary |-> 4] @@ Base,
      \* a stop token within a block, and as the last token asked for
      [prompt |-> <<2, 1, 1>>, boundary |-> 2, copy |-> "off"] @@ Base,
      [prompt |-> <<1, 2>>, boundary |-> 2, max |-> 4, profile |-> TRUE] @@ Base,
      \* adaptive blocks; a copy that may not be used
      [prompt |-> <<2, 2, 2>>, boundary |-> 1, adaptive |-> TRUE] @@ Base,
      [prompt |-> <<2, 2>>, boundary |-> 2, adaptive |-> TRUE, max |-> 4] @@ Base,
      [prompt |-> <<1, 1, 4, 2, 1>>, boundary |-> 5, keep |-> FALSE, max |-> 3] @@ Base,
      \* trees and branches: with a hit, with a copy, verified in part, with a stop
      [snap |-> 2, cover |-> {1, 2}, full |-> TRUE, tree |-> "target", copy |-> "off"] @@ Base,
      [snap |-> 3, cover |-> {1, 3}, tree |-> "target", copy |-> "auto", cap |-> 2] @@ Base,
      [tree |-> "branches", copy |-> "auto", profile |-> TRUE, max |-> 4] @@ Base,
      [prompt |-> <<2, 1, 1>>, boundary |-> 2, tree |-> "branches", copy |-> "off", max |-> 4] @@ Base,
      [snap |-> 2, cover |-> {2}, tree |-> "branches", copy |-> "off", cap |-> 2, max |-> 3] @@ Base,
      \* nothing asked for; the plain decoder
      [cached |-> FALSE, max |-> 0] @@ Base,
      [prompt |-> <<2, 1, 1>>, limit |-> 8] @@ Base }
===============================================================================
