---------------------------- MODULE SnapshotCache ----------------------------
(***************************************************************************)
(* What any prefix cache promises to the engine, whatever its tiers, its   *)
(* budgets and its eviction order: a lookup answers "miss", or a snapshot  *)
(* it was given (or the sidecar slice of one) from which this very request *)
(* may start decoding.  A cache may forget anything at any time; it may    *)
(* neither make a state up nor bring back one it has forgotten.            *)
(***************************************************************************)
EXTENDS Snapshots

CONSTANTS Snaps,     \* the snapshots the engine may publish
          Requests   \* the requests it may look up

VARIABLES held,      \* the snapshots the cache could still answer with
          answer     \* the last operation: the snapshot put, or the request
                     \* looked up and the hit; each is a set of at most one

vars == <<held, answer>>

\* The states a request may be given, out of the snapshots in S.
Offers(S, q) ==
    {h \in S \cup {Slice(s) : s \in {c \in S : c.side > 0}} : Reusable(h, q)}

NoAnswer == [put |-> {}, q |-> {}, hit |-> {}]

TypeOK ==
    /\ held \subseteq Snaps
    /\ answer \in [put : SUBSET Snaps, q : SUBSET Requests, hit : SUBSET (Snaps \cup {Slice(s) : s \in Snaps})]

Init ==
    /\ held = {}
    /\ answer = NoAnswer

Publish(s) ==
    /\ held' \in SUBSET (held \cup {s})
    /\ answer' = [put |-> {s}, q |-> {}, hit |-> {}]

Lookup(q) ==
    /\ \E hit \in {{}} \cup {{h} : h \in Offers(held, q)} :
          answer' = [put |-> {}, q |-> {q}, hit |-> hit]
    /\ held' \in SUBSET held

Forget ==
    /\ held' \in SUBSET held
    /\ answer' = NoAnswer

Next ==
    \/ \E s \in Snaps : Publish(s)
    \/ \E q \in Requests : Lookup(q)
    \/ Forget

Spec == Init /\ [][Next]_vars
==============================================================================
