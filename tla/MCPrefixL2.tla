------------------------------ MODULE MCPrefixL2 ------------------------------
(***************************************************************************)
(* Two small instances of the disk tier, chosen in the initial state: one  *)
(* object whose writer meets its caller and every fault of its own, and    *)
(* two processes on one directory.                                         *)
(***************************************************************************)
EXTENDS PrefixL2

CONSTANTS i1, i2, f1, f2, f3
VARIABLE scene

MCSize == [n \in Names |-> IF n = f2 THEN 2 ELSE 1]

Two == INSTANCE PrefixL2 WITH
    Instances <- {i1, i2}, Names <- {f1, f2}, MaxInFlight <- 1,
    Faults <- {"spoil", "io", "unlink", "rmtree", "crash"}, InitialFiles <- {f1},
    Size <- [n \in {f1, f2} |-> IF n = f2 THEN 2 ELSE 1],
    EpochBound <- 1, ActiveBound <- 0

ASSUME Two!L2Assumption

L2Spec ==
    /\ \/ scene = "writer" /\ Init
       \/ scene = "shared" /\ Two!Init
    /\ [][ /\ \/ scene = "writer" /\ Next
              \/ scene = "shared" /\ Two!Next
           /\ UNCHANGED scene ]_<<vars, scene>>

L2Vars == <<vars, scene>>

\* One object: its jobs, its slots, its count of the directory; after a publish
\* the directory is within its budget, but for what would not be unlinked, and nothing
\* from before a clear() is in it.
\* (The second instance has the faults that are known to break the count.)
WriterAccounts == scene = "writer" => JobsAccountedFor /\ NeverUndercounts

PublishesWithinBudget == [][scene = "writer" => BudgetAfterPublish]_L2Vars
PublishesNothingStale == [][scene = "writer" => NoStalePublish]_L2Vars

\* Two processes: jobs and slots of both are accounted for, only the holder of
\* the flock changes what lies in the directory, and what it publishes is not
\* from before its clear().
SharedDirectory ==
    /\ [](scene = "shared" => Two!JobsAccountedFor)
    /\ [][scene = "shared" => Two!OnlyOwnerWrites /\ Two!NoStalePublish]_L2Vars
==============================================================================
