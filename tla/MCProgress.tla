------------------------------ MODULE MCProgress ------------------------------
(***************************************************************************)
(* What must come to an end: four components that share no state, one of   *)
(* which moves (chosen in the initial state) under the fairness its        *)
(* scheduling gives it.                                                    *)
(***************************************************************************)
EXTENDS AdmissionProxy

CONSTANTS h1, h2, h3, h4, None,
          i1, f1, f2, DiskFaults,          \* the disk tier
          m1, m2,                          \* the server: two connections
          NumLayers, TearsTokens, CrashBound,   \* Stage A
          Scenes                           \* which of them move in this run

VARIABLES scene,
          disk, dirLock, mem,
          client, rqueue, taken, ended, lastBy, requests, worker, provider, live,
          total, recent, issued, server,
          tokens, files, manifest, pc, settings, held, layer, act, result, crashes

Disk == INSTANCE PrefixL2 WITH
    Instances <- {i1}, Names <- {f1, f2}, MaxBytes <- 2, MaxInFlight <- 1,
    Size <- [n \in {f1, f2} |-> IF n = f2 THEN 2 ELSE 1],
    Faults <- DiskFaults, InitialFiles <- {f2}, EpochBound <- 1, ActiveBound <- 1

Server == INSTANCE Serving WITH
    Handlers <- {h1, h2}, Models <- {m1, m2},
    ModelOf <- [h \in {h1, h2} |-> IF h = h2 THEN m2 ELSE m1],
    Plain <- {h2}, Respelled <- {m2}, RecentMax <- 1, MaxTokens <- 1

\* One argument list.  The token windows are written safely, but for the run that
\* shows what happens when a death tears them.
StageA == INSTANCE Calibration WITH
    Settings <- {"base"}, Checked <- [s \in {"base"} |-> 4], Windows <- {"mix", "other"},
    WindowsOf <- [s \in {"base"} |-> "mix"], Named <- [s \in {"base"} |-> "model"],
    Nothing <- None

diskVars == <<disk, dirLock, mem>>
serverVars == <<client, rqueue, taken, ended, lastBy, requests, worker, provider, live,
                total, recent, issued, server>>
stageVars == <<tokens, files, manifest, pc, settings, held, layer, act, result, crashes>>
ProgressVars == <<scene, vars, diskVars, serverVars, stageVars>>

ProgressInit ==
    /\ scene \in Scenes
    /\ Init /\ Disk!Init /\ Server!Init /\ StageA!Init

ProgressNext ==
    /\ UNCHANGED scene
    /\ \/ /\ scene = "proxy" /\ Next
          /\ UNCHANGED <<diskVars, serverVars, stageVars>>
       \/ /\ scene = "disk" /\ Disk!Next
          /\ UNCHANGED <<vars, serverVars, stageVars>>
       \/ /\ scene = "server" /\ Server!Next
          /\ UNCHANGED <<vars, diskVars, stageVars>>
       \/ /\ scene = "stage A" /\ StageA!Next
          /\ UNCHANGED <<vars, diskVars, serverVars>>

\* FairSpec of each component, in its own scene.
ProgressFairness ==
    /\ \A h \in Handlers : WF_vars(scene = "proxy" /\ Step(h))
    /\ WF_vars(scene = "proxy" /\ \E h \in Handlers : Acquire(h))
    /\ WF_diskVars(scene = "disk" /\ Disk!WriterStep(i1))
    /\ SF_diskVars(scene = "disk" /\ Disk!WriterGate(i1))
    /\ WF_diskVars(scene = "disk" /\ (\/ Disk!InsertEnqueue(i1) \/ Disk!LookupUnlink(i1)
                                       \/ Disk!LookupRecount(i1)))
    /\ SF_diskVars(scene = "disk" /\ Disk!EndRequest(i1))
    /\ WF_diskVars(scene = "disk" /\ Disk!ShutdownFinish(i1))
    /\ WF_serverVars(scene = "server" /\ Server!Generate)
    /\ \A h \in {h1, h2} : /\ WF_serverVars(scene = "server" /\ Server!GetContext(h))
                           /\ WF_serverVars(scene = "server" /\ Server!Read(h))
    /\ WF_stageVars(scene = "stage A" /\ StageA!Run)

ProgressSpec == ProgressInit /\ [][ProgressNext]_ProgressVars /\ ProgressFairness

\* "Crash-safe: ... re-running with the same --output resumes": if processes of
\* Stage A stop dying, one of them lists the last layer.
StageACompletes == <>[](scene = "stage A" => StageA!Listed = StageA!Layers)

\* The writer of the disk tier: a full queue empties (requests pause it, they do
\* not starve it), and shutdown() gets to its end without its timeout.  And Stage A
\* gets to its last layer.
WorkGetsDone ==
    /\ Disk!SlotsComeBack
    /\ Disk!ShutdownDrains
    /\ StageACompletes

\* A posted request is answered, whatever fails, while the server serves.
EveryRequestIsAnswered == Server!EveryRequestIsAnswered

\* docs/architecture.md: L2 writes "flush between requests".
FlushesBetweenRequests == Disk!FlushesBetweenRequests
===============================================================================
