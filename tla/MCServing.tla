------------------------------ MODULE MCServing ------------------------------
(***************************************************************************)
(* The server and the registry of cache managers, side by side: three      *)
(* connections, two models and one request served by the target alone; and *)
(* two threads that serve two models, one with two configurations and      *)
(* callers that switch its cache off, one that should not notice.          *)
(***************************************************************************)
EXTENDS Serving, TLC

CONSTANTS h1, h2, h3, m1, m2, t1, t2, small, large,
          Keys, MayDisable, Hosts, ManagerBound    \* of CacheRegistry

VARIABLES scene, registry, current, managers, host

MCModelOf == [h \in Handlers |-> IF h = h2 THEN m2 ELSE m1]

MCKeys == {[model |-> m1, config |-> small], [model |-> m1, config |-> large],
           [model |-> m2, config |-> small]}

Registry == INSTANCE CacheRegistry

ASSUME RegistryIsConfigured == Registry!RegistryAssumption

registryVars == <<registry, current, managers, host>>
serverVars == <<vars, scene, registryVars>>

\* The two threads are alike.
Threads == Permutations({t1, t2})

ServerInit == scene \in {"server", "registry"} /\ Init /\ Registry!Init

ServerNext ==
    /\ UNCHANGED scene
    /\ \/ scene = "server" /\ Next /\ UNCHANGED registryVars
       \/ scene = "registry" /\ Registry!Next /\ UNCHANGED vars

ServerSpec == ServerInit /\ [][ServerNext]_serverVars

\* Response queues, live metrics and the model in place agree.
ServerIsSound == scene = "server" => ServerInvariant

\* The count that pauses the disk writer is the number of requests that run on
\* the manager, however they began and ended beside its retirement.
ActiveCountsRequests ==
    \A m \in DOMAIN managers :
       Registry!Open(m) => managers[m].active = Cardinality(Registry!Running(m))

\* Two models' caches under two threads: each manager is accounted for, in the
\* registry and in its requests, and no thread's reconfiguration reaches a manager
\* of the other's model.
RegistryIsSound ==
    /\ [](scene = "registry" => Registry!ManagersAccountedFor /\ ActiveCountsRequests)
    /\ [][scene = "registry" => Registry!OthersKeepServing]_serverVars
==============================================================================
