---------------------------- MODULE CacheRegistry ----------------------------
(* cache/manager.py: the process-wide registry of cache managers, one per     *)
(* model, and what becomes of the requests that hold a manager while another  *)
(* caller reconfigures or unloads its model.                                  *)
(*                                                                            *)
(* Every registry function runs under the registry's lock, the shutdown of a  *)
(* retired manager included; every method of a manager runs under the         *)
(* manager's lock only.  Both are single steps here.  A request              *)
(* (server/prefix_cache_flow.py, server/request_loop.py) holds its manager    *)
(* from step to step without any lock.                                        *)
EXTENDS Naturals, Sequences, FiniteSets

CONSTANTS
    Models,       \* (target, draft) pairs: the identities of the registry
    Keys,         \* config keys: a model and the settings of its cache
    MayDisable,   \* models that some caller serves with the cache off
    Hosts,        \* threads that serve requests
    ManagerBound, \* managers ever built
    None

Entry == [key : Keys, manager : Nat]

\* What the constants are (evaluated by the module that instantiates this one).
RegistryAssumption ==
    /\ \A key \in Keys : key.model \in Models
    /\ MayDisable \subseteq Models
    /\ None \notin Models \cup Keys \cup Nat \cup Entry
    /\ IsFiniteSet(Hosts) /\ ManagerBound \in Nat

VARIABLES
    registry,  \* _DFLASH_RUNTIME_CACHE_REGISTRY: model -> its entry or None
    current,   \* _DFLASH_RUNTIME_CACHE_CURRENT_IDENTITY
    managers,  \* every RuntimeCacheManager built so far
    host       \* what each thread holds of its request

shared == <<registry, current, managers>>
vars == <<registry, current, managers, host>>

\* Mutant of Identity: the registry has a single slot for all models.
IdentityOfAny(key) == CHOOSE x \in Models : TRUE

Identity(key) == key.model

Idle == [pc |-> "idle", key |-> None, manager |-> None]

NewManager(key) ==
    [key |-> key, retired |-> FALSE, done |-> FALSE, active |-> 0]

Open(m) == ~ managers[m].retired

Init ==
    /\ registry = [x \in Models |-> None]
    /\ current = None
    /\ managers = <<>>
    /\ host = [h \in Hosts |-> Idle]

(* RuntimeCacheManager.shutdown: retired first, then the store's shutdown,    *)
(* which may raise; a later call tries the store again.                       *)
Outcomes(m) == IF managers[m].done THEN {TRUE} ELSE BOOLEAN

ShutDown(m, fine) ==
    [managers EXCEPT ![m].retired = TRUE, ![m].done = @ \/ fine]

(* ----------------------------- the registry ----------------------------- *)

\* Mutant of Forget: the entry goes even if its manager could not be shut down.
ForgetAnyway(x, fine) ==
    /\ managers' = ShutDown(registry[x].manager, fine)
    /\ registry' = [registry EXCEPT ![x] = None]
    /\ current' = IF current = x THEN None ELSE current

\* Retire the entry of x; it stays, retired, if the shutdown raises.
Forget(x, fine) ==
    /\ managers' = ShutDown(registry[x].manager, fine)
    /\ registry' = IF fine THEN [registry EXCEPT ![x] = None] ELSE registry
    /\ current' = IF fine /\ current = x THEN None ELSE current

\* _clear_runtime_cache_identity
ClearIdentity(x) ==
    IF registry[x] = None
    THEN UNCHANGED shared
    ELSE \E fine \in Outcomes(registry[x].manager) : Forget(x, fine)

\* Mutant of Reusable: any configuration of the model will do.
ReusableByModel(key) ==
    LET entry == registry[Identity(key)] IN entry # None /\ Open(entry.manager)

Reusable(key) ==
    LET entry == registry[Identity(key)] IN
    entry # None /\ entry.key = key /\ Open(entry.manager)

\* get_runtime_cache_manager: the entry's manager if it is the same one.
GetSame(key) ==
    /\ Reusable(key)
    /\ current' = Identity(key)
    /\ UNCHANGED <<registry, managers>>

\* ... or a new one, once the old one is shut down.
GetNew(key) ==
    LET x == Identity(key) IN
    /\ ~ Reusable(key)
    /\ Len(managers) < ManagerBound
    /\ managers' = Append(IF registry[x] = None THEN managers
                          ELSE ShutDown(registry[x].manager, TRUE), NewManager(key))
    /\ registry' = [registry EXCEPT ![x] = [key |-> key, manager |-> Len(managers) + 1]]
    /\ current' = x

\* ... or the shutdown raises, and the caller gets the exception.
GetRaises(key) ==
    LET x == Identity(key) IN
    /\ ~ Reusable(key) /\ registry[x] # None
    /\ ~ managers[registry[x].manager].done
    /\ managers' = ShutDown(registry[x].manager, FALSE)
    /\ UNCHANGED <<registry, current>>

\* configure_live_metrics: sync_runtime_cache_manager retires what does not fit
\* and builds nothing.
Sync(key) ==
    LET x == Identity(key) IN
    /\ registry[x] # None
    /\ \/ GetSame(key)
       \/ ~ Reusable(key) /\ \E fine \in Outcomes(registry[x].manager) : Forget(x, fine)
    /\ UNCHANGED host

\* shutdown_runtime_cache_manager of one model (a failure is only logged).
Unload(x) == ClearIdentity(x) /\ UNCHANGED host

\* ... and of all of them.
ShutdownAll ==
    LET registered == {x \in Models : registry[x] # None} IN
    /\ \E fine \in [registered -> BOOLEAN] :
          /\ \A x \in registered : fine[x] \in Outcomes(registry[x].manager)
          /\ managers' = [m \in DOMAIN managers |->
                LET of == {x \in registered : registry[x].manager = m} IN
                IF of = {} THEN managers[m]
                ELSE [managers[m] EXCEPT !.retired = TRUE,
                                         !.done = @ \/ \A x \in of : fine[x]]]
          /\ registry' = [x \in Models |->
                IF x \in registered /\ fine[x] THEN None ELSE registry[x]]
    /\ current' = None
    /\ UNCHANGED host

(* ------------------------------ a request ------------------------------- *)

To(h, pc, key, manager) ==
    host' = [host EXCEPT ![h] = [pc |-> pc, key |-> key, manager |-> manager]]

\* PrefixCacheFlow.for_request, up to its manager.
Resolve(h, key) ==
    /\ host[h].pc = "idle"
    /\ \/ GetSame(key) /\ To(h, "lookup", key, registry[Identity(key)].manager)
       \/ GetNew(key) /\ To(h, "lookup", key, Len(managers) + 1)
       \/ GetRaises(key) /\ UNCHANGED host

\* With the cache off the model's entry is retired and the request has none.
ResolveOff(h, x) ==
    /\ host[h].pc = "idle"
    /\ x \in MayDisable
    /\ ClearIdentity(x)
    /\ \/ To(h, "begin", None, None)
       \/ managers' # managers /\ registry' = registry /\ UNCHANGED host

\* lookup() of a retired manager raises: the request goes on without a cache.
\* The store may raise, too, and the request fails.
Lookup(h) ==
    LET r == host[h] IN
    /\ r.pc = "lookup"
    /\ IF Open(r.manager)
       THEN To(h, "stats", r.key, r.manager) \/ host' = [host EXCEPT ![h] = Idle]
       ELSE To(h, "begin", r.key, None)
    /\ UNCHANGED shared

\* log_stats() notices a manager retired since.
LogStats(h) ==
    LET r == host[h] IN
    /\ r.pc = "stats"
    /\ To(h, "begin", r.key, IF Open(r.manager) THEN r.manager ELSE None)
    /\ UNCHANGED shared

Holds(h) == host[h].manager # None /\ Open(host[h].manager)

Begin(h) ==
    /\ host[h].pc = "begin"
    /\ managers' = IF Holds(h) THEN [managers EXCEPT ![host[h].manager].active = @ + 1]
                   ELSE managers
    /\ host' = [host EXCEPT ![h].pc = "run"]
    /\ UNCHANGED <<registry, current>>

\* Mutant of End: a request that failed is never taken off.
EndUncounted(h) ==
    /\ host[h].pc = "run"
    /\ host' = [host EXCEPT ![h] = Idle]
    /\ UNCHANGED shared

\* end_request in the finally clause of consume_dflash_events.
End(h) ==
    /\ host[h].pc = "run"
    /\ managers' = IF Holds(h) THEN [managers EXCEPT ![host[h].manager].active = @ - 1]
                   ELSE managers
    /\ host' = [host EXCEPT ![h] = Idle]
    /\ UNCHANGED <<registry, current>>

Next ==
    \/ \E h \in Hosts : \/ \E key \in Keys : Resolve(h, key)
                        \/ \E x \in Models : ResolveOff(h, x)
                        \/ Lookup(h) \/ LogStats(h) \/ Begin(h) \/ End(h)
    \/ \E key \in Keys : Sync(key)
    \/ \E x \in Models : Unload(x)
    \/ ShutdownAll

Spec == Init /\ [][Next]_vars

(* ------------------------------ properties ------------------------------ *)

Manager == [key : Keys, retired : BOOLEAN, done : BOOLEAN, active : Nat]
Request == [pc : {"idle", "lookup", "stats", "begin", "run"},
            key : Keys \cup {None}, manager : Nat \cup {None}]

TypeOK ==
    /\ registry \in [Models -> Entry \cup {None}]
    /\ current \in Models \cup {None}
    /\ managers \in Seq(Manager)
    /\ host \in [Hosts -> Request]

\* A manager that is not shut down for good (its writer thread and its lock on
\* the disk directory live) is the registered one of its model: a later call
\* finds it and can shut it down, however many shutdowns raised before.
NoneOrphaned ==
    \A m \in DOMAIN managers :
       ~ managers[m].done => LET entry == registry[Identity(managers[m].key)] IN
                             entry # None /\ entry.manager = m

\* What a request looks up and publishes, it does in a manager built for its
\* own configuration.
OwnConfiguration ==
    \A h \in Hosts : host[h].manager # None => managers[host[h].manager].key = host[h].key

\* The requests that run on a manager.
Running(m) == {h \in Hosts : host[h].pc = "run" /\ host[h].manager = m}

\* A manager in use belongs to its model and its configuration, through every
\* reconfiguration, failed shutdown and unload.
ManagersAccountedFor == TypeOK /\ NoneOrphaned /\ OwnConfiguration

\* "keeps each model's prefix cache alive instead of retiring it when another
\* model loads" (manager.py:22): a request touches no manager of another model.
OthersKeepServing ==
    \A h \in Hosts, key \in Keys :
       Resolve(h, key) => \A m \in DOMAIN managers :
          managers[m].key.model # key.model => managers'[m] = managers[m]
==============================================================================
