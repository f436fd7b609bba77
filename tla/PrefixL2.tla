------------------------------- MODULE PrefixL2 -------------------------------
(***************************************************************************)
(* DFlashPrefixL2Cache (cache/prefix_l2.py): the disk tier of the prefix   *)
(* cache.  An instance is one cache object on the shared directory: it has *)
(* one caller (RuntimeCacheManager's lock serialises its callers) and, if  *)
(* it took the directory's flock, one writer thread.  Every field of mem[i]*)
(* is that object's memory; disk and dirLock are the directory.            *)
(*                                                                         *)
(* Grain: one action per section under self._lock, and per file-system     *)
(* call outside of it.  A directory walk is one action.  The file names    *)
(* (length, token hash, kind, fingerprint of the content) are model values,*)
(* with the size each one has.  disk lists the files by age (mtime).       *)
(***************************************************************************)
EXTENDS Integers, FiniteSets, SequencesExt

CONSTANTS Instances,
          Names,         \* snapshot files
          None,
          Size,          \* [Names -> Nat]
          MaxBytes,      \* prefix_cache_l2_max_bytes
          MaxInFlight,   \* max_in_flight: writer slots
          Faults,        \* which of AllFaults may happen
          InitialFiles,  \* the files an earlier run may have left
          EpochBound,    \* model bound on the number of clear() calls
          ActiveBound    \* model bound on the requests in flight

AllFaults == {"spoil",      \* a file is unreadable when it is loaded
              "io",         \* mkstemp, save or replace raises OSError
              "save",       \* save_safetensors raises something else
              "unlink",     \* the unlink of a file that is there raises OSError
              "rmtree",     \* clear() fails half way
              "timeout",    \* the writer outlives shutdown's join
              "crash"}      \* the process dies

ASSUME L2Assumption ==
    /\ Size \in [Names -> Nat]
    /\ MaxBytes \in Nat /\ MaxInFlight \in Nat \ {0}
    /\ EpochBound \in Nat /\ ActiveBound \in Nat
    /\ Faults \subseteq AllFaults
    /\ InitialFiles \subseteq Names /\ IsFiniteSet(InitialFiles)
    /\ None \notin Names \cup Instances

VARIABLES disk,     \* the snapshot files, oldest mtime first: [name, bad]
          dirLock,  \* the instance holding the flock on l2.lock, or None
          mem       \* [Instances -> the object's fields and its two threads]

vars == <<disk, dirLock, mem>>

(* ------------------------------- the disk ------------------------------- *)

NamesOf(files) == {files[k].name : k \in DOMAIN files}

OnDisk(n) == n \in NamesOf(disk)

\* No two files have one name.
BytesOf(files) == MapThenSumSet(LAMBDA n : Size[n], NamesOf(files))

Removed(n) ==
    IF OnDisk(n) THEN RemoveAt(disk, CHOOSE k \in DOMAIN disk : disk[k].name = n) ELSE disk

\* What may be left of the disk when only some of its files are removed: m of
\* them, in their order.
Partly(m) ==
    {[p \in 1..m |-> disk[at[p]]] :
        at \in {at \in [1..m -> DOMAIN disk] : \A p, q \in 1..m : p < q => at[p] < at[q]}}

\* Mutant of Newest: the file's older place is not given up.
NewestTwice(n) == Append(disk, [name |-> n, bad |-> FALSE])

\* os.replace gives the final name a new file; os.utime makes one the newest.
Newest(n) == Append(Removed(n), [name |-> n, bad |-> FALSE])

\* Mutant of writable: the flock is not asked for.
writableAlways(i) == TRUE

writable(i) == dirLock = i

(* ------------------------------- the memory ----------------------------- *)

NoJob == [name |-> None, epoch |-> 0, tmp |-> FALSE]

\* Blank: before __init__ (and after the process died).
Blank ==
    [life |-> "off",        \* off, open, joining (in shutdown), closed
     call |-> "idle",       \* the caller's thread: idle, enqueue, unlink, recount
     arg |-> None,          \* ... and the file it works on
     queue |-> <<>>,        \* _write_queue; NoJob is the None that stops the writer
     slots |-> MaxInFlight, \* _writer_slots
     epoch |-> 0,           \* _epoch
     tracked |-> 0,         \* _tracked_disk_bytes
     gate |-> TRUE,         \* _write_gate
     active |-> 0,          \* _active_requests
     stop |-> FALSE,        \* _stop
     writer |-> "none",     \* the writer's program counter
     job |-> NoJob,         \* the job in its hands
     files |-> <<>>,        \* what its eviction walk saw and has not visited
     observed |-> 0,        \* the bytes the walk counted
     refused |-> {}]        \* history: the files this eviction could not unlink

\* __init__: take the flock if it is free, count what is there, start a writer.
Start(i) ==
    /\ mem[i].life = "off"
    /\ LET locked == dirLock = None
       IN  /\ dirLock' = IF locked THEN i ELSE dirLock
           /\ mem' = [mem EXCEPT ![i] = [Blank EXCEPT !.life = "open",
                                                      !.tracked = BytesOf(disk),
                                                      !.writer = IF locked THEN "get" ELSE "none"]]
    /\ UNCHANGED disk

(* ------------------------------ the caller ------------------------------ *)

Idle(i) == mem[i].life = "open" /\ mem[i].call = "idle"

\* insert_async, first half: writable, and the file is not there yet.
InsertCheck(i, n) ==
    /\ Idle(i)
    /\ writable(i)
    /\ ~ OnDisk(n)
    /\ mem' = [mem EXCEPT ![i].call = "enqueue", ![i].arg = n]
    /\ UNCHANGED <<disk, dirLock>>

\* ... second half: a slot, the serialisation (which may raise), the queue.
InsertEnqueue(i) ==
    /\ mem[i].call = "enqueue"
    /\ \/ /\ mem[i].slots > 0
          /\ mem' = [mem EXCEPT
                ![i].call = "idle", ![i].arg = None,
                ![i].slots = @ - 1,
                ![i].queue = Append(@, [name |-> mem[i].arg, epoch |-> mem[i].epoch,
                                        tmp |-> FALSE])]
       \/ /\ mem[i].slots = 0 \/ "io" \in Faults
          /\ mem' = [mem EXCEPT ![i].call = "idle", ![i].arg = None]
    /\ UNCHANGED <<disk, dirLock>>

\* lookup, once a file is the best candidate: a readable one becomes the newest
\* (any instance may do that); an unreadable one is unlinked, if writable.
LookupLoad(i, k) ==
    /\ Idle(i)
    /\ \/ /\ ~ disk[k].bad
          /\ disk' = Newest(disk[k].name)
          /\ UNCHANGED mem
       \/ /\ disk[k].bad
          /\ writable(i)
          /\ mem' = [mem EXCEPT ![i].call = "unlink", ![i].arg = disk[k].name]
          /\ UNCHANGED disk
    /\ UNCHANGED dirLock

\* _unlink_if_writable: unlink outside the lock, then count again under it; a
\* file that is gone, or will not go, is an OSError, and nothing is counted.
LookupUnlink(i) ==
    /\ mem[i].call = "unlink"
    /\ \/ /\ OnDisk(mem[i].arg)
          /\ disk' = Removed(mem[i].arg)
          /\ mem' = [mem EXCEPT ![i].call = "recount", ![i].arg = None]
       \/ /\ ~ OnDisk(mem[i].arg) \/ "unlink" \in Faults
          /\ mem' = [mem EXCEPT ![i].call = "idle", ![i].arg = None]
          /\ UNCHANGED disk
    /\ UNCHANGED dirLock

LookupRecount(i) ==
    /\ mem[i].call = "recount"
    /\ mem' = [mem EXCEPT ![i].call = "idle", ![i].tracked = BytesOf(disk)]
    /\ UNCHANGED <<disk, dirLock>>

BeginRequest(i) ==
    /\ Idle(i)
    /\ mem[i].active < ActiveBound
    /\ mem' = [mem EXCEPT ![i].active = @ + 1, ![i].gate = FALSE]
    /\ UNCHANGED <<disk, dirLock>>

\* Mutant of EndRequest: the last request leaves the gate shut.
EndRequestGateShut(i) ==
    /\ Idle(i)
    /\ mem[i].active > 0
    /\ mem' = [mem EXCEPT ![i].active = @ - 1]
    /\ UNCHANGED <<disk, dirLock>>

EndRequest(i) ==
    /\ Idle(i)
    /\ mem[i].active > 0
    /\ mem' = [mem EXCEPT ![i].active = @ - 1, ![i].gate = @ \/ mem[i].active = 1]
    /\ UNCHANGED <<disk, dirLock>>

\* Under the lock; a failing rmtree leaves some of the files.
Clear(i) ==
    /\ Idle(i)
    /\ writable(i)
    /\ mem[i].epoch < EpochBound
    /\ \E m \in 0..Len(disk) : \E left \in Partly(m) :
          /\ m > 0 => "rmtree" \in Faults
          /\ disk' = left
          /\ mem' = [mem EXCEPT ![i].epoch = @ + 1, ![i].tracked = BytesOf(disk')]
    /\ UNCHANGED dirLock

\* Mutant of Shutdown: the writer is stopped before the jobs that wait.
ShutdownAtOnce(i) ==
    /\ Idle(i)
    /\ mem' = [mem EXCEPT ![i].life = "joining",
                          ![i].gate = TRUE,
                          ![i].queue = IF mem[i].writer = "none" THEN @ ELSE <<NoJob>> \o @]
    /\ UNCHANGED <<disk, dirLock>>

\* Mutant of Shutdown: the gate is left as it is.
ShutdownGateShut(i) ==
    /\ Idle(i)
    /\ mem' = [mem EXCEPT ![i].life = "joining",
                          ![i].queue = IF mem[i].writer = "none" THEN @ ELSE Append(@, NoJob)]
    /\ UNCHANGED <<disk, dirLock>>

Shutdown(i) ==
    /\ Idle(i)
    /\ mem' = [mem EXCEPT ![i].life = "joining",
                          ![i].gate = TRUE,
                          ![i].queue = IF mem[i].writer = "none" THEN @ ELSE Append(@, NoJob)]
    /\ UNCHANGED <<disk, dirLock>>

Ended(i) == mem[i].writer \in {"none", "done", "dead"}

\* join(timeout=10), then the lock is given up whatever the writer is doing.
ShutdownFinish(i) ==
    /\ mem[i].life = "joining"
    /\ Ended(i) \/ "timeout" \in Faults
    /\ mem' = [mem EXCEPT ![i].life = "closed", ![i].stop = TRUE]
    /\ dirLock' = IF writable(i) THEN None ELSE dirLock
    /\ UNCHANGED disk

(* ------------------------------ the writer ------------------------------ *)

\* Mutant of JobDone: the slot is not released.
JobDoneKeepingSlot(i, pc) ==
    [mem EXCEPT ![i].writer = pc, ![i].job = NoJob,
                ![i].files = <<>>, ![i].observed = 0, ![i].refused = {}]

\* The job is over, for whatever reason: "finally: release the slot".
JobDone(i, pc) ==
    [mem EXCEPT ![i].writer = pc, ![i].job = NoJob, ![i].slots = @ + 1,
                ![i].files = <<>>, ![i].observed = 0, ![i].refused = {}]

WriterAt(i, pc) == mem[i].writer = pc

\* None ends the thread.  (The loop's other exit, an empty queue once _stop is
\* set, is never taken: shutdown queues None before it sets _stop.)
WriterGet(i) ==
    /\ WriterAt(i, "get")
    /\ mem[i].queue # <<>>
    /\ LET job == Head(mem[i].queue)
       IN  mem' = [mem EXCEPT ![i].queue = Tail(@), ![i].job = job,
                              ![i].writer = IF job = NoJob THEN "done" ELSE "gate"]
    /\ UNCHANGED <<disk, dirLock>>

\* The gate is waited for once per job.
WriterGate(i) ==
    /\ WriterAt(i, "gate")
    /\ mem[i].gate \/ mem[i].stop
    /\ mem' = [mem EXCEPT ![i].writer = "check"]
    /\ UNCHANGED <<disk, dirLock>>

WriterCheckEpoch(i) ==
    /\ WriterAt(i, "check")
    /\ mem' = IF mem[i].job.epoch = mem[i].epoch
              THEN [mem EXCEPT ![i].writer = "save"]
              ELSE JobDone(i, "get")
    /\ UNCHANGED <<disk, dirLock>>

\* _write_job_to_disk: the loop survives an OSError; any other exception of the
\* save releases the slot and ends the thread.
WriterSave(i) ==
    /\ WriterAt(i, "save")
    /\ \/ mem' = [mem EXCEPT ![i].writer = "payload", ![i].job.tmp = ~ OnDisk(mem[i].job.name)]
       \/ "io" \in Faults /\ mem' = JobDone(i, "get")
       \/ "save" \in Faults /\ ~ OnDisk(mem[i].job.name) /\ mem' = JobDone(i, "dead")
    /\ UNCHANGED <<disk, dirLock>>

\* _write_payload: still the owner of the directory, and not cleared since.
WriterPayload(i) ==
    /\ WriterAt(i, "payload")
    /\ mem' = IF writable(i) /\ mem[i].job.epoch = mem[i].epoch
              THEN [mem EXCEPT ![i].writer = "exists"]
              ELSE JobDone(i, "get")
    /\ UNCHANGED <<disk, dirLock>>

WriterExists(i) ==
    /\ WriterAt(i, "exists")
    /\ mem' = IF OnDisk(mem[i].job.name) \/ ~ mem[i].job.tmp
              THEN JobDone(i, "get")
              ELSE [mem EXCEPT ![i].writer = "replace"]
    /\ UNCHANGED <<disk, dirLock>>

\* Mutant of WriterReplace: the epoch is not looked at again.
WriterReplaceAnyEpoch(i) ==
    /\ WriterAt(i, "replace")
    /\ disk' = Newest(mem[i].job.name)
    /\ mem' = [mem EXCEPT ![i].writer = "evict", ![i].tracked = @ + Size[mem[i].job.name]]
    /\ UNCHANGED dirLock

\* Mutant of WriterReplace: the new file is not counted.
WriterReplaceUncounted(i) ==
    /\ WriterAt(i, "replace")
    /\ mem[i].job.epoch = mem[i].epoch
    /\ disk' = Newest(mem[i].job.name)
    /\ mem' = [mem EXCEPT ![i].writer = "evict"]
    /\ UNCHANGED dirLock

\* Under the lock: the epoch again, then os.replace and the new file's size.
WriterReplace(i) ==
    /\ WriterAt(i, "replace")
    /\ \/ /\ mem[i].job.epoch = mem[i].epoch
          /\ disk' = Newest(mem[i].job.name)
          /\ mem' = [mem EXCEPT ![i].writer = "evict",
                                ![i].tracked = @ + Size[mem[i].job.name]]
       \/ /\ mem[i].job.epoch # mem[i].epoch \/ "io" \in Faults
          /\ mem' = JobDone(i, "get")
          /\ UNCHANGED disk
    /\ UNCHANGED dirLock

\* _evict_to_budget: over budget is decided under the lock, the walk is not.
WriterOverBudget(i) ==
    /\ WriterAt(i, "evict")
    /\ mem' = IF writable(i) /\ MaxBytes > 0 /\ mem[i].tracked > MaxBytes
              THEN [mem EXCEPT ![i].writer = "walk"]
              ELSE JobDone(i, "get")
    /\ UNCHANGED <<disk, dirLock>>

WriterWalk(i) ==
    /\ WriterAt(i, "walk")
    /\ mem' = [mem EXCEPT ![i].writer = "observe",
                          ![i].files = disk, ![i].observed = BytesOf(disk)]
    /\ UNCHANGED <<disk, dirLock>>

WriterObserve(i) ==
    /\ WriterAt(i, "observe")
    /\ mem' = [mem EXCEPT ![i].writer = "scan", ![i].tracked = mem[i].observed]
    /\ UNCHANGED <<disk, dirLock>>

\* Mutant of WriterScan: eviction stops one byte early.
WriterScanShort(i) ==
    /\ WriterAt(i, "scan")
    /\ mem' = IF mem[i].files = <<>> \/ mem[i].tracked <= MaxBytes + 1
              THEN JobDone(i, "get")
              ELSE [mem EXCEPT ![i].writer = "unlink"]
    /\ UNCHANGED <<disk, dirLock>>

WriterScan(i) ==
    /\ WriterAt(i, "scan")
    /\ mem' = IF mem[i].files = <<>> \/ mem[i].tracked <= MaxBytes
              THEN JobDone(i, "get")
              ELSE [mem EXCEPT ![i].writer = "unlink"]
    /\ UNCHANGED <<disk, dirLock>>

\* The oldest file of the walk goes; one that is gone, or will not go, is passed
\* over ("except OSError: continue"), ...
WriterUnlink(i) ==
    /\ WriterAt(i, "unlink")
    /\ LET n == Head(mem[i].files).name
       IN  \/ /\ OnDisk(n)
              /\ disk' = Removed(n)
              /\ mem' = [mem EXCEPT ![i].writer = "subtract"]
           \/ /\ ~ OnDisk(n) \/ "unlink" \in Faults
              /\ mem' = [mem EXCEPT ![i].writer = "scan", ![i].files = Tail(@),
                                    ![i].refused = @ \cup {n}]
              /\ UNCHANGED disk
    /\ UNCHANGED dirLock

\* ... and its size is subtracted in a later section under the lock.
WriterSubtract(i) ==
    /\ WriterAt(i, "subtract")
    /\ LET size == Size[Head(mem[i].files).name]
       IN  mem' = [mem EXCEPT ![i].writer = "scan",
                              ![i].files = Tail(@),
                              ![i].tracked = IF @ > size THEN @ - size ELSE 0]
    /\ UNCHANGED <<disk, dirLock>>

(* ---------------------------- the environment --------------------------- *)

\* A file turns out unreadable (torn by a power cut, or of another schema).
Spoil(k) ==
    /\ "spoil" \in Faults
    /\ ~ disk[k].bad
    /\ disk' = [disk EXCEPT ![k].bad = TRUE]
    /\ UNCHANGED <<dirLock, mem>>

\* The process dies; the kernel drops its flock.
Crash(i) ==
    /\ "crash" \in Faults
    /\ mem[i].life # "off"
    /\ mem' = [mem EXCEPT ![i] = Blank]
    /\ dirLock' = IF writable(i) THEN None ELSE dirLock
    /\ UNCHANGED disk

\* A closed object whose writer has ended is garbage: its place may be reused.
Discard(i) ==
    /\ mem[i].life = "closed"
    /\ Ended(i)
    /\ mem' = [mem EXCEPT ![i] = Blank]
    /\ UNCHANGED <<disk, dirLock>>

(* --------------------------- the specification -------------------------- *)

Init ==
    /\ \E files \in SUBSET InitialFiles :
          disk = SetToSeq({[name |-> n, bad |-> FALSE] : n \in files})
    /\ dirLock = None
    /\ mem = [i \in Instances |-> Blank]

Caller(i) ==
    \/ \E n \in Names : InsertCheck(i, n)
    \/ InsertEnqueue(i)
    \/ \E k \in DOMAIN disk : LookupLoad(i, k)
    \/ LookupUnlink(i)
    \/ LookupRecount(i)
    \/ BeginRequest(i)
    \/ EndRequest(i)
    \/ Clear(i)
    \/ Shutdown(i)
    \/ ShutdownFinish(i)

WriterStep(i) ==
    \/ WriterGet(i)
    \/ WriterCheckEpoch(i)
    \/ WriterSave(i)
    \/ WriterPayload(i)
    \/ WriterExists(i)
    \/ WriterReplace(i)
    \/ WriterOverBudget(i)
    \/ WriterWalk(i)
    \/ WriterObserve(i)
    \/ WriterScan(i)
    \/ WriterUnlink(i)
    \/ WriterSubtract(i)

Next ==
    \/ \E i \in Instances : \/ Start(i)
                            \/ Caller(i)
                            \/ WriterStep(i)
                            \/ WriterGate(i)
                            \/ Crash(i)
                            \/ Discard(i)
    \/ \E k \in DOMAIN disk : Spoil(k)

Spec == Init /\ [][Next]_vars

\* The writer thread runs; Event.set() wakes a waiting writer even if the gate
\* is cleared again at once, hence the strong fairness; a call in progress
\* returns and a request that began ends.  New calls, clear() and shutdown()
\* are not forced.
Fairness ==
    \A i \in Instances :
       /\ WF_vars(WriterStep(i))
       /\ SF_vars(WriterGate(i))
       /\ WF_vars(InsertEnqueue(i) \/ LookupUnlink(i) \/ LookupRecount(i))
       /\ SF_vars(EndRequest(i))
       /\ WF_vars(ShutdownFinish(i))

FairSpec == Spec /\ Fairness

(* ------------------------------ properties ------------------------------ *)

Job == [name : Names \cup {None}, epoch : 0..EpochBound, tmp : BOOLEAN]
File == [name : Names, bad : BOOLEAN]

\* Where the writer thread may stand with a job in its hands.
Busy == {"gate", "check", "save", "payload", "exists", "replace", "evict", "walk",
         "observe", "scan", "unlink", "subtract"}

Object ==
    [life : {"off", "open", "joining", "closed"},
     call : {"idle", "enqueue", "unlink", "recount"}, arg : Names \cup {None},
     queue : Seq(Job), slots : 0..MaxInFlight, epoch : 0..EpochBound, tracked : Nat,
     gate : BOOLEAN, active : 0..ActiveBound, stop : BOOLEAN,
     writer : Busy \cup {"none", "get", "done", "dead"}, job : Job,
     files : Seq(File), observed : Nat, refused : SUBSET Names]

\* Types; the directory never holds two files of one name, and the queue no more
\* jobs than there are slots, with the None of shutdown.
TypeOK ==
    /\ disk \in Seq(File)
    /\ IsInjective([k \in DOMAIN disk |-> disk[k].name])
    /\ dirLock \in Instances \cup {None}
    /\ mem \in [Instances -> Object]
    /\ \A i \in Instances : Len(mem[i].queue) <= MaxInFlight + 1

\* A writer slot is either free, or in the queue with its job, or in the hands
\* of the writer: no path of the writer loop keeps or frees one twice.
SlotAccounting ==
    \A i \in Instances :
       mem[i].slots + Cardinality({k \in DOMAIN mem[i].queue : mem[i].queue[k] # NoJob})
                    + (IF mem[i].job # NoJob THEN 1 ELSE 0) = MaxInFlight

\* What stats() reports and eviction decides on is never less than what lies in
\* the directory, through clear(), walks, unlinks and subtractions interleaved
\* (as long as no unreadable file is removed beside the writer).
NeverUndercounts ==
    \A i \in Instances : writable(i) => mem[i].tracked >= BytesOf(disk)

\* prefix_cache_l2_max_bytes: when the writer comes back from a published file,
\* the directory is within its budget, or nothing is left in it but files that
\* this very eviction tried to unlink and could not.
BudgetAfterPublish ==
    \A i \in Instances :
       /\ mem[i].writer \in {"evict", "scan"}
       /\ mem[i].life = "open"
       /\ mem'[i].writer = "get"
       => BytesOf(disk') <= MaxBytes \/ NamesOf(disk') \subseteq mem[i].refused

\* clear() is final: a file that appears was accepted after the last clear(),
\* however far its write had got when the directory was cleared.
NoStalePublish ==
    \A n \in Names :
       ~ OnDisk(n) /\ OnDisk(n)'
       => \E i \in Instances : /\ mem[i].job.name = n
                              /\ mem[i].job.epoch = mem'[i].epoch

\* A writer that ends in order leaves no accepted job behind: shutdown's None
\* is taken last, and the gate does not keep the jobs before it.
DrainedWhenDone ==
    \A i \in Instances : mem[i].writer = "done" => mem[i].queue = <<>>

\* Every job accepted is somewhere until it is done: types, slots and the end of
\* the writer agree, whatever the order of errors, clears and shutdown.
JobsAccountedFor == TypeOK /\ SlotAccounting /\ DrainedWhenDone

\* The files of the directory change only by a step of the instance that holds
\* the flock; a second instance is a reader.
OnlyOwnerWrites ==
    NamesOf(disk) # NamesOf(disk')
    => \E i \in Instances : dirLock = i /\ mem'[i] # mem[i]

\* A full writer frees a slot again, as long as the object is in use: requests
\* pause the writer, they do not starve it.
SlotsComeBack ==
    \A i \in Instances :
       mem[i].slots = 0 ~> mem[i].slots > 0 \/ mem[i].life # "open"

\* shutdown() gets to the end without its timeout, whatever was queued and even
\* if a request was still counted as active.
ShutdownDrains ==
    \A i \in Instances : mem[i].life = "joining" ~> mem[i].life = "closed"

\* docs/architecture.md: L2 writes "flush between requests": an accepted file
\* does not stay in the queue of an object in use.
FlushesBetweenRequests ==
    \A i \in Instances :
       mem[i].queue # <<>> ~> mem[i].queue = <<>> \/ mem[i].life # "open"
==============================================================================
