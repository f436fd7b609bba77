---------------------------- MODULE OfflineProofs ----------------------------
(* What is proved of the components without a server (MCOffline):             *)
(*   - solving a layer: for any number of experts, devices and batches, any   *)
(*     spans and any routing, every expert is solved once, and every matrix   *)
(*     on its own inputs;                                                     *)
(*   - a campaign: overlays are all or nothing, a quiet fetch is whole, the   *)
(*     receipt tells the model;                                               *)
(*   - the ladder: what is packaged is one result of the verified source, and *)
(*     the receipts tell which;                                               *)
(*   - Stage B: a model left as ready is calibrated in every file a reader    *)
(*     opens, the index of a converted one stays valid;                       *)
(*   - a draft's caches: a block, served or replayed, attends to the context  *)
(*     its mask is meant to show it;                                          *)
(*   - trees of drafted tokens: each slot of one verified in one pass reads   *)
(*     what its path alone would have, and the caches keep the accepted path. *)
(* Each part has an inductive invariant of its own; in the scenes in which    *)
(* another part moves it stays, as its variables do.  The draft's trainer is  *)
(* in CalibrationProofs.                                                      *)
EXTENDS MCOffline, FiniteSetTheorems, SequenceTheorems, TLAPS

(* ----------------------------- solving a layer --------------------------- *)
(* The first invariant says where the span counter, the spans in hand and the *)
(* replaced weights stand to one another: what lies below the counter and in  *)
(* no worker's hand is done, unless a worker raised.  The second follows the  *)
(* inputs from the hooks to the results.                                      *)

WorkerType == [pc : {"claim", "solve", "put", "add", "out", "raised"}, lo : Nat, hi : Nat]

TypeInv ==
    /\ phase \in {"capture", "captured", "fused", "linear", "written", "aborted"}
    /\ task \in {1, 2} /\ next \in 0..E
    /\ worker \in [Device -> WorkerType]
    /\ weight \in [Params -> [Experts -> {0, 1}]]

\* Before the pool of a parameter starts its weights are raw, after it they are
\* all replaced.
TasksInOrder ==
    /\ phase \in {"capture", "captured"} => task = 1 /\ next = 0 /\ \A d \in Device : worker[d] = Idle
    /\ phase \in {"capture", "captured"} => \A e \in Experts : weight["gate_up_proj"][e] = 0
    /\ task = 1 => \A e \in Experts : weight["down_proj"][e] = 0
    /\ task = 2 => \A e \in Experts : weight["gate_up_proj"][e] = 1
    /\ phase \in {"linear", "written"} => \A q \in Params, e \in Experts : weight[q][e] = 1

SpansApart ==
    /\ \A d \in Device : Held(d) => worker[d].hi <= next
    /\ \A c, d \in Device : c # d /\ Held(c) /\ Held(d) => Span(c) \cap Span(d) = {}
    /\ \A d \in Device : worker[d].pc = "out" => next = E

WeightsFollow ==
    /\ \A e \in Experts : e >= next => weight[p][e] = 0
    /\ \A d \in Device, e \in Experts : Held(d) /\ e \in Span(d) => weight[p][e] = 0
    /\ (\A d \in Device : worker[d].pc # "raised") =>
          \A e \in Experts : e < next /\ (\A d \in Device : Held(d) => e \notin Span(d))
                               => weight[p][e] = 1

\* The inductive invariant.
IInv == TypeInv /\ TasksInOrder /\ SpansApart /\ (phase = "fused" => WeightsFollow)

\* There is a device, so a pool that all workers have left has handed out all.
LEMMA SomeDevice == Device # {}
BY LayerAssumption DEF Device

\* p is the parameter of the task.
LEMMA ParamOfTask ==
    ASSUME TypeInv
    PROVE  /\ task = 1 => p = "gate_up_proj"
           /\ task = 2 => p = "down_proj"
           /\ p \in Params
BY DEF TypeInv, p, Tasks, Params

LEMMA InitHolds == Init => IInv
BY LayerAssumption DEF Init, IInv, TypeInv, TasksInOrder, SpansApart, Held, WorkerType, Idle,
                       Params, Experts

\* Workers that drop spans, or keep them as they are, leave them apart.
LEMMA SpansKept ==
    ASSUME SpansApart, next' = next,
           \A c \in Device :
              /\ worker'[c].pc \in {"solve", "put"} =>
                    /\ worker[c].pc \in {"solve", "put"}
                    /\ worker'[c].lo = worker[c].lo /\ worker'[c].hi = worker[c].hi
              /\ worker'[c].pc = "out" => worker[c].pc = "out"
    PROVE  SpansApart'
BY DEF SpansApart, Held, Span

\* Claiming the next span keeps spans apart: it starts where the others end.
LEMMA ClaimHolds ==
    ASSUME IInv, NEW d \in Device, Claim(d)
    PROVE  IInv'
<1> USE DEF IInv
<1>0. TypeInv /\ TasksInOrder /\ SpansApart /\ WeightsFollow /\ worker[d].pc = "claim" /\ phase = "fused"
  BY DEF Claim
<1>p. p' = p /\ weight' = weight /\ task' = task /\ phase' = phase
  BY DEF Claim, p
<1>1. CASE next >= E
  <2>1. worker' = [worker EXCEPT ![d].pc = "out"] /\ next' = next
    BY <1>1 DEF Claim
  <2>2. next = E
    BY <1>0, <1>1, LayerAssumption DEF TypeInv
  <2>3. TypeInv'
    BY <1>0, <1>p, <2>1 DEF TypeInv, WorkerType
  <2>4. TasksInOrder'
    BY <1>0, <1>p, <2>1 DEF TasksInOrder
  <2>5. \A c \in Device : /\ Held(c)' <=> Held(c)
                          /\ Held(c)' => Span(c)' = Span(c) /\ worker'[c].hi = worker[c].hi
                          /\ worker'[c].pc = "raised" <=> worker[c].pc = "raised"
    BY <1>0, <2>1 DEF Held, Span, TypeInv, WorkerType
  <2>6. SpansApart'
    <3>1. \A c \in Device : Held(c)' => worker'[c].hi <= next'
      BY <1>0, <2>1, <2>5 DEF SpansApart
    <3>2. \A b, c \in Device : b # c /\ Held(b)' /\ Held(c)' => Span(b)' \cap Span(c)' = {}
      BY <1>0, <2>5 DEF SpansApart
    <3>3. \A c \in Device : worker'[c].pc = "out" => next' = E
      BY <2>1, <2>2
    <3> QED BY <3>1, <3>2, <3>3 DEF SpansApart
  <2>7. WeightsFollow'
    BY <1>0, <1>p, <2>1, <2>5 DEF WeightsFollow
  <2> QED BY <2>3, <2>4, <2>6, <2>7
<1>2. CASE ~(next >= E)
  <2> DEFINE hi == IF next + Chunk[d] > E THEN E ELSE next + Chunk[d]
  <2>1. /\ worker' = [worker EXCEPT ![d] = [pc |-> "solve", lo |-> next, hi |-> hi]]
        /\ next' = hi
    BY <1>2 DEF Claim
  <2>2. hi \in 0..E /\ hi > next /\ next \in Nat
    BY <1>0, <1>2, LayerAssumption DEF TypeInv
  <2> HIDE DEF hi
  <2>3. worker' \in [Device -> WorkerType]
    BY <1>0, <2>1, <2>2 DEF TypeInv, WorkerType
  <2>4. TypeInv'
    BY <1>0, <1>p, <2>1, <2>2, <2>3 DEF TypeInv
  <2>5. TasksInOrder'
    BY <1>0, <1>p DEF TasksInOrder
  <2>6. /\ worker'[d].pc = "solve" /\ worker'[d].lo = next /\ worker'[d].hi = hi
        /\ \A c \in Device : c # d => worker'[c] = worker[c]
    BY <1>0, <2>1 DEF TypeInv, WorkerType
  <2>7. /\ Held(d)' /\ Span(d)' = next..(hi - 1)
        /\ \A c \in Device : c # d => (Held(c)' <=> Held(c)) /\ Span(c)' = Span(c)
    BY <2>6 DEF Held, Span
  <2>8. \A c \in Device : Held(c) => \A e \in Span(c) : e < next /\ e \in Nat
    BY <1>0, <2>2 DEF SpansApart, Span, TypeInv, WorkerType
  <2>9. SpansApart'
    <3>1. \A c \in Device : Held(c)' => worker'[c].hi <= next'
      BY <1>0, <2>1, <2>2, <2>6, <2>7 DEF SpansApart, TypeInv, WorkerType
    <3>2. \A c \in Device : c # d /\ Held(c) => Span(c) \cap (next..(hi - 1)) = {}
      BY <2>2, <2>8
    <3>3. \A b, c \in Device : b # c /\ Held(b)' /\ Held(c)' => Span(b)' \cap Span(c)' = {}
      <4> SUFFICES ASSUME NEW b \in Device, NEW c \in Device, b # c, Held(b)', Held(c)'
                   PROVE  Span(b)' \cap Span(c)' = {}
        OBVIOUS
      <4>1. CASE b = d
        BY <2>7, <3>2, <4>1
      <4>2. CASE c = d
        BY <2>7, <3>2, <4>2
      <4>3. CASE b # d /\ c # d
        BY <1>0, <2>7, <4>3 DEF SpansApart
      <4> QED BY <4>1, <4>2, <4>3
    <3>4. \A c \in Device : worker'[c].pc = "out" => next' = E
      BY <1>0, <1>2, <2>6, LayerAssumption DEF SpansApart, TypeInv
    <3> QED BY <3>1, <3>3, <3>4 DEF SpansApart
  <2>10. WeightsFollow'
    <3>1. \A e \in Experts : e >= next' => weight'[p'][e] = 0
      BY <1>0, <1>p, <2>1, <2>2 DEF WeightsFollow, Experts
    <3>2. \A c \in Device, e \in Experts : Held(c)' /\ e \in Span(c)' => weight'[p'][e] = 0
      BY <1>0, <1>p, <2>2, <2>7 DEF WeightsFollow, Experts
    <3>3. (\A c \in Device : worker'[c].pc # "raised") =>
            \A e \in Experts : e < next' /\ (\A c \in Device : Held(c)' => e \notin Span(c)')
                                 => weight'[p'][e] = 1
      <4> SUFFICES ASSUME \A c \in Device : worker'[c].pc # "raised",
                          NEW e \in Experts, e < next',
                          \A c \in Device : Held(c)' => e \notin Span(c)'
                   PROVE  weight'[p'][e] = 1
        OBVIOUS
      <4>1. \A c \in Device : worker[c].pc # "raised"
        BY <1>0, <2>6
      <4>2. e \notin next..(hi - 1)
        BY Zenon, <2>7
      <4>3. e < next
        BY <2>1, <2>2, <4>2, LayerAssumption DEF Experts
      <4>4. \A c \in Device : Held(c) => e \notin Span(c)
        BY <1>0, <2>7 DEF Held
      <4> QED BY <1>0, <1>p, <4>1, <4>3, <4>4 DEF WeightsFollow
    <3> QED BY <3>1, <3>2, <3>3 DEF WeightsFollow
  <2> QED BY <2>4, <2>5, <2>9, <2>10
<1> QED BY <1>1, <1>2

\* A solve reads only; a worker that raises drops its span for good.
LEMMA SolveSpanHolds ==
    ASSUME IInv, NEW d \in Device, SolveSpan(d)
    PROVE  IInv'
<1>0. TypeInv /\ TasksInOrder /\ SpansApart /\ WeightsFollow /\ worker[d].pc = "solve" /\ phase = "fused"
  BY DEF SolveSpan, IInv
<1>p. p' = p /\ weight' = weight /\ task' = task /\ phase' = phase /\ next' = next
  BY DEF SolveSpan, p
<1>1. PICK to \in {"put", "raised"} : worker' = [worker EXCEPT ![d].pc = to]
  BY DEF SolveSpan
<1>2. TypeInv'
  BY <1>0, <1>p, <1>1 DEF TypeInv, WorkerType
<1>3. TasksInOrder'
  BY <1>0, <1>p DEF TasksInOrder
<1>4. \A c \in Device : /\ Held(c)' => Held(c) /\ Span(c)' = Span(c) /\ worker'[c].hi = worker[c].hi
                        /\ worker'[c].pc = "out" => worker[c].pc = "out"
                        /\ worker'[c].pc # "raised" => (Held(c)' <=> Held(c)) /\ Span(c)' = Span(c)
                        /\ worker[c].pc = "raised" => worker'[c].pc = "raised"
  BY <1>0, <1>1 DEF Held, Span, TypeInv, WorkerType
<1>s. \A c \in Device :
        /\ worker'[c].pc \in {"solve", "put"} =>
              /\ worker[c].pc \in {"solve", "put"}
              /\ worker'[c].lo = worker[c].lo /\ worker'[c].hi = worker[c].hi
        /\ worker'[c].pc = "out" => worker[c].pc = "out"
  BY <1>0, <1>1 DEF TypeInv, WorkerType
<1>5. SpansApart'
  BY <1>0, <1>p, <1>s, SpansKept
<1>6. WeightsFollow'
  BY <1>0, <1>p, <1>4 DEF WeightsFollow
<1> QED BY <1>2, <1>3, <1>5, <1>6 DEF IInv

\* The span written back is raw until then, and nobody else's.
LEMMA PutSpanHolds ==
    ASSUME IInv, NEW d \in Device, PutSpan(d)
    PROVE  IInv'
<1>0. TypeInv /\ TasksInOrder /\ SpansApart /\ WeightsFollow /\ worker[d].pc = "put" /\ phase = "fused"
  BY DEF PutSpan, IInv
<1>p. p' = p /\ task' = task /\ phase' = phase /\ next' = next
  BY DEF PutSpan, p
<1>1. /\ worker' = [worker EXCEPT ![d].pc = "add"]
      /\ weight' = [weight EXCEPT ![p] = [e \in Experts |-> IF e \in Span(d) THEN @[e] + 1 ELSE @[e]]]
  BY DEF PutSpan
<1>a. p \in Params
  BY <1>0, ParamOfTask
<1>2. /\ \A q \in Params : q # p => weight'[q] = weight[q]
      /\ \A e \in Experts : weight'[p][e] = IF e \in Span(d) THEN weight[p][e] + 1 ELSE weight[p][e]
      /\ weight'[p] = [e \in Experts |-> IF e \in Span(d) THEN weight[p][e] + 1 ELSE weight[p][e]]
  BY <1>0, <1>1, <1>a DEF TypeInv
<1>3. \A e \in Experts : e \in Span(d) => weight[p][e] = 0 /\ weight'[p][e] = 1
  BY <1>0, <1>2 DEF WeightsFollow, Held
<1>4. \A e \in Experts : e \notin Span(d) => weight'[p][e] = weight[p][e]
  BY <1>2
<1>5. TypeInv'
  <2>1. \A e \in Experts : weight'[p][e] \in {0, 1}
    BY <1>0, <1>3, <1>4, <1>a DEF TypeInv
  <2>2. weight'[p] \in [Experts -> {0, 1}]
    BY <1>2, <2>1
  <2>3. weight' \in [Params -> [Experts -> {0, 1}]]
    BY Zenon, <1>0, <1>1, <1>2, <2>2 DEF TypeInv
  <2>4. worker' \in [Device -> WorkerType]
    BY <1>0, <1>1 DEF TypeInv, WorkerType
  <2> QED BY <1>0, <1>p, <2>3, <2>4 DEF TypeInv
<1>6. TasksInOrder'
  <2>1. task = 1 => weight'["down_proj"] = weight["down_proj"]
    BY <1>0, <1>2, ParamOfTask DEF Params
  <2>2. task = 2 => weight'["gate_up_proj"] = weight["gate_up_proj"]
    BY <1>0, <1>2, ParamOfTask DEF Params
  <2> QED BY <1>0, <1>p, <2>1, <2>2 DEF TasksInOrder
<1>7. \A c \in Device : /\ Held(c)' => Held(c) /\ c # d /\ Span(c)' = Span(c) /\ worker'[c].hi = worker[c].hi
                        /\ Held(c) /\ c # d => Held(c)'
                        /\ worker'[c].pc = "out" => worker[c].pc = "out"
                        /\ worker[c].pc = "raised" <=> worker'[c].pc = "raised"
  BY <1>0, <1>1 DEF Held, Span, TypeInv, WorkerType
<1>s. \A c \in Device :
        /\ worker'[c].pc \in {"solve", "put"} =>
              /\ worker[c].pc \in {"solve", "put"}
              /\ worker'[c].lo = worker[c].lo /\ worker'[c].hi = worker[c].hi
        /\ worker'[c].pc = "out" => worker[c].pc = "out"
  BY <1>0, <1>1 DEF TypeInv, WorkerType
<1>8. SpansApart'
  BY <1>0, <1>p, <1>s, SpansKept
<1>9. WeightsFollow'
  <2>1. \A e \in Span(d) : e < next
    BY <1>0 DEF SpansApart, Held, Span, TypeInv, WorkerType
  <2>2. \A e \in Experts : e >= next' => weight'[p'][e] = 0
    <3> SUFFICES ASSUME NEW e \in Experts, e >= next
                 PROVE  weight'[p][e] = 0
      BY <1>p
    <3>1. e \notin Span(d)
      <4>1. e \in Nat /\ next \in Nat
        BY <1>0, LayerAssumption DEF TypeInv, Experts
      <4> QED BY <4>1, <2>1
    <3>2. weight[p][e] = 0
      BY <1>0 DEF WeightsFollow
    <3> QED BY <1>4, <3>1, <3>2
  <2>3. \A c \in Device, e \in Experts : Held(c)' /\ e \in Span(c)' => weight'[p'][e] = 0
    <3> SUFFICES ASSUME NEW c \in Device, NEW e \in Experts, Held(c)', e \in Span(c)'
                 PROVE  weight'[p'][e] = 0
      OBVIOUS
    <3>1. c # d /\ Held(c) /\ e \in Span(c) /\ Held(d)
      BY <1>0, <1>7 DEF Held
    <3>2. e \notin Span(d)
      BY <1>0, <3>1 DEF SpansApart
    <3> QED BY <1>0, <1>p, <1>4, <3>1, <3>2 DEF WeightsFollow
  <2>4. (\A c \in Device : worker'[c].pc # "raised") =>
          \A e \in Experts : e < next' /\ (\A c \in Device : Held(c)' => e \notin Span(c)')
                               => weight'[p'][e] = 1
    <3> SUFFICES ASSUME \A c \in Device : worker'[c].pc # "raised",
                        NEW e \in Experts, e < next',
                        \A c \in Device : Held(c)' => e \notin Span(c)'
                 PROVE  weight'[p'][e] = 1
      OBVIOUS
    <3>1. CASE e \in Span(d)
      BY <1>p, <1>3, <3>1
    <3>2. CASE e \notin Span(d)
      <4>1. \A c \in Device : Held(c) => e \notin Span(c)
        BY <1>7, <3>2
      <4>2. \A c \in Device : worker[c].pc # "raised"
        BY <1>7
      <4> QED BY <1>0, <1>p, <1>4, <3>2, <4>1, <4>2 DEF WeightsFollow
    <3> QED BY <3>1, <3>2
  <2> QED BY <2>2, <2>3, <2>4 DEF WeightsFollow
<1> QED BY <1>5, <1>6, <1>8, <1>9 DEF IInv

LEMMA AddExpertHolds ==
    ASSUME IInv, NEW d \in Device, AddExpert(d)
    PROVE  IInv'
<1>0. TypeInv /\ TasksInOrder /\ SpansApart /\ WeightsFollow /\ worker[d].pc = "add" /\ phase = "fused"
  BY DEF AddExpert, IInv
<1>p. p' = p /\ weight' = weight /\ task' = task /\ phase' = phase /\ next' = next
  BY DEF AddExpert, p
<1>1. PICK w \in WorkerType : worker' = [worker EXCEPT ![d] = w] /\ w.pc \in {"add", "claim"}
  <2>1. Idle \in WorkerType /\ Idle.pc = "claim"
    BY DEF Idle, WorkerType
  <2>2. [worker[d] EXCEPT !.lo = worker[d].lo + 1] \in WorkerType
    BY <1>0 DEF TypeInv, WorkerType
  <2>3. [worker[d] EXCEPT !.lo = worker[d].lo + 1].pc = "add"
    BY <1>0 DEF TypeInv, WorkerType
  <2> QED BY Zenon, <1>0, <2>1, <2>2, <2>3 DEF AddExpert, TypeInv
<1>2. TypeInv'
  BY <1>0, <1>p, <1>1 DEF TypeInv
<1>3. TasksInOrder'
  BY <1>0, <1>p DEF TasksInOrder
<1>4. \A c \in Device : /\ Held(c)' <=> Held(c)
                        /\ Held(c) => Span(c)' = Span(c) /\ worker'[c].hi = worker[c].hi
                        /\ worker'[c].pc = "out" => worker[c].pc = "out"
                        /\ worker[c].pc = "raised" <=> worker'[c].pc = "raised"
  BY <1>0, <1>1 DEF Held, Span, TypeInv
<1>s. \A c \in Device :
        /\ worker'[c].pc \in {"solve", "put"} =>
              /\ worker[c].pc \in {"solve", "put"}
              /\ worker'[c].lo = worker[c].lo /\ worker'[c].hi = worker[c].hi
        /\ worker'[c].pc = "out" => worker[c].pc = "out"
  BY <1>0, <1>1 DEF TypeInv, WorkerType
<1>5. SpansApart'
  BY <1>0, <1>p, <1>s, SpansKept
<1>6. WeightsFollow'
  BY <1>0, <1>p, <1>4 DEF WeightsFollow
<1> QED BY <1>2, <1>3, <1>5, <1>6 DEF IInv

\* All workers left without an exception: the parameter is done.
LEMMA JoinHolds ==
    ASSUME IInv, Join
    PROVE  IInv'
<1>0. TypeInv /\ TasksInOrder /\ SpansApart /\ WeightsFollow /\ phase = "fused" /\ weight' = weight
      /\ \A d \in Device : worker[d].pc \in {"out", "raised"}
  BY DEF Join, IInv
<1>1. CASE \E d \in Device : worker[d].pc = "raised"
  <2>1. phase' = "aborted" /\ UNCHANGED <<task, next, worker>>
    BY <1>1 DEF Join
  <2> QED BY <1>0, <2>1 DEF IInv, TypeInv, TasksInOrder, SpansApart, Held, Span
<1>2. CASE \A d \in Device : worker[d].pc = "out"
  <2>1. next = E
    BY <1>0, <1>2, SomeDevice DEF SpansApart
  <2>2. \A e \in Experts : weight[p][e] = 1
    BY <1>0, <1>2, <2>1, LayerAssumption DEF WeightsFollow, Held, Experts
  <2>3. CASE task = 1
    <3>1. /\ task' = 2 /\ next' = 0 /\ worker' = [d \in Device |-> Idle] /\ phase' = phase
      BY <1>2, <2>3, SomeDevice DEF Join, Tasks
    <3>2. p = "gate_up_proj" /\ p' = "down_proj"
      BY <1>0, <2>3, <3>1, ParamOfTask DEF p, Tasks
    <3>3. TypeInv'
      BY <1>0, <3>1, LayerAssumption DEF TypeInv, WorkerType, Idle
    <3>4. TasksInOrder'
      BY <1>0, <2>2, <3>1, <3>2 DEF TasksInOrder
    <3>5. \A d \in Device : ~Held(d)' /\ worker'[d].pc = "claim"
      BY <3>1 DEF Held, Idle
    <3>6. SpansApart'
      BY <3>5 DEF SpansApart
    <3>7. WeightsFollow'
      BY <1>0, <2>3, <3>1, <3>2, <3>5 DEF WeightsFollow, TasksInOrder, Experts
    <3> QED BY <3>3, <3>4, <3>6, <3>7 DEF IInv
  <2>4. CASE task = 2
    <3>1. phase' = "linear" /\ UNCHANGED <<task, next, worker>>
      BY <1>2, <2>4, SomeDevice DEF Join, Tasks
    <3>2. p = "down_proj"
      BY <1>0, <2>4, ParamOfTask
    <3>3. \A q \in Params, e \in Experts : weight[q][e] = 1
      BY <1>0, <2>2, <2>4, <3>2 DEF TasksInOrder, Params
    <3>4. TypeInv' /\ TasksInOrder'
      BY <1>0, <2>4, <3>1, <3>3 DEF TypeInv, TasksInOrder
    <3>5. SpansApart'
      BY <1>0, <3>1 DEF SpansApart, Held, Span
    <3> QED BY <3>1, <3>4, <3>5 DEF IInv
  <2> QED BY <1>0, <2>3, <2>4 DEF TypeInv
<1> QED BY <1>0, <1>1, <1>2

\* The other steps leave the pool alone.
LEMMA OthersHold ==
    ASSUME IInv, \/ Hook \/ Route \/ CheckFails \/ Backfill \/ SolveLinear \/ Finish
                \/ UNCHANGED vars
    PROVE  IInv'
<1>1. UNCHANGED <<weight, task, next, worker>>
  BY DEF Hook, Route, CheckFails, Backfill, SolveLinear, Finish, vars, fused
<1>2. \/ phase \in {"capture", "captured"} /\ phase' \in {"capture", "captured", "fused", "aborted"}
      \/ phase = "linear" /\ phase' \in {"linear", "written", "aborted"}
      \/ phase' = phase
  BY DEF Hook, Route, CheckFails, Backfill, SolveLinear, Finish, vars
<1>3. TypeInv' /\ TasksInOrder'
  BY <1>1, <1>2 DEF IInv, TypeInv, TasksInOrder
<1>p. p' = p
  BY <1>1 DEF p
<1>4. SpansApart'
  BY <1>1 DEF IInv, SpansApart, Held, Span
<1>5. ASSUME phase' = "fused" PROVE WeightsFollow'
  <2>1. CASE phase = "fused"
    BY <1>1, <1>p, <2>1 DEF IInv, WeightsFollow, Held, Span
  <2>2. CASE phase \in {"capture", "captured"}
    <3>1. /\ next = 0 /\ \A d \in Device : worker[d].pc = "claim" /\ ~Held(d)
          /\ \A e \in Experts : weight[p][e] = 0
      BY <2>2, ParamOfTask DEF IInv, TasksInOrder, Idle, Held
    <3> QED BY <1>1, <1>p, <3>1 DEF WeightsFollow, Held, Experts
  <2> QED BY <1>2, <1>5, <2>1, <2>2
<1> QED BY <1>3, <1>4, <1>5 DEF IInv

LEMMA StepHolds == IInv /\ [Next]_vars => IInv'
<1> SUFFICES ASSUME IInv, [Next]_vars
             PROVE  IInv'
  OBVIOUS
<1>1. ASSUME NEW d \in Device, Claim(d) \/ SolveSpan(d) \/ PutSpan(d) \/ AddExpert(d)
      PROVE  IInv'
  BY <1>1, ClaimHolds, SolveSpanHolds, PutSpanHolds, AddExpertHolds
<1>2. CASE Join
  BY <1>2, JoinHolds
<1>3. CASE Over
  BY <1>3, OthersHold DEF Over
<1>4. CASE Hook \/ Route \/ CheckFails \/ Backfill \/ SolveLinear \/ Finish \/ UNCHANGED vars
  BY <1>4, OthersHold
<1> QED BY <1>1, <1>2, <1>3, <1>4 DEF Next

LEMMA IInvGivesOnce == IInv => EachExpertOnce
BY DEF IInv, TypeInv, TasksInOrder, SpansApart, EachExpertOnce

\* solve_layer: for every number of experts and devices, every span size and
\* every order of the workers, an expert is solved once, and a layer that gets
\* to its plain matrices has all of its experts solved.
THEOREM EachExpertOnceAlways == Spec => []EachExpertOnce
<1>1. Init => IInv
  BY InitHolds
<1>2. IInv /\ [Next]_vars => IInv'
  BY StepHolds
<1>3. IInv => EachExpertOnce
  BY IInvGivesOnce
<1> QED BY <1>1, <1>2, <1>3, PTL DEF Spec

(* ------------------- what the matrices are solved on --------------------- *)
(* A second invariant: the stash a linear reads holds each batch once, though *)
(* it may be the one of a sibling; the tokens of an expert are apart from the *)
(* others', or are the sample; what a worker carries was read before anybody  *)
(* replaced the weights of its span.                                          *)

\* The matrix is the first of those called with its input: it owns the stash.
Owner(i) == \A j \in 1..(i - 1) : InputOf[Linears[j]] # InputOf[Linears[i]]

\* Batches in which the hook of matrix i has run.
HookedIn(i, ph, b, ps) ==
    IF ph # "capture" THEN Batches ELSE IF i < ps THEN b ELSE b - 1

Hooked(i) == HookedIn(i, phase, batch, pos)

StashOf(k, i) ==
    \E r \in DOMAIN Linears : /\ r <= i /\ Owner(r) /\ k = Linears[r]
                              /\ InputOf[Linears[r]] = InputOf[Linears[i]]

CaptureTypeInv ==
    /\ batch \in 1..Batches /\ pos \in 1..(Len(Linears) + 1)
    /\ phase \in {"captured", "fused"} => pos = 1
    /\ keyOf \in [Linear -> Linear]
    /\ DOMAIN rows = Linear /\ rows = [l \in Linear |-> rows[l]]
    /\ DOMAIN cached = Linear /\ cached = [l \in Linear |-> cached[l]]
    /\ DOMAIN solved = Linear /\ solved = [l \in Linear |-> solved[l]]

StashesAreShared ==
    /\ \A i \in DOMAIN Linears :
          IF Hooked(i) = 0 THEN keyOf[Linears[i]] = Linears[i] ELSE StashOf(keyOf[Linears[i]], i)
    /\ \A i \in DOMAIN Linears :
          Owner(i) => rows[Linears[i]] = Inputs(Hooked(i), InputOf[Linears[i]])
    /\ phase = "capture" =>
          /\ DOMAIN seen = {InputOf[Linears[j]] : j \in 1..(pos - 1)}
          /\ \A x \in DOMAIN seen : \E r \in 1..(pos - 1) :
                Owner(r) /\ InputOf[Linears[r]] = x /\ seen[x] = Linears[r]

LinearsSolved ==
    /\ \A k \in Linear : cached[k] # None => cached[k].damped = FALSE
    /\ \A l \in Linear :
          solved[l] \in {None, [rows |-> Inputs(Batches, InputOf[l]), damped |-> FALSE]}
    /\ phase = "linear" => \A i \in 1..(pos - 1) : solved[Linears[i]] # None
    /\ phase = "written" => \A l \in Linear : solved[l] # None

Pairs(R) == {<<r.batch, r.token>> : r \in R}

\* The tokens of two experts have nothing in common, but for the sample.
Apart(R, S, smp) == R \cap S = {} \/ smp \in {Pairs(R), Pairs(S)}

\* The stashes as the solver may use them.
Ready(tok, smp) ==
    /\ \A e \in Experts : tok["gate_up_proj"][e] # {}
    /\ \A e, f \in Experts : e # f => Apart(tok["gate_up_proj"][e], tok["gate_up_proj"][f], smp)

TokensRouted ==
    /\ tokens \in [Params -> [Experts -> SUBSET RowType]]
    /\ tokens["gate_up_proj"] = tokens["down_proj"]
    /\ sample \subseteq (1..Batches) \X Tokens
    /\ phase = "capture" =>
          \A e \in Experts : \A r \in tokens["gate_up_proj"][e] : r.batch < batch
    /\ (phase = "capture" /\ batch > 1) \/ phase = "captured" => Tokens = {} \/ sample # {}
    /\ phase \in {"capture", "captured"} =>
          \A e, f \in Experts : e # f => tokens["gate_up_proj"][e] \cap tokens["gate_up_proj"][f] = {}
    /\ phase \in {"fused", "linear", "written"} => Ready(tokens, sample)

Busy(d) == worker[d].pc \in {"solve", "put", "add"}

Solution(R) == [rows |-> R, over |-> 0]

SpansCarried ==
    /\ DOMAIN basis = Device /\ basis = [d \in Device |-> basis[d]]
    /\ \A d \in Device : Busy(d) => worker[d].lo < worker[d].hi /\ worker[d].hi <= next
    /\ phase = "fused" =>
          \A d \in Device : worker[d].pc \in {"put", "add"} =>
             \A e \in Span(d) : basis[d][e] = Solution(tokens[p][e])

ResultsKept ==
    /\ result \in [Params -> [Experts -> {None} \cup [rows : SUBSET RowType, over : {0}]]]
    /\ \A q \in Params, e \in Experts : result[q][e] \in {None, Solution(tokens[q][e])}
    /\ (\E q \in Params, e \in Experts : result[q][e] # None) => Ready(tokens, sample)
    /\ phase \in {"capture", "captured"} => \A q \in Params, e \in Experts : result[q][e] = None
    /\ task = 1 => \A e \in Experts : result["down_proj"][e] = None
    /\ task = 2 => \A e \in Experts : result["gate_up_proj"][e] # None
    /\ phase \in {"linear", "written"} => \A q \in Params, e \in Experts : result[q][e] # None

ResultsFollow ==
    (\A d \in Device : worker[d].pc # "raised") =>
        \A e \in Experts : e < next /\ (\A d \in Device : Busy(d) => e \notin Span(d))
                             => result[p][e] # None

\* The second inductive invariant, relative to the first.
SInv ==
    /\ CaptureTypeInv /\ StashesAreShared /\ LinearsSolved
    /\ TokensRouted /\ SpansCarried /\ ResultsKept
    /\ phase = "fused" => ResultsFollow

LEMMA SInitHolds == Init => SInv
<1> SUFFICES ASSUME Init
             PROVE  SInv
  OBVIOUS
<1> USE DEF Init
<1>1. CaptureTypeInv
  BY LayerAssumption DEF CaptureTypeInv
<1>2. StashesAreShared
  <2>1. \A i \in DOMAIN Linears : Hooked(i) = 0
    BY LayerAssumption DEF Hooked, HookedIn
  <2>2. \A i \in DOMAIN Linears : Linears[i] \in Linear
    BY DEF Linear
  <2>3. \A x : Inputs(0, x) = <<>>
    BY DEF Inputs
  <2>4. \A i \in DOMAIN Linears : rows[Linears[i]] = <<>> /\ keyOf[Linears[i]] = Linears[i]
    BY <2>2
  <2>5. DOMAIN seen = {InputOf[Linears[j]] : j \in 1..(pos - 1)}
    BY DEF StashesAreShared
  <2>6. \A x \in DOMAIN seen : \E r \in 1..(pos - 1) :
                Owner(r) /\ InputOf[Linears[r]] = x /\ seen[x] = Linears[r]
    OBVIOUS
  <2> QED BY Zenon, <2>1, <2>3, <2>4, <2>5, <2>6 DEF StashesAreShared
<1>3. LinearsSolved
  BY DEF LinearsSolved
<1>4. TokensRouted
  BY LayerAssumption DEF TokensRouted, Params
<1>5. SpansCarried
  BY DEF SpansCarried, Busy, Idle
<1>6. ResultsKept
  BY DEF ResultsKept, Params
<1> QED BY <1>1, <1>2, <1>3, <1>4, <1>5, <1>6 DEF SInv

\* The pool's steps, and those that only change the phase, leave the stashes and
\* the plain matrices alone.
LEMMA CaptureKept ==
    ASSUME CaptureTypeInv, StashesAreShared, LinearsSolved, TokensRouted,
           UNCHANGED <<capture, serial>>,
           \/ phase' = phase
           \/ /\ phase \in {"captured", "fused", "linear"} /\ phase' = "aborted"
           \/ phase = "fused" /\ phase' = "linear"
           \/ phase = "linear" /\ phase' = "written" /\ pos > Len(Linears)
    PROVE  CaptureTypeInv' /\ StashesAreShared' /\ LinearsSolved' /\ TokensRouted'
<1> USE DEF capture, serial
<1>1. CaptureTypeInv'
  BY DEF CaptureTypeInv
<1>2. \A i : Hooked(i)' = Hooked(i)
  BY DEF Hooked, HookedIn
<1>3. StashesAreShared'
  BY <1>2 DEF StashesAreShared
<1>4. LinearsSolved'
  <2>1. phase' = "linear" /\ phase # "linear" => pos = 1
    BY DEF CaptureTypeInv
  <2>2. phase' = "linear" => \A i \in 1..(pos - 1) : solved[Linears[i]] # None
    <3>1. CASE phase = "linear"
      BY <3>1 DEF LinearsSolved
    <3>2. CASE phase # "linear"
      BY <2>1, <3>2
    <3> QED BY <3>1, <3>2
  <2>3. phase' = "written" => \A l \in Linear : solved[l] # None
    <3>1. CASE phase = "written"
      BY <3>1 DEF LinearsSolved
    <3>2. ASSUME phase' = "written", phase # "written", NEW l \in Linear
          PROVE  solved[l] # None
      <4>1. phase = "linear" /\ pos > Len(Linears) /\ pos \in Nat
        BY <3>2 DEF CaptureTypeInv
      <4>2. PICK i \in DOMAIN Linears : l = Linears[i]
        BY DEF Linear
      <4>3. i \in 1..(pos - 1)
        BY <4>1, LayerAssumption
      <4> QED BY <4>1, <4>2, <4>3 DEF LinearsSolved
    <3> QED BY <3>1, <3>2
  <2> QED BY <2>2, <2>3 DEF LinearsSolved
<1>5. TokensRouted'
  BY DEF TokensRouted
<1> QED BY <1>1, <1>3, <1>4, <1>5

\* What the pool has done stays, as long as nobody touches its state.
LEMMA PoolKept ==
    ASSUME SpansCarried, ResultsKept, phase = "fused" => ResultsFollow,
           UNCHANGED <<fused, tokens, sample>>,
           phase' \in {"fused", "linear"} => phase' = phase,
           phase' \in {"capture", "captured"} => phase \in {"capture", "captured"},
           phase' = "written" => phase \in {"linear", "written"}
    PROVE  SpansCarried' /\ ResultsKept' /\ (phase' = "fused" => ResultsFollow')
<1> USE DEF fused
<1>p. p' = p
  BY DEF p
<1>1. SpansCarried'
  BY <1>p DEF SpansCarried, Busy, Span
<1>2. ResultsKept'
  BY DEF ResultsKept
<1>3. phase' = "fused" => ResultsFollow'
  BY <1>p DEF ResultsFollow, Busy, Span
<1> QED BY <1>1, <1>2, <1>3

LEMMA OneMoreInput ==
    ASSUME NEW n \in Nat, NEW x
    PROVE  Append(Inputs(n, x), <<n + 1, x>>) = Inputs(n + 1, x)
BY DEF Inputs

\* A hook either stashes the batch's tensor under its owner or finds it stashed
\* by the owner, earlier in this batch.
LEMMA HookKeepsStashes ==
    ASSUME IInv, SInv, Hook
    PROVE  CaptureTypeInv' /\ StashesAreShared'
<1> DEFINE l == Linears[pos]
           x == InputOf[l]
<1>0. CaptureTypeInv /\ StashesAreShared
  BY DEF SInv
<1>1. /\ phase = "capture" /\ phase' = "capture" /\ pos \in DOMAIN Linears /\ pos \in Nat \ {0}
      /\ pos' = pos + 1 /\ batch' = batch /\ batch \in 1..Batches /\ Batches \in Nat
      /\ l \in Linear /\ UNCHANGED <<cached, solved>>
  BY <1>0, LayerAssumption DEF Hook, CaptureTypeInv, Linear, serial
<1>n. \A i \in DOMAIN Linears : i \in Nat \ {0} /\ Linears[i] \in Linear
  BY LayerAssumption DEF Linear
<1>i. \A i \in DOMAIN Linears : Linears[i] = l <=> i = pos
  BY <1>1, LayerAssumption
<1>h. \A i \in DOMAIN Linears : Hooked(i)' = IF i = pos THEN batch ELSE Hooked(i)
  BY <1>1, <1>n DEF Hooked, HookedIn
<1>b. Hooked(pos) = batch - 1
  BY <1>1 DEF Hooked, HookedIn
<1>s. \A j \in 1..pos : j \in DOMAIN Linears
  BY <1>1, LayerAssumption
<1> HIDE DEF l
<1>2. CASE x \in DOMAIN seen
  <2>1. /\ keyOf' = [keyOf EXCEPT ![l] = seen[x]] /\ rows' = rows /\ seen' = seen
    BY <1>2 DEF Hook, Shared, l
  <2>2. PICK r \in 1..(pos - 1) : Owner(r) /\ InputOf[Linears[r]] = x /\ seen[x] = Linears[r]
    BY <1>0, <1>1, <1>2 DEF StashesAreShared
  <2>3. r \in DOMAIN Linears /\ r < pos /\ r \in Nat \ {0}
    BY <1>1, <1>s, <2>2
  <2>4. ~ Owner(pos)
    BY <1>1, <2>2, <2>3 DEF Owner, l
  <2>5. CaptureTypeInv'
    <3>1. seen[x] \in Linear
      BY <1>n, <2>2, <2>3
    <3>2. keyOf' \in [Linear -> Linear]
      BY Zenon, <1>0, <2>1, <3>1 DEF CaptureTypeInv
    <3> QED BY <1>0, <1>1, <2>1, <3>2, LayerAssumption DEF CaptureTypeInv
  <2>6. \A i \in DOMAIN Linears :
          IF Hooked(i)' = 0 THEN keyOf'[Linears[i]] = Linears[i] ELSE StashOf(keyOf'[Linears[i]], i)
    <3> SUFFICES ASSUME NEW i \in DOMAIN Linears
                 PROVE  IF Hooked(i)' = 0 THEN keyOf'[Linears[i]] = Linears[i]
                                          ELSE StashOf(keyOf'[Linears[i]], i)
      OBVIOUS
    <3>1. CASE i = pos
      <4>1. Hooked(i)' # 0
        BY <1>1, <1>h, <3>1
      <4>2. keyOf'[Linears[i]] = Linears[r]
        BY <1>0, <1>1, <1>i, <2>1, <2>2, <3>1 DEF CaptureTypeInv
      <4>3. StashOf(Linears[r], pos)
        BY <1>1, <2>2, <2>3 DEF StashOf, l
      <4> QED BY <3>1, <4>1, <4>2, <4>3
    <3>2. CASE i # pos
      <4>1. keyOf'[Linears[i]] = keyOf[Linears[i]]
        BY <1>0, <1>i, <1>n, <2>1, <3>2 DEF CaptureTypeInv
      <4> QED BY <1>0, <1>h, <3>2, <4>1 DEF StashesAreShared
    <3> QED BY <3>1, <3>2
  <2>7. \A i \in DOMAIN Linears :
          Owner(i) => rows'[Linears[i]] = Inputs(Hooked(i)', InputOf[Linears[i]])
    BY <1>0, <1>h, <2>1, <2>4 DEF StashesAreShared
  <2>8. DOMAIN seen' = {InputOf[Linears[j]] : j \in 1..(pos' - 1)}
    <3>1. DOMAIN seen = {InputOf[Linears[j]] : j \in 1..(pos - 1)}
      BY <1>0, <1>1 DEF StashesAreShared
    <3>2. \A j \in 1..pos : j \in 1..(pos - 1) \/ j = pos
      BY <1>1
    <3>3. 1..(pos' - 1) = 1..pos
      BY <1>1
    <3>4. \A j \in 1..pos : InputOf[Linears[j]] \in DOMAIN seen
      BY <1>2, <3>1, <3>2 DEF l
    <3>5. \A j \in 1..(pos - 1) : j \in 1..pos
      BY <1>1
    <3>6. {InputOf[Linears[j]] : j \in 1..pos} = DOMAIN seen
      BY <3>1, <3>4, <3>5
    <3> QED BY Zenon, <2>1, <3>3, <3>6
  <2>9. \A y \in DOMAIN seen' : \E k \in 1..(pos' - 1) :
                Owner(k) /\ InputOf[Linears[k]] = y /\ seen'[y] = Linears[k]
    BY <1>0, <1>1, <2>1 DEF StashesAreShared
  <2>10. StashesAreShared'
    BY <2>6, <2>7, <2>8, <2>9 DEF StashesAreShared
  <2> QED BY <2>5, <2>10
<1>3. CASE x \notin DOMAIN seen
  <2>1. /\ seen' = [y \in DOMAIN seen \cup {x} |-> IF y = x THEN keyOf[l] ELSE seen[y]]
        /\ rows' = [rows EXCEPT ![keyOf[l]] = Append(@, <<batch, x>>)]
        /\ keyOf' = keyOf
    BY <1>3 DEF Hook, l
  <2>a. DOMAIN seen = {InputOf[Linears[j]] : j \in 1..(pos - 1)}
    BY <1>0, <1>1 DEF StashesAreShared
  <2>2. Owner(pos)
    BY <1>3, <2>a DEF Owner, l
  <2>3. keyOf[l] = l
    <3>1. CASE Hooked(pos) = 0
      BY <1>0, <1>1, <3>1 DEF StashesAreShared, l
    <3>2. CASE Hooked(pos) # 0
      <4>1. StashOf(keyOf[l], pos)
        BY <1>0, <1>1, <3>2 DEF StashesAreShared, l
      <4>2. PICK r \in DOMAIN Linears : r <= pos /\ Owner(r) /\ keyOf[l] = Linears[r]
                                        /\ InputOf[Linears[r]] = InputOf[Linears[pos]]
        BY <4>1 DEF StashOf
      <4>3. r = pos
        <5>1. r \in Nat \ {0} /\ (r # pos => r \in 1..(pos - 1))
          BY <1>1, <1>n, <4>2
        <5> QED BY <2>2, <4>2, <5>1 DEF Owner
      <4> QED BY <4>2, <4>3 DEF l
    <3> QED BY <3>1, <3>2
  <2>4. rows' = [rows EXCEPT ![l] = Append(rows[l], <<batch, x>>)]
    BY <2>1, <2>3
  <2>5. CaptureTypeInv'
    <3>1. DOMAIN rows' = Linear /\ rows' = [k \in Linear |-> rows'[k]]
      BY Zenon, <1>0, <2>4 DEF CaptureTypeInv
    <3> QED BY <1>0, <1>1, <2>1, <3>1, LayerAssumption DEF CaptureTypeInv
  <2>6. \A i \in DOMAIN Linears :
          IF Hooked(i)' = 0 THEN keyOf'[Linears[i]] = Linears[i] ELSE StashOf(keyOf'[Linears[i]], i)
    <3> SUFFICES ASSUME NEW i \in DOMAIN Linears
                 PROVE  IF Hooked(i)' = 0 THEN keyOf'[Linears[i]] = Linears[i]
                                          ELSE StashOf(keyOf'[Linears[i]], i)
      OBVIOUS
    <3>1. CASE i = pos
      <4>1. Hooked(i)' # 0
        BY <1>1, <1>h, <3>1
      <4>2. StashOf(Linears[pos], pos)
        BY <1>1, <2>2 DEF StashOf
      <4> QED BY <2>1, <2>3, <3>1, <4>1, <4>2 DEF l
    <3>2. CASE i # pos
      BY <1>0, <1>h, <2>1, <3>2 DEF StashesAreShared
    <3> QED BY <3>1, <3>2
  <2>7. \A i \in DOMAIN Linears :
          Owner(i) => rows'[Linears[i]] = Inputs(Hooked(i)', InputOf[Linears[i]])
    <3> SUFFICES ASSUME NEW i \in DOMAIN Linears, Owner(i)
                 PROVE  rows'[Linears[i]] = Inputs(Hooked(i)', InputOf[Linears[i]])
      OBVIOUS
    <3>1. CASE i = pos
      <4>1. rows[l] = Inputs(batch - 1, x)
        BY <1>0, <1>1, <1>b, <2>2 DEF StashesAreShared, l
      <4>2. batch - 1 \in Nat /\ (batch - 1) + 1 = batch
        BY <1>1
      <4>3. Append(Inputs(batch - 1, x), <<batch, x>>) = Inputs(batch, x)
        BY Zenon, <4>2, OneMoreInput
      <4>4. rows'[l] = Append(rows[l], <<batch, x>>)
        BY <1>0, <1>1, <2>4 DEF CaptureTypeInv
      <4> QED BY Zenon, <1>h, <1>i, <3>1, <4>1, <4>3, <4>4
    <3>2. CASE i # pos
      <4>1. rows'[Linears[i]] = rows[Linears[i]]
        BY <1>0, <1>i, <1>n, <2>4, <3>2 DEF CaptureTypeInv
      <4> QED BY <1>0, <1>h, <3>2, <4>1 DEF StashesAreShared
    <3> QED BY <3>1, <3>2
  <2>8. DOMAIN seen' = {InputOf[Linears[j]] : j \in 1..(pos' - 1)}
    <3>1. DOMAIN seen' = {InputOf[Linears[j]] : j \in 1..(pos - 1)} \cup {InputOf[Linears[pos]]}
      BY <2>1, <2>a DEF l
    <3>2. 1..(pos' - 1) = 1..(pos - 1) \cup {pos}
      BY <1>1
    <3> QED BY <3>1, <3>2
  <2>9. \A y \in DOMAIN seen' : \E k \in 1..(pos' - 1) :
                Owner(k) /\ InputOf[Linears[k]] = y /\ seen'[y] = Linears[k]
    <3> SUFFICES ASSUME NEW y \in DOMAIN seen'
                 PROVE  \E k \in 1..(pos' - 1) :
                           Owner(k) /\ InputOf[Linears[k]] = y /\ seen'[y] = Linears[k]
      OBVIOUS
    <3>0. pos \in 1..(pos' - 1) /\ \A k \in 1..(pos - 1) : k \in 1..(pos' - 1)
      BY <1>1
    <3>1. CASE y = x
      <4>1. seen'[y] = Linears[pos]
        BY <2>1, <2>3, <3>1 DEF l
      <4> QED BY <2>2, <3>0, <3>1, <4>1 DEF l
    <3>2. CASE y # x
      <4>1. y \in DOMAIN seen /\ seen'[y] = seen[y]
        BY <2>1, <3>2
      <4> QED BY <1>0, <1>1, <3>0, <4>1 DEF StashesAreShared
    <3> QED BY <3>1, <3>2
  <2>10. StashesAreShared'
    BY <2>6, <2>7, <2>8, <2>9 DEF StashesAreShared
  <2> QED BY <2>5, <2>10
<1> QED BY <1>2, <1>3

\* Every stash holds the batch when the experts are called.
LEMMA RouteKeepsStashes ==
    ASSUME IInv, SInv, Route
    PROVE  CaptureTypeInv' /\ StashesAreShared'
<1>0. CaptureTypeInv /\ StashesAreShared
  BY DEF SInv
<1>1. /\ phase = "capture" /\ pos = Len(Linears) + 1 /\ pos' = 1 /\ seen' = <<>>
      /\ batch \in 1..Batches /\ Batches \in Nat /\ Len(Linears) \in Nat
      /\ UNCHANGED <<keyOf, rows, cached, solved>>
      /\ \/ batch < Batches /\ batch' = batch + 1 /\ phase' = phase
         \/ batch = Batches /\ batch' = batch /\ phase' = "captured"
  BY <1>0, LayerAssumption DEF Route, CaptureTypeInv, serial
<1>2. CaptureTypeInv'
  BY <1>0, <1>1 DEF CaptureTypeInv
<1>3. \A i \in DOMAIN Linears : Hooked(i)' = Hooked(i)
  <2>1. \A i \in DOMAIN Linears : i >= 1 /\ i < pos
    BY <1>1, LayerAssumption
  <2> QED BY <1>1, <2>1 DEF Hooked, HookedIn
<1>4. /\ DOMAIN seen' = {InputOf[Linears[j]] : j \in 1..(pos' - 1)}
      /\ DOMAIN seen' = {}
  <2>1. 1..(pos' - 1) = {}
    BY <1>1
  <2>2. DOMAIN <<>> = {}
    OBVIOUS
  <2> QED BY <1>1, <2>1, <2>2
<1>5. StashesAreShared'
  BY <1>0, <1>1, <1>3, <1>4 DEF StashesAreShared
<1> QED BY <1>2, <1>5

\* One batch more in the linears' and the experts' stashes: its tokens are new,
\* and each goes to one expert.
LEMMA RouteKeepsTokens ==
    ASSUME IInv, SInv, Route
    PROVE  TokensRouted'
<1>0. TokensRouted /\ CaptureTypeInv /\ TasksInOrder
  BY DEF SInv, IInv
<1>1. /\ phase = "capture" /\ phase' \in {"capture", "captured"}
      /\ batch \in 1..Batches /\ Batches \in Nat
      /\ phase' = "capture" => batch' = batch + 1
  <2>1. /\ phase = "capture"
        /\ IF batch < Batches THEN batch' = batch + 1 /\ phase' = phase
                              ELSE phase' = "captured" /\ batch' = batch
    BY DEF Route
  <2>2. batch \in 1..Batches /\ Batches \in Nat
    BY <1>0, LayerAssumption DEF CaptureTypeInv
  <2> QED BY <2>1, <2>2
<1>2. PICK to \in [Tokens -> Experts], kept \in SUBSET Tokens :
          /\ Cardinality(kept) = IF Cardinality(Tokens) > SampleMax THEN SampleMax ELSE Cardinality(Tokens)
          /\ sample' = sample \cup {<<batch, t>> : t \in kept}
          /\ tokens' = [q \in Params |-> [e \in Experts |->
                          tokens[q][e] \cup {Row(batch, t, e) : t \in {u \in Tokens : eager /\ to[u] = e}}]]
  BY DEF Route
<1> DEFINE New(e) == {Row(batch, t, e) : t \in {u \in Tokens : eager /\ to[u] = e}}
<1>3. \A t : \A e \in Experts : Row(batch, t, e) = [batch |-> batch, token |-> t, made |-> 0]
  BY <1>0, <1>1 DEF Row, TasksInOrder
<1>4. \A e \in Experts : \A r \in New(e) :
          r \in RowType /\ r.batch = batch /\ r.token \in Tokens /\ to[r.token] = e
  BY <1>1, <1>3 DEF RowType
<1>5. tokens' = [q \in Params |-> [e \in Experts |-> tokens[q][e] \cup New(e)]]
  BY <1>2
<1> HIDE DEF New
<1>6. \A q \in Params : tokens'[q] = [e \in Experts |-> tokens[q][e] \cup New(e)]
  BY <1>5
<1>g. "gate_up_proj" \in Params /\ "down_proj" \in Params
  BY DEF Params
<1>t. \A e \in Experts : tokens'["gate_up_proj"][e] = tokens["gate_up_proj"][e] \cup New(e)
  <2>1. tokens'["gate_up_proj"] = [e \in Experts |-> tokens["gate_up_proj"][e] \cup New(e)]
    BY <1>6, <1>g
  <2> QED BY <2>1
<1>7. tokens' \in [Params -> [Experts -> SUBSET RowType]]
  <2>1. \A q \in Params, e \in Experts : tokens[q][e] \cup New(e) \in SUBSET RowType
    BY <1>0, <1>4 DEF TokensRouted
  <2> QED BY <1>5, <2>1
<1>8. tokens'["gate_up_proj"] = tokens'["down_proj"]
  BY Zenon, <1>0, <1>6, <1>g DEF TokensRouted
<1>9. sample' \subseteq (1..Batches) \X Tokens
  BY <1>0, <1>1, <1>2 DEF TokensRouted
<1>10. phase' = "capture" =>
          \A e \in Experts : \A r \in tokens'["gate_up_proj"][e] : r.batch < batch'
  <2> SUFFICES ASSUME phase' = "capture", NEW e \in Experts, NEW r \in tokens'["gate_up_proj"][e]
               PROVE  r.batch < batch'
    OBVIOUS
  <2>1. r \in tokens["gate_up_proj"][e] \/ r \in New(e)
    BY <1>t
  <2>2. CASE r \in tokens["gate_up_proj"][e]
    <3>1. r \in RowType /\ r.batch < batch
      BY <1>0, <1>1, <1>g, <2>2 DEF TokensRouted
    <3>2. r.batch \in 1..Batches
      BY <3>1 DEF RowType
    <3> QED BY <1>1, <3>1, <3>2
  <2>3. CASE r \in New(e)
    BY <1>1, <1>4, <2>3
  <2> QED BY <2>1, <2>2, <2>3
<1>11. Tokens = {} \/ sample' # {}
  <2> SUFFICES ASSUME Tokens # {}
               PROVE  sample' # {}
    OBVIOUS
  <2>1. Cardinality(Tokens) # 0 /\ Cardinality({}) = 0
    BY LayerAssumption, FS_EmptySet
  <2>2. Cardinality(kept) # 0
    BY <1>2, <2>1, LayerAssumption
  <2>3. kept # {}
    BY <2>1, <2>2
  <2> QED BY Zenon, <1>2, <2>3
<1>12. \A e, f \in Experts : e # f => tokens'["gate_up_proj"][e] \cap tokens'["gate_up_proj"][f] = {}
  <2> SUFFICES ASSUME NEW e \in Experts, NEW f \in Experts, e # f,
                      NEW r, r \in tokens'["gate_up_proj"][e], r \in tokens'["gate_up_proj"][f]
               PROVE  FALSE
    OBVIOUS
  <2>1. /\ r \in tokens["gate_up_proj"][e] \/ r \in New(e)
        /\ r \in tokens["gate_up_proj"][f] \/ r \in New(f)
    BY <1>t
  <2>2. ~ (r \in tokens["gate_up_proj"][e] /\ r \in tokens["gate_up_proj"][f])
    BY <1>0, <1>1 DEF TokensRouted
  <2>3. ~ (r \in New(e) /\ r \in New(f))
    BY <1>4
  <2>4. r \in tokens["gate_up_proj"][e] \/ r \in tokens["gate_up_proj"][f] => r.batch < batch
    BY <1>0, <1>1 DEF TokensRouted
  <2>5. r \in New(e) \/ r \in New(f) => ~ (r.batch < batch)
    BY <1>1, <1>4
  <2> QED BY <2>1, <2>2, <2>3, <2>4, <2>5
<1> QED BY <1>1, <1>7, <1>8, <1>9, <1>10, <1>11, <1>12 DEF TokensRouted

\* An expert without tokens gets the sample, which is not empty as some other
\* expert has got tokens.
LEMMA BackfillKeepsTokens ==
    ASSUME IInv, SInv, Backfill
    PROVE  TokensRouted'
<1>0. TokensRouted /\ TasksInOrder
  BY DEF SInv, IInv
<1>1. /\ phase = "captured" /\ phase' = "fused" /\ sample' = sample /\ ~ Uncaptured
      /\ tokens' = [q \in Params |-> [e \in Experts |->
                    IF e \in Missing THEN tokens[q][e] \cup {Row(r[1], r[2], e) : r \in sample}
                                     ELSE tokens[q][e]]]
  BY DEF Backfill
<1> DEFINE Filled(e) == {Row(r[1], r[2], e) : r \in sample}
<1>g. "gate_up_proj" \in Params /\ "down_proj" \in Params
  BY DEF Params
<1>2. \A b, t : \A e \in Experts :
          /\ Row(b, t, e) = [batch |-> b, token |-> t, made |-> 0]
          /\ Row(b, t, e).batch = b /\ Row(b, t, e).token = t
  BY <1>0, <1>1 DEF Row, TasksInOrder
<1>3. \A r \in sample : r[1] \in 1..Batches /\ r[2] \in Tokens /\ r = <<r[1], r[2]>>
  BY <1>0 DEF TokensRouted
<1>4. \A e \in Experts : Filled(e) \subseteq RowType
  <2>1. \A e \in Experts, r \in sample : Row(r[1], r[2], e) \in RowType
    BY <1>2, <1>3 DEF RowType
  <2> QED BY <2>1
<1>5. \A e \in Experts : Pairs(Filled(e)) = sample
  <2> SUFFICES ASSUME NEW e \in Experts
               PROVE  Pairs(Filled(e)) = sample
    OBVIOUS
  <2>1. \A r \in sample : <<Row(r[1], r[2], e).batch, Row(r[1], r[2], e).token>> = r
    <3>1. \A r \in sample : Row(r[1], r[2], e).batch = r[1] /\ Row(r[1], r[2], e).token = r[2]
      BY <1>2
    <3> QED BY <1>3, <3>1
  <2>2. \A x \in Pairs(Filled(e)) : x \in sample
    BY <2>1 DEF Pairs
  <2>3. \A r \in sample : r \in Pairs(Filled(e))
    BY <2>1 DEF Pairs
  <2> QED BY Zenon, <2>2, <2>3
<1>6. sample # {}
  <2>1. PICK e \in Experts : tokens["gate_up_proj"][e] # {}
    BY <1>1, <1>g DEF Uncaptured
  <2>2. PICK r : r \in tokens["gate_up_proj"][e]
    BY <2>1
  <2>3. r \in RowType
    BY <1>0, <1>g, <2>2 DEF TokensRouted
  <2>4. Tokens # {}
    BY <2>3 DEF RowType
  <2> QED BY <1>0, <1>1, <2>4 DEF TokensRouted
<1>7. \A e \in Experts : Filled(e) # {}
  BY <1>6
<1>8. tokens' = [q \in Params |-> [e \in Experts |->
                  IF e \in Missing THEN tokens[q][e] \cup Filled(e) ELSE tokens[q][e]]]
  BY <1>1
<1> HIDE DEF Filled
<1>9. \A q \in Params : tokens'[q] = [e \in Experts |->
                  IF e \in Missing THEN tokens[q][e] \cup Filled(e) ELSE tokens[q][e]]
  BY <1>8
<1>10. \A e \in Experts :
          tokens'["gate_up_proj"][e] = IF e \in Missing THEN Filled(e) ELSE tokens["gate_up_proj"][e]
  <2>1. tokens'["gate_up_proj"] = [e \in Experts |->
                  IF e \in Missing THEN tokens["gate_up_proj"][e] \cup Filled(e)
                                   ELSE tokens["gate_up_proj"][e]]
    BY <1>9, <1>g
  <2>2. \A e \in Missing : tokens["gate_up_proj"][e] = {}
    BY DEF Missing
  <2> QED BY <2>1, <2>2
<1>11. tokens' \in [Params -> [Experts -> SUBSET RowType]]
  <2>1. \A q \in Params, e \in Experts :
          (IF e \in Missing THEN tokens[q][e] \cup Filled(e) ELSE tokens[q][e]) \in SUBSET RowType
    BY <1>0, <1>4 DEF TokensRouted
  <2> QED BY <1>8, <2>1
<1>12. tokens'["gate_up_proj"] = tokens'["down_proj"]
  BY Zenon, <1>0, <1>9, <1>g DEF TokensRouted
<1>13. \A e \in Experts : tokens'["gate_up_proj"][e] # {}
  BY <1>7, <1>10 DEF Missing
<1>14. \A e, f \in Experts : e # f =>
          Apart(tokens'["gate_up_proj"][e], tokens'["gate_up_proj"][f], sample')
  <2> SUFFICES ASSUME NEW e \in Experts, NEW f \in Experts, e # f
               PROVE  Apart(tokens'["gate_up_proj"][e], tokens'["gate_up_proj"][f], sample)
    BY Zenon, <1>1
  <2>1. CASE e \in Missing \/ f \in Missing
    BY <1>5, <1>10, <2>1 DEF Apart
  <2>2. CASE e \notin Missing /\ f \notin Missing
    BY Zenon, <1>0, <1>1, <1>10, <2>2 DEF Apart, TokensRouted
  <2> QED BY <2>1, <2>2
<1> QED BY Zenon, <1>0, <1>1, <1>11, <1>12, <1>13, <1>14 DEF TokensRouted, Ready

\* While tokens are gathered no worker has anything in hand and nothing is solved.
LEMMA GatheringKeepsPool ==
    ASSUME IInv, SInv, Route \/ Backfill
    PROVE  SpansCarried' /\ ResultsKept' /\ (phase' = "fused" => ResultsFollow')
<1>0. SpansCarried /\ ResultsKept /\ TasksInOrder /\ TypeInv
  BY DEF SInv, IInv
<1>1. /\ phase \in {"capture", "captured"} /\ phase' \in {"capture", "captured", "fused"}
      /\ UNCHANGED fused
  BY DEF Route, Backfill
<1> USE DEF fused
<1>2. task = 1 /\ next = 0 /\ (\A d \in Device : worker[d] = Idle)
      /\ \A q \in Params, e \in Experts : result[q][e] = None
  BY <1>0, <1>1 DEF TasksInOrder, ResultsKept
<1>3. \A d \in Device : worker'[d].pc = "claim"
  BY <1>1, <1>2 DEF Idle
<1>4. SpansCarried'
  BY <1>0, <1>1, <1>3 DEF SpansCarried, Busy
<1>5. ResultsKept'
  BY <1>0, <1>1, <1>2 DEF ResultsKept
<1>6. ResultsFollow'
  BY <1>1, <1>2 DEF ResultsFollow, Experts
<1> QED BY <1>4, <1>5, <1>6

\* A plain matrix is solved on the stash its key names: all batches of its input,
\* with a Hessian as it was accumulated.
LEMMA SolveLinearHolds ==
    ASSUME IInv, SInv, SolveLinear
    PROVE  CaptureTypeInv' /\ StashesAreShared' /\ LinearsSolved' /\ TokensRouted'
<1> DEFINE l == Linears[pos]
           H == Hessian(keyOf[l], Head(devq))
<1>0. CaptureTypeInv /\ StashesAreShared /\ LinearsSolved /\ TokensRouted
  BY DEF SInv
<1>1. /\ phase = "linear" /\ pos \in DOMAIN Linears /\ pos \in Nat \ {0}
      /\ UNCHANGED <<batch, keyOf, rows, tokens, sample>>
      /\ l \in Linear /\ keyOf[l] \in Linear
  BY <1>0, LayerAssumption DEF SolveLinear, CaptureTypeInv, Linear
<1>2. /\ cached' = [cached EXCEPT ![keyOf[l]] = H]
      /\ \/ /\ solved' = [solved EXCEPT ![l] = [rows |-> rows[keyOf[l]], damped |-> H.damped]]
            /\ pos' = pos + 1 /\ phase' = phase
         \/ phase' = "aborted" /\ solved' = solved /\ pos' = pos
  BY DEF SolveLinear, Keep
<1>3. H.damped = FALSE
  <2>1. [device |-> Head(devq), damped |-> FALSE].damped = FALSE
    OBVIOUS
  <2> QED BY <1>0, <1>1, <2>1 DEF Hessian, LinearsSolved
<1> HIDE DEF H
<1>4. rows[keyOf[l]] = Inputs(Batches, InputOf[l])
  <2>1. Hooked(pos) = Batches /\ Batches # 0
    BY <1>1, LayerAssumption DEF Hooked, HookedIn
  <2>2. StashOf(keyOf[l], pos)
    BY <1>0, <1>1, <2>1 DEF StashesAreShared
  <2>3. PICK r \in DOMAIN Linears : Owner(r) /\ keyOf[l] = Linears[r] /\ InputOf[Linears[r]] = InputOf[l]
    BY <2>2 DEF StashOf
  <2>4. Hooked(r) = Batches
    BY <1>1 DEF Hooked, HookedIn
  <2> QED BY <1>0, <2>3, <2>4 DEF StashesAreShared
<1>5. /\ DOMAIN solved' = Linear /\ solved' = [k \in Linear |-> solved'[k]]
      /\ DOMAIN cached' = Linear /\ cached' = [k \in Linear |-> cached'[k]]
  BY <1>0, <1>1, <1>2 DEF CaptureTypeInv
<1>6. pos' \in 1..(Len(Linears) + 1) /\ pos' \in {pos, pos + 1}
  BY <1>1, <1>2, LayerAssumption
<1>7. CaptureTypeInv'
  BY <1>0, <1>1, <1>2, <1>5, <1>6 DEF CaptureTypeInv
<1>8. StashesAreShared'
  <2>1. \A i : Hooked(i)' = Hooked(i)
    BY <1>1, <1>2 DEF Hooked, HookedIn
  <2> QED BY <1>0, <1>1, <1>2, <2>1 DEF StashesAreShared
<1>9. TokensRouted'
  BY <1>0, <1>1, <1>2 DEF TokensRouted
<1>10. \A k \in Linear : cached'[k] # None => cached'[k].damped = FALSE
  BY <1>0, <1>1, <1>2, <1>3 DEF LinearsSolved, CaptureTypeInv
<1>11. \A k \in Linear :
          /\ solved'[k] \in {None, [rows |-> Inputs(Batches, InputOf[k]), damped |-> FALSE]}
          /\ solved[k] # None => solved'[k] # None
          /\ phase' = "linear" /\ k = l => solved'[k] # None
  <2>1. CASE solved' = solved /\ phase' = "aborted"
    BY <1>0, <2>1 DEF LinearsSolved
  <2>2. CASE solved' = [solved EXCEPT ![l] = [rows |-> rows[keyOf[l]], damped |-> H.damped]]
    <3>1. \A k \in Linear : solved'[k] = IF k = l THEN [rows |-> Inputs(Batches, InputOf[l]), damped |-> FALSE]
                                                  ELSE solved[k]
      BY Zenon, <1>0, <1>1, <1>3, <1>4, <2>2 DEF CaptureTypeInv
    <3>2. [rows |-> Inputs(Batches, InputOf[l]), damped |-> FALSE] # None
      BY <1>1, NoneAssumption
    <3> QED BY <1>0, <3>1, <3>2 DEF LinearsSolved
  <2> QED BY <1>2, <2>1, <2>2
<1>12. phase' = "linear" => \A i \in 1..(pos' - 1) : solved'[Linears[i]] # None
  <2> SUFFICES ASSUME phase' = "linear", NEW i \in 1..(pos' - 1)
               PROVE  solved'[Linears[i]] # None
    OBVIOUS
  <2>1. pos' = pos + 1
    BY <1>2
  <2>2. (i = pos \/ i \in 1..(pos - 1)) /\ i \in DOMAIN Linears
    BY <1>1, <2>1, LayerAssumption
  <2>3. Linears[i] \in Linear
    BY <2>2 DEF Linear
  <2>4. CASE i = pos
    BY <1>1, <1>11, <2>4
  <2>5. CASE i \in 1..(pos - 1)
    BY <1>0, <1>1, <1>11, <2>3, <2>5 DEF LinearsSolved
  <2> QED BY <2>2, <2>4, <2>5
<1>13. LinearsSolved'
  BY <1>1, <1>2, <1>10, <1>11, <1>12 DEF LinearsSolved
<1> QED BY <1>7, <1>8, <1>9, <1>13

LEMMA InHandIsExpert ==
    ASSUME TypeInv, SpansCarried, NEW d \in Device, Busy(d)
    PROVE  \A e \in Span(d) : e \in Experts
<1>1. worker[d].lo \in Nat /\ worker[d].hi \in Nat /\ next \in 0..E /\ E \in Nat
  BY LayerAssumption DEF TypeInv, WorkerType
<1>2. worker[d].hi <= next
  BY DEF SpansCarried
<1> QED BY <1>1, <1>2 DEF Span, Experts

\* A worker takes the next span: nothing is solved, and no more is unclaimed.
LEMMA ClaimKeepsPool ==
    ASSUME IInv, SInv, NEW d \in Device, Claim(d)
    PROVE  SpansCarried' /\ ResultsKept' /\ ResultsFollow'
<1>0. /\ SpansCarried /\ ResultsKept /\ ResultsFollow /\ TypeInv
      /\ worker[d].pc = "claim" /\ phase = "fused" /\ phase' = phase
      /\ UNCHANGED <<tokens, sample, task, basis, result>>
  BY DEF SInv, IInv, Claim, capture
<1>p. p' = p
  BY <1>0 DEF p
<1>1. ResultsKept'
  BY <1>0 DEF ResultsKept
<1>2. CASE next >= E
  <2>1. worker' = [worker EXCEPT ![d].pc = "out"] /\ next' = next
    BY <1>2 DEF Claim
  <2>2. \A c \in Device : /\ Busy(c)' <=> Busy(c)
                          /\ Busy(c)' => worker'[c] = worker[c]
                          /\ worker'[c].pc = "raised" <=> worker[c].pc = "raised"
    BY <1>0, <2>1 DEF Busy, TypeInv, WorkerType
  <2>3. \A c \in Device : Busy(c)' => Span(c)' = Span(c)
    BY <2>2 DEF Span
  <2>4. SpansCarried'
    BY <1>0, <1>p, <2>1, <2>2, <2>3 DEF SpansCarried, Busy
  <2>5. ResultsFollow'
    BY <1>0, <1>p, <2>1, <2>2, <2>3 DEF ResultsFollow
  <2> QED BY <1>1, <2>4, <2>5
<1>3. CASE ~(next >= E)
  <2> DEFINE hi == IF next + Chunk[d] > E THEN E ELSE next + Chunk[d]
  <2>1. /\ worker' = [worker EXCEPT ![d] = [pc |-> "solve", lo |-> next, hi |-> hi]]
        /\ next' = hi
    BY <1>3 DEF Claim
  <2>2. hi \in 0..E /\ hi > next /\ next \in Nat
    BY <1>0, <1>3, LayerAssumption DEF TypeInv
  <2> HIDE DEF hi
  <2>3. /\ worker'[d].pc = "solve" /\ worker'[d].lo = next /\ worker'[d].hi = hi
        /\ \A c \in Device : c # d => worker'[c] = worker[c]
    BY <1>0, <2>1 DEF TypeInv, WorkerType
  <2>4. /\ Busy(d)' /\ Span(d)' = next..(hi - 1)
        /\ \A c \in Device : c # d => (Busy(c)' <=> Busy(c)) /\ Span(c)' = Span(c)
    BY <2>3 DEF Busy, Span
  <2>5. ~ Busy(d)
    BY <1>0 DEF Busy
  <2>6. SpansCarried'
    <3>1. \A c \in Device : Busy(c)' => worker'[c].lo < worker'[c].hi /\ worker'[c].hi <= next'
      <4> SUFFICES ASSUME NEW c \in Device, Busy(c)'
                   PROVE  worker'[c].lo < worker'[c].hi /\ worker'[c].hi <= next'
        OBVIOUS
      <4>1. CASE c = d
        BY <2>1, <2>2, <2>3, <4>1, LayerAssumption
      <4>2. CASE c # d
        <5>1. worker'[c] = worker[c] /\ worker[c].lo < worker[c].hi /\ worker[c].hi <= next
          BY <1>0, <2>3, <2>4, <4>2 DEF SpansCarried
        <5>2. worker[c].hi \in Nat
          BY <1>0 DEF TypeInv, WorkerType
        <5> QED BY <2>1, <2>2, <5>1, <5>2, LayerAssumption
      <4> QED BY <4>1, <4>2
    <3>2. \A c \in Device : worker'[c].pc \in {"put", "add"} => c # d /\ worker[c].pc \in {"put", "add"}
      BY <2>3
    <3>3. \A c \in Device : worker'[c].pc \in {"put", "add"} =>
             \A e \in Span(c)' : basis'[c][e] = Solution(tokens'[p'][e])
      BY <1>0, <1>p, <2>4, <3>2 DEF SpansCarried
    <3> QED BY <1>0, <3>1, <3>3 DEF SpansCarried
  <2>7. ResultsFollow'
    <3> SUFFICES ASSUME \A c \in Device : worker'[c].pc # "raised",
                        NEW e \in Experts, e < next',
                        \A c \in Device : Busy(c)' => e \notin Span(c)'
                 PROVE  result'[p'][e] # None
      BY DEF ResultsFollow
    <3>1. \A c \in Device : worker[c].pc # "raised"
      BY <1>0, <2>3
    <3>2. e < next
      BY <2>1, <2>2, <2>4, LayerAssumption DEF Experts
    <3>3. \A c \in Device : Busy(c) => e \notin Span(c)
      BY <2>4, <2>5
    <3> QED BY <1>0, <1>p, <3>1, <3>2, <3>3 DEF ResultsFollow
  <2> QED BY <1>1, <2>6, <2>7
<1> QED BY <1>2, <1>3

\* What a worker carries from its solve was read from its experts' own stashes
\* and raw weights.
LEMMA SolveSpanKeepsPool ==
    ASSUME IInv, SInv, NEW d \in Device, SolveSpan(d)
    PROVE  SpansCarried' /\ ResultsKept' /\ ResultsFollow'
<1>0. /\ SpansCarried /\ ResultsKept /\ ResultsFollow /\ TypeInv /\ SpansApart /\ WeightsFollow
      /\ worker[d].pc = "solve" /\ phase = "fused" /\ phase' = phase
      /\ UNCHANGED <<tokens, sample, task, next, result>>
  BY DEF SInv, IInv, SolveSpan, capture
<1>p. p' = p
  BY <1>0 DEF p
<1>1. PICK to \in {"put", "raised"} :
         /\ worker' = [worker EXCEPT ![d].pc = to]
         /\ to = "put" => basis' = [basis EXCEPT ![d] =
                [e \in Span(d) |-> [rows |-> tokens[p][e], over |-> weight[p][e]]]]
         /\ to = "raised" => basis' = basis
  BY DEF SolveSpan
<1>2. ResultsKept'
  BY <1>0 DEF ResultsKept
<1>3. /\ worker'[d].pc = to /\ worker'[d].lo = worker[d].lo /\ worker'[d].hi = worker[d].hi
      /\ \A c \in Device : c # d => worker'[c] = worker[c]
  BY <1>0, <1>1 DEF TypeInv, WorkerType
<1>4. /\ \A c \in Device : Span(c)' = Span(c) /\ (Busy(c)' => Busy(c))
      /\ to = "put" => \A c \in Device : Busy(c)' <=> Busy(c)
  BY <1>0, <1>1, <1>3 DEF Span, Busy
<1>5. \A e \in Span(d) : e \in Experts
  BY <1>0, InHandIsExpert DEF Busy
<1>6. to = "put" => \A e \in Span(d) : basis'[d][e] = Solution(tokens[p][e])
  <2>1. \A e \in Span(d) : weight[p][e] = 0
    BY <1>0, <1>5 DEF WeightsFollow, Held
  <2> QED BY <1>0, <1>1, <2>1 DEF SpansCarried, Solution
<1>7. DOMAIN basis' = Device /\ (basis' = [c \in Device |-> basis'[c]])
      /\ \A c \in Device : c # d => basis'[c] = basis[c]
  BY <1>0, <1>1 DEF SpansCarried
<1>8. SpansCarried'
  <2>1. \A c \in Device : Busy(c)' => worker'[c].lo < worker'[c].hi /\ worker'[c].hi <= next'
    BY <1>0, <1>3, <1>4 DEF SpansCarried
  <2>2. \A c \in Device : worker'[c].pc \in {"put", "add"} =>
           \A e \in Span(c)' : basis'[c][e] = Solution(tokens'[p'][e])
    <3> SUFFICES ASSUME NEW c \in Device, worker'[c].pc \in {"put", "add"}, NEW e \in Span(c)
                 PROVE  basis'[c][e] = Solution(tokens[p][e])
      BY <1>0, <1>p, <1>4
    <3>1. CASE c = d
      BY <1>1, <1>3, <1>6, <3>1
    <3>2. CASE c # d
      BY <1>0, <1>3, <1>7, <3>2 DEF SpansCarried
    <3> QED BY <3>1, <3>2
  <2> QED BY <1>7, <2>1, <2>2 DEF SpansCarried
<1>9. ResultsFollow'
  <2> SUFFICES ASSUME \A c \in Device : worker'[c].pc # "raised"
               PROVE  ResultsFollow'
    BY DEF ResultsFollow
  <2>1. to = "put"
    BY <1>1, <1>3
  <2>2. \A c \in Device : worker[c].pc # "raised"
    BY <1>0, <1>3
  <2> QED BY <1>0, <1>p, <1>4, <2>1, <2>2 DEF ResultsFollow
<1> QED BY <1>2, <1>8, <1>9

\* Replacing weights changes nothing of what was read before.
LEMMA PutSpanKeepsPool ==
    ASSUME IInv, SInv, NEW d \in Device, PutSpan(d)
    PROVE  SpansCarried' /\ ResultsKept' /\ ResultsFollow'
<1>0. /\ SpansCarried /\ ResultsKept /\ ResultsFollow /\ TypeInv
      /\ worker[d].pc = "put" /\ phase = "fused" /\ phase' = phase
      /\ UNCHANGED <<tokens, sample, task, next, basis, result>>
      /\ worker' = [worker EXCEPT ![d].pc = "add"]
  BY DEF SInv, IInv, PutSpan, capture
<1>p. p' = p
  BY <1>0 DEF p
<1>1. ResultsKept'
  BY <1>0 DEF ResultsKept
<1>2. \A c \in Device :
         /\ worker'[c].lo = worker[c].lo /\ worker'[c].hi = worker[c].hi
         /\ worker'[c].pc = IF c = d THEN "add" ELSE worker[c].pc
  BY <1>0 DEF TypeInv, WorkerType
<1>3. \A c \in Device :
         /\ Span(c)' = Span(c) /\ (Busy(c)' <=> Busy(c))
         /\ worker'[c].pc \in {"put", "add"} <=> worker[c].pc \in {"put", "add"}
         /\ worker'[c].pc = "raised" <=> worker[c].pc = "raised"
  BY <1>0, <1>2 DEF Span, Busy
<1>4. SpansCarried'
  BY <1>0, <1>p, <1>2, <1>3 DEF SpansCarried
<1>5. ResultsFollow'
  BY <1>0, <1>p, <1>3 DEF ResultsFollow
<1> QED BY <1>1, <1>4, <1>5

\* An expert's result is what was read for it, and its span shrinks by it.
LEMMA AddExpertKeepsPool ==
    ASSUME IInv, SInv, NEW d \in Device, AddExpert(d)
    PROVE  SpansCarried' /\ ResultsKept' /\ ResultsFollow'
<1> DEFINE e0 == worker[d].lo
<1>0. /\ SpansCarried /\ ResultsKept /\ ResultsFollow /\ TypeInv /\ TokensRouted
      /\ worker[d].pc = "add" /\ phase = "fused" /\ phase' = phase
      /\ UNCHANGED <<tokens, sample, task, next, basis>>
      /\ result' = [result EXCEPT ![p][e0] = basis[d][e0]]
      /\ worker' = [worker EXCEPT ![d] =
            IF e0 + 1 < worker[d].hi THEN [worker[d] EXCEPT !.lo = e0 + 1] ELSE Idle]
  BY DEF SInv, IInv, AddExpert, capture
<1>p. p' = p /\ p \in Params
  BY <1>0, ParamOfTask DEF p
<1>b. Busy(d)
  BY <1>0 DEF Busy
<1>1. /\ e0 \in Nat /\ worker[d].hi \in Nat /\ e0 < worker[d].hi /\ worker[d].hi <= next
      /\ next \in Nat
  BY <1>0, <1>b, LayerAssumption DEF TypeInv, WorkerType, SpansCarried
<1>2. e0 \in Span(d)
  BY <1>1 DEF Span
<1>3. e0 \in Experts
  BY <1>0, <1>2, <1>b, InHandIsExpert
<1> HIDE DEF e0
<1>4. basis[d][e0] = Solution(tokens[p][e0])
  BY <1>0, <1>2 DEF SpansCarried
<1>5. Solution(tokens[p][e0]) \in [rows : SUBSET RowType, over : {0}]
  BY <1>0, <1>p, <1>3 DEF TokensRouted, Solution
<1>6. Solution(tokens[p][e0]) # None
  BY <1>5, NoneAssumption
<1>c. /\ result' = [result EXCEPT ![p] = [result[p] EXCEPT ![e0] = Solution(tokens[p][e0])]]
      /\ result[p] \in [Experts -> {None} \cup [rows : SUBSET RowType, over : {0}]]
  BY <1>0, <1>p, <1>4 DEF ResultsKept
<1>d. /\ \A q \in Params : q # p => result'[q] = result[q]
      /\ result'[p] = [result[p] EXCEPT ![e0] = Solution(tokens[p][e0])]
  BY Zenon, <1>0, <1>p, <1>c DEF ResultsKept
<1>7. \A q \in Params, e \in Experts :
         result'[q][e] = IF q = p /\ e = e0 THEN Solution(tokens[p][e0]) ELSE result[q][e]
  BY <1>3, <1>c, <1>d
<1>8. result' \in [Params -> [Experts -> {None} \cup [rows : SUBSET RowType, over : {0}]]]
  <2>1. [result[p] EXCEPT ![e0] = Solution(tokens[p][e0])]
            \in [Experts -> {None} \cup [rows : SUBSET RowType, over : {0}]]
    BY <1>3, <1>5, <1>c
  <2> QED BY <1>0, <1>p, <1>c, <2>1 DEF ResultsKept
<1>9. ResultsKept'
  <2>1. \A q \in Params, e \in Experts : result'[q][e] \in {None, Solution(tokens'[q][e])}
    BY <1>0, <1>7 DEF ResultsKept
  <2>2. Ready(tokens', sample')
    BY <1>0 DEF TokensRouted
  <2>3. task = 1 => \A e \in Experts : result'["down_proj"][e] = None
    <3>1. task = 1 => p = "gate_up_proj"
      BY <1>0, ParamOfTask
    <3>2. "down_proj" \in Params /\ "down_proj" # "gate_up_proj"
      BY DEF Params
    <3> QED BY <1>0, <1>7, <3>1, <3>2 DEF ResultsKept
  <2>4. task = 2 => \A e \in Experts : result'["gate_up_proj"][e] # None
    <3>1. "gate_up_proj" \in Params
      BY DEF Params
    <3> QED BY <1>0, <1>6, <1>7, <3>1 DEF ResultsKept
  <2> QED BY <1>0, <1>8, <2>1, <2>2, <2>3, <2>4 DEF ResultsKept
<1>10. /\ worker'[d] = IF e0 + 1 < worker[d].hi THEN [worker[d] EXCEPT !.lo = e0 + 1] ELSE Idle
       /\ \A c \in Device : c # d => worker'[c] = worker[c]
  BY <1>0 DEF TypeInv
<1>11. \A c \in Device : c # d => (Busy(c)' <=> Busy(c)) /\ Span(c)' = Span(c)
  BY <1>10 DEF Busy, Span
<1>12. /\ Busy(d)' => /\ worker'[d].lo = e0 + 1 /\ worker'[d].hi = worker[d].hi
                      /\ e0 + 1 < worker[d].hi
       /\ worker'[d].pc # "raised"
       /\ ~ Busy(d)' => worker[d].hi <= e0 + 1
  <2>1. CASE e0 + 1 < worker[d].hi
    <3>1. worker'[d] = [worker[d] EXCEPT !.lo = e0 + 1] /\ worker[d] \in WorkerType
      BY <1>0, <1>10, <2>1 DEF TypeInv
    <3>2. worker'[d].pc = "add" /\ worker'[d].lo = e0 + 1 /\ worker'[d].hi = worker[d].hi
      BY <1>0, <3>1 DEF WorkerType
    <3> QED BY <2>1, <3>2 DEF Busy
  <2>2. CASE ~ (e0 + 1 < worker[d].hi)
    <3>1. worker'[d].pc = "claim"
      BY <1>10, <2>2 DEF Idle
    <3> QED BY <1>1, <2>2, <3>1 DEF Busy
  <2> QED BY <2>1, <2>2
<1>13. Busy(d)' => Span(d)' \subseteq Span(d)
  BY <1>1, <1>12 DEF Span, e0
<1>14. \A e \in Span(d) : e # e0 => Busy(d)' /\ e \in Span(d)'
  <2> SUFFICES ASSUME NEW e \in Span(d), e # e0
               PROVE  Busy(d)' /\ e \in Span(d)'
    OBVIOUS
  <2>1. e \in Nat /\ e > e0 /\ e < worker[d].hi
    BY <1>1 DEF Span, e0
  <2> QED BY <1>1, <1>12, <2>1 DEF Span
<1>15. SpansCarried'
  <2>1. \A c \in Device : Busy(c)' => worker'[c].lo < worker'[c].hi /\ worker'[c].hi <= next'
    <3> SUFFICES ASSUME NEW c \in Device, Busy(c)'
                 PROVE  worker'[c].lo < worker'[c].hi /\ worker'[c].hi <= next'
      OBVIOUS
    <3>1. CASE c = d
      BY <1>0, <1>1, <1>12, <3>1
    <3>2. CASE c # d
      BY <1>0, <1>10, <1>11, <3>2 DEF SpansCarried
    <3> QED BY <3>1, <3>2
  <2>2. \A c \in Device : worker'[c].pc \in {"put", "add"} =>
           \A e \in Span(c)' : basis'[c][e] = Solution(tokens'[p'][e])
    <3> SUFFICES ASSUME NEW c \in Device, worker'[c].pc \in {"put", "add"}, NEW e \in Span(c)'
                 PROVE  basis[c][e] = Solution(tokens[p][e])
      BY <1>0, <1>p
    <3>1. CASE c = d
      <4>1. e \in Span(d)
        BY <1>13, <3>1 DEF Busy
      <4> QED BY <1>0, <3>1, <4>1 DEF SpansCarried
    <3>2. CASE c # d
      BY <1>0, <1>10, <1>11, <3>2 DEF SpansCarried
    <3> QED BY <3>1, <3>2
  <2> QED BY <1>0, <2>1, <2>2 DEF SpansCarried
<1>16. ResultsFollow'
  <2> SUFFICES ASSUME \A c \in Device : worker'[c].pc # "raised",
                      NEW e \in Experts, e < next',
                      \A c \in Device : Busy(c)' => e \notin Span(c)'
               PROVE  result'[p'][e] # None
    BY DEF ResultsFollow
  <2>1. CASE e = e0
    BY <1>p, <1>6, <1>7, <2>1
  <2>2. CASE e # e0
    <3>1. \A c \in Device : worker[c].pc # "raised"
      BY <1>0, <1>10
    <3>2. \A c \in Device : Busy(c) => e \notin Span(c)
      BY <1>11, <1>14, <2>2
    <3>3. result[p][e] # None
      BY <1>0, <3>1, <3>2 DEF ResultsFollow
    <3> QED BY <1>p, <1>7, <2>2, <3>3
  <2> QED BY <2>1, <2>2
<1> QED BY <1>9, <1>15, <1>16

\* A pool left by all without an exception has a result for every expert.
LEMMA JoinKeepsPool ==
    ASSUME IInv, SInv, Join
    PROVE  SpansCarried' /\ ResultsKept' /\ (phase' = "fused" => ResultsFollow')
<1>0. /\ SpansCarried /\ ResultsKept /\ ResultsFollow /\ TypeInv /\ SpansApart /\ phase = "fused"
      /\ \A d \in Device : worker[d].pc \in {"out", "raised"}
      /\ UNCHANGED <<tokens, sample, basis, result>>
  BY DEF SInv, IInv, Join, capture
<1>1. CASE \E d \in Device : worker[d].pc = "raised"
  <2>1. phase' = "aborted" /\ UNCHANGED <<task, next, worker>>
    BY <1>1 DEF Join
  <2>2. SpansCarried'
    BY <1>0, <2>1 DEF SpansCarried, Busy
  <2>3. ResultsKept'
    BY <1>0, <2>1 DEF ResultsKept
  <2> QED BY <2>1, <2>2, <2>3
<1>2. CASE \A d \in Device : worker[d].pc = "out"
  <2>1. next = E
    BY <1>0, <1>2, SomeDevice DEF SpansApart
  <2>2. \A e \in Experts : result[p][e] # None
    <3>1. \A d \in Device : ~ Busy(d)
      BY <1>2 DEF Busy
    <3>2. \A e \in Experts : e < next
      BY <2>1, LayerAssumption DEF Experts
    <3> QED BY <1>0, <1>2, <3>1, <3>2 DEF ResultsFollow
  <2>3. CASE task = 1
    <3>1. task' = 2 /\ next' = 0 /\ worker' = [d \in Device |-> Idle] /\ phase' = phase
      BY <1>2, <2>3, SomeDevice DEF Join, Tasks
    <3>2. p = "gate_up_proj"
      BY <1>0, <2>3, ParamOfTask
    <3>3. \A d \in Device : worker'[d].pc = "claim"
      BY <3>1 DEF Idle
    <3>4. SpansCarried'
      BY <1>0, <3>3 DEF SpansCarried, Busy
    <3>5. ResultsKept'
      BY <1>0, <2>2, <3>1, <3>2 DEF ResultsKept
    <3>6. ResultsFollow'
      BY <3>1, LayerAssumption DEF ResultsFollow, Experts
    <3> QED BY <3>4, <3>5, <3>6
  <2>4. CASE task = 2
    <3>1. phase' = "linear" /\ UNCHANGED <<task, next, worker>>
      BY <1>2, <2>4, SomeDevice DEF Join, Tasks
    <3>2. p = "down_proj"
      BY <1>0, <2>4, ParamOfTask
    <3>3. \A q \in Params, e \in Experts : result[q][e] # None
      BY <1>0, <2>2, <2>4, <3>2 DEF ResultsKept, Params
    <3>4. SpansCarried'
      BY <1>0, <3>1 DEF SpansCarried, Busy
    <3>5. ResultsKept'
      BY <1>0, <2>4, <3>1, <3>3 DEF ResultsKept
    <3> QED BY <3>1, <3>4, <3>5
  <2> QED BY <1>0, <2>3, <2>4 DEF TypeInv
<1> QED BY <1>0, <1>1, <1>2

LEMMA SStepHolds == IInv /\ SInv /\ [Next]_vars => SInv'
<1> SUFFICES ASSUME IInv, SInv, [Next]_vars
             PROVE  SInv'
  OBVIOUS
<1> DEFINE Kept == CaptureTypeInv' /\ StashesAreShared' /\ LinearsSolved' /\ TokensRouted'
           Pool == SpansCarried' /\ ResultsKept' /\ (phase' = "fused" => ResultsFollow')
<1>q. Kept /\ Pool => SInv'
  BY DEF SInv
<1>0. /\ CaptureTypeInv /\ StashesAreShared /\ LinearsSolved /\ TokensRouted
      /\ SpansCarried /\ ResultsKept /\ (phase = "fused" => ResultsFollow)
  BY DEF SInv
<1>1. CASE Hook
  <2>1. phase = "capture" /\ phase' = phase /\ UNCHANGED <<tokens, sample, batch, fused, serial>>
    BY <1>1 DEF Hook
  <2>2. TokensRouted'
    BY <1>0, <2>1 DEF TokensRouted
  <2>3. LinearsSolved'
    BY <1>0, <2>1 DEF LinearsSolved, serial
  <2>4. Pool
    BY <1>0, <2>1, PoolKept
  <2> QED BY <1>1, <1>q, <2>2, <2>3, <2>4, HookKeepsStashes
<1>2. CASE Route \/ Backfill
  <2>1. LinearsSolved'
    BY <1>0, <1>2 DEF LinearsSolved, serial, Route, Backfill
  <2>2. CaptureTypeInv' /\ StashesAreShared'
    <3>1. CASE Route
      BY <3>1, RouteKeepsStashes
    <3>2. CASE Backfill
      <4>1. /\ phase = "captured" /\ phase' = "fused"
            /\ UNCHANGED <<batch, pos, keyOf, seen, rows, serial>>
        BY <3>2 DEF Backfill
      <4>2. CaptureTypeInv'
        BY <1>0, <4>1 DEF CaptureTypeInv, serial
      <4>3. \A i : Hooked(i)' = Hooked(i)
        BY <4>1 DEF Hooked, HookedIn
      <4>4. StashesAreShared'
        BY <1>0, <4>1, <4>3 DEF StashesAreShared
      <4> QED BY <4>2, <4>4
    <3> QED BY <1>2, <3>1, <3>2
  <2>3. TokensRouted'
    BY <1>2, RouteKeepsTokens, BackfillKeepsTokens
  <2> QED BY <1>2, <1>q, <2>1, <2>2, <2>3, GatheringKeepsPool
<1>3. ASSUME NEW d \in Device, Claim(d) \/ SolveSpan(d) \/ PutSpan(d) \/ AddExpert(d)
      PROVE  SInv'
  <2>1. UNCHANGED <<capture, serial>> /\ phase' = phase
    BY <1>3 DEF Claim, SolveSpan, PutSpan, AddExpert
  <2>2. Kept
    BY <1>0, <2>1, CaptureKept
  <2>3. Pool
    BY <1>3, ClaimKeepsPool, SolveSpanKeepsPool, PutSpanKeepsPool, AddExpertKeepsPool
  <2> QED BY <1>q, <2>2, <2>3
<1>4. CASE Join
  <2>1. UNCHANGED <<capture, serial>> /\ phase = "fused" /\ phase' \in {"fused", "linear", "aborted"}
    BY <1>4 DEF Join
  <2>2. Kept
    BY <1>0, <2>1, CaptureKept
  <2> QED BY <1>4, <1>q, <2>2, JoinKeepsPool
<1>5. CASE SolveLinear
  <2>1. UNCHANGED <<tokens, sample, fused>> /\ phase = "linear" /\ phase' \in {"linear", "aborted"}
    BY <1>5 DEF SolveLinear
  <2>2. Pool
    BY <1>0, <2>1, PoolKept
  <2> QED BY <1>5, <1>q, <2>2, SolveLinearHolds
<1>6. CASE CheckFails \/ Finish \/ Over \/ UNCHANGED vars
  <2>1. /\ UNCHANGED <<capture, fused, serial, tokens, sample>>
        /\ \/ phase' = phase
           \/ phase = "captured" /\ phase' = "aborted"
           \/ phase = "linear" /\ phase' = "written" /\ pos > Len(Linears)
    BY <1>6 DEF CheckFails, Finish, Over, vars, capture
  <2>2. Kept
    BY <1>0, <2>1, CaptureKept
  <2>3. Pool
    BY <1>0, <2>1, PoolKept
  <2> QED BY <1>q, <2>2, <2>3
<1> QED BY <1>1, <1>2, <1>3, <1>4, <1>5, <1>6 DEF Next

LEMMA SInvGivesOwnInputs == IInv /\ SInv => SolvedOnOwnInputs
<1> SUFFICES ASSUME IInv, SInv
             PROVE  SolvedOnOwnInputs
  OBVIOUS
<1>0. LinearsSolved /\ TokensRouted /\ ResultsKept /\ task \in {1, 2}
  BY DEF SInv, IInv, TypeInv
<1>1. \A l \in Linear : solved[l] # None =>
          solved[l] = [rows |-> Inputs(Batches, InputOf[l]), damped |-> FALSE]
  BY Zenon, <1>0 DEF LinearsSolved
<1>2. phase = "written" =>
          /\ \A l \in Linear : solved[l] # None
          /\ \A q \in Params, e \in Experts : result[q][e] # None
  BY <1>0 DEF LinearsSolved, ResultsKept
<1>3. ASSUME NEW q \in Params, NEW e \in Experts, result[q][e] # None
      PROVE  /\ result[q][e].over = 0
             /\ \A r \in result[q][e].rows : r.made = 0
             /\ result[q][e].rows # {}
             /\ TokensOf(result[q][e]) = TokensOf(result["gate_up_proj"][e])
             /\ \A f \in Experts : f # e /\ result[q][f] # None =>
                   \/ result[q][e].rows \cap result[q][f].rows = {}
                   \/ sample \in {TokensOf(result[q][e]), TokensOf(result[q][f])}
  <2>1. \A o \in Params, f \in Experts : result[o][f] # None =>
           /\ result[o][f].rows = tokens["gate_up_proj"][f] /\ result[o][f].over = 0
           /\ TokensOf(result[o][f]) = Pairs(tokens["gate_up_proj"][f])
    <3> SUFFICES ASSUME NEW o \in Params, NEW f \in Experts, result[o][f] # None
                 PROVE  /\ result[o][f].rows = tokens["gate_up_proj"][f] /\ result[o][f].over = 0
                        /\ TokensOf(result[o][f]) = Pairs(tokens["gate_up_proj"][f])
      OBVIOUS
    <3>1. result[o][f] = Solution(tokens[o][f])
      BY <1>0 DEF ResultsKept
    <3>2. tokens[o] = tokens["gate_up_proj"]
      BY <1>0 DEF TokensRouted, Params
    <3>3. result[o][f].rows = tokens["gate_up_proj"][f] /\ result[o][f].over = 0
      BY <3>1, <3>2 DEF Solution
    <3> QED BY <3>3 DEF TokensOf, Pairs
  <2>2. Ready(tokens, sample)
    BY <1>0, <1>3 DEF ResultsKept
  <2>3. "gate_up_proj" \in Params /\ result["gate_up_proj"][e] # None
    <3>1. CASE q = "gate_up_proj"
      BY <1>3, <3>1
    <3>2. CASE q # "gate_up_proj"
      <4>1. q = "down_proj" /\ "gate_up_proj" \in Params
        BY <3>2 DEF Params
      <4> QED BY <1>0, <1>3, <4>1 DEF ResultsKept
    <3> QED BY <3>1, <3>2 DEF Params
  <2>4. \A r \in tokens["gate_up_proj"][e] : r.made = 0
    BY <1>0, <2>3 DEF TokensRouted, RowType
  <2>5. \A f \in Experts : f # e /\ result[q][f] # None =>
           \/ result[q][e].rows \cap result[q][f].rows = {}
           \/ sample \in {TokensOf(result[q][e]), TokensOf(result[q][f])}
    BY <1>3, <2>1, <2>2 DEF Ready, Apart
  <2>6. TokensOf(result[q][e]) = TokensOf(result["gate_up_proj"][e])
    BY <1>3, <2>1, <2>3
  <2> QED BY <1>3, <2>1, <2>2, <2>4, <2>5, <2>6 DEF Ready
<1> QED BY <1>1, <1>2, <1>3 DEF SolvedOnOwnInputs

\* Stage A, one layer: for every number of experts, devices and batches, every
\* routing and every order of the workers, an expert is solved on the tokens
\* routed to it (or the sample), a plain matrix on each batch once, and a layer
\* that is written is whole.
THEOREM SolvedOnOwnInputsAlways == Spec => []SolvedOnOwnInputs
<1>1. Init => IInv /\ SInv
  BY InitHolds, SInitHolds
<1>2. (IInv /\ SInv) /\ [Next]_vars => (IInv /\ SInv)'
  BY StepHolds, SStepHolds
<1>3. IInv /\ SInv => SolvedOnOwnInputs
  BY SInvGivesOwnInputs
<1> QED BY <1>1, <1>2, <1>3, PTL DEF Spec

(* ------------------------------ a campaign ------------------------------- *)

Parts == {None, Partial, "whole"}
ShardFiles == Calibrate!ShardSet
LayersOf == (SUBSET Calibrate!Layers) \cup {None}

HostType == [corpus : Parts, weights : Parts, text : BOOLEAN, tokens : Parts,
             pid : {None, "job", "dead"}, file : [Calibrate!Layers -> Parts],
             listed : SUBSET Calibrate!Layers]

HostIs ==
    /\ host \in HostType
    /\ \A n \in host.listed : host.file[n] = "whole"
    /\ job = "list" => \A n \in Calibrate!Unlisted :
          (\A m \in Calibrate!Unlisted : n <= m) => host.file[n] = "whole"

CalibIs == calib \in [file : [Calibrate!Layers -> Parts], listed : LayersOf]

PrepareIs ==
    cmd.op = "prepare" => cmd \in [op : {"prepare"}, file : {"corpus", "weights"}, begun : BOOLEAN]

\* Beside a quiet fetch nothing moves on the host, and what it has passed is here.
FetchIs ==
    cmd.op = "fetch" =>
        /\ cmd \in [op : {"fetch"}, at : Nat, list : SUBSET Calibrate!Layers,
                    manifest : BOOLEAN, quiet : BOOLEAN]
        /\ cmd.quiet =>
              /\ job = None
              /\ \A n \in Calibrate!Layers : host.file[n] # None => n \in cmd.list
              /\ \A n \in cmd.list : n < cmd.at => calib.file[n] = host.file[n]

RevisionsAre == pin \in Pins /\ overlay \in Pins \cup {None}

ModelType == [ShardFiles -> [layers : LayersOf, router : Pins \cup {"base"}]]

\* Shards are replaced in order, and beside them the fetched layers stay.
ApplyIs ==
    cmd.op = "apply" =>
        /\ cmd \in [op : {"apply"}, rev : Pins, staged : SUBSET ShardFiles, at : Nat \ {0},
                    then : {"apply", "pack"}]
        /\ model \in ModelType /\ (cmd.at > 1 => cmd.staged = ShardFiles)
        /\ ~unfinished => \A s, t \in ShardFiles : model[s].layers = model[t].layers
        /\ \A i \in DOMAIN Shards : i < cmd.at => model[Shards[i]].router = cmd.rev
        /\ cmd.then = "pack" => \A s \in ShardFiles : model[s].layers = calib.listed

\* The shards pack has been through have the fetched layers, all those of the checkpoint.
InjectedSoFar ==
    cmd.op = "pack" =>
        /\ cmd \in [op : {"pack"}, overlay : BOOLEAN, at : Nat]
        /\ cmd.at > 0 /\ model # Partial =>
              /\ model \in ModelType /\ unfinished
              /\ \A s \in ShardFiles : model[s].router = "base"
              /\ \A i \in DOMAIN Shards : i < cmd.at => model[Shards[i]].layers = calib.listed

ModelIs ==
    model \notin {None, Partial} =>
        /\ model \in ModelType
        /\ ~unfinished => \A s, t \in ShardFiles : model[s].layers = model[t].layers
        /\ (~broken /\ ~(cmd.op = "apply" /\ cmd.at > 1)) =>
              \A s, t \in ShardFiles : model[s].router = model[t].router

CampInv ==
    /\ HostIs /\ CalibIs /\ PrepareIs /\ FetchIs /\ RevisionsAre
    /\ ApplyIs /\ InjectedSoFar /\ ModelIs

LEMMA NoneIsNoStep == None \notin {"load", "save", "solve", "write", "list", "whole"}
BY OfflineAssumption DEF OfflineAssumption, Calibrate!CampaignAssumption

LEMMA CampaignBegins == Calibrate!Init => CampInv
<1> SUFFICES ASSUME Calibrate!Init PROVE CampInv
  OBVIOUS
<1>1. HostIs
  <2>1. PICK b \in BOOLEAN :
           host = [corpus |-> None, weights |-> None, text |-> b, tokens |-> None,
                   pid |-> None, file |-> Calibrate!NoFiles, listed |-> {}]
    BY DEF Calibrate!Init
  <2>2. host \in HostType /\ host.listed = {}
    BY <2>1 DEF HostType, Calibrate!NoFiles, Parts
  <2>3. job # "list"
    BY NoneIsNoStep DEF Calibrate!Init
  <2> QED BY <2>2, <2>3 DEF HostIs
<1>2. CalibIs
  BY DEF Calibrate!Init, CalibIs, Calibrate!NoFiles, Parts, LayersOf
<1>3. PrepareIs /\ FetchIs /\ ApplyIs /\ InjectedSoFar
  BY DEF Calibrate!Init, PrepareIs, FetchIs, ApplyIs, InjectedSoFar, Calibrate!Idle
<1>4. RevisionsAre /\ ModelIs
  BY DEF Calibrate!Init, RevisionsAre, ModelIs
<1> QED BY <1>1, <1>2, <1>3, <1>4 DEF CampInv

\* A step of Stage A touches the host alone, and none is beside a quiet fetch.
LEMMA HostMoves ==
    ASSUME CampInv, job # None, HostIs',
           UNCHANGED <<pin, cmd, calib, overlay, model, broken, unfinished>>
    PROVE  CampInv'
<1>1. FetchIs'
  BY DEF CampInv, FetchIs
<1>2. CalibIs' /\ PrepareIs' /\ RevisionsAre'
  BY DEF CampInv, CalibIs, PrepareIs, RevisionsAre
<1>3. ApplyIs' /\ InjectedSoFar' /\ ModelIs'
  BY DEF CampInv, ApplyIs, InjectedSoFar, ModelIs
<1> QED BY <1>1, <1>2, <1>3 DEF CampInv

LEMMA JobLoadHolds ==
    ASSUME CampInv, Calibrate!JobLoad
    PROVE  CampInv'
<1>0. /\ job # None /\ host \in HostType /\ job' \in {None, "solve", "save"}
      /\ UNCHANGED <<pin, cmd, calib, overlay, model, broken, unfinished>>
  BY NoneIsNoStep DEF Calibrate!JobLoad, CampInv, HostIs
<1>1. PICK x \in Parts : host' = host \/ host' = [host EXCEPT !.tokens = x]
  BY DEF Calibrate!JobLoad, Calibrate!Whole, Parts
<1>2. host' \in HostType /\ host'.file = host.file /\ host'.listed = host.listed
  BY Zenon, <1>0, <1>1 DEF HostType
<1>3. HostIs'
  BY <1>0, <1>2, NoneIsNoStep DEF CampInv, HostIs
<1> QED BY <1>0, <1>3, HostMoves

LEMMA JobStepHolds ==
    ASSUME CampInv, Calibrate!JobStep
    PROVE  CampInv'
<1>0. /\ job # None /\ host \in HostType
      /\ \A n \in host.listed : host.file[n] = "whole"
      /\ UNCHANGED <<pin, cmd, calib, overlay, model, receipt, given, broken, unfinished>>
  BY NoneIsNoStep DEF Calibrate!JobStep, CampInv, HostIs
<1>1. HostIs'
  <2>1. ASSUME NEW n \in Calibrate!Unlisted, \A m \in Calibrate!Unlisted : n <= m,
               job = "solve", job' = "write", host' = [host EXCEPT !.file[n] = Partial]
        PROVE  HostIs'
    <3>1. n \in Calibrate!Layers /\ n \notin host.listed
      BY DEF Calibrate!Unlisted
    <3>2. host' \in HostType /\ host'.listed = host.listed
          /\ \A l \in Calibrate!Layers : l # n => host'.file[l] = host.file[l]
      BY <1>0, <2>1, <3>1 DEF HostType, Parts
    <3>3. \A l \in host'.listed : host'.file[l] = "whole"
      BY <1>0, <3>1, <3>2 DEF HostType
    <3> QED BY <2>1, <3>2, <3>3 DEF HostIs
  <2>2. ASSUME NEW n \in Calibrate!Unlisted, \A m \in Calibrate!Unlisted : n <= m,
               job = "write", job' = "list", host' = [host EXCEPT !.file[n] = "whole"]
        PROVE  HostIs'
    <3>1. n \in Calibrate!Layers /\ n \notin host.listed
      BY DEF Calibrate!Unlisted
    <3>2. host' \in HostType /\ host'.listed = host.listed /\ host'.file[n] = "whole"
          /\ \A l \in Calibrate!Layers : l # n => host'.file[l] = host.file[l]
      BY <1>0, <2>2, <3>1 DEF HostType, Parts
    <3>3. \A l \in host'.listed : host'.file[l] = "whole"
      BY <1>0, <3>1, <3>2 DEF HostType
    <3>4. Calibrate!Unlisted' = Calibrate!Unlisted
      BY <3>2 DEF Calibrate!Unlisted
    <3>5. \A l \in Calibrate!Unlisted : (\A m \in Calibrate!Unlisted : l <= m) => l = n
      BY <2>2 DEF Calibrate!Unlisted, Calibrate!Layers
    <3> QED BY <3>2, <3>3, <3>4, <3>5 DEF HostIs
  <2>3. ASSUME NEW n \in Calibrate!Unlisted, \A m \in Calibrate!Unlisted : n <= m,
               job = "list", job' = "solve", host' = [host EXCEPT !.listed = @ \cup {n}]
        PROVE  HostIs'
    <3>1. n \in Calibrate!Layers /\ host.file[n] = "whole"
      BY <2>3 DEF Calibrate!Unlisted, CampInv, HostIs
    <3>2. host' \in HostType /\ host'.listed = host.listed \cup {n} /\ host'.file = host.file
      BY <1>0, <2>3, <3>1 DEF HostType
    <3>3. \A l \in host'.listed : host'.file[l] = "whole"
      BY <1>0, <3>1, <3>2
    <3> QED BY <2>3, <3>2, <3>3 DEF HostIs
  <2> QED BY <2>1, <2>2, <2>3 DEF Calibrate!JobStep, Calibrate!Whole
<1> QED BY <1>0, <1>1, HostMoves

LEMMA JobDiesHolds ==
    ASSUME CampInv, Calibrate!JobDies
    PROVE  CampInv'
<1>1. /\ job # None /\ job' = None /\ UNCHANGED host
      /\ UNCHANGED <<pin, cmd, calib, overlay, model, broken, unfinished>>
  BY DEF Calibrate!JobDies
<1>2. HostIs'
  BY <1>1, NoneIsNoStep DEF CampInv, HostIs
<1> QED BY <1>1, <1>2, HostMoves

\* A command ends or begins that is no fetch, no overlay and no pack; the host stays.
LEMMA CommandMoves ==
    ASSUME CampInv, UNCHANGED <<host, job, calib>>, PrepareIs', RevisionsAre', ModelIs',
           cmd'.op \notin {"fetch", "apply", "pack"}
    PROVE  CampInv'
BY DEF CampInv, HostIs, Calibrate!Unlisted, CalibIs, FetchIs, ApplyIs, InjectedSoFar

LEMMA IdleIs == Calibrate!Idle.op = "none"
BY DEF Calibrate!Idle

LEMMA PrepareBeginHolds ==
    ASSUME CampInv, Calibrate!PrepareBegin
    PROVE  CampInv'
<1>1. /\ cmd = Calibrate!Idle /\ cmd' = [op |-> "prepare", file |-> "corpus", begun |-> FALSE]
      /\ UNCHANGED <<host, job, pin, calib, overlay, model, receipt, broken, unfinished>>
  BY DEF Calibrate!PrepareBegin, Calibrate!Give
<1>2. cmd'.op = "prepare" /\ cmd.op = "none"
  BY <1>1, IdleIs
<1>3. PrepareIs' /\ RevisionsAre' /\ ModelIs'
  BY <1>1, <1>2 DEF CampInv, PrepareIs, RevisionsAre, ModelIs
<1> QED BY <1>1, <1>2, <1>3, CommandMoves

LEMMA PrepareHolds ==
    ASSUME CampInv, Calibrate!Prepare
    PROVE  CampInv'
<1>0. /\ cmd.op = "prepare" /\ host \in HostType
      /\ cmd \in [op : {"prepare"}, file : {"corpus", "weights"}, begun : BOOLEAN]
      /\ UNCHANGED <<job, pin, calib, overlay, model, receipt, given, broken, unfinished>>
  BY DEF Calibrate!Prepare, CampInv, PrepareIs, HostIs
<1>1. host' \in HostType /\ host'.file = host.file /\ host'.listed = host.listed
  <2>1. PICK f, x : f = cmd.file /\ x \in Parts /\ host' = [host EXCEPT ![f] = x]
    <3>1. host[cmd.file] \in Parts
      BY <1>0 DEF HostType
    <3>2. \E x \in Parts : host' = [host EXCEPT ![cmd.file] = x]
      BY <3>1 DEF Calibrate!Prepare, Calibrate!Whole, Parts
    <3> QED BY Zenon, <3>2
  <2>2. f \in {"corpus", "weights"}
    BY <1>0, <2>1
  <2> QED BY <1>0, <2>1, <2>2 DEF HostType
<1>2. HostIs'
  BY <1>0, <1>1 DEF CampInv, HostIs, Calibrate!Unlisted
<1>3. PrepareIs' /\ cmd'.op \in {"prepare", "none"}
  BY Zenon, <1>0, IdleIs DEF Calibrate!Prepare, PrepareIs, Calibrate!End
<1>4. FetchIs' /\ ApplyIs' /\ InjectedSoFar'
  BY <1>3 DEF FetchIs, ApplyIs, InjectedSoFar
<1>5. CalibIs' /\ RevisionsAre' /\ ModelIs'
  BY <1>0, <1>3 DEF CampInv, CalibIs, RevisionsAre, ModelIs
<1> QED BY <1>2, <1>3, <1>4, <1>5 DEF CampInv

\* start names the process in run.pid, or forgets the one that was there.
LEMMA StartMoves ==
    ASSUME CampInv, NEW x \in {None, "job", "dead"}, (job' # "list" \/ job' = job),
           host' = host \/ host' = [host EXCEPT !.pid = x],
           cmd'.op \notin {"prepare", "fetch", "apply", "pack"}, cmd.op \notin {"apply", "fetch"},
           UNCHANGED <<pin, calib, overlay, model, broken, unfinished>>
    PROVE  CampInv'
<1>1. host' \in HostType /\ host'.file = host.file /\ host'.listed = host.listed
  <2>1. host \in HostType
    BY DEF CampInv, HostIs
  <2> QED BY Zenon, <2>1 DEF HostType
<1>2. HostIs'
  BY Zenon, <1>1 DEF CampInv, HostIs, Calibrate!Unlisted
<1>3. PrepareIs' /\ FetchIs' /\ ApplyIs' /\ InjectedSoFar'
  BY DEF PrepareIs, FetchIs, ApplyIs, InjectedSoFar
<1>4. CalibIs' /\ RevisionsAre' /\ ModelIs'
  BY DEF CampInv, CalibIs, RevisionsAre, ModelIs
<1> QED BY <1>2, <1>3, <1>4 DEF CampInv

LEMMA StageAStartHolds ==
    ASSUME CampInv, Calibrate!Start
    PROVE  CampInv'
<1>1. /\ cmd = Calibrate!Idle /\ cmd.op = "none"
      /\ UNCHANGED <<pin, calib, overlay, model, broken, unfinished>>
  BY IdleIs DEF Calibrate!Start
<1>2. CASE UNCHANGED <<host, job, cmd>>
  BY <1>1, <1>2, StartMoves
<1>3. ASSUME job' = "load", cmd' = [op |-> "start"],
             host' = [host EXCEPT !.pid = IF @ = None THEN None ELSE "dead"]
      PROVE  CampInv'
  <2>1. PICK x \in {None, "dead"} : host' = [host EXCEPT !.pid = x]
    BY <1>3
  <2>2. cmd'.op = "start"
    BY <1>3
  <2> QED BY <1>1, <1>3, <2>1, <2>2, StartMoves
<1> QED BY <1>2, <1>3 DEF Calibrate!Start

LEMMA StartPidHolds ==
    ASSUME CampInv, Calibrate!StartPid
    PROVE  CampInv'
BY IdleIs, StartMoves DEF Calibrate!StartPid, Calibrate!End

LEMMA FetchBeginHolds ==
    ASSUME CampInv, Calibrate!FetchBegin
    PROVE  CampInv'
<1>1. PICK L, m, q : /\ L = {n \in Calibrate!Layers : host.file[n] # None}
                     /\ m = (host.listed # {}) /\ q = (job = None)
  BY Zenon
<1>2. /\ cmd = Calibrate!Idle
      /\ cmd' = [op |-> "fetch", at |-> 1, list |-> L, manifest |-> m, quiet |-> q]
      /\ UNCHANGED <<host, job, pin, calib, overlay, model, receipt, broken, unfinished>>
  BY <1>1 DEF Calibrate!FetchBegin, Calibrate!Give
<1>3. L \in SUBSET Calibrate!Layers /\ m \in BOOLEAN /\ q \in BOOLEAN
  BY <1>1
<1>4. /\ cmd'.op = "fetch" /\ cmd'.at = 1 /\ cmd'.list = L /\ cmd'.quiet = q
      /\ cmd' \in [op : {"fetch"}, at : Nat, list : SUBSET Calibrate!Layers,
                   manifest : BOOLEAN, quiet : BOOLEAN]
  BY <1>2, <1>3
<1>5. \A n \in L : ~(n < 1)
  BY <1>3 DEF Calibrate!Layers
<1>6. FetchIs'
  BY Zenon, <1>1, <1>2, <1>4, <1>5 DEF FetchIs
<1>7. HostIs' /\ CalibIs' /\ RevisionsAre'
  BY <1>2 DEF CampInv, HostIs, Calibrate!Unlisted, CalibIs, RevisionsAre
<1>8. PrepareIs' /\ ApplyIs' /\ InjectedSoFar' /\ ModelIs'
  BY <1>2, <1>4, IdleIs DEF CampInv, PrepareIs, ApplyIs, InjectedSoFar, ModelIs
<1> QED BY <1>6, <1>7, <1>8 DEF CampInv

LEMMA FetchFileHolds ==
    ASSUME CampInv, Calibrate!FetchFile
    PROVE  CampInv'
<1>0. /\ cmd.op = "fetch" /\ cmd.at \in Nat /\ cmd.list \in SUBSET Calibrate!Layers
      /\ cmd \in [op : {"fetch"}, at : Nat, list : SUBSET Calibrate!Layers,
                  manifest : BOOLEAN, quiet : BOOLEAN]
      /\ UNCHANGED <<host, job, pin, overlay, model, receipt, given, broken, unfinished>>
  BY DEF Calibrate!FetchFile, CampInv, FetchIs
<1>1. PICK k \in Nat, q \in BOOLEAN : k = cmd.at /\ q = (cmd.quiet /\ job = None)
  BY Zenon, <1>0
<1>2. cmd' = [cmd EXCEPT !.at = k + 1, !.quiet = q]
  BY <1>1 DEF Calibrate!FetchFile
<1>3. /\ cmd'.op = "fetch" /\ cmd'.at = k + 1 /\ cmd'.list = cmd.list /\ cmd'.quiet = q
      /\ cmd' \in [op : {"fetch"}, at : Nat, list : SUBSET Calibrate!Layers,
                   manifest : BOOLEAN, quiet : BOOLEAN]
  <2>1. k + 1 \in Nat
    OBVIOUS
  <2> QED BY Zenon, <1>0, <1>2, <2>1
<1>4. /\ calib' \in [file : [Calibrate!Layers -> Parts], listed : LayersOf]
      /\ k \in cmd.list => calib'.file[k] = host.file[k]
      /\ \A n \in Calibrate!Layers : n # k => calib'.file[n] = calib.file[n]
      /\ calib'.listed = calib.listed
  <2>1. calib \in [file : [Calibrate!Layers -> Parts], listed : LayersOf]
        /\ \A n \in Calibrate!Layers : host.file[n] \in Parts
    BY DEF CampInv, CalibIs, HostIs, HostType
  <2>2. CASE k \in cmd.list
    <3>1. calib' = [calib EXCEPT !.file[k] = host.file[k]] /\ k \in Calibrate!Layers
      BY <1>0, <1>1, <2>2 DEF Calibrate!FetchFile
    <3>2. PICK x : x = host.file[k] /\ x \in Parts
      BY <2>1, <3>1
    <3>3. calib' = [calib EXCEPT !.file[k] = x]
      BY <3>1, <3>2
    <3> QED BY <2>1, <3>1, <3>2, <3>3
  <2>3. CASE k \notin cmd.list
    BY <1>1, <2>1, <2>3 DEF Calibrate!FetchFile
  <2> QED BY <2>2, <2>3
<1>5. FetchIs'
  <2> SUFFICES ASSUME q
               PROVE  /\ job = None
                      /\ \A n \in Calibrate!Layers : host.file[n] # None => n \in cmd.list
                      /\ \A n \in cmd.list : n < k + 1 => calib'.file[n] = host.file[n]
    BY <1>0, <1>3 DEF FetchIs
  <2>1. /\ job = None
        /\ \A n \in Calibrate!Layers : host.file[n] # None => n \in cmd.list
        /\ \A n \in cmd.list : n < k => calib.file[n] = host.file[n]
    BY <1>0, <1>1 DEF CampInv, FetchIs
  <2>2. \A n \in cmd.list : n < k + 1 => n = k \/ n < k
    BY <1>0, <1>1 DEF Calibrate!Layers
  <2>3. \A n \in cmd.list : n < k + 1 => calib'.file[n] = host.file[n]
    BY <1>0, <1>4, <2>1, <2>2
  <2> QED BY <2>1, <2>3
<1>6. CalibIs'
  BY <1>4 DEF CalibIs
<1>7. HostIs' /\ RevisionsAre'
  BY <1>0 DEF CampInv, HostIs, Calibrate!Unlisted, RevisionsAre
<1>8. PrepareIs' /\ ApplyIs' /\ InjectedSoFar' /\ ModelIs'
  BY <1>0, <1>3 DEF CampInv, PrepareIs, ApplyIs, InjectedSoFar, ModelIs
<1> QED BY <1>5, <1>6, <1>7, <1>8 DEF CampInv

\* A fetch ends with a manifest or without.
LEMMA FetchEndHolds ==
    ASSUME CampInv, Calibrate!FetchEnd
    PROVE  CampInv'
<1>0. /\ cmd.op = "fetch" /\ cmd' = Calibrate!Idle
      /\ UNCHANGED <<host, job, pin, overlay, model, receipt, given, broken, unfinished>>
      /\ calib' = calib \/ calib' = [calib EXCEPT !.listed = host.listed]
  BY DEF Calibrate!FetchEnd, Calibrate!End
<1>1. CalibIs'
  <2>1. calib \in [file : [Calibrate!Layers -> Parts], listed : LayersOf]
        /\ host.listed \in LayersOf
    BY DEF CampInv, CalibIs, HostIs, HostType, LayersOf
  <2>2. PICK x \in LayersOf : calib' = calib \/ calib' = [calib EXCEPT !.listed = x]
    BY <1>0, <2>1
  <2>3. calib' \in [file : [Calibrate!Layers -> Parts], listed : LayersOf]
    BY <2>1, <2>2
  <2> QED BY <2>3 DEF CalibIs
<1>2. HostIs' /\ RevisionsAre'
  BY <1>0 DEF CampInv, HostIs, Calibrate!Unlisted, RevisionsAre
<1>3. FetchIs' /\ PrepareIs' /\ ApplyIs' /\ InjectedSoFar' /\ ModelIs'
  BY <1>0, IdleIs DEF CampInv, FetchIs, PrepareIs, ApplyIs, InjectedSoFar, ModelIs
<1> QED BY <1>1, <1>2, <1>3 DEF CampInv

LEMMA EditPinHolds ==
    ASSUME CampInv, Calibrate!EditPin
    PROVE  CampInv'
<1>0. /\ cmd = Calibrate!Idle /\ pin' \in Pins
      /\ UNCHANGED <<host, job, cmd, calib, overlay, model, receipt, broken, unfinished>>
  BY DEF Calibrate!EditPin
<1>1. PrepareIs' /\ RevisionsAre' /\ ModelIs' /\ cmd'.op = "none"
  BY <1>0, IdleIs DEF CampInv, PrepareIs, RevisionsAre, ModelIs
<1> QED BY <1>0, <1>1, CommandMoves

LEMMA FetchOverlayHolds ==
    ASSUME CampInv, Calibrate!FetchOverlay
    PROVE  CampInv'
<1>0. /\ cmd = Calibrate!Idle /\ overlay' \in {overlay, pin}
      /\ UNCHANGED <<host, job, pin, cmd, calib, model, receipt, broken, unfinished>>
  BY DEF Calibrate!FetchOverlay
<1>1. PrepareIs' /\ RevisionsAre' /\ ModelIs' /\ cmd'.op = "none"
  BY <1>0, IdleIs DEF CampInv, PrepareIs, RevisionsAre, ModelIs
<1> QED BY <1>0, <1>1, CommandMoves

\* An overlay before its first shard.
LEMMA ApplyIsNew ==
    ASSUME NEW then \in {"apply", "pack"}, RevisionsAre, overlay # None
    PROVE  LET a == Calibrate!Apply(then)
           IN  /\ a.op = "apply" /\ a.at = 1 /\ a.then = then /\ a.rev = overlay
               /\ a \in [op : {"apply"}, rev : Pins, staged : SUBSET ShardFiles, at : Nat \ {0},
                         then : {"apply", "pack"}]
<1>1. overlay \in Pins
  BY DEF RevisionsAre
<1> QED BY <1>1 DEF Calibrate!Apply

LEMMA ShardsAre ==
    /\ Shards \in Seq(ShardFiles) /\ DOMAIN Shards = 1..Len(Shards) /\ Len(Shards) \in Nat
    /\ \A i \in DOMAIN Shards : Shards[i] \in ShardFiles /\ i >= 1
    /\ \A s \in ShardFiles : \E i \in DOMAIN Shards : s = Shards[i]
<1>1. Shards \in Seq(ShardFiles)
  BY OfflineAssumption
     DEF OfflineAssumption, Calibrate!CampaignAssumption, Calibrate!ShardSet, ShardFiles
<1>2. DOMAIN Shards = 1..Len(Shards) /\ Len(Shards) \in Nat
  BY <1>1, LenProperties
<1> QED BY <1>1, <1>2 DEF ShardFiles, Calibrate!ShardSet

LEMMA ApplyBeginHolds ==
    ASSUME CampInv, Calibrate!ApplyBegin
    PROVE  CampInv'
<1>0. /\ cmd = Calibrate!Idle /\ cmd' = Calibrate!Apply("apply") /\ overlay # None
      /\ model \notin {None, Partial} /\ RevisionsAre
      /\ UNCHANGED <<host, job, pin, calib, overlay, model, receipt, broken, unfinished>>
  BY DEF Calibrate!ApplyBegin, Calibrate!Give, CampInv
<1>1. /\ cmd'.op = "apply" /\ cmd'.at = 1 /\ cmd'.then = "apply" /\ cmd'.rev = overlay
      /\ cmd' \in [op : {"apply"}, rev : Pins, staged : SUBSET ShardFiles, at : Nat \ {0},
                   then : {"apply", "pack"}]
  BY <1>0, ApplyIsNew
<1>2. \A i \in DOMAIN Shards : ~(i < 1)
  BY ShardsAre
<1>3. ApplyIs'
  <2>1. /\ model \in ModelType
        /\ ~unfinished => \A s, t \in ShardFiles : model[s].layers = model[t].layers
    BY <1>0 DEF CampInv, ModelIs
  <2> QED BY <1>0, <1>1, <1>2, <2>1 DEF ApplyIs
<1>4. HostIs' /\ CalibIs' /\ RevisionsAre'
  BY <1>0 DEF CampInv, HostIs, Calibrate!Unlisted, CalibIs, RevisionsAre
<1>5. PrepareIs' /\ FetchIs' /\ InjectedSoFar'
  BY <1>1 DEF PrepareIs, FetchIs, InjectedSoFar
<1>6. ModelIs'
  BY <1>0, <1>1, IdleIs DEF CampInv, ModelIs
<1> QED BY <1>3, <1>4, <1>5, <1>6 DEF CampInv

LEMMA StageHolds ==
    ASSUME CampInv, Calibrate!Stage
    PROVE  CampInv'
<1>0. /\ cmd.op = "apply"
      /\ cmd \in [op : {"apply"}, rev : Pins, staged : SUBSET ShardFiles, at : Nat \ {0},
                  then : {"apply", "pack"}]
      /\ UNCHANGED <<host, job, pin, calib, overlay, model, receipt, given, broken, unfinished>>
  BY DEF Calibrate!Stage, CampInv, ApplyIs
<1>1. HostIs' /\ CalibIs' /\ RevisionsAre'
  BY <1>0 DEF CampInv, HostIs, Calibrate!Unlisted, CalibIs, RevisionsAre
<1>2. ~(cmd.at > 1)
  BY <1>0 DEF Calibrate!Stage, CampInv, ApplyIs, ShardFiles
<1>3. ASSUME NEW s \in ShardFiles, cmd' = [cmd EXCEPT !.staged = @ \cup {s}]
      PROVE  PrepareIs' /\ FetchIs' /\ ApplyIs' /\ InjectedSoFar' /\ ModelIs'
  <2>1. /\ cmd'.op = "apply" /\ cmd'.at = cmd.at /\ cmd'.rev = cmd.rev /\ cmd'.then = cmd.then
        /\ cmd' \in [op : {"apply"}, rev : Pins, staged : SUBSET ShardFiles, at : Nat \ {0},
                     then : {"apply", "pack"}]
    BY <1>0, <1>3
  <2>2. ~(cmd.at > 1)
    BY <1>0, <1>2
  <2> QED BY <1>0, <2>1, <2>2 DEF CampInv, PrepareIs, FetchIs, ApplyIs, InjectedSoFar, ModelIs
<1>4. ASSUME cmd' = Calibrate!Idle, ~(cmd.at > 1)
      PROVE  PrepareIs' /\ FetchIs' /\ ApplyIs' /\ InjectedSoFar' /\ ModelIs'
  BY <1>0, <1>4, IdleIs DEF CampInv, PrepareIs, FetchIs, ApplyIs, InjectedSoFar, ModelIs
<1>5. \/ \E s \in ShardFiles : cmd' = [cmd EXCEPT !.staged = @ \cup {s}]
      \/ cmd' = Calibrate!Idle
  BY DEF Calibrate!Stage, Calibrate!End, ShardFiles
<1>6. PrepareIs' /\ FetchIs' /\ ApplyIs' /\ InjectedSoFar' /\ ModelIs'
  BY <1>3, <1>4, <1>2, <1>5
<1> QED BY <1>1, <1>6 DEF CampInv

LEMMA ReplaceHolds ==
    ASSUME CampInv, Calibrate!Replace
    PROVE  CampInv'
<1>0. /\ cmd.op = "apply" /\ cmd.at \in Nat \ {0} /\ cmd.rev \in Pins /\ cmd.staged = ShardFiles
      /\ cmd \in [op : {"apply"}, rev : Pins, staged : SUBSET ShardFiles, at : Nat \ {0},
                  then : {"apply", "pack"}]
      /\ model \in ModelType
      /\ UNCHANGED <<host, job, pin, calib, overlay, receipt, given, broken, unfinished>>
  BY DEF Calibrate!Replace, CampInv, ApplyIs, ShardFiles
<1>1. PICK k, r : k = cmd.at /\ r = cmd.rev
  OBVIOUS
<1>2. /\ model' = [model EXCEPT ![Shards[k]] = Calibrate!Patched(@, r)]
      /\ cmd' = [cmd EXCEPT !.at = k + 1] /\ k \in DOMAIN Shards
  BY <1>0, <1>1, ShardsAre DEF Calibrate!Replace
<1>3. /\ cmd'.op = "apply" /\ cmd'.at = k + 1 /\ cmd'.rev = r /\ cmd'.then = cmd.then
      /\ cmd'.staged = cmd.staged
      /\ cmd' \in [op : {"apply"}, rev : Pins, staged : SUBSET ShardFiles, at : Nat \ {0},
                   then : {"apply", "pack"}]
  <2>1. k + 1 \in Nat \ {0}
    BY <1>0, <1>1
  <2> QED BY <1>0, <1>1, <1>2, <2>1
<1>4. PICK x, f : x = Calibrate!Patched(model[Shards[k]], r) /\ f = Shards[k]
  OBVIOUS
<1>5. model' = [model EXCEPT ![f] = x] /\ f \in ShardFiles
  BY <1>2, <1>4, ShardsAre
<1>6. /\ x \in [layers : LayersOf, router : Pins \cup {"base"}] /\ x.router = r
      /\ x.layers = model[f].layers
  <2>1. model[f].layers \in LayersOf
    BY <1>0, <1>5 DEF ModelType
  <2> QED BY <1>0, <1>1, <1>4, <2>1 DEF Calibrate!Patched
<1>7. /\ model' \in ModelType
      /\ \A s \in ShardFiles : model'[s].layers = model[s].layers
      /\ model'[f].router = r
      /\ \A s \in ShardFiles : s # f => model'[s].router = model[s].router
  BY <1>0, <1>5, <1>6 DEF ModelType
<1>8. \A i \in DOMAIN Shards : i < k + 1 => model'[Shards[i]].router = r
  <2> TAKE i \in DOMAIN Shards
  <2>1. ASSUME i < k + 1 PROVE i < k \/ i = k
    BY <1>0, <1>1, <2>1, ShardsAre
  <2>2. i < k => model[Shards[i]].router = r
    BY <1>0, <1>1 DEF CampInv, ApplyIs
  <2>3. Shards[i] \in ShardFiles
    BY ShardsAre
  <2> QED BY <1>4, <1>7, <2>1, <2>2, <2>3
<1>9. ~unfinished' => \A s, t \in ShardFiles : model'[s].layers = model'[t].layers
  BY <1>0, <1>7 DEF CampInv, ApplyIs
<1>10. cmd'.then = "pack" => \A s \in ShardFiles : model'[s].layers = calib'.listed
  BY <1>0, <1>3, <1>7 DEF CampInv, ApplyIs
<1>11. ApplyIs'
  BY <1>0, <1>3, <1>7, <1>8, <1>9, <1>10 DEF ApplyIs
<1>12. k + 1 > 1
  BY <1>0, <1>1
<1>13. ModelIs'
  BY <1>3, <1>7, <1>9, <1>12 DEF ModelIs
<1>14. HostIs' /\ CalibIs' /\ RevisionsAre'
  BY <1>0 DEF CampInv, HostIs, Calibrate!Unlisted, CalibIs, RevisionsAre
<1>15. PrepareIs' /\ FetchIs' /\ InjectedSoFar'
  BY <1>3 DEF PrepareIs, FetchIs, InjectedSoFar
<1> QED BY <1>11, <1>13, <1>14, <1>15 DEF CampInv

\* An overlay that ends: every shard has its revision.
LEMMA AllReplaced ==
    ASSUME CampInv, Calibrate!ApplyEnd
    PROVE  /\ cmd.op = "apply" /\ cmd.rev \in Pins /\ cmd.then \in {"apply", "pack"}
           /\ model \in ModelType /\ \A s \in ShardFiles : model[s].router = cmd.rev
<1>1. /\ cmd.op = "apply" /\ cmd.at \in Nat \ {0} /\ cmd.rev \in Pins /\ model \in ModelType
      /\ cmd.then \in {"apply", "pack"} /\ cmd.at > Len(Shards)
      /\ \A i \in DOMAIN Shards : i < cmd.at => model[Shards[i]].router = cmd.rev
  BY DEF Calibrate!ApplyEnd, CampInv, ApplyIs
<1>2. \A i \in DOMAIN Shards : i < cmd.at
  BY <1>1, ShardsAre
<1> QED BY <1>1, <1>2, ShardsAre

LEMMA ApplyEndHolds ==
    ASSUME CampInv, Calibrate!ApplyEnd
    PROVE  CampInv'
<1>0. /\ cmd' = Calibrate!Idle /\ broken' = FALSE
      /\ UNCHANGED <<host, job, pin, calib, overlay, model, given, unfinished>>
  BY DEF Calibrate!ApplyEnd, Calibrate!End
<1>1. PrepareIs' /\ RevisionsAre' /\ cmd'.op = "none"
  BY <1>0, IdleIs DEF CampInv, PrepareIs, RevisionsAre
<1>2. ModelIs'
  BY <1>0, AllReplaced DEF CampInv, ModelIs
<1> QED BY <1>0, <1>1, <1>2, CommandMoves

LEMMA PackBeginHolds ==
    ASSUME CampInv, Calibrate!PackBegin
    PROVE  CampInv'
<1>1. PICK b \in BOOLEAN : cmd' = [op |-> "pack", overlay |-> b, at |-> 0]
  BY DEF Calibrate!PackBegin, Calibrate!Give
<1>2. /\ cmd = Calibrate!Idle /\ cmd'.op = "pack" /\ cmd'.at = 0
      /\ cmd' \in [op : {"pack"}, overlay : BOOLEAN, at : Nat]
      /\ UNCHANGED <<host, job, pin, calib, overlay, model, receipt, broken, unfinished>>
  BY <1>1 DEF Calibrate!PackBegin, Calibrate!Give
<1>3. InjectedSoFar' /\ PrepareIs' /\ FetchIs' /\ ApplyIs'
  BY <1>2 DEF InjectedSoFar, PrepareIs, FetchIs, ApplyIs
<1>4. ModelIs'
  BY <1>2, IdleIs DEF CampInv, ModelIs
<1>5. HostIs' /\ CalibIs' /\ RevisionsAre'
  BY <1>2 DEF CampInv, HostIs, Calibrate!Unlisted, CalibIs, RevisionsAre
<1> QED BY <1>3, <1>4, <1>5 DEF CampInv

\* While pack goes on, the host and what was fetched stay.
LEMMA PackMoves ==
    ASSUME CampInv, UNCHANGED <<host, job, pin, calib, overlay>>, cmd'.op = "pack",
           InjectedSoFar', ModelIs'
    PROVE  CampInv'
BY DEF CampInv, HostIs, Calibrate!Unlisted, CalibIs, PrepareIs, FetchIs, RevisionsAre, ApplyIs

LEMMA CampaignConvertHolds ==
    ASSUME CampInv, Calibrate!Convert
    PROVE  CampInv'
<1>1. /\ cmd.op = "pack" /\ cmd \in [op : {"pack"}, overlay : BOOLEAN, at : Nat]
      /\ UNCHANGED <<host, job, pin, calib, overlay, receipt, given, broken, unfinished>>
  BY DEF Calibrate!Convert, CampInv, InjectedSoFar
<1>2. CASE model' = Partial /\ cmd' = [cmd EXCEPT !.at = 1]
  <2>1. cmd'.op = "pack" /\ cmd' \in [op : {"pack"}, overlay : BOOLEAN, at : Nat]
    BY <1>1, <1>2
  <2>2. InjectedSoFar' /\ ModelIs'
    BY <1>2, <2>1 DEF InjectedSoFar, ModelIs
  <2> QED BY <1>1, <2>1, <2>2, PackMoves
<1>3. CASE cmd' = Calibrate!Idle /\ UNCHANGED model
  <2>1. PrepareIs' /\ RevisionsAre' /\ ModelIs' /\ cmd'.op = "none"
    BY <1>1, <1>3, IdleIs DEF CampInv, PrepareIs, RevisionsAre, ModelIs
  <2> QED BY <1>1, <2>1, CommandMoves
<1> QED BY <1>2, <1>3 DEF Calibrate!Convert, Calibrate!End

LEMMA CampaignConvertedHolds ==
    ASSUME CampInv, Calibrate!Converted
    PROVE  CampInv'
<1>1. /\ cmd.op = "pack" /\ cmd.at = 1 /\ cmd' = cmd /\ unfinished'
      /\ cmd \in [op : {"pack"}, overlay : BOOLEAN, at : Nat]
      /\ model' = [s \in ShardFiles |-> [layers |-> {}, router |-> "base"]]
      /\ UNCHANGED <<host, job, pin, calib, overlay, receipt, given, broken>>
  BY DEF Calibrate!Converted, CampInv, InjectedSoFar, ShardFiles
<1>2. model' \in ModelType /\ \A s \in ShardFiles : model'[s].router = "base"
  BY <1>1 DEF ModelType, LayersOf
<1>3. \A i \in DOMAIN Shards : ~(i < 1)
  BY ShardsAre
<1>4. InjectedSoFar' /\ ModelIs'
  BY <1>1, <1>2, <1>3 DEF InjectedSoFar, ModelIs
<1> QED BY <1>1, <1>4, PackMoves

\* The model that layers are injected into.
LEMMA InjectedIs ==
    ASSUME CampInv, Calibrate!Injecting
    PROVE  /\ cmd \in [op : {"pack"}, overlay : BOOLEAN, at : Nat] /\ cmd.op = "pack"
           /\ cmd.at \in Nat /\ cmd.at > 0 /\ model \in ModelType /\ unfinished
           /\ \A s \in ShardFiles : model[s].router = "base"
           /\ \A i \in DOMAIN Shards : i < cmd.at => model[Shards[i]].layers = calib.listed
           /\ calib.listed \in LayersOf
BY DEF CampInv, InjectedSoFar, CalibIs, Calibrate!Injecting

LEMMA CampaignInjectHolds ==
    ASSUME CampInv, Calibrate!Inject
    PROVE  CampInv'
<1>0. Calibrate!Injecting /\ cmd.at <= Len(Shards)
      /\ UNCHANGED <<host, job, pin, calib, overlay, receipt, given, broken, unfinished>>
  BY DEF Calibrate!Inject
<1>1. CASE /\ model' = [model EXCEPT ![Shards[cmd.at]].layers = calib.listed]
           /\ cmd' = [cmd EXCEPT !.at = @ + 1]
  <2>1. PICK k, l, f : /\ k \in Nat /\ k = cmd.at /\ l = calib.listed
                       /\ f = Shards[k]
    BY <1>0, InjectedIs
  <2>2. /\ k \in DOMAIN Shards /\ f \in ShardFiles /\ l \in LayersOf /\ model \in ModelType
        /\ model' = [model EXCEPT ![f].layers = l] /\ cmd' = [cmd EXCEPT !.at = k + 1]
    BY <1>0, <1>1, <2>1, InjectedIs, ShardsAre
  <2>3. /\ cmd'.op = "pack" /\ cmd'.at = k + 1
        /\ cmd' \in [op : {"pack"}, overlay : BOOLEAN, at : Nat]
    BY <1>0, <2>1, <2>2, InjectedIs
  <2>4. /\ model' \in ModelType /\ model'[f].layers = l
        /\ \A s \in ShardFiles : model'[s].router = model[s].router
        /\ \A s \in ShardFiles : s # f => model'[s].layers = model[s].layers
    BY <2>2 DEF ModelType
  <2>5. \A i \in DOMAIN Shards : i < k + 1 => model'[Shards[i]].layers = calib'.listed
    <3> TAKE i \in DOMAIN Shards
    <3>1. i < k + 1 => i < k \/ i = k
      BY <2>1, ShardsAre
    <3>2. i < k => model[Shards[i]].layers = l
      BY <1>0, <2>1, InjectedIs
    <3>3. Shards[i] \in ShardFiles /\ calib'.listed = l
      BY <1>0, <2>1, ShardsAre
    <3> QED BY <2>1, <2>4, <3>1, <3>2, <3>3
  <2>6. unfinished' /\ \A s \in ShardFiles : model'[s].router = "base"
    BY <1>0, <2>4, InjectedIs
  <2>7. InjectedSoFar' /\ ModelIs'
    BY <2>3, <2>4, <2>5, <2>6 DEF InjectedSoFar, ModelIs
  <2> QED BY <1>0, <2>3, <2>7, PackMoves
<1>2. CASE cmd' = Calibrate!Idle /\ UNCHANGED model
  <2>1. PrepareIs' /\ RevisionsAre' /\ ModelIs' /\ cmd'.op = "none"
    BY <1>0, <1>2, IdleIs, InjectedIs DEF CampInv, PrepareIs, RevisionsAre, ModelIs
  <2> QED BY <1>0, <2>1, CommandMoves
<1> QED BY <1>1, <1>2 DEF Calibrate!Inject, Calibrate!End

\* A pack that ends: every shard has the fetched layers.
LEMMA AllInjected ==
    ASSUME CampInv, Calibrate!PackEnd
    PROVE  /\ cmd.op = "pack" /\ model \in ModelType
           /\ \A s \in ShardFiles : model[s].router = "base" /\ model[s].layers = calib.listed
<1>1. Calibrate!Injecting /\ cmd.at > Len(Shards)
  BY DEF Calibrate!PackEnd
<1>2. \A i \in DOMAIN Shards : i < cmd.at
  BY <1>1, InjectedIs, ShardsAre
<1> QED BY <1>1, <1>2, InjectedIs, ShardsAre

LEMMA PackEndHolds ==
    ASSUME CampInv, Calibrate!PackEnd
    PROVE  CampInv'
<1>0. UNCHANGED <<host, job, pin, calib, overlay, model, given, broken>> /\ unfinished' = FALSE
  BY DEF Calibrate!PackEnd
<1>1. CASE cmd' = Calibrate!Idle
  <2>1. PrepareIs' /\ RevisionsAre' /\ ModelIs' /\ cmd'.op = "none"
    BY <1>0, <1>1, IdleIs, AllInjected DEF CampInv, PrepareIs, RevisionsAre, ModelIs
  <2> QED BY <1>0, <2>1, CommandMoves
<1>2. CASE overlay # None /\ cmd' = Calibrate!Apply("pack")
  <2>1. /\ cmd'.op = "apply" /\ cmd'.at = 1 /\ cmd'.then = "pack" /\ cmd'.rev = overlay
        /\ cmd' \in [op : {"apply"}, rev : Pins, staged : SUBSET ShardFiles, at : Nat \ {0},
                     then : {"apply", "pack"}]
    BY <1>2, ApplyIsNew DEF CampInv
  <2>2. \A i \in DOMAIN Shards : ~(i < 1)
    BY ShardsAre
  <2>3. /\ model' \in ModelType
        /\ \A s \in ShardFiles : model'[s].router = "base" /\ model'[s].layers = calib'.listed
    BY <1>0, AllInjected
  <2>4. ApplyIs' /\ ModelIs'
    BY <2>1, <2>2, <2>3 DEF ApplyIs, ModelIs
  <2>5. PrepareIs' /\ FetchIs' /\ InjectedSoFar'
    BY <2>1 DEF PrepareIs, FetchIs, InjectedSoFar
  <2>6. HostIs' /\ CalibIs' /\ RevisionsAre'
    BY <1>0 DEF CampInv, HostIs, Calibrate!Unlisted, CalibIs, RevisionsAre
  <2> QED BY <2>4, <2>5, <2>6 DEF CampInv
<1> QED BY <1>1, <1>2 DEF Calibrate!PackEnd, Calibrate!End

LEMMA DiscardModelHolds ==
    ASSUME CampInv, Calibrate!Discard
    PROVE  CampInv'
<1>1. /\ cmd = Calibrate!Idle /\ model' = None
      /\ UNCHANGED <<host, job, pin, cmd, calib, overlay, receipt>>
  BY DEF Calibrate!Discard
<1>2. PrepareIs' /\ RevisionsAre' /\ ModelIs' /\ cmd'.op = "none"
  BY <1>1, IdleIs DEF CampInv, PrepareIs, RevisionsAre, ModelIs
<1> QED BY <1>1, <1>2, CommandMoves

LEMMA InterruptHolds ==
    ASSUME CampInv, Calibrate!Interrupt
    PROVE  CampInv'
<1>0. /\ cmd' = Calibrate!Idle
      /\ broken' = (broken \/ (cmd.op = "apply" /\ cmd.at > 1))
      /\ UNCHANGED <<host, job, pin, overlay, model, receipt, given, unfinished>>
  BY DEF Calibrate!Interrupt, Calibrate!End
<1>1. CalibIs'
  <2>1. CASE calib' = calib
    BY <2>1 DEF CampInv, CalibIs
  <2>2. CASE cmd.op = "fetch" /\ cmd.at \in cmd.list
             /\ calib' = [calib EXCEPT !.file[cmd.at] = Partial]
    <3>1. cmd.at \in Calibrate!Layers
      BY <2>2 DEF CampInv, FetchIs
    <3>2. calib \in [file : [Calibrate!Layers -> Parts], listed : LayersOf] /\ Partial \in Parts
      BY DEF CampInv, CalibIs, Parts
    <3>3. calib' \in [file : [Calibrate!Layers -> Parts], listed : LayersOf]
      BY <2>2, <3>1, <3>2
    <3> QED BY <3>3 DEF CalibIs
  <2> QED BY <2>1, <2>2 DEF Calibrate!Interrupt
<1>2. HostIs' /\ RevisionsAre'
  BY <1>0 DEF CampInv, HostIs, Calibrate!Unlisted, RevisionsAre
<1>3. ModelIs'
  BY Zenon, <1>0, IdleIs DEF CampInv, ModelIs
<1>4. PrepareIs' /\ FetchIs' /\ ApplyIs' /\ InjectedSoFar'
  BY <1>0, IdleIs DEF PrepareIs, FetchIs, ApplyIs, InjectedSoFar
<1> QED BY <1>1, <1>2, <1>3, <1>4 DEF CampInv

LEMMA CampaignStep == CampInv /\ [Calibrate!Next]_campaignVars => CampInv'
<1> SUFFICES ASSUME CampInv, [Calibrate!Next]_campaignVars PROVE CampInv'
  OBVIOUS
<1>1. CASE UNCHANGED campaignVars
  BY <1>1 DEF campaignVars, CampInv, HostIs, Calibrate!Unlisted, CalibIs, PrepareIs, FetchIs,
              RevisionsAre, ApplyIs, InjectedSoFar, ModelIs
<1>2. CASE Calibrate!Next
  BY <1>2, JobLoadHolds, JobStepHolds, JobDiesHolds, PrepareBeginHolds, PrepareHolds,
     StageAStartHolds, StartPidHolds, FetchBeginHolds, FetchFileHolds, FetchEndHolds,
     EditPinHolds, FetchOverlayHolds, ApplyBeginHolds, StageHolds, ReplaceHolds, ApplyEndHolds,
     PackBeginHolds, CampaignConvertHolds, CampaignConvertedHolds, CampaignInjectHolds, PackEndHolds,
     DiscardModelHolds, InterruptHolds DEF Calibrate!Next
<1> QED BY <1>1, <1>2

LEMMA CampaignKeepsOverlay == CampInv => Calibrate!OverlayIsAllOrNothing
BY IdleIs DEF CampInv, ModelIs, Calibrate!OverlayIsAllOrNothing, ShardFiles

\* Between its last file and its end a quiet fetch changes nothing.
LEMMA QuietFetchHolds == CampInv /\ [Calibrate!Next]_campaignVars => Calibrate!QuietFetchIsWhole
<1> SUFFICES ASSUME CampInv, [Calibrate!Next]_campaignVars,
                    cmd.op = "fetch", cmd.at > NumLayers, cmd' = Calibrate!Idle, cmd.quiet,
                    job = None, NEW n \in host.listed
             PROVE  calib'.file[n] = "whole"
  BY DEF Calibrate!QuietFetchIsWhole, Calibrate!Whole
<1>1. /\ n \in Calibrate!Layers /\ host.file[n] = "whole" /\ cmd.at \in Nat
      /\ cmd.list \in SUBSET Calibrate!Layers
      /\ \A l \in Calibrate!Layers : host.file[l] # None => l \in cmd.list
      /\ \A l \in cmd.list : l < cmd.at => calib.file[l] = host.file[l]
  BY DEF CampInv, HostIs, HostType, FetchIs
<1>2. None # "whole" /\ NumLayers \in Nat
  BY OfflineAssumption DEF OfflineAssumption, Calibrate!CampaignAssumption
<1>3. n < cmd.at /\ cmd.at \notin cmd.list
  BY <1>1, <1>2 DEF Calibrate!Layers
<1>4. calib.file[n] = "whole"
  BY <1>1, <1>2, <1>3
<1>5. calib'.file = calib.file
  <2>1. cmd' # cmd
    BY IdleIs
  <2>2. Calibrate!FetchEnd \/ Calibrate!Interrupt
    <3>1. Calibrate!Next /\ cmd.op = "fetch" /\ cmd # Calibrate!Idle
      BY <2>1, IdleIs DEF campaignVars
    <3>2. Calibrate!JobLoad \/ Calibrate!JobStep \/ Calibrate!JobDies \/ Calibrate!EditPin
          \/ Calibrate!FetchOverlay \/ Calibrate!Discard => cmd' = cmd
      BY DEF Calibrate!JobLoad, Calibrate!JobStep, Calibrate!JobDies, Calibrate!EditPin,
             Calibrate!FetchOverlay, Calibrate!Discard
    <3>3. Calibrate!PrepareBegin \/ Calibrate!FetchBegin \/ Calibrate!ApplyBegin
          \/ Calibrate!PackBegin \/ Calibrate!Start => cmd = Calibrate!Idle
      BY DEF Calibrate!PrepareBegin, Calibrate!FetchBegin, Calibrate!ApplyBegin,
             Calibrate!PackBegin, Calibrate!Start, Calibrate!Give
    <3>4. Calibrate!Prepare \/ Calibrate!Stage \/ Calibrate!Replace \/ Calibrate!ApplyEnd
          \/ Calibrate!Convert \/ Calibrate!Converted \/ Calibrate!Inject \/ Calibrate!PackEnd
          \/ Calibrate!StartPid => cmd.op # "fetch"
      BY DEF Calibrate!Prepare, Calibrate!Stage, Calibrate!Replace, Calibrate!ApplyEnd,
             Calibrate!Convert, Calibrate!Converted, Calibrate!Inject, Calibrate!PackEnd,
             Calibrate!Injecting, Calibrate!StartPid
    <3>5. ~Calibrate!FetchFile
      BY <1>1, <1>2 DEF Calibrate!FetchFile
    <3> QED BY <2>1, <3>1, <3>2, <3>3, <3>4, <3>5 DEF Calibrate!Next
  <2>3. calib \in [file : [Calibrate!Layers -> Parts], listed : LayersOf]
    BY DEF CampInv, CalibIs
  <2>4. CASE Calibrate!FetchEnd
    BY <2>3, <2>4 DEF Calibrate!FetchEnd
  <2>5. CASE Calibrate!Interrupt
    BY <1>3, <2>5 DEF Calibrate!Interrupt
  <2> QED BY <2>2, <2>4, <2>5
<1> QED BY <1>4, <1>5

LEMMA ReceiptHolds == CampInv /\ [Calibrate!Next]_campaignVars => Calibrate!ReceiptTellsTheModel
<1> SUFFICES ASSUME CampInv, [Calibrate!Next]_campaignVars, receipt' # receipt
             PROVE  /\ \A s \in ShardFiles :
                          model'[s].router = IF receipt'.source = None THEN "base" ELSE receipt'.source
                    /\ receipt'.op = "pack" =>
                          \A s \in ShardFiles : model'[s].layers = receipt'.layers
                    /\ ~unfinished' => \A s, t \in ShardFiles : model'[s].layers = model'[t].layers
  BY DEF Calibrate!ReceiptTellsTheModel, ShardFiles
<1>1. Calibrate!ApplyEnd \/ Calibrate!PackEnd
  BY DEF campaignVars, Calibrate!Next, Calibrate!JobLoad, Calibrate!JobStep, Calibrate!JobDies,
     Calibrate!PrepareBegin, Calibrate!Prepare, Calibrate!Start, Calibrate!StartPid,
     Calibrate!FetchBegin, Calibrate!FetchFile, Calibrate!FetchEnd, Calibrate!EditPin,
     Calibrate!FetchOverlay, Calibrate!ApplyBegin, Calibrate!Stage, Calibrate!Replace,
     Calibrate!PackBegin, Calibrate!Convert, Calibrate!Converted, Calibrate!Inject,
     Calibrate!Discard, Calibrate!Interrupt
<1>2. CASE Calibrate!ApplyEnd
  <2>1. /\ cmd.op = "apply" /\ cmd.rev \in Pins /\ cmd.rev # None
        /\ \A s \in ShardFiles : model[s].router = cmd.rev
    BY <1>2, AllReplaced, OfflineAssumption DEF OfflineAssumption, Calibrate!CampaignAssumption
  <2>2. /\ ~unfinished => \A s, t \in ShardFiles : model[s].layers = model[t].layers
        /\ cmd.then = "pack" => \A s \in ShardFiles : model[s].layers = calib.listed
    BY <2>1 DEF CampInv, ApplyIs
  <2>3. /\ receipt'.op = cmd.then /\ receipt'.source = cmd.rev
        /\ model' = model /\ unfinished' = unfinished
        /\ cmd.then = "pack" => receipt'.layers = calib.listed
    BY <1>2 DEF Calibrate!ApplyEnd
  <2> QED BY <2>1, <2>2, <2>3
<1>3. CASE Calibrate!PackEnd
  <2>1. /\ model' = model
        /\ receipt'.op = "pack" /\ receipt'.source = None /\ receipt'.layers = calib.listed
    BY <1>3 DEF Calibrate!PackEnd
  <2> QED BY <1>3, <2>1, AllInjected
<1> QED BY <1>1, <1>2, <1>3

(* ------------------------------ the ladder ------------------------------- *)

On(f) == f \in DOMAIN volume

Raws == Rungs!Results \cup {Partial}

LadderJobs ==
    [name : {"none", "stage", "verify", "quantize", "flatten"},
     pc : {"idle", "downloading", "cache", "hash", "check", "raw", "saving", "pin", "final",
           "packaging", "measure", "summary", "look", "writing", "present"},
     raw : Raws]

LadderTypes ==
    /\ ladderJob \in LadderJobs /\ results \in 0..MaxResults
    /\ \A f \in Rungs!SourceFiles : On(f) => volume[f] \in {"pinned", "other"}
    /\ \A f \in Rungs!RawFiles : On(f) => volume[f] \in Raws

\* Raw files that are whole are of one result, and the quantizer saves beside no
\* others.
RawIs ==
    /\ \A f, g \in Rungs!RawFiles :
          On(f) /\ On(g) /\ volume[f] # Partial /\ volume[g] # Partial => volume[f] = volume[g]
    /\ ladderJob.pc = "saving" =>
          /\ results \in 1..MaxResults /\ "raw" \notin denied
          /\ On("source/weights") /\ volume["source/weights"] = "pinned"
          /\ \A f \in Rungs!RawFiles : On(f) => volume[f] = [result |-> results, of |-> "pinned"]

\* What is packaged is of the raw shard that lies there: a directory with a shard is
\* never refused, hence never deleted.
FinalIs ==
    /\ On("final") =>
          /\ On("raw/shard") /\ volume["final"] \in Rungs!Packages
          /\ volume["final"].raw = volume["raw/shard"]
          /\ volume["final"].raw = volume["final"].config
    /\ "raw" \in denied => ~On("raw/shard") /\ \E f \in Rungs!RawFiles : On(f)
    /\ ladderJob.pc \in {"pin", "final", "packaging", "measure", "summary"} => On("raw/shard")
    /\ ladderJob.pc \in {"final", "packaging", "measure", "summary"} =>
          ladderJob.raw = volume["raw/shard"]
    /\ ladderJob.pc \in {"packaging", "measure", "summary"} => On("final")

PackagingTells ==
    On("packaging") /\ volume["packaging"] # Partial =>
        /\ On("final") /\ volume["packaging"].files = volume["final"]
        /\ volume["packaging"].source = volume["final"].raw
SummaryTells ==
    On("summary") /\ volume["summary"] # Partial =>
        /\ On("final") /\ volume["summary"].text = volume["final"]
        /\ volume["summary"].raw = volume["final"].raw
CampaignTells ==
    /\ On("campaign") /\ "text" \in DOMAIN volume["campaign"] =>
          volume["campaign"].raw = volume["campaign"].text.raw
    /\ ladderJob.pc \in {"final", "packaging", "measure"} =>
          On("campaign") /\ volume["campaign"] = [raw |-> volume["raw/shard"]]
ReceiptsAre == PackagingTells /\ SummaryTells /\ CampaignTells

FlatIs ==
    /\ On("flattening") => \A f \in Rungs!Flat : On(f) /\ volume[f] # Partial
    /\ "bf16" \in denied => ~On("flattening") /\ \E f \in Rungs!Flat : On(f)
    /\ ladderJob.pc = "writing" =>
          /\ On("source/weights") /\ "bf16" \notin denied
          /\ \A f \in Rungs!Flat : On(f) => volume[f] # Partial
    /\ ladderJob.pc = "present" => \A f \in Rungs!Flat : On(f) /\ volume[f] # Partial

LInv == LadderTypes /\ RawIs /\ FinalIs /\ ReceiptsAre /\ FlatIs

LEMMA FilesAre ==
    /\ Rungs!SourceFiles = {"source/weights", "source/tokenizer"}
    /\ Rungs!RawFiles = {"raw/config", "raw/shard", "raw/recipe"}
    /\ Rungs!Flat = {"bf16/shard", "bf16/config", "bf16/index", "bf16/tokenizer"}
<1>1. 1..4 = {1, 2, 3, 4}
  OBVIOUS
<1>2. /\ Rungs!FlatFiles[1] = "bf16/shard" /\ Rungs!FlatFiles[2] = "bf16/config"
      /\ Rungs!FlatFiles[3] = "bf16/index" /\ Rungs!FlatFiles[4] = "bf16/tokenizer"
  BY DEF Rungs!FlatFiles
<1>3. Rungs!Flat = {"bf16/shard", "bf16/config", "bf16/index", "bf16/tokenizer"}
  BY <1>1, <1>2 DEF Rungs!Flat
<1> QED BY <1>3 DEF Rungs!SourceFiles, Rungs!RawFiles

LEMMA TornIsNothingElse ==
    Partial \notin {"pinned", "other"} \cup Rungs!Packages /\ MaxResults \in Nat
BY OfflineAssumption DEF OfflineAssumption, Rungs!LadderAssumption

LEMMA LadderBegins == Rungs!Init => LInv
<1> SUFFICES ASSUME Rungs!Init PROVE LInv
  OBVIOUS
<1>1. ladderJob = [name |-> "none", pc |-> "idle", raw |-> Partial] /\ results = 0 /\ denied = {}
  BY DEF Rungs!Init, Rungs!Idle
<1>2. ladderJob \in LadderJobs /\ results \in 0..MaxResults /\ ladderJob.pc = "idle"
  BY <1>1, TornIsNothingElse DEF LadderJobs, Raws
<1>3. \A f : On(f) => f \in Rungs!SourceFiles /\ volume[f] = "other"
  <2>1. CASE volume = <<>>
    BY <2>1 DEF On
  <2>2. CASE volume = [f \in Rungs!SourceFiles |-> "other"]
    BY <2>2 DEF On
  <2> QED BY <2>1, <2>2 DEF Rungs!Init
<1>4. LadderTypes /\ RawIs /\ FinalIs
  BY <1>1, <1>2, <1>3, FilesAre DEF LadderTypes, RawIs, FinalIs
<1>5. ReceiptsAre /\ FlatIs
  BY <1>1, <1>2, <1>3, FilesAre DEF ReceiptsAre, PackagingTells, SummaryTells, CampaignTells,
     FlatIs
<1> QED BY <1>4, <1>5 DEF LInv

\* One file is written.
Written(f, c) ==
    /\ DOMAIN volume' = {f} \cup DOMAIN volume /\ volume'[f] = c
    /\ \A g \in DOMAIN volume : g # f => volume'[g] = volume[g]

LEMMA PutIs ==
    ASSUME NEW f, NEW c, Rungs!Put(f, c)
    PROVE  Written(f, c)
BY DEF Written, Rungs!Put, Rungs!Set

\* The job goes on to a place, or ends.
LEMMA ToIs ==
    ASSUME LadderTypes,
           NEW pc \in {"idle", "downloading", "cache", "hash", "check", "raw", "saving", "pin",
                       "final", "packaging", "measure", "summary", "look", "writing", "present"},
           Rungs!To(pc)
    PROVE  ladderJob' \in LadderJobs /\ ladderJob'.pc = pc /\ ladderJob'.raw = ladderJob.raw
BY DEF LadderTypes, LadderJobs, Rungs!To

LEMMA DoneIs ==
    ASSUME Rungs!Done
    PROVE  ladderJob' \in LadderJobs /\ ladderJob'.pc = "idle"
BY DEF LadderJobs, Rungs!Done, Rungs!Idle, Raws

\* A job that is at its beginning, or at a place of no consequence, and files as
\* before.
LEMMA JobMoves ==
    ASSUME LInv, UNCHANGED <<volume, results, denied>>, ladderJob' \in LadderJobs,
           ladderJob'.pc \in {"idle", "downloading", "cache", "hash", "check", "raw", "look"}
    PROVE  LInv'
BY DEF LInv, LadderTypes, RawIs, FinalIs, ReceiptsAre, PackagingTells, SummaryTells,
   CampaignTells, FlatIs, On

LEMMA BeginHolds ==
    ASSUME LInv, NEW name \in {"stage", "verify", "quantize", "flatten"},
           NEW pc \in {"downloading", "cache", "check", "look"}, Rungs!Begin(name, pc)
    PROVE  LInv'
<1>1. ladderJob' \in LadderJobs /\ ladderJob'.pc = pc
  BY Zenon DEF Rungs!Begin, Rungs!Idle, LadderJobs, Raws
<1> QED BY <1>1, JobMoves DEF Rungs!Begin

\* Files of no consequence.
LEMMA AsideHolds ==
    ASSUME LInv, UNCHANGED <<results, denied>>,
           \A f \in DOMAIN volume' : f \in DOMAIN volume \/ f \in {"source/.cache", "verification"}
                                     \/ f \in Rungs!SourceFiles,
           \A f \in DOMAIN volume : f \in DOMAIN volume' \/ f \in {"source/.cache", "verification"},
           \A f \in DOMAIN volume : f \notin {"source/.cache", "verification"} \cup Rungs!SourceFiles
                                     => volume'[f] = volume[f],
           \A f \in Rungs!SourceFiles : f \in DOMAIN volume' => volume'[f] \in {"pinned", "other"},
           ladderJob' \in LadderJobs,
           ladderJob'.pc \in {"idle", "downloading", "cache", "hash", "check", "raw", "look"}
    PROVE  LInv'
<1> USE FilesAre DEF On
<1>1. LadderTypes'
  BY DEF LInv, LadderTypes
<1>2. RawIs'
  BY DEF LInv, RawIs
<1>3. FinalIs'
  BY DEF LInv, FinalIs
<1>4. ReceiptsAre'
  BY DEF LInv, ReceiptsAre, PackagingTells, SummaryTells, CampaignTells
<1>5. FlatIs'
  BY DEF LInv, FlatIs
<1> QED BY <1>1, <1>2, <1>3, <1>4, <1>5 DEF LInv

LEMMA StageFileHolds ==
    ASSUME LInv, NEW f \in Rungs!SourceFiles, Rungs!StageFile(f)
    PROVE  LInv'
<1>1. /\ ladderJob.pc = "downloading" /\ UNCHANGED <<ladderJob, results, denied>>
      /\ ladderJob' \in LadderJobs
  BY DEF Rungs!StageFile, Rungs!At, LInv, LadderTypes
<1>2. /\ DOMAIN volume' = {f, "source/.cache"} \cup DOMAIN volume /\ volume'[f] = "pinned"
      /\ \A g \in DOMAIN volume : g \notin {f, "source/.cache"} => volume'[g] = volume[g]
  BY DEF Rungs!StageFile, Rungs!Set
<1>3. \A g \in Rungs!SourceFiles : g \in DOMAIN volume' => volume'[g] \in {"pinned", "other"}
  BY <1>2, FilesAre DEF LInv, LadderTypes, On
<1> QED BY <1>1, <1>2, <1>3, AsideHolds

LEMMA StagedHolds ==
    ASSUME LInv, Rungs!Staged
    PROVE  LInv'
BY DoneIs, JobMoves DEF Rungs!Staged

LEMMA RemoveCacheHolds ==
    ASSUME LInv, Rungs!RemoveCache
    PROVE  LInv'
<1>1. /\ ladderJob' \in LadderJobs /\ ladderJob'.pc = "hash" /\ UNCHANGED <<results, denied>>
  BY ToIs DEF Rungs!RemoveCache, LInv
<1>2. /\ DOMAIN volume' = DOMAIN volume \ {"source/.cache"}
      /\ \A g \in DOMAIN volume' : volume'[g] = volume[g]
  BY DEF Rungs!RemoveCache, Rungs!Without
<1>3. \A g \in Rungs!SourceFiles : g \in DOMAIN volume' => volume'[g] \in {"pinned", "other"}
  BY <1>2, FilesAre DEF LInv, LadderTypes, On
<1> QED BY <1>1, <1>2, <1>3, AsideHolds

LEMMA WriteVerificationHolds ==
    ASSUME LInv, Rungs!WriteVerification
    PROVE  LInv'
<1>1. PICK c : Written("verification", c)
  BY PutIs DEF Rungs!WriteVerification
<1>2. /\ ladderJob' \in LadderJobs /\ ladderJob'.pc = "idle" /\ UNCHANGED <<results, denied>>
  BY DoneIs DEF Rungs!WriteVerification
<1>3. \A g \in Rungs!SourceFiles : g \in DOMAIN volume' => volume'[g] \in {"pinned", "other"}
  BY <1>1, FilesAre DEF LInv, LadderTypes, On, Written
<1> QED BY <1>1, <1>2, <1>3, AsideHolds DEF Written

LEMMA CheckSourceHolds ==
    ASSUME LInv, Rungs!CheckSource
    PROVE  LInv'
<1>1. CASE ladderJob' \in LadderJobs /\ ladderJob'.pc = "idle" /\ UNCHANGED <<volume, results, denied>>
  BY <1>1, JobMoves
<1>2. CASE /\ ladderJob' \in LadderJobs /\ ladderJob'.pc = "raw"
           /\ UNCHANGED <<results, denied>> /\ Written("campaign", <<>>)
  <2> USE FilesAre DEF On
  <2>1. \A f \in DOMAIN volume : f # "campaign" => f \in DOMAIN volume' /\ volume'[f] = volume[f]
    BY <1>2 DEF Written
  <2>2. \A f \in DOMAIN volume' : f # "campaign" => f \in DOMAIN volume
    BY <1>2 DEF Written
  <2>3. "text" \notin DOMAIN volume'["campaign"]
    BY <1>2 DEF Written
  <2>4. LadderTypes' /\ RawIs'
    BY <1>2, <2>1, <2>2 DEF LInv, LadderTypes, RawIs
  <2>5. FinalIs'
    BY <1>2, <2>1, <2>2 DEF LInv, FinalIs
  <2>6. ReceiptsAre'
    BY <1>2, <2>1, <2>2, <2>3 DEF LInv, ReceiptsAre, PackagingTells, SummaryTells,
       CampaignTells
  <2>7. FlatIs'
    BY <1>2, <2>1, <2>2 DEF LInv, FlatIs
  <2> QED BY <2>4, <2>5, <2>6, <2>7 DEF LInv
<1>3. Rungs!To("raw") => ladderJob' \in LadderJobs /\ ladderJob'.pc = "raw"
  BY ToIs DEF LInv
<1> QED BY <1>1, <1>2, <1>3, DoneIs, PutIs DEF Rungs!CheckSource

LEMMA LookForRawHolds ==
    ASSUME LInv, Rungs!LookForRaw
    PROVE  LInv'
<1> USE FilesAre DEF On
<1>0. volume' = volume /\ ladderJob.pc = "raw"
  BY DEF Rungs!LookForRaw, Rungs!At
<1>1. CASE On("raw/shard")
  <2>1. ladderJob' \in LadderJobs /\ ladderJob'.pc = "pin" /\ UNCHANGED <<results, denied>>
    BY <1>1, ToIs DEF Rungs!LookForRaw, Rungs!There, LInv
  <2> QED BY <1>0, <1>1, <2>1 DEF LInv, LadderTypes, RawIs, FinalIs, ReceiptsAre,
     PackagingTells, SummaryTells, CampaignTells, FlatIs
<1>2. CASE ~On("raw/shard")
  <2>1. denied' = IF Rungs!Some(Rungs!RawFiles) THEN denied \cup {"raw"} ELSE denied
    BY <1>2 DEF Rungs!LookForRaw, Rungs!There
  <2>2. "raw" \in denied' => ~On("raw/shard") /\ \E f \in Rungs!RawFiles : On(f)
    <3>1. Rungs!Some(Rungs!RawFiles) => \E f \in Rungs!RawFiles : On(f)
      BY DEF Rungs!Some
    <3> QED BY <1>2, <2>1, <3>1 DEF LInv, FinalIs
  <2>3. "bf16" \in denied' <=> "bf16" \in denied
    BY <2>1
  <2>4. CASE ladderJob' \in LadderJobs /\ ladderJob'.pc = "idle" /\ results' = results
    BY <1>0, <2>2, <2>3, <2>4 DEF LInv, LadderTypes, RawIs, FinalIs, ReceiptsAre,
       PackagingTells, SummaryTells, CampaignTells, FlatIs
  <2>5. CASE /\ ladderJob' \in LadderJobs /\ ladderJob'.pc = "saving" /\ results' = results + 1
             /\ results # MaxResults /\ ~Rungs!Some(Rungs!RawFiles)
             /\ Rungs!Manifest = Rungs!PinnedManifest
    <3>1. \A f \in Rungs!RawFiles : ~On(f)
      BY <2>5 DEF Rungs!Some
    <3>2. results' \in 1..MaxResults
      BY <2>5, TornIsNothingElse DEF LInv, LadderTypes
    <3>3. On("source/weights") /\ volume["source/weights"] = "pinned"
      <4>1. /\ Rungs!Manifest = [f \in (Rungs!SourceFiles \cup {"source/.cache"}) \cap DOMAIN volume
                                   |-> volume[f]]
            /\ Rungs!PinnedManifest = [f \in Rungs!SourceFiles |-> "pinned"]
        BY DEF Rungs!Manifest, Rungs!PinnedManifest, Rungs!Copy
      <4>2. (Rungs!SourceFiles \cup {"source/.cache"}) \cap DOMAIN volume = Rungs!SourceFiles
        BY Zenon, <2>5, <4>1
      <4>3. On("source/weights")
        BY <4>2
      <4> QED BY Zenon, <2>5, <4>1, <4>2, <4>3
    <3>4. "raw" \notin denied'
      BY <2>2, <3>1
    <3>5. results' \in 0..MaxResults
      BY <3>2
    <3>6. LadderTypes' /\ RawIs'
      BY <1>0, <2>5, <3>1, <3>2, <3>3, <3>4, <3>5 DEF LInv, LadderTypes, RawIs
    <3> QED BY <1>0, <2>2, <2>3, <2>5, <3>6 DEF LInv, FinalIs, ReceiptsAre, PackagingTells,
       SummaryTells, CampaignTells, FlatIs
  <2>6. Rungs!To("saving") => ladderJob' \in LadderJobs /\ ladderJob'.pc = "saving"
    BY ToIs DEF LInv
  <2> QED BY <1>2, <2>4, <2>5, <2>6, DoneIs DEF Rungs!LookForRaw, Rungs!There
<1> QED BY <1>1, <1>2

LEMMA SaveRawHolds ==
    ASSUME LInv, NEW f \in Rungs!RawFiles, Rungs!SaveRaw(f)
    PROVE  LInv'
<1> USE FilesAre DEF On
<1>1. /\ UNCHANGED <<ladderJob, results, denied>> /\ ladderJob.pc = "saving" /\ f \notin DOMAIN volume
      /\ Written(f, [result |-> results, of |-> volume["source/weights"]])
  BY PutIs DEF Rungs!SaveRaw, Rungs!At, Rungs!There
<1>2. PICK c : c = [result |-> results, of |-> "pinned"]
  BY Zenon
<1>3. Written(f, c) /\ \A g \in Rungs!RawFiles : On(g) => volume[g] = c
  BY <1>1, <1>2 DEF LInv, RawIs
<1>4. \A g \in DOMAIN volume : g # f /\ g \in DOMAIN volume' /\ volume'[g] = volume[g]
  BY <1>1, <1>3 DEF Written
<1>5. \A g \in DOMAIN volume' : g = f \/ g \in DOMAIN volume
  BY <1>3 DEF Written
<1>6. volume'[f] = c /\ f \in DOMAIN volume'
  BY <1>3 DEF Written
<1>7. c \in Raws
  <2>1. results \in 1..MaxResults
    BY <1>1 DEF LInv, RawIs
  <2> QED BY <1>2, <2>1 DEF Raws, Rungs!Results
<1>8. LadderTypes'
  BY <1>1, <1>4, <1>5, <1>6, <1>7 DEF LInv, LadderTypes
<1>9. RawIs'
  BY <1>1, <1>2, <1>3, <1>4, <1>5, <1>6 DEF LInv, RawIs
<1>10. FinalIs'
  BY <1>1, <1>4, <1>5, <1>6 DEF LInv, FinalIs, RawIs
<1>11. ReceiptsAre'
  <2>1. PackagingTells'
    BY <1>1, <1>4, <1>5, <1>6 DEF LInv, ReceiptsAre, PackagingTells
  <2>2. SummaryTells'
    BY <1>1, <1>4, <1>5, <1>6 DEF LInv, ReceiptsAre, SummaryTells
  <2>3. CampaignTells'
    BY <1>1, <1>4, <1>5, <1>6 DEF LInv, ReceiptsAre, CampaignTells
  <2> QED BY <2>1, <2>2, <2>3 DEF ReceiptsAre
<1>12. FlatIs'
  BY <1>1, <1>4, <1>5, <1>6 DEF LInv, FlatIs
<1> QED BY <1>8, <1>9, <1>10, <1>11, <1>12 DEF LInv

LEMMA WriteQuantizationHolds ==
    ASSUME LInv, Rungs!WriteQuantization
    PROVE  LInv'
<1> USE FilesAre DEF On
<1>1. PICK c : Written("quantization", c)
  BY PutIs DEF Rungs!WriteQuantization
<1>2. /\ ladderJob' \in LadderJobs /\ ladderJob'.pc = "pin" /\ UNCHANGED <<results, denied>>
      /\ Rungs!RawFiles \subseteq DOMAIN volume
  BY ToIs DEF Rungs!WriteQuantization, LInv
<1>3. /\ \A g \in DOMAIN volume : g # "quantization" => g \in DOMAIN volume' /\ volume'[g] = volume[g]
      /\ \A g \in DOMAIN volume' : g = "quantization" \/ g \in DOMAIN volume
  BY <1>1 DEF Written
<1>4. LadderTypes' /\ RawIs'
  BY <1>2, <1>3 DEF LInv, LadderTypes, RawIs
<1>5. FinalIs'
  BY <1>2, <1>3 DEF LInv, FinalIs
<1>6. ReceiptsAre' /\ FlatIs'
  BY <1>2, <1>3 DEF LInv, ReceiptsAre, PackagingTells, SummaryTells, CampaignTells, FlatIs
<1> QED BY <1>4, <1>5, <1>6 DEF LInv

LEMMA PinRawHolds ==
    ASSUME LInv, Rungs!PinRaw
    PROVE  LInv'
<1> USE FilesAre DEF On
<1>1. /\ ladderJob.pc = "pin" /\ UNCHANGED <<results, denied>> /\ On("raw/shard")
      /\ Written("campaign", [raw |-> volume["raw/shard"]])
  BY PutIs DEF Rungs!PinRaw, Rungs!At, LInv, FinalIs
<1>2. PICK c : c = [raw |-> volume["raw/shard"]]
  BY Zenon
<1>3. Written("campaign", c) /\ "text" \notin DOMAIN c
  BY <1>1, <1>2
<1>4. /\ ladderJob' \in LadderJobs /\ ladderJob'.pc = "final" /\ ladderJob'.raw = volume["raw/shard"]
  BY Zenon, <1>1 DEF Rungs!PinRaw, LInv, LadderTypes, LadderJobs
<1>5. /\ \A g \in DOMAIN volume : g # "campaign" => g \in DOMAIN volume' /\ volume'[g] = volume[g]
      /\ \A g \in DOMAIN volume' : g = "campaign" \/ g \in DOMAIN volume
      /\ volume'["campaign"] = c /\ "campaign" \in DOMAIN volume'
  BY <1>3 DEF Written
<1>6. LadderTypes' /\ RawIs'
  BY <1>1, <1>4, <1>5 DEF LInv, LadderTypes, RawIs
<1>7. FinalIs'
  BY <1>1, <1>4, <1>5 DEF LInv, FinalIs
<1>8. ReceiptsAre'
  <2>1. PackagingTells'
    BY <1>1, <1>2, <1>3, <1>4, <1>5 DEF LInv, ReceiptsAre, PackagingTells
  <2>2. SummaryTells'
    BY <1>1, <1>2, <1>3, <1>4, <1>5 DEF LInv, ReceiptsAre, SummaryTells
  <2>3. CampaignTells'
    BY <1>1, <1>2, <1>3, <1>4, <1>5 DEF LInv, ReceiptsAre, CampaignTells
  <2> QED BY <2>1, <2>2, <2>3 DEF ReceiptsAre
<1>9. FlatIs'
  BY <1>1, <1>4, <1>5 DEF LInv, FlatIs
<1> QED BY <1>6, <1>7, <1>8, <1>9 DEF LInv

LEMMA ConvertHolds ==
    ASSUME LInv, Rungs!Convert
    PROVE  LInv'
<1> USE FilesAre DEF On
<1>0. ladderJob.pc = "final" /\ UNCHANGED <<results, denied>> /\ On("raw/shard")
  BY DEF Rungs!Convert, Rungs!At, LInv, FinalIs
<1>1. CASE On("final")
  <2>1. /\ ladderJob' \in LadderJobs /\ ladderJob'.pc = "measure" /\ ladderJob'.raw = ladderJob.raw
        /\ volume' = volume
    BY <1>1, ToIs DEF Rungs!Convert, Rungs!There, LInv
  <2> QED BY <1>0, <1>1, <2>1 DEF LInv, LadderTypes, RawIs, FinalIs, ReceiptsAre,
     PackagingTells, SummaryTells, CampaignTells, FlatIs
<1>2. CASE ~On("final") /\ ~Rungs!Convertible
  BY <1>0, <1>2, DoneIs, JobMoves DEF Rungs!Convert, Rungs!There
<1>3. CASE ~On("final") /\ Rungs!Convertible
  <2>1. /\ ladderJob' \in LadderJobs /\ ladderJob'.pc = "packaging" /\ ladderJob'.raw = ladderJob.raw
        /\ Written("final", Rungs!Packaged)
    BY <1>3, ToIs, PutIs DEF Rungs!Convert, Rungs!There, LInv
  <2>2. PICK c : c = Rungs!Packaged
    OBVIOUS
  <2>3. /\ c.raw = volume["raw/shard"] /\ c.config = volume["raw/shard"] /\ c \in Rungs!Packages
    <3>1. /\ On("raw/config") /\ volume["raw/shard"] # Partial
          /\ volume["raw/config"] = volume["raw/shard"] /\ volume["source/tokenizer"] = "pinned"
      BY <1>0, <1>3 DEF Rungs!Convertible, Rungs!Whole, Rungs!There, LInv, RawIs
    <3>2. volume["raw/shard"] \in Rungs!Results
      BY <1>0, <3>1 DEF LInv, LadderTypes, Raws
    <3>3. Rungs!There("raw/recipe") \in BOOLEAN
      BY DEF Rungs!There
    <3> QED BY <2>2, <3>1, <3>2, <3>3 DEF Rungs!Packaged, Rungs!Packages
  <2>4. /\ \A g \in DOMAIN volume : g # "final" /\ g \in DOMAIN volume' /\ volume'[g] = volume[g]
        /\ \A g \in DOMAIN volume' : g = "final" \/ g \in DOMAIN volume
        /\ volume'["final"] = c /\ "final" \in DOMAIN volume'
    BY <1>3, <2>1, <2>2 DEF Written
  <2>5. LadderTypes' /\ RawIs'
    BY <1>0, <2>1, <2>4 DEF LInv, LadderTypes, RawIs
  <2>6. FinalIs'
    BY <1>0, <2>1, <2>3, <2>4 DEF LInv, FinalIs
  <2>7. ReceiptsAre'
    BY <1>0, <1>3, <2>1, <2>4 DEF LInv, ReceiptsAre, PackagingTells, SummaryTells,
       CampaignTells
  <2>8. FlatIs'
    BY <1>0, <2>1, <2>4 DEF LInv, FlatIs
  <2> QED BY <2>5, <2>6, <2>7, <2>8 DEF LInv
<1> QED BY <1>1, <1>2, <1>3

LEMMA WritePackagingHolds ==
    ASSUME LInv, Rungs!WritePackaging
    PROVE  LInv'
<1> USE FilesAre DEF On
<1>0. /\ ladderJob.pc = "packaging" /\ UNCHANGED <<results, denied>> /\ On("final")
      /\ ladderJob.raw = volume["final"].raw
  BY DEF Rungs!WritePackaging, Rungs!At, LInv, FinalIs
<1>1. /\ ladderJob' \in LadderJobs /\ ladderJob'.pc = "measure" /\ ladderJob'.raw = ladderJob.raw
      /\ Written("packaging", [source |-> ladderJob.raw, files |-> volume["final"]])
  BY ToIs, PutIs DEF Rungs!WritePackaging, LInv
<1>2. PICK c : c = [source |-> ladderJob.raw, files |-> volume["final"]]
  BY Zenon
<1>3. /\ \A g \in DOMAIN volume : g # "packaging" => g \in DOMAIN volume' /\ volume'[g] = volume[g]
      /\ \A g \in DOMAIN volume' : g = "packaging" \/ g \in DOMAIN volume
      /\ volume'["packaging"] = c /\ c.source = volume["final"].raw /\ c.files = volume["final"]
  BY <1>0, <1>1, <1>2 DEF Written
<1>4. LadderTypes' /\ RawIs'
  BY <1>0, <1>1, <1>3 DEF LInv, LadderTypes, RawIs
<1>5. FinalIs'
  BY <1>0, <1>1, <1>3 DEF LInv, FinalIs
<1>6. ReceiptsAre'
  <2>1. PackagingTells'
    BY <1>0, <1>1, <1>3 DEF LInv, ReceiptsAre, PackagingTells
  <2>2. SummaryTells'
    BY <1>0, <1>1, <1>3 DEF LInv, ReceiptsAre, SummaryTells
  <2>3. CampaignTells'
    <3>1. PICK r : r = [raw |-> volume["raw/shard"]]
      BY Zenon
    <3>2. On("campaign") /\ volume["campaign"] = r /\ "text" \notin DOMAIN r
      BY <1>0, <3>1 DEF LInv, ReceiptsAre, CampaignTells
    <3>3. On("raw/shard")
      BY <1>0 DEF LInv, FinalIs
    <3>4. /\ "campaign" \in DOMAIN volume' /\ volume'["campaign"] = r
          /\ volume'["raw/shard"] = volume["raw/shard"]
      BY <1>3, <3>2, <3>3
    <3> QED BY <3>1, <3>2, <3>4 DEF CampaignTells
  <2> QED BY <2>1, <2>2, <2>3 DEF ReceiptsAre
<1>7. FlatIs'
  BY <1>0, <1>1, <1>3 DEF LInv, FlatIs
<1> QED BY <1>4, <1>5, <1>6, <1>7 DEF LInv

LEMMA MeasureHolds ==
    ASSUME LInv, Rungs!Measure
    PROVE  LInv'
<1> USE FilesAre DEF On
<1>0. /\ ladderJob.pc = "measure" /\ UNCHANGED <<results, denied>> /\ On("final")
      /\ volume["campaign"].raw = volume["final"].raw
  <2>1. ladderJob.pc = "measure" /\ UNCHANGED <<results, denied>>
    BY DEF Rungs!Measure, Rungs!At
  <2>2. On("final") /\ volume["final"].raw = volume["raw/shard"]
    BY <2>1 DEF LInv, FinalIs
  <2>3. volume["campaign"] = [raw |-> volume["raw/shard"]]
    BY <2>1 DEF LInv, ReceiptsAre, PackagingTells, SummaryTells, CampaignTells
  <2>4. volume["campaign"].raw = volume["raw/shard"]
    BY <2>3
  <2> QED BY <2>1, <2>2, <2>4
<1>1. /\ ladderJob' \in LadderJobs /\ ladderJob'.pc = "summary" /\ ladderJob'.raw = ladderJob.raw
      /\ Written("campaign", [raw |-> volume["campaign"].raw, text |-> volume["final"]])
  BY ToIs, PutIs DEF Rungs!Measure, LInv
<1>2. PICK c : c = [raw |-> volume["campaign"].raw, text |-> volume["final"]]
  BY Zenon
<1>3. /\ \A g \in DOMAIN volume : g # "campaign" => g \in DOMAIN volume' /\ volume'[g] = volume[g]
      /\ \A g \in DOMAIN volume' : g = "campaign" \/ g \in DOMAIN volume
      /\ volume'["campaign"] = c /\ c.raw = volume["final"].raw /\ c.text = volume["final"]
  BY <1>0, <1>1, <1>2 DEF Written
<1>4. LadderTypes' /\ RawIs'
  BY <1>0, <1>1, <1>3 DEF LInv, LadderTypes, RawIs
<1>5. FinalIs'
  BY <1>0, <1>1, <1>3 DEF LInv, FinalIs
<1>6. ReceiptsAre'
  <2>1. PackagingTells'
    BY <1>0, <1>1, <1>3 DEF LInv, ReceiptsAre, PackagingTells
  <2>2. SummaryTells'
    BY <1>0, <1>1, <1>3 DEF LInv, ReceiptsAre, SummaryTells
  <2>3. CampaignTells'
    BY <1>0, <1>1, <1>3 DEF LInv, ReceiptsAre, CampaignTells
  <2> QED BY <2>1, <2>2, <2>3 DEF ReceiptsAre
<1>7. FlatIs'
  BY <1>0, <1>1, <1>3 DEF LInv, FlatIs
<1> QED BY <1>4, <1>5, <1>6, <1>7 DEF LInv

LEMMA WriteSummaryHolds ==
    ASSUME LInv, Rungs!WriteSummary
    PROVE  LInv'
<1> USE FilesAre DEF On
<1>0. /\ ladderJob.pc = "summary" /\ UNCHANGED <<results, denied>> /\ On("final")
      /\ ladderJob.raw = volume["final"].raw
  BY DEF Rungs!WriteSummary, Rungs!At, LInv, FinalIs
<1>1. /\ ladderJob' \in LadderJobs /\ ladderJob'.pc = "idle"
      /\ Written("summary", [raw |-> ladderJob.raw, text |-> volume["final"]])
  BY DoneIs, PutIs DEF Rungs!WriteSummary
<1>2. PICK c : c = [raw |-> ladderJob.raw, text |-> volume["final"]]
  BY Zenon
<1>3. /\ \A g \in DOMAIN volume : g # "summary" => g \in DOMAIN volume' /\ volume'[g] = volume[g]
      /\ \A g \in DOMAIN volume' : g = "summary" \/ g \in DOMAIN volume
      /\ volume'["summary"] = c /\ c.raw = volume["final"].raw /\ c.text = volume["final"]
  BY <1>0, <1>1, <1>2 DEF Written
<1>4. LadderTypes' /\ RawIs'
  BY <1>0, <1>1, <1>3 DEF LInv, LadderTypes, RawIs
<1>5. FinalIs'
  BY <1>0, <1>1, <1>3 DEF LInv, FinalIs
<1>6. ReceiptsAre'
  <2>1. PackagingTells'
    BY <1>0, <1>1, <1>3 DEF LInv, ReceiptsAre, PackagingTells
  <2>2. SummaryTells'
    BY <1>0, <1>1, <1>3 DEF LInv, ReceiptsAre, SummaryTells
  <2>3. CampaignTells'
    BY <1>0, <1>1, <1>3 DEF LInv, ReceiptsAre, CampaignTells
  <2> QED BY <2>1, <2>2, <2>3 DEF ReceiptsAre
<1>7. FlatIs'
  BY <1>0, <1>1, <1>3 DEF LInv, FlatIs
<1> QED BY <1>4, <1>5, <1>6, <1>7 DEF LInv

LEMMA FlattenHolds ==
    ASSUME LInv, Rungs!Flatten
    PROVE  LInv'
<1> USE FilesAre DEF On
<1>0. UNCHANGED <<volume, results>> /\ ladderJob.pc = "look"
  BY DEF Rungs!Flatten, Rungs!At
<1>1. CASE Rungs!AlreadyFlat
  <2>1. ladderJob' \in LadderJobs /\ ladderJob'.pc = "present" /\ UNCHANGED denied /\ On("flattening")
    BY <1>1, ToIs DEF Rungs!Flatten, Rungs!AlreadyFlat, Rungs!There, LInv
  <2> QED BY <1>0, <2>1 DEF LInv, LadderTypes, RawIs, FinalIs, ReceiptsAre, PackagingTells,
     SummaryTells, CampaignTells, FlatIs
<1>2. CASE ~Rungs!AlreadyFlat
  <2>1. denied' = IF Rungs!Some(Rungs!Flat) THEN denied \cup {"bf16"} ELSE denied
    BY <1>2 DEF Rungs!Flatten
  <2>2. /\ "raw" \in denied' <=> "raw" \in denied
        /\ ~Rungs!Some(Rungs!Flat) => denied' = denied
    BY <2>1
  <2>3. Rungs!Some(Rungs!Flat) => \E f \in Rungs!Flat : On(f)
    BY DEF Rungs!Some
  <2>4. ~Rungs!Some(Rungs!Flat) => \A f \in Rungs!Flat : ~On(f)
    BY DEF Rungs!Some
  <2>5. "bf16" \in denied' => ~On("flattening") /\ \E f \in Rungs!Flat : On(f)
    <3>1. CASE "bf16" \in denied
      BY <3>1 DEF LInv, FlatIs
    <3>2. CASE "bf16" \notin denied
      <4> SUFFICES ASSUME "bf16" \in denied' PROVE ~On("flattening") /\ \E f \in Rungs!Flat : On(f)
        OBVIOUS
      <4>1. \E f \in Rungs!Flat : On(f)
        BY <2>1, <2>3, <3>2
      <4>2. ~On("flattening")
        BY <1>2 DEF LInv, FlatIs, Rungs!AlreadyFlat, Rungs!There
      <4> QED BY <4>1, <4>2
    <3> QED BY <3>1, <3>2
  <2>6. CASE ladderJob' \in LadderJobs /\ ladderJob'.pc = "idle"
    BY <1>0, <2>2, <2>5, <2>6 DEF LInv, LadderTypes, RawIs, FinalIs, ReceiptsAre,
       PackagingTells, SummaryTells, CampaignTells, FlatIs
  <2>7. CASE /\ ladderJob' \in LadderJobs /\ ladderJob'.pc = "writing"
             /\ ~Rungs!Some(Rungs!Flat) /\ On("source/weights")
    <3>1. "bf16" \notin denied'
      BY <2>4, <2>5, <2>7
    <3> QED BY <1>0, <2>2, <2>4, <2>5, <2>7, <3>1 DEF LInv, LadderTypes, RawIs, FinalIs,
       ReceiptsAre, PackagingTells, SummaryTells, CampaignTells,
            FlatIs
  <2>8. Rungs!To("writing") => ladderJob' \in LadderJobs /\ ladderJob'.pc = "writing"
    BY ToIs DEF LInv
  <2> QED BY <1>2, <2>6, <2>7, <2>8, DoneIs DEF Rungs!Flatten, Rungs!There
<1> QED BY <1>1, <1>2

\* The file that is written next is one of them, and is not there.
LEMMA NextIs ==
    ASSUME ~ (Rungs!Flat \subseteq DOMAIN volume)
    PROVE  /\ Rungs!NextFlat \in 1..4
           /\ Rungs!FlatFiles[Rungs!NextFlat] \in Rungs!Flat \ DOMAIN volume
<1> DEFINE f(i) == Rungs!FlatFiles[i]
<1>1. 1..4 = {1, 2, 3, 4}
  OBVIOUS
<1>2. \E i \in 1..4 : ~Rungs!There(f(i))
  BY DEF Rungs!Flat, Rungs!There
<1>3. \E i \in 1..4 : ~Rungs!There(f(i)) /\ \A j \in 1..(i - 1) : Rungs!There(f(j))
  <2> HIDE DEF f
  <2>1. CASE ~Rungs!There(f(1))
    BY <2>1
  <2>2. CASE Rungs!There(f(1)) /\ ~Rungs!There(f(2))
    BY <2>2
  <2>3. CASE Rungs!There(f(1)) /\ Rungs!There(f(2)) /\ ~Rungs!There(f(3))
    <3>1. 1..(3 - 1) = {1, 2}
      OBVIOUS
    <3>2. 3 \in 1..4
      OBVIOUS
    <3> QED BY <2>3, <3>1, <3>2
  <2>4. CASE /\ Rungs!There(f(1)) /\ Rungs!There(f(2)) /\ Rungs!There(f(3))
             /\ ~Rungs!There(f(4))
    <3>1. 1..(4 - 1) = {1, 2, 3}
      OBVIOUS
    <3>2. 4 \in 1..4
      OBVIOUS
    <3> QED BY <2>4, <3>1, <3>2
  <2> QED BY <1>1, <1>2, <2>1, <2>2, <2>3, <2>4
<1>4. Rungs!NextFlat \in 1..4 /\ ~Rungs!There(Rungs!FlatFiles[Rungs!NextFlat])
  BY <1>3 DEF Rungs!NextFlat
<1> QED BY <1>4 DEF Rungs!Flat, Rungs!There

LEMMA WriteFlatHolds ==
    ASSUME LInv, Rungs!WriteFlat
    PROVE  LInv'
<1> USE FilesAre DEF On
<1>0. /\ ladderJob.pc = "writing" /\ UNCHANGED <<results, denied>>
      /\ ~ (Rungs!Flat \subseteq DOMAIN volume)
  BY DEF Rungs!WriteFlat, Rungs!At
<1>1. PICK f : f = Rungs!FlatFiles[Rungs!NextFlat] /\ f \in Rungs!Flat /\ ~On(f)
  BY <1>0, NextIs
<1>2. CASE ladderJob' \in LadderJobs /\ ladderJob'.pc = "idle" /\ UNCHANGED volume
  BY <1>0, <1>2, JobMoves
<1>3. ASSUME NEW c, Written(f, c), UNCHANGED ladderJob, c # Partial PROVE LInv'
  <2>1. /\ \A g \in DOMAIN volume : g # f /\ g \in DOMAIN volume' /\ volume'[g] = volume[g]
        /\ \A g \in DOMAIN volume' : g = f \/ g \in DOMAIN volume
        /\ volume'[f] = c /\ f \in DOMAIN volume'
    BY <1>1, <1>3 DEF Written
  <2>2. LadderTypes' /\ RawIs'
    BY <1>0, <1>1, <1>3, <2>1 DEF LInv, LadderTypes, RawIs
  <2>3. FinalIs'
    BY <1>0, <1>1, <1>3, <2>1 DEF LInv, FinalIs
  <2>4. ReceiptsAre'
    BY <1>0, <1>1, <1>3, <2>1 DEF LInv, ReceiptsAre, PackagingTells, SummaryTells,
       CampaignTells
  <2>5. FlatIs'
    BY <1>0, <1>1, <1>3, <2>1 DEF LInv, FlatIs
  <2> QED BY <2>2, <2>3, <2>4, <2>5 DEF LInv
<1>4. On("source/tokenizer") => volume["source/tokenizer"] # Partial
  BY TornIsNothingElse DEF LInv, LadderTypes
<1>5. volume["source/weights"] # Partial
  BY <1>0, TornIsNothingElse DEF LInv, LadderTypes, FlatIs
<1>6. CASE f = "bf16/tokenizer"
  BY <1>1, <1>2, <1>3, <1>4, <1>6, DoneIs, PutIs DEF Rungs!WriteFlat, Rungs!There
<1>7. CASE f # "bf16/tokenizer"
  <2>1. Rungs!Put(f, volume["source/weights"]) /\ UNCHANGED ladderJob
    BY <1>1, <1>7 DEF Rungs!WriteFlat
  <2> QED BY <1>3, <1>5, <2>1, PutIs
<1> QED BY <1>6, <1>7

LEMMA WriteFlatteningHolds ==
    ASSUME LInv, Rungs!WriteFlattening
    PROVE  LInv'
<1> USE FilesAre DEF On
<1>0. /\ ladderJob.pc = "writing" /\ UNCHANGED <<results, denied>>
      /\ \A f \in Rungs!Flat : On(f) /\ volume[f] # Partial
  BY DEF Rungs!WriteFlattening, Rungs!At, LInv, FlatIs
<1>1. PICK c : Written("flattening", c)
  BY PutIs DEF Rungs!WriteFlattening
<1>2. ladderJob' \in LadderJobs /\ ladderJob'.pc = "present"
  BY ToIs DEF Rungs!WriteFlattening, LInv
<1>3. /\ \A g \in DOMAIN volume : g # "flattening" => g \in DOMAIN volume' /\ volume'[g] = volume[g]
      /\ \A g \in DOMAIN volume' : g = "flattening" \/ g \in DOMAIN volume
  BY <1>1 DEF Written
<1>4. LadderTypes' /\ RawIs'
  BY <1>0, <1>2, <1>3 DEF LInv, LadderTypes, RawIs
<1>5. FinalIs'
  BY <1>0, <1>2, <1>3 DEF LInv, FinalIs
<1>6. ReceiptsAre'
  BY <1>0, <1>2, <1>3 DEF LInv, ReceiptsAre, PackagingTells, SummaryTells, CampaignTells
<1>7. FlatIs'
  BY <1>0, <1>2, <1>3 DEF LInv, FlatIs
<1> QED BY <1>4, <1>5, <1>6, <1>7 DEF LInv

LEMMA PresentHolds ==
    ASSUME LInv, Rungs!Present
    PROVE  LInv'
BY DoneIs, JobMoves DEF Rungs!Present

\* What a process that dies was writing was not there, or can be told to be torn.
LEMMA InPlaceIs ==
    ASSUME NEW f \in Rungs!InPlace
    PROVE  \/ f \in {"verification", "quantization", "packaging", "summary"}
           \/ ladderJob.pc = "saving" /\ f \in Rungs!RawFiles \ DOMAIN volume
           \/ /\ ladderJob.pc = "writing"
              /\ f \in (Rungs!Flat \ DOMAIN volume) \cup {"flattening"}
              /\ f = "flattening" => Rungs!Flat \subseteq DOMAIN volume
<1>1. CASE Rungs!At("quantize", "saving")
  <2>1. Rungs!InPlace = IF Rungs!RawFiles \subseteq DOMAIN volume THEN {"quantization"}
                        ELSE Rungs!RawFiles \ DOMAIN volume
    BY <1>1 DEF Rungs!InPlace, Rungs!At
  <2> QED BY <1>1, <2>1 DEF Rungs!At
<1>2. CASE Rungs!At("flatten", "writing")
  <2>1. Rungs!InPlace = IF Rungs!Flat \subseteq DOMAIN volume THEN {"flattening"}
                        ELSE {Rungs!FlatFiles[Rungs!NextFlat]}
    BY <1>2 DEF Rungs!InPlace, Rungs!At
  <2>2. CASE Rungs!Flat \subseteq DOMAIN volume
    BY <1>2, <2>1, <2>2 DEF Rungs!At
  <2>3. CASE ~ (Rungs!Flat \subseteq DOMAIN volume)
    <3>1. Rungs!FlatFiles[Rungs!NextFlat] \in Rungs!Flat \ DOMAIN volume
      BY <2>3, NextIs
    <3>2. f # "flattening"
      BY <2>1, <2>3, <3>1, FilesAre
    <3> QED BY <1>2, <2>1, <2>3, <3>1, <3>2 DEF Rungs!At
  <2> QED BY <2>2, <2>3
<1>3. CASE ~Rungs!At("quantize", "saving") /\ ~Rungs!At("flatten", "writing")
  BY <1>3 DEF Rungs!InPlace, Rungs!At
<1> QED BY <1>1, <1>2, <1>3

LEMMA LadderDies ==
    ASSUME LInv, Rungs!Die
    PROVE  LInv'
<1> USE FilesAre DEF On
<1>0. ladderJob' \in LadderJobs /\ ladderJob'.pc = "idle" /\ UNCHANGED <<results, denied>>
  BY DoneIs DEF Rungs!Die
<1>1. CASE UNCHANGED volume
  BY <1>0, <1>1, JobMoves
<1>2. ASSUME NEW f \in Rungs!InPlace, Written(f, Partial) PROVE LInv'
  <2>1. /\ \A g \in DOMAIN volume : g # f => g \in DOMAIN volume' /\ volume'[g] = volume[g]
        /\ \A g \in DOMAIN volume' : g = f \/ g \in DOMAIN volume
        /\ volume'[f] = Partial /\ f \in DOMAIN volume'
    BY <1>2 DEF Written
  <2>2. Partial \in Raws
    BY DEF Raws
  <2>3. CASE f \in {"verification", "quantization", "packaging", "summary"}
    <3>1. LadderTypes' /\ RawIs'
      BY <1>0, <2>1, <2>3 DEF LInv, LadderTypes, RawIs
    <3>2. FinalIs' /\ FlatIs'
      BY <1>0, <2>1, <2>3 DEF LInv, FinalIs, FlatIs
    <3>3. ReceiptsAre'
      BY <1>0, <2>1, <2>3 DEF LInv, ReceiptsAre, PackagingTells, SummaryTells, CampaignTells
    <3> QED BY <3>1, <3>2, <3>3 DEF LInv
  <2>4. CASE ladderJob.pc = "saving" /\ f \in Rungs!RawFiles \ DOMAIN volume
    <3>1. LadderTypes' /\ RawIs'
      BY <1>0, <2>1, <2>2, <2>4 DEF LInv, LadderTypes, RawIs
    <3>2. FinalIs' /\ FlatIs'
      BY <1>0, <2>1, <2>4 DEF LInv, FinalIs, FlatIs, RawIs
    <3>3. ReceiptsAre'
      BY <1>0, <2>1, <2>4 DEF LInv, ReceiptsAre, PackagingTells, SummaryTells, CampaignTells
    <3> QED BY <3>1, <3>2, <3>3 DEF LInv
  <2>5. CASE ladderJob.pc = "writing" /\ f \in Rungs!Flat \ DOMAIN volume
    <3>1. LadderTypes' /\ RawIs'
      BY <1>0, <2>1, <2>5 DEF LInv, LadderTypes, RawIs
    <3>2. FinalIs' /\ FlatIs'
      BY <1>0, <2>1, <2>5 DEF LInv, FinalIs, FlatIs
    <3>3. ReceiptsAre'
      BY <1>0, <2>1, <2>5 DEF LInv, ReceiptsAre, PackagingTells, SummaryTells, CampaignTells
    <3> QED BY <3>1, <3>2, <3>3 DEF LInv
  <2>6. CASE ladderJob.pc = "writing" /\ f = "flattening" /\ Rungs!Flat \subseteq DOMAIN volume
    <3>1. LadderTypes' /\ RawIs'
      BY <1>0, <2>1, <2>6 DEF LInv, LadderTypes, RawIs
    <3>2. FinalIs' /\ FlatIs'
      BY <1>0, <2>1, <2>6 DEF LInv, FinalIs, FlatIs
    <3>3. ReceiptsAre'
      BY <1>0, <2>1, <2>6 DEF LInv, ReceiptsAre, PackagingTells, SummaryTells, CampaignTells
    <3> QED BY <3>1, <3>2, <3>3 DEF LInv
  <2> QED BY <2>3, <2>4, <2>5, <2>6, InPlaceIs
<1> QED BY <1>1, <1>2, PutIs DEF Rungs!Die

LEMMA DiscardHolds ==
    ASSUME LInv, NEW d \in {"raw", "bf16"}, Rungs!Discard(d)
    PROVE  LInv'
<1> USE FilesAre DEF On
<1>0. /\ ladderJob.pc = "idle" /\ d \in denied /\ denied' = denied \ {d}
      /\ UNCHANGED <<ladderJob, results>>
  BY DEF Rungs!Discard, Rungs!Idle
<1>1. PICK F : F = (IF d = "raw" THEN Rungs!RawFiles ELSE Rungs!Flat)
  OBVIOUS
<1>2. /\ DOMAIN volume' = DOMAIN volume \ F
      /\ \A g \in DOMAIN volume' : g \in DOMAIN volume /\ volume'[g] = volume[g]
  BY <1>1 DEF Rungs!Discard, Rungs!Without
<1>3. CASE d = "raw"
  <2>1. F = Rungs!RawFiles /\ ~On("raw/shard") /\ "raw" \notin denied' /\ ~On("final")
        /\ ("bf16" \in denied' <=> "bf16" \in denied)
    BY <1>0, <1>1, <1>3 DEF LInv, FinalIs
  <2>2. LadderTypes' /\ RawIs'
    BY <1>0, <1>2, <2>1 DEF LInv, LadderTypes, RawIs
  <2>3. FinalIs' /\ FlatIs'
    BY <1>0, <1>2, <2>1 DEF LInv, FinalIs, FlatIs
  <2>4. ReceiptsAre'
    BY <1>0, <1>2, <2>1 DEF LInv, ReceiptsAre, PackagingTells, SummaryTells, CampaignTells
  <2> QED BY <2>2, <2>3, <2>4 DEF LInv
<1>4. CASE d = "bf16"
  <2>1. F = Rungs!Flat /\ ~On("flattening") /\ "bf16" \notin denied'
        /\ ("raw" \in denied' <=> "raw" \in denied)
    BY <1>0, <1>1, <1>4 DEF LInv, FlatIs
  <2>2. LadderTypes' /\ RawIs'
    BY <1>0, <1>2, <2>1 DEF LInv, LadderTypes, RawIs
  <2>3. FinalIs' /\ FlatIs'
    BY <1>0, <1>2, <2>1 DEF LInv, FinalIs, FlatIs
  <2>4. ReceiptsAre'
    BY <1>0, <1>2, <2>1 DEF LInv, ReceiptsAre, PackagingTells, SummaryTells, CampaignTells
  <2> QED BY <2>2, <2>3, <2>4 DEF LInv
<1> QED BY <1>3, <1>4

LEMMA LadderStep == LInv /\ [Rungs!Next]_ladderVars => LInv'
<1> SUFFICES ASSUME LInv, [Rungs!Next]_ladderVars PROVE LInv'
  OBVIOUS
<1>1. CASE UNCHANGED ladderVars
  BY <1>1 DEF ladderVars, LInv, LadderTypes, RawIs, FinalIs, ReceiptsAre, PackagingTells,
     SummaryTells, CampaignTells, FlatIs, On
<1>2. CASE Rungs!Next
  <2>1. CASE \/ Rungs!Begin("stage", "downloading") \/ Rungs!Begin("verify", "cache")
             \/ Rungs!Begin("quantize", "check") \/ Rungs!Begin("flatten", "look")
    BY <2>1, BeginHolds
  <2>2. CASE ~ (\/ Rungs!Begin("stage", "downloading") \/ Rungs!Begin("verify", "cache")
                \/ Rungs!Begin("quantize", "check") \/ Rungs!Begin("flatten", "look"))
    BY <1>2, <2>2, StageFileHolds, StagedHolds, RemoveCacheHolds, WriteVerificationHolds,
       CheckSourceHolds, LookForRawHolds, SaveRawHolds, WriteQuantizationHolds, PinRawHolds,
       ConvertHolds, WritePackagingHolds, MeasureHolds, WriteSummaryHolds, FlattenHolds,
       WriteFlatHolds, WriteFlatteningHolds, PresentHolds, LadderDies, DiscardHolds DEF Rungs!Next
  <2> QED BY <2>1, <2>2
<1> QED BY <1>1, <1>2

LEMMA LadderIsSound == LInv => Rungs!LadderInvariant
<1> SUFFICES ASSUME LInv PROVE Rungs!LadderInvariant
  OBVIOUS
<1>1. Rungs!PackagedIsOneResult
  <2> SUFFICES ASSUME On("final")
               PROVE  /\ volume["final"] # Partial
                      /\ volume["final"].raw = volume["final"].config
                      /\ volume["final"].raw.of = "pinned" /\ volume["final"].tokenizer = "pinned"
    BY DEF On, Rungs!PackagedIsOneResult, Rungs!There
  <2>1. volume["final"] \in Rungs!Packages /\ volume["final"].raw = volume["final"].config
    BY DEF LInv, FinalIs
  <2>2. volume["final"] # Partial
    BY <2>1, TornIsNothingElse
  <2>3. volume["final"].raw \in Rungs!Results /\ volume["final"].tokenizer = "pinned"
    BY <2>1 DEF Rungs!Packages
  <2>4. volume["final"].raw.of = "pinned"
    BY <2>3 DEF Rungs!Results
  <2> QED BY <2>1, <2>2, <2>3, <2>4
<1>2. Rungs!ReceiptsTellTheSource
  BY DEF LInv, ReceiptsAre, PackagingTells, SummaryTells, CampaignTells, On,
     Rungs!ReceiptsTellTheSource, Rungs!There, Rungs!Whole
<1>3. Rungs!PresentIsWhole
  BY DEF LInv, FlatIs, On, Rungs!PresentIsWhole, Rungs!There, Rungs!Whole
<1> QED BY <1>1, <1>2, <1>3 DEF Rungs!LadderInvariant

(* --------------------- campaigns and the ladder together ------------------ *)

\* A campaign, for every number of layers and shards and every sequence of commands,
\* interrupts (of a pack between two shards, too) and deaths: overlays are all or
\* nothing, a fetch beside which Stage A does not run is whole, and the receipt tells
\* what model lies there, of one that pack has been through also that its shards agree.  The ladder, for
\* every number of quantizations and every order and death of its jobs: what is packaged
\* is one result of the quantizer of the verified source, and the receipts tell which.
THEOREM CampaignIsSoundAlways == OfflineSpec => CampaignIsSound
<1>1. OfflineInit => CampInv /\ LInv
  BY Zenon, CampaignBegins, LadderBegins DEF OfflineInit
<1>2. [OfflineNext]_<<scene, vars, stageBVars, draftVars, treeVars, replayVars, trainerVars,
                      campaignVars, ladderVars>> => [Calibrate!Next]_campaignVars
  BY Zenon DEF OfflineNext
<1>3. [OfflineNext]_<<scene, vars, stageBVars, draftVars, treeVars, replayVars, trainerVars,
                      campaignVars, ladderVars>> => [Rungs!Next]_ladderVars
  BY Zenon DEF OfflineNext
<1>4. CampInv => (scene = "campaign" => Calibrate!OverlayIsAllOrNothing)
  BY CampaignKeepsOverlay
<1>5. LInv => (scene = "ladder" => Rungs!LadderInvariant)
  BY LadderIsSound
<1>6. CampInv /\ [Calibrate!Next]_campaignVars
        => [scene = "campaign" => Calibrate!CampaignStepIsSound]_campaignVars
  BY QuietFetchHolds, ReceiptHolds DEF Calibrate!CampaignStepIsSound
<1> QED BY <1>1, <1>2, <1>3, <1>4, <1>5, <1>6, CampaignStep, LadderStep, PTL
        DEF OfflineSpec, CampaignIsSound

(* -------------------------------- Stage B -------------------------------- *)
(* The invariant follows a run along: what stream_pack has emitted is in its  *)
(* buffer or in a whole shard below its counter (StreamIs); every shard that  *)
(* inject has left behind it is treated, the one in hand and the file beside  *)
(* it excepted (InjectIs); and what the conversion made keeps its place, its  *)
(* modules and their formats, whatever inject puts beside it (ConvertIs).  The *)
(* last two survive a death, the first does not need to.                      *)

ShardNames == (Nat \ {0}) \X Nat
CellFormats == [mode : {"affine", "mxfp", "no biases", "none"}, bits : Nat]
Cells == [src : {"calib", "rtn", "kept"}, format : CellFormats]
Bufs == UNION {[D -> Cells] : D \in SUBSET StageB!Modules}
Placements == UNION {[D -> Nat] : D \in SUBSET StageB!Modules}
AllPieces == UNION {StageB!Pieces(m) : m \in StageB!Modules}

StreamRuns ==
    [prog : {"stream"}, at : {"units", "flush", "saving", "check", "index", "config"},
     format : PackFormats, limit : Int, unit : Nat \ {0}, buf : Bufs, placed : Placements,
     shards : Nat, used : SUBSET AllPieces]

InjectRuns ==
    [prog : {"inject"}, at : {"shard", "saving", "replace"}, todo : SUBSET ShardNames,
     shard : Nat \X Nat, used : SUBSET AllPieces]

\* Codes of artifacts are of modules that have them, and what is kept is excluded.
CellsAre(c) ==
    \A m \in DOMAIN c : /\ c[m].src = "calib" => StageB!Has(m)
                        /\ c[m] = StageB!Kept => m \in PackExcluded

\* A shard that has been through inject.
Treated(f) ==
    /\ f.whole
    /\ \A m \in DOMAIN f.cells :
          StageB!Has(m) /\ f.cells[m] # StageB!Kept =>
              f.cells[m].src = "calib" /\ StageB!Fits(m, StageB!FormatIn(cfg, m))

DirIs ==
    /\ \A q \in DOMAIN art : art[q] \in PackFormats
    /\ \A n \in DOMAIN dir : /\ n \in ShardNames /\ dir[n].whole \in BOOLEAN
                             /\ dir[n].cells \in Bufs /\ CellsAre(dir[n].cells)

\* What the conversion made: a shard per unit, which no step of inject takes away.
ConvertedIs(n) ==
    /\ n[1] \in 1..Len(PackUnits)
    /\ dir[n].whole =>
          /\ DOMAIN dir[n].cells = PackUnits[n[1]]
          /\ \A m \in PackUnits[n[1]] :
                /\ m \in PackExcluded => dir[n].cells[m] = StageB!Kept
                /\ dir[n].cells[m] # StageB!Kept => dir[n].cells[m].format = StageB!FormatIn(cfg, m)

ConvertIs ==
    origin = "convert" =>
        /\ cfg.state = "there" /\ run.prog # "stream"
        /\ \A m \in StageB!Modules : idx.shard[m] \in 1..Len(PackUnits)
                                      /\ m \in PackUnits[idx.shard[m]]
        /\ \A i \in 1..Len(PackUnits) : <<i, 0>> \in DOMAIN dir /\ dir[<<i, 0>>].whole
        /\ \A n \in DOMAIN dir : ConvertedIs(n)

\* Module m is in shard i, as stream_pack emits it in format w.
StoredIn(i, m, w) ==
    /\ <<i, 0>> \in DOMAIN dir /\ dir[<<i, 0>>].whole /\ m \in DOMAIN dir[<<i, 0>>].cells
    /\ dir[<<i, 0>>].cells[m] = StageB!Emit(m, w)

EmittedWell(m, w) == StageB!Injects(m) => StageB!SizesFit(m, w)

\* Modules in the buffer or in a shard are of units that are through.
Through(m) == \E i \in 1..Len(PackUnits) : i < run.unit /\ m \in PackUnits[i]

\* In the shard of a module are only modules that were placed there.
ShardIsOwn(i, placed) ==
    \A k \in DOMAIN dir[<<i, 0>>].cells : k \in DOMAIN placed /\ placed[k] = i

\* What stream_pack knows of its own run, whichever step it takes next.
StreamKnows ==
    /\ \A i \in 1..Len(PackUnits) : i < run.unit =>
          \A m \in PackUnits[i] : m \in DOMAIN run.buf \/ m \in DOMAIN run.placed
    /\ \A m \in DOMAIN run.buf : /\ run.buf[m] = StageB!Emit(m, run.format)
                                 /\ EmittedWell(m, run.format) /\ Through(m)
    /\ \A m \in DOMAIN run.placed :
          /\ run.placed[m] \in 1..run.shards /\ StoredIn(run.placed[m], m, run.format)
          /\ ShardIsOwn(run.placed[m], run.placed)
          /\ EmittedWell(m, run.format) /\ Through(m) /\ m \notin DOMAIN run.buf
    /\ \A q \in run.used : \E m \in StageB!Modules : StageB!Injects(m) /\ q \in StageB!Pieces(m)

StreamIs ==
    run.prog = "stream" =>
        /\ run \in StreamRuns /\ ready = "no" /\ origin = "stream" /\ StreamKnows
        /\ run.at \in {"check", "index", "config"} =>
              run.unit > Len(PackUnits) /\ DOMAIN run.buf = {}
        /\ run.at \in {"index", "config"} => DOMAIN art \subseteq run.used
        /\ run.at = "config" => idx.state = "there" /\ idx.shard = run.placed

InjectIs ==
    run.prog = "inject" =>
        /\ run \in InjectRuns /\ ready = "no" /\ cfg.state = "there"
        /\ run.todo \subseteq DOMAIN dir
        /\ \A q \in run.used : \E m \in StageB!Modules :
              q \in StageB!Pieces(m) /\ (origin = "convert" => m \notin PackExcluded)
        /\ run.at = "shard" => \A n \in DOMAIN dir \ run.todo : Treated(dir[n])
        /\ run.at \in {"saving", "replace"} =>
              /\ run.shard \in DOMAIN dir \ run.todo
              /\ StageB!Tmp(run.shard) \in DOMAIN dir \ run.todo
              /\ dir[run.shard].whole /\ ~StageB!Rejected(dir[run.shard].cells)
              /\ \A n \in DOMAIN dir \ (run.todo \cup {run.shard, StageB!Tmp(run.shard)}) :
                    Treated(dir[n])
        /\ run.at = "replace" => Treated(dir[StageB!Tmp(run.shard)])

\* Where the index names a shard for m it is there, and right if the artifacts are
\* of the mode of the run; nothing is in it that the index places elsewhere.
ReadFrom(n, m) ==
    /\ n \in DOMAIN dir /\ dir[n].whole /\ m \in DOMAIN dir[n].cells
    /\ \A k \in DOMAIN dir[n].cells : idx.shard[k] = n[1]
    /\ StageB!Has(m) => dir[n].cells[m].src = "calib"
    /\ StageB!OfOneMode => StageB!Right(dir[n].cells[m], m, cfg)

ReadyIs ==
    /\ ready \in {"no", "stream", "inject"}
    /\ ready # "no" => /\ run.prog \notin {"stream", "inject"} /\ cfg.state = "there"
                       /\ StageB!Stray \notin DOMAIN art
    /\ ready = "stream" =>
          idx.state = "there" /\ \A m \in StageB!Modules : ReadFrom(<<idx.shard[m], 0>>, m)
    /\ ready = "inject" =>
          /\ \A n \in DOMAIN dir : Treated(dir[n])
          /\ origin = "convert" => \A m \in PackExcluded : ~StageB!Has(m)

MixIs ==
    /\ run.prog = "mix" /\ run.of =>
          \A m \in DOMAIN run.cells : StageB!Right(run.cells[m], m, run.over)
    /\ mixed.state \in {"config", "done"} =>
          /\ \E S : mixed \in [state : {"config", "done"}, cells : S, over : S, of : S, formats : S]
          /\ mixed.of => \A m \in DOMAIN mixed.cells : StageB!Right(mixed.cells[m], m, mixed.over)

OriginIs == cfg.state = "there" => origin \in {"convert", "stream"}

PackInv == DirIs /\ ConvertIs /\ StreamIs /\ InjectIs /\ ReadyIs /\ MixIs /\ OriginIs

LEMMA PackIs ==
    /\ Len(PackUnits) \in Nat
    /\ \A i \in 1..Len(PackUnits) : PackUnits[i] \in SUBSET StageB!Modules
    /\ \A m \in StageB!Modules : \E i \in 1..Len(PackUnits) : m \in PackUnits[i]
    /\ \A i, j \in 1..Len(PackUnits) : i # j => PackUnits[i] \cap PackUnits[j] = {}
    /\ PackFormats \subseteq CellFormats /\ PackExcluded \subseteq StageB!Modules
<1>1. StageB!PackingAssumption
  BY OfflineAssumption DEF OfflineAssumption
<1>2. PackUnits \in Seq(SUBSET StageB!Modules)
  BY <1>1 DEF StageB!PackingAssumption
<1>3. Len(PackUnits) \in Nat
  BY <1>2, LenProperties
<1>4. \A i \in 1..Len(PackUnits) : PackUnits[i] \in SUBSET StageB!Modules
  BY <1>2, ElementOfSeq
<1>5. \A m \in StageB!Modules : \E i \in 1..Len(PackUnits) : m \in PackUnits[i]
  BY DEF StageB!Modules
<1>6. PackFormats \subseteq CellFormats
  BY <1>1 DEF StageB!PackingAssumption, CellFormats
<1> QED BY <1>1, <1>3, <1>4, <1>5, <1>6 DEF StageB!PackingAssumption

\* An artifact is of one module, and a module has some.
LEMMA PiecesAre ==
    /\ \A m \in StageB!Modules : StageB!Pieces(m) # {} /\ StageB!Stray \notin StageB!Pieces(m)
    /\ \A m, k \in StageB!Modules : \A q \in StageB!Pieces(m) : q \in StageB!Pieces(k) => m = k
<1>1. \A m \in StageB!Modules : PackExperts[m] \in Nat \ {0} /\ m # "stray"
  BY OfflineAssumption DEF OfflineAssumption, StageB!PackingAssumption
<1>2. ASSUME NEW m \in StageB!Modules
      PROVE  StageB!Pieces(m) # {} /\ StageB!Stray \notin StageB!Pieces(m)
  <2>1. <<m, 1>> \in StageB!Pieces(m)
    BY <1>1 DEF StageB!Pieces
  <2>2. StageB!Stray \notin StageB!Pieces(m)
    BY <1>1 DEF StageB!Pieces, StageB!Stray
  <2> QED BY <2>1, <2>2
<1>3. ASSUME NEW m \in StageB!Modules, NEW k \in StageB!Modules, NEW q \in StageB!Pieces(m),
             q \in StageB!Pieces(k)
      PROVE  m = k
  BY <1>3 DEF StageB!Pieces
<1> QED BY <1>2, <1>3

LEMMA InBufs ==
    ASSUME NEW D \in SUBSET StageB!Modules, NEW c \in [D -> Cells]
    PROVE  c \in Bufs
BY DEF Bufs

LEMMA BufsAre ==
    ASSUME NEW c \in Bufs
    PROVE  DOMAIN c \in SUBSET StageB!Modules /\ \A m \in DOMAIN c : c[m] \in Cells
BY DEF Bufs

LEMMA NothingIs ==
    StageB!Nothing \in Bufs /\ DOMAIN StageB!Nothing = {} /\ StageB!Kept \in Cells
<1>1. StageB!Nothing \in [{} -> Cells] /\ DOMAIN StageB!Nothing = {}
  BY DEF StageB!Nothing
<1>2. StageB!Kept \in Cells
  BY DEF StageB!Kept, Cells, CellFormats
<1> QED BY Zenon, <1>1, <1>2, InBufs

\* A format is told by its mode and its bits.
LEMMA FormatsAre ==
    ASSUME NEW f \in CellFormats, NEW g \in CellFormats, f.mode = g.mode, f.bits = g.bits
    PROVE  f = g
<1>1. f = [mode |-> f.mode, bits |-> f.bits] /\ g = [mode |-> g.mode, bits |-> g.bits]
  BY DEF CellFormats
<1> QED BY Zenon, <1>1

\* What stream_pack makes of a module.
LEMMA EmitIs ==
    ASSUME DirIs, NEW m \in StageB!Modules, NEW w \in PackFormats
    PROVE  /\ StageB!Emit(m, w) \in Cells
           /\ StageB!Emit(m, w).src = "calib" <=> StageB!Injects(m)
           /\ StageB!Emit(m, w) = StageB!Kept => m \in PackExcluded
           /\ StageB!Emit(m, w) # StageB!Kept =>
                 StageB!Emit(m, w).format = IF StageB!Injects(m) THEN StageB!Planes(m) ELSE w
<1>1. w \in CellFormats
  BY PackIs
<1>2. ASSUME StageB!Injects(m) PROVE StageB!Planes(m) \in CellFormats
  <2>1. PICK f : f = art[<<m, 1>>]
    OBVIOUS
  <2>2. <<m, 1>> \in StageB!Pieces(m)
    BY OfflineAssumption DEF OfflineAssumption, StageB!PackingAssumption, StageB!Pieces
  <2>3. f \in CellFormats
    BY <1>2, <2>1, <2>2, PackIs DEF StageB!Injects, StageB!Has, DirIs
  <2>4. [f EXCEPT !.mode = "no biases"] \in CellFormats
    BY <2>3 DEF CellFormats
  <2> QED BY <2>1, <2>3, <2>4 DEF StageB!Planes
<1>3. CASE StageB!Injects(m)
  <2>1. PICK g : g = StageB!Planes(m)
    OBVIOUS
  <2>2. StageB!Emit(m, w) = [src |-> "calib", format |-> g]
    BY <1>3, <2>1 DEF StageB!Emit, StageB!Cell
  <2> QED BY <1>2, <1>3, <2>1, <2>2 DEF StageB!Kept, Cells
<1>4. CASE ~StageB!Injects(m) /\ m \notin PackExcluded
  <2>1. StageB!Emit(m, w) = [src |-> "rtn", format |-> w]
    BY <1>4 DEF StageB!Emit, StageB!Cell
  <2> QED BY <1>1, <1>4, <2>1 DEF StageB!Kept, Cells
<1>5. CASE ~StageB!Injects(m) /\ m \in PackExcluded
  <2>1. StageB!Emit(m, w) = StageB!Kept
    BY <1>5 DEF StageB!Emit
  <2> QED BY <1>5, <2>1, NothingIs DEF StageB!Kept
<1> QED BY <1>3, <1>4, <1>5

LEMMA PackBegins == StageB!Init => PackInv
<1> SUFFICES ASSUME StageB!Init PROVE PackInv
  OBVIOUS
<1>1. /\ DOMAIN dir = {} /\ cfg.state = "none" /\ origin = "nothing" /\ ready = "no"
      /\ run.prog = "idle" /\ mixed.state = "none"
  BY NothingIs DEF StageB!Init, StageB!NoFile, StageB!Idle
<1>2. \A q \in DOMAIN art : art[q] \in PackFormats
  BY DEF StageB!Init
<1> QED BY <1>1, <1>2 DEF PackInv, DirIs, ConvertIs, StreamIs, InjectIs, ReadyIs, MixIs, OriginIs

\* A step that leaves the directory and no run of a program that writes it.
LEMMA DirRests ==
    ASSUME PackInv, UNCHANGED <<art, dir, cfg, idx, origin, ready>>,
           run'.prog \notin {"stream", "inject"}, MixIs'
    PROVE  PackInv'
<1>1. DirIs' /\ OriginIs'
  BY DEF PackInv, DirIs, OriginIs, CellsAre, StageB!Has
<1>2. ConvertIs'
  BY DEF PackInv, ConvertIs, ConvertedIs
<1>3. StreamIs' /\ InjectIs'
  BY DEF StreamIs, InjectIs
<1>4. ReadyIs'
  BY DEF PackInv, ReadyIs, Treated, ReadFrom, StageB!Right, StageB!Has, StageB!Fits, StageB!OfOneMode,
        StageB!FormatIn
<1> QED BY <1>1, <1>2, <1>3, <1>4 DEF PackInv

LEMMA CrashHolds ==
    ASSUME PackInv, StageB!Crash
    PROVE  PackInv'
<1>1. UNCHANGED <<art, dir, cfg, idx, origin, ready, mixed>> /\ run'.prog = "idle"
  BY DEF StageB!Crash, StageB!Idle
<1>2. MixIs'
  BY <1>1 DEF PackInv, MixIs, StageB!Right, StageB!Has, StageB!Fits
<1> QED BY <1>1, <1>2, DirRests

\* What is read of a model that is accounted for is right.
LEMMA HeldIsRight ==
    ASSUME PackInv, StageB!Accounted, NEW m \in StageB!Modules, NEW n \in StageB!Holders(m),
           dir[n].whole, \A a, b \in StageB!Holders(m) : a = b
    PROVE  StageB!Right(dir[n].cells[m], m, cfg)
<1>0. n \in DOMAIN dir /\ m \in DOMAIN dir[n].cells /\ dir[n].cells \in Bufs
  BY DEF StageB!Holders, PackInv, DirIs
<1>1. CASE ready = "stream" /\ StageB!OfOneMode
  <2>1. ReadFrom(<<idx.shard[m], 0>>, m)
    BY <1>1 DEF PackInv, ReadyIs
  <2>2. <<idx.shard[m], 0>> \in StageB!Holders(m)
    BY <2>1 DEF ReadFrom, StageB!Holders
  <2>3. n = <<idx.shard[m], 0>>
    BY <2>2
  <2> QED BY <1>1, <2>1, <2>3 DEF ReadFrom
<1>2. CASE ready = "inject" /\ origin = "convert"
  <2>1. PICK c : c = dir[n].cells[m]
    OBVIOUS
  <2>2. ConvertedIs(n) /\ Treated(dir[n]) /\ CellsAre(dir[n].cells)
    BY <1>0, <1>2 DEF PackInv, ConvertIs, ReadyIs, DirIs
  <2>3. /\ m \in PackExcluded => c = StageB!Kept /\ ~StageB!Has(m)
        /\ c # StageB!Kept => c.format = StageB!FormatIn(cfg, m)
    BY <1>0, <1>2, <2>1, <2>2 DEF ConvertedIs, PackInv, ReadyIs
  <2>4. /\ c.src = "calib" => StageB!Has(m)
        /\ c = StageB!Kept => m \in PackExcluded
        /\ StageB!Has(m) /\ c # StageB!Kept => c.src = "calib" /\ StageB!Fits(m, StageB!FormatIn(cfg, m))
    BY <1>0, <2>1, <2>2 DEF CellsAre, Treated
  <2>5. StageB!Right(c, m, cfg)
    BY <2>3, <2>4 DEF StageB!Right
  <2> QED BY <2>1, <2>5
<1> QED BY <1>1, <1>2 DEF StageB!Accounted

LEMMA MixStartHolds ==
    ASSUME PackInv, NEW match \in SUBSET StageB!Modules, StageB!MixStart(match)
    PROVE  PackInv'
<1>1. PICK cells : /\ cells = [m \in match |-> dir[CHOOSE n \in StageB!Holders(m) : TRUE].cells[m]]
                   /\ mixed' = [state |-> "weights", cells |-> cells]
                   /\ run' = [prog |-> "mix", cells |-> cells, over |-> cfg, of |-> StageB!Accounted]
  BY Zenon DEF StageB!MixStart, StageB!Begin
<1>2. /\ \A n \in DOMAIN dir : dir[n].whole
      /\ \A m \in StageB!Modules : \A a, b \in StageB!Holders(m) : a = b
      /\ \A m \in match : StageB!Holders(m) # {}
      /\ UNCHANGED <<art, dir, cfg, idx, origin, ready>>
  BY DEF StageB!MixStart
<1>3. ASSUME StageB!Accounted, NEW m \in match PROVE StageB!Right(cells[m], m, cfg)
  <2>1. PICK n : n = CHOOSE h \in StageB!Holders(m) : TRUE
    OBVIOUS
  <2>2. n \in StageB!Holders(m) /\ dir[n].whole
    BY <1>2, <2>1 DEF StageB!Holders
  <2>3. cells[m] = dir[n].cells[m]
    BY <1>1, <2>1
  <2> QED BY <1>2, <1>3, <2>2, <2>3, HeldIsRight
<1>4. /\ run'.prog = "mix" /\ run'.of = StageB!Accounted /\ run'.cells = cells /\ run'.over = cfg
      /\ mixed'.state = "weights" /\ DOMAIN cells = match
  BY <1>1
<1>5. MixIs'
  BY <1>2, <1>3, <1>4 DEF MixIs, StageB!Right, StageB!Has, StageB!Fits
<1> QED BY <1>2, <1>4, <1>5, DirRests

LEMMA MixConfigHolds ==
    ASSUME PackInv, StageB!MixConfig
    PROVE  PackInv'
<1>1. PICK w : mixed' = [state |-> "config", cells |-> run.cells, over |-> run.over,
                          of |-> run.of, formats |-> w]
  BY Zenon DEF StageB!MixConfig
<1>2. UNCHANGED <<art, dir, cfg, idx, origin, ready, run>> /\ run.prog = "mix"
  BY DEF StageB!MixConfig
<1>3. PICK S : S = {run.cells, run.over, run.of, w}
  BY Zenon
<1>4. /\ mixed' \in [state : {"config", "done"}, cells : S, over : S, of : S, formats : S]
      /\ mixed'.cells = run.cells /\ mixed'.over = run.over /\ mixed'.of = run.of
  BY <1>1, <1>3
<1>5. MixIs'
  <2>1. run.of => \A m \in DOMAIN run.cells : StageB!Right(run.cells[m], m, run.over)
    BY <1>2 DEF PackInv, MixIs
  <2> QED BY <1>2, <1>4, <2>1 DEF MixIs, StageB!Right, StageB!Has, StageB!Fits
<1> QED BY <1>2, <1>5, DirRests

LEMMA MixIndexHolds ==
    ASSUME PackInv, StageB!MixIndex
    PROVE  PackInv'
<1>1. UNCHANGED <<art, dir, cfg, idx, origin, ready>> /\ run'.prog = "idle"
  BY DEF StageB!MixIndex, StageB!Idle
<1>2. PICK S : mixed \in [state : {"config", "done"}, cells : S, over : S, of : S, formats : S]
  BY DEF StageB!MixIndex, PackInv, MixIs
<1>3. mixed' = [mixed EXCEPT !.state = "done"]
  BY DEF StageB!MixIndex
<1>4. /\ mixed' \in [state : {"config", "done"}, cells : S, over : S, of : S, formats : S]
      /\ mixed'.cells = mixed.cells /\ mixed'.over = mixed.over /\ mixed'.of = mixed.of
  BY <1>2, <1>3
<1>5. mixed.of => \A m \in DOMAIN mixed.cells : StageB!Right(mixed.cells[m], m, mixed.over)
  BY DEF StageB!MixIndex, PackInv, MixIs
<1>6. MixIs'
  BY <1>1, <1>4, <1>5 DEF MixIs, StageB!Right, StageB!Has, StageB!Fits
<1> QED BY <1>1, <1>6, DirRests

\* The artifacts stay as they are, and with them what is made of a module.
LEMMA ArtKept ==
    ASSUME art' = art
    PROVE  /\ \A m : StageB!Has(m)' = StageB!Has(m) /\ StageB!Injects(m)' = StageB!Injects(m)
           /\ \A m, w : StageB!Emit(m, w)' = StageB!Emit(m, w)
                        /\ EmittedWell(m, w)' = EmittedWell(m, w)
BY DEF StageB!Has, StageB!Injects, StageB!Emit, StageB!Planes, EmittedWell, StageB!SizesFit

\* While stream_pack runs it is all that matters.
LEMMA StreamMoves ==
    ASSUME PackInv, run.prog = "stream", UNCHANGED <<art, origin, ready, mixed>>,
           run'.prog \in {"stream", "idle"}, DirIs', StreamIs'
    PROVE  PackInv'
<1>1. origin = "stream" /\ ready = "no"
  BY DEF PackInv, StreamIs
<1>2. ConvertIs' /\ InjectIs' /\ ReadyIs' /\ OriginIs'
  BY <1>1 DEF ConvertIs, InjectIs, ReadyIs, OriginIs
<1>3. MixIs'
  BY DEF PackInv, MixIs, StageB!Right, StageB!Has, StageB!Fits
<1> QED BY <1>2, <1>3 DEF PackInv

LEMMA DirKept ==
    ASSUME DirIs, UNCHANGED <<art, dir>>
    PROVE  DirIs'
BY DEF DirIs, CellsAre, StageB!Has

LEMMA StreamStartHolds ==
    ASSUME PackInv, NEW w \in PackFormats, NEW limit \in Int,
           StageB!StreamStart(w, limit)
    PROVE  PackInv'
<1>1. PICK p0 : p0 = [m \in {} |-> 0]
  OBVIOUS
<1>2. run' = [prog |-> "stream", at |-> "units", format |-> w, limit |-> limit, unit |-> 1,
              buf |-> StageB!Nothing, placed |-> p0, shards |-> 0, used |-> {}]
  BY <1>1 DEF StageB!StreamStart, StageB!Begin
<1>3. p0 \in Placements /\ DOMAIN p0 = {}
  <2>1. p0 \in [{} -> Nat] /\ {} \in SUBSET StageB!Modules
    BY <1>1
  <2> QED BY <2>1 DEF Placements
<1>4. run' \in StreamRuns
  BY <1>2, <1>3, NothingIs DEF StreamRuns
<1>5. /\ run'.prog = "stream" /\ run'.at = "units" /\ run'.unit = 1 /\ DOMAIN run'.buf = {}
      /\ DOMAIN run'.placed = {} /\ run'.used = {}
  BY <1>2, <1>3, NothingIs
<1>6. ready' = "no" /\ origin' = "stream" /\ UNCHANGED <<art, dir, cfg, idx, mixed>>
  BY DEF StageB!StreamStart
<1>7. StreamIs'
  BY <1>4, <1>5, <1>6 DEF StreamIs, StreamKnows
<1>8. DirIs'
  BY <1>6, DirKept DEF PackInv
<1>9. ConvertIs' /\ InjectIs' /\ ReadyIs' /\ OriginIs'
  BY <1>5, <1>6 DEF ConvertIs, InjectIs, ReadyIs, OriginIs
<1>10. MixIs'
  BY <1>5, <1>6 DEF PackInv, MixIs, StageB!Right, StageB!Has, StageB!Fits
<1> QED BY <1>7, <1>8, <1>9, <1>10 DEF PackInv

LEMMA RaiseHolds ==
    ASSUME PackInv, run.prog = "stream", StageB!Raise, UNCHANGED <<art, dir, origin, ready, mixed>>
    PROVE  PackInv'
<1>1. run'.prog = "idle"
  BY DEF StageB!Raise, StageB!Idle
<1>2. StreamIs' /\ DirIs'
  BY <1>1, DirKept DEF StreamIs, PackInv
<1> QED BY <1>1, <1>2, StreamMoves

\* The record of a run of stream_pack, its fields one by one.
LEMMA StreamRecord ==
    ASSUME NEW w \in PackFormats, NEW l \in Int,
           NEW a \in {"units", "flush", "saving", "check", "index", "config"},
           NEW n \in Nat \ {0}, NEW b \in Bufs, NEW pl \in Placements, NEW k \in Nat,
           NEW us \in SUBSET AllPieces
    PROVE  [prog |-> "stream", at |-> a, format |-> w, limit |-> l, unit |-> n, buf |-> b,
            placed |-> pl, shards |-> k, used |-> us] \in StreamRuns
BY DEF StreamRuns

LEMMA StreamFields ==
    ASSUME NEW r \in StreamRuns
    PROVE  /\ r.at \in {"units", "flush", "saving", "check", "index", "config"}
           /\ r.format \in PackFormats /\ r.limit \in Int /\ r.unit \in Nat \ {0}
           /\ r.buf \in Bufs /\ r.placed \in Placements /\ r.shards \in Nat
           /\ r.used \in SUBSET AllPieces
BY DEF StreamRuns

LEMMA StreamUnitHolds ==
    ASSUME PackInv, StageB!StreamUnit
    PROVE  PackInv'
<1>0. /\ run.prog = "stream" /\ run.at = "units" /\ run.unit <= Len(PackUnits)
      /\ UNCHANGED <<art, dir, cfg, idx, origin, ready, mixed>>
      /\ run \in StreamRuns /\ ready = "no" /\ origin = "stream"
  BY DEF StageB!StreamUnit, PackInv, StreamIs
<1>1. PICK u : u = PackUnits[run.unit]
  OBVIOUS
<1>2. CASE \E m \in u : StageB!Refused(m, run.format)
  <2>1. StageB!Raise
    BY <1>1, <1>2 DEF StageB!StreamUnit
  <2> QED BY <1>0, <2>1, RaiseHolds
<1>3. CASE ~ \E m \in u : StageB!Refused(m, run.format)
  <2>1. PICK b : b = [m \in DOMAIN run.buf \cup u |->
                        IF m \in u THEN StageB!Emit(m, run.format) ELSE run.buf[m]]
    BY Zenon
  <2>2. PICK us : us = run.used \cup UNION {StageB!Pieces(m) : m \in {x \in u : StageB!Injects(x)}}
    BY Zenon
  <2>3. PICK a : /\ a \in {"flush", "units"}
                 /\ run' = [run EXCEPT !.unit = @ + 1, !.buf = b, !.used = us, !.at = a]
    BY Zenon, <1>1, <1>3, <2>1, <2>2 DEF StageB!StreamUnit
  <2>4. run.unit \in 1..Len(PackUnits) /\ u \in SUBSET StageB!Modules /\ run.format \in PackFormats
    BY <1>0, <1>1, PackIs DEF StreamRuns
  <2>5. /\ DOMAIN b = DOMAIN run.buf \cup u /\ b \in Bufs
        /\ \A m \in u : b[m] = StageB!Emit(m, run.format)
        /\ \A m \in DOMAIN run.buf \ u : b[m] = run.buf[m]
    <3>1. /\ DOMAIN run.buf \in SUBSET StageB!Modules
          /\ \A m \in DOMAIN run.buf : run.buf[m] \in Cells
      BY <1>0, BufsAre DEF StreamRuns
    <3>2. \A m \in u : StageB!Emit(m, run.format) \in Cells
      BY <2>4, EmitIs DEF PackInv
    <3>3. b \in [DOMAIN run.buf \cup u -> Cells]
      BY <2>1, <3>1, <3>2
    <3>4. b \in Bufs
      BY <2>4, <3>1, <3>3, InBufs
    <3> QED BY <2>1, <3>4
  <2>6. /\ us \in SUBSET AllPieces
        /\ \A q \in us : \E m \in StageB!Modules : StageB!Injects(m) /\ q \in StageB!Pieces(m)
    <3>1. \A q \in run.used : \E m \in StageB!Modules : StageB!Injects(m) /\ q \in StageB!Pieces(m)
      BY <1>0 DEF PackInv, StreamIs, StreamKnows
    <3>2. \A q \in us : \E m \in StageB!Modules : StageB!Injects(m) /\ q \in StageB!Pieces(m)
      BY <2>2, <2>4, <3>1
    <3> QED BY <3>2 DEF AllPieces
  <2>7. /\ run' \in StreamRuns /\ run'.prog = "stream" /\ run'.at = a /\ run'.format = run.format
        /\ run'.unit = run.unit + 1 /\ run'.buf = b /\ run'.placed = run.placed
        /\ run'.shards = run.shards /\ run'.used = us
    <3>1. b \in Bufs /\ us \in SUBSET AllPieces /\ run \in StreamRuns
      BY <1>0, <2>5, <2>6
    <3>2. /\ run'.prog = "stream" /\ run'.at = a /\ run'.format = run.format
          /\ run'.unit = run.unit + 1 /\ run'.buf = b /\ run'.placed = run.placed
          /\ run'.shards = run.shards /\ run'.used = us
      BY <2>3, <3>1 DEF StreamRuns
    <3>3. run' = [prog |-> "stream", at |-> a, format |-> run.format, limit |-> run.limit,
                  unit |-> run.unit + 1, buf |-> b, placed |-> run.placed,
                  shards |-> run.shards, used |-> us]
      BY Zenon, <2>3, <3>1 DEF StreamRuns
    <3>5. /\ run.format \in PackFormats /\ run.limit \in Int /\ run.unit + 1 \in Nat \ {0}
          /\ run.placed \in Placements /\ run.shards \in Nat
      BY <3>1, StreamFields
    <3>6. [prog |-> "stream", at |-> a, format |-> run.format, limit |-> run.limit,
           unit |-> run.unit + 1, buf |-> b, placed |-> run.placed,
           shards |-> run.shards, used |-> us] \in StreamRuns
      BY <2>3, <3>1, <3>5, StreamRecord
    <3>4. run' \in StreamRuns
      BY <3>3, <3>6
    <3> QED BY <3>2, <3>4
  <2>8. StreamKnows
    BY <1>0 DEF PackInv, StreamIs
  <2>9. /\ \A m : Through(m) => Through(m)'
        /\ \A m \in u : Through(m)' /\ ~Through(m)
    <3>1. /\ \A i \in 1..Len(PackUnits) : i < run.unit => i < run'.unit /\ i # run.unit
          /\ run.unit < run'.unit
      BY <2>4, <2>7
    <3> QED BY <1>1, <2>4, <3>1, PackIs DEF Through
  <2>10. \A i, m, w : StoredIn(i, m, w)' = StoredIn(i, m, w)
    BY <1>0, ArtKept DEF StoredIn
  <2>11. \A i, pl : ShardIsOwn(i, pl)' = ShardIsOwn(i, pl)
    BY <1>0 DEF ShardIsOwn
  <2>12. StreamKnows'
    <3>1. \A i \in 1..Len(PackUnits) : i < run'.unit => i < run.unit \/ i = run.unit
      BY <2>4, <2>7
    <3>2. \A i \in 1..Len(PackUnits) : i < run'.unit =>
             \A m \in PackUnits[i] : m \in DOMAIN b \/ m \in DOMAIN run.placed
      BY <1>1, <2>5, <2>8, <3>1 DEF StreamKnows
    <3>3. \A m \in u : EmittedWell(m, run.format)
      BY <1>3 DEF EmittedWell, StageB!Refused
    <3>4. \A m \in DOMAIN b : /\ b[m] = StageB!Emit(m, run.format)
                             /\ EmittedWell(m, run.format) /\ Through(m)'
      BY <2>5, <2>8, <2>9, <3>3 DEF StreamKnows
    <3>5. \A m \in DOMAIN run.placed :
             /\ run.placed[m] \in 1..run.shards /\ StoredIn(run.placed[m], m, run.format)
             /\ ShardIsOwn(run.placed[m], run.placed)
             /\ EmittedWell(m, run.format) /\ Through(m)' /\ m \notin DOMAIN b
      BY <2>5, <2>8, <2>9 DEF StreamKnows
    <3> QED BY <1>0, <2>6, <2>7, <2>10, <2>11, <3>2, <3>4, <3>5, ArtKept DEF StreamKnows
  <2>13. StreamIs'
    BY <1>0, <2>3, <2>7, <2>12 DEF StreamIs
  <2>14. DirIs'
    BY <1>0, DirKept DEF PackInv
  <2> QED BY <1>0, <2>7, <2>13, <2>14, StreamMoves
<1> QED BY <1>2, <1>3

\* A step of stream_pack that moves on in its own run and leaves the rest of it.
LEMMA StreamAt ==
    ASSUME run \in StreamRuns,
           NEW a \in {"units", "flush", "saving", "check", "index", "config"},
           run' = [run EXCEPT !.at = a]
    PROVE  /\ run' \in StreamRuns /\ run'.prog = "stream" /\ run'.at = a
           /\ run'.format = run.format /\ run'.unit = run.unit /\ run'.buf = run.buf
           /\ run'.placed = run.placed /\ run'.shards = run.shards /\ run'.used = run.used
<1>1. /\ run'.prog = "stream" /\ run'.at = a
      /\ run'.format = run.format /\ run'.unit = run.unit /\ run'.buf = run.buf
      /\ run'.placed = run.placed /\ run'.shards = run.shards /\ run'.used = run.used
  BY DEF StreamRuns
<1>2. run' = [prog |-> "stream", at |-> a, format |-> run.format, limit |-> run.limit,
              unit |-> run.unit, buf |-> run.buf, placed |-> run.placed,
              shards |-> run.shards, used |-> run.used]
  BY DEF StreamRuns
<1>3. /\ run.format \in PackFormats /\ run.limit \in Int /\ run.unit \in Nat \ {0}
      /\ run.buf \in Bufs /\ run.placed \in Placements /\ run.shards \in Nat
      /\ run.used \in SUBSET AllPieces
  BY StreamFields
<1>4. [prog |-> "stream", at |-> a, format |-> run.format, limit |-> run.limit,
       unit |-> run.unit, buf |-> run.buf, placed |-> run.placed,
       shards |-> run.shards, used |-> run.used] \in StreamRuns
  BY Zenon, <1>3, StreamRecord
<1>5. run' \in StreamRuns
  BY Zenon, <1>2, <1>4
<1> QED BY <1>1, <1>5

LEMMA StreamTold ==
    ASSUME PackInv, run.prog = "stream"
    PROVE  run \in StreamRuns /\ ready = "no" /\ origin = "stream" /\ StreamKnows /\ DirIs
BY DEF PackInv, StreamIs

\* The run moves on, the model files stay.
LEMMA StreamKnowsOn ==
    ASSUME StreamKnows, UNCHANGED <<art, dir>>, run \in StreamRuns,
           NEW a \in {"units", "flush", "saving", "check", "index", "config"},
           run' = [run EXCEPT !.at = a]
    PROVE  StreamKnows'
<1>1. /\ run'.format = run.format /\ run'.unit = run.unit /\ run'.buf = run.buf
      /\ run'.placed = run.placed /\ run'.shards = run.shards /\ run'.used = run.used
  BY StreamAt
<1>2. /\ \A i, m, w : StoredIn(i, m, w)' = StoredIn(i, m, w)
      /\ \A i, pl : ShardIsOwn(i, pl)' = ShardIsOwn(i, pl)
      /\ \A m : Through(m)' = Through(m)
  BY <1>1, ArtKept DEF StoredIn, ShardIsOwn, Through
<1> QED BY <1>1, <1>2, ArtKept DEF StreamKnows

LEMMA StreamLastHolds ==
    ASSUME PackInv, StageB!StreamLast
    PROVE  PackInv'
<1>0. /\ run.prog = "stream" /\ run.unit > Len(PackUnits)
      /\ UNCHANGED <<art, dir, cfg, idx, origin, ready, mixed>>
  BY DEF StageB!StreamLast
<1>7. PICK a : a = IF DOMAIN run.buf = {} THEN "check" ELSE "flush"
  OBVIOUS
<1>1. /\ a \in {"check", "flush"} /\ run' = [run EXCEPT !.at = a]
      /\ a = "check" => DOMAIN run.buf = {}
  BY <1>7 DEF StageB!StreamLast
<1>2. run \in StreamRuns /\ ready = "no" /\ origin = "stream" /\ StreamKnows /\ DirIs
  BY <1>0, StreamTold
<1>3. /\ run' \in StreamRuns /\ run'.prog = "stream" /\ run'.at = a
      /\ run'.unit = run.unit /\ run'.buf = run.buf
  BY <1>1, <1>2, StreamAt
<1>4. StreamKnows'
  BY <1>0, <1>1, <1>2, StreamKnowsOn
<1>5. StreamIs'
  BY <1>0, <1>1, <1>2, <1>3, <1>4 DEF StreamIs
<1>6. DirIs'
  BY <1>0, <1>2, DirKept
<1> QED BY <1>0, <1>3, <1>5, <1>6, StreamMoves

\* A file is put into the directory.
LEMMA ShardPutIs ==
    ASSUME NEW n, NEW f, StageB!Put(n, f)
    PROVE  /\ DOMAIN dir' = DOMAIN dir \cup {n} /\ dir'[n] = f
           /\ \A x \in DOMAIN dir \ {n} : dir'[x] = dir[x]
BY DEF StageB!Put

LEMMA PutHolds ==
    ASSUME DirIs, art' = art, NEW n \in ShardNames, NEW f, StageB!Put(n, f),
           f.whole \in BOOLEAN, f.cells \in Bufs, CellsAre(f.cells)
    PROVE  DirIs'
<1>1. /\ DOMAIN dir' = DOMAIN dir \cup {n} /\ dir'[n] = f
      /\ \A x \in DOMAIN dir \ {n} : dir'[x] = dir[x]
  BY ShardPutIs
<1>2. \A c : CellsAre(c)' = CellsAre(c)
  BY ArtKept DEF CellsAre
<1> QED BY <1>1, <1>2 DEF DirIs

LEMMA TornIs ==
    /\ StageB!Torn.whole = FALSE /\ StageB!Torn.cells \in Bufs
    /\ CellsAre(StageB!Torn.cells) /\ DOMAIN StageB!Torn.cells = {}
BY NothingIs DEF StageB!Torn, CellsAre

LEMMA StreamFlushHolds ==
    ASSUME PackInv, StageB!StreamFlush
    PROVE  PackInv'
<1>0. /\ run.prog = "stream" /\ UNCHANGED <<art, cfg, idx, origin, ready, mixed>>
      /\ run' = [run EXCEPT !.at = "saving"]
  BY DEF StageB!StreamFlush
<1>1. run \in StreamRuns /\ ready = "no" /\ origin = "stream" /\ StreamKnows /\ DirIs
  BY <1>0, StreamTold
<1>2. run.shards \in Nat
  BY <1>1, StreamFields
<1>3. PICK n : n = <<run.shards + 1, 0>>
  BY Zenon
<1>4. n \in ShardNames
  BY <1>2, <1>3 DEF ShardNames
<1>5. PICK f : f = StageB!Torn
  OBVIOUS
<1>6. StageB!Put(n, f)
  BY <1>3, <1>5 DEF StageB!StreamFlush
<1>7. DirIs'
  <2>1. f.whole \in BOOLEAN /\ f.cells \in Bufs /\ CellsAre(f.cells)
    BY Zenon, <1>5, TornIs
  <2> QED BY <1>0, <1>1, <1>4, <1>6, <2>1, PutHolds
<1>8. /\ run' \in StreamRuns /\ run'.prog = "stream" /\ run'.at = "saving"
      /\ run'.format = run.format /\ run'.unit = run.unit /\ run'.buf = run.buf
      /\ run'.placed = run.placed /\ run'.shards = run.shards /\ run'.used = run.used
  BY <1>0, <1>1, StreamAt
<1>9. ASSUME NEW m \in DOMAIN run.placed
      PROVE  StoredIn(run.placed[m], m, run.format)' /\ ShardIsOwn(run.placed[m], run.placed)'
  <2>1. PICK i : i = run.placed[m]
    OBVIOUS
  <2>2. PICK w : w = run.format
    OBVIOUS
  <2>3. i \in 1..run.shards /\ StoredIn(i, m, w) /\ ShardIsOwn(i, run.placed)
    BY <1>1, <2>1, <2>2 DEF StreamKnows
  <2>4. <<i, 0>> # n /\ <<i, 0>> \in DOMAIN dir
    BY <1>2, <1>3, <2>3 DEF StoredIn
  <2>5. <<i, 0>> \in DOMAIN dir' /\ dir'[<<i, 0>>] = dir[<<i, 0>>]
    BY Zenon, <1>6, <2>4, ShardPutIs
  <2>6. StoredIn(i, m, w)'
    BY <1>0, <2>3, <2>5, ArtKept DEF StoredIn
  <2>7. ShardIsOwn(i, run.placed)'
    BY <1>8, <2>3, <2>5 DEF ShardIsOwn
  <2> QED BY <1>8, <2>1, <2>2, <2>6, <2>7
<1>11. StreamKnows'
  <2>1. \A m : Through(m)' = Through(m)
    BY <1>8 DEF Through
  <2> QED BY <1>0, <1>1, <1>8, <1>9, <2>1, ArtKept DEF StreamKnows
<1>10. StreamIs'
  BY <1>0, <1>1, <1>8, <1>11 DEF StreamIs
<1> QED BY <1>0, <1>7, <1>8, <1>10, StreamMoves

LEMMA StreamSavedHolds ==
    ASSUME PackInv, StageB!StreamSaved
    PROVE  PackInv'
<1>0. run.prog = "stream" /\ UNCHANGED <<art, cfg, idx, origin, ready, mixed>>
  BY DEF StageB!StreamSaved
<1>1. run \in StreamRuns /\ ready = "no" /\ origin = "stream" /\ StreamKnows /\ DirIs
  BY <1>0, StreamTold
<1>2. /\ run.format \in PackFormats /\ run.limit \in Int /\ run.unit \in Nat \ {0}
      /\ run.buf \in Bufs /\ run.placed \in Placements /\ run.shards \in Nat
      /\ run.used \in SUBSET AllPieces
  BY <1>1, StreamFields
<1>3. PICK k : k = run.shards + 1
  OBVIOUS
<1>4. PICK f : f = [whole |-> TRUE, cells |-> run.buf]
  BY Zenon
<1>5. PICK pl : pl = [m \in DOMAIN run.placed \cup DOMAIN run.buf |->
                      IF m \in DOMAIN run.buf THEN run.shards + 1 ELSE run.placed[m]]
  BY Zenon
<1>6. /\ StageB!Put(<<k, 0>>, f)
      /\ run' = [run EXCEPT !.at = "units", !.buf = StageB!Nothing, !.shards = @ + 1, !.placed = pl]
  BY <1>3, <1>4, <1>5 DEF StageB!StreamSaved
<1>7. f.whole = TRUE /\ f.cells = run.buf
  BY <1>4
<1>8. k \in Nat \ {0} /\ <<k, 0>> \in ShardNames
  BY <1>2, <1>3 DEF ShardNames
<1>9. CellsAre(f.cells)
  <2>1. \A m \in DOMAIN run.buf : run.buf[m] = StageB!Emit(m, run.format)
    BY <1>1 DEF StreamKnows
  <2>2. DOMAIN run.buf \in SUBSET StageB!Modules
    BY <1>2, BufsAre
  <2> QED BY <1>1, <1>2, <1>7, <2>1, <2>2, EmitIs DEF CellsAre, StageB!Injects
<1>10. DirIs'
  BY Zenon, <1>0, <1>1, <1>2, <1>6, <1>7, <1>8, <1>9, PutHolds
<1>11. /\ DOMAIN pl = DOMAIN run.placed \cup DOMAIN run.buf
       /\ \A m \in DOMAIN run.buf : pl[m] = k
       /\ \A m \in DOMAIN run.placed \ DOMAIN run.buf : pl[m] = run.placed[m]
  BY <1>3, <1>5
<1>12. pl \in Placements
  <2>1. /\ DOMAIN run.placed \in SUBSET StageB!Modules
        /\ \A m \in DOMAIN run.placed : run.placed[m] \in Nat
    BY <1>2 DEF Placements
  <2>2. DOMAIN run.buf \in SUBSET StageB!Modules
    BY <1>2, BufsAre
  <2>3. \A m \in DOMAIN pl : pl[m] \in Nat
    BY <1>8, <1>11, <2>1
  <2>4. pl \in [DOMAIN run.placed \cup DOMAIN run.buf -> Nat]
    BY <1>5, <1>11, <2>3
  <2>5. DOMAIN run.placed \cup DOMAIN run.buf \in SUBSET StageB!Modules
    BY <2>1, <2>2
  <2> QED BY <2>4, <2>5 DEF Placements
<1>13. /\ run'.prog = "stream" /\ run'.at = "units" /\ run'.format = run.format
       /\ run'.unit = run.unit /\ run'.buf = StageB!Nothing /\ run'.placed = pl
       /\ run'.shards = k /\ run'.used = run.used
  BY <1>1, <1>3, <1>6 DEF StreamRuns
<1>14. run' \in StreamRuns
  <2>1. run' = [prog |-> "stream", at |-> "units", format |-> run.format, limit |-> run.limit,
                unit |-> run.unit, buf |-> StageB!Nothing, placed |-> pl, shards |-> k,
                used |-> run.used]
    BY Zenon, <1>1, <1>3, <1>6 DEF StreamRuns
  <2>2. [prog |-> "stream", at |-> "units", format |-> run.format, limit |-> run.limit,
         unit |-> run.unit, buf |-> StageB!Nothing, placed |-> pl, shards |-> k,
         used |-> run.used] \in StreamRuns
    BY <1>2, <1>8, <1>12, NothingIs, StreamRecord
  <2> QED BY <2>1, <2>2
<1>15. PICK w : w = run.format
  OBVIOUS
<1>16. ASSUME NEW m \in DOMAIN pl
       PROVE  /\ pl[m] \in 1..k /\ StoredIn(pl[m], m, w)' /\ ShardIsOwn(pl[m], pl)'
              /\ EmittedWell(m, w)' /\ Through(m)'
  <2>0. /\ DOMAIN dir' = DOMAIN dir \cup {<<k, 0>>} /\ dir'[<<k, 0>>] = f
        /\ \A x \in DOMAIN dir \ {<<k, 0>>} : dir'[x] = dir[x]
    BY <1>6, ShardPutIs
  <2>3. Through(m)' = Through(m)
    BY <1>13 DEF Through
  <2>1. CASE m \in DOMAIN run.buf
    <3>1. run.buf[m] = StageB!Emit(m, w) /\ EmittedWell(m, w) /\ Through(m)
      BY <1>1, <1>15, <2>1 DEF StreamKnows
    <3>2. StoredIn(k, m, w)'
      BY <1>0, <1>7, <2>0, <2>1, <3>1, ArtKept DEF StoredIn
    <3>3. ShardIsOwn(k, pl)'
      BY <1>7, <1>11, <2>0 DEF ShardIsOwn
    <3> QED BY <1>0, <1>8, <1>11, <2>1, <2>3, <3>1, <3>2, <3>3, ArtKept
  <2>2. CASE m \in DOMAIN run.placed \ DOMAIN run.buf
    <3>1. PICK i : i = run.placed[m]
      OBVIOUS
    <3>2. /\ i \in 1..run.shards /\ StoredIn(i, m, w) /\ EmittedWell(m, w)
          /\ Through(m) /\ ShardIsOwn(i, run.placed)
      BY <1>1, <1>15, <2>2, <3>1 DEF StreamKnows
    <3>3. <<i, 0>> # <<k, 0>> /\ <<i, 0>> \in DOMAIN dir /\ i \in 1..k
      BY <1>2, <1>3, <3>2 DEF StoredIn
    <3>4. <<i, 0>> \in DOMAIN dir' /\ dir'[<<i, 0>>] = dir[<<i, 0>>]
      BY <2>0, <3>3
    <3>5. StoredIn(i, m, w)'
      BY <1>0, <3>2, <3>4, ArtKept DEF StoredIn
    <3>6. \A x \in DOMAIN run.placed : x \notin DOMAIN run.buf
      BY <1>1 DEF StreamKnows
    <3>7. ShardIsOwn(i, pl)'
      BY <1>11, <3>2, <3>4, <3>6 DEF ShardIsOwn
    <3> QED BY <1>0, <1>11, <2>2, <2>3, <3>1, <3>2, <3>3, <3>5, <3>7, ArtKept
  <2> QED BY <1>11, <2>1, <2>2
<1>17. \A i \in 1..Len(PackUnits) : i < run.unit =>
          \A m \in PackUnits[i] : m \in DOMAIN StageB!Nothing \/ m \in DOMAIN pl
  BY <1>1, <1>11 DEF StreamKnows
<1>18. \A q \in run.used : \E m \in StageB!Modules :
          StageB!Injects(m) /\ q \in StageB!Pieces(m)
  BY <1>1 DEF StreamKnows
<1>19. StreamKnows'
  BY <1>0, <1>13, <1>15, <1>16, <1>17, <1>18, NothingIs, ArtKept DEF StreamKnows
<1>20. StreamIs'
  BY <1>0, <1>1, <1>13, <1>14, <1>19 DEF StreamIs
<1> QED BY <1>0, <1>10, <1>13, <1>20, StreamMoves

LEMMA StreamCheckHolds ==
    ASSUME PackInv, StageB!StreamCheck
    PROVE  PackInv'
<1>0. /\ run.prog = "stream" /\ run.at = "check"
      /\ UNCHANGED <<art, dir, cfg, origin, ready, mixed>>
  BY DEF StageB!StreamCheck
<1>1. run \in StreamRuns /\ ready = "no" /\ origin = "stream" /\ StreamKnows /\ DirIs
  BY <1>0, StreamTold
<1>2. CASE ~(DOMAIN art \subseteq run.used)
  <2>1. StageB!Raise
    BY <1>2 DEF StageB!StreamCheck
  <2> QED BY <1>0, <2>1, RaiseHolds
<1>3. CASE DOMAIN art \subseteq run.used
  <2>1. run' = [run EXCEPT !.at = "index"]
    BY <1>3 DEF StageB!StreamCheck
  <2>2. /\ run' \in StreamRuns /\ run'.prog = "stream" /\ run'.at = "index"
        /\ run'.unit = run.unit /\ run'.buf = run.buf /\ run'.used = run.used
    BY <1>1, <2>1, StreamAt
  <2>3. StreamKnows'
    BY <1>0, <1>1, <2>1, StreamKnowsOn
  <2>4. run.unit > Len(PackUnits) /\ DOMAIN run.buf = {}
    BY <1>0 DEF PackInv, StreamIs
  <2>5. StreamIs'
    BY <1>0, <1>1, <1>3, <2>2, <2>3, <2>4 DEF StreamIs, StreamKnows
  <2>6. DirIs'
    BY <1>0, <1>1, DirKept
  <2> QED BY <1>0, <2>2, <2>5, <2>6, StreamMoves
<1> QED BY <1>2, <1>3

LEMMA StreamIndexHolds ==
    ASSUME PackInv, StageB!StreamIndex
    PROVE  PackInv'
<1>0. /\ run.prog = "stream" /\ run.at = "index"
      /\ UNCHANGED <<art, dir, origin, ready, mixed>>
      /\ run' = [run EXCEPT !.at = "config"]
      /\ idx'.state = "there" /\ idx'.shard = run.placed
  BY DEF StageB!StreamIndex
<1>1. run \in StreamRuns /\ ready = "no" /\ origin = "stream" /\ StreamKnows /\ DirIs
  BY <1>0, StreamTold
<1>2. /\ run' \in StreamRuns /\ run'.prog = "stream" /\ run'.at = "config"
      /\ run'.unit = run.unit /\ run'.buf = run.buf /\ run'.used = run.used
      /\ run'.placed = run.placed
  BY <1>0, <1>1, StreamAt
<1>3. StreamKnows'
  BY <1>0, <1>1, StreamKnowsOn
<1>4. run.unit > Len(PackUnits) /\ DOMAIN run.buf = {} /\ DOMAIN art \subseteq run.used
  BY <1>0 DEF PackInv, StreamIs
<1>5. StreamIs'
  BY <1>0, <1>1, <1>2, <1>3, <1>4 DEF StreamIs
<1>6. DirIs'
  BY <1>0, <1>1, DirKept
<1> QED BY <1>0, <1>2, <1>5, <1>6, StreamMoves

LEMMA StreamConfigHolds ==
    ASSUME PackInv, StageB!StreamConfig
    PROVE  PackInv'
<1>0. /\ run.prog = "stream" /\ run.at = "config" /\ ready' = "stream"
      /\ UNCHANGED <<art, dir, idx, origin, mixed>> /\ run'.prog = "idle"
  BY DEF StageB!StreamConfig, StageB!Idle
<1>1. run \in StreamRuns /\ ready = "no" /\ origin = "stream" /\ StreamKnows /\ DirIs
  BY <1>0, StreamTold
<1>2. PICK none : none = [m \in {} |-> 0]
  OBVIOUS
<1>3. cfg' = [state |-> "there", format |-> run.format, single |-> none]
  BY <1>2 DEF StageB!StreamConfig
<1>4. /\ run.unit > Len(PackUnits) /\ DOMAIN run.buf = {} /\ DOMAIN art \subseteq run.used
      /\ idx.state = "there" /\ idx.shard = run.placed
  BY <1>0 DEF PackInv, StreamIs
<1>5. PICK w : w = run.format
  OBVIOUS
<1>6. w \in PackFormats /\ run.unit \in Nat
  BY <1>1, <1>5, StreamFields
<1>7. cfg'.state = "there" /\ cfg'.format = w /\ \A m : StageB!FormatIn(cfg, m)' = w
  BY <1>2, <1>3, <1>5 DEF StageB!FormatIn
<1>8. StageB!Stray \notin DOMAIN art
  BY <1>1, <1>4, PiecesAre DEF StreamKnows
<1>9. ASSUME NEW m \in StageB!Modules
      PROVE  ReadFrom(<<idx.shard[m], 0>>, m)'
  <2>1. PICK i \in 1..Len(PackUnits) : m \in PackUnits[i]
    BY PackIs
  <2>2. i < run.unit
    BY <1>4, <1>6, <2>1, PackIs
  <2>3. m \in DOMAIN run.placed
    BY <1>1, <1>4, <2>1, <2>2 DEF StreamKnows
  <2>4. PICK s : s = run.placed[m]
    OBVIOUS
  <2>5. StoredIn(s, m, w) /\ EmittedWell(m, w) /\ ShardIsOwn(s, run.placed)
    BY <1>1, <1>5, <2>3, <2>4 DEF StreamKnows
  <2>6. StageB!Has(m) => StageB!Injects(m)
    <3> SUFFICES ASSUME StageB!Has(m) PROVE StageB!Injects(m)
      OBVIOUS
    <3>1. PICK q : q \in StageB!Pieces(m)
      BY PiecesAre
    <3>2. q \in run.used
      BY <1>4, <3>1 DEF StageB!Has
    <3>3. PICK k \in StageB!Modules : StageB!Injects(k) /\ q \in StageB!Pieces(k)
      BY <1>1, <3>2 DEF StreamKnows
    <3> QED BY <3>1, <3>3, PiecesAre
  <2>7. PICK c : c = StageB!Emit(m, w)
    OBVIOUS
  <2>8. /\ (c.src = "calib") <=> StageB!Has(m)
        /\ c # StageB!Kept => c.format = IF StageB!Injects(m) THEN StageB!Planes(m) ELSE w
        /\ c.src = "calib" => c # StageB!Kept
    BY <1>1, <1>6, <2>6, <2>7, EmitIs DEF StageB!Kept, StageB!Injects
  <2>9. ASSUME StageB!OfOneMode' PROVE StageB!Right(c, m, cfg)'
    <3>1. w.mode = "mxfp" /\ \A q \in DOMAIN art : art[q].mode = "mxfp"
      BY <1>0, <1>7, <2>9 DEF StageB!OfOneMode
    <3>2. ASSUME StageB!Has(m)
          PROVE  StageB!Planes(m) = w /\ StageB!Fits(m, w)
      <4>1. w \in CellFormats /\ \A q \in DOMAIN art : art[q] \in CellFormats
        BY <1>1, <1>6, PackIs DEF DirIs
      <4>2. \A q \in StageB!Pieces(m) : q \in DOMAIN art /\ art[q].bits = w.bits
        BY <2>5, <2>6, <3>2 DEF EmittedWell, StageB!SizesFit, StageB!Has
      <4>3. \A f \in CellFormats : f.mode = w.mode /\ f.bits = w.bits => f = w
        BY <4>1, FormatsAre
      <4>4. \A q \in StageB!Pieces(m) : art[q] = w
        BY <3>1, <4>1, <4>2, <4>3
      <4>5. <<m, 1>> \in StageB!Pieces(m)
        BY OfflineAssumption DEF OfflineAssumption, StageB!PackingAssumption, StageB!Pieces
      <4> QED BY <3>1, <4>4, <4>5 DEF StageB!Planes, StageB!Fits
    <3>3. StageB!Has(m) => c.format = w /\ StageB!Fits(m, w)
      BY <2>6, <2>8, <3>2
    <3>4. c # StageB!Kept => c.format = w
      BY <2>8, <3>3 DEF StageB!Injects
    <3> QED BY <1>0, <1>7, <2>8, <3>3, <3>4 DEF StageB!Right, StageB!Has, StageB!Fits
  <2>10. /\ <<s, 0>> \in DOMAIN dir /\ dir[<<s, 0>>].whole /\ m \in DOMAIN dir[<<s, 0>>].cells
         /\ dir[<<s, 0>>].cells[m] = c
         /\ \A k \in DOMAIN dir[<<s, 0>>].cells : idx.shard[k] = s
    BY <1>4, <2>5, <2>7 DEF StoredIn, ShardIsOwn
  <2>12. StageB!Has(m)' = StageB!Has(m)
    BY <1>0, ArtKept
  <2>11. ReadFrom(<<s, 0>>, m)'
    BY <1>0, <2>8, <2>9, <2>10, <2>12 DEF ReadFrom
  <2> QED BY <1>0, <1>4, <2>4, <2>11
<1>10. ReadyIs'
  BY <1>0, <1>4, <1>7, <1>8, <1>9 DEF ReadyIs
<1>11. StreamIs' /\ InjectIs' /\ ConvertIs' /\ OriginIs'
  BY <1>0, <1>1 DEF StreamIs, InjectIs, ConvertIs, OriginIs
<1>12. MixIs'
  BY <1>0 DEF PackInv, MixIs, StageB!Right, StageB!Has, StageB!Fits
<1>13. DirIs'
  BY <1>0, <1>1, DirKept
<1> QED BY <1>10, <1>11, <1>12, <1>13 DEF PackInv

LEMMA CellsMade ==
    ASSUME NEW w \in CellFormats
    PROVE  /\ StageB!Cell("rtn", w) \in Cells /\ StageB!Cell("rtn", w).format = w
           /\ StageB!Cell("rtn", w).src = "rtn"
           /\ StageB!Cell("calib", w) \in Cells /\ StageB!Cell("calib", w).format = w
           /\ StageB!Cell("calib", w).src = "calib"
           /\ StageB!Kept.src = "kept" /\ StageB!Kept \in Cells
BY NothingIs DEF StageB!Cell, StageB!Kept, Cells

LEMMA PackConvertHolds ==
    ASSUME PackInv, NEW w \in PackFormats, StageB!Convert(w)
    PROVE  PackInv'
<1>1. PICK over : over = StageB!Override(w)
  OBVIOUS
<1>2. PICK c : c = [state |-> "there", format |-> w, single |-> over]
  BY Zenon
<1>3. PICK D : D = {<<i, 0>> : i \in 1..Len(PackUnits)}
  BY Zenon
<1>4. /\ cfg' = c /\ ready' = "no" /\ origin' = "convert" /\ run'.prog = "idle"
      /\ UNCHANGED <<art, mixed>>
  BY <1>1, <1>2 DEF StageB!Convert, StageB!Begin, StageB!Idle
<1>5. dir' = [n \in D |->
                [whole |-> TRUE,
                 cells |-> [m \in PackUnits[n[1]] |->
                    IF m \in PackExcluded THEN StageB!Kept
                    ELSE StageB!Cell("rtn", StageB!FormatIn(c, m))]]]
  BY <1>1, <1>2, <1>3 DEF StageB!Convert
<1>6. idx'.shard = [m \in StageB!Modules |->
                      CHOOSE i \in 1..Len(PackUnits) : m \in PackUnits[i]]
  BY DEF StageB!Convert
<1>7. /\ c.state = "there" /\ \A m : StageB!FormatIn(c, m) = IF m \in DOMAIN over THEN over[m] ELSE w
  BY <1>2 DEF StageB!FormatIn
<1>8. \A m : StageB!FormatIn(c, m) \in CellFormats
  <2>1. ASSUME NEW m \in DOMAIN over PROVE over[m] \in PackFormats
    <3>1. /\ m \in StageB!Deviating(w)
          /\ over[m] = CHOOSE v \in PackFormats :
                          \E q \in StageB!Pieces(m) \cap DOMAIN art : art[q] = v /\ v # w
      BY <1>1, <2>1 DEF StageB!Override
    <3>2. PICK q \in StageB!Pieces(m) \cap DOMAIN art : art[q] # w
      BY <3>1 DEF StageB!Deviating
    <3>3. art[q] \in PackFormats
      BY <3>2 DEF PackInv, DirIs
    <3>4. \E v \in PackFormats :
             \E r \in StageB!Pieces(m) \cap DOMAIN art : art[r] = v /\ v # w
      BY <3>2, <3>3
    <3> QED BY <3>1, <3>4
  <2> QED BY <1>7, <2>1, PackIs
<1>9. \A n \in D : n[1] \in 1..Len(PackUnits) /\ n \in ShardNames /\ n = <<n[1], 0>>
  BY <1>3, PackIs DEF ShardNames
<1>10. ASSUME NEW n \in D
       PROVE  /\ dir'[n].whole = TRUE /\ dir'[n].cells \in Bufs
              /\ DOMAIN dir'[n].cells = PackUnits[n[1]]
              /\ \A m \in PackUnits[n[1]] :
                    /\ m \in PackExcluded => dir'[n].cells[m] = StageB!Kept
                    /\ m \notin PackExcluded =>
                          dir'[n].cells[m] = StageB!Cell("rtn", StageB!FormatIn(c, m))
  <2>1. PICK U : U = PackUnits[n[1]]
    OBVIOUS
  <2>2. PICK cs : cs = [m \in U |-> IF m \in PackExcluded THEN StageB!Kept
                                    ELSE StageB!Cell("rtn", StageB!FormatIn(c, m))]
    BY Zenon
  <2>3. dir'[n].whole = TRUE /\ dir'[n].cells = cs
    BY <1>5, <2>1, <2>2
  <2>4. U \in SUBSET StageB!Modules
    BY <1>9, <2>1, PackIs
  <2>5. cs \in [U -> Cells]
    BY <1>8, <2>2, CellsMade
  <2>6. cs \in Bufs
    BY <2>4, <2>5, InBufs
  <2> QED BY <2>1, <2>2, <2>3, <2>6
<1>11. DOMAIN dir' = D
  BY <1>5
<1>12. ASSUME NEW n \in D, NEW m \in PackUnits[n[1]]
       PROVE  /\ dir'[n].cells[m].src # "calib"
              /\ dir'[n].cells[m] = StageB!Kept => m \in PackExcluded
              /\ dir'[n].cells[m] # StageB!Kept =>
                    dir'[n].cells[m].format = StageB!FormatIn(c, m)
  <2>1. PICK v : v = StageB!FormatIn(c, m)
    OBVIOUS
  <2>2. PICK x : x = dir'[n].cells[m]
    OBVIOUS
  <2>3. v \in CellFormats /\ x = IF m \in PackExcluded THEN StageB!Kept ELSE StageB!Cell("rtn", v)
    BY Zenon, <1>8, <1>10, <2>1, <2>2
  <2>4. /\ x.src # "calib" /\ (x = StageB!Kept => m \in PackExcluded)
        /\ x # StageB!Kept => x.format = v
    BY <2>3, CellsMade
  <2> QED BY <2>1, <2>2, <2>4
<1>13. DirIs'
  <2>1. \A q \in DOMAIN art : art[q] \in PackFormats
    BY DEF PackInv, DirIs
  <2>2. ASSUME NEW n \in D PROVE CellsAre(dir[n].cells)'
    <3>1. PICK f : f = dir'[n].cells
      OBVIOUS
    <3>2. \A m \in DOMAIN f : f[m].src # "calib" /\ (f[m] = StageB!Kept => m \in PackExcluded)
      BY Zenon, <1>10, <1>12, <3>1
    <3>3. CellsAre(f)'
      BY <3>2 DEF CellsAre
    <3> QED BY <3>1, <3>3
  <2> QED BY Zenon, <1>4, <1>9, <1>10, <1>11, <2>1, <2>2 DEF DirIs
<1>14. \A m : StageB!FormatIn(cfg, m)' = StageB!FormatIn(c, m)
  BY <1>4 DEF StageB!FormatIn
<1>15. \A n \in D : ConvertedIs(n)'
  BY Zenon, <1>9, <1>10, <1>12, <1>14 DEF ConvertedIs
<1>16. \A m \in StageB!Modules : idx'.shard[m] \in 1..Len(PackUnits) /\ m \in PackUnits[idx'.shard[m]]
  BY <1>6, PackIs
<1>17. \A i \in 1..Len(PackUnits) : <<i, 0>> \in D
  BY <1>3
<1>18. ConvertIs'
  BY Zenon, <1>4, <1>7, <1>10, <1>11, <1>15, <1>16, <1>17 DEF ConvertIs
<1>19. StreamIs' /\ InjectIs' /\ ReadyIs' /\ OriginIs'
  BY <1>4 DEF StreamIs, InjectIs, ReadyIs, OriginIs
<1>20. MixIs'
  BY <1>4 DEF PackInv, MixIs, StageB!Right, StageB!Has, StageB!Fits
<1> QED BY <1>13, <1>18, <1>19, <1>20 DEF PackInv

LEMMA InjectRecord ==
    ASSUME NEW a \in {"shard", "saving", "replace"}, NEW t \in SUBSET ShardNames,
           NEW n \in Nat \X Nat, NEW us \in SUBSET AllPieces
    PROVE  [prog |-> "inject", at |-> a, todo |-> t, shard |-> n, used |-> us] \in InjectRuns
BY DEF InjectRuns

LEMMA InjectFields ==
    ASSUME NEW r \in InjectRuns
    PROVE  /\ r.at \in {"shard", "saving", "replace"} /\ r.todo \in SUBSET ShardNames
           /\ r.shard \in Nat \X Nat /\ r.used \in SUBSET AllPieces
BY DEF InjectRuns

\* A step of inject that changes its own run.
LEMMA InjectAt ==
    ASSUME run \in InjectRuns, NEW a \in {"shard", "saving", "replace"},
           NEW t \in SUBSET ShardNames, NEW n \in Nat \X Nat, NEW us \in SUBSET AllPieces,
           run' = [run EXCEPT !.at = a, !.todo = t, !.shard = n, !.used = us]
    PROVE  /\ run' \in InjectRuns /\ run'.prog = "inject" /\ run'.at = a /\ run'.todo = t
           /\ run'.shard = n /\ run'.used = us
<1>1. run'.prog = "inject" /\ run'.at = a /\ run'.todo = t /\ run'.shard = n /\ run'.used = us
  BY DEF InjectRuns
<1>2. run' = [prog |-> "inject", at |-> a, todo |-> t, shard |-> n, used |-> us]
  BY Zenon DEF InjectRuns
<1>3. [prog |-> "inject", at |-> a, todo |-> t, shard |-> n, used |-> us] \in InjectRuns
  BY InjectRecord
<1>4. run' \in InjectRuns
  BY Zenon, <1>2, <1>3
<1> QED BY <1>1, <1>4

\* While inject runs it is the directory and its own run that matter.
LEMMA InjectMoves ==
    ASSUME PackInv, run.prog = "inject", UNCHANGED <<art, cfg, idx, origin, ready, mixed>>,
           run'.prog \in {"inject", "idle"}, DirIs', ConvertIs', InjectIs'
    PROVE  PackInv'
<1>1. ready = "no"
  BY DEF PackInv, InjectIs
<1>2. StreamIs' /\ ReadyIs' /\ OriginIs'
  BY <1>1 DEF StreamIs, ReadyIs, PackInv, OriginIs
<1>3. MixIs'
  BY DEF PackInv, MixIs, StageB!Right, StageB!Has, StageB!Fits
<1> QED BY <1>2, <1>3 DEF PackInv

LEMMA ConvertKept ==
    ASSUME ConvertIs, UNCHANGED <<dir, cfg, idx, origin>>, run'.prog # "stream"
    PROVE  ConvertIs'
BY DEF ConvertIs, ConvertedIs

LEMMA InjectStartHolds ==
    ASSUME PackInv, StageB!InjectStart
    PROVE  PackInv'
<1>1. PICK D : D = DOMAIN dir
  OBVIOUS
<1>2. PICK z : z = <<0, 0>>
  BY Zenon
<1>3. /\ run' = [prog |-> "inject", at |-> "shard", todo |-> D, shard |-> z, used |-> {}]
      /\ ready' = "no" /\ UNCHANGED <<art, dir, cfg, idx, origin, mixed>> /\ cfg.state = "there"
  BY <1>1, <1>2 DEF StageB!InjectStart, StageB!Begin
<1>4. D \in SUBSET ShardNames /\ z \in Nat \X Nat
  BY <1>1, <1>2 DEF PackInv, DirIs
<1>5. run' \in InjectRuns
  BY <1>3, <1>4, InjectRecord
<1>6. run'.prog = "inject" /\ run'.at = "shard" /\ run'.todo = D /\ run'.used = {}
  BY <1>3
<1>7. InjectIs'
  BY <1>1, <1>3, <1>5, <1>6 DEF InjectIs
<1>8. DirIs' /\ ConvertIs'
  BY <1>3, <1>6, DirKept, ConvertKept DEF PackInv
<1>9. StreamIs' /\ ReadyIs' /\ OriginIs'
  BY <1>3, <1>6 DEF StreamIs, ReadyIs, PackInv, OriginIs
<1>10. MixIs'
  BY <1>3, <1>6 DEF PackInv, MixIs, StageB!Right, StageB!Has, StageB!Fits
<1> QED BY <1>7, <1>8, <1>9, <1>10 DEF PackInv

\* What inject knows of its own run.
LEMMA InjectTold ==
    ASSUME PackInv, run.prog = "inject"
    PROVE  /\ run \in InjectRuns /\ ready = "no" /\ cfg.state = "there"
           /\ DirIs /\ ConvertIs /\ run.todo \subseteq DOMAIN dir
           /\ \A q \in run.used : \E m \in StageB!Modules :
                 q \in StageB!Pieces(m) /\ (origin = "convert" => m \notin PackExcluded)
BY DEF PackInv, InjectIs

LEMMA InjectRaiseHolds ==
    ASSUME PackInv, run.prog = "inject", StageB!Raise,
           UNCHANGED <<art, dir, cfg, idx, origin, ready, mixed>>
    PROVE  PackInv'
<1>1. run'.prog = "idle"
  BY DEF StageB!Raise, StageB!Idle
<1>2. DirIs' /\ ConvertIs' /\ InjectIs'
  BY <1>1, DirKept, ConvertKept DEF PackInv, InjectIs
<1> QED BY <1>1, <1>2, InjectMoves

\* A shard inject has nothing to do with is as it should be.
LEMMA UntouchedIsTreated ==
    ASSUME NEW f, f.whole, ~StageB!Rejected(f.cells), StageB!Injected(f.cells) = {}
    PROVE  Treated(f)
BY DEF Treated, StageB!Injected, StageB!Quantized

LEMMA TmpIs ==
    ASSUME NEW n \in ShardNames
    PROVE  /\ StageB!Tmp(n) \in ShardNames /\ StageB!Tmp(n) # n
           /\ StageB!Tmp(n)[1] = n[1] /\ StageB!Tmp(n)[2] # 0
           /\ ~StageB!Before(n, StageB!Tmp(n))
BY DEF StageB!Tmp, StageB!Before, ShardNames

LEMMA TreatedKept ==
    ASSUME UNCHANGED <<art, cfg>>
    PROVE  \A f : Treated(f)' = Treated(f)
BY DEF Treated, StageB!Has, StageB!Fits, StageB!FormatIn

LEMMA InjectShardHolds ==
    ASSUME PackInv, NEW n \in DOMAIN dir, StageB!InjectShard(n)
    PROVE  PackInv'
<1>0. /\ run.prog = "inject" /\ run.at = "shard" /\ n \in run.todo
      /\ StageB!First(run.todo, n) /\ UNCHANGED <<art, cfg, idx, origin, ready, mixed>>
  BY DEF StageB!InjectShard
<1>1. PICK f : f = dir[n]
  OBVIOUS
<1>2. /\ run \in InjectRuns /\ ready = "no" /\ cfg.state = "there"
      /\ DirIs /\ ConvertIs /\ run.todo \subseteq DOMAIN dir
      /\ \A q \in run.used : \E m \in StageB!Modules :
            q \in StageB!Pieces(m) /\ (origin = "convert" => m \notin PackExcluded)
  BY <1>0, InjectTold
<1>3. /\ n \in ShardNames /\ f.cells \in Bufs /\ CellsAre(f.cells) /\ f.whole \in BOOLEAN
  BY <1>1, <1>2 DEF DirIs
<1>4. \A x \in DOMAIN dir \ run.todo : Treated(dir[x])
  BY <1>0 DEF PackInv, InjectIs
<1>5. PICK t : t = run.todo \ {n}
  BY Zenon
<1>6. /\ run.shard \in Nat \X Nat /\ run.used \in SUBSET AllPieces /\ t \in SUBSET ShardNames
  BY <1>2, <1>5, InjectFields
<1>7. CASE ~f.whole \/ StageB!Rejected(f.cells)
  <2>1. StageB!Raise /\ UNCHANGED dir
    BY <1>1, <1>7 DEF StageB!InjectShard
  <2> QED BY <1>0, <2>1, InjectRaiseHolds
<1>8. CASE f.whole /\ ~StageB!Rejected(f.cells) /\ StageB!Injected(f.cells) = {}
  <2>1. run' = [run EXCEPT !.todo = t] /\ UNCHANGED dir
    BY <1>1, <1>5, <1>8 DEF StageB!InjectShard
  <2>7. PICK o : o = run.shard
    OBVIOUS
  <2>8. PICK us : us = run.used
    OBVIOUS
  <2>2. run' = [run EXCEPT !.at = "shard", !.todo = t, !.shard = o, !.used = us]
    BY Zenon, <1>0, <1>2, <2>1, <2>7, <2>8 DEF InjectRuns
  <2>9. o \in Nat \X Nat /\ us \in SUBSET AllPieces
    BY <1>6, <2>7, <2>8
  <2>10. /\ run' \in InjectRuns /\ run'.prog = "inject" /\ run'.at = "shard" /\ run'.todo = t
         /\ run'.shard = o /\ run'.used = us
    BY <1>2, <1>6, <2>2, <2>9, InjectAt, Zenon
  <2>3. /\ run' \in InjectRuns /\ run'.prog = "inject" /\ run'.at = "shard" /\ run'.todo = t
        /\ run'.used = run.used
    BY <2>8, <2>10
  <2>4. \A x \in DOMAIN dir \ t : Treated(dir[x])
    BY <1>1, <1>4, <1>5, <1>8, UntouchedIsTreated
  <2>5. InjectIs'
    BY <1>0, <1>2, <1>5, <2>1, <2>3, <2>4, TreatedKept DEF InjectIs
  <2>6. DirIs' /\ ConvertIs'
    BY <1>0, <1>2, <2>1, <2>3, DirKept, ConvertKept
  <2> QED BY <1>0, <2>3, <2>5, <2>6, InjectMoves
<1>9. CASE f.whole /\ ~StageB!Rejected(f.cells) /\ StageB!Injected(f.cells) # {}
  <2>1. PICK k : k = StageB!Tmp(n)
    OBVIOUS
  <2>2. PICK us : us = run.used \cup UNION {StageB!Pieces(m) : m \in StageB!Injected(f.cells)}
    BY Zenon
  <2>3. PICK torn : torn = StageB!Torn
    OBVIOUS
  <2>4. /\ run' = [run EXCEPT !.at = "saving", !.todo = t, !.shard = n, !.used = us]
        /\ StageB!Put(k, torn)
    BY <1>1, <1>5, <1>9, <2>1, <2>2, <2>3 DEF StageB!InjectShard
  <2>5. k \in ShardNames /\ k # n /\ k[1] = n[1] /\ k[2] # 0 /\ k \notin run.todo
    BY <1>0, <1>3, <2>1, TmpIs DEF StageB!First
  <2>6. \A m \in StageB!Injected(f.cells) :
           m \in StageB!Modules /\ (origin = "convert" => m \notin PackExcluded)
    <3>1. \A m \in StageB!Injected(f.cells) : m \in DOMAIN f.cells /\ f.cells[m] # StageB!Kept
      BY DEF StageB!Injected, StageB!Quantized
    <3>2. DOMAIN f.cells \in SUBSET StageB!Modules
      BY <1>3, BufsAre
    <3>3. origin = "convert" => \A m \in DOMAIN f.cells : m \in PackExcluded => f.cells[m] = StageB!Kept
      BY <1>1, <1>2, <1>9 DEF ConvertIs, ConvertedIs
    <3> QED BY <3>1, <3>2, <3>3
  <2>7. /\ us \in SUBSET AllPieces
        /\ \A q \in us : \E m \in StageB!Modules :
              q \in StageB!Pieces(m) /\ (origin = "convert" => m \notin PackExcluded)
    <3>1. \A q \in us : \E m \in StageB!Modules :
              q \in StageB!Pieces(m) /\ (origin = "convert" => m \notin PackExcluded)
      BY <1>2, <2>2, <2>6
    <3> QED BY <3>1 DEF AllPieces
  <2>8. n \in Nat \X Nat
    BY <1>3 DEF ShardNames
  <2>9. /\ run' \in InjectRuns /\ run'.prog = "inject" /\ run'.at = "saving" /\ run'.todo = t
        /\ run'.shard = n /\ run'.used = us
    BY <1>2, <1>6, <2>4, <2>7, <2>8, InjectAt, Zenon
  <2>10. /\ DOMAIN dir' = DOMAIN dir \cup {k} /\ dir'[k] = torn
         /\ \A x \in DOMAIN dir \ {k} : dir'[x] = dir[x]
    BY <2>4, ShardPutIs
  <2>11. DirIs'
    BY Zenon, <1>0, <1>2, <2>3, <2>4, <2>5, TornIs, PutHolds
  <2>12. \A x \in DOMAIN dir' \ (t \cup {n, k}) : Treated(dir'[x])
    BY <1>4, <1>5, <2>10
  <2>13. n \in DOMAIN dir' \ t /\ k \in DOMAIN dir' \ t /\ dir'[n] = f /\ t \subseteq DOMAIN dir'
    BY <1>1, <1>2, <1>5, <2>5, <2>10
  <2>14. StageB!Rejected(f.cells)' = StageB!Rejected(f.cells)
    BY <1>0 DEF StageB!Rejected, StageB!Injected, StageB!Quantized, StageB!Has, StageB!HasSome,
                StageB!Fits, StageB!FormatIn, StageB!RejectedAs
  <2>15. ~StageB!Rejected(dir[n].cells)'
    BY <1>9, <2>13, <2>14
  <2>16. \A x \in DOMAIN dir' \ (t \cup {n, k}) : Treated(dir[x])'
    BY <1>0, <2>12, TreatedKept
  <2>17. InjectIs'
    BY <1>0, <1>2, <1>9, <2>1, <2>7, <2>9, <2>13, <2>15, <2>16 DEF InjectIs, StageB!Tmp
  <2>18. ConvertIs'
    <3> SUFFICES ASSUME origin = "convert" PROVE ConvertIs'
      BY <1>0 DEF ConvertIs
    <3>1. ConvertedIs(k)'
      BY <1>2, <2>3, <2>5, <2>10, TornIs DEF ConvertIs, ConvertedIs
    <3>2. \A x \in DOMAIN dir \ {k} : ConvertedIs(x)'
      BY <1>0, <1>2, <2>10 DEF ConvertIs, ConvertedIs, StageB!FormatIn
    <3>3. ASSUME NEW i \in 1..Len(PackUnits)
          PROVE  <<i, 0>> \in DOMAIN dir' /\ dir'[<<i, 0>>].whole
      <4>1. PICK x : x = <<i, 0>>
        BY Zenon
      <4>2. x \in DOMAIN dir /\ dir[x].whole
        BY <1>0, <1>2, <4>1 DEF ConvertIs
      <4>3. x # k
        BY <2>5, <4>1
      <4> QED BY <2>10, <4>1, <4>2, <4>3
    <3> QED BY <1>0, <1>2, <2>9, <2>10, <3>1, <3>2, <3>3 DEF ConvertIs
  <2> QED BY <1>0, <2>9, <2>11, <2>17, <2>18, InjectMoves
<1> QED BY <1>3, <1>7, <1>8, <1>9

LEMMA ArtifactsPut ==
    ASSUME NEW c \in Bufs, CellsAre(c), ~StageB!Rejected(c),
           NEW d, d = StageB!WithArtifacts(c)
    PROVE  /\ d \in Bufs /\ DOMAIN d = DOMAIN c /\ CellsAre(d)
           /\ \A m \in DOMAIN c : /\ (d[m] = StageB!Kept) <=> (c[m] = StageB!Kept)
                                  /\ d[m].format = c[m].format
                                  /\ StageB!Has(m) /\ d[m] # StageB!Kept =>
                                        d[m].src = "calib" /\ StageB!Fits(m, StageB!FormatIn(cfg, m))
<1>1. DOMAIN c \in SUBSET StageB!Modules /\ \A m \in DOMAIN c : c[m] \in Cells
  BY BufsAre
<1>2. DOMAIN d = DOMAIN c
  BY DEF StageB!WithArtifacts
<1>3. ASSUME NEW m \in DOMAIN c
      PROVE  /\ d[m] \in Cells
             /\ (d[m] = StageB!Kept) <=> (c[m] = StageB!Kept)
             /\ d[m].format = c[m].format
             /\ StageB!Has(m) /\ d[m] # StageB!Kept =>
                   d[m].src = "calib" /\ StageB!Fits(m, StageB!FormatIn(cfg, m))
             /\ d[m].src = "calib" => StageB!Has(m)
  <2>1. PICK w : w = c[m].format
    OBVIOUS
  <2>2. w \in CellFormats
    BY <1>1, <2>1 DEF Cells
  <2>3. CASE m \in StageB!Injected(c)
    <3>1. d[m] = StageB!Cell("calib", w)
      BY <2>1, <2>3 DEF StageB!WithArtifacts
    <3>2. c[m] # StageB!Kept /\ StageB!Has(m) /\ StageB!Fits(m, StageB!FormatIn(cfg, m))
      BY <2>3 DEF StageB!Injected, StageB!Quantized, StageB!Rejected, StageB!RejectedAs
    <3> QED BY <2>1, <2>2, <3>1, <3>2, CellsMade
  <2>4. CASE m \notin StageB!Injected(c)
    <3>1. d[m] = c[m]
      BY <2>4 DEF StageB!WithArtifacts
    <3>2. ~(StageB!Has(m) /\ c[m] # StageB!Kept)
      BY <2>4 DEF StageB!Injected, StageB!Quantized
    <3> QED BY <1>1, <3>1, <3>2 DEF CellsAre
  <2> QED BY <2>3, <2>4
<1>4. d \in [DOMAIN c -> Cells]
  BY <1>3 DEF StageB!WithArtifacts
<1>5. d \in Bufs
  BY <1>1, <1>4, InBufs
<1>6. CellsAre(d)
  BY <1>2, <1>3 DEF CellsAre
<1> QED BY <1>2, <1>3, <1>5, <1>6

\* What inject holds between the file beside a shard and the shard itself.
LEMMA SavingTold ==
    ASSUME PackInv, run.prog = "inject", run.at \in {"saving", "replace"}
    PROVE  /\ run.shard \in DOMAIN dir \ run.todo
           /\ StageB!Tmp(run.shard) \in DOMAIN dir \ run.todo
           /\ dir[run.shard].whole /\ ~StageB!Rejected(dir[run.shard].cells)
           /\ \A x \in DOMAIN dir \ (run.todo \cup {run.shard, StageB!Tmp(run.shard)}) :
                 Treated(dir[x])
           /\ run.at = "replace" => Treated(dir[StageB!Tmp(run.shard)])
BY DEF PackInv, InjectIs

LEMMA InjectMovesAt ==
    ASSUME run \in InjectRuns, NEW a \in {"shard", "saving", "replace"},
           run' = [run EXCEPT !.at = a]
    PROVE  /\ run' \in InjectRuns /\ run'.prog = "inject" /\ run'.at = a
           /\ run'.todo = run.todo /\ run'.shard = run.shard /\ run'.used = run.used
<1>1. /\ run'.prog = "inject" /\ run'.at = a
      /\ run'.todo = run.todo /\ run'.shard = run.shard /\ run'.used = run.used
  BY DEF InjectRuns
<1>2. run' = [prog |-> "inject", at |-> a, todo |-> run.todo, shard |-> run.shard,
              used |-> run.used]
  BY DEF InjectRuns
<1>3. /\ run.todo \in SUBSET ShardNames /\ run.shard \in Nat \X Nat
      /\ run.used \in SUBSET AllPieces
  BY InjectFields
<1>4. [prog |-> "inject", at |-> a, todo |-> run.todo, shard |-> run.shard,
       used |-> run.used] \in InjectRuns
  BY <1>3, InjectRecord
<1>5. run' \in InjectRuns
  BY Zenon, <1>2, <1>4
<1> QED BY <1>1, <1>5

LEMMA InjectSavedHolds ==
    ASSUME PackInv, StageB!InjectSaved
    PROVE  PackInv'
<1>0. /\ run.prog = "inject" /\ run.at = "saving" /\ UNCHANGED <<art, cfg, idx, origin, ready, mixed>>
      /\ run' = [run EXCEPT !.at = "replace"]
  BY DEF StageB!InjectSaved
<1>1. /\ run \in InjectRuns /\ ready = "no" /\ cfg.state = "there"
      /\ DirIs /\ ConvertIs /\ run.todo \subseteq DOMAIN dir
      /\ \A q \in run.used : \E m \in StageB!Modules :
            q \in StageB!Pieces(m) /\ (origin = "convert" => m \notin PackExcluded)
  BY <1>0, InjectTold
<1>2. PICK n : n = run.shard
  OBVIOUS
<1>3. PICK k : k = StageB!Tmp(n)
  OBVIOUS
<1>4. /\ n \in DOMAIN dir \ run.todo /\ k \in DOMAIN dir \ run.todo
      /\ dir[n].whole /\ ~StageB!Rejected(dir[n].cells)
      /\ \A x \in DOMAIN dir \ (run.todo \cup {n, k}) : Treated(dir[x])
  BY <1>0, <1>2, <1>3, SavingTold
<1>5. n \in ShardNames /\ dir[n].cells \in Bufs /\ CellsAre(dir[n].cells)
  BY <1>1, <1>4 DEF DirIs
<1>6. k \in ShardNames /\ k # n /\ k[1] = n[1] /\ k[2] # 0
  BY <1>3, <1>5, TmpIs
<1>7. PICK c : c = dir[n].cells
  OBVIOUS
<1>8. PICK d : d = StageB!WithArtifacts(c)
  OBVIOUS
<1>9. PICK f : f = [whole |-> TRUE, cells |-> d]
  BY Zenon
<1>10. /\ d \in Bufs /\ DOMAIN d = DOMAIN c /\ CellsAre(d)
       /\ \A m \in DOMAIN c : /\ (d[m] = StageB!Kept) <=> (c[m] = StageB!Kept)
                              /\ d[m].format = c[m].format
                              /\ StageB!Has(m) /\ d[m] # StageB!Kept =>
                                    d[m].src = "calib" /\ StageB!Fits(m, StageB!FormatIn(cfg, m))
  BY <1>4, <1>5, <1>7, <1>8, ArtifactsPut
<1>11. f.whole = TRUE /\ f.cells = d
  BY <1>9
<1>12. StageB!Put(k, f)
  BY <1>2, <1>3, <1>7, <1>8, <1>9 DEF StageB!InjectSaved
<1>13. /\ DOMAIN dir' = DOMAIN dir \cup {k} /\ dir'[k] = f
       /\ \A x \in DOMAIN dir \ {k} : dir'[x] = dir[x]
  BY Zenon, <1>12, ShardPutIs
<1>14. DirIs'
  BY Zenon, <1>0, <1>1, <1>6, <1>10, <1>11, <1>12, PutHolds
<1>15. /\ run' \in InjectRuns /\ run'.prog = "inject" /\ run'.at = "replace"
       /\ run'.todo = run.todo /\ run'.shard = n /\ run'.used = run.used
  BY <1>0, <1>1, <1>2, InjectMovesAt
<1>16. Treated(f)
  BY <1>10, <1>11 DEF Treated
<1>17. DOMAIN dir' = DOMAIN dir /\ dir'[n] = dir[n]
  BY <1>4, <1>6, <1>13
<1>18. \A x \in DOMAIN dir' \ (run.todo \cup {n, k}) : Treated(dir'[x])
  BY <1>4, <1>13, <1>17
<1>19. StageB!Rejected(c)' = StageB!Rejected(c)
  BY <1>0 DEF StageB!Rejected, StageB!Injected, StageB!Quantized, StageB!Has, StageB!HasSome,
              StageB!Fits, StageB!FormatIn, StageB!RejectedAs
<1>20. ~StageB!Rejected(dir[n].cells)'
  BY <1>4, <1>7, <1>17, <1>19
<1>21. /\ \A x \in DOMAIN dir' \ (run.todo \cup {n, k}) : Treated(dir[x])'
       /\ Treated(dir[k])'
  BY <1>0, <1>13, <1>16, <1>18, TreatedKept
<1>22. StageB!Tmp(run.shard)' = k
  BY <1>3, <1>15 DEF StageB!Tmp
<1>23. InjectIs'
  BY <1>0, <1>1, <1>4, <1>15, <1>17, <1>20, <1>21, <1>22 DEF InjectIs
<1>24. ConvertIs'
  <2> SUFFICES ASSUME origin = "convert" PROVE ConvertIs'
    BY <1>0 DEF ConvertIs
  <2>1. ConvertedIs(k)'
    <3>1. /\ n[1] \in 1..Len(PackUnits) /\ DOMAIN c = PackUnits[n[1]]
          /\ \A m \in PackUnits[n[1]] :
                /\ m \in PackExcluded => c[m] = StageB!Kept
                /\ c[m] # StageB!Kept => c[m].format = StageB!FormatIn(cfg, m)
      BY <1>1, <1>4, <1>7 DEF ConvertIs, ConvertedIs
    <3>2. /\ k[1] \in 1..Len(PackUnits) /\ DOMAIN d = PackUnits[k[1]]
          /\ \A m \in PackUnits[k[1]] :
                /\ m \in PackExcluded => d[m] = StageB!Kept
                /\ d[m] # StageB!Kept => d[m].format = StageB!FormatIn(cfg, m)
      BY <1>6, <1>10, <3>1
    <3>3. \A m : StageB!FormatIn(cfg, m)' = StageB!FormatIn(cfg, m)
      BY <1>0 DEF StageB!FormatIn
    <3> QED BY <1>11, <1>13, <3>2, <3>3 DEF ConvertedIs
  <2>2. \A x \in DOMAIN dir \ {k} : ConvertedIs(x)'
    BY <1>0, <1>1, <1>13 DEF ConvertIs, ConvertedIs, StageB!FormatIn
  <2>3. ASSUME NEW i \in 1..Len(PackUnits)
        PROVE  <<i, 0>> \in DOMAIN dir' /\ dir'[<<i, 0>>].whole
    <3>1. PICK x : x = <<i, 0>>
      BY Zenon
    <3>2. x \in DOMAIN dir /\ dir[x].whole
      BY <1>0, <1>1, <3>1 DEF ConvertIs
    <3>3. x # k
      BY <1>6, <3>1
    <3> QED BY <1>13, <3>1, <3>2, <3>3
  <2> QED BY <1>0, <1>1, <1>13, <1>15, <1>17, <2>1, <2>2, <2>3 DEF ConvertIs
<1> QED BY <1>0, <1>14, <1>15, <1>23, <1>24, InjectMoves

LEMMA InjectReplaceHolds ==
    ASSUME PackInv, StageB!InjectReplace
    PROVE  PackInv'
<1>0. /\ run.prog = "inject" /\ run.at = "replace" /\ UNCHANGED <<art, cfg, idx, origin, ready, mixed>>
      /\ run' = [run EXCEPT !.at = "shard"]
  BY DEF StageB!InjectReplace
<1>1. /\ run \in InjectRuns /\ ready = "no" /\ cfg.state = "there"
      /\ DirIs /\ ConvertIs /\ run.todo \subseteq DOMAIN dir
      /\ \A q \in run.used : \E m \in StageB!Modules :
            q \in StageB!Pieces(m) /\ (origin = "convert" => m \notin PackExcluded)
  BY <1>0, InjectTold
<1>2. PICK n : n = run.shard
  OBVIOUS
<1>3. PICK k : k = StageB!Tmp(n)
  OBVIOUS
<1>4. /\ n \in DOMAIN dir \ run.todo /\ k \in DOMAIN dir \ run.todo
      /\ \A x \in DOMAIN dir \ (run.todo \cup {n, k}) : Treated(dir[x])
      /\ Treated(dir[k])
  BY <1>0, <1>2, <1>3, SavingTold
<1>5. n \in ShardNames
  BY <1>1, <1>4 DEF DirIs
<1>6. k \in ShardNames /\ k # n /\ k[1] = n[1] /\ k[2] # 0
  BY <1>3, <1>5, TmpIs
<1>7. dir' = [x \in DOMAIN dir \ {k} |-> IF x = n THEN dir[k] ELSE dir[x]]
  BY <1>2, <1>3 DEF StageB!InjectReplace
<1>8. /\ DOMAIN dir' = DOMAIN dir \ {k} /\ dir'[n] = dir[k]
      /\ \A x \in DOMAIN dir \ {n, k} : dir'[x] = dir[x]
  BY <1>4, <1>6, <1>7
<1>9. DirIs'
  <2>1. \A c : CellsAre(c)' = CellsAre(c)
    BY <1>0, ArtKept DEF CellsAre
  <2> QED BY <1>0, <1>1, <1>4, <1>8, <2>1 DEF DirIs
<1>10. /\ run' \in InjectRuns /\ run'.prog = "inject" /\ run'.at = "shard"
       /\ run'.todo = run.todo /\ run'.used = run.used
  BY <1>0, <1>1, InjectMovesAt
<1>11. \A x \in DOMAIN dir' \ run.todo : Treated(dir'[x])
  BY <1>4, <1>8
<1>12. run.todo \subseteq DOMAIN dir'
  BY <1>1, <1>4, <1>8
<1>13. InjectIs'
  BY <1>0, <1>1, <1>10, <1>11, <1>12, TreatedKept DEF InjectIs
<1>14. ConvertIs'
  <2> SUFFICES ASSUME origin = "convert" PROVE ConvertIs'
    BY <1>0 DEF ConvertIs
  <2>1. ConvertedIs(n)'
    BY <1>0, <1>1, <1>4, <1>6, <1>8 DEF ConvertIs, ConvertedIs, StageB!FormatIn
  <2>2. \A x \in DOMAIN dir \ {n, k} : ConvertedIs(x)'
    BY <1>0, <1>1, <1>8 DEF ConvertIs, ConvertedIs, StageB!FormatIn
  <2>3. ASSUME NEW i \in 1..Len(PackUnits)
        PROVE  <<i, 0>> \in DOMAIN dir' /\ dir'[<<i, 0>>].whole
    <3>1. PICK x : x = <<i, 0>>
      BY Zenon
    <3>2. x \in DOMAIN dir /\ dir[x].whole
      BY <1>0, <1>1, <3>1 DEF ConvertIs
    <3>3. x # k
      BY <1>6, <3>1
    <3>4. dir[k].whole
      BY <1>4 DEF Treated
    <3> QED BY <1>8, <3>1, <3>2, <3>3, <3>4
  <2> QED BY <1>0, <1>1, <1>8, <1>10, <2>1, <2>2, <2>3 DEF ConvertIs
<1> QED BY <1>0, <1>9, <1>10, <1>13, <1>14, InjectMoves

LEMMA InjectEndHolds ==
    ASSUME PackInv, StageB!InjectEnd
    PROVE  PackInv'
<1>0. /\ run.prog = "inject" /\ run.at = "shard" /\ run.todo = {} /\ run'.prog = "idle"
      /\ UNCHANGED <<art, dir, cfg, idx, origin, mixed>>
      /\ ready' = IF DOMAIN art \subseteq run.used /\ run.used # {} THEN "inject" ELSE "no"
  BY DEF StageB!InjectEnd, StageB!Raise, StageB!Idle
<1>1. /\ run \in InjectRuns /\ ready = "no" /\ cfg.state = "there"
      /\ DirIs /\ ConvertIs
      /\ \A q \in run.used : \E m \in StageB!Modules :
            q \in StageB!Pieces(m) /\ (origin = "convert" => m \notin PackExcluded)
  BY <1>0, InjectTold
<1>2. \A x \in DOMAIN dir : Treated(dir[x])
  BY <1>0 DEF PackInv, InjectIs
<1>3. ready' # "no" => StageB!Stray \notin DOMAIN art
  BY <1>0, <1>1, PiecesAre
<1>4. ASSUME ready' # "no", origin = "convert", NEW m \in PackExcluded, StageB!Has(m)
      PROVE  FALSE
  <2>1. m \in StageB!Modules
    BY PackIs
  <2>2. PICK q : q \in StageB!Pieces(m)
    BY <2>1, PiecesAre
  <2>3. q \in run.used
    BY <1>0, <1>4, <2>2 DEF StageB!Has
  <2>4. PICK h \in StageB!Modules : q \in StageB!Pieces(h) /\ h \notin PackExcluded
    BY <1>1, <1>4, <2>3
  <2> QED BY <2>1, <2>2, <2>4, PiecesAre
<1>5. ReadyIs'
  <2>1. \A x \in DOMAIN dir : Treated(dir[x])'
    BY <1>0, <1>2, TreatedKept
  <2>2. \A m : StageB!Has(m)' = StageB!Has(m)
    BY <1>0, ArtKept
  <2> QED BY <1>0, <1>1, <1>3, <1>4, <2>1, <2>2 DEF ReadyIs
<1>6. DirIs' /\ ConvertIs'
  BY <1>0, <1>1, DirKept, ConvertKept
<1>7. StreamIs' /\ InjectIs' /\ OriginIs'
  BY <1>0 DEF StreamIs, InjectIs, PackInv, OriginIs
<1>8. MixIs'
  BY <1>0 DEF PackInv, MixIs, StageB!Right, StageB!Has, StageB!Fits
<1> QED BY <1>5, <1>6, <1>7, <1>8 DEF PackInv

LEMMA PackStep ==
    ASSUME PackInv, StageB!Next
    PROVE  PackInv'
<1>1. ASSUME NEW w \in PackFormats, NEW limit \in Int,
             StageB!StreamStart(w, limit)
      PROVE  PackInv'
  BY <1>1, StreamStartHolds
<1>2. ASSUME NEW w \in PackFormats, StageB!Convert(w) PROVE PackInv'
  BY <1>2, PackConvertHolds
<1>3. ASSUME NEW n \in DOMAIN dir, StageB!InjectShard(n) PROVE PackInv'
  BY <1>3, InjectShardHolds
<1>4. ASSUME NEW match \in SUBSET StageB!Modules, StageB!MixStart(match) PROVE PackInv'
  BY <1>4, MixStartHolds
<1> QED
  BY <1>1, <1>2, <1>3, <1>4, StreamUnitHolds, StreamLastHolds, StreamFlushHolds,
     StreamSavedHolds, StreamCheckHolds, StreamIndexHolds, StreamConfigHolds,
     InjectStartHolds, InjectSavedHolds, InjectReplaceHolds, InjectEndHolds,
     MixConfigHolds, MixIndexHolds, CrashHolds
  DEF StageB!Next

\* The invariant says of a model that is ready, and of one mixed from it, what
\* the run checks of them.
LEMMA PackIsSound == PackInv => StageB!StageBInvariant
<1> SUFFICES ASSUME PackInv PROVE StageB!StageBInvariant
  OBVIOUS
<1>1. StageB!IndexStaysValid
  BY DEF StageB!IndexStaysValid, PackInv, ConvertIs, ConvertedIs
<1>2. StageB!MixedFromTheReady
  BY DEF StageB!MixedFromTheReady, PackInv, MixIs
<1>3. StageB!ReadyIsCalibrated
  <2> SUFFICES ASSUME ready # "no" PROVE StageB!ReadyIsCalibrated
    BY DEF StageB!ReadyIsCalibrated
  <2>1. /\ cfg.state = "there" /\ StageB!Stray \notin DOMAIN art
        /\ ready = "stream" => idx.state = "there"
        /\ ready \in {"stream", "inject"}
    BY DEF PackInv, ReadyIs
  <2>2. ASSUME ready = "stream", NEW m \in StageB!Modules
        PROVE  ReadFrom(<<idx.shard[m], 0>>, m)
    BY <2>2 DEF PackInv, ReadyIs
  <2>5. ASSUME ready = "stream", NEW m \in StageB!Modules PROVE StageB!Holders(m) # {}
    <3>1. <<idx.shard[m], 0>> \in StageB!Holders(m)
      BY <2>2, <2>5 DEF ReadFrom, StageB!Holders
    <3> QED BY <3>1
  <2>6. ASSUME ready = "stream", StageB!Leftovers = {}, NEW n \in DOMAIN dir
        PROVE  dir[n].whole /\ \E k \in StageB!Modules : n = <<idx.shard[k], 0>>
    <3>1. PICK k \in StageB!Modules : n = <<idx.shard[k], 0>>
      BY <2>6 DEF StageB!Leftovers
    <3> QED BY <2>2, <2>6, <3>1 DEF ReadFrom
  <2>7. ASSUME ready = "stream", StageB!Leftovers = {}, NEW m \in StageB!Modules,
               NEW n \in StageB!Holders(m)
        PROVE  /\ StageB!Has(m) => dir[n].cells[m].src = "calib"
               /\ StageB!OfOneMode => StageB!Right(dir[n].cells[m], m, cfg)
    <3>1. n \in DOMAIN dir /\ m \in DOMAIN dir[n].cells
      BY DEF StageB!Holders
    <3>2. PICK k \in StageB!Modules : n = <<idx.shard[k], 0>>
      BY <2>6, <2>7, <3>1
    <3>3. n = <<idx.shard[m], 0>>
      BY <2>2, <2>7, <3>1, <3>2 DEF ReadFrom
    <3> QED BY <2>2, <2>7, <3>3 DEF ReadFrom
  <2>3. ASSUME ready = "inject", NEW m \in StageB!Modules, NEW n \in StageB!Holders(m)
        PROVE  /\ n \in DOMAIN dir /\ dir[n].whole /\ m \in DOMAIN dir[n].cells
               /\ StageB!Has(m) /\ m \notin PackExcluded => dir[n].cells[m].src = "calib"
               /\ origin = "convert" => StageB!Right(dir[n].cells[m], m, cfg)
    <3>1. n \in DOMAIN dir /\ m \in DOMAIN dir[n].cells
      BY DEF StageB!Holders
    <3>2. Treated(dir[n]) /\ CellsAre(dir[n].cells)
      BY <2>3, <3>1 DEF PackInv, ReadyIs, DirIs
    <3>3. PICK c : c = dir[n].cells[m]
      OBVIOUS
    <3>4. /\ dir[n].whole /\ (c.src = "calib" => StageB!Has(m))
          /\ c = StageB!Kept => m \in PackExcluded
          /\ StageB!Has(m) /\ c # StageB!Kept => c.src = "calib" /\ StageB!Fits(m, StageB!FormatIn(cfg, m))
      BY <3>1, <3>2, <3>3 DEF Treated, CellsAre
    <3>5. origin = "convert" => /\ m \in PackExcluded => c = StageB!Kept /\ ~StageB!Has(m)
                                /\ c # StageB!Kept => c.format = StageB!FormatIn(cfg, m)
      BY <2>3, <3>1, <3>3, <3>4 DEF PackInv, ReadyIs, ConvertIs, ConvertedIs
    <3>6. origin = "convert" => StageB!Right(c, m, cfg)
      BY <3>4, <3>5 DEF StageB!Right
    <3> QED BY <3>1, <3>3, <3>4, <3>6
  <2>4. ASSUME ready = "inject", origin = "convert", NEW m \in StageB!Modules
        PROVE  StageB!Holders(m) # {}
    <3>1. <<idx.shard[m], 0>> \in StageB!Holders(m)
      BY <1>1, <2>4 DEF StageB!IndexStaysValid, StageB!Holders
    <3> QED BY <3>1
  <2>8. ready = "inject" => \A n \in DOMAIN dir : dir[n].whole
    BY DEF PackInv, ReadyIs, Treated
  <2>9. CASE ready = "stream"
    BY Zenon, <2>1, <2>5, <2>6, <2>7, <2>9 DEF StageB!ReadyIsCalibrated, StageB!Accounted
  <2>10. CASE ready = "inject"
    BY Zenon, <2>1, <2>3, <2>4, <2>8, <2>10 DEF StageB!ReadyIsCalibrated, StageB!Accounted
  <2> QED BY <2>1, <2>9, <2>10
<1> QED BY <1>1, <1>2, <1>3 DEF StageB!StageBInvariant, StageB!ModelIsWhole

LEMMA PackStays ==
    ASSUME PackInv, UNCHANGED stageBVars
    PROVE  PackInv'
<1>0. UNCHANGED <<art, dir, cfg, idx, origin, ready, run, mixed>>
  BY DEF stageBVars
<1>1. DirIs' /\ OriginIs'
  BY <1>0, DirKept DEF PackInv, OriginIs
<1>2. ConvertIs'
  BY <1>0 DEF PackInv, ConvertIs, ConvertedIs
<1>3. StreamIs'
  <2>1. /\ \A i, m, w : StoredIn(i, m, w)' = StoredIn(i, m, w)
        /\ \A i, pl : ShardIsOwn(i, pl)' = ShardIsOwn(i, pl)
        /\ \A m : Through(m)' = Through(m)
    BY <1>0, ArtKept DEF StoredIn, ShardIsOwn, Through
  <2> QED BY <1>0, <2>1, ArtKept DEF PackInv, StreamIs, StreamKnows
<1>4. InjectIs'
  <2>1. \A c : StageB!Rejected(c)' = StageB!Rejected(c)
    BY <1>0 DEF StageB!Rejected, StageB!Injected, StageB!Quantized, StageB!Has, StageB!HasSome,
                StageB!Fits, StageB!FormatIn, StageB!RejectedAs
  <2> QED BY <1>0, <2>1, TreatedKept DEF PackInv, InjectIs
<1>5. ReadyIs'
  BY <1>0 DEF PackInv, ReadyIs, Treated, ReadFrom, StageB!Right, StageB!Has, StageB!Fits, StageB!OfOneMode,
        StageB!FormatIn
<1>6. MixIs'
  BY <1>0 DEF PackInv, MixIs, StageB!Right, StageB!Has, StageB!Fits
<1> QED BY <1>1, <1>2, <1>3, <1>4, <1>5, <1>6 DEF PackInv

\* Stage B, for every model of any number of units, experts and modules, every set of
\* artifacts in whatever mode, and every sequence of programs and deaths: a model that a
\* program left as ready is calibrated in every file a reader opens, where stream_pack
\* has left no shard of an older run; the index of a converted model stays valid; and
\* what mix.py composes is taken from the tensors a ready model was left with.
THEOREM ReadyIsCalibratedAlways == OfflineSpec => []ReadyIsCalibrated
<1> DEFINE Guarded == scene = "stage B" => PackInv
<1>1. OfflineInit => Guarded
  BY Zenon, PackBegins DEF OfflineInit
<1>2. Guarded /\ [OfflineNext]_<<scene, vars, stageBVars, draftVars, treeVars, replayVars,
                                 trainerVars, campaignVars, ladderVars>> => Guarded'
  <2> SUFFICES ASSUME Guarded, scene' = "stage B",
                      [OfflineNext]_<<scene, vars, stageBVars, draftVars, treeVars, replayVars,
                                      trainerVars, campaignVars, ladderVars>>
               PROVE  PackInv'
    BY Zenon
  <2>1. scene = "stage B" /\ (StageB!Next \/ UNCHANGED stageBVars)
    BY Zenon DEF OfflineNext
  <2> QED BY Zenon, <2>1, PackStep, PackStays
<1>3. Guarded => ReadyIsCalibrated
  BY Zenon, PackIsSound DEF ReadyIsCalibrated
<1> QED BY <1>1, <1>2, <1>3, PTL DEF OfflineSpec

(* ---------------------------- a draft's caches --------------------------- *)
(* The positions a trimmed cache holds are increasing, end in the last ones   *)
(* of the text and begin with those of the first context; its keys are theirs.*)
(* Of the keys a replay attends to that holds only where the mask looks.      *)

Ent == [feat : Int, rope : Int]
Sized(b) == b.sink \in Nat /\ b.window \in Nat \ {0}

\* s are positions of a text of t, of which the first context had c.
Positions(b, c, t, s) ==
    /\ s \in Seq(Nat)
    /\ \A i \in 1..Len(s) : i - 1 <= s[i] /\ s[i] < t
    /\ \A i, j \in 1..Len(s) : i < j => s[i] < s[j]
    /\ \A j \in 1..b.window : j <= t => j <= Len(s) /\ s[Len(s) + 1 - j] = t - j
    /\ t # 0 => \A i \in 1..b.sink : i <= c => i <= Len(s) /\ s[i] = i - 1

\* The keys of the positions s.
KeysOf(s) == [i \in 1..Len(s) |-> Draft!Entry(s[i], s[i])]

\* The cache of a text of t positions.
CacheOf(b, c, t, cache) ==
    /\ cache.offset = t
    /\ Positions(b, c, t, cache.at)
    /\ Len(cache.at) <= b.sink + b.window
    /\ cache.keys = KeysOf(cache.at)
    /\ t = 0 => Len(cache.at) = 0

LEMMA DraftConstants ==
    /\ Draft!Window \in Nat \ {0} /\ Draft!Window >= DraftSlide
    /\ Sized(Draft!Served) /\ Sized(Draft!Rebuilt)
    /\ Draft!Served.window >= DraftSlide /\ Draft!Rebuilt.window >= DraftSlide
    /\ Draft!Rebuilt.sink # 0 /\ DraftSlide \in Nat \ {0} /\ DraftStep \in Nat \ {0}
<1>1. /\ DraftSink \in Nat /\ DraftAsked \in Nat /\ DraftSlide \in Nat \ {0}
      /\ DraftReplaySink \in Nat \ {0} /\ DraftReplayWindow \in Nat
      /\ DraftReplayWindow >= DraftSlide /\ DraftStep \in Nat \ {0}
  BY OfflineAssumption DEF Draft!DraftCacheAssumption
<1>2. \E x \in {1, DraftAsked, DraftSlide} : \A y \in {1, DraftAsked, DraftSlide} : x >= y
  BY <1>1
<1>3. /\ Draft!Window \in {1, DraftAsked, DraftSlide}
      /\ \A y \in {1, DraftAsked, DraftSlide} : Draft!Window >= y
  BY <1>2 DEF Draft!Window, Draft!Max
<1>4. Draft!Window \in Nat \ {0} /\ Draft!Window >= DraftSlide
  BY <1>1, <1>3
<1> QED BY <1>1, <1>4 DEF Sized, Draft!Served, Draft!Rebuilt

IsRun(from, n, r) ==
    r \in Seq(Nat) /\ Len(r) = n /\ \A i \in 1..n : r[i] = from + i - 1

LEMMA RunIs ==
    ASSUME NEW from \in Nat, NEW n \in Nat
    PROVE  IsRun(from, n, Draft!Run(from, n))
<1>1. Draft!Run(from, n) \in [1..n -> Nat]
  BY DEF Draft!Run
<1>2. Draft!Run(from, n) \in Seq(Nat)
  BY <1>1, SeqDef
<1> QED BY <1>1, <1>2, LenProperties DEF Draft!Run, IsRun

\* r is s and u behind it.
Joins(S, s, u, r) ==
    /\ r \in Seq(S) /\ Len(r) = Len(s) + Len(u)
    /\ \A i \in 1..Len(s) : r[i] = s[i]
    /\ \A i \in 1..Len(u) : r[Len(s) + i] = u[i]

LEMMA BothJoin ==
    ASSUME NEW S, NEW s \in Seq(S), NEW u \in Seq(S)
    PROVE  Joins(S, s, u, s \o u)
<1>1. PICK r : r = s \o u
  BY Zenon
<1>2. PICK m \in Nat, n \in Nat : m = Len(s) /\ n = Len(u)
  BY LenProperties
<1>3. /\ r \in Seq(S) /\ Len(r) = Len(s) + Len(u)
      /\ \A i \in 1..(Len(s) + Len(u)) : r[i] = IF i <= Len(s) THEN s[i] ELSE u[i - Len(s)]
  BY <1>1, ConcatProperties
<1>4. ASSUME NEW i \in 1..n PROVE r[m + i] = u[i]
  <2>1. m + i \in 1..(m + n) /\ ~(m + i <= m) /\ (m + i) - m = i
    OBVIOUS
  <2> QED BY Zenon, <1>2, <1>3, <2>1
<1>5. ASSUME NEW i \in 1..m PROVE r[i] = s[i]
  BY <1>2, <1>3
<1> QED BY <1>1, <1>2, <1>3, <1>4, <1>5 DEF Joins

LEMMA KeysAre ==
    ASSUME NEW s \in Seq(Nat)
    PROVE  /\ KeysOf(s) \in Seq(Ent) /\ Len(KeysOf(s)) = Len(s)
           /\ \A i \in 1..Len(s) : KeysOf(s)[i] = Draft!Entry(s[i], s[i])
<1>1. Len(s) \in Nat /\ \A i \in 1..Len(s) : s[i] \in Nat
  BY LenProperties, ElementOfSeq
<1>2. KeysOf(s) \in [1..Len(s) -> Ent]
  BY <1>1 DEF KeysOf, Ent, Draft!Entry
<1>3. KeysOf(s) \in Seq(Ent)
  BY <1>1, <1>2, SeqDef
<1> QED BY <1>1, <1>2, <1>3, LenProperties DEF KeysOf

LEMMA KeysOfBoth ==
    ASSUME NEW s \in Seq(Nat), NEW t \in Seq(Nat)
    PROVE  KeysOf(s \o t) = KeysOf(s) \o KeysOf(t)
<1>1. /\ s \o t \in Seq(Nat) /\ Len(s \o t) = Len(s) + Len(t)
      /\ Len(s) \in Nat /\ Len(t) \in Nat
      /\ \A i \in 1..(Len(s) + Len(t)) :
            (s \o t)[i] = IF i <= Len(s) THEN s[i] ELSE t[i - Len(s)]
  BY ConcatProperties, LenProperties
<1>2. /\ KeysOf(s) \in Seq(Ent) /\ KeysOf(t) \in Seq(Ent) /\ KeysOf(s \o t) \in Seq(Ent)
      /\ Len(KeysOf(s)) = Len(s) /\ Len(KeysOf(t)) = Len(t)
      /\ Len(KeysOf(s \o t)) = Len(s) + Len(t)
  BY Zenon, <1>1, KeysAre
<1>3. /\ KeysOf(s) \o KeysOf(t) \in Seq(Ent)
      /\ Len(KeysOf(s) \o KeysOf(t)) = Len(s) + Len(t)
      /\ \A i \in 1..(Len(s) + Len(t)) :
            (KeysOf(s) \o KeysOf(t))[i]
              = IF i <= Len(s) THEN KeysOf(s)[i] ELSE KeysOf(t)[i - Len(s)]
  BY <1>2, ConcatProperties
<1>4. ASSUME NEW i \in 1..(Len(s) + Len(t))
      PROVE  KeysOf(s \o t)[i] = (KeysOf(s) \o KeysOf(t))[i]
  <2>1. KeysOf(s \o t)[i] = Draft!Entry((s \o t)[i], (s \o t)[i])
    BY Zenon, <1>1, <1>4, KeysAre
  <2>2. CASE i <= Len(s)
    BY <1>1, <1>3, <1>4, <2>1, <2>2, KeysAre
  <2>3. CASE ~(i <= Len(s))
    <3>1. i - Len(s) \in 1..Len(t)
      BY <1>1, <1>4, <2>3
    <3>2. KeysOf(t)[i - Len(s)] = Draft!Entry(t[i - Len(s)], t[i - Len(s)])
      BY <3>1, KeysAre
    <3> QED BY <1>1, <1>3, <1>4, <2>1, <2>3, <3>2
  <2> QED BY Zenon, <2>2, <2>3
<1> QED BY Zenon, <1>2, <1>3, <1>4, SeqEqual

\* What trimming n entries to a sink of k and a window of w keeps.
Kept(k, w, n) == IF n <= k + w THEN n ELSE k + w
KeptAt(k, w, n, i) == IF n <= k + w \/ i <= k THEN i ELSE i + n - k - w

LEMMA KeptIs ==
    ASSUME NEW k \in Nat, NEW w \in Nat \ {0}, NEW n \in Nat
    PROVE  /\ Kept(k, w, n) \in Nat /\ Kept(k, w, n) <= n /\ Kept(k, w, n) <= k + w
           /\ \A i \in 1..Kept(k, w, n) : KeptAt(k, w, n, i) \in 1..n /\ i <= KeptAt(k, w, n, i)
           /\ \A i, j \in 1..Kept(k, w, n) : i < j => KeptAt(k, w, n, i) < KeptAt(k, w, n, j)
           /\ \A j \in 1..w : j <= n => /\ j <= Kept(k, w, n)
                                        /\ Kept(k, w, n) + 1 - j \in 1..Kept(k, w, n)
                                        /\ KeptAt(k, w, n, Kept(k, w, n) + 1 - j) = n + 1 - j
           /\ \A i \in 1..k : i <= n => i <= Kept(k, w, n) /\ KeptAt(k, w, n, i) = i
<1>1. CASE n <= k + w
  BY <1>1 DEF Kept, KeptAt
<1>2. CASE n > k + w
  BY <1>2 DEF Kept, KeptAt
<1> QED BY <1>1, <1>2

\* r is what remains of s.
Remains(k, w, S, s, r) ==
    /\ r \in Seq(S) /\ Len(r) = Kept(k, w, Len(s))
    /\ \A i \in 1..Kept(k, w, Len(s)) : r[i] = s[KeptAt(k, w, Len(s), i)]

LEMMA TrimmedIs ==
    ASSUME NEW b, NEW k \in Nat, NEW w \in Nat \ {0}, b.sink = k, b.window = w,
           NEW S, NEW s \in Seq(S)
    PROVE  Remains(k, w, S, s, Draft!Trimmed(b, s))
<1>0. Len(s) \in Nat
  BY LenProperties
<1>1. CASE Len(s) <= k + w
  BY <1>0, <1>1 DEF Draft!Trimmed, Kept, KeptAt, Remains
<1>2. CASE Len(s) > k + w
  <2>0. PICK n \in Nat : n = Len(s) /\ n > k + w
    BY <1>0, <1>2
  <2>a. \A i \in 1..n : s[i] \in S
    BY <2>0, ElementOfSeq
  <2>1. PICK head : head = SubSeq(s, 1, k)
    BY Zenon
  <2>2. PICK tail : tail = SubSeq(s, n - w + 1, n)
    BY Zenon
  <2>3. /\ head \in Seq(S) /\ Len(head) = k
        /\ \A i \in 1..k : head[i] = s[i]
    <3>1. \A i \in 1..k : s[i] \in S
      BY <2>0, <2>a
    <3>2. /\ SubSeq(s, 1, k) \in Seq(S) /\ Len(SubSeq(s, 1, k)) = IF 1 <= k THEN k - 1 + 1 ELSE 0
          /\ \A i \in 1..(k - 1 + 1) : SubSeq(s, 1, k)[i] = s[1 + i - 1]
      BY <3>1, SubSeqProperties
    <3> QED BY <2>1, <3>2
  <2>4. /\ tail \in Seq(S) /\ Len(tail) = w
        /\ \A i \in 1..w : tail[i] = s[n - w + i]
    <3>1. \A i \in (n - w + 1)..n : s[i] \in S
      BY <2>0, <2>a
    <3>2. /\ SubSeq(s, n - w + 1, n) \in Seq(S)
          /\ Len(SubSeq(s, n - w + 1, n)) = IF n - w + 1 <= n THEN n - (n - w + 1) + 1 ELSE 0
          /\ \A i \in 1..(n - (n - w + 1) + 1) :
                SubSeq(s, n - w + 1, n)[i] = s[(n - w + 1) + i - 1]
      BY <2>0, <3>1, SubSeqProperties
    <3> QED BY <2>0, <2>2, <3>2
  <2>5. /\ head \o tail \in Seq(S) /\ Len(head \o tail) = Len(head) + Len(tail)
        /\ \A i \in 1..(Len(head) + Len(tail)) :
              (head \o tail)[i] = IF i <= Len(head) THEN head[i] ELSE tail[i - Len(head)]
    BY Zenon, <2>3, <2>4, ConcatProperties
  <2>6. PICK r : r = head \o tail
    BY Zenon
  <2>7. Draft!Trimmed(b, s) = r
    <3>1. Draft!First_(s, b.sink) = head /\ Draft!Last_(s, b.window) = tail
      BY <2>0, <2>1, <2>2 DEF Draft!First_, Draft!Last_
    <3>2. ~(Len(s) <= b.sink + b.window)
      BY <2>0
    <3> QED BY <2>6, <3>1, <3>2 DEF Draft!Trimmed
  <2>8. /\ r \in Seq(S) /\ Len(r) = k + w
        /\ \A i \in 1..(k + w) : r[i] = IF i <= k THEN head[i] ELSE tail[i - k]
    BY <2>3, <2>4, <2>5, <2>6
  <2>9. ASSUME NEW i \in 1..(k + w) PROVE r[i] = s[KeptAt(k, w, n, i)]
    <3>1. CASE i <= k
      BY <2>0, <2>3, <2>8, <3>1 DEF KeptAt
    <3>2. CASE i > k
      <4>1. i - k \in 1..w /\ KeptAt(k, w, n, i) = n - w + (i - k)
        BY <2>0, <3>2 DEF KeptAt
      <4>2. tail[i - k] = s[n - w + (i - k)]
        BY <2>4, <4>1
      <4> QED BY <2>8, <3>2, <4>1, <4>2
    <3>3. i <= k \/ i > k
      OBVIOUS
    <3> QED BY <3>1, <3>2, <3>3
  <2>10. Kept(k, w, n) = k + w
    BY <2>0 DEF Kept
  <2> QED BY <2>0, <2>7, <2>8, <2>9, <2>10 DEF Remains
<1> QED BY <1>0, <1>1, <1>2

\* Trimming keeps the last positions of the text and the first of its first context.
LEMMA TrimmedPositions ==
    ASSUME NEW b, Sized(b), NEW c \in Nat, NEW t \in Nat, NEW s, Positions(b, c, t, s)
    PROVE  /\ Positions(b, c, t, Draft!Trimmed(b, s))
           /\ Len(Draft!Trimmed(b, s)) = Kept(b.sink, b.window, Len(s))
           /\ Draft!Trimmed(b, KeysOf(s)) = KeysOf(Draft!Trimmed(b, s))
<1>a. PICK k \in Nat, w \in Nat \ {0} : k = b.sink /\ w = b.window
  BY DEF Sized
<1>b. PICK n \in Nat : s \in Seq(Nat) /\ n = Len(s)
  BY LenProperties DEF Positions
<1>c. PICK l \in Nat : l = Kept(k, w, n)
  BY Zenon, <1>a, <1>b, KeptIs
<1>1. PICK r : r = Draft!Trimmed(b, s)
  OBVIOUS
<1>0. PICK f : f = [i \in 1..l |-> KeptAt(k, w, n, i)]
  BY Zenon
<1>d. /\ l <= n /\ l <= k + w
      /\ \A i \in 1..l : f[i] \in 1..n /\ i <= f[i]
      /\ \A i, j \in 1..l : i < j => f[i] < f[j]
      /\ \A j \in 1..w : j <= n => j <= l /\ l + 1 - j \in 1..l /\ f[l + 1 - j] = n + 1 - j
      /\ \A i \in 1..k : i <= n => i <= l /\ f[i] = i
  <2>1. \A i \in 1..l : f[i] = KeptAt(k, w, n, i)
    BY <1>0
  <2>2. /\ l <= n /\ l <= k + w
        /\ \A i \in 1..l : KeptAt(k, w, n, i) \in 1..n /\ i <= KeptAt(k, w, n, i)
        /\ \A i, j \in 1..l : i < j => KeptAt(k, w, n, i) < KeptAt(k, w, n, j)
        /\ \A j \in 1..w : j <= n => /\ j <= l /\ l + 1 - j \in 1..l
                                     /\ KeptAt(k, w, n, l + 1 - j) = n + 1 - j
        /\ \A i \in 1..k : i <= n => i <= l /\ KeptAt(k, w, n, i) = i
    <3>1. /\ Kept(k, w, n) \in Nat /\ Kept(k, w, n) <= n /\ Kept(k, w, n) <= k + w
          /\ \A i \in 1..Kept(k, w, n) : KeptAt(k, w, n, i) \in 1..n /\ i <= KeptAt(k, w, n, i)
          /\ \A i, j \in 1..Kept(k, w, n) : i < j => KeptAt(k, w, n, i) < KeptAt(k, w, n, j)
          /\ \A j \in 1..w : j <= n => /\ j <= Kept(k, w, n)
                                       /\ Kept(k, w, n) + 1 - j \in 1..Kept(k, w, n)
                                       /\ KeptAt(k, w, n, Kept(k, w, n) + 1 - j) = n + 1 - j
          /\ \A i \in 1..k : i <= n => i <= Kept(k, w, n) /\ KeptAt(k, w, n, i) = i
      BY KeptIs, Zenon
    <3> QED BY <1>c, <3>1, Zenon
  <2>3. \A i \in 1..k : i <= n => i <= l /\ f[i] = i
    <3> SUFFICES ASSUME NEW i \in 1..k, i <= n PROVE i <= l /\ f[i] = i
      OBVIOUS
    <3> QED BY <2>1, <2>2
  <2>4. \A j \in 1..w : j <= n => j <= l /\ l + 1 - j \in 1..l /\ f[l + 1 - j] = n + 1 - j
    <3> SUFFICES ASSUME NEW j \in 1..w, j <= n
                 PROVE  j <= l /\ l + 1 - j \in 1..l /\ f[l + 1 - j] = n + 1 - j
      OBVIOUS
    <3>1. j <= l /\ l + 1 - j \in 1..l /\ KeptAt(k, w, n, l + 1 - j) = n + 1 - j
      BY <2>2
    <3> QED BY <2>1, <3>1
  <2>5. \A i, j \in 1..l : i < j => f[i] < f[j]
    <3> SUFFICES ASSUME NEW i \in 1..l, NEW j \in 1..l, i < j PROVE f[i] < f[j]
      OBVIOUS
    <3>1. f[i] = KeptAt(k, w, n, i) /\ f[j] = KeptAt(k, w, n, j)
      BY <2>1
    <3>2. KeptAt(k, w, n, i) < KeptAt(k, w, n, j)
      BY <2>2
    <3> QED BY <3>1, <3>2
  <2> QED BY <2>1, <2>2, <2>3, <2>4, <2>5
<1>2. /\ r \in Seq(Nat) /\ Len(r) = l
      /\ \A i \in 1..l : r[i] = s[f[i]]
  <2>1. Remains(k, w, Nat, s, r)
    BY <1>1, <1>a, <1>b, TrimmedIs
  <2>2. \A i \in 1..l : r[i] = s[KeptAt(k, w, n, i)] /\ f[i] = KeptAt(k, w, n, i)
    BY <1>0, <1>b, <1>c, <2>1 DEF Remains
  <2> QED BY <1>b, <1>c, <2>1, <2>2 DEF Remains
<1>e. /\ \A i \in 1..n : i - 1 <= s[i] /\ s[i] < t /\ s[i] \in Nat
      /\ \A i, j \in 1..n : i < j => s[i] < s[j]
      /\ \A j \in 1..w : j <= t => j <= n /\ s[n + 1 - j] = t - j
      /\ t # 0 => \A i \in 1..k : i <= c => i <= n /\ s[i] = i - 1
  BY <1>a, <1>b, ElementOfSeq DEF Positions
<1>3. \A i \in 1..l : i - 1 <= r[i] /\ r[i] < t
  <2> SUFFICES ASSUME NEW i \in 1..l PROVE i - 1 <= r[i] /\ r[i] < t
    OBVIOUS
  <2>1. PICK j \in 1..n : j = f[i] /\ r[i] = s[j] /\ i <= j
    BY Zenon, <1>2, <1>d
  <2> QED BY <1>e, <2>1
<1>4. \A i, j \in 1..l : i < j => r[i] < r[j]
  <2> SUFFICES ASSUME NEW i \in 1..l, NEW j \in 1..l, i < j PROVE r[i] < r[j]
    OBVIOUS
  <2>1. r[i] = s[f[i]] /\ r[j] = s[f[j]] /\ f[i] \in 1..n /\ f[j] \in 1..n /\ f[i] < f[j]
    BY <1>2, <1>d
  <2> QED BY <1>e, <2>1
<1>5. \A j \in 1..w : j <= t => j <= l /\ r[l + 1 - j] = t - j
  <2> SUFFICES ASSUME NEW j \in 1..w, j <= t PROVE j <= l /\ r[l + 1 - j] = t - j
    OBVIOUS
  <2>1. j <= n /\ s[n + 1 - j] = t - j
    BY <1>e
  <2>2. j <= l /\ l + 1 - j \in 1..l /\ f[l + 1 - j] = n + 1 - j
    BY <1>d, <2>1
  <2> QED BY <1>2, <2>1, <2>2
<1>6. t # 0 => \A i \in 1..k : i <= c => i <= l /\ r[i] = i - 1
  <2> SUFFICES ASSUME t # 0, NEW i \in 1..k, i <= c PROVE i <= l /\ r[i] = i - 1
    OBVIOUS
  <2>1. i <= n /\ s[i] = i - 1
    BY <1>e
  <2>2. i \in 1..l /\ f[i] = i
    BY <1>d, <2>1
  <2> QED BY <1>2, <2>1, <2>2
<1>7. Draft!Trimmed(b, KeysOf(s)) = KeysOf(r)
  <2>1. /\ KeysOf(s) \in Seq(Ent) /\ Len(KeysOf(s)) = n
        /\ KeysOf(r) \in Seq(Ent) /\ Len(KeysOf(r)) = l
    BY <1>b, <1>2, KeysAre
  <2>2. PICK q : q = Draft!Trimmed(b, KeysOf(s))
    OBVIOUS
  <2>3. /\ q \in Seq(Ent) /\ Len(q) = l
        /\ \A i \in 1..l : q[i] = KeysOf(s)[f[i]]
    <3>1. Remains(k, w, Ent, KeysOf(s), q)
      BY <1>a, <2>1, <2>2, TrimmedIs
    <3>2. \A i \in 1..l : f[i] = KeptAt(k, w, n, i)
      BY <1>0
    <3> QED BY <1>c, <2>1, <3>1, <3>2 DEF Remains
  <2>4. ASSUME NEW i \in 1..l PROVE q[i] = KeysOf(r)[i]
    <3>1. PICK j \in 1..n : j = f[i] /\ r[i] = s[j]
      BY <1>2, <1>d
    <3>2. KeysOf(s)[j] = Draft!Entry(s[j], s[j]) /\ KeysOf(r)[i] = Draft!Entry(r[i], r[i])
      BY Zenon, <1>b, <1>2, <3>1, KeysAre
    <3> QED BY <2>3, <3>1, <3>2
  <2> QED BY <2>1, <2>2, <2>3, <2>4, SeqEqual
<1>8. Positions(b, c, t, r)
  BY <1>2, <1>3, <1>4, <1>5, <1>6, <1>a DEF Positions
<1> QED BY <1>1, <1>2, <1>7, <1>8, <1>a, <1>b, <1>c

\* The last positions of the next n, behind those of a text of t.
LEMMA PositionsGrow ==
    ASSUME NEW b, Sized(b), NEW c \in Nat, NEW t \in Nat, NEW s, Positions(b, c, t, s), t # 0,
           NEW n \in Nat \ {0}, NEW m \in Nat, m = IF n <= b.window THEN n ELSE b.window
    PROVE  Positions(b, c, t + n, s \o Draft!Run(t + n - m, m))
<1>a. PICK k \in Nat, w \in Nat \ {0} : k = b.sink /\ w = b.window
  BY DEF Sized
<1>b. PICK l \in Nat : s \in Seq(Nat) /\ l = Len(s)
  BY LenProperties DEF Positions
<1>c. m <= n /\ m <= w /\ m \in Nat \ {0} /\ (n <= w => m = n) /\ (n > w => m = w)
  BY <1>a
<1>d. /\ \A i \in 1..l : i - 1 <= s[i] /\ s[i] < t /\ s[i] \in Nat
      /\ \A i, j \in 1..l : i < j => s[i] < s[j]
      /\ \A j \in 1..w : j <= t => j <= l /\ s[l + 1 - j] = t - j
      /\ \A i \in 1..k : i <= c => i <= l /\ s[i] = i - 1
  BY <1>a, <1>b, ElementOfSeq DEF Positions
<1>e. l >= 1 /\ l <= t
  <2>1. 1 \in 1..w /\ 1 <= t
    BY <1>a
  <2>2. 1 <= l /\ s[l + 1 - 1] = t - 1
    BY <1>d, <2>1
  <2>3. l - 1 <= s[l]
    BY <1>d, <2>2
  <2> QED BY <2>2, <2>3
<1>0. PICK z \in Nat : z = t + n - m
  BY <1>c
<1>1. PICK u : u = Draft!Run(z, m)
  OBVIOUS
<1>2. u \in Seq(Nat) /\ Len(u) = m /\ \A i \in 1..m : u[i] = z + i - 1
  <2>1. IsRun(z, m, u)
    BY <1>1, RunIs
  <2> QED BY <2>1 DEF IsRun
<1>3. PICK r : r = s \o u
  BY Zenon
<1>4. /\ r \in Seq(Nat) /\ Len(r) = l + m
      /\ \A i \in 1..l : r[i] = s[i]
      /\ \A i \in 1..m : r[l + i] = u[i]
  <2>1. Joins(Nat, s, u, r)
    BY <1>b, <1>2, <1>3, BothJoin
  <2> QED BY <1>b, <1>2, <2>1 DEF Joins
<1>5. /\ \A i \in 1..l : r[i] = s[i]
      /\ \A i \in 1..(l + m) : i > l => r[i] = t + n - m + (i - l) - 1
  <2>1. ASSUME NEW i \in 1..(l + m), i > l PROVE r[i] = t + n - m + (i - l) - 1
    <3>1. PICK j \in 1..m : j = i - l /\ l + j = i
      BY <2>1
    <3> QED BY <1>0, <1>2, <1>4, <3>1
  <2> QED BY <1>4, <2>1
<1>6. \A i \in 1..(l + m) : i - 1 <= r[i] /\ r[i] < t + n
  <2> SUFFICES ASSUME NEW i \in 1..(l + m) PROVE i - 1 <= r[i] /\ r[i] < t + n
    OBVIOUS
  <2>1. CASE i <= l
    BY <1>d, <1>5, <2>1
  <2>2. CASE i > l
    BY <1>5, <1>c, <1>e, <2>2
  <2> QED BY <2>1, <2>2
<1>7. \A i, j \in 1..(l + m) : i < j => r[i] < r[j]
  <2> SUFFICES ASSUME NEW i \in 1..(l + m), NEW j \in 1..(l + m), i < j PROVE r[i] < r[j]
    OBVIOUS
  <2>1. CASE j <= l
    BY <1>d, <1>5, <2>1
  <2>2. CASE i <= l /\ j > l
    <3>1. r[i] < t /\ r[i] \in Nat
      BY <1>d, <1>5, <2>2
    <3>2. r[j] = t + n - m + (j - l) - 1
      BY <1>5, <2>2
    <3> QED BY <1>c, <2>2, <3>1, <3>2
  <2>3. CASE i > l
    BY <1>5, <2>3
  <2> QED BY <2>1, <2>2, <2>3
<1>8. \A j \in 1..w : j <= t + n => j <= l + m /\ r[l + m + 1 - j] = t + n - j
  <2> SUFFICES ASSUME NEW j \in 1..w, j <= t + n
               PROVE  j <= l + m /\ r[l + m + 1 - j] = t + n - j
    OBVIOUS
  <2>1. CASE j <= m
    BY <1>5, <2>1
  <2>2. CASE j > m
    <3>1. m = n /\ j - n \in 1..w /\ j - n <= t
      BY <1>c, <2>2
    <3>2. j - n <= l /\ s[l + 1 - (j - n)] = t - (j - n)
      BY Zenon, <1>d, <3>1
    <3>3. l + m + 1 - j \in 1..l /\ l + m + 1 - j = l + 1 - (j - n)
      BY <2>2, <3>1, <3>2
    <3> QED BY <1>5, <3>1, <3>2, <3>3
  <2> QED BY <2>1, <2>2
<1>9. \A i \in 1..k : i <= c => i <= l + m /\ r[i] = i - 1
  <2> SUFFICES ASSUME NEW i \in 1..k, i <= c PROVE i <= l + m /\ r[i] = i - 1
    OBVIOUS
  <2>1. i \in 1..l /\ s[i] = i - 1
    BY <1>d
  <2> QED BY <1>5, <2>1
<1>10. Positions(b, c, t + n, r)
  BY <1>4, <1>6, <1>7, <1>8, <1>9, <1>a DEF Positions
<1> QED BY <1>0, <1>1, <1>3, <1>10

\* The positions of a first context of n.
LEMMA FirstPositions ==
    ASSUME NEW b, Sized(b), NEW n \in Nat \ {0}
    PROVE  LET s == Draft!Spans(b, n, 0)
           IN Positions(b, n, n, s) /\ Len(s) <= b.sink + b.window
<1>a. PICK k \in Nat, w \in Nat \ {0} : k = b.sink /\ w = b.window
  BY DEF Sized
<1>1. PICK s : s = Draft!Spans(b, n, 0)
  OBVIOUS
<1>2. CASE n <= k + w
  <2>1. s \in Seq(Nat) /\ Len(s) = n /\ \A i \in 1..n : s[i] = i - 1
    <3>1. s = Draft!Run(0, n)
      BY <1>1, <1>2, <1>a DEF Draft!Spans
    <3>2. IsRun(0, n, s)
      BY <3>1, RunIs
    <3> QED BY <3>2 DEF IsRun
  <2>2. /\ \A i \in 1..n : i - 1 <= s[i] /\ s[i] < n
        /\ \A i, j \in 1..n : i < j => s[i] < s[j]
        /\ \A j \in 1..w : j <= n => j <= n /\ s[n + 1 - j] = n - j
        /\ \A i \in 1..k : i <= n => i <= n /\ s[i] = i - 1
    BY <2>1
  <2> QED BY Zenon, <1>1, <1>2, <1>a, <2>1, <2>2 DEF Positions
<1>3. CASE n > k + w
  <2>0. PICK z \in Nat : z = n - w
    BY <1>3
  <2>1. PICK head, tail : head = Draft!Run(0, k) /\ tail = Draft!Run(z, w)
    OBVIOUS
  <2>2. /\ head \in Seq(Nat) /\ Len(head) = k /\ \A i \in 1..k : head[i] = i - 1
        /\ tail \in Seq(Nat) /\ Len(tail) = w /\ \A i \in 1..w : tail[i] = n - w + i - 1
    <3>1. IsRun(0, k, head) /\ IsRun(z, w, tail)
      BY <2>1, RunIs
    <3> QED BY <2>0, <3>1 DEF IsRun
  <2>3. s = head \o tail
    BY <1>1, <1>3, <1>a, <2>0, <2>1 DEF Draft!Spans
  <2>4. /\ s \in Seq(Nat) /\ Len(s) = k + w
        /\ \A i \in 1..k : s[i] = head[i]
        /\ \A i \in 1..w : s[k + i] = tail[i]
    <3>1. Joins(Nat, head, tail, s)
      BY <2>2, <2>3, BothJoin
    <3> QED BY <2>2, <3>1 DEF Joins
  <2>5. \A i \in 1..(k + w) : s[i] = IF i <= k THEN i - 1 ELSE n - w + (i - k) - 1
    <3> SUFFICES ASSUME NEW i \in 1..(k + w)
                 PROVE  s[i] = IF i <= k THEN i - 1 ELSE n - w + (i - k) - 1
      OBVIOUS
    <3>1. CASE i <= k
      BY <2>2, <2>4, <3>1
    <3>2. CASE i > k
      <4>1. PICK j \in 1..w : j = i - k /\ k + j = i
        BY <3>2
      <4>2. s[k + j] = tail[j] /\ tail[j] = n - w + j - 1
        BY <2>2, <2>4
      <4> QED BY <3>2, <4>1, <4>2
    <3> QED BY <3>1, <3>2
  <2>6. /\ \A i \in 1..(k + w) : i - 1 <= s[i] /\ s[i] < n
        /\ \A i, j \in 1..(k + w) : i < j => s[i] < s[j]
        /\ \A j \in 1..w : j <= n => j <= k + w /\ s[k + w + 1 - j] = n - j
        /\ \A i \in 1..k : i <= n => i <= k + w /\ s[i] = i - 1
    BY <1>3, <2>5
  <2>7. Positions(b, n, n, s)
    BY <1>a, <2>4, <2>6 DEF Positions
  <2> QED BY <1>1, <1>a, <2>4, <2>7
<1> QED BY <1>2, <1>3

\* The features a cache is given carry the positions they are rotated to.
ShiftBy(t, s) == [i \in 1..Len(s) |-> t + s[i]]

LEMMA ShiftIs ==
    ASSUME NEW t \in Nat, NEW s \in Seq(Nat)
    PROVE  /\ ShiftBy(t, s) \in Seq(Nat) /\ Len(ShiftBy(t, s)) = Len(s)
           /\ \A i \in 1..Len(s) : ShiftBy(t, s)[i] = t + s[i]
<1>1. Len(s) \in Nat /\ \A i \in 1..Len(s) : s[i] \in Nat
  BY LenProperties, ElementOfSeq
<1>2. ShiftBy(t, s) \in [1..Len(s) -> Nat]
  BY <1>1 DEF ShiftBy
<1>3. ShiftBy(t, s) \in Seq(Nat)
  BY <1>1, <1>2, SeqDef
<1> QED BY <1>1, <1>2, <1>3, LenProperties DEF ShiftBy

LEMMA SpansAre ==
    ASSUME NEW b, Sized(b), NEW n \in Nat \ {0}, NEW had \in Nat, had # 0
    PROVE  \E m \in Nat \ {0} : /\ m = IF n <= b.window THEN n ELSE b.window
                                /\ Draft!Spans(b, n, had) = Draft!Run(n - m, m)
<1>1. PICK w \in Nat \ {0} : w = b.window
  BY DEF Sized
<1>2. CASE n <= w
  BY <1>1, <1>2 DEF Draft!Spans
<1>3. CASE n > w
  BY <1>1, <1>3 DEF Draft!Spans
<1> QED BY <1>2, <1>3

LEMMA ShiftedRun ==
    ASSUME NEW t \in Nat, NEW a \in Nat, NEW n \in Nat
    PROVE  ShiftBy(t, Draft!Run(a, n)) = Draft!Run(t + a, n)
<1>1. PICK u : u = Draft!Run(a, n)
  OBVIOUS
<1>2. PICK q : q = ShiftBy(t, u)
  OBVIOUS
<1>0. PICK z \in Nat : z = t + a
  OBVIOUS
<1>3. PICK r : r = Draft!Run(z, n)
  OBVIOUS
<1>4. u \in Seq(Nat) /\ Len(u) = n /\ \A i \in 1..n : u[i] = a + i - 1
  <2>1. IsRun(a, n, u)
    BY <1>1, RunIs
  <2> QED BY <2>1 DEF IsRun
<1>5. q \in Seq(Nat) /\ Len(q) = n /\ \A i \in 1..n : q[i] = t + u[i]
  BY Zenon, <1>2, <1>4, ShiftIs
<1>6. r \in Seq(Nat) /\ Len(r) = n /\ \A i \in 1..n : r[i] = z + i - 1
  <2>1. IsRun(z, n, r)
    BY <1>3, RunIs
  <2> QED BY <2>1 DEF IsRun
<1>7. \A i \in 1..n : q[i] = r[i]
  BY <1>0, <1>4, <1>5, <1>6
<1>8. q = r
  BY <1>5, <1>6, <1>7, SeqEqual
<1> QED BY <1>0, <1>1, <1>2, <1>3, <1>8

LEMMA ProjectedIs ==
    ASSUME NEW b, NEW n \in Nat, NEW had \in Nat, NEW t \in Nat,
           NEW s \in Seq(Nat), s = Draft!Spans(b, n, had)
    PROVE  /\ Draft!Projected(b, n, had, t, t) = KeysOf(ShiftBy(t, s))
           /\ [i \in DOMAIN KeysOf(ShiftBy(t, s)) |-> KeysOf(ShiftBy(t, s))[i].rope] = ShiftBy(t, s)
<1>1. PICK r : r = ShiftBy(t, s)
  OBVIOUS
<1>2. /\ Len(s) \in Nat /\ DOMAIN s = 1..Len(s) /\ \A i \in 1..Len(s) : s[i] \in Nat
  BY LenProperties, ElementOfSeq
<1>3. /\ r \in Seq(Nat) /\ Len(r) = Len(s) /\ \A i \in 1..Len(s) : r[i] = t + s[i]
  BY <1>1, ShiftIs
<1>4. r = [i \in 1..Len(s) |-> t + s[i]]
  BY <1>1 DEF ShiftBy
<1>5. Draft!Projected(b, n, had, t, t) = KeysOf(r)
  <2>1. KeysOf(r) = [i \in 1..Len(s) |-> Draft!Entry(t + s[i], t + s[i])]
    BY Zenon, <1>2, <1>3 DEF KeysOf
  <2> QED BY <1>2, <2>1 DEF Draft!Projected
<1>6. [i \in DOMAIN KeysOf(r) |-> KeysOf(r)[i].rope] = r
  <2>1. DOMAIN KeysOf(r) = 1..Len(s) /\ \A i \in 1..Len(s) : KeysOf(r)[i].rope = t + s[i]
    BY Zenon, <1>2, <1>3 DEF KeysOf, Draft!Entry
  <2> QED BY Zenon, <1>4, <2>1
<1> QED BY <1>1, <1>5, <1>6

\* What a cache becomes: with the positions u projected of the next n it is that of
\* a longer text.
Appended(b, c, t, cache, n, u) ==
    LET s == cache.at \o u
    IN /\ u \in Seq(Nat) /\ Len(u) # 0
       /\ Positions(b, c, t + n, s)
       /\ Draft!Projected(b, n, Len(cache.keys), t, t) = KeysOf(u)
       /\ Draft!AppendContext(b, cache, n, t)
            = [keys |-> KeysOf(Draft!Trimmed(b, s)), at |-> Draft!Trimmed(b, s), offset |-> t + n]
       /\ t = 0 => cache.at = <<>> /\ Len(u) <= b.sink + b.window
       /\ t # 0 => Len(cache.at) # 0 /\ Len(u) <= b.window

LEMMA CacheHolds ==
    ASSUME NEW b, Sized(b), NEW c \in Nat, NEW t \in Nat, NEW cache, CacheOf(b, c, t, cache)
    PROVE  /\ cache.at \in Seq(Nat) /\ Len(cache.at) \in Nat
           /\ Len(cache.keys) = Len(cache.at) /\ cache.keys \in Seq(Ent)
           /\ Len(cache.at) = 0 <=> t = 0
<1>1. cache.at \in Seq(Nat) /\ Len(cache.at) \in Nat /\ cache.keys = KeysOf(cache.at)
  BY LenProperties DEF CacheOf, Positions
<1>2. Len(cache.keys) = Len(cache.at) /\ cache.keys \in Seq(Ent)
  BY <1>1, KeysAre
<1>3. t # 0 => Len(cache.at) # 0
  <2>1. 1 \in 1..b.window
    BY DEF Sized
  <2>2. t # 0 => 1 <= Len(cache.at)
    BY <2>1 DEF CacheOf, Positions
  <2> QED BY <1>1, <2>2
<1> QED BY <1>1, <1>2, <1>3 DEF CacheOf

LEMMA AppendIs ==
    ASSUME NEW b, Sized(b), NEW c \in Nat, NEW t \in Nat, NEW cache, CacheOf(b, c, t, cache),
           NEW n \in Nat \ {0}, t = 0 => c = n
    PROVE  \E u : Appended(b, c, t, cache, n, u)
<1>1. PICK s : s = cache.at
  OBVIOUS
<1>2. PICK had \in Nat : had = Len(cache.keys)
  BY CacheHolds
<1>3. /\ s \in Seq(Nat) /\ Len(s) = had /\ cache.keys = KeysOf(s) /\ cache.offset = t
      /\ had = 0 <=> t = 0
      /\ Positions(b, c, t, s)
  BY <1>1, <1>2, CacheHolds DEF CacheOf
<1>4. PICK sp : sp = Draft!Spans(b, n, had)
  OBVIOUS
<1>5. PICK u : u = ShiftBy(t, sp)
  OBVIOUS
<1>6. /\ sp \in Seq(Nat) /\ u \in Seq(Nat) /\ Len(u) # 0 /\ Positions(b, c, t + n, s \o u)
      /\ t = 0 => s = <<>> /\ Len(u) <= b.sink + b.window
      /\ t # 0 => Len(s) # 0 /\ Len(u) <= b.window
  <2>1. CASE t = 0
    <3>1. Positions(b, n, n, sp) /\ Len(sp) <= b.sink + b.window
      BY <1>3, <1>4, <2>1, FirstPositions
    <3>2. sp \in Seq(Nat) /\ Len(sp) # 0 /\ Len(sp) \in Nat
      <4>1. sp \in Seq(Nat)
        BY <3>1 DEF Positions
      <4>2. 1 \in 1..b.window /\ 1 <= n
        BY DEF Sized
      <4>3. 1 <= Len(sp)
        BY <3>1, <4>2 DEF Positions
      <4> QED BY <4>1, <4>3, LenProperties
    <3>3. u = sp
      <4>1. /\ u \in Seq(Nat) /\ Len(u) = Len(sp) /\ \A i \in 1..Len(sp) : u[i] = t + sp[i]
        BY <1>5, <3>2, ShiftIs
      <4>2. \A i \in 1..Len(sp) : sp[i] \in Nat
        BY <3>2, ElementOfSeq
      <4>3. \A i \in 1..Len(u) : u[i] = sp[i]
        BY <2>1, <4>1, <4>2
      <4> QED BY <3>2, <4>1, <4>3, SeqEqual
    <3>4. s = <<>> /\ s \o u = u
      <4>1. s = <<>>
        BY <1>3, <2>1, EmptySeq
      <4> QED BY <3>2, <3>3, <4>1, ConcatEmptySeq
    <3>5. t + n = n /\ c = n
      BY <2>1
    <3> QED BY <2>1, <3>1, <3>2, <3>3, <3>4, <3>5
  <2>2. CASE t # 0
    <3>1. PICK m \in Nat \ {0} : /\ m = IF n <= b.window THEN n ELSE b.window
                                 /\ sp = Draft!Run(n - m, m)
      BY <1>3, <1>4, <2>2, SpansAre
    <3>2. PICK a \in Nat : a = n - m
      BY <3>1 DEF Sized
    <3>3. IsRun(a, m, sp)
      BY <3>1, <3>2, RunIs
    <3>4. u = Draft!Run(t + a, m)
      BY <1>5, <3>1, <3>2, ShiftedRun
    <3>5. t + a = t + n - m
      BY <3>2
    <3>6. Positions(b, c, t + n, s \o u)
      BY <1>3, <2>2, <3>1, <3>4, <3>5, PositionsGrow
    <3>7. u \in Seq(Nat) /\ Len(u) = m
      BY <1>5, <3>3, ShiftIs DEF IsRun
    <3>8. m <= b.window
      BY <3>1 DEF Sized
    <3> QED BY <1>3, <2>2, <3>3, <3>6, <3>7, <3>8 DEF IsRun
  <2> QED BY <2>1, <2>2
<1>7. /\ Draft!Projected(b, n, had, t, t) = KeysOf(u)
      /\ [i \in DOMAIN KeysOf(u) |-> KeysOf(u)[i].rope] = u
  BY <1>4, <1>5, <1>6, ProjectedIs
<1>8. Draft!AppendContext(b, cache, n, t)
        = [keys |-> Draft!Trimmed(b, KeysOf(s) \o KeysOf(u)), at |-> Draft!Trimmed(b, s \o u),
           offset |-> t + n]
  BY Zenon, <1>1, <1>2, <1>3, <1>7 DEF Draft!AppendContext
<1>9. Draft!Trimmed(b, KeysOf(s) \o KeysOf(u)) = KeysOf(Draft!Trimmed(b, s \o u))
  <2>1. KeysOf(s) \o KeysOf(u) = KeysOf(s \o u)
    BY Zenon, <1>3, <1>6, KeysOfBoth
  <2>2. PICK r : r = s \o u
    BY Zenon
  <2>3. PICK e \in Nat : e = t + n
    OBVIOUS
  <2>4. Draft!Trimmed(b, KeysOf(r)) = KeysOf(Draft!Trimmed(b, r))
    BY <1>6, <2>2, <2>3, TrimmedPositions
  <2> QED BY <2>1, <2>2, <2>4
<1>10. Appended(b, c, t, cache, n, u)
  BY <1>1, <1>2, <1>6, <1>7, <1>8, <1>9 DEF Appended
<1> QED BY <1>10

LEMMA AppendHolds ==
    ASSUME NEW b, Sized(b), NEW c \in Nat, NEW t \in Nat, NEW cache, CacheOf(b, c, t, cache),
           NEW n \in Nat \ {0}, t = 0 => c = n
    PROVE  CacheOf(b, c, t + n, Draft!AppendContext(b, cache, n, t))
<1>1. PICK u : Appended(b, c, t, cache, n, u)
  BY AppendIs
<1>2. PICK s : s = cache.at \o u
  BY Zenon
<1>3. PICK e \in Nat \ {0} : e = t + n
  OBVIOUS
<1>4. PICK r : r = Draft!Trimmed(b, s)
  OBVIOUS
<1>5. PICK d : d = Draft!AppendContext(b, cache, n, t)
  OBVIOUS
<1>6. Positions(b, c, e, s) /\ d = [keys |-> KeysOf(r), at |-> r, offset |-> e]
  BY <1>1, <1>2, <1>3, <1>4, <1>5 DEF Appended
<1>7. Positions(b, c, e, r) /\ Len(r) = Kept(b.sink, b.window, Len(s))
  BY <1>4, <1>6, TrimmedPositions
<1>8. Len(r) <= b.sink + b.window
  <2>1. Len(s) \in Nat
    BY <1>6, LenProperties DEF Positions
  <2> QED BY <1>7, <2>1 DEF Kept, Sized
<1>9. CacheOf(b, c, e, d)
  BY <1>6, <1>7, <1>8 DEF CacheOf
<1> QED BY <1>3, <1>5, <1>9

\* What a block of n behind a text of t is meant to attend to.
Shown(mask, t, n) ==
    {<<x[1], Draft!Entry(x[2], x[2])>> :
        x \in {y \in (t..(t + n - 1)) \X (0..(t + n - 1)) : Draft!Sees(mask, y[1], y[2], t)}}

ShownTo(mask, t, n, x) ==
    \E q \in t..(t + n - 1), k \in 0..(t + n - 1) :
        Draft!Sees(mask, q, k, t) /\ x = <<q, Draft!Entry(k, k)>>

LEMMA ShownIs ==
    ASSUME NEW mask, NEW t \in Nat, NEW n \in Nat
    PROVE  \A x : x \in Shown(mask, t, n) <=> ShownTo(mask, t, n, x)
<1>1. ASSUME NEW x, x \in Shown(mask, t, n)
      PROVE  \E q \in t..(t + n - 1), k \in 0..(t + n - 1) :
                 Draft!Sees(mask, q, k, t) /\ x = <<q, Draft!Entry(k, k)>>
  <2>1. PICK y \in (t..(t + n - 1)) \X (0..(t + n - 1)) :
               Draft!Sees(mask, y[1], y[2], t) /\ x = <<y[1], Draft!Entry(y[2], y[2])>>
    BY <1>1 DEF Shown
  <2>2. y[1] \in t..(t + n - 1) /\ y[2] \in 0..(t + n - 1)
    BY <2>1
  <2> QED BY <2>1, <2>2
<1>2. ASSUME NEW x, NEW q \in t..(t + n - 1), NEW k \in 0..(t + n - 1),
             Draft!Sees(mask, q, k, t), x = <<q, Draft!Entry(k, k)>>
      PROVE  x \in Shown(mask, t, n)
  <2>1. PICK y : y = <<q, k>>
    BY Zenon
  <2>2. /\ y \in (t..(t + n - 1)) \X (0..(t + n - 1)) /\ y[1] = q /\ y[2] = k
    BY <2>1
  <2> QED BY <1>2, <2>2 DEF Shown
<1> QED BY <1>1, <1>2 DEF ShownTo

\* What it does attend to, with these keys at these positions.
SeenBy(mask, ks, s, t, n, x) ==
    \E q \in t..(t + n - 1), i \in 1..Len(ks) :
        Draft!Sees(mask, q, s[i], t) /\ x = <<q, ks[i]>>

LEMMA AttendedIs ==
    ASSUME NEW mask, NEW t \in Nat, NEW n \in Nat, NEW ks \in Seq(Ent), NEW s
    PROVE  \A x : x \in Draft!Attended(mask, ks, s, t, n) <=> SeenBy(mask, ks, s, t, n, x)
<1>0. DOMAIN ks = 1..Len(ks)
  BY LenProperties
<1>1. ASSUME NEW x, x \in Draft!Attended(mask, ks, s, t, n)
      PROVE  \E q \in t..(t + n - 1), i \in 1..Len(ks) :
                 Draft!Sees(mask, q, s[i], t) /\ x = <<q, ks[i]>>
  <2>1. PICK y \in (t..(t + n - 1)) \X DOMAIN ks :
               Draft!Sees(mask, y[1], s[y[2]], t) /\ x = <<y[1], ks[y[2]]>>
    BY <1>1 DEF Draft!Attended
  <2>2. y[1] \in t..(t + n - 1) /\ y[2] \in 1..Len(ks)
    BY <1>0, <2>1
  <2> QED BY <2>1, <2>2
<1>2. ASSUME NEW x, NEW q \in t..(t + n - 1), NEW i \in 1..Len(ks),
             Draft!Sees(mask, q, s[i], t), x = <<q, ks[i]>>
      PROVE  x \in Draft!Attended(mask, ks, s, t, n)
  <2>1. PICK y : y = <<q, i>>
    BY Zenon
  <2>2. /\ y \in (t..(t + n - 1)) \X DOMAIN ks /\ y[1] = q /\ y[2] = i
    BY <1>0, <2>1
  <2> QED BY Zenon, <1>2, <2>2 DEF Draft!Attended
<1> QED BY <1>1, <1>2 DEF SeenBy

\* The keys and positions of a block of n behind those of its context.
BlockBehind(ks, s, t, n, all, at) ==
    /\ all \in Seq(Ent) /\ at \in Seq(Nat)
    /\ Len(all) = Len(s) + n /\ Len(at) = Len(s) + n
    /\ \A i \in 1..Len(s) : all[i] = ks[i] /\ at[i] = s[i]
    /\ \A i \in 1..n : /\ all[Len(s) + i] = Draft!Entry(t + i - 1, t + i - 1)
                       /\ at[Len(s) + i] = t + i - 1

LEMMA BehindContext ==
    ASSUME NEW ks \in Seq(Ent), NEW s \in Seq(Nat), Len(ks) = Len(s),
           NEW t \in Nat, NEW n \in Nat
    PROVE  BlockBehind(ks, s, t, n, ks \o Draft!Noise(t, n), s \o Draft!Run(t, n))
<1>1. PICK r : r = Draft!Run(t, n)
  OBVIOUS
<1>2. IsRun(t, n, r)
  BY <1>1, RunIs
<1>3. PICK e : e = Draft!Noise(t, n)
  OBVIOUS
<1>4. e \in [1..n -> Ent] /\ \A i \in 1..n : e[i] = Draft!Entry(t + i - 1, t + i - 1)
  BY <1>3 DEF Draft!Noise, Draft!Entry, Ent
<1>5. e \in Seq(Ent) /\ Len(e) = n
  <2>1. e \in Seq(Ent)
    BY <1>4, SeqDef
  <2> QED BY <1>4, <2>1, LenProperties
<1>6. PICK all, at : all = ks \o e /\ at = s \o r
  BY Zenon
<1>7. Joins(Ent, ks, e, all) /\ Joins(Nat, s, r, at)
  BY <1>2, <1>5, <1>6, BothJoin DEF IsRun
<1>8. BlockBehind(ks, s, t, n, all, at)
  BY Zenon, <1>2, <1>4, <1>5, <1>7 DEF Joins, IsRun, BlockBehind
<1> QED BY <1>1, <1>3, <1>6, <1>8

LEMMA BlockSees ==
    ASSUME NEW b, Sized(b), b.window >= DraftSlide, NEW c \in Nat, NEW t \in Nat,
           NEW cache, CacheOf(b, c, t, cache), NEW n \in Nat, NEW mask \in {"dflash", "dflash2"}
    PROVE  Draft!Attended(mask, cache.keys \o Draft!Noise(t, n), cache.at \o Draft!Run(t, n), t, n)
             = Shown(mask, t, n)
<1>1. PICK s : s = cache.at
  OBVIOUS
<1>2. PICK l \in Nat : l = Len(s)
  BY <1>1, CacheHolds
<1>3. PICK ks, at : ks = cache.keys \o Draft!Noise(t, n) /\ at = s \o Draft!Run(t, n)
  BY Zenon
<1>4. /\ s \in Seq(Nat) /\ cache.keys \in Seq(Ent) /\ Len(cache.keys) = l
      /\ \A i \in 1..l : cache.keys[i] = Draft!Entry(s[i], s[i])
  BY <1>1, <1>2, CacheHolds, KeysAre DEF CacheOf
<1>5. /\ ks \in Seq(Ent) /\ Len(ks) = l + n
      /\ \A i \in 1..l : ks[i] = cache.keys[i] /\ at[i] = s[i]
      /\ \A i \in 1..n : /\ ks[l + i] = Draft!Entry(t + i - 1, t + i - 1)
                         /\ at[l + i] = t + i - 1
  <2>1. BlockBehind(cache.keys, s, t, n, ks, at)
    BY <1>2, <1>3, <1>4, BehindContext
  <2> QED BY <1>2, <2>1 DEF BlockBehind
<1>6. /\ \A i \in 1..l : s[i] \in 0..(t - 1)
      /\ \A j \in Nat \ {0} : j <= DraftSlide /\ j <= t =>
            l + 1 - j \in 1..l /\ s[l + 1 - j] = t - j
  <2>1. /\ \A i \in 1..l : s[i] \in Nat /\ s[i] < t
        /\ \A j \in 1..b.window : j <= t => j <= l /\ s[l + 1 - j] = t - j
    BY <1>1, <1>2, <1>4, ElementOfSeq DEF CacheOf, Positions
  <2>2. DraftSlide \in Nat /\ b.window \in Nat
    BY DraftConstants DEF Sized
  <2>3. ASSUME NEW j \in Nat \ {0}, j <= DraftSlide, j <= t
        PROVE  l + 1 - j \in 1..l /\ s[l + 1 - j] = t - j
    <3>1. j \in 1..b.window
      BY <2>2, <2>3
    <3> QED BY <2>1, <2>3, <3>1
  <2> QED BY <2>1, <2>3
<1>7. ASSUME NEW q \in t..(t + n - 1), NEW i \in 1..(l + n), Draft!Sees(mask, q, at[i], t)
      PROVE  \E k \in 0..(t + n - 1) :
                 Draft!Sees(mask, q, k, t) /\ <<q, ks[i]>> = <<q, Draft!Entry(k, k)>>
  <2>1. CASE i <= l
    <3>1. at[i] = s[i] /\ ks[i] = Draft!Entry(s[i], s[i]) /\ s[i] \in 0..(t - 1)
      BY <1>4, <1>5, <1>6, <2>1
    <3>2. s[i] \in 0..(t + n - 1)
      BY <3>1
    <3> QED BY <1>7, <3>1, <3>2
  <2>2. CASE i > l
    <3>1. PICK j \in 1..n : i = l + j
      <4>1. i - l \in 1..n /\ i = l + (i - l)
        BY <2>2
      <4> QED BY <4>1
    <3>2. PICK k \in 0..(t + n - 1) : k = t + j - 1
      BY <3>1
    <3>3. at[i] = k /\ ks[i] = Draft!Entry(k, k)
      BY <1>5, <3>1, <3>2
    <3> QED BY <1>7, <3>3
  <2> QED BY <2>1, <2>2
<1>8. ASSUME NEW q \in t..(t + n - 1), NEW k \in 0..(t + n - 1), Draft!Sees(mask, q, k, t)
      PROVE  \E i \in 1..(l + n) :
                 Draft!Sees(mask, q, at[i], t) /\ <<q, Draft!Entry(k, k)>> = <<q, ks[i]>>
  <2>1. CASE k < t
    <3>1. q - k < DraftSlide /\ DraftSlide \in Nat
      BY <1>8, <2>1, DraftConstants DEF Draft!Sees
    <3>2. PICK j \in Nat \ {0} : j = t - k /\ j <= DraftSlide /\ j <= t
      BY <2>1, <3>1
    <3>3. PICK i \in 1..l : i = l + 1 - j /\ s[i] = k
      BY <1>6, <3>2
    <3>4. ks[i] = Draft!Entry(k, k) /\ at[i] = k /\ i \in 1..(l + n)
      BY <1>4, <1>5, <3>3
    <3> QED BY <1>8, <3>4
  <2>2. CASE k >= t
    <3>1. PICK j \in 1..n : j = k - t + 1 /\ t + j - 1 = k
      BY <2>2
    <3>2. ks[l + j] = Draft!Entry(t + j - 1, t + j - 1) /\ at[l + j] = t + j - 1
      BY Zenon, <1>5
    <3>3. PICK i \in 1..(l + n) : i = l + j
      OBVIOUS
    <3> QED BY <1>8, <3>1, <3>2, <3>3
  <2> QED BY <2>1, <2>2
<1>9. Draft!Attended(mask, ks, at, t, n) = Shown(mask, t, n)
  <2>1. \A x : x \in Draft!Attended(mask, ks, at, t, n) <=> SeenBy(mask, ks, at, t, n, x)
    BY <1>5, AttendedIs
  <2>2. \A x : x \in Shown(mask, t, n) <=> ShownTo(mask, t, n, x)
    BY ShownIs
  <2>3. ASSUME NEW x, SeenBy(mask, ks, at, t, n, x) PROVE ShownTo(mask, t, n, x)
    BY <1>5, <1>7, <2>3 DEF SeenBy, ShownTo
  <2>4. ASSUME NEW x, ShownTo(mask, t, n, x) PROVE SeenBy(mask, ks, at, t, n, x)
    BY <1>5, <1>8, <2>4 DEF SeenBy, ShownTo
  <2> QED BY <2>1, <2>2, <2>3, <2>4
<1> QED BY <1>1, <1>3, <1>9

\* The keys ks a replay has for the positions s: all are of the context, and those its
\* mask looks at are those of their positions.
KeysInSight(w, t, s, ks) ==
    /\ ks \in Seq(Ent) /\ Len(ks) = Len(s)
    /\ \A i \in 1..Len(s) : \E k \in 0..(t - 1) : ks[i] = Draft!Entry(k, k)
    /\ \A i \in 1..Len(s) : s[i] + w > t => ks[i] = Draft!Entry(s[i], s[i])

\* The keys all, at the positions at, show a block of n behind t the context it is to see.
SameBehind(all, at, t, n) ==
    /\ Len(all) = Len(at)
    /\ {x \in Draft!Attended("dflash", all, at, t, n) : x[2].feat < t}
         = {x \in Shown("dflash2", t, n) : x[2].feat < t}

LEMMA ReplaySees ==
    ASSUME NEW b, Sized(b), b.window >= DraftSlide, NEW c \in Nat, NEW t \in Nat,
           NEW s, Positions(b, c, t, s), NEW ks, KeysInSight(b.window, t, s, ks), NEW n \in Nat
    PROVE  SameBehind(ks \o Draft!Noise(t, n), s \o Draft!Run(t, n), t, n)
<1>1. PICK l \in Nat : l = Len(s) /\ s \in Seq(Nat)
  BY LenProperties DEF Positions
<1>2. PICK w \in Nat \ {0} : w = b.window /\ DraftSlide <= w /\ DraftSlide \in Nat
  BY DraftConstants DEF Sized
<1>3. PICK all, at : all = ks \o Draft!Noise(t, n) /\ at = s \o Draft!Run(t, n)
  BY Zenon
<1>4. /\ all \in Seq(Ent) /\ Len(all) = l + n /\ Len(at) = l + n
      /\ \A i \in 1..l : all[i] = ks[i] /\ at[i] = s[i]
      /\ \A i \in 1..n : /\ all[l + i] = Draft!Entry(t + i - 1, t + i - 1)
                         /\ at[l + i] = t + i - 1
  <2>1. ks \in Seq(Ent) /\ Len(ks) = Len(s)
    BY DEF KeysInSight
  <2>2. BlockBehind(ks, s, t, n, all, at)
    BY <1>1, <1>3, <2>1, BehindContext
  <2> QED BY <1>1, <2>2 DEF BlockBehind
<1>5. /\ \A i \in 1..l : s[i] \in Nat /\ s[i] < t
      /\ \A j \in 1..w : j <= t => j <= l /\ s[l + 1 - j] = t - j
      /\ \A i \in 1..l : s[i] + w > t => ks[i] = Draft!Entry(s[i], s[i])
  BY <1>1, <1>2, ElementOfSeq DEF Positions, KeysInSight
<1>6. ASSUME NEW q \in t..(t + n - 1), NEW i \in 1..(l + n),
             Draft!Sees("dflash", q, at[i], t), all[i].feat < t
      PROVE  \E k \in 0..(t + n - 1) :
                 Draft!Sees("dflash2", q, k, t) /\ <<q, all[i]>> = <<q, Draft!Entry(k, k)>>
  <2>1. i <= l
    <3> SUFFICES ASSUME i > l PROVE FALSE
      OBVIOUS
    <3>1. PICK j \in 1..n : j = i - l /\ l + j = i
      OBVIOUS
    <3>2. all[l + j] = Draft!Entry(t + j - 1, t + j - 1)
      BY <1>4
    <3>3. all[i].feat = t + j - 1
      BY <3>1, <3>2 DEF Draft!Entry
    <3> QED BY <1>6, <3>3
  <2>a. PICK k : k = s[i]
    OBVIOUS
  <2>2. k \in Nat /\ k < t /\ at[i] = k /\ all[i] = ks[i]
    BY <1>4, <1>5, <2>1, <2>a
  <2>3. q >= k /\ q < k + DraftSlide
    BY <1>6, <2>2 DEF Draft!Sees
  <2>4. k + w > t
    BY <1>2, <2>2, <2>3
  <2>5. all[i] = Draft!Entry(k, k)
    BY <1>5, <2>1, <2>2, <2>4, <2>a
  <2>6. Draft!Sees("dflash2", q, k, t) /\ k \in 0..(t + n - 1)
    BY <1>2, <2>2, <2>3 DEF Draft!Sees
  <2> QED BY <2>5, <2>6
<1>7. ASSUME NEW q \in t..(t + n - 1), NEW k \in 0..(t + n - 1),
             Draft!Sees("dflash2", q, k, t), k < t
      PROVE  \E i \in 1..(l + n) :
                 Draft!Sees("dflash", q, at[i], t) /\ <<q, Draft!Entry(k, k)>> = <<q, all[i]>>
  <2>1. q - k < DraftSlide
    BY <1>7 DEF Draft!Sees
  <2>2. PICK j \in 1..w : j = t - k /\ j <= t
    BY <1>2, <1>7, <2>1
  <2>3. PICK i \in 1..l : i = l + 1 - j /\ s[i] = k
    BY <1>5, <2>2
  <2>4. s[i] + w > t
    BY <1>2, <2>1, <2>3
  <2>5. all[i] = Draft!Entry(k, k) /\ at[i] = k /\ i \in 1..(l + n)
    BY <1>4, <1>5, <2>3, <2>4
  <2>6. Draft!Sees("dflash", q, at[i], t)
    BY <1>2, <1>7, <2>1, <2>5 DEF Draft!Sees
  <2> QED BY <2>5, <2>6
<1>8. PICK A, B : /\ A = Draft!Attended("dflash", all, at, t, n)
                  /\ B = Shown("dflash2", t, n)
  OBVIOUS
<1>9. {x \in A : x[2].feat < t} = {x \in B : x[2].feat < t}
  <2>1. \A x : x \in A <=> SeenBy("dflash", all, at, t, n, x)
    BY <1>4, <1>8, AttendedIs
  <2>2. \A x : x \in B <=> ShownTo("dflash2", t, n, x)
    BY <1>8, ShownIs
  <2>3. ASSUME NEW x, SeenBy("dflash", all, at, t, n, x), x[2].feat < t
        PROVE  ShownTo("dflash2", t, n, x)
    <3>1. PICK q \in t..(t + n - 1), i \in 1..(l + n) :
             Draft!Sees("dflash", q, at[i], t) /\ x = <<q, all[i]>>
      BY <1>4, <2>3 DEF SeenBy
    <3>2. all[i].feat < t
      BY <2>3, <3>1
    <3> QED BY <1>6, <3>1, <3>2 DEF ShownTo
  <2>4. ASSUME NEW x, ShownTo("dflash2", t, n, x), x[2].feat < t
        PROVE  SeenBy("dflash", all, at, t, n, x)
    <3>1. PICK q \in t..(t + n - 1), k \in 0..(t + n - 1) :
             Draft!Sees("dflash2", q, k, t) /\ x = <<q, Draft!Entry(k, k)>>
      BY <2>4 DEF ShownTo
    <3>2. k < t
      BY <2>4, <3>1 DEF Draft!Entry
    <3>3. \E i \in 1..(l + n) : Draft!Sees("dflash", q, at[i], t) /\ x = <<q, all[i]>>
      BY <1>7, <3>1, <3>2
    <3> QED BY <1>4, <3>3 DEF SeenBy
  <2> QED BY <2>1, <2>2, <2>3, <2>4
<1> QED BY <1>3, <1>4, <1>8, <1>9 DEF SameBehind

\* The keys a replay puts together: those of the cache that the positions still tell of,
\* counted from its end, and the new ones.
Rejoined(cache, r, u) ==
    IF cache.keys = <<>> THEN KeysOf(u)
    ELSE Draft!Retained(cache.keys, Len(KeysOf(r)) - Len(KeysOf(u))) \o KeysOf(u)

\* The keys ks are those of all but the first d positions.
FromEnd(d, ks, all, r, most) ==
    /\ ks \in Seq(Ent) /\ Len(ks) = Len(r) /\ Len(r) + d = Len(all) /\ Len(r) \in Nat
    /\ \A i \in 1..Len(r) : ks[i] = KeysOf(all)[d + i]
    /\ d # 0 => Len(r) = most

LEMMA RejoinedIs ==
    ASSUME NEW b, Sized(b), b.sink # 0, NEW c \in Nat, NEW t \in Nat,
           NEW cache, CacheOf(b, c, t, cache), NEW n \in Nat \ {0},
           NEW u, Appended(b, c, t, cache, n, u),
           NEW r, r = Draft!Trimmed(b, cache.at \o u)
    PROVE  /\ Positions(b, c, t + n, r)
           /\ KeysInSight(b.window, t + n, r, Rejoined(cache, r, u))
<1>a. PICK k \in Nat \ {0}, w \in Nat \ {0} : k = b.sink /\ w = b.window
  BY DEF Sized
<1>b. PICK e \in Nat \ {0} : e = t + n
  OBVIOUS
<1>c. PICK s : s = cache.at
  OBVIOUS
<1>d. PICK l \in Nat : /\ s \in Seq(Nat) /\ l = Len(s) /\ Len(cache.keys) = l
                       /\ cache.keys = KeysOf(s) /\ cache.keys \in Seq(Ent)
  BY <1>c, CacheHolds DEF CacheOf
<1>e. PICK m \in Nat \ {0} : u \in Seq(Nat) /\ m = Len(u)
  BY LenProperties DEF Appended
<1>1. PICK all : all = s \o u
  BY Zenon
<1>2. /\ all \in Seq(Nat) /\ Len(all) = l + m /\ Positions(b, c, e, all)
      /\ KeysOf(all) = KeysOf(s) \o KeysOf(u)
  <2>1. Joins(Nat, s, u, all)
    BY <1>d, <1>e, <1>1, BothJoin
  <2>2. Positions(b, c, e, all)
    BY <1>b, <1>c, <1>1 DEF Appended
  <2>3. KeysOf(all) = KeysOf(s) \o KeysOf(u)
    BY Zenon, <1>1, <1>d, <1>e, KeysOfBoth
  <2> QED BY <1>d, <1>e, <2>1, <2>2, <2>3 DEF Joins
<1>3. r = Draft!Trimmed(b, all)
  BY <1>c, <1>1
<1>4. Positions(b, c, e, r) /\ r \in Seq(Nat)
  <2>1. Positions(b, c, e, r)
    BY <1>2, <1>3, TrimmedPositions
  <2> QED BY <2>1 DEF Positions
<1>5. Remains(k, w, Nat, all, r)
  BY Zenon, <1>a, <1>2, <1>3, TrimmedIs
<1>6. /\ \A i \in 1..(l + m) : all[i] \in 0..(e - 1)
      /\ \A i \in 1..Len(r) : i - 1 <= r[i] /\ r[i] < e /\ r[i] \in Nat
      /\ \A i, j \in 1..Len(r) : i < j => r[i] < r[j]
      /\ \A j \in 1..w : j <= e => j <= Len(r) /\ r[Len(r) + 1 - j] = e - j
  <2>1. \A i \in 1..(l + m) : all[i] \in Nat /\ all[i] < e
    BY Zenon, <1>2, ElementOfSeq DEF Positions
  <2>2. \A i \in 1..Len(r) : r[i] \in Nat
    BY <1>4, ElementOfSeq
  <2> QED BY <1>a, <1>4, <2>1, <2>2 DEF Positions
<1>7. PICK ks : ks = Rejoined(cache, r, u)
  OBVIOUS
\* Counted from their end the keys are those of all the positions.
<1>f. PICK d \in Nat : FromEnd(d, ks, all, r, k + w)
  <2>1. CASE l + m <= k + w
    <3>1. r = all
      BY Zenon, <1>a, <1>2, <1>3, <2>1 DEF Draft!Trimmed
    <3>2. ks = KeysOf(all)
      <4>1. CASE t = 0
        <5>1. s = <<>>
          BY <1>c, <4>1 DEF Appended
        <5>2. all = u
          BY <1>1, <1>e, <5>1, ConcatEmptySeq
        <5>3. cache.keys = <<>>
          BY <1>d, <5>1, EmptySeq
        <5> QED BY <1>7, <5>2, <5>3 DEF Rejoined
      <4>2. CASE t # 0
        <5>1. l # 0
          BY <1>c, <1>d, <4>2 DEF Appended
        <5>2. cache.keys # <<>>
          BY <1>d, <5>1, EmptySeq
        <5>3. Len(KeysOf(r)) = l + m /\ Len(KeysOf(u)) = m
          BY Zenon, <1>2, <1>e, <3>1, KeysAre
        <5>4. Len(KeysOf(r)) - Len(KeysOf(u)) = l
          BY <5>3
        <5>5. Draft!Last_(cache.keys, l) = cache.keys
          <6>1. Len(cache.keys) - l + 1 = 1
            BY <1>d
          <6>2. SubSeq(cache.keys, 1, Len(cache.keys)) = cache.keys
            BY <1>d, SubSeqFull
          <6> QED BY <6>1, <6>2 DEF Draft!Last_
        <5>6. Draft!Retained(cache.keys, l) = cache.keys
          BY <5>1, <5>5 DEF Draft!Retained
        <5>7. ks = cache.keys \o KeysOf(u)
          BY Zenon, <1>7, <5>2, <5>4, <5>6 DEF Rejoined
        <5> QED BY <1>2, <1>d, <5>7
      <4> QED BY <4>1, <4>2
    <3>3. ks \in Seq(Ent) /\ Len(ks) = l + m
      BY Zenon, <1>2, <3>2, KeysAre
    <3>4. ASSUME NEW i \in 1..Len(r) PROVE ks[i] = KeysOf(all)[0 + i]
      <4>1. 0 + i = i
        BY <1>2, <3>1
      <4> QED BY <3>2, <4>1
    <3>5. FromEnd(0, ks, all, r, k + w)
      <4>1. /\ ks \in Seq(Ent) /\ Len(ks) = Len(r) /\ Len(r) + 0 = Len(all)
            /\ Len(r) \in Nat /\ (0 # 0 => Len(r) = k + w)
        BY <1>2, <3>1, <3>3
      <4> QED BY <3>4, <4>1, Zenon DEF FromEnd
    <3> QED BY <3>5
  <2>2. CASE l + m > k + w
    <3>1. Len(r) = k + w
      BY <1>2, <1>5, <2>2 DEF Remains, Kept
    <3>2. t # 0 /\ l # 0 /\ m <= w
      <4>1. t # 0
        <5> SUFFICES ASSUME t = 0 PROVE FALSE
          OBVIOUS
        <5>1. s = <<>> /\ m <= k + w
          BY <1>a, <1>c, <1>e DEF Appended
        <5>2. l = 0
          BY <1>d, <5>1, EmptySeq
        <5> QED BY <2>2, <5>1, <5>2
      <4> QED BY <1>a, <1>c, <1>d, <1>e, <4>1 DEF Appended
    <3>3. PICK q \in Nat \ {0}, d \in Nat : q = k + w - m /\ d = l - q /\ q <= l
      BY <2>2, <3>2
    <3>4. cache.keys # <<>>
      BY <1>d, <3>2, EmptySeq
    <3>5. Len(KeysOf(r)) - Len(KeysOf(u)) = q
      <4>1. Len(KeysOf(r)) = k + w /\ Len(KeysOf(u)) = m
        BY <1>4, <1>e, <3>1, KeysAre
      <4> QED BY <3>3, <4>1
    <3>6. PICK h : h = SubSeq(cache.keys, d + 1, l)
      BY Zenon
    <3>7. Draft!Retained(cache.keys, q) = h
      <4>1. Len(cache.keys) - q + 1 = d + 1 /\ Len(cache.keys) = l
        BY <1>d, <3>3
      <4> QED BY <3>3, <3>6, <4>1 DEF Draft!Retained, Draft!Last_
    <3>8. /\ h \in Seq(Ent) /\ Len(h) = q
          /\ \A i \in 1..q : h[i] = cache.keys[d + i]
      <4>1. \A i \in (d + 1)..l : cache.keys[i] \in Ent
        BY <1>d, ElementOfSeq
      <4>2. /\ SubSeq(cache.keys, d + 1, l) \in Seq(Ent)
            /\ Len(SubSeq(cache.keys, d + 1, l)) = IF d + 1 <= l THEN l - (d + 1) + 1 ELSE 0
            /\ \A i \in 1..(l - (d + 1) + 1) :
                  SubSeq(cache.keys, d + 1, l)[i] = cache.keys[(d + 1) + i - 1]
        BY <4>1, SubSeqProperties
      <4> QED BY <3>3, <3>6, <4>2
    <3>9. ks = h \o KeysOf(u)
      BY Zenon, <1>7, <3>4, <3>5, <3>7 DEF Rejoined
    <3>10. KeysOf(u) \in Seq(Ent) /\ Len(KeysOf(u)) = m
      BY <1>e, KeysAre
    <3>11. Joins(Ent, h, KeysOf(u), ks) /\ Joins(Ent, cache.keys, KeysOf(u), KeysOf(all))
      BY <1>2, <1>d, <3>8, <3>9, <3>10, BothJoin
    <3>12. /\ ks \in Seq(Ent) /\ Len(ks) = q + m
           /\ \A i \in 1..q : ks[i] = cache.keys[d + i]
           /\ \A i \in 1..m : ks[q + i] = KeysOf(u)[i]
           /\ \A i \in 1..l : KeysOf(all)[i] = cache.keys[i]
           /\ \A i \in 1..m : KeysOf(all)[l + i] = KeysOf(u)[i]
      BY Zenon, <1>d, <3>8, <3>10, <3>11 DEF Joins
    <3>13. ASSUME NEW i \in 1..(q + m) PROVE ks[i] = KeysOf(all)[d + i]
      <4>1. CASE i <= q
        <5>1. d + i \in 1..l
          BY <3>3, <4>1
        <5> QED BY <3>12, <4>1, <5>1
      <4>2. CASE i > q
        <5>1. PICK j \in 1..m : j = i - q /\ q + j = i /\ l + j = d + i
          BY <3>3, <4>2
        <5>2. ks[q + j] = KeysOf(all)[l + j]
          BY Zenon, <3>12
        <5> QED BY <5>1, <5>2
      <4> QED BY <4>1, <4>2
    <3>14. FromEnd(d, ks, all, r, k + w)
      <4>1. /\ ks \in Seq(Ent) /\ Len(ks) = Len(r) /\ Len(r) + d = Len(all)
            /\ Len(r) \in Nat /\ Len(r) = k + w /\ Len(r) = q + m
        BY <1>2, <3>1, <3>3, <3>12
      <4> QED BY <3>13, <4>1, Zenon DEF FromEnd
    <3> QED BY <3>14
  <2> QED BY <2>1, <2>2
<1>8. /\ ks \in Seq(Ent) /\ Len(ks) = Len(r) /\ Len(r) + d = l + m /\ Len(r) \in Nat
      /\ \A i \in 1..Len(r) : ks[i] = KeysOf(all)[d + i]
      /\ d # 0 => Len(r) = k + w
  BY Zenon, <1>2, <1>f DEF FromEnd
<1>9. ASSUME NEW i \in 1..Len(r)
      PROVE  d + i \in 1..(l + m) /\ ks[i] = Draft!Entry(all[d + i], all[d + i])
  <2>1. d + i \in 1..(l + m)
    BY <1>8
  <2> QED BY Zenon, <1>2, <1>8, <2>1, KeysAre
<1>10. ASSUME NEW i \in 1..Len(r), r[i] + w > e
       PROVE  ks[i] = Draft!Entry(r[i], r[i])
  <2>1. r[i] = all[KeptAt(k, w, l + m, i)]
    BY Zenon, <1>2, <1>5 DEF Remains
  <2>2. CASE d = 0
    <3>1. KeptAt(k, w, l + m, i) = i /\ d + i = i
      <4>1. Len(r) = Kept(k, w, l + m)
        BY <1>2, <1>5 DEF Remains
      <4> QED BY <1>8, <2>2, <4>1 DEF Kept, KeptAt
    <3> QED BY <1>9, <2>1, <3>1
  <2>3. CASE d # 0
    <3>1. Len(r) = k + w
      BY <1>8, <2>3
    <3>2. w <= e
      <4>1. k + w \in 1..Len(r)
        BY <3>1
      <4>2. k + w - 1 < e
        BY <1>6, <4>1
      <4> QED BY <4>2
    <3>3. k + 1 \in 1..Len(r) /\ r[k + 1] = e - w
      <4>1. w \in 1..w /\ Len(r) + 1 - w = k + 1
        BY <3>1
      <4> QED BY <1>6, <3>1, <3>2, <4>1
    <3>4. i > k
      <4> SUFFICES ASSUME i <= k PROVE FALSE
        BY <1>8
      <4>1. r[i] < r[k + 1] /\ r[i] \in Nat
        BY <1>6, <3>3
      <4> QED BY <1>10, <3>3, <4>1
    <3>5. KeptAt(k, w, l + m, i) = d + i
      BY <1>8, <2>3, <3>1, <3>4 DEF KeptAt
    <3> QED BY <1>9, <2>1, <3>5
  <2> QED BY <2>2, <2>3
<1>11. KeysInSight(w, e, r, ks)
  <2>1. ASSUME NEW i \in 1..Len(r) PROVE \E j \in 0..(e - 1) : ks[i] = Draft!Entry(j, j)
    BY Zenon, <1>6, <1>9
  <2> QED BY <1>8, <1>10, <2>1 DEF KeysInSight
<1> QED BY <1>4, <1>7, <1>11, <1>a, <1>b

\* The full cache of a text of t: a buffer that holds its entries first.
FullOf(t, f) ==
    /\ f = [buf |-> f.buf, length |-> t, offset |-> t]
    /\ f.buf \in Seq(Ent) /\ t <= Len(f.buf)
    /\ \A i \in 1..t : f.buf[i] = Draft!Entry(i - 1, i - 1)

LEMMA CapacityIs ==
    ASSUME NEW n \in Nat
    PROVE  Draft!Capacity(n) \in Nat /\ n <= Draft!Capacity(n)
<1>1. PICK z \in Nat \ {0} : z = DraftStep
  BY DraftConstants
<1>2. PICK a \in Nat : a = n + z - 1
  BY <1>1
<1>3. PICK d : d = a \div z
  OBVIOUS
<1>4. d \in Nat /\ a % z \in 0..(z - 1) /\ a = d * z + (a % z)
  BY <1>3
<1>5. d * z \in Nat /\ n <= d * z
  BY <1>2, <1>4
<1> QED BY <1>1, <1>2, <1>3, <1>5 DEF Draft!Capacity

LEMMA WrittenIs ==
    ASSUME NEW t \in Nat, NEW f, f.buf \in Seq(Ent), f.length = t, t <= Len(f.buf),
           NEW es \in Seq(Ent)
    PROVE  /\ Draft!Written(f, es) \in Seq(Ent)
           /\ t + Len(es) <= Len(Draft!Written(f, es))
           /\ \A i \in 1..t : Draft!Written(f, es)[i] = f.buf[i]
           /\ \A i \in 1..Len(es) : Draft!Written(f, es)[t + i] = es[i]
<1>0. PICK old : old = f.buf
  OBVIOUS
<1>1. PICK n \in Nat, l \in Nat : /\ n = Len(es) /\ old = f.buf /\ l = Len(old) /\ t <= l
                                  /\ old \in Seq(Ent) /\ DOMAIN old = 1..l
  BY <1>0, LenProperties
<1>2. /\ \A i \in 1..l : old[i] \in Ent
      /\ \A i \in 1..n : es[i] \in Ent
  BY <1>1, ElementOfSeq
<1>3. PICK g : g = Draft!Grown(f, t + n)
  OBVIOUS
<1>4. \E h \in Nat : /\ t + n <= h /\ g \in [1..h -> Ent]
                     /\ \A i \in 1..t : g[i] = old[i]
  <2>1. CASE t + n <= l
    <3>1. g = old
      BY <1>1, <1>3, <2>1 DEF Draft!Grown
    <3>2. old \in [1..l -> Ent]
      BY <1>1, LenProperties
    <3> QED BY <2>1, <3>1, <3>2
  <2>2. CASE ~(t + n <= l)
    <3>0. PICK z \in Nat : z = t + n
      OBVIOUS
    <3>a. Draft!Capacity(z) \in Nat /\ z <= Draft!Capacity(z)
      BY Zenon, CapacityIs
    <3>1. PICK h \in Nat : h = Draft!Capacity(t + n) /\ t + n <= h
      BY <3>0, <3>a
    <3>2. g = [i \in 1..h |-> IF i <= t THEN old[i] ELSE Draft!Zero]
      BY <1>1, <1>3, <2>2, <3>1 DEF Draft!Grown
    <3>3. Draft!Zero \in Ent
      BY DEF Draft!Zero, Draft!Entry, Ent
    <3>4. \A i \in 1..h : i <= t => old[i] \in Ent
      BY <1>1, <1>2
    <3>5. g \in [1..h -> Ent]
      BY <3>2, <3>3, <3>4
    <3>6. \A i \in 1..t : g[i] = old[i]
      BY <3>1, <3>2
    <3> QED BY <3>1, <3>5, <3>6
  <2> QED BY <2>1, <2>2
<1>5. PICK h \in Nat : /\ t + n <= h /\ g \in [1..h -> Ent]
                       /\ \A i \in 1..t : g[i] = old[i]
  BY Zenon, <1>4
<1>6. PICK r : r = Draft!Written(f, es)
  OBVIOUS
<1>7. r = [i \in 1..h |-> IF i \in (t + 1)..(t + n) THEN es[i - t] ELSE g[i]]
  BY <1>1, <1>3, <1>5, <1>6 DEF Draft!Written
<1>8. ASSUME NEW i \in 1..h PROVE r[i] \in Ent
  <2>1. CASE i \in (t + 1)..(t + n)
    <3>1. PICK j \in 1..n : j = i - t
      BY <2>1
    <3> QED BY <1>2, <1>7, <2>1, <3>1
  <2>2. CASE i \notin (t + 1)..(t + n)
    BY <1>5, <1>7, <2>2
  <2> QED BY <2>1, <2>2
<1>9. r \in [1..h -> Ent]
  BY <1>7, <1>8
<1>10. r \in Seq(Ent) /\ Len(r) = h
  <2>1. r \in Seq(Ent)
    BY <1>9, SeqDef
  <2> QED BY <1>9, <2>1, LenProperties
<1>11. \A i \in 1..t : r[i] = old[i]
  BY <1>5, <1>7
<1>12. ASSUME NEW i \in 1..n PROVE r[t + i] = es[i]
  <2>1. PICK j \in 1..h : j = t + i /\ j \in (t + 1)..(t + n) /\ j - t = i
    BY <1>5
  <2> QED BY <1>7, <2>1
<1> QED BY <1>1, <1>5, <1>6, <1>10, <1>11, <1>12

LEMMA FullAppendHolds ==
    ASSUME NEW t \in Nat, NEW f, FullOf(t, f), NEW n \in Nat
    PROVE  FullOf(t + n, Draft!FullAppend(f, n, t))
<1>1. PICK es : es = [i \in 1..n |-> Draft!Entry(t + i - 1, t + i - 1)]
  BY Zenon
<1>2. es \in [1..n -> Ent]
  BY <1>1 DEF Draft!Entry, Ent
<1>3. es \in Seq(Ent) /\ Len(es) = n
  <2>1. es \in Seq(Ent)
    BY <1>2, SeqDef
  <2> QED BY <1>2, <2>1, LenProperties
<1>4. f.length = t /\ f.offset = t /\ f.buf \in Seq(Ent) /\ t <= Len(f.buf)
  BY DEF FullOf
<1>5. PICK r : r = Draft!Written(f, es)
  OBVIOUS
<1>6. PICK g : g = Draft!FullAppend(f, n, t)
  OBVIOUS
<1>7. g = [buf |-> r, length |-> t + n, offset |-> t + n]
  BY <1>1, <1>4, <1>5, <1>6 DEF Draft!FullAppend
<1>8. /\ r \in Seq(Ent) /\ t + n <= Len(r)
      /\ \A i \in 1..t : r[i] = f.buf[i]
      /\ \A i \in 1..n : r[t + i] = es[i]
  BY <1>3, <1>4, <1>5, WrittenIs
<1>9. ASSUME NEW i \in 1..(t + n) PROVE r[i] = Draft!Entry(i - 1, i - 1)
  <2>1. CASE i <= t
    BY <1>8, <2>1 DEF FullOf
  <2>2. CASE i > t
    <3>1. PICK j \in 1..n : j = i - t /\ t + j = i /\ t + j - 1 = i - 1
      BY <2>2
    <3>2. r[t + j] = es[j] /\ es[j] = Draft!Entry(t + j - 1, t + j - 1)
      BY Zenon, <1>1, <1>8
    <3> QED BY <3>1, <3>2
  <2> QED BY <2>1, <2>2
<1> QED BY <1>6, <1>7, <1>8, <1>9 DEF FullOf

LEMMA WithBlockHolds ==
    ASSUME NEW t \in Nat, NEW f, FullOf(t, f), NEW n \in Nat
    PROVE  LET g == Draft!WithBlock(f, Draft!Noise(t, n))
           IN /\ FullOf(t, g)
              /\ Draft!First_(g.buf, t + n) \in Seq(Ent)
              /\ Draft!First_(g.buf, t + n) = [i \in 1..(t + n) |-> Draft!Entry(i - 1, i - 1)]
<1>1. PICK es : es = Draft!Noise(t, n)
  OBVIOUS
<1>2. /\ es \in [1..n -> Ent]
      /\ \A i \in 1..n : es[i] = Draft!Entry(t + i - 1, t + i - 1)
  BY <1>1 DEF Draft!Noise, Draft!Entry, Ent
<1>3. es \in Seq(Ent) /\ Len(es) = n
  <2>1. es \in Seq(Ent)
    BY <1>2, SeqDef
  <2> QED BY <1>2, <2>1, LenProperties
<1>4. /\ f = [buf |-> f.buf, length |-> t, offset |-> t]
      /\ f.buf \in Seq(Ent) /\ t <= Len(f.buf) /\ f.length = t
  BY DEF FullOf
<1>5. PICK r : r = Draft!Written(f, es)
  OBVIOUS
<1>6. PICK g : g = Draft!WithBlock(f, es)
  OBVIOUS
<1>7. g = [buf |-> r, length |-> t, offset |-> t]
  BY <1>4, <1>5, <1>6 DEF Draft!WithBlock
<1>8. /\ r \in Seq(Ent) /\ t + n <= Len(r)
      /\ \A i \in 1..t : r[i] = f.buf[i]
      /\ \A i \in 1..n : r[t + i] = es[i]
  BY <1>3, <1>4, <1>5, WrittenIs
<1>9. ASSUME NEW i \in 1..(t + n) PROVE r[i] = Draft!Entry(i - 1, i - 1)
  <2>1. CASE i <= t
    BY <1>8, <2>1 DEF FullOf
  <2>2. CASE i > t
    <3>1. PICK j \in 1..n : j = i - t /\ t + j = i /\ t + j - 1 = i - 1
      BY <2>2
    <3>2. r[t + j] = es[j] /\ es[j] = Draft!Entry(t + j - 1, t + j - 1)
      BY <1>2, <1>8
    <3> QED BY <3>1, <3>2
  <2> QED BY <2>1, <2>2
<1>10. FullOf(t, g)
  <2>1. t <= Len(r)
    BY <1>8, LenProperties
  <2>2. \A i \in 1..t : r[i] = Draft!Entry(i - 1, i - 1)
    BY <1>9
  <2> QED BY <1>7, <1>8, <2>1, <2>2 DEF FullOf
<1>11. PICK m \in Nat : m = t + n
  OBVIOUS
<1>12. PICK a : a = SubSeq(r, 1, m)
  BY Zenon
<1>13. /\ a \in Seq(Ent) /\ Len(a) = m
       /\ \A i \in 1..m : a[i] = r[i]
  <2>1. \A i \in 1..m : r[i] \in Ent
    BY <1>8, <1>11, LenProperties, ElementOfSeq
  <2>2. /\ SubSeq(r, 1, m) \in Seq(Ent)
        /\ Len(SubSeq(r, 1, m)) = IF 1 <= m THEN m - 1 + 1 ELSE 0
        /\ \A i \in 1..(m - 1 + 1) : SubSeq(r, 1, m)[i] = r[1 + i - 1]
    BY <2>1, SubSeqProperties
  <2> QED BY <1>12, <2>2
<1>14. a = [i \in 1..m |-> Draft!Entry(i - 1, i - 1)]
  <2>1. a = [i \in 1..m |-> a[i]]
    BY <1>13, LenProperties
  <2> QED BY <1>9, <1>11, <1>13, <2>1
<1> QED BY <1>1, <1>6, <1>7, <1>10, <1>11, <1>12, <1>13, <1>14 DEF Draft!First_

(* The history of a request tells where every cycle began and what its block  *)
(* attended to; the caches are those of the text it comes to.  In training    *)
(* the replay's cache is that of the text before the cycle that is next.      *)

Cycles ==
    [start : Nat, context : Nat \ {0}, block : {0}]
      \cup [start : Nat, context : Nat \ {0}, block : Nat \ {0},
            window : SUBSET (Int \X Ent), all : Seq(Ent)]

CycleSees(mask, e) ==
    LET t == e.start + e.context
    IN e.block > 0 =>
         /\ e.window = Shown(mask, t, e.block)
         /\ e.all = [i \in 1..(t + e.block) |-> Draft!Entry(i - 1, i - 1)]

HistoryIs ==
    /\ hist \in Seq(Cycles)
    /\ \A i \in 1..Len(hist) :
          /\ hist[i].start = IF i = 1 THEN 0 ELSE Draft!Before(i - 1)
          /\ CycleSees(kind, hist[i])

FirstContext == IF hist = <<>> THEN 0 ELSE hist[1].context

ServedIs ==
    /\ CacheOf(Draft!Served, FirstContext, Draft!Total, ctx)
    /\ FullOf(Draft!Total, full)

ReplayCacheIs ==
    /\ rp = [cache |-> rp.cache, last |-> rp.last, next |-> rp.next, pass |-> rp.pass]
    /\ rp.next \in 1..Len(hist) /\ rp.last \in Int /\ rp.last >= -1
    /\ rp.next # 1 =>
          /\ rp.last = rp.next - 2
          /\ CacheOf(Draft!Rebuilt, hist[1].context, hist[rp.next].start, rp.cache)

TrainedIs ==
    /\ kind \in {"dflash", "dflash2"} /\ stage \in {"serving", "training"}
    /\ stage = "serving" => /\ rp = [cache |-> Draft!Blank, last |-> -1, next |-> 1, pass |-> 1]
                            /\ replayed = [cycle |-> 0]
    /\ stage = "training" =>
          /\ kind = "dflash2" /\ hist # <<>>
          /\ \A i \in 1..Len(hist) : hist[i].block > 0
          /\ ReplayCacheIs
          /\ replayed.cycle \in 0..Len(hist)
          /\ Draft!ReplaySeesTheContext

DraftInv == HistoryIs /\ ServedIs /\ TrainedIs

LEMMA CycleIs ==
    ASSUME NEW e \in Cycles
    PROVE  e.start \in Nat /\ e.context \in Nat \ {0} /\ e.block \in Nat
BY DEF Cycles

LEMMA HistoryTells ==
    ASSUME HistoryIs
    PROVE  /\ Len(hist) \in Nat /\ DOMAIN hist = 1..Len(hist)
           /\ hist = <<>> <=> Len(hist) = 0
           /\ \A i \in 1..Len(hist) : /\ hist[i].start \in Nat /\ hist[i].context \in Nat \ {0}
                                      /\ hist[i].block \in Nat
                                      /\ Draft!Before(i) = hist[i].start + hist[i].context
           /\ Draft!Total \in Nat /\ (Draft!Total = 0 <=> hist = <<>>)
           /\ FirstContext \in Nat
<1>1. /\ hist \in Seq(Cycles) /\ Len(hist) \in Nat /\ DOMAIN hist = 1..Len(hist)
      /\ hist = <<>> <=> Len(hist) = 0
  BY LenProperties, EmptySeq DEF HistoryIs
<1>2. ASSUME NEW i \in 1..Len(hist)
      PROVE  hist[i].start \in Nat /\ hist[i].context \in Nat \ {0} /\ hist[i].block \in Nat
  <2>1. hist[i] \in Cycles
    BY <1>1, ElementOfSeq
  <2> QED BY <2>1, CycleIs
<1>3. Draft!Total \in Nat /\ (Draft!Total = 0 <=> hist = <<>>)
  <2>1. CASE hist = <<>>
    BY <2>1 DEF Draft!Total
  <2>2. CASE hist # <<>>
    <3>1. Len(hist) \in 1..Len(hist)
      BY <1>1, <2>2
    <3> QED BY <1>2, <2>2, <3>1 DEF Draft!Total, Draft!Before
  <2> QED BY <2>1, <2>2
<1>4. FirstContext \in Nat
  <2>1. hist # <<>> => 1 \in 1..Len(hist)
    BY <1>1
  <2> QED BY <1>2, <2>1 DEF FirstContext
<1> QED BY <1>1, <1>2, <1>3, <1>4 DEF Draft!Before

LEMMA OneMoreCycle ==
    ASSUME HistoryIs, NEW e \in Cycles, e.start = Draft!Total, CycleSees(kind, e),
           hist' = Append(hist, e), kind' = kind
    PROVE  /\ HistoryIs'
           /\ Draft!Total' = Draft!Total + e.context
           /\ FirstContext' = IF hist = <<>> THEN e.context ELSE FirstContext
<1>0. PICK l \in Nat : /\ hist \in Seq(Cycles) /\ l = Len(hist) /\ (hist = <<>> <=> l = 0)
  BY HistoryTells DEF HistoryIs
<1>1. PICK h : h = hist'
  OBVIOUS
<1>2. /\ h \in Seq(Cycles) /\ h # <<>> /\ Len(h) = l + 1
      /\ \A i \in 1..l : h[i] = hist[i]
      /\ h[l + 1] = e
  BY <1>0, <1>1, AppendProperties
<1>3. \A i \in 1..l : /\ hist[i].start = IF i = 1 THEN 0 ELSE Draft!Before(i - 1)
                      /\ CycleSees(kind, hist[i])
  BY <1>0 DEF HistoryIs
<1>4. ASSUME NEW i \in 1..(l + 1)
      PROVE  /\ h[i].start = IF i = 1 THEN 0 ELSE h[i - 1].start + h[i - 1].context
             /\ CycleSees(kind, h[i])
  <2>1. CASE i <= l
    <3>1. h[i] = hist[i] /\ i \in 1..l
      BY <1>2, <2>1
    <3>2. i # 1 => h[i - 1] = hist[i - 1]
      BY <1>2, <2>1
    <3> QED BY <1>3, <3>1, <3>2 DEF Draft!Before
  <2>2. CASE i = l + 1
    <3>1. CASE l = 0
      BY <1>0, <1>2, <2>2, <3>1 DEF Draft!Total
    <3>2. CASE l # 0
      <4>1. h[i] = e /\ h[i - 1] = hist[l] /\ i # 1
        BY <1>2, <2>2, <3>2
      <4>2. e.start = hist[l].start + hist[l].context
        BY <1>0, <3>2 DEF Draft!Total, Draft!Before
      <4> QED BY <4>1, <4>2
    <3> QED BY <3>1, <3>2
  <2> QED BY <2>1, <2>2
<1>5. HistoryIs'
  <2>1. \A i \in 1..(l + 1) : i # 1 => Draft!Before(i - 1)' = h[i - 1].start + h[i - 1].context
    BY <1>1 DEF Draft!Before
  <2> QED BY <1>1, <1>2, <1>4, <2>1 DEF HistoryIs
<1>6. Draft!Total' = e.start + e.context
  BY <1>1, <1>2 DEF Draft!Total, Draft!Before
<1>7. FirstContext' = IF hist = <<>> THEN e.context ELSE FirstContext
  <2>1. hist # <<>> => 1 \in 1..l /\ h[1] = hist[1]
    BY <1>0, <1>2
  <2>2. hist = <<>> => h[1] = e
    BY <1>0, <1>2
  <2> QED BY <1>1, <1>2, <2>1, <2>2 DEF FirstContext
<1> QED BY <1>5, <1>6, <1>7

\* A context of n appended to both caches.
LEMMA AppendServes ==
    ASSUME HistoryIs, ServedIs, NEW n \in Nat \ {0}
    PROVE  /\ ctx.offset = Draft!Total /\ full.offset = Draft!Total
           /\ CacheOf(Draft!Served, IF hist = <<>> THEN n ELSE FirstContext, Draft!Total + n,
                      Draft!AppendContext(Draft!Served, ctx, n, Draft!Total))
           /\ FullOf(Draft!Total + n, Draft!FullAppend(full, n, Draft!Total))
<1>1. PICK t \in Nat : t = Draft!Total /\ (t = 0 <=> hist = <<>>)
  BY HistoryTells
<1>2. PICK c \in Nat : c = IF hist = <<>> THEN n ELSE FirstContext
  BY HistoryTells
<1>3. PICK b : b = Draft!Served /\ Sized(b)
  BY DraftConstants
<1>4. PICK x, f : x = ctx /\ f = full
  OBVIOUS
<1>5. CacheOf(b, FirstContext, t, x) /\ FullOf(t, f)
  BY <1>1, <1>3, <1>4 DEF ServedIs
<1>6. CacheOf(b, c, t, x)
  <2>1. CASE t # 0
    BY <1>1, <1>2, <1>5, <2>1
  <2>2. CASE t = 0
    BY <1>5, <2>2 DEF CacheOf, Positions
  <2> QED BY <2>1, <2>2
<1>7. CacheOf(b, c, t + n, Draft!AppendContext(b, x, n, t))
  BY <1>1, <1>2, <1>3, <1>6, AppendHolds
<1>8. FullOf(t + n, Draft!FullAppend(f, n, t))
  BY <1>5, FullAppendHolds
<1>9. x.offset = t /\ f.offset = t
  BY <1>5 DEF CacheOf, FullOf
<1> QED BY <1>1, <1>2, <1>3, <1>4, <1>7, <1>8, <1>9

LEMMA ShownType ==
    ASSUME NEW mask, NEW t \in Nat, NEW n \in Nat
    PROVE  Shown(mask, t, n) \in SUBSET (Int \X Ent)
<1> SUFFICES ASSUME NEW x \in Shown(mask, t, n) PROVE x \in Int \X Ent
  OBVIOUS
<1>1. ShownTo(mask, t, n, x)
  BY ShownIs
<1> QED BY <1>1 DEF ShownTo, Ent, Draft!Entry

LEMMA DraftedCycle ==
    ASSUME NEW t \in Nat, NEW n \in Nat \ {0}, NEW k \in Nat \ {0},
           NEW window \in SUBSET (Int \X Ent), NEW all \in Seq(Ent)
    PROVE  [start |-> t, context |-> n, block |-> k, window |-> window, all |-> all] \in Cycles
BY DEF Cycles

LEMMA DraftHolds ==
    ASSUME DraftInv, NEW n \in Nat \ {0}, NEW block \in Nat \ {0}, Draft!Draft(n, block)
    PROVE  DraftInv'
<1>0. HistoryIs /\ ServedIs /\ TrainedIs
  BY DEF DraftInv
<1>1. PICK t \in Nat : t = Draft!Total /\ (t = 0 <=> hist = <<>>)
  BY <1>0, HistoryTells
<1>2. PICK q0 \in Nat : q0 = t + n
  OBVIOUS
<1>3. PICK c : c = Draft!AppendContext(Draft!Served, ctx, n, t)
  OBVIOUS
<1>4. PICK f : f = Draft!FullAppend(full, n, t)
  OBVIOUS
<1>5. PICK first \in Nat : first = IF hist = <<>> THEN n ELSE FirstContext
  BY <1>0, HistoryTells
<1>6. /\ ctx.offset = t /\ full.offset = t
      /\ CacheOf(Draft!Served, first, q0, c) /\ FullOf(q0, f)
  BY <1>0, <1>1, <1>2, <1>3, <1>4, <1>5, AppendServes
<1>7. PICK g : g = Draft!WithBlock(f, Draft!Noise(q0, block))
  OBVIOUS
<1>8. PICK w : w = Draft!Attended(kind, c.keys \o Draft!Noise(q0, block),
                                  c.at \o Draft!Run(q0, block), q0, block)
  OBVIOUS
<1>9. PICK a : a = Draft!First_(g.buf, q0 + block)
  OBVIOUS
<1>10. PICK e : e = [start |-> t, context |-> n, block |-> block, window |-> w, all |-> a]
  BY Zenon
<1>11. /\ FullOf(q0, g) /\ a \in Seq(Ent)
       /\ a = [i \in 1..(q0 + block) |-> Draft!Entry(i - 1, i - 1)]
  BY <1>6, <1>7, <1>9, WithBlockHolds
<1>12. PICK mask \in {"dflash", "dflash2"} : mask = kind
  BY <1>0 DEF TrainedIs
<1>13. w = Shown(mask, q0, block)
  BY <1>6, <1>8, <1>12, DraftConstants, BlockSees
<1>14. e \in Cycles
  BY Zenon, <1>10, <1>11, <1>13, ShownType, DraftedCycle
<1>15. e.start = t /\ e.context = n /\ e.block = block /\ e.window = w /\ e.all = a
  BY <1>10
<1>16. CycleSees(kind, e)
  BY <1>2, <1>11, <1>12, <1>13, <1>15 DEF CycleSees
<1>17. /\ stage = "serving" /\ ctx' = c /\ full' = g /\ hist' = Append(hist, e)
       /\ UNCHANGED <<kind, stage, rp, replayed>>
  <2>1. f.length = q0
    BY <1>6 DEF FullOf
  <2>2. ctx.offset + n = q0 /\ full.offset + n = q0
    BY <1>2, <1>6
  <2> QED BY <1>1, <1>3, <1>4, <1>7, <1>8, <1>9, <1>10, <2>1, <2>2 DEF Draft!Draft
<1>18. /\ HistoryIs' /\ Draft!Total' = q0 /\ FirstContext' = first
  BY <1>0, <1>1, <1>2, <1>5, <1>14, <1>15, <1>16, <1>17, OneMoreCycle
<1>19. ServedIs'
  BY <1>6, <1>11, <1>17, <1>18 DEF ServedIs
<1>20. TrainedIs'
  BY <1>0, <1>17 DEF TrainedIs
<1> QED BY <1>18, <1>19, <1>20 DEF DraftInv

LEMMA AdvanceHolds ==
    ASSUME DraftInv, NEW n \in Nat \ {0}, Draft!Advance(n)
    PROVE  DraftInv'
<1>0. HistoryIs /\ ServedIs /\ TrainedIs
  BY DEF DraftInv
<1>1. PICK t \in Nat : t = Draft!Total /\ (t = 0 <=> hist = <<>>)
  BY <1>0, HistoryTells
<1>2. PICK q0 \in Nat : q0 = t + n
  OBVIOUS
<1>3. PICK first \in Nat : first = IF hist = <<>> THEN n ELSE FirstContext
  BY <1>0, HistoryTells
<1>4. PICK e : e = [start |-> t, context |-> n, block |-> 0]
  BY Zenon
<1>5. e.start = t /\ e.context = n /\ e.block = 0 /\ e \in Cycles
  BY <1>4 DEF Cycles
<1>6. CycleSees(kind, e)
  BY <1>5 DEF CycleSees
<1>7. /\ stage = "serving" /\ hist' = Append(hist, e)
      /\ ctx' = Draft!AppendContext(Draft!Served, ctx, n, t)
      /\ full' = Draft!FullAppend(full, n, t)
      /\ UNCHANGED <<kind, stage, rp, replayed>>
  BY <1>1, <1>4 DEF Draft!Advance
<1>8. CacheOf(Draft!Served, first, q0, ctx') /\ FullOf(q0, full')
  BY <1>0, <1>1, <1>2, <1>3, <1>7, AppendServes
<1>9. HistoryIs' /\ Draft!Total' = q0 /\ FirstContext' = first
  BY <1>0, <1>1, <1>2, <1>3, <1>5, <1>6, <1>7, OneMoreCycle
<1>10. ServedIs'
  BY <1>8, <1>9 DEF ServedIs
<1>11. TrainedIs'
  BY <1>0, <1>7 DEF TrainedIs
<1> QED BY <1>9, <1>10, <1>11 DEF DraftInv

LEMMA HistoryStays ==
    ASSUME DraftInv, UNCHANGED <<kind, hist, ctx, full>>
    PROVE  HistoryIs' /\ ServedIs'
<1>1. \A i : Draft!Before(i)' = Draft!Before(i)
  BY DEF Draft!Before
<1>2. HistoryIs'
  BY <1>1 DEF DraftInv, HistoryIs
<1>3. Draft!Total' = Draft!Total /\ FirstContext' = FirstContext
  BY <1>1 DEF Draft!Total, FirstContext
<1> QED BY <1>2, <1>3 DEF DraftInv, ServedIs

LEMMA StartTrainingHolds ==
    ASSUME DraftInv, Draft!StartTraining
    PROVE  DraftInv'
<1>0. /\ stage = "serving" /\ kind = "dflash2" /\ hist # <<>> /\ stage' = "training"
      /\ \A i \in DOMAIN hist : hist[i].block > 0
      /\ UNCHANGED <<kind, ctx, full, hist, rp, replayed>>
  BY DEF Draft!StartTraining
<1>1. /\ Len(hist) \in Nat \ {0} /\ DOMAIN hist = 1..Len(hist)
      /\ rp = [cache |-> Draft!Blank, last |-> -1, next |-> 1, pass |-> 1]
      /\ replayed = [cycle |-> 0]
  BY <1>0, HistoryTells DEF DraftInv, TrainedIs
<1>2. ReplayCacheIs'
  BY <1>0, <1>1 DEF ReplayCacheIs
<1>3. Draft!ReplaySeesTheContext'
  BY <1>0, <1>1 DEF Draft!ReplaySeesTheContext
<1>4. TrainedIs'
  BY <1>0, <1>1, <1>2, <1>3 DEF TrainedIs
<1> QED BY <1>0, <1>4, HistoryStays DEF DraftInv

LEMMA BlankIs ==
    ASSUME NEW b, Sized(b), NEW c
    PROVE  CacheOf(b, c, 0, Draft!Blank)
<1>1. Draft!Blank = [keys |-> <<>>, at |-> <<>>, offset |-> 0]
  BY DEF Draft!Blank
<1>2. <<>> \in Seq(Nat) /\ Len(<<>>) = 0
  BY EmptySeq
<1>3. KeysOf(<<>>) = <<>>
  <2>1. KeysOf(<<>>) \in Seq(Ent) /\ Len(KeysOf(<<>>)) = 0
    BY Zenon, <1>2, KeysAre
  <2> QED BY <2>1, EmptySeq
<1>4. Positions(b, c, 0, <<>>)
  BY <1>2 DEF Positions, Sized
<1> QED BY <1>1, <1>2, <1>3, <1>4 DEF CacheOf, Sized

\* The next cycle is replayed on the cache of the text before it.
LEMMA FreshIs ==
    ASSUME HistoryIs, ReplayCacheIs, NEW k, k = rp.next
    PROVE  /\ k \in 1..Len(hist)
           /\ CacheOf(Draft!Rebuilt, hist[1].context, hist[k].start, Draft!Fresh(k))
           /\ hist[k].start = 0 => hist[1].context = hist[k].context
<1>1. /\ k \in 1..Len(hist) /\ Len(hist) \in Nat
      /\ hist[k].start = IF k = 1 THEN 0 ELSE Draft!Before(k - 1)
      /\ rp.last \in Int /\ rp.last >= -1
  BY HistoryTells DEF HistoryIs, ReplayCacheIs
<1>2. CASE k = 1
  <2>1. Draft!Fresh(k) = Draft!Blank
    <3>1. rp.last = -1 \/ rp.last + 1 # k - 1
      BY <1>1, <1>2
    <3> QED BY <3>1 DEF Draft!Fresh
  <2> QED BY <1>1, <1>2, <2>1, BlankIs, DraftConstants
<1>3. CASE k # 1
  <2>1. rp.last = k - 2 /\ CacheOf(Draft!Rebuilt, hist[1].context, hist[k].start, rp.cache)
    BY <1>3 DEF ReplayCacheIs
  <2>2. Draft!Fresh(k) = rp.cache
    <3>1. ~(rp.last = -1 \/ rp.last + 1 # k - 1)
      BY <1>1, <1>3, <2>1
    <3> QED BY <3>1 DEF Draft!Fresh
  <2>3. hist[k].start # 0
    <3>1. k - 1 \in 1..Len(hist)
      BY <1>1, <1>3
    <3>2. PICK j \in 1..Len(hist) : j = k - 1
      BY <3>1
    <3>3. Draft!Before(j) = hist[j].start + hist[j].context
          /\ hist[j].start \in Nat /\ hist[j].context \in Nat \ {0}
      BY HistoryTells
    <3>4. hist[k].start = Draft!Before(j)
      BY <1>1, <1>3, <3>2
    <3> QED BY <3>3, <3>4
  <2> QED BY <1>1, <2>1, <2>2, <2>3
<1> QED BY <1>2, <1>3

\* o is such a replay of a cycle of n, with a block of m behind a text of t.
Replayed(c, t, n, m, o) ==
    /\ CacheOf(Draft!Rebuilt, c, t + n, o.next)
    /\ o.counts[1] = o.counts[2]
    /\ {y \in o.window : y[2].feat < t + n}
         = {y \in Shown("dflash2", t + n, m) : y[2].feat < t + n}

\* What a cycle of n, with a block of m behind a text of t, becomes on such a cache.
LEMMA ReplayOnIs ==
    ASSUME NEW k, NEW n \in Nat \ {0}, n = hist[k].context, NEW t \in Nat, t = hist[k].start,
           NEW m \in Nat, m = hist[k].block, NEW c \in Nat, t = 0 => c = n,
           NEW x, CacheOf(Draft!Rebuilt, c, t, x)
    PROVE  Replayed(c, t, n, m, Draft!ReplayOn(x, k))
<1>1. PICK b : b = Draft!Rebuilt
  OBVIOUS
<1>2. Sized(b) /\ b.window >= DraftSlide /\ b.sink # 0 /\ CacheOf(b, c, t, x)
  BY <1>1, DraftConstants
<1>3. PICK e \in Nat : e = t + n
  OBVIOUS
<1>4. PICK u : Appended(b, c, t, x, n, u)
  BY <1>2, AppendIs
<1>5. PICK r : r = Draft!Trimmed(b, x.at \o u)
  OBVIOUS
<1>6. PICK next_ : next_ = Draft!AppendContext(b, x, n, t)
  OBVIOUS
<1>7. /\ next_.at = r /\ next_.keys = KeysOf(r)
      /\ Draft!Projected(b, n, Len(x.keys), t, t) = KeysOf(u)
  BY <1>4, <1>5, <1>6 DEF Appended
<1>8. PICK ks : ks = Rejoined(x, r, u)
  OBVIOUS
<1>9. Positions(b, c, e, r) /\ KeysInSight(b.window, e, r, ks)
  BY <1>2, <1>3, <1>4, <1>5, <1>8, RejoinedIs
<1>10. PICK all, at : all = ks \o Draft!Noise(e, m) /\ at = r \o Draft!Run(e, m)
  BY Zenon
<1>11. x.offset = t
  BY <1>2 DEF CacheOf
<1>12. PICK w : w = Draft!Attended("dflash", all, at, e, m)
  OBVIOUS
<1>13. /\ Len(all) = Len(at)
       /\ {y \in w : y[2].feat < e} = {y \in Shown("dflash2", e, m) : y[2].feat < e}
  <2>1. SameBehind(ks \o Draft!Noise(e, m), r \o Draft!Run(e, m), e, m)
    BY <1>2, <1>9, ReplaySees
  <2> QED BY <1>10, <1>12, <2>1 DEF SameBehind
<1>14. PICK o : o = Draft!ReplayOn(x, k)
  OBVIOUS
<1>15. o = [next |-> next_, counts |-> <<Len(all), Len(at)>>, window |-> w]
  BY Zenon, <1>1, <1>3, <1>6, <1>7, <1>8, <1>10, <1>11, <1>12, <1>14 DEF Draft!ReplayOn, Rejoined
<1>16. CacheOf(b, c, e, next_)
  BY <1>2, <1>3, <1>6, AppendHolds
<1> QED BY <1>1, <1>3, <1>13, <1>14, <1>15, <1>16 DEF Replayed

LEMMA ReplayHolds ==
    ASSUME DraftInv, Draft!Replay
    PROVE  DraftInv'
<1>0. /\ HistoryIs /\ TrainedIs /\ ReplayCacheIs
      /\ stage = "training" /\ kind = "dflash2" /\ hist # <<>>
      /\ \A i \in 1..Len(hist) : hist[i].block > 0
      /\ UNCHANGED <<kind, ctx, full, hist, stage>>
  BY DEF DraftInv, TrainedIs, Draft!Replay
<1>1. PICK k : k = rp.next
  OBVIOUS
<1>2. PICK x : x = Draft!Fresh(k)
  OBVIOUS
<1>3. PICK c : c = hist[1].context
  OBVIOUS
<1>4. PICK t, n, m : t = hist[k].start /\ n = hist[k].context /\ m = hist[k].block
  OBVIOUS
<1>5. /\ k \in 1..Len(hist) /\ Len(hist) \in Nat
      /\ CacheOf(Draft!Rebuilt, c, t, x)
      /\ t = 0 => c = n
  BY <1>0, <1>1, <1>2, <1>3, <1>4, FreshIs, HistoryTells
<1>6. /\ t \in Nat /\ n \in Nat \ {0} /\ m \in Nat \ {0} /\ c \in Nat
      /\ Draft!Before(k) = t + n
  <2>1. 1 \in 1..Len(hist)
    BY <1>5
  <2> QED BY <1>0, <1>3, <1>4, <1>5, <2>1, HistoryTells
<1>7. PICK o : o = Draft!ReplayOn(x, k)
  OBVIOUS
<1>8. /\ CacheOf(Draft!Rebuilt, c, t + n, o.next)
      /\ o.counts[1] = o.counts[2]
      /\ {y \in o.window : y[2].feat < t + n}
           = {y \in Shown("dflash2", t + n, m) : y[2].feat < t + n}
  <2>1. Replayed(c, t, n, m, Draft!ReplayOn(x, k))
    BY Zenon, <1>4, <1>5, <1>6, ReplayOnIs
  <2> QED BY <1>7, <2>1 DEF Replayed
<1>9. /\ replayed' = [cycle |-> k, counts |-> o.counts, window |-> o.window]
      /\ rp' = IF k < Len(hist)
               THEN [rp EXCEPT !.cache = o.next, !.last = k - 1, !.next = k + 1]
               ELSE [cache |-> o.next, last |-> k - 1, next |-> 1, pass |-> rp.pass + 1]
  BY <1>1, <1>2, <1>7 DEF Draft!Replay
<1>10. ReplayCacheIs'
  <2>1. CASE k < Len(hist)
    <3>1. rp' = [cache |-> o.next, last |-> k - 1, next |-> k + 1, pass |-> rp.pass]
      BY Zenon, <1>0, <1>9, <2>1 DEF ReplayCacheIs
    <3>2. k + 1 \in 1..Len(hist) /\ k - 1 \in Int /\ k - 1 >= -1 /\ k - 1 = (k + 1) - 2
      BY <1>5, <2>1
    <3>3. hist[k + 1].start = t + n
      <4>1. PICK j \in 1..Len(hist) : j = k + 1 /\ j # 1 /\ j - 1 = k
        BY <1>5, <3>2
      <4>2. hist[j].start = Draft!Before(j - 1)
        BY <1>0, <4>1 DEF HistoryIs
      <4> QED BY <1>6, <4>1, <4>2
    <3> QED BY <1>0, <1>3, <1>8, <3>1, <3>2, <3>3 DEF ReplayCacheIs
  <2>2. CASE ~(k < Len(hist))
    <3>1. rp' = [cache |-> o.next, last |-> k - 1, next |-> 1, pass |-> rp.pass + 1]
      BY <1>9, <2>2
    <3>2. 1 \in 1..Len(hist) /\ k - 1 \in Int /\ k - 1 >= -1
      BY <1>5
    <3> QED BY <1>0, <3>1, <3>2 DEF ReplayCacheIs
  <2> QED BY <2>1, <2>2
<1>11. /\ replayed'.cycle = k /\ replayed'.counts[1] = replayed'.counts[2]
       /\ replayed'.window = o.window
  BY <1>8, <1>9
<1>12. hist[k].window = Shown("dflash2", t + n, m)
  <2>1. CycleSees("dflash2", hist[k])
    BY <1>0, <1>5 DEF HistoryIs
  <2> QED BY <1>4, <1>6, <2>1 DEF CycleSees
<1>13. Draft!ReplaySeesTheContext'
  <2>1. Draft!Before(k)' = t + n
    BY <1>0, <1>6 DEF Draft!Before
  <2>2. /\ Draft!Behind(k, o.window)' = {y \in o.window : y[2].feat < t + n}
        /\ Draft!Behind(k, hist[k].window)' = {y \in hist[k].window : y[2].feat < t + n}
    BY <1>0, <2>1 DEF Draft!Behind
  <2> QED BY <1>0, <1>8, <1>11, <1>12, <2>2 DEF Draft!ReplaySeesTheContext
<1>14. TrainedIs'
  <2>1. replayed'.cycle \in 0..Len(hist)
    BY <1>5, <1>11
  <2> QED BY <1>0, <1>10, <1>13, <2>1 DEF TrainedIs
<1> QED BY <1>0, <1>14, HistoryStays DEF DraftInv

LEMMA DraftStarts == Draft!Init => DraftInv
<1> SUFFICES ASSUME Draft!Init PROVE DraftInv
  OBVIOUS
<1>1. /\ kind \in {"dflash", "dflash2"} /\ ctx = Draft!Blank
      /\ full = [buf |-> <<>>, length |-> 0, offset |-> 0]
      /\ hist = <<>> /\ stage = "serving"
      /\ rp = [cache |-> Draft!Blank, last |-> -1, next |-> 1, pass |-> 1]
      /\ replayed = [cycle |-> 0]
  BY DEF Draft!Init
<1>2. HistoryIs
  BY <1>1, EmptySeq DEF HistoryIs
<1>3. Draft!Total = 0 /\ FirstContext = 0
  BY <1>1 DEF Draft!Total, FirstContext
<1>4. CacheOf(Draft!Served, 0, 0, ctx)
  BY <1>1, BlankIs, DraftConstants
<1>5. FullOf(0, full)
  <2>1. <<>> \in Seq(Ent) /\ Len(<<>>) = 0
    BY EmptySeq
  <2> QED BY <1>1, <2>1 DEF FullOf
<1>6. TrainedIs
  BY <1>1 DEF TrainedIs
<1> QED BY <1>2, <1>3, <1>4, <1>5, <1>6 DEF DraftInv, ServedIs

LEMMA DraftMoves ==
    ASSUME DraftInv, Draft!Next
    PROVE  DraftInv'
<1>1. ASSUME NEW n \in 1..MaxDraftContext, Draft!Advance(n) PROVE DraftInv'
  <2>1. n \in Nat \ {0}
    BY OfflineAssumption DEF Draft!DraftCacheAssumption
  <2> QED BY <1>1, <2>1, AdvanceHolds
<1>2. ASSUME NEW n \in 1..MaxDraftContext, NEW block \in 2..MaxDraftBlock, Draft!Draft(n, block)
      PROVE  DraftInv'
  <2>1. n \in Nat \ {0} /\ block \in Nat \ {0}
    BY OfflineAssumption DEF Draft!DraftCacheAssumption
  <2> QED BY <1>2, <2>1, DraftHolds
<1> QED BY <1>1, <1>2, StartTrainingHolds, ReplayHolds DEF Draft!Next

LEMMA DraftStays ==
    ASSUME DraftInv, UNCHANGED draftVars
    PROVE  DraftInv'
<1>0. UNCHANGED <<kind, ctx, full, hist, stage, rp, replayed>>
  BY DEF draftVars
<1>1. Draft!ReplaySeesTheContext' = Draft!ReplaySeesTheContext
  BY <1>0 DEF Draft!ReplaySeesTheContext, Draft!Behind, Draft!Before
<1>2. TrainedIs'
  BY <1>0, <1>1 DEF DraftInv, TrainedIs, ReplayCacheIs
<1> QED BY <1>0, <1>2, HistoryStays DEF DraftInv

\* The invariant says of the last block served, of the cache and of the cycle replayed
\* what the run checks.
LEMMA DraftIsSound == DraftInv => Draft!DraftSeesItsContext
<1> SUFFICES ASSUME DraftInv PROVE Draft!DraftSeesItsContext
  OBVIOUS
<1>0. HistoryIs /\ ServedIs /\ TrainedIs
  BY DEF DraftInv
<1>1. Draft!BlocksSeeTheirContext
  <2> SUFFICES ASSUME hist # <<>>, hist[Len(hist)].block > 0
               PROVE  Draft!BlocksSeeTheirContext
    BY DEF Draft!BlocksSeeTheirContext
  <2>1. PICK k : k = Len(hist)
    OBVIOUS
  <2>2. k \in 1..Len(hist)
    BY <1>0, <2>1, HistoryTells
  <2>3. Draft!Before(k) = hist[k].start + hist[k].context
    BY DEF Draft!Before
  <2>4. CycleSees(kind, hist[k]) /\ hist[k].block > 0
    BY <1>0, <2>1, <2>2 DEF HistoryIs
  <2> QED BY <2>1, <2>3, <2>4 DEF CycleSees, Shown, Draft!BlocksSeeTheirContext
<1>2. Draft!SinkAndWindowAreKept
  <2>1. PICK t \in Nat : t = Draft!Total /\ (t = 0 <=> hist = <<>>)
    BY <1>0, HistoryTells
  <2>2. PICK b : b = Draft!Served /\ Sized(b) /\ b.sink = DraftSink /\ b.window = Draft!Window
    BY DraftConstants DEF Draft!Served
  <2>3. PICK x, s : x = ctx /\ s = ctx.at
    OBVIOUS
  <2>4. CacheOf(b, FirstContext, t, x)
    BY <1>0, <2>1, <2>2, <2>3 DEF ServedIs
  <2>5. PICK l \in Nat : /\ s \in Seq(Nat) /\ l = Len(s) /\ Len(x.keys) = l
                         /\ DOMAIN s = 1..l /\ DOMAIN x.keys = 1..l
    <3>1. s \in Seq(Nat) /\ x.keys \in Seq(Ent) /\ Len(x.keys) = Len(s)
      BY <2>2, <2>3, <2>4, CacheHolds, HistoryTells, <1>0
    <3> QED BY <3>1, LenProperties
  <2>6. /\ \A i \in 1..l : x.keys[i] = Draft!Entry(s[i], s[i])
        /\ \A i, j \in 1..l : i < j => s[i] < s[j]
        /\ \A j \in 1..b.window : j <= t => j <= l /\ s[l + 1 - j] = t - j
        /\ t # 0 => \A i \in 1..b.sink : i <= FirstContext => i <= l /\ s[i] = i - 1
        /\ l <= b.sink + b.window /\ x.offset = t
    <3>1. \A i \in 1..l : KeysOf(s)[i] = Draft!Entry(s[i], s[i])
      BY <2>5, KeysAre
    <3> QED BY <2>3, <2>4, <2>5, <3>1 DEF CacheOf, Positions
  <2>7. PICK kept : kept = {x.keys[i].feat : i \in 1..l}
    BY Zenon
  <2>8. ASSUME NEW i \in 1..l PROVE s[i] \in kept
    <3>1. x.keys[i] = Draft!Entry(s[i], s[i])
      BY <2>6
    <3>2. x.keys[i].feat = s[i]
      BY <3>1 DEF Draft!Entry
    <3> QED BY <2>7, <3>2
  <2>9. ASSUME NEW q \in 0..(t - 1), q >= t - b.window PROVE q \in kept
    <3>1. PICK j \in 1..b.window : j = t - q /\ j <= t
      BY <2>2, <2>9 DEF Sized
    <3>2. PICK i \in 1..l : i = l + 1 - j /\ s[i] = q
      BY <2>6, <3>1
    <3> QED BY <2>8, <3>2
  <2>10. ASSUME hist # <<>>, NEW q \in 0..(b.sink - 1), q < hist[1].context PROVE q \in kept
    <3>1. t # 0 /\ FirstContext = hist[1].context /\ FirstContext \in Nat
      BY <1>0, <2>1, <2>10, HistoryTells DEF FirstContext
    <3>2. PICK i \in 1..b.sink : i = q + 1 /\ i <= FirstContext
      BY <2>2, <2>10, <3>1 DEF Sized
    <3>3. i \in 1..l /\ s[i] = q
      BY <2>6, <3>1, <3>2
    <3> QED BY <2>8, <3>3
  <2>11. kept = {ctx.keys[i].feat : i \in DOMAIN ctx.keys}
    BY <2>3, <2>5, <2>7
  <2>12. /\ Len(ctx.keys) <= DraftSink + Draft!Window /\ ctx.offset = t
         /\ DOMAIN ctx.at = DOMAIN ctx.keys
         /\ \A i \in DOMAIN ctx.keys : ctx.keys[i] = Draft!Entry(ctx.at[i], ctx.at[i])
         /\ \A i, j \in DOMAIN ctx.at : i < j => ctx.at[i] < ctx.at[j]
    BY Zenon, <2>2, <2>3, <2>5, <2>6
  <2>13. /\ {q \in 0..(t - 1) : q >= t - Draft!Window} \subseteq kept
         /\ hist # <<>> => {q \in 0..(DraftSink - 1) : q < hist[1].context} \subseteq kept
    BY <2>2, <2>9, <2>10
  <2> QED BY <2>1, <2>11, <2>12, <2>13 DEF Draft!SinkAndWindowAreKept
<1>3. Draft!ReplaySeesTheContext
  BY <1>0 DEF TrainedIs, Draft!ReplaySeesTheContext
<1> QED BY <1>1, <1>2, <1>3 DEF Draft!DraftSeesItsContext

\* A draft's caches, for every size of sink, window, block and text and every sequence of
\* drafted and copied blocks: a block attends to what its mask is meant to show it, the
\* trimmed cache keeps its sink and its window, and a replay of the request attends to the
\* context that was served, as long as the replay's window is no shorter than the layer's.
THEOREM DraftSeesItsContextAlways == OfflineSpec => []DraftSeesItsContext
<1> DEFINE Guarded == scene = "draft" => DraftInv
<1>1. OfflineInit => Guarded
  BY DraftStarts DEF OfflineInit
<1>2. Guarded /\ [OfflineNext]_<<scene, vars, stageBVars, draftVars, treeVars, replayVars,
                                 trainerVars, campaignVars, ladderVars>> => Guarded'
  <2> SUFFICES ASSUME Guarded, scene' = "draft",
                      [OfflineNext]_<<scene, vars, stageBVars, draftVars, treeVars, replayVars,
                                      trainerVars, campaignVars, ladderVars>>
               PROVE  DraftInv'
    OBVIOUS
  <2>1. scene = "draft" /\ (Draft!Next \/ UNCHANGED draftVars)
    BY Zenon DEF OfflineNext
  <2> QED BY <2>1, DraftMoves, DraftStays
<1>3. Guarded => DraftSeesItsContext
  BY DraftIsSound DEF DraftSeesItsContext
<1> QED BY <1>1, <1>2, <1>3, PTL DEF OfflineSpec

(* ---------------------- trees of drafted tokens -------------------------- *)
(* A node's parent stands before it and one less deep, so the slots from the  *)
(* root to a slot are as deep as their place among them: that is why one pass *)
(* over all slots reads, for each of them, what its path alone would read.    *)

TreeNodes == [token : TreeTokens, depth : Nat, parent : Nat]

IsTree(t) ==
    /\ t \in Seq(TreeNodes) /\ Len(t) >= 1
    /\ t[1].depth = 0 /\ t[1].parent = 0
    /\ \A s \in 2..Len(t) : t[s].parent \in 1..(s - 1) /\ t[s].depth = t[t[s].parent].depth + 1

\* The least-number principle.
LEMMA LeastOf ==
    ASSUME NEW T \in SUBSET Nat, T # {}
    PROVE  \E x \in T : \A y \in T : x <= y
<1> DEFINE R == {q \in Nat \X Nat : q[1] < q[2]}
<1>1. IsWellFoundedOn(R, Nat)
  BY NatLessThanWellFounded DEF OpToRel
<1>2. PICK x \in T : \A y \in T : ~ (<<y, x>> \in R)
  BY Zenon, <1>1, WFMin
<1>3. ASSUME NEW y \in T PROVE x <= y
  <2>1. x \in Nat /\ y \in Nat /\ <<y, x>> \in Nat \X Nat
    OBVIOUS
  <2>2. ~ (y < x)
    BY <1>2, <2>1
  <2> QED BY <2>1, <2>2
<1> QED BY <1>3

\* The slots from the root to slot s, as the recursive function of the model computes them.
PathStep(t, g, s) == IF t[s].parent = 0 THEN <<s>> ELSE Append(g[t[s].parent], s)
PathIn(t, s) ==
    LET path[r \in DOMAIN t] ==
            IF t[r].parent = 0 THEN <<r>> ELSE Append(path[t[r].parent], r)
    IN  path[s]
TokensIn(t, slots) == [i \in DOMAIN slots |-> t[slots[i]].token]

\* The tree up to slot n has a function of paths.
HasPaths(t, n) == \E g : g = [s \in 1..n |-> PathStep(t, g, s)]

LEMMA PathsFrom ==
    ASSUME NEW t, IsTree(t), NEW n \in 1..Len(t), n # 1 => HasPaths(t, n - 1)
    PROVE  HasPaths(t, n)
<1>0. Len(t) \in Nat /\ n \in Nat
  BY LenProperties DEF IsTree
<1>1. ASSUME NEW s \in 1..n
      PROVE  IF s = 1 THEN t[s].parent = 0 ELSE t[s].parent \in 1..(s - 1)
  BY <1>0 DEF IsTree
<1>2. CASE n = 1
  <2>1. PICK g : g = [s \in 1..n |-> <<s>>]
    BY Zenon
  <2>2. \A s \in 1..n : t[s].parent = 0
    BY <1>1, <1>2
  <2>3. g = [s \in 1..n |-> PathStep(t, g, s)]
    BY <2>1, <2>2 DEF PathStep
  <2> QED BY <2>3 DEF HasPaths
<1>3. CASE n # 1
  <2>1. PICK h : h = [s \in 1..(n - 1) |-> PathStep(t, h, s)]
    BY <1>3 DEF HasPaths
  <2>2. PICK g : g = [s \in 1..n |-> PathStep(t, h, s)]
    BY Zenon
  <2>3. \A s \in 1..(n - 1) : g[s] = h[s]
    <3>1. \A s \in 1..(n - 1) : s \in 1..n
      BY <1>0
    <3> QED BY <2>1, <2>2, <3>1
  <2>4. ASSUME NEW s \in 1..n PROVE PathStep(t, h, s) = PathStep(t, g, s)
    <3>1. CASE s = 1
      BY <1>1, <3>1 DEF PathStep
    <3>2. CASE s # 1
      <4>1. t[s].parent \in 1..(n - 1)
        BY <1>0, <1>1, <3>2
      <4> QED BY <2>3, <4>1 DEF PathStep
    <3> QED BY <3>1, <3>2
  <2>5. g = [s \in 1..n |-> PathStep(t, g, s)]
    BY <2>2, <2>4
  <2> QED BY <2>5 DEF HasPaths
<1> QED BY <1>2, <1>3

LEMMA PathsOfTree ==
    ASSUME NEW t, IsTree(t)
    PROVE  HasPaths(t, Len(t))
<1>0. PICK l \in Nat : l = Len(t) /\ l >= 1
  BY LenProperties DEF IsTree
<1> DEFINE B == {n \in 1..l : ~HasPaths(t, n)}
<1>1. ASSUME B # {} PROVE FALSE
  <2>1. B \in SUBSET Nat
    OBVIOUS
  <2>2. PICK n \in B : \A y \in B : n <= y
    BY Zenon, <1>1, <2>1, LeastOf
  <2>3. n \in 1..Len(t) /\ ~HasPaths(t, n)
    BY <1>0
  <2>4. n # 1 => HasPaths(t, n - 1)
    <3>1. n # 1 => n - 1 \in 1..l /\ ~(n <= n - 1)
      OBVIOUS
    <3> QED BY <2>2, <3>1
  <2> QED BY <2>3, <2>4, PathsFrom
<1>2. l \in 1..l
  BY <1>0
<1> QED BY <1>0, <1>1, <1>2

\* The path to the root is the root, another one is its parent's and the slot.
LEMMA PathGrows ==
    ASSUME NEW t, IsTree(t), NEW s \in 1..Len(t)
    PROVE  PathIn(t, s) = IF t[s].parent = 0 THEN <<s>> ELSE Append(PathIn(t, t[s].parent), s)
<1>1. DOMAIN t = 1..Len(t) /\ Len(t) \in Nat
  BY LenProperties DEF IsTree
<1>a. HasPaths(t, Len(t))
  BY PathsOfTree
<1>2. PICK g : g = [r \in DOMAIN t |-> PathStep(t, g, r)]
  BY <1>1, <1>a DEF HasPaths
<1> DEFINE Is(f) == f = [r \in DOMAIN t |->
                           IF t[r].parent = 0 THEN <<r>> ELSE Append(f[t[r].parent], r)]
           F == CHOOSE f : Is(f)
<1>3. Is(g)
  BY Zenon, <1>2 DEF PathStep
<1>4. Is(F)
  BY Zenon, <1>3
<1>5. \A r : PathIn(t, r) = F[r]
  BY DEF PathIn
<1> HIDE DEF F
<1>6. F[s] = IF t[s].parent = 0 THEN <<s>> ELSE Append(F[t[s].parent], s)
  BY Zenon, <1>1, <1>4
<1>7. PathIn(t, s) = F[s] /\ PathIn(t, t[s].parent) = F[t[s].parent]
  BY <1>5
<1> QED BY <1>6, <1>7

\* r leads from the root to slot s, one deeper at every step.
PathOf(t, s, r) ==
    /\ r \in Seq(1..Len(t)) /\ Len(r) = t[s].depth + 1 /\ r[Len(r)] = s
    /\ \A i \in 1..Len(r) : t[r[i]].depth = i - 1

LEMMA RootIs ==
    ASSUME NEW t, IsTree(t)
    PROVE  PathOf(t, 1, <<1>>) /\ PathIn(t, 1) = <<1>> /\ 1 \in 1..Len(t)
<1>1. 1 \in 1..Len(t) /\ t[1].parent = 0 /\ t[1].depth = 0
  BY LenProperties DEF IsTree
<1>2. PathIn(t, 1) = <<1>>
  BY <1>1, PathGrows
<1>3. <<1>> \in Seq(1..Len(t)) /\ Len(<<1>>) = 1 /\ <<1>>[1] = 1
  BY <1>1
<1> QED BY <1>1, <1>2, <1>3 DEF PathOf

LEMMA OneDeeper ==
    ASSUME NEW t, IsTree(t), NEW s \in 2..Len(t), NEW r, PathOf(t, t[s].parent, r)
    PROVE  PathOf(t, s, Append(r, s))
<1>0. PICK l \in Nat : l = Len(t)
  BY LenProperties DEF IsTree
<1>1. s \in 1..l /\ t[s].parent \in 1..l /\ t[s].depth = t[t[s].parent].depth + 1
  BY <1>0 DEF IsTree
<1>2. PICK n \in Nat : n = Len(r) /\ r \in Seq(1..l)
  BY <1>0, LenProperties DEF PathOf
<1>3. PICK q : q = Append(r, s)
  BY Zenon
<1>4. /\ q \in Seq(1..l) /\ Len(q) = n + 1 /\ q[n + 1] = s
      /\ \A i \in 1..n : q[i] = r[i]
  BY <1>1, <1>2, <1>3, AppendProperties
<1>5. /\ n = t[t[s].parent].depth + 1
      /\ \A i \in 1..n : t[r[i]].depth = i - 1
  BY <1>2 DEF PathOf
<1>6. PICK k \in 1..l : k = t[s].parent
  BY <1>1
<1>7. t[k] \in TreeNodes
  BY <1>0, ElementOfSeq DEF IsTree
<1>8. t[k].depth \in Nat /\ t[s].depth = n
  BY <1>1, <1>5, <1>6, <1>7 DEF TreeNodes
<1>9. \A i \in 1..n : q[i] = r[i] /\ t[q[i]].depth = i - 1
  BY Zenon, <1>4, <1>5
<1>10. t[q[n + 1]].depth = n
  BY <1>4, <1>8
<1>11. \A i \in 1..(n + 1) : t[q[i]].depth = i - 1
  BY <1>9, <1>10
<1> QED BY Zenon, <1>0, <1>3, <1>4, <1>8, <1>11 DEF PathOf

LEMMA PathIs ==
    ASSUME NEW t, IsTree(t), NEW s \in 1..Len(t)
    PROVE  PathOf(t, s, PathIn(t, s))
<1>0. PICK l \in Nat : l = Len(t)
  BY LenProperties DEF IsTree
<1> DEFINE B == {n \in 1..l : ~PathOf(t, n, PathIn(t, n))}
<1>1. ASSUME B # {} PROVE FALSE
  <2>1. B \in SUBSET Nat
    OBVIOUS
  <2>2. PICK n \in B : \A y \in B : n <= y
    BY Zenon, <1>1, <2>1, LeastOf
  <2>3. n \in 1..Len(t) /\ ~PathOf(t, n, PathIn(t, n))
    BY <1>0
  <2>4. n # 1
    BY <2>3, RootIs
  <2>5. PICK k : k = t[n].parent
    OBVIOUS
  <2>6. n \in 2..Len(t) /\ k \in 1..(n - 1) /\ k # 0 /\ k \in 1..l /\ ~(n <= k)
    BY <1>0, <2>3, <2>4, <2>5 DEF IsTree
  <2>7. PathOf(t, t[n].parent, PathIn(t, k))
    BY <2>2, <2>5, <2>6
  <2>8. PathIn(t, n) = Append(PathIn(t, k), n)
    BY Zenon, <2>3, <2>5, <2>6, PathGrows
  <2>9. PathOf(t, n, Append(PathIn(t, k), n))
    BY <2>6, <2>7, OneDeeper
  <2> QED BY <2>3, <2>8, <2>9
<1> QED BY <1>0, <1>1

\* A node appended under a slot changes no path and is a tree again.
LEMMA TreeGrows ==
    ASSUME NEW t, IsTree(t), NEW x \in TreeNodes, x.parent \in 1..Len(t),
           x.depth = t[x.parent].depth + 1
    PROVE  IsTree(Append(t, x))
<1>0. PICK l \in Nat : l = Len(t) /\ l >= 1 /\ t \in Seq(TreeNodes)
  BY LenProperties DEF IsTree
<1>1. PICK u : u = Append(t, x)
  BY Zenon
<1>2. /\ u \in Seq(TreeNodes) /\ Len(u) = l + 1 /\ u[l + 1] = x
      /\ \A i \in 1..l : u[i] = t[i]
  BY <1>0, <1>1, AppendProperties
<1>3. /\ t[1].depth = 0 /\ t[1].parent = 0
      /\ \A s \in 2..l : t[s].parent \in 1..(s - 1) /\ t[s].depth = t[t[s].parent].depth + 1
  BY <1>0 DEF IsTree
<1>4. ASSUME NEW s \in 2..(l + 1)
      PROVE  u[s].parent \in 1..(s - 1) /\ u[s].depth = u[u[s].parent].depth + 1
  <2>1. CASE s = l + 1
    BY <1>0, <1>2, <2>1
  <2>2. CASE s # l + 1
    <3>1. s \in 2..l /\ s \in 1..l
      BY <2>2
    <3>2. t[s].parent \in 1..l
      BY <1>3, <3>1
    <3> QED BY Zenon, <1>2, <1>3, <3>1, <3>2
  <2> QED BY <2>1, <2>2
<1>5. u[1] = t[1]
  BY <1>0, <1>2
<1> QED BY <1>0, <1>1, <1>2, <1>3, <1>4, <1>5 DEF IsTree

\* The chain of the best candidates of each row, under a root.
IsChain(z, n) == IsTree(z) /\ Len(z) = n + 1 /\ \A d \in 1..(n + 1) : z[d].depth = d - 1

LEMMA ChainIsTree ==
    ASSUME NEW t, IsTree(t), Len(t) = 1, NEW n \in Nat, NEW u \in Seq(TreeNodes), Len(u) = n,
           \A d \in 1..n : u[d].parent = d /\ u[d].depth = d
    PROVE  IsChain(t \o u, n)
<1>1. PICK z : z = t \o u
  BY Zenon
<1>2. t \in Seq(TreeNodes) /\ t[1].depth = 0 /\ t[1].parent = 0
  BY DEF IsTree
<1>3. Joins(TreeNodes, t, u, z)
  BY <1>1, <1>2, BothJoin
<1>4. z \in Seq(TreeNodes) /\ Len(z) = n + 1 /\ z[1] = t[1] /\ \A i \in 1..n : z[1 + i] = u[i]
  BY <1>3 DEF Joins
<1>5. ASSUME NEW s \in 2..(n + 1) PROVE z[s].parent = s - 1 /\ z[s].depth = s - 1
  <2>1. s - 1 \in 1..n /\ 1 + (s - 1) = s
    OBVIOUS
  <2>2. z[1 + (s - 1)] = u[s - 1]
    BY <1>4, <2>1
  <2> QED BY <2>1, <2>2
<1>6. \A d \in 1..(n + 1) : z[d].depth = d - 1
  BY <1>2, <1>4, <1>5
<1>7. ASSUME NEW s \in 2..(n + 1)
      PROVE  z[s].parent \in 1..(s - 1) /\ z[s].depth = z[z[s].parent].depth + 1
  <2>1. s - 1 \in 1..(n + 1)
    OBVIOUS
  <2> QED BY <1>5, <1>6, <2>1
<1>8. IsTree(z)
  BY <1>2, <1>4, <1>7 DEF IsTree
<1> QED BY Zenon, <1>1, <1>4, <1>6, <1>8 DEF IsChain

\* Rows of candidates, none of them empty.
CandidateType == [token : TreeTokens, cost : Nat]
IsRows(b) ==
    /\ b \in Seq(Seq(CandidateType))
    /\ \A d \in 1..Len(b) : Len(b[d]) >= 1

\* A candidate names the slot below which it would stand.
IsCandidate(t, b, c) ==
    /\ c.cost \in Nat /\ c.parent \in 1..Len(t) /\ c.depth \in 1..Len(b)
    /\ c.rank \in 1..Len(b[c.depth])
    /\ c.depth = t[c.parent].depth + 1
    /\ b[c.depth][c.rank].cost <= c.cost

LEMMA RowsAre ==
    ASSUME NEW b, IsRows(b), NEW d \in 1..Len(b), NEW r \in 1..Len(b[d])
    PROVE  b[d][r] \in CandidateType /\ b[d][r].cost \in Nat /\ b[d][r].token \in TreeTokens
<1>1. b[d] \in Seq(CandidateType)
  BY ElementOfSeq DEF IsRows
<1>2. b[d][r] \in CandidateType
  BY <1>1, ElementOfSeq
<1> QED BY <1>2 DEF CandidateType

LEMMA PushedIs ==
    ASSUME NEW t, IsRows(ranked), NEW w, NEW a \in 1..Len(t),
           NEW d \in Nat \ {0}, NEW r \in Nat \ {0}, d = t[a].depth + 1,
           d <= Len(ranked) /\ r <= Len(ranked[d]) => w \in Nat /\ ranked[d][r].cost <= w
    PROVE  \A c \in Trees!Pushed(w, a, d, r) : IsCandidate(t, ranked, c)
<1>1. Len(ranked) \in Nat
  BY LenProperties DEF IsRows
<1>2. SUFFICES ASSUME NEW c \in Trees!Pushed(w, a, d, r) PROVE IsCandidate(t, ranked, c)
  OBVIOUS
<1>3. /\ ~(d > Len(ranked)) /\ ~(r > Len(ranked[d]))
      /\ c = [cost |-> w, parent |-> a, depth |-> d, rank |-> r]
  BY <1>2 DEF Trees!Pushed
<1>4. c.cost = w /\ c.parent = a /\ c.depth = d /\ c.rank = r
  BY <1>3
<1>5. d \in 1..Len(ranked)
  BY <1>1, <1>3
<1>6. Len(ranked[d]) \in Nat
  BY <1>5, ElementOfSeq, LenProperties DEF IsRows
<1>7. r \in 1..Len(ranked[d]) /\ w \in Nat /\ ranked[d][r].cost <= w
  BY <1>1, <1>3, <1>5, <1>6
<1> QED BY <1>4, <1>5, <1>7 DEF IsCandidate

\* A larger tree keeps its candidates.
LEMMA CandidateStays ==
    ASSUME NEW t, IsTree(t), NEW u, Len(u) \in Nat, Len(u) >= Len(t),
           \A s \in 1..Len(t) : u[s] = t[s],
           NEW b, NEW c, IsCandidate(t, b, c)
    PROVE  IsCandidate(u, b, c)
<1>1. Len(t) \in Nat
  BY LenProperties DEF IsTree
<1>2. c.parent \in 1..Len(t) /\ c.parent \in 1..Len(u) /\ u[c.parent] = t[c.parent]
  BY <1>1 DEF IsCandidate
<1> QED BY <1>2 DEF IsCandidate

\* The heap has a least tuple.
LEMMA LeastCandidate ==
    ASSUME NEW H, H # {},
           \A c \in H : c.cost \in Nat /\ c.parent \in Nat /\ c.depth \in Nat /\ c.rank \in Nat
    PROVE  \E x \in H : \A y \in H : Trees!Before(x, y)
<1>1. PICK x1 \in H : \A y \in H : x1.cost <= y.cost
  <2>1. {c.cost : c \in H} \in SUBSET Nat /\ {c.cost : c \in H} # {}
    OBVIOUS
  <2>2. PICK k \in {c.cost : c \in H} : \A y \in {c.cost : c \in H} : k <= y
    BY Zenon, <2>1, LeastOf
  <2> QED BY <2>2
<1> DEFINE H2 == {c \in H : c.cost = x1.cost}
<1>2. PICK x2 \in H2 : \A y \in H2 : x2.parent <= y.parent
  <2>1. {c.parent : c \in H2} \in SUBSET Nat /\ {c.parent : c \in H2} # {}
    OBVIOUS
  <2>2. PICK k \in {c.parent : c \in H2} : \A y \in {c.parent : c \in H2} : k <= y
    BY Zenon, <2>1, LeastOf
  <2> QED BY <2>2
<1> DEFINE H3 == {c \in H2 : c.parent = x2.parent}
<1>3. PICK x3 \in H3 : \A y \in H3 : x3.depth <= y.depth
  <2>1. {c.depth : c \in H3} \in SUBSET Nat /\ {c.depth : c \in H3} # {}
    OBVIOUS
  <2>2. PICK k \in {c.depth : c \in H3} : \A y \in {c.depth : c \in H3} : k <= y
    BY Zenon, <2>1, LeastOf
  <2> QED BY <2>2
<1> DEFINE H4 == {c \in H3 : c.depth = x3.depth}
<1>4. PICK x4 \in H4 : \A y \in H4 : x4.rank <= y.rank
  <2>1. {c.rank : c \in H4} \in SUBSET Nat /\ {c.rank : c \in H4} # {}
    OBVIOUS
  <2>2. PICK k \in {c.rank : c \in H4} : \A y \in {c.rank : c \in H4} : k <= y
    BY Zenon, <2>1, LeastOf
  <2> QED BY <2>2
<1>5. /\ x4 \in H /\ x4.cost = x1.cost /\ x4.parent = x2.parent /\ x4.depth = x3.depth
      /\ x4.cost \in Nat /\ x4.parent \in Nat /\ x4.depth \in Nat /\ x4.rank \in Nat
  OBVIOUS
<1>6. ASSUME NEW y \in H PROVE Trees!Before(x4, y)
  <2>1. /\ y.cost \in Nat /\ y.parent \in Nat /\ y.depth \in Nat /\ y.rank \in Nat
        /\ x4.cost <= y.cost
    BY <1>1, <1>5
  <2>2. x4.cost = y.cost => y \in H2 /\ x4.parent <= y.parent
    BY <1>2, <1>5
  <2>3. x4.cost = y.cost /\ x4.parent = y.parent => y \in H3 /\ x4.depth <= y.depth
    BY <1>3, <1>5
  <2>4. x4.cost = y.cost /\ x4.parent = y.parent /\ x4.depth = y.depth => x4.rank <= y.rank
    BY <1>4, <1>5, <2>3
  <2> QED BY <1>5, <2>1, <2>2, <2>3, <2>4 DEF Trees!Before
<1> QED BY <1>5, <1>6

\* The score of a chain is a number: the recursion has a function, and its values are in Nat.
SumStep(b, g, i) == IF i = 0 THEN 0 ELSE g[i - 1] + b[i][1].cost
HasSums(b, n) == \E g : g = [i \in 0..n |-> SumStep(b, g, i)]

LEMMA SumsFrom ==
    ASSUME NEW b, NEW n \in Nat, n # 0 => HasSums(b, n - 1)
    PROVE  HasSums(b, n)
<1>1. CASE n = 0
  <2>1. PICK g : g = [i \in 0..n |-> 0]
    BY Zenon
  <2>2. g = [i \in 0..n |-> SumStep(b, g, i)]
    BY <1>1, <2>1 DEF SumStep
  <2> QED BY <2>2 DEF HasSums
<1>2. CASE n # 0
  <2>1. PICK h : h = [i \in 0..(n - 1) |-> SumStep(b, h, i)]
    BY <1>2 DEF HasSums
  <2>2. PICK g : g = [i \in 0..n |-> SumStep(b, h, i)]
    BY Zenon
  <2>3. \A i \in 0..(n - 1) : g[i] = h[i]
    <3>1. \A i \in 0..(n - 1) : i \in 0..n
      OBVIOUS
    <3> QED BY <2>1, <2>2, <3>1
  <2>4. ASSUME NEW i \in 0..n PROVE SumStep(b, h, i) = SumStep(b, g, i)
    <3>1. i # 0 => i - 1 \in 0..(n - 1)
      OBVIOUS
    <3> QED BY <2>3, <3>1 DEF SumStep
  <2>5. g = [i \in 0..n |-> SumStep(b, g, i)]
    BY <2>2, <2>4
  <2> QED BY <2>5 DEF HasSums
<1> QED BY <1>1, <1>2

LEMMA SumsAre ==
    ASSUME NEW b, NEW n \in Nat
    PROVE  HasSums(b, n)
<1> DEFINE B == {k \in 0..n : ~HasSums(b, k)}
<1>1. ASSUME B # {} PROVE FALSE
  <2>1. B \in SUBSET Nat
    OBVIOUS
  <2>2. PICK k \in B : \A y \in B : k <= y
    BY Zenon, <1>1, <2>1, LeastOf
  <2>3. k # 0 => HasSums(b, k - 1)
    <3>1. k # 0 => k - 1 \in 0..n /\ ~(k <= k - 1)
      OBVIOUS
    <3> QED BY <2>2, <3>1
  <2> QED BY <2>3, SumsFrom
<1> QED BY <1>1

LEMMA SumsInNat ==
    ASSUME NEW b, NEW n \in Nat, \A i \in 1..n : b[i][1].cost \in Nat,
           NEW g, g = [i \in 0..n |-> SumStep(b, g, i)]
    PROVE  \A i \in 0..n : g[i] \in Nat
<1> DEFINE B == {k \in 0..n : g[k] \notin Nat}
<1>1. ASSUME B # {} PROVE FALSE
  <2>1. B \in SUBSET Nat
    OBVIOUS
  <2>2. PICK k \in B : \A y \in B : k <= y
    BY Zenon, <1>1, <2>1, LeastOf
  <2>3. k \in 0..n /\ g[k] \notin Nat /\ g[k] = SumStep(b, g, k)
    OBVIOUS
  <2>4. CASE k = 0
    BY <2>3, <2>4 DEF SumStep
  <2>5. CASE k # 0
    <3>1. k - 1 \in 0..n /\ ~(k <= k - 1) /\ k \in 1..n
      BY <2>3, <2>5
    <3>2. g[k - 1] \in Nat /\ b[k][1].cost \in Nat
      BY <2>2, <3>1
    <3> QED BY <2>3, <2>5, <3>2 DEF SumStep
  <2> QED BY <2>4, <2>5
<1> QED BY <1>1

LEMMA ChainCostIs ==
    ASSUME IsRows(ranked), NEW d \in 0..Len(ranked)
    PROVE  Trees!ChainCost(d) \in Nat
<1>0. Len(ranked) \in Nat /\ d \in Nat
  BY LenProperties DEF IsRows
<1>1. ASSUME NEW i \in 1..d PROVE ranked[i][1].cost \in Nat
  <2>1. i \in 1..Len(ranked)
    BY <1>0
  <2>2. Len(ranked[i]) \in Nat /\ Len(ranked[i]) >= 1
    BY <2>1, ElementOfSeq, LenProperties DEF IsRows
  <2>3. 1 \in 1..Len(ranked[i])
    BY <2>2
  <2> QED BY <2>1, <2>3, RowsAre
<1>2. PICK g : g = [i \in 0..d |-> SumStep(ranked, g, i)]
  BY Zenon, <1>0, SumsAre DEF HasSums
<1> DEFINE Is(f) == f = [i \in 0..d |-> IF i = 0 THEN 0 ELSE f[i - 1] + Trees!CostAt(i, 1)]
           F == CHOOSE f : Is(f)
<1>3. Is(g)
  BY <1>2 DEF SumStep, Trees!CostAt
<1>4. Is(F)
  BY Zenon, <1>3
<1>5. Trees!ChainCost(d) = F[d]
  BY DEF Trees!ChainCost
<1> HIDE DEF F
<1>6. F = [i \in 0..d |-> SumStep(ranked, F, i)]
  BY <1>4 DEF SumStep, Trees!CostAt
<1>7. \A i \in 1..d : ranked[i][1].cost \in Nat
  BY <1>1
<1>8. \A i \in 0..d : F[i] \in Nat
  BY Zenon, <1>0, <1>6, <1>7, SumsInNat
<1> QED BY <1>0, <1>5, <1>8

\* The last n of n zeros and s: what the convolution keeps of a text.
Tokens0 == TreeTokens \cup {0}
EndOf(c, s, n) ==
    /\ c \in Seq(Tokens0) /\ Len(c) = n
    /\ \A i \in 1..n : c[i] = IF i + Len(s) <= n THEN 0 ELSE s[i + Len(s) - n]

\* The committed text but its staged token, and the caches of it.
Body(x) == SubSeq(x, 1, Len(x) - 1)
CachesOf(x, k, c, v) ==
    /\ k = Trees!KeysOf(x) /\ c = x /\ EndOf(v, x, TreeKernel - 1)

TreeInv ==
    /\ text \in Seq(TreeTokens) /\ Len(text) >= 2
    /\ CachesOf(Body(text), keys, state, conv)
    /\ growth \in {"draft", "seed", "grow", "follow"}
    /\ growth # "draft" => IsTree(tree) /\ IsRows(ranked) /\ budget \in Nat
    /\ growth = "seed" => Len(tree) = 1
    /\ growth # "grow" => heap = {}
    /\ growth = "grow" => \A c \in heap : IsCandidate(tree, ranked, c)
    /\ growth = "follow" =>
          \E s \in 1..Len(tree) : accepted = PathIn(tree, s)

LEMMA TreeConstants ==
    /\ TreeKernel \in Nat \ {0} /\ TreeBudgets \subseteq Nat
    /\ \A b \in TreeCandidates : IsRows(b)
<1>1. /\ TreeKernel \in Nat \ {0} /\ TreeBudgets \subseteq Nat
      /\ \A b \in TreeCandidates :
            b \in Seq(Seq(CandidateType)) /\ \A d \in DOMAIN b : b[d] # <<>>
  BY Zenon, OfflineAssumption DEF Trees!DraftTreeAssumption, CandidateType
<1>2. ASSUME NEW b \in TreeCandidates PROVE IsRows(b)
  <2>1. b \in Seq(Seq(CandidateType)) /\ \A d \in 1..Len(b) : b[d] # <<>>
    BY <1>1, LenProperties
  <2>2. ASSUME NEW d \in 1..Len(b) PROVE Len(b[d]) >= 1
    <3>1. b[d] \in Seq(CandidateType) /\ b[d] # <<>>
      BY <2>1, ElementOfSeq
    <3>2. Len(b[d]) \in Nat /\ Len(b[d]) # 0
      BY <3>1, LenProperties, EmptySeq, SeqEqual
    <3> QED BY <3>2
  <2> QED BY <2>1, <2>2 DEF IsRows
<1> QED BY <1>1, <1>2

LEMMA TreeDraftHolds ==
    ASSUME TreeInv, Trees!Draft
    PROVE  TreeInv'
<1>1. /\ growth = "draft" /\ growth' = "seed" /\ ranked' \in TreeCandidates
      /\ budget' \in TreeBudgets
      /\ tree' = <<Trees!Node(Trees!Last(text), 0, 0)>>
      /\ text' = text /\ heap' = heap /\ keys' = keys /\ state' = state /\ conv' = conv
  BY DEF Trees!Draft
<1>2. /\ text \in Seq(TreeTokens) /\ Len(text) >= 2 /\ heap = {}
      /\ CachesOf(Body(text), keys, state, conv)
  BY <1>1 DEF TreeInv
<1>3. Trees!Last(text) \in TreeTokens
  <2>1. Len(text) \in 1..Len(text)
    BY <1>2, LenProperties
  <2> QED BY <1>2, <2>1, ElementOfSeq DEF Trees!Last
<1>4. PICK x : x = Trees!Node(Trees!Last(text), 0, 0)
  OBVIOUS
<1>5. x \in TreeNodes /\ x.depth = 0 /\ x.parent = 0
  BY <1>3, <1>4 DEF Trees!Node, TreeNodes
<1>6. <<x>> \in Seq(TreeNodes) /\ Len(<<x>>) = 1 /\ <<x>>[1] = x
  BY <1>5
<1>7. IsTree(<<x>>)
  BY <1>5, <1>6 DEF IsTree
<1>8. IsTree(tree') /\ Len(tree') = 1
  BY <1>1, <1>4, <1>6, <1>7
<1>9. IsRows(ranked') /\ budget' \in Nat
  BY <1>1, TreeConstants
<1>10. CachesOf(Body(text'), keys', state', conv')
  BY <1>1, <1>2
<1> QED BY <1>1, <1>2, <1>8, <1>9, <1>10 DEF TreeInv

LEMMA TreeSeedHolds ==
    ASSUME TreeInv, Trees!Seed
    PROVE  TreeInv'
<1>1. /\ growth = "seed" /\ growth' = "grow" /\ text' = text /\ ranked' = ranked
      /\ keys' = keys /\ state' = state /\ conv' = conv /\ budget' = budget
  BY DEF Trees!Seed
<1>2. /\ text \in Seq(TreeTokens) /\ Len(text) >= 2 /\ heap = {}
      /\ CachesOf(Body(text), keys, state, conv)
      /\ IsTree(tree) /\ IsRows(ranked) /\ Len(tree) = 1
  BY <1>1 DEF TreeInv
<1>3. SUFFICES IsTree(tree') /\ \A c \in heap' : IsCandidate(tree', ranked, c)
  BY <1>1, <1>2 DEF TreeInv
<1>4. CASE budget = 0 \/ ranked = <<>>
  BY <1>2, <1>4 DEF Trees!Seed
<1>5. CASE ~(budget = 0 \/ ranked = <<>>) /\ seeded
  <2>1. PICK n : n = Trees!ChainLength
    OBVIOUS
  <2>2. PICK u : u = [d \in 1..n |-> Trees!Node(ranked[d][1].token, d, d)]
    BY Zenon
  <2>3. tree' = tree \o u
    BY Zenon, <1>5, <2>1, <2>2 DEF Trees!Seed
  <2>4. heap' = UNION {Trees!Pushed(Trees!ChainCost(d - 1) + Trees!CostAt(d, 2), d, d, 2) : d \in 1..n}
    BY <1>5, <2>1 DEF Trees!Seed
  <2>5. n \in Nat /\ n <= Len(ranked)
    <3>1. PICK l \in Nat : l = Len(ranked)
      BY <1>2, LenProperties DEF IsRows
    <3>2. budget \in Nat
      BY <1>1 DEF TreeInv
    <3>3. \E y \in {l, budget} : \A z \in {l, budget} : y <= z
      BY <3>1, <3>2
    <3>4. n = CHOOSE y \in {l, budget} : \A z \in {l, budget} : y <= z
      BY <2>1, <3>1 DEF Trees!ChainLength, Trees!Min
    <3> QED BY <3>1, <3>2, <3>3, <3>4
  <2>6. ASSUME NEW d \in 1..n
        PROVE  /\ u[d] \in TreeNodes /\ u[d].parent = d /\ u[d].depth = d
               /\ d \in 1..Len(ranked)
    <3>1. d \in 1..Len(ranked) /\ Len(ranked) \in Nat
      BY <1>2, <2>5, LenProperties DEF IsRows
    <3>2. Len(ranked[d]) \in Nat /\ Len(ranked[d]) >= 1
      BY <1>2, <3>1, ElementOfSeq, LenProperties DEF IsRows
    <3>3. 1 \in 1..Len(ranked[d])
      BY <3>2
    <3>4. ranked[d][1].token \in TreeTokens
      BY <1>2, <3>1, <3>3, RowsAre
    <3> QED BY <2>2, <3>1, <3>4 DEF Trees!Node, TreeNodes
  <2>7. u \in Seq(TreeNodes) /\ Len(u) = n
    <3>1. u \in [1..n -> TreeNodes]
      BY <2>2, <2>6
    <3> QED BY <2>5, <3>1, SeqDef, LenProperties
  <2>8. PICK z : z = tree \o u
    BY Zenon
  <2>9. IsTree(z) /\ Len(z) = n + 1 /\ \A d \in 1..(n + 1) : z[d].depth = d - 1
    <3>1. IsChain(z, n)
      BY <1>2, <2>5, <2>6, <2>7, <2>8, ChainIsTree
    <3> QED BY <3>1 DEF IsChain
  <2>10. ASSUME NEW d \in 1..n,
                NEW c \in Trees!Pushed(Trees!ChainCost(d - 1) + Trees!CostAt(d, 2), d, d, 2)
         PROVE  IsCandidate(z, ranked, c)
    <3>1. d \in 1..Len(z) /\ d \in Nat \ {0} /\ d = z[d].depth + 1
      BY <2>5, <2>9
    <3>2. d - 1 \in 0..Len(ranked) /\ d \in 1..Len(ranked)
      <4>1. Len(ranked) \in Nat
        BY <1>2, LenProperties DEF IsRows
      <4> QED BY <2>6, <4>1
    <3>3. Trees!ChainCost(d - 1) \in Nat
      BY <1>2, <3>2, ChainCostIs
    <3>4. PICK w : w = Trees!ChainCost(d - 1) + Trees!CostAt(d, 2)
      OBVIOUS
    <3>5. d <= Len(ranked) /\ 2 <= Len(ranked[d]) => w \in Nat /\ ranked[d][2].cost <= w
      <4>1. SUFFICES ASSUME 2 <= Len(ranked[d]) PROVE w \in Nat /\ ranked[d][2].cost <= w
        OBVIOUS
      <4>2. Len(ranked[d]) \in Nat
        BY <1>2, <3>2, ElementOfSeq, LenProperties DEF IsRows
      <4>3. 2 \in 1..Len(ranked[d])
        BY <4>1, <4>2
      <4>4. ranked[d][2].cost \in Nat
        BY <1>2, <3>2, <4>3, RowsAre
      <4> QED BY <3>3, <3>4, <4>4 DEF Trees!CostAt
    <3>6. c \in Trees!Pushed(w, d, d, 2) /\ 2 \in Nat \ {0}
      BY <2>10, <3>4
    <3>7. \A y \in Trees!Pushed(w, d, d, 2) : IsCandidate(z, ranked, y)
      BY Zenon, <1>2, <3>1, <3>5, <3>6, PushedIs
    <3> QED BY <3>6, <3>7
  <2>11. ASSUME NEW c \in heap' PROVE IsCandidate(z, ranked, c)
    <3>1. PICK d \in 1..n :
             c \in Trees!Pushed(Trees!ChainCost(d - 1) + Trees!CostAt(d, 2), d, d, 2)
      BY <2>4
    <3> QED BY <2>10, <3>1
  <2> QED BY <2>3, <2>8, <2>9, <2>11
<1>6. CASE ~(budget = 0 \/ ranked = <<>>) /\ ~seeded
  <2>1. tree' = tree /\ heap' = Trees!Pushed(Trees!CostAt(1, 1), 1, 1, 1)
    BY <1>6 DEF Trees!Seed
  <2>2. PICK w : w = Trees!CostAt(1, 1)
    OBVIOUS
  <2>3. 1 \in 1..Len(tree) /\ 1 \in Nat \ {0} /\ 1 = tree[1].depth + 1
    BY <1>2 DEF IsTree
  <2>4. 1 <= Len(ranked) /\ 1 <= Len(ranked[1]) => w \in Nat /\ ranked[1][1].cost <= w
    <3>1. SUFFICES ASSUME 1 <= Len(ranked), 1 <= Len(ranked[1])
                   PROVE  w \in Nat /\ ranked[1][1].cost <= w
      OBVIOUS
    <3>2. 1 \in 1..Len(ranked)
      BY <1>2, <3>1, LenProperties DEF IsRows
    <3>3. Len(ranked[1]) \in Nat
      BY <1>2, <3>2, ElementOfSeq, LenProperties DEF IsRows
    <3>4. 1 \in 1..Len(ranked[1])
      BY <3>1, <3>3
    <3>5. ranked[1][1].cost \in Nat
      BY <1>2, <3>2, <3>4, RowsAre
    <3> QED BY <2>2, <3>5 DEF Trees!CostAt
  <2>5. \A c \in Trees!Pushed(w, 1, 1, 1) : IsCandidate(tree, ranked, c)
    BY Zenon, <1>2, <2>3, <2>4, PushedIs
  <2> QED BY <1>2, <2>1, <2>2, <2>5
<1> QED BY <1>4, <1>5, <1>6

LEMMA TreeGrowHolds ==
    ASSUME TreeInv, Trees!Grow
    PROVE  TreeInv'
<1>1. /\ growth = "grow" /\ growth' = growth /\ text' = text /\ ranked' = ranked
      /\ keys' = keys /\ state' = state /\ conv' = conv /\ heap # {} /\ budget' = budget
  BY DEF Trees!Grow, Trees!Growing
<1>2. /\ text \in Seq(TreeTokens) /\ Len(text) >= 2
      /\ CachesOf(Body(text), keys, state, conv)
      /\ IsTree(tree) /\ IsRows(ranked) /\ \A c \in heap : IsCandidate(tree, ranked, c)
  BY <1>1 DEF TreeInv
<1>3. SUFFICES IsTree(tree') /\ \A c \in heap' : IsCandidate(tree', ranked, c)
  BY <1>1, <1>2 DEF TreeInv
<1>4. PICK c : c = CHOOSE x \in heap : \A y \in heap : Trees!Before(x, y)
  OBVIOUS
<1>5. /\ tree' = Append(tree, Trees!Node(ranked[c.depth][c.rank].token, c.depth, c.parent))
      /\ heap' = (heap \ {c}) \cup Trees!Successors(c, Len(tree) + 1)
  BY <1>4 DEF Trees!Grow
<1>6. PICK l \in Nat : l = Len(tree)
  BY <1>2, LenProperties DEF IsTree
<1>7. Len(ranked) \in Nat
  BY <1>2, LenProperties DEF IsRows
<1>8. ASSUME NEW x \in heap
      PROVE  x.cost \in Nat /\ x.parent \in Nat /\ x.depth \in Nat /\ x.rank \in Nat
  <2>1. /\ x.cost \in Nat /\ x.parent \in 1..l /\ x.depth \in 1..Len(ranked)
        /\ x.rank \in 1..Len(ranked[x.depth])
    BY <1>2, <1>6 DEF IsCandidate
  <2> QED BY <2>1
<1>9. c \in heap
  <2>1. \E x \in heap : \A y \in heap : Trees!Before(x, y)
    BY <1>1, <1>8, LeastCandidate
  <2> QED BY <1>4, <2>1
<1>10. /\ c.cost \in Nat /\ c.parent \in 1..l /\ c.depth \in 1..Len(ranked)
       /\ c.rank \in 1..Len(ranked[c.depth]) /\ c.depth = tree[c.parent].depth + 1
       /\ ranked[c.depth][c.rank].cost <= c.cost
  BY <1>2, <1>6, <1>9 DEF IsCandidate
<1>11. /\ ranked[c.depth][c.rank].token \in TreeTokens /\ ranked[c.depth][c.rank].cost \in Nat
  BY Zenon, <1>2, <1>10, RowsAre
<1>12. PICK x : x = Trees!Node(ranked[c.depth][c.rank].token, c.depth, c.parent)
  OBVIOUS
<1>13. x \in TreeNodes /\ x.depth = c.depth /\ x.parent = c.parent
  BY <1>6, <1>7, <1>10, <1>11, <1>12 DEF Trees!Node, TreeNodes
<1>14. PICK z : z = Append(tree, x)
  BY Zenon
<1>15. IsTree(z)
  BY Zenon, <1>2, <1>6, <1>10, <1>13, <1>14, TreeGrows
<1>16. Len(z) = l + 1 /\ z[l + 1] = x /\ \A s \in 1..l : z[s] = tree[s]
  BY <1>2, <1>6, <1>13, <1>14, AppendProperties DEF IsTree
<1>17. ASSUME NEW y \in heap PROVE IsCandidate(z, ranked, y)
  BY <1>2, <1>6, <1>16, CandidateStays
<1>18. ASSUME NEW y \in Trees!Successors(c, l + 1) PROVE IsCandidate(z, ranked, y)
  <2>1. PICK d \in Nat \ {0}, r \in Nat \ {0} : d = c.depth /\ r = c.rank
    BY <1>7, <1>10
  <2>2. d <= Len(ranked) /\ Len(ranked[d]) \in Nat
    BY <1>2, <1>7, <1>10, <2>1, ElementOfSeq, LenProperties DEF IsRows
  <2>3. PICK w1, w2 : /\ w1 = c.cost - Trees!CostAt(d, r) + Trees!CostAt(d, r + 1)
                      /\ w2 = c.cost + Trees!CostAt(d + 1, 1)
    OBVIOUS
  <2>4. y \in Trees!Pushed(w1, c.parent, d, r + 1) \/ y \in Trees!Pushed(w2, l + 1, d + 1, 1)
    BY <1>18, <2>1, <2>3 DEF Trees!Successors
  <2>5. CASE y \in Trees!Pushed(w1, c.parent, d, r + 1)
    <3>1. /\ c.parent \in 1..Len(z) /\ d = z[c.parent].depth + 1 /\ r + 1 \in Nat \ {0}
      BY <1>6, <1>10, <1>16, <2>1
    <3>2. d <= Len(ranked) /\ r + 1 <= Len(ranked[d]) => w1 \in Nat /\ ranked[d][r + 1].cost <= w1
      <4>1. SUFFICES ASSUME r + 1 <= Len(ranked[d])
                     PROVE  w1 \in Nat /\ ranked[d][r + 1].cost <= w1
        OBVIOUS
      <4>2. r + 1 \in 1..Len(ranked[d]) /\ d \in 1..Len(ranked)
        BY <1>7, <2>1, <2>2, <4>1
      <4>3. ranked[d][r + 1].cost \in Nat
        BY <1>2, <4>2, RowsAre
      <4>4. c.cost \in Nat /\ ranked[d][r].cost \in Nat /\ ranked[d][r].cost <= c.cost
        BY <1>10, <1>11, <2>1
      <4>5. w1 = c.cost - ranked[d][r].cost + ranked[d][r + 1].cost
        BY <2>3 DEF Trees!CostAt
      <4> QED BY <4>3, <4>4, <4>5
    <3> QED BY Zenon, <1>2, <2>1, <2>5, <3>1, <3>2, PushedIs
  <2>6. CASE y \in Trees!Pushed(w2, l + 1, d + 1, 1)
    <3>1. /\ l + 1 \in 1..Len(z) /\ d + 1 = z[l + 1].depth + 1 /\ d + 1 \in Nat \ {0}
      BY <1>6, <1>13, <1>16, <2>1
    <3>2. d + 1 <= Len(ranked) /\ 1 <= Len(ranked[d + 1])
            => w2 \in Nat /\ ranked[d + 1][1].cost <= w2
      <4>1. SUFFICES ASSUME d + 1 <= Len(ranked), 1 <= Len(ranked[d + 1])
                     PROVE  w2 \in Nat /\ ranked[d + 1][1].cost <= w2
        OBVIOUS
      <4>2. d + 1 \in 1..Len(ranked)
        BY <1>7, <2>1, <4>1
      <4>3. Len(ranked[d + 1]) \in Nat
        BY <1>2, <4>2, ElementOfSeq, LenProperties DEF IsRows
      <4>4. 1 \in 1..Len(ranked[d + 1])
        BY <4>1, <4>3
      <4>5. ranked[d + 1][1].cost \in Nat
        BY <1>2, <4>2, <4>4, RowsAre
      <4>6. PICK k \in Nat, m \in Nat : k = c.cost /\ m = ranked[d + 1][1].cost
        BY <1>10, <4>5
      <4>7. w2 = k + m
        BY <2>3, <4>6 DEF Trees!CostAt
      <4> QED BY <4>6, <4>7
    <3>3. 1 \in Nat \ {0}
      OBVIOUS
    <3> QED BY Zenon, <1>2, <2>6, <3>1, <3>2, <3>3, PushedIs
  <2> QED BY <2>4, <2>5, <2>6
<1>19. tree' = z /\ heap' = (heap \ {c}) \cup Trees!Successors(c, l + 1)
  BY <1>5, <1>6, <1>12, <1>14
<1> QED BY <1>15, <1>17, <1>18, <1>19

LEMMA TreeVerifyHolds ==
    ASSUME TreeInv, Trees!Verify
    PROVE  TreeInv'
<1>1. /\ growth = "grow" /\ growth' = "follow" /\ text' = text /\ ranked' = ranked
      /\ keys' = keys /\ state' = state /\ conv' = conv /\ heap' = {} /\ tree' = tree
      /\ accepted' = <<1>> /\ budget' = budget
  BY DEF Trees!Verify
<1>2. /\ text \in Seq(TreeTokens) /\ Len(text) >= 2
      /\ CachesOf(Body(text), keys, state, conv)
      /\ IsTree(tree) /\ IsRows(ranked) /\ budget \in Nat
  BY <1>1 DEF TreeInv
<1>3. PathIn(tree, 1) = <<1>> /\ 1 \in 1..Len(tree)
  BY <1>2, RootIs
<1>4. \E s \in 1..Len(tree') : accepted' = PathIn(tree', s)
  BY <1>1, <1>3
<1>5. CachesOf(Body(text'), keys', state', conv') /\ IsTree(tree') /\ IsRows(ranked')
  BY <1>1, <1>2
<1> QED BY <1>1, <1>2, <1>4, <1>5 DEF TreeInv

\* r are the last n of s.
EndsIn(S, s, n, r) ==
    r \in Seq(S) /\ Len(r) = n /\ \A i \in 1..n : r[i] = s[Len(s) - n + i]

LEMMA LastAre ==
    ASSUME NEW S, NEW s \in Seq(S), NEW n \in Nat, n <= Len(s)
    PROVE  EndsIn(S, s, n, Trees!LastN(s, n))
<1>1. PICK l \in Nat : l = Len(s) /\ n <= l
  BY LenProperties
<1>2. \A i \in (l - n + 1)..l : s[i] \in S
  BY <1>1, ElementOfSeq
<1>3. PICK r : r = SubSeq(s, l - n + 1, l)
  BY Zenon
<1>4. /\ r \in Seq(S) /\ Len(r) = IF l - n + 1 <= l THEN l - (l - n + 1) + 1 ELSE 0
      /\ \A i \in 1..(l - (l - n + 1) + 1) : r[i] = s[(l - n + 1) + i - 1]
  BY <1>1, <1>2, <1>3, SubSeqProperties
<1>5. Len(r) = n
  BY <1>1, <1>4
<1>6. \A i \in 1..n : i \in 1..(l - (l - n + 1) + 1) /\ (l - n + 1) + i - 1 = l - n + i
  BY <1>1
<1>7. \A i \in 1..n : r[i] = s[l - n + i]
  BY <1>4, <1>6
<1> QED BY <1>1, <1>3, <1>4, <1>5, <1>7 DEF EndsIn, Trees!LastN

LEMMA EndOfZeros ==
    ASSUME NEW n \in Nat, NEW s \in Seq(Tokens0)
    PROVE  EndOf(Trees!LastN([i \in 1..n |-> 0] \o s, n), s, n)
<1>1. PICK o : o = [i \in 1..n |-> 0]
  BY Zenon
<1>2. o \in Seq(Tokens0) /\ Len(o) = n /\ \A i \in 1..n : o[i] = 0
  <2>1. o \in [1..n -> Tokens0]
    BY <1>1 DEF Tokens0
  <2> QED BY <1>1, <2>1, SeqDef, LenProperties
<1>3. PICK m \in Nat : m = Len(s)
  BY LenProperties
<1>4. PICK z : z = o \o s
  BY Zenon
<1>5. Joins(Tokens0, o, s, z)
  BY <1>2, <1>4, BothJoin
<1>6. /\ z \in Seq(Tokens0) /\ Len(z) = n + m
      /\ \A i \in 1..n : z[i] = 0
      /\ \A i \in 1..m : z[n + i] = s[i]
  BY <1>2, <1>3, <1>5 DEF Joins
<1>7. PICK r : r = Trees!LastN(z, n)
  OBVIOUS
<1>8. EndsIn(Tokens0, z, n, r)
  BY <1>3, <1>6, <1>7, LastAre
<1>9. r \in Seq(Tokens0) /\ Len(r) = n /\ \A i \in 1..n : r[i] = z[m + i]
  BY <1>3, <1>6, <1>8 DEF EndsIn
<1>10. ASSUME NEW i \in 1..n PROVE r[i] = IF i + m <= n THEN 0 ELSE s[i + m - n]
  <2>1. CASE i + m <= n
    BY <1>3, <1>6, <1>9, <2>1
  <2>2. CASE ~(i + m <= n)
    <3>1. i + m - n \in 1..m /\ n + (i + m - n) = m + i
      BY <1>3, <2>2
    <3>2. z[n + (i + m - n)] = s[i + m - n]
      BY <1>6, <3>1
    <3> QED BY <1>9, <2>2, <3>1, <3>2
  <2> QED BY <2>1, <2>2
<1> QED BY Zenon, <1>1, <1>3, <1>4, <1>7, <1>9, <1>10 DEF EndOf

LEMMA EndIsOne ==
    ASSUME NEW n \in Nat, NEW s, NEW c, NEW d, EndOf(c, s, n), EndOf(d, s, n)
    PROVE  c = d
<1>1. /\ c \in Seq(Tokens0) /\ d \in Seq(Tokens0) /\ Len(c) = n /\ Len(d) = n
      /\ \A i \in 1..n : c[i] = d[i]
  BY DEF EndOf
<1> QED BY <1>1, SeqEqual

\* What the convolution keeps after u.
LEMMA EndMoves ==
    ASSUME NEW n \in Nat, NEW s \in Seq(Tokens0), NEW u \in Seq(Tokens0), NEW c, EndOf(c, s, n)
    PROVE  EndOf(Trees!LastN(c \o u, n), s \o u, n)
<1>1. PICK m \in Nat, a \in Nat : m = Len(s) /\ a = Len(u)
  BY LenProperties
<1>2. /\ c \in Seq(Tokens0) /\ Len(c) = n
      /\ \A i \in 1..n : c[i] = IF i + m <= n THEN 0 ELSE s[i + m - n]
  BY <1>1 DEF EndOf
<1>3. PICK z, x : z = c \o u /\ x = s \o u
  BY Zenon
<1>4. Joins(Tokens0, c, u, z) /\ Joins(Tokens0, s, u, x)
  BY <1>2, <1>3, BothJoin
<1>5. /\ z \in Seq(Tokens0) /\ Len(z) = n + a
      /\ \A i \in 1..n : z[i] = c[i]
      /\ \A i \in 1..a : z[n + i] = u[i]
  BY <1>1, <1>2, <1>4 DEF Joins
<1>6. /\ Len(x) = m + a
      /\ \A i \in 1..m : x[i] = s[i]
      /\ \A i \in 1..a : x[m + i] = u[i]
  BY <1>1, <1>4 DEF Joins
<1>7. PICK r : r = Trees!LastN(z, n)
  OBVIOUS
<1>8. EndsIn(Tokens0, z, n, r)
  BY <1>1, <1>5, <1>7, LastAre
<1>9. r \in Seq(Tokens0) /\ Len(r) = n /\ \A i \in 1..n : r[i] = z[a + i]
  BY <1>1, <1>5, <1>8 DEF EndsIn
<1>10. ASSUME NEW i \in 1..n PROVE r[i] = IF i + (m + a) <= n THEN 0 ELSE x[i + (m + a) - n]
  <2>1. CASE a + i <= n
    <3>1. a + i \in 1..n
      BY <1>1, <2>1
    <3>2. r[i] = IF (a + i) + m <= n THEN 0 ELSE s[(a + i) + m - n]
      BY <1>2, <1>5, <1>9, <3>1
    <3>3. CASE (a + i) + m <= n
      BY <1>1, <3>2, <3>3
    <3>4. CASE ~((a + i) + m <= n)
      <4>1. (a + i) + m - n \in 1..m /\ (a + i) + m - n = i + (m + a) - n
        BY <1>1, <2>1, <3>4
      <4> QED BY <1>1, <1>6, <3>2, <3>4, <4>1
    <3> QED BY <3>3, <3>4
  <2>2. CASE ~(a + i <= n)
    <3>1. /\ a + i - n \in 1..a /\ n + (a + i - n) = a + i
          /\ m + (a + i - n) = i + (m + a) - n /\ ~(i + (m + a) <= n)
      BY <1>1, <2>2
    <3>2. z[n + (a + i - n)] = u[a + i - n] /\ x[m + (a + i - n)] = u[a + i - n]
      BY <1>5, <1>6, <3>1
    <3> QED BY <1>9, <3>1, <3>2
  <2> QED BY <2>1, <2>2
<1> QED BY <1>3, <1>6, <1>7, <1>9, <1>10 DEF EndOf

\* The window of a slot: v are the last inputs on its path, before it what c keeps.
LEMMA WindowIs ==
    ASSUME NEW n \in Nat \ {0}, NEW s \in Seq(Tokens0), NEW u \in Seq(Tokens0),
           NEW c, EndOf(c, s, n - 1),
           NEW k \in Nat \ {0}, k <= n, k <= Len(u), k = n \/ k = Len(u),
           NEW v, EndsIn(Tokens0, u, k, v)
    PROVE  EndOf(Trees!LastN(c, n - k) \o v, s \o u, n)
<1>1. PICK m \in Nat, a \in Nat : m = Len(s) /\ a = Len(u) /\ k <= a /\ (k = n \/ k = a)
  BY LenProperties
<1>2. /\ c \in Seq(Tokens0) /\ Len(c) = n - 1
      /\ \A i \in 1..(n - 1) : c[i] = IF i + m <= n - 1 THEN 0 ELSE s[i + m - (n - 1)]
  BY <1>1 DEF EndOf
<1>3. v \in Seq(Tokens0) /\ Len(v) = k /\ \A i \in 1..k : v[i] = u[a - k + i]
  BY <1>1 DEF EndsIn
<1>4. PICK h : h = Trees!LastN(c, n - k)
  OBVIOUS
<1>5. n - k \in Nat /\ n - k <= n - 1
  OBVIOUS
<1>6. EndsIn(Tokens0, c, n - k, h)
  BY <1>2, <1>4, <1>5, LastAre
<1>7. /\ h \in Seq(Tokens0) /\ Len(h) = n - k
      /\ \A i \in 1..(n - k) : h[i] = c[(n - 1) - (n - k) + i]
  BY <1>2, <1>6 DEF EndsIn
<1>8. PICK z, x : z = h \o v /\ x = s \o u
  BY Zenon
<1>9. Joins(Tokens0, h, v, z) /\ Joins(Tokens0, s, u, x)
  BY <1>3, <1>7, <1>8, BothJoin
<1>10. /\ z \in Seq(Tokens0) /\ Len(z) = (n - k) + k
       /\ \A i \in 1..(n - k) : z[i] = h[i]
       /\ \A i \in 1..k : z[(n - k) + i] = v[i]
  BY <1>3, <1>7, <1>9 DEF Joins
<1>11. /\ Len(x) = m + a
       /\ \A i \in 1..m : x[i] = s[i]
       /\ \A i \in 1..a : x[m + i] = u[i]
  BY <1>1, <1>9 DEF Joins
<1>12. ASSUME NEW i \in 1..n PROVE z[i] = IF i + (m + a) <= n THEN 0 ELSE x[i + (m + a) - n]
  <2>1. CASE i <= n - k
    <3>1. i \in 1..(n - k) /\ (n - 1) - (n - k) + i = k - 1 + i /\ k - 1 + i \in 1..(n - 1) /\ k = a
      BY <1>1, <2>1
    <3>2. z[i] = IF (k - 1 + i) + m <= n - 1 THEN 0 ELSE s[(k - 1 + i) + m - (n - 1)]
      BY <1>2, <1>7, <1>10, <3>1
    <3>3. CASE i + (m + a) <= n
      BY <1>1, <3>1, <3>2, <3>3
    <3>4. CASE ~(i + (m + a) <= n)
      <4>1. /\ ~((k - 1 + i) + m <= n - 1)
            /\ (k - 1 + i) + m - (n - 1) = i + (m + a) - n /\ i + (m + a) - n \in 1..m
        BY <1>1, <2>1, <3>1, <3>4
      <4> QED BY <1>11, <3>2, <3>4, <4>1
    <3> QED BY <3>3, <3>4
  <2>2. CASE ~(i <= n - k)
    <3>1. PICK j \in 1..k : i = (n - k) + j
      <4>1. i - (n - k) \in 1..k /\ i = (n - k) + (i - (n - k))
        BY <2>2
      <4> QED BY <4>1
    <3>2. z[i] = u[a - k + j]
      BY Zenon, <1>3, <1>10, <3>1
    <3>3. /\ a - k + j \in 1..a /\ ~(i + (m + a) <= n)
          /\ i + (m + a) - n = m + (a - k + j)
      BY <1>1, <3>1
    <3> QED BY Zenon, <1>11, <3>2, <3>3
  <2> QED BY <2>1, <2>2
<1>13. z \in Seq(Tokens0) /\ Len(z) = n /\ Len(x) = m + a
  BY <1>10, <1>11
<1>14. EndOf(z, x, n)
  BY <1>12, <1>13 DEF EndOf
<1> QED BY <1>4, <1>8, <1>14

\* The tokens of some slots.
Reads(t, r, u) ==
    u \in Seq(TreeTokens) /\ Len(u) = Len(r) /\ \A i \in 1..Len(r) : u[i] = t[r[i]].token

LEMMA TokensAre ==
    ASSUME NEW t, IsTree(t), NEW r \in Seq(1..Len(t))
    PROVE  Reads(t, r, TokensIn(t, r))
<1>1. PICK n \in Nat : n = Len(r) /\ DOMAIN r = 1..n
  BY LenProperties
<1>2. PICK u : u = TokensIn(t, r)
  OBVIOUS
<1>3. u = [i \in 1..n |-> t[r[i]].token]
  BY <1>1, <1>2 DEF TokensIn
<1>4. ASSUME NEW i \in 1..n PROVE t[r[i]].token \in TreeTokens
  <2>1. r[i] \in 1..Len(t)
    BY <1>1, ElementOfSeq
  <2>2. t[r[i]] \in TreeNodes
    BY <2>1, ElementOfSeq DEF IsTree
  <2> QED BY <2>2 DEF TreeNodes
<1>5. u \in [1..n -> TreeTokens]
  BY <1>3, <1>4
<1>6. u \in Seq(TreeTokens)
  BY <1>5, SeqDef
<1>7. Len(u) = n
  BY <1>3, <1>6, LenProperties
<1> QED BY <1>1, <1>2, <1>3, <1>6, <1>7 DEF Reads

LEMMA TokensOfIs ==
    /\ \A r : Trees!TokensOf(r) = TokensIn(tree, r)
    /\ \A s : Trees!Path(s) = PathIn(tree, s)
BY DEF Trees!TokensOf, TokensIn, Trees!Path, PathIn

\* The keys of a text.
IsKeys(x, k) ==
    k \in Seq(Nat \X TreeTokens) /\ Len(k) = Len(x) /\ \A i \in 1..Len(x) : k[i] = <<i - 1, x[i]>>

LEMMA KeysOfText ==
    ASSUME NEW x \in Seq(TreeTokens)
    PROVE  IsKeys(x, Trees!KeysOf(x)) /\ DOMAIN Trees!KeysOf(x) = 1..Len(x)
<1>1. PICK n \in Nat : n = Len(x) /\ DOMAIN x = 1..n
  BY LenProperties
<1>2. PICK k : k = Trees!KeysOf(x)
  OBVIOUS
<1>3. k = [i \in 1..n |-> <<i - 1, x[i]>>]
  BY <1>1, <1>2 DEF Trees!KeysOf
<1>4. \A i \in 1..n : x[i] \in TreeTokens
  BY <1>1, ElementOfSeq
<1>5. k \in [1..n -> Nat \X TreeTokens]
  BY <1>3, <1>4
<1> QED BY <1>1, <1>2, <1>3, <1>5, SeqDef, LenProperties DEF IsKeys

\* The keys of the prefix b and behind them those of all slots.
AreAppended(t, b, z) ==
    /\ z \in Seq(Nat \X TreeTokens) /\ Len(z) = Len(b) + Len(t)
    /\ \A i \in 1..Len(b) : z[i] = <<i - 1, b[i]>>
    /\ \A s \in 1..Len(t) : z[Len(b) + s] = <<Len(b) + t[s].depth, t[s].token>>

LEMMA AppendedAre ==
    ASSUME IsTree(tree), text \in Seq(TreeTokens), Len(text) >= 2,
           keys = Trees!KeysOf(Body(text))
    PROVE  AreAppended(tree, Body(text), Trees!AppendedKeys) /\ Body(text) \in Seq(TreeTokens)
<1>1. PICK b : b = Body(text)
  OBVIOUS
<1>2. b \in Seq(TreeTokens)
  <2>1. PICK n \in Nat : n = Len(text) /\ n >= 2
    BY LenProperties
  <2>2. \A i \in 1..(n - 1) : text[i] \in TreeTokens
    BY <2>1, ElementOfSeq
  <2>3. SubSeq(text, 1, n - 1) \in Seq(TreeTokens)
    BY <2>1, <2>2, SubSeqProperties
  <2> QED BY <1>1, <2>1, <2>3 DEF Body
<1>3. PICK m \in Nat, l \in Nat : m = Len(b) /\ l = Len(tree)
  BY <1>2, LenProperties DEF IsTree
<1>4. PICK q : q = [s \in 1..l |-> <<m + tree[s].depth, tree[s].token>>]
  BY Zenon
<1>5. ASSUME NEW s \in 1..l PROVE tree[s].depth \in Nat /\ tree[s].token \in TreeTokens
  <2>1. tree[s] \in TreeNodes
    BY <1>3, ElementOfSeq DEF IsTree
  <2> QED BY <2>1 DEF TreeNodes
<1>6. q \in Seq(Nat \X TreeTokens) /\ Len(q) = l
  <2>1. q \in [1..l -> Nat \X TreeTokens]
    BY <1>4, <1>5
  <2> QED BY <2>1, SeqDef, LenProperties
<1>7. PICK z : z = keys \o q
  BY Zenon
<1>8. z = Trees!AppendedKeys
  <2>1. DOMAIN tree = 1..l
    BY <1>3, LenProperties DEF IsTree
  <2> QED BY <1>1, <1>3, <1>4, <1>7, <2>1 DEF Trees!AppendedKeys, Trees!Position, Trees!Prefix_, Body
<1>9. IsKeys(b, keys)
  BY <1>1, <1>2, KeysOfText
<1>10. /\ keys \in Seq(Nat \X TreeTokens) /\ Len(keys) = m
       /\ \A i \in 1..m : keys[i] = <<i - 1, b[i]>>
  BY <1>3, <1>9 DEF IsKeys
<1>11. Joins(Nat \X TreeTokens, keys, q, z)
  BY <1>6, <1>7, <1>10, BothJoin
<1>12. /\ z \in Seq(Nat \X TreeTokens) /\ Len(z) = m + l
       /\ \A i \in 1..m : z[i] = keys[i]
       /\ \A s \in 1..l : z[m + s] = q[s]
  BY <1>6, <1>10, <1>11 DEF Joins
<1>13. AreAppended(tree, b, z)
  BY Zenon, <1>3, <1>4, <1>10, <1>12 DEF AreAppended
<1> QED BY <1>1, <1>2, <1>8, <1>13

\* A path, slot by slot, and its tokens.
IsPath(t, s, r) ==
    /\ r \in Seq(1..Len(t)) /\ Len(r) \in Nat \ {0} /\ r[Len(r)] = s
    /\ \A i \in 1..Len(r) : r[i] \in 1..Len(t) /\ t[r[i]].depth = i - 1
    /\ Reads(t, r, TokensIn(t, r)) /\ DOMAIN r = 1..Len(r)

LEMMA PathReads ==
    ASSUME IsTree(tree), NEW s \in 1..Len(tree)
    PROVE  IsPath(tree, s, PathIn(tree, s))
<1>0. PICK r : r = PathIn(tree, s)
  OBVIOUS
<1>1. PathOf(tree, s, r)
  BY <1>0, PathIs
<1>2. /\ r \in Seq(1..Len(tree)) /\ Len(r) = tree[s].depth + 1 /\ r[Len(r)] = s
      /\ \A i \in 1..Len(r) : tree[r[i]].depth = i - 1
  BY <1>1 DEF PathOf
<1>3. \A i \in 1..Len(r) : r[i] \in 1..Len(tree)
  BY Zenon, <1>2, ElementOfSeq
<1>4. tree[s].depth \in Nat
  <2>1. tree[s] \in TreeNodes
    BY ElementOfSeq DEF IsTree
  <2> QED BY <2>1 DEF TreeNodes
<1>5. Len(r) \in Nat \ {0} /\ DOMAIN r = 1..Len(r)
  BY <1>2, <1>4, LenProperties
<1>6. Reads(tree, r, TokensIn(tree, r))
  BY <1>2, TokensAre
<1> QED BY <1>0, <1>2, <1>3, <1>5, <1>6 DEF IsPath

\* The keys of a path behind those of the prefix are those of the text it makes.
ReadsText(b, z, r, x) ==
    /\ x \in Seq(TreeTokens) /\ Len(x) = Len(b) + Len(r)
    /\ \A i \in 1..Len(b) : z[i] = Trees!KeysOf(x)[i]
    /\ \A i \in 1..Len(r) : z[Len(b) + r[i]] = Trees!KeysOf(x)[Len(b) + i]
    /\ \A i \in 1..Len(r) : z[Len(b) + r[i]] \in Nat \X TreeTokens

LEMMA KeysOfPath ==
    ASSUME IsTree(tree), NEW b \in Seq(TreeTokens), NEW z, AreAppended(tree, b, z),
           NEW s \in 1..Len(tree), NEW r, IsPath(tree, s, r)
    PROVE  ReadsText(b, z, r, b \o TokensIn(tree, r))
<1>0. PICK x : x = b \o TokensIn(tree, r)
  BY Zenon
<1>1. PICK m \in Nat, a \in Nat, l \in Nat : m = Len(b) /\ a = Len(r) /\ l = Len(tree)
  BY Zenon, LenProperties DEF IsTree, IsPath
<1>2. \A i \in 1..a : r[i] \in 1..l /\ tree[r[i]].depth = i - 1
  BY <1>1 DEF IsPath
<1>3. PICK u : u = TokensIn(tree, r)
  OBVIOUS
<1>4. u \in Seq(TreeTokens) /\ Len(u) = a /\ \A i \in 1..a : u[i] = tree[r[i]].token
  <2>1. Reads(tree, r, u)
    BY <1>3 DEF IsPath
  <2> QED BY <1>1, <2>1 DEF Reads
<1>5. Joins(TreeTokens, b, u, x)
  BY <1>0, <1>3, <1>4, BothJoin
<1>6. /\ x \in Seq(TreeTokens) /\ Len(x) = m + a
      /\ \A i \in 1..m : x[i] = b[i]
      /\ \A i \in 1..a : x[m + i] = u[i]
  BY <1>1, <1>4, <1>5 DEF Joins
<1>7. PICK k : k = Trees!KeysOf(x)
  OBVIOUS
<1>8. IsKeys(x, k)
  BY <1>6, <1>7, KeysOfText
<1>9. \A i \in 1..(m + a) : k[i] = <<i - 1, x[i]>>
  BY Zenon, <1>6, <1>8 DEF IsKeys
<1>10. /\ z \in Seq(Nat \X TreeTokens) /\ Len(z) = m + l
       /\ \A i \in 1..m : z[i] = <<i - 1, b[i]>>
       /\ \A q \in 1..l : z[m + q] = <<m + tree[q].depth, tree[q].token>>
  BY Zenon, <1>1 DEF AreAppended
<1>11. ASSUME NEW i \in 1..m PROVE z[i] = k[i]
  <2>1. i \in 1..(m + a)
    OBVIOUS
  <2> QED BY Zenon, <1>6, <1>9, <1>10, <2>1
<1>12. ASSUME NEW i \in 1..a
       PROVE  z[m + r[i]] = k[m + i] /\ z[m + r[i]] \in Nat \X TreeTokens
  <2>1. r[i] \in 1..l /\ tree[r[i]].depth = i - 1 /\ tree[r[i]].token = u[i]
    BY <1>2, <1>4
  <2>2. z[m + r[i]] = <<m + (i - 1), u[i]>>
    BY Zenon, <1>10, <2>1
  <2>3. m + i \in 1..(m + a) /\ (m + i) - 1 = m + (i - 1)
    OBVIOUS
  <2>4. x[m + i] = u[i]
    BY <1>6
  <2>5. k[m + i] = <<m + (i - 1), u[i]>>
    BY <1>9, <2>3, <2>4
  <2>6. m + r[i] \in 1..(m + l)
    BY <2>1
  <2>7. z[m + r[i]] \in Nat \X TreeTokens
    BY Zenon, <1>10, <2>6, ElementOfSeq
  <2> QED BY <2>2, <2>5, <2>7
<1>13. ReadsText(b, z, r, x)
  BY <1>1, <1>6, <1>7, <1>11, <1>12 DEF ReadsText
<1> QED BY <1>0, <1>13

LEMMA SlotsRead ==
    ASSUME TreeInv, growth = "follow"
    PROVE  Trees!SlotsReadTheirPath
<1>1. /\ text \in Seq(TreeTokens) /\ Len(text) >= 2 /\ IsTree(tree)
      /\ CachesOf(Body(text), keys, state, conv)
  BY DEF TreeInv
<1>2. PICK b : b = Body(text)
  OBVIOUS
<1>3. keys = Trees!KeysOf(b) /\ state = b /\ EndOf(conv, b, TreeKernel - 1)
  BY <1>1, <1>2 DEF CachesOf
<1>4. PICK z : z = Trees!AppendedKeys
  OBVIOUS
<1>5. AreAppended(tree, b, z) /\ b \in Seq(TreeTokens)
  BY <1>1, <1>2, <1>3, <1>4, AppendedAre
<1>6. DOMAIN tree = 1..Len(tree) /\ Trees!Prefix_ = b /\ Len(b) \in Nat
  BY <1>1, <1>2, <1>5, LenProperties DEF IsTree, Trees!Prefix_, Body
<1>7. ASSUME NEW s \in 1..Len(tree)
      PROVE  LET alone == Trees!Prefix_ \o Trees!TokensOf(Trees!Path(s))
             IN  /\ Trees!AttendedBy(s) = Trees!Range(Trees!KeysOf(alone))
                 /\ Trees!RecurrentAt(s) = alone
                 /\ Trees!WindowOf(s) = Trees!LastN([i \in 1..TreeKernel |-> 0] \o alone, TreeKernel)
  <2>1. PICK r : r = PathIn(tree, s)
    OBVIOUS
  <2>2. PICK u : u = TokensIn(tree, r)
    OBVIOUS
  <2>3. PICK x : x = b \o u
    BY Zenon
  <2>4. Trees!Path(s) = r /\ Trees!TokensOf(Trees!Path(s)) = u
    BY <2>1, <2>2, TokensOfIs
  <2>0. IsPath(tree, s, r)
    BY <1>1, <2>1, PathReads
  <2>5. PICK m \in Nat, a \in Nat \ {0} : m = Len(b) /\ a = Len(r)
    BY Zenon, <1>6, <2>0 DEF IsPath
  <2>6. /\ x \in Seq(TreeTokens) /\ Len(x) = m + a
        /\ \A i \in 1..m : z[i] = Trees!KeysOf(x)[i]
        /\ \A i \in 1..a : z[m + r[i]] = Trees!KeysOf(x)[m + i]
    <3>1. ReadsText(b, z, r, x)
      BY <1>1, <1>5, <2>0, <2>2, <2>3, KeysOfPath
    <3> QED BY <2>5, <3>1 DEF ReadsText
  <2>7. Trees!AttendedBy(s) = Trees!Range(Trees!KeysOf(x))
    <3>1. DOMAIN r = 1..a
      BY <2>0, <2>5 DEF IsPath
    <3>2. Trees!AttendedBy(s) = {z[i] : i \in 1..m} \cup {z[m + r[i]] : i \in 1..a}
      <4>1. Trees!Range(Trees!Path(s)) = {r[i] : i \in 1..a}
        BY <2>4, <3>1 DEF Trees!Range
      <4> QED BY <1>4, <1>6, <2>5, <4>1 DEF Trees!AttendedBy
    <3>3. PICK k : k = Trees!KeysOf(x)
      OBVIOUS
    <3>4. DOMAIN k = 1..(m + a)
      BY <2>6, <3>3, KeysOfText
    <3>5. Trees!Range(k) = {k[i] : i \in 1..(m + a)}
      BY <3>4 DEF Trees!Range
    <3>6. /\ \A i \in 1..m : z[i] = k[i] /\ i \in 1..(m + a)
          /\ \A i \in 1..a : z[m + r[i]] = k[m + i] /\ m + i \in 1..(m + a)
      BY <2>6, <3>3
    <3>7. ASSUME NEW i \in 1..(m + a)
          PROVE  k[i] \in {z[q] : q \in 1..m} \cup {z[m + r[q]] : q \in 1..a}
      <4>1. CASE i \in 1..m
        BY <3>6, <4>1
      <4>2. CASE i \notin 1..m
        <5>1. i - m \in 1..a /\ m + (i - m) = i
          BY <4>2
        <5>2. z[m + r[i - m]] = k[i]
          BY <3>6, <5>1
        <5> QED BY <5>1, <5>2
      <4> QED BY <4>1, <4>2
    <3>8. {k[i] : i \in 1..(m + a)} \subseteq {z[i] : i \in 1..m} \cup {z[m + r[i]] : i \in 1..a}
      BY Zenon, <3>7
    <3>9. \A i \in 1..m : z[i] \in {k[q] : q \in 1..(m + a)}
      BY Zenon, <3>6
    <3>10. \A i \in 1..a : z[m + r[i]] \in {k[q] : q \in 1..(m + a)}
      BY Zenon, <3>6
    <3>11. {z[i] : i \in 1..m} \cup {z[m + r[i]] : i \in 1..a} \subseteq {k[i] : i \in 1..(m + a)}
      BY Zenon, <3>9, <3>10
    <3> QED BY Zenon, <3>2, <3>3, <3>5, <3>8, <3>11
  <2>8. Trees!RecurrentAt(s) = x
    BY <1>3, <2>3, <2>4 DEF Trees!RecurrentAt
  <2>9. b \in Seq(Tokens0) /\ u \in Seq(Tokens0) /\ x \in Seq(Tokens0) /\ Len(u) = a
    <3>1. Reads(tree, r, u)
      BY <2>0, <2>2 DEF IsPath
    <3>2. u \in Seq(TreeTokens) /\ Len(u) = a
      BY <2>5, <3>1 DEF Reads
    <3>3. TreeTokens \subseteq Tokens0
      BY DEF Tokens0
    <3> QED BY <1>5, <2>6, <3>2, <3>3, SeqMonotonic
  <2>10. PICK n \in Nat \ {0} : n = TreeKernel
    BY TreeConstants
  <2>11. PICK k : k = Trees!Min({n, a})
    OBVIOUS
  <2>12. k \in Nat \ {0} /\ k <= n /\ k <= a /\ (k = n \/ k = a)
    <3>1. \E y \in {n, a} : \A q \in {n, a} : y <= q
      OBVIOUS
    <3> QED BY Zenon, <2>11, <3>1 DEF Trees!Min
  <2>13. PICK y : y = Trees!LastN(r, k)
    OBVIOUS
  <2>14. r \in Seq(1..Len(tree)) /\ \A i \in 1..a : r[i] \in 1..Len(tree)
    BY <2>0, <2>5 DEF IsPath
  <2>15. EndsIn(1..Len(tree), r, k, y)
    BY <2>5, <2>12, <2>13, <2>14, LastAre
  <2>16. y \in Seq(1..Len(tree)) /\ Len(y) = k /\ \A i \in 1..k : y[i] = r[a - k + i]
    BY <2>5, <2>15 DEF EndsIn
  <2>17. PICK v : v = TokensIn(tree, y)
    OBVIOUS
  <2>18. Reads(tree, y, v) /\ Reads(tree, r, u)
    BY <1>1, <2>1, <2>2, <2>14, <2>16, <2>17, TokensAre
  <2>19. EndsIn(Tokens0, u, k, v)
    <3>1. v \in Seq(TreeTokens) /\ Len(v) = k /\ \A i \in 1..k : v[i] = tree[y[i]].token
      BY <2>16, <2>18 DEF Reads
    <3>2. \A i \in 1..a : u[i] = tree[r[i]].token
      BY Zenon, <2>5, <2>18 DEF Reads
    <3>3. \A i \in 1..k : a - k + i \in 1..a
      BY <2>12
    <3>4. \A i \in 1..k : v[i] = u[a - k + i]
      BY Zenon, <2>16, <3>1, <3>2, <3>3
    <3>5. TreeTokens \subseteq Tokens0
      BY DEF Tokens0
    <3>6. v \in Seq(Tokens0)
      BY <3>1, <3>5, SeqMonotonic
    <3> QED BY <2>9, <3>1, <3>4, <3>6 DEF EndsIn
  <2>20. Trees!WindowOf(s) = Trees!LastN(conv, n - k) \o v
    <3>1. Len(Trees!Path(s)) = a
      BY <2>4, <2>5
    <3>2. Trees!LastN(Trees!Path(s), Trees!Min({TreeKernel, Len(Trees!Path(s))})) = y
      BY <2>4, <2>10, <2>11, <2>13, <3>1
    <3>3. Trees!TokensOf(y) = v
      BY <2>17, TokensOfIs
    <3> QED BY Zenon, <2>10, <2>16, <3>2, <3>3 DEF Trees!WindowOf
  <2>21. EndOf(Trees!LastN(conv, n - k) \o v, b \o u, n)
    BY <1>3, <2>9, <2>10, <2>12, <2>19, WindowIs
  <2>22. EndOf(Trees!LastN([i \in 1..n |-> 0] \o x, n), x, n)
    BY <2>9, <2>10, EndOfZeros
  <2>23. Trees!WindowOf(s) = Trees!LastN([i \in 1..n |-> 0] \o x, n)
    BY Zenon, <2>3, <2>10, <2>20, <2>21, <2>22, EndIsOne
  <2>24. Trees!Prefix_ \o Trees!TokensOf(Trees!Path(s)) = x
    BY <1>6, <2>3, <2>4
  <2> QED BY <2>7, <2>8, <2>10, <2>23, <2>24
<1> QED BY Zenon, <1>6, <1>7 DEF Trees!SlotsReadTheirPath

\* The caches brought to the accepted path are those of the text it makes.
LEMMA RestoreHolds ==
    ASSUME TreeInv, growth = "follow", NEW s \in 1..Len(tree), accepted = PathIn(tree, s),
           NEW x, x = Body(text) \o TokensIn(tree, accepted)
    PROVE  /\ x \in Seq(TreeTokens) /\ Len(x) \in Nat /\ Len(x) >= 1
           /\ CachesOf(x, Trees!KeptKeys, Trees!KeptState, Trees!KeptConv)
           /\ Trees!Replayed = x
<1>1. /\ text \in Seq(TreeTokens) /\ Len(text) >= 2 /\ IsTree(tree)
      /\ CachesOf(Body(text), keys, state, conv)
  BY DEF TreeInv
<1>2. PICK b : b = Body(text)
  OBVIOUS
<1>3. keys = Trees!KeysOf(b) /\ state = b /\ EndOf(conv, b, TreeKernel - 1)
  BY <1>1, <1>2 DEF CachesOf
<1>4. PICK z : z = Trees!AppendedKeys
  OBVIOUS
<1>5. AreAppended(tree, b, z) /\ b \in Seq(TreeTokens)
  BY <1>1, <1>2, <1>3, <1>4, AppendedAre
<1>6. Trees!Prefix_ = b /\ Len(b) \in Nat
  BY <1>2, <1>5, LenProperties DEF Trees!Prefix_, Body
<1>7. PICK r : r = accepted
  OBVIOUS
<1>8. IsPath(tree, s, r)
  BY <1>1, <1>7, PathReads
<1>9. PICK u : u = TokensIn(tree, r)
  OBVIOUS
<1>10. ReadsText(b, z, r, x)
  BY <1>1, <1>2, <1>5, <1>7, <1>8, KeysOfPath
<1>11. PICK m \in Nat, a \in Nat \ {0} : m = Len(b) /\ a = Len(r)
  BY Zenon, <1>6, <1>8 DEF IsPath
<1>12. /\ x \in Seq(TreeTokens) /\ Len(x) = m + a
       /\ \A i \in 1..m : z[i] = Trees!KeysOf(x)[i]
       /\ \A i \in 1..a : z[m + r[i]] = Trees!KeysOf(x)[m + i]
       /\ \A i \in 1..a : z[m + r[i]] \in Nat \X TreeTokens
  BY <1>10, <1>11 DEF ReadsText
<1>13. Trees!Path(Trees!Last(accepted)) = r
  <2>1. Trees!Last(accepted) = s
    BY <1>7, <1>8 DEF IsPath, Trees!Last
  <2> QED BY <1>7, <2>1, TokensOfIs
<1>14. Trees!KeptState = x /\ Trees!Replayed = x
  BY Zenon, <1>2, <1>3, <1>7, <1>13, TokensOfIs DEF Trees!KeptState, Trees!RecurrentAt, Trees!Replayed
<1>15. EndOf(Trees!KeptConv, x, TreeKernel - 1)
  <2>1. Reads(tree, r, u)
    BY <1>8, <1>9 DEF IsPath
  <2>2. u \in Seq(TreeTokens)
    BY <2>1 DEF Reads
  <2>3. TreeTokens \subseteq Tokens0
    BY DEF Tokens0
  <2>4. b \in Seq(Tokens0) /\ u \in Seq(Tokens0)
    BY <1>5, <2>2, <2>3, SeqMonotonic
  <2>5. PICK n \in Nat : n = TreeKernel - 1
    BY TreeConstants
  <2>6. EndOf(Trees!LastN(conv \o u, n), b \o u, n)
    BY <1>3, <2>4, <2>5, EndMoves
  <2>7. Trees!KeptConv = Trees!LastN(conv \o u, n)
    BY <1>7, <1>9, <2>5, TokensOfIs DEF Trees!KeptConv, Trees!Keep
  <2> QED BY <1>2, <1>7, <1>9, <2>5, <2>6, <2>7
<1>16. Trees!KeptKeys = Trees!KeysOf(x)
  <2>1. PICK h : h = SubSeq(z, 1, m)
    BY Zenon
  <2>2. PICK g : g = [i \in 1..a |-> z[m + r[i]]]
    BY Zenon
  <2>3. Trees!KeptKeys = h \o g
    <3>1. DOMAIN r = 1..a
      BY <1>8, <1>11 DEF IsPath
    <3> QED BY <1>4, <1>6, <1>7, <1>11, <2>1, <2>2, <3>1 DEF Trees!KeptKeys
  <2>4. /\ h \in Seq(Nat \X TreeTokens) /\ Len(h) = m
        /\ \A i \in 1..m : h[i] = z[i]
    <3>1. z \in Seq(Nat \X TreeTokens) /\ Len(z) = m + Len(tree) /\ Len(tree) \in Nat
      BY <1>1, <1>5, <1>11, LenProperties DEF AreAppended, IsTree
    <3>2. \A i \in 1..m : z[i] \in Nat \X TreeTokens
      <4>1. \A i \in 1..m : i \in 1..Len(z)
        BY <3>1
      <4> QED BY <3>1, <4>1, ElementOfSeq
    <3>3. /\ SubSeq(z, 1, m) \in Seq(Nat \X TreeTokens)
          /\ Len(SubSeq(z, 1, m)) = IF 1 <= m THEN m - 1 + 1 ELSE 0
          /\ \A i \in 1..(m - 1 + 1) : SubSeq(z, 1, m)[i] = z[1 + i - 1]
      BY <3>2, SubSeqProperties
    <3>4. \A i \in 1..m : i \in 1..(m - 1 + 1) /\ 1 + i - 1 = i
      OBVIOUS
    <3>5. \A i \in 1..m : h[i] = z[i]
      BY <2>1, <3>3, <3>4
    <3>6. Len(h) = m
      BY <2>1, <3>3
    <3> QED BY <2>1, <3>3, <3>5, <3>6
  <2>5. g \in Seq(Nat \X TreeTokens) /\ Len(g) = a
    <3>1. g \in [1..a -> Nat \X TreeTokens]
      BY <1>12, <2>2
    <3>2. g \in Seq(Nat \X TreeTokens)
      BY <3>1, SeqDef
    <3> QED BY <2>2, <3>2, LenProperties
  <2>6. PICK y : y = h \o g
    BY Zenon
  <2>7. Joins(Nat \X TreeTokens, h, g, y)
    BY <2>4, <2>5, <2>6, BothJoin
  <2>8. /\ y \in Seq(Nat \X TreeTokens) /\ Len(y) = m + a
        /\ \A i \in 1..m : y[i] = h[i]
        /\ \A i \in 1..a : y[m + i] = g[i]
    BY <2>4, <2>5, <2>7 DEF Joins
  <2>9. PICK k : k = Trees!KeysOf(x)
    OBVIOUS
  <2>10. k \in Seq(Nat \X TreeTokens) /\ Len(k) = m + a
    <3>1. IsKeys(x, k)
      BY Zenon, <1>12, <2>9, KeysOfText
    <3> QED BY <1>12, <3>1 DEF IsKeys
  <2>11. ASSUME NEW i \in 1..(m + a) PROVE y[i] = k[i]
    <3>1. CASE i \in 1..m
      BY Zenon, <1>12, <2>4, <2>8, <2>9, <3>1
    <3>2. CASE i \notin 1..m
      <4>1. i - m \in 1..a /\ m + (i - m) = i
        BY <3>2
      <4>2. y[m + (i - m)] = g[i - m]
        BY Zenon, <2>8, <4>1
      <4>3. g[i - m] = z[m + r[i - m]]
        BY <2>2, <4>1
      <4>4. z[m + r[i - m]] = k[m + (i - m)]
        BY <1>12, <2>9, <4>1
      <4> QED BY <4>1, <4>2, <4>3, <4>4
    <3> QED BY <3>1, <3>2
  <2>12. y = k
    BY Zenon, <2>8, <2>10, <2>11, SeqEqual
  <2> QED BY <2>3, <2>6, <2>9, <2>12
<1> QED BY <1>11, <1>12, <1>14, <1>15, <1>16 DEF CachesOf

\* A text with one more token behind it, and what it is without that.
LEMMA BodyIs ==
    ASSUME NEW x \in Seq(TreeTokens), NEW w \in TreeTokens, Len(x) >= 1
    PROVE  x \o <<w>> \in Seq(TreeTokens) /\ Len(x \o <<w>>) >= 2 /\ Body(x \o <<w>>) = x
<1>1. PICK n \in Nat : n = Len(x) /\ n >= 1
  BY LenProperties
<1>2. PICK y : y = x \o <<w>>
  BY Zenon
<1>3. <<w>> \in Seq(TreeTokens) /\ Len(<<w>>) = 1
  OBVIOUS
<1>4. Joins(TreeTokens, x, <<w>>, y)
  BY Zenon, <1>2, <1>3, BothJoin
<1>5. y \in Seq(TreeTokens) /\ Len(y) = n + 1 /\ \A i \in 1..n : y[i] = x[i]
  BY <1>1, <1>3, <1>4 DEF Joins
<1>6. \A i \in 1..n : y[i] \in TreeTokens
  BY <1>1, <1>5, ElementOfSeq
<1>7. /\ SubSeq(y, 1, n) \in Seq(TreeTokens)
      /\ Len(SubSeq(y, 1, n)) = IF 1 <= n THEN n - 1 + 1 ELSE 0
      /\ \A i \in 1..(n - 1 + 1) : SubSeq(y, 1, n)[i] = y[1 + i - 1]
  BY <1>6, SubSeqProperties
<1>8. \A i \in 1..n : i \in 1..(n - 1 + 1) /\ 1 + i - 1 = i
  OBVIOUS
<1>9. \A i \in 1..n : SubSeq(y, 1, n)[i] = x[i]
  BY <1>5, <1>7, <1>8
<1>10. Len(SubSeq(y, 1, n)) = n
  BY <1>1, <1>7
<1>11. SubSeq(y, 1, n) = x
  BY <1>1, <1>7, <1>9, <1>10, SeqEqual
<1>12. Body(y) = x
  BY <1>5, <1>11 DEF Body
<1> QED BY <1>1, <1>2, <1>5, <1>12

LEMMA TreeFollowHolds ==
    ASSUME TreeInv, Trees!Follow
    PROVE  TreeInv'
<1>1. /\ growth = "follow" /\ heap' = heap /\ heap = {}
      /\ text \in Seq(TreeTokens) /\ Len(text) >= 2 /\ IsTree(tree) /\ IsRows(ranked)
      /\ CachesOf(Body(text), keys, state, conv) /\ budget \in Nat
  BY DEF TreeInv, Trees!Follow
<1>2. PICK s \in 1..Len(tree) : accepted = PathIn(tree, s)
  BY <1>1 DEF TreeInv
<1>3. IsPath(tree, s, accepted)
  BY <1>1, <1>2, PathReads
<1>4. Trees!Last(accepted) = s
  BY <1>3 DEF IsPath, Trees!Last
<1>5. PICK w \in TreeTokens :
        IF Trees!ChildOf(s, w) # {}
        THEN /\ \E q \in Trees!ChildOf(s, w) : accepted' = Append(accepted, q)
             /\ UNCHANGED <<text, growth, ranked, budget, seeded, tree, heap, keys, state, conv>>
        ELSE /\ Trees!Restore
             /\ text' = Trees!Prefix_ \o Trees!TokensOf(accepted) \o <<w>>
             /\ growth' = "draft"
  BY Zenon, <1>1, <1>4 DEF Trees!Follow
<1>6. CASE Trees!ChildOf(s, w) # {}
  <2>1. PICK q \in Trees!ChildOf(s, w) : accepted' = Append(accepted, q)
    BY <1>5, <1>6
  <2>2. UNCHANGED <<text, growth, ranked, budget, seeded, tree, heap, keys, state, conv>>
    BY <1>5, <1>6
  <2>3. q \in 1..Len(tree) /\ tree[q].parent = s
    BY <1>1, <2>1, LenProperties DEF Trees!ChildOf, IsTree
  <2>4. s # 0
    BY <1>1, <1>2, LenProperties DEF IsTree
  <2>5. PathIn(tree, q) = Append(accepted, q)
    BY Zenon, <1>1, <1>2, <2>3, <2>4, PathGrows
  <2>6. accepted' = PathIn(tree', q) /\ q \in 1..Len(tree')
    BY <2>1, <2>2, <2>3, <2>5
  <2>7. CachesOf(Body(text'), keys', state', conv')
    BY <1>1, <2>2
  <2> QED BY <1>1, <2>2, <2>6, <2>7 DEF TreeInv
<1>7. CASE ~(Trees!ChildOf(s, w) # {})
  <2>1. /\ keys' = Trees!KeptKeys /\ state' \in {Trees!KeptState, Trees!Replayed}
        /\ conv' = Trees!KeptConv /\ growth' = "draft"
        /\ text' = Trees!Prefix_ \o Trees!TokensOf(accepted) \o <<w>>
    BY <1>5, <1>7 DEF Trees!Restore
  <2>2. PICK x : x = Body(text) \o TokensIn(tree, accepted)
    BY Zenon
  <2>3. text' = x \o <<w>>
    BY Zenon, <2>1, <2>2, TokensOfIs DEF Trees!Prefix_, Body
  <2>4. /\ x \in Seq(TreeTokens) /\ Len(x) >= 1
        /\ CachesOf(x, Trees!KeptKeys, Trees!KeptState, Trees!KeptConv)
        /\ Trees!Replayed = x
    BY Zenon, <1>1, <1>2, <2>2, RestoreHolds
  <2>5. CachesOf(x, keys', state', conv')
    BY <2>1, <2>4 DEF CachesOf
  <2>6. text' \in Seq(TreeTokens) /\ Len(text') >= 2 /\ Body(text') = x
    BY <2>3, <2>4, BodyIs
  <2>7. CachesOf(Body(text'), keys', state', conv')
    BY <2>5, <2>6
  <2> QED BY <1>1, <2>1, <2>6, <2>7 DEF TreeInv
<1> QED BY <1>6, <1>7

LEMMA TreeBegins ==
    ASSUME Trees!Init
    PROVE  TreeInv
<1>1. PICK y \in TreeTokens, w \in TreeTokens : text = <<y, w>>
  BY DEF Trees!Init
<1>2. /\ <<y>> \in Seq(TreeTokens) /\ Len(<<y>>) = 1 /\ Len(<<y>>) >= 1
      /\ text = <<y>> \o <<w>> /\ text[1] = y
  <2>1. PICK a, c : a = <<y>> /\ c = <<w>>
    BY Zenon
  <2>2. /\ a \in Seq(TreeTokens) /\ Len(a) = 1 /\ a[1] = y
        /\ c \in Seq(TreeTokens) /\ Len(c) = 1 /\ c[1] = w
    BY <2>1
  <2>3. /\ text \in Seq(TreeTokens) /\ Len(text) = 2 /\ text[1] = y /\ text[2] = w
    BY <1>1
  <2>4. PICK x : x = a \o c
    BY Zenon
  <2>5. Joins(TreeTokens, a, c, x)
    BY <2>2, <2>4, BothJoin
  <2>6. x \in Seq(TreeTokens) /\ Len(x) = 2 /\ x[1] = y /\ x[1 + 1] = w
    BY <2>2, <2>5 DEF Joins
  <2>7. text = x
    BY <2>3, <2>6, SeqEqual
  <2> QED BY <2>1, <2>2, <2>3, <2>4, <2>7
<1>3. text \in Seq(TreeTokens) /\ Len(text) >= 2 /\ Body(text) = <<y>>
  BY Zenon, <1>2, BodyIs
<1>4. keys = <<<<0, y>>>> /\ state = <<y>> /\ conv = Trees!Padded(<<y>>)
  BY <1>2 DEF Trees!Init
<1>5. keys = Trees!KeysOf(<<y>>)
  BY <1>4 DEF Trees!KeysOf
<1>6. EndOf(conv, <<y>>, TreeKernel - 1)
  <2>1. <<y>> \in Seq(Tokens0)
    BY DEF Tokens0
  <2>2. PICK n \in Nat : n = TreeKernel - 1
    BY TreeConstants
  <2>3. EndOf(Trees!LastN([i \in 1..n |-> 0] \o <<y>>, n), <<y>>, n)
    BY Zenon, <2>1, EndOfZeros
  <2> QED BY <1>4, <2>2, <2>3 DEF Trees!Padded, Trees!Keep
<1>7. CachesOf(Body(text), keys, state, conv)
  BY <1>3, <1>4, <1>5, <1>6 DEF CachesOf
<1>8. growth = "draft" /\ heap = {}
  BY DEF Trees!Init
<1> QED BY <1>3, <1>7, <1>8 DEF TreeInv

LEMMA TreeMoves ==
    ASSUME TreeInv, Trees!Next
    PROVE  TreeInv'
BY Zenon, TreeDraftHolds, TreeSeedHolds, TreeGrowHolds, TreeVerifyHolds, TreeFollowHolds DEF Trees!Next

LEMMA TreeStays ==
    ASSUME TreeInv, UNCHANGED treeVars
    PROVE  TreeInv'
<1>1. /\ text' = text /\ growth' = growth /\ ranked' = ranked /\ budget' = budget /\ tree' = tree
      /\ heap' = heap /\ accepted' = accepted /\ keys' = keys /\ state' = state /\ conv' = conv
  BY DEF treeVars
<1> QED BY <1>1 DEF TreeInv

LEMMA TreeIsRead == TreeInv => Trees!TreeInvariant
<1> SUFFICES ASSUME TreeInv PROVE Trees!TreeInvariant
  OBVIOUS
<1>1. Trees!SlotsReadTheirPath
  <2>1. CASE growth = "follow"
    BY <2>1, SlotsRead
  <2>2. CASE growth # "follow"
    BY <2>2 DEF Trees!SlotsReadTheirPath
  <2> QED BY <2>1, <2>2
<1>3. PICK b : b = Body(text)
  OBVIOUS
<1>4. /\ text \in Seq(TreeTokens) /\ Len(text) >= 2
      /\ keys = Trees!KeysOf(b) /\ state = b /\ EndOf(conv, b, TreeKernel - 1)
  BY <1>3 DEF TreeInv, CachesOf
<1>5. b \in Seq(Tokens0)
  <2>1. PICK n \in Nat : n = Len(text) /\ n >= 2
    BY <1>4, LenProperties
  <2>2. \A i \in 1..(n - 1) : text[i] \in Tokens0
    BY <1>4, <2>1, ElementOfSeq DEF Tokens0
  <2>3. SubSeq(text, 1, n - 1) \in Seq(Tokens0)
    BY <2>1, <2>2, SubSeqProperties
  <2> QED BY <1>3, <2>1, <2>3 DEF Body
<1>6. PICK n \in Nat : n = TreeKernel - 1
  BY TreeConstants
<1>7. EndOf(Trees!LastN([i \in 1..n |-> 0] \o b, n), b, n)
  BY <1>5, EndOfZeros
<1>8. conv = Trees!LastN([i \in 1..n |-> 0] \o b, n)
  BY <1>4, <1>6, <1>7, EndIsOne
<1>9. conv = Trees!Padded(b)
  BY <1>6, <1>8 DEF Trees!Padded, Trees!Keep
<1>10. Trees!CachesFollowTheText
  BY <1>3, <1>4, <1>9 DEF Trees!CachesFollowTheText, Trees!Prefix_, Body
<1> QED BY <1>1, <1>10 DEF Trees!TreeInvariant

\* A tree verified in one pass, for any tokens, rows, budgets and width of the convolution:
\* each slot reads in attention, recurrence and convolution what it would have read had
\* its path been decoded alone; what the caches keep afterwards is the accepted path.
THEOREM TreeReadsAsSequencesAlways == OfflineSpec => []TreeReadsAsSequences
<1> DEFINE Guarded == scene = "tree" => TreeInv
<1>1. OfflineInit => Guarded
  BY TreeBegins DEF OfflineInit
<1>2. Guarded /\ [OfflineNext]_<<scene, vars, stageBVars, draftVars, treeVars, replayVars,
                                 trainerVars, campaignVars, ladderVars>> => Guarded'
  <2> SUFFICES ASSUME Guarded, scene' = "tree",
                      [OfflineNext]_<<scene, vars, stageBVars, draftVars, treeVars, replayVars,
                                      trainerVars, campaignVars, ladderVars>>
               PROVE  TreeInv'
    OBVIOUS
  <2>1. scene = "tree" /\ (Trees!Next \/ UNCHANGED treeVars)
    BY Zenon DEF OfflineNext
  <2> QED BY <2>1, TreeMoves, TreeStays
<1>3. Guarded => TreeReadsAsSequences
  BY TreeIsRead DEF TreeReadsAsSequences
<1> QED BY <1>1, <1>2, <1>3, PTL DEF OfflineSpec
==============================================================================
