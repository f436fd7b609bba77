-------------------------- MODULE CalibrationProofs ---------------------------
(***************************************************************************)
(* The artifact directory is right after any number of crashes and re-runs,*)
(* for any number of layers and any arguments: the inductive invariant and *)
(* what follows from it.  It says of a manifest, on disk or in memory, that*)
(* it lists the first k layers, each a whole file solved on the activations*)
(* that the files before it give to a run that names the layers as its own *)
(* did.  And the output directory of the draft's trainer, which is killed  *)
(* and gone on with in the same way, on constants and variables of its own.*)
(***************************************************************************)
EXTENDS Calibration, SequenceTheorems, TLAPS

\* What the first n layer files hold, and what a run with settings s makes of it.
Held(f, n) == [k \in 1..n |-> f[k - 1].holds]
Weights(f, n, s) == [k \in 1..n |-> Applied(f[k - 1].holds, s)]

\* Layer l's weights c, solved over the files f by a run that h accepts.
SolvedOver(c, l, w, f, h) ==
    \E s \in Settings : /\ Checked[s] = Checked[h]
                        /\ c = Solved(Activations(w, Weights(f, l, s)), s)

\* Manifest m accounts for the files f of the first layers, over windows w.
Accounts(m, w, f) ==
    /\ \E C : m \in [header : Settings, sha : {w}, done : SUBSET Layers,
                     tensors : [Layers -> C]]
    /\ \E k \in 0..NumLayers : m.done = 0..(k - 1)
    /\ \A l \in m.done : /\ f[l] = File(m.tensors[l])
                         /\ SolvedOver(m.tensors[l], l, w, f, m.header)

AtLayer == pc \in {"layer", "save", "saving", "list"}

DiskInv ==
    /\ tokens = NoFile \/ tokens = Torn \/ \E w \in Windows : tokens = File(w)
    /\ files = [l \in Layers |-> files[l]]
    /\ \/ manifest = NoFile
       \/ /\ manifest = File(manifest.holds)
          /\ Whole(tokens)
          /\ Accounts(manifest.holds, tokens.holds, files)

RunInv ==
    /\ settings \in Settings
    /\ layer \in 0..NumLayers
    /\ pc = "open" => Whole(tokens)
    /\ pc = "writing tokens" => tokens = Torn
    /\ AtLayer => /\ Whole(tokens)
                  /\ Accounts(held, tokens.holds, files)
                  /\ IF Whole(manifest) THEN held = manifest.holds ELSE held.done = {}
                  /\ Checked[settings] = Checked[held.header]
                  /\ \A j \in 0..(layer - 1) : j \in held.done

LayerInv ==
    /\ pc = "layer" => act = Activations(tokens.holds, Weights(files, layer, settings))
    /\ AtLayer /\ pc # "layer" =>
          /\ layer \in Layers \ held.done
          /\ result = Solved(Activations(tokens.holds, Weights(files, layer, settings)), settings)
          /\ act = Through(Activations(tokens.holds, Weights(files, layer, settings)), result)
    /\ pc = "list" => files[layer] = File(result)

IInv == DiskInv /\ RunInv /\ LayerInv

\* A file that is not whole is never equal to one that is.
LEMMA FileStates ==
    /\ \A x : Whole(File(x)) /\ File(x).holds = x /\ File(x) # NoFile /\ File(x) # Torn
    /\ ~ Whole(NoFile) /\ ~ Whole(Torn)
  BY DEF Whole, File, NoFile, Torn

\* Only the files before a layer count for its activations.
LEMMA WeightsKept ==
    ASSUME NEW f, NEW g, NEW n \in Nat, \A j \in 0..(n - 1) : g[j] = f[j]
    PROVE  /\ Held(g, n) = Held(f, n)
           /\ \A s : Weights(g, n, s) = Weights(f, n, s)
  BY DEF Weights, Held

\* A sequence of n values and the next one.
LEMMA OneMore ==
    ASSUME NEW n \in Nat, NEW v, NEW t, t = [k \in 1..n |-> v[k - 1]]
    PROVE  Append(t, v[n]) = [k \in 1..(n + 1) |-> v[k - 1]]
<1> DEFINE S == {v[k] : k \in 0..n}
<1>1. t \in Seq(S)
  OBVIOUS
<1>2. v[n] \in S
  OBVIOUS
<1>3. Len(t) = n
  OBVIOUS
<1> HIDE DEF S
<1>4. /\ Append(t, v[n]) \in Seq(S)
      /\ Len(Append(t, v[n])) = n + 1
      /\ \A i \in 1..n : Append(t, v[n])[i] = t[i]
      /\ Append(t, v[n])[n + 1] = v[n]
  BY <1>1, <1>2, <1>3, AppendProperties
<1>5. \A i \in 1..(n + 1) : Append(t, v[n])[i] = v[i - 1]
  BY <1>4
<1> QED
  BY <1>4, <1>5

\* The activations go through one layer more.
LEMMA WeightsAppend ==
    ASSUME NEW f, NEW n \in Nat, NEW s
    PROVE  Append(Weights(f, n, s), Applied(f[n].holds, s)) = Weights(f, n + 1, s)
<1> DEFINE v == [k \in Nat |-> Applied(f[k].holds, s)]
<1>1. Weights(f, n, s) = [k \in 1..n |-> v[k - 1]]
  BY DEF Weights
<1>2. Weights(f, n + 1, s) = [k \in 1..(n + 1) |-> v[k - 1]]
  BY DEF Weights
<1>3. v[n] = Applied(f[n].holds, s)
  OBVIOUS
<1> HIDE DEF v
<1> QED
  BY <1>1, <1>2, <1>3, OneMore

LEMMA HeldAppend ==
    ASSUME NEW f, NEW n \in Nat
    PROVE  Append(Held(f, n), f[n].holds) = Held(f, n + 1)
<1> DEFINE v == [k \in Nat |-> f[k].holds]
<1>1. Held(f, n) = [k \in 1..n |-> v[k - 1]]
  BY DEF Held
<1>2. Held(f, n + 1) = [k \in 1..(n + 1) |-> v[k - 1]]
  BY DEF Held
<1>3. v[n] = f[n].holds
  OBVIOUS
<1> HIDE DEF v
<1> QED
  BY <1>1, <1>2, <1>3, OneMore

\* A manifest keeps accounting for its layers when other files change.
LEMMA AccountsKept ==
    ASSUME NEW m, NEW w, NEW f, NEW g, Accounts(m, w, f),
           \A l \in m.done : g[l] = f[l]
    PROVE  Accounts(m, w, g)
<1>1. PICK k \in 0..NumLayers : m.done = 0..(k - 1)
  BY DEF Accounts
<1>2. ASSUME NEW l \in m.done PROVE \A s : Weights(g, l, s) = Weights(f, l, s)
  <2>1. l \in Nat /\ \A j \in 0..(l - 1) : g[j] = f[j]
    BY <1>1, CalibrationAssumption
  <2> QED
    BY <2>1, WeightsKept
<1>3. \A l \in m.done : /\ g[l] = File(m.tensors[l])
                         /\ SolvedOver(m.tensors[l], l, w, g, m.header)
  <2> TAKE l \in m.done
  <2>1. f[l] = File(m.tensors[l]) /\ SolvedOver(m.tensors[l], l, w, f, m.header)
    BY DEF Accounts
  <2>2. \A s : Weights(g, l, s) = Weights(f, l, s)
    BY <1>2
  <2> QED
    BY <2>1, <2>2 DEF SolvedOver
<1> QED
  BY <1>3 DEF Accounts

\* ... and for one layer more when that layer's file is there.
LEMMA AccountsNext ==
    ASSUME NEW m, NEW w, NEW f, NEW l \in Layers, Accounts(m, w, f),
           l \notin m.done, \A j \in 0..(l - 1) : j \in m.done,
           NEW c, f[l] = File(c), SolvedOver(c, l, w, f, m.header)
    PROVE  Accounts([m EXCEPT !.done = @ \cup {l}, !.tensors[l] = c], w, f)
<1> DEFINE n == [m EXCEPT !.done = @ \cup {l}, !.tensors[l] = c]
<1>1. /\ n.header = m.header /\ n.done = m.done \cup {l}
      /\ n.tensors = [m.tensors EXCEPT ![l] = c]
      /\ \E C : n \in [header : Settings, sha : {w}, done : SUBSET Layers,
                       tensors : [Layers -> C]]
  <2>1. PICK C : m \in [header : Settings, sha : {w}, done : SUBSET Layers,
                        tensors : [Layers -> C]]
    BY DEF Accounts
  <2>2. /\ m \in [header : Settings, sha : {w}, done : SUBSET Layers,
                  tensors : [Layers -> C \cup {c}]]
        /\ l \in Layers /\ c \in C \cup {c}
    BY <2>1
  <2>3. /\ n.header = m.header /\ n.done = m.done \cup {l}
        /\ n.tensors = [m.tensors EXCEPT ![l] = c]
    BY <2>2
  <2>4. n \in [header : Settings, sha : {w}, done : SUBSET Layers,
               tensors : [Layers -> C \cup {c}]]
    BY <2>2
  <2> QED
    BY <2>3, <2>4
<1>2. n.done = 0..((l + 1) - 1) /\ l + 1 \in 0..NumLayers
  <2>1. PICK k \in 0..NumLayers : m.done = 0..(k - 1)
    BY DEF Accounts
  <2>2. l = k
    BY <2>1, CalibrationAssumption DEF Layers
  <2> QED
    BY <1>1, <2>1, <2>2, CalibrationAssumption DEF Layers
<1>3. \A i \in Layers : n.tensors[i] = IF i = l THEN c ELSE m.tensors[i]
  BY <1>1 DEF Accounts
<1>4. ASSUME NEW i \in n.done
      PROVE  f[i] = File(n.tensors[i]) /\ SolvedOver(n.tensors[i], i, w, f, n.header)
  <2>0. i \in Layers
    BY <1>2, CalibrationAssumption DEF Layers
  <2>1. CASE i = l
    BY <1>1, <1>3, <2>0, <2>1
  <2>2. CASE i # l
    BY <1>1, <1>3, <2>0, <2>2 DEF Accounts
  <2> QED
    BY <2>1, <2>2
<1> HIDE DEF n
<1>8. Accounts(n, w, f)
  BY <1>1, <1>2, <1>4 DEF Accounts
<1> QED
  BY <1>8 DEF n

\* Activations through one more layer.
LEMMA ThroughIs ==
    ASSUME NEW w, NEW t, NEW c
    PROVE  Through(Activations(w, t), c) = Activations(w, Append(t, c))
<1> DEFINE a == Through(Activations(w, t), c)
<1>1. a.tokens = w /\ a.through = Append(t, c)
  BY DEF Through, Activations
<1>2. a \in [tokens : {w}, through : {Append(t, c)}]
  BY DEF Through, Activations
<1> HIDE DEF a
<1>3. a = [tokens |-> w, through |-> Append(t, c)]
  BY <1>2
<1> QED
  BY <1>3 DEF a, Activations

\* Nothing of the invariant is about a process that is not there.
LEMMA EndsKeeps ==
    IInv /\ Ends => IInv'
<1> SUFFICES ASSUME IInv, Ends PROVE IInv'
  OBVIOUS
<1> USE CalibrationAssumption DEF Ends, disk
<1>1. DiskInv'
  BY DEF IInv, DiskInv
<1>2. RunInv'
  <2>1. pc' = "down" /\ layer' = 0 /\ settings' = settings /\ settings \in Settings
    BY DEF IInv, RunInv
  <2>2. ~ AtLayer'
    BY <2>1 DEF AtLayer
  <2>3. layer' \in 0..NumLayers
    BY <2>1
  <2> QED
    BY <2>1, <2>2, <2>3 DEF RunInv
<1>3. LayerInv'
  BY DEF LayerInv, AtLayer
<1> QED
  BY <1>1, <1>2, <1>3 DEF IInv

\* A new directory.
LEMMA InvariantInit == Init => IInv
<1> SUFFICES ASSUME Init PROVE IInv
  OBVIOUS
<1> QED
  BY CalibrationAssumption DEF Init, IInv, DiskInv, RunInv, LayerInv, AtLayer

\* Opening the directory: an empty manifest accounts for no file, and one that
\* is there for the files it lists.
LEMMA OpenKeeps ==
    IInv /\ OpenArtifacts => IInv'
<1> SUFFICES ASSUME IInv, OpenArtifacts PROVE IInv'
  OBVIOUS
<1> USE CalibrationAssumption
<1>0. /\ UNCHANGED <<tokens, files, manifest, settings>>
      /\ pc' = "layer" /\ layer' = 0
      /\ act' = Activations(tokens.holds, <<>>)
      /\ Whole(tokens) /\ settings \in Settings
  BY DEF OpenArtifacts, disk, IInv, RunInv
<1>1. DiskInv'
  BY <1>0 DEF IInv, DiskInv
<1>2. Accounts(held', tokens.holds, files) /\ Checked[settings] = Checked[held'.header]
  <2>1. CASE Whole(manifest)
    BY <2>1, FileStates DEF OpenArtifacts, IInv, DiskInv
  <2>2. CASE ~ Whole(manifest)
    <3>1. held' = Header(settings, tokens.holds)
      BY <2>2 DEF OpenArtifacts
    <3>2. held' \in [header : Settings, sha : {tokens.holds}, done : SUBSET Layers,
                     tensors : [Layers -> {Nothing}]]
      BY <1>0, <3>1 DEF Header
    <3>3. held'.done = 0..(0 - 1) /\ 0 \in 0..NumLayers /\ held'.header = settings
      BY <3>1 DEF Header
    <3>4. held'.done = {}
      BY <3>1 DEF Header
    <3> QED
      BY <3>2, <3>3, <3>4 DEF Accounts
  <2> QED
    BY <2>1, <2>2
<1>3. IF Whole(manifest) THEN held' = manifest.holds ELSE held'.done = {}
  BY DEF OpenArtifacts, Header
<1>4. RunInv'
  BY <1>0, <1>2, <1>3 DEF RunInv, AtLayer, Whole
<1>5. Weights(files, 0, settings') = <<>>
  BY DEF Weights
<1>6. LayerInv'
  BY <1>0, <1>5 DEF LayerInv, AtLayer
<1> QED
  BY <1>1, <1>4, <1>6 DEF IInv

\* A listed layer is replayed: its file is whole, and the activations go on
\* through what this run makes of it.
LEMMA ReplayKeeps ==
    IInv /\ (Replay \/ ReplayPassedOver) => IInv'
<1> SUFFICES ASSUME IInv, Replay \/ ReplayPassedOver PROVE IInv'
  OBVIOUS
<1> USE CalibrationAssumption
<1>1. CASE Replay /\ ~ Whole(files[layer])
  BY <1>1, EndsKeeps DEF Replay
<1>2. CASE ReplayPassedOver \/ (Replay /\ Whole(files[layer]))
  <2>0. pc = "layer" /\ layer \in held.done /\ Accounts(held, tokens.holds, files)
    BY <1>2 DEF Replay, ReplayPassedOver, IInv, RunInv, AtLayer
  <2>7. files[layer].holds = held.tensors[layer]
    BY <2>0, FileStates DEF Accounts
  <2>8. act' = Through(act, Applied(files[layer].holds, settings))
    BY <1>2, <2>7 DEF Replay, ReplayPassedOver, ReaderHas, Applied
  <2>1. /\ UNCHANGED <<tokens, files, manifest, pc, settings, held, result>>
        /\ layer' = layer + 1
    BY <1>2 DEF Replay, ReplayPassedOver, disk
  <2>2. layer \in Layers
    BY <2>0 DEF Accounts
  <2>3. DiskInv'
    BY <2>1 DEF IInv, DiskInv
  <2>4. RunInv'
    BY <2>0, <2>1, <2>2 DEF IInv, RunInv, AtLayer, Layers, Whole
  <2>5. act' = Activations(tokens.holds, Weights(files, layer + 1, settings))
    <3>1. act = Activations(tokens.holds, Weights(files, layer, settings)) /\ layer \in Nat
      BY <2>0, <2>2 DEF IInv, LayerInv, Layers
    <3>2. Append(Weights(files, layer, settings), Applied(files[layer].holds, settings))
             = Weights(files, layer + 1, settings)
      BY <3>1, WeightsAppend
    <3> DEFINE t == Weights(files, layer, settings)
               c == Applied(files[layer].holds, settings)
    <3>3. Through(Activations(tokens.holds, t), c) = Activations(tokens.holds, Append(t, c))
      BY ThroughIs
    <3> QED
      BY <2>8, <3>1, <3>2, <3>3, Zenon
  <2>6. LayerInv'
    BY <2>0, <2>1, <2>5 DEF LayerInv, AtLayer
  <2> QED
    BY <2>3, <2>4, <2>6 DEF IInv
<1> QED
  BY <1>1, <1>2

\* Writing the file of a layer that is not listed disturbs no listed one.
LEMMA WriteKeeps ==
    ASSUME NEW x
    PROVE  /\ IInv /\ pc \in {"save", "saving"} /\ files' = [files EXCEPT ![layer] = x]
           /\ UNCHANGED <<tokens, manifest, memory>>
           /\ pc' \in {"saving", "list"} /\ (pc' = "list" => x = File(result))
           => IInv'
<1> SUFFICES ASSUME IInv, pc \in {"save", "saving"}, files' = [files EXCEPT ![layer] = x],
                    UNCHANGED <<tokens, manifest, memory>>,
                    pc' \in {"saving", "list"}, pc' = "list" => x = File(result)
             PROVE  IInv'
  OBVIOUS
<1> USE CalibrationAssumption DEF memory
<1>1. layer \in Layers /\ layer \notin held.done /\ files'[layer] = x
      /\ \A l \in Layers : l # layer => files'[l] = files[l]
  BY DEF IInv, LayerInv, AtLayer, DiskInv
<1>2. held.done \subseteq Layers /\ Accounts(held, tokens.holds, files)
  BY DEF IInv, RunInv, AtLayer, Accounts
<1>3. Accounts(held, tokens.holds, files')
  BY <1>1, <1>2, AccountsKept
<1>4. DiskInv'
  <2>1. files' = [l \in Layers |-> files'[l]]
    BY DEF IInv, DiskInv
  <2>2. Whole(manifest) => Accounts(manifest.holds, tokens.holds, files')
    BY <1>3 DEF IInv, RunInv, AtLayer
  <2> QED
    BY <2>1, <2>2, FileStates DEF IInv, DiskInv, Whole
<1>5. RunInv'
  BY <1>3 DEF IInv, RunInv, AtLayer, Whole
<1>6. Weights(files', layer, settings) = Weights(files, layer, settings)
  <2>1. layer \in Nat /\ \A j \in 0..(layer - 1) : files'[j] = files[j]
    BY <1>1 DEF Layers
  <2>2. \A j \in 1..layer : j - 1 \in 0..(layer - 1)
    BY <2>1
  <2> QED
    BY <2>1, <2>2 DEF Weights
<1>7. LayerInv'
  BY <1>1, <1>6 DEF IInv, LayerInv, AtLayer
<1> QED
  BY <1>4, <1>5, <1>7 DEF IInv

\* The layer's file is whole when the manifest comes to list it.
LEMMA ListKeeps ==
    IInv /\ ListLayer => IInv'
<1> SUFFICES ASSUME IInv, ListLayer PROVE IInv'
  OBVIOUS
<1> USE CalibrationAssumption
<1>1. /\ UNCHANGED <<tokens, files, settings, act, result>>
      /\ pc = "list" /\ pc' = "layer" /\ layer' = layer + 1
      /\ held' = [held EXCEPT !.done = @ \cup {layer}, !.tensors[layer] = result]
      /\ manifest' = File(held')
  BY DEF ListLayer
<1>2. /\ layer \in Layers /\ layer \notin held.done
      /\ result = Solved(Activations(tokens.holds, Weights(files, layer, settings)), settings)
      /\ files[layer] = File(result)
      /\ act = Through(Activations(tokens.holds, Weights(files, layer, settings)), result)
  BY <1>1 DEF IInv, LayerInv, AtLayer
<1>3. /\ Whole(tokens) /\ settings \in Settings
      /\ Accounts(held, tokens.holds, files)
      /\ Checked[settings] = Checked[held.header]
      /\ \A j \in 0..(layer - 1) : j \in held.done
  BY <1>1 DEF IInv, RunInv, AtLayer
<1>4. SolvedOver(result, layer, tokens.holds, files, held.header)
  BY <1>2, <1>3 DEF SolvedOver
<1>5. Accounts(held', tokens.holds, files)
  BY <1>1, <1>2, <1>3, <1>4, AccountsNext
<1>6. held'.header = held.header /\ held'.done = held.done \cup {layer}
  BY <1>1, <1>3 DEF Accounts
<1>7. DiskInv'
  BY <1>1, <1>3, <1>5, FileStates DEF IInv, DiskInv
<1>8. RunInv'
  <2>1. layer' \in 0..NumLayers /\ \A j \in 0..(layer' - 1) : j \in held'.done
    BY <1>1, <1>2, <1>3, <1>6 DEF Layers
  <2> QED
    BY <1>1, <1>3, <1>5, <1>6, <2>1, FileStates DEF RunInv, AtLayer, Whole
<1>9. act' = Activations(tokens.holds, Weights(files, layer + 1, settings))
  <2>1. files[layer].holds = result /\ layer \in Nat
    BY <1>2, FileStates DEF Layers
  <2>2. Applied(files[layer].holds, settings) = result
    <3>1. result.by = settings
      BY <1>2 DEF Solved
    <3> QED
      BY <2>1, <3>1 DEF Applied
  <2>3. Append(Weights(files, layer, settings), result) = Weights(files, layer + 1, settings)
    BY <2>1, <2>2, WeightsAppend
  <2> DEFINE t == Weights(files, layer, settings)
  <2>4. Through(Activations(tokens.holds, t), result) = Activations(tokens.holds, Append(t, result))
    BY ThroughIs
  <2> QED
    BY <1>1, <1>2, <2>3, <2>4, Zenon
<1>10. LayerInv'
  BY <1>1, <1>9 DEF LayerInv, AtLayer
<1> QED
  BY <1>7, <1>8, <1>10 DEF IInv

\* Every step keeps the invariant.
LEMMA InvariantNext ==
    IInv /\ [Next]_vars => IInv'
<1> SUFFICES ASSUME IInv, [Next]_vars PROVE IInv'
  OBVIOUS
<1> USE CalibrationAssumption
<1>1. CASE \E s \in Settings : Start(s)
  BY <1>1 DEF IInv, DiskInv, RunInv, LayerInv, AtLayer, Start, disk
<1>2. CASE ReuseTokens
  BY <1>2 DEF IInv, DiskInv, RunInv, LayerInv, AtLayer, ReuseTokens, disk, memory, Whole
<1>3. CASE CreateTokens
  <2>1. manifest = NoFile
    BY <1>3, FileStates DEF CreateTokens, IInv, DiskInv
  <2> QED
    BY <1>3, <2>1 DEF IInv, DiskInv, RunInv, LayerInv, AtLayer, CreateTokens, memory
<1>4. CASE WriteTokens
  <2>1. manifest = NoFile
    BY <1>4, FileStates DEF WriteTokens, IInv, DiskInv, RunInv
  <2>2. \E w \in Windows : tokens' = File(w)
    BY <1>4 DEF WriteTokens, IInv, RunInv
  <2>3. Whole(tokens')
    BY <2>2, FileStates
  <2> QED
    BY <1>4, <2>1, <2>2, <2>3
    DEF IInv, DiskInv, RunInv, LayerInv, AtLayer, WriteTokens, memory, Whole
<1>5. CASE RejectTokens \/ ResumeMismatch \/ Finish \/ Crash
  BY <1>5, EndsKeeps DEF RejectTokens, ResumeMismatch, Finish, Crash
<1>6. CASE OpenArtifacts
  BY <1>6, OpenKeeps
<1>7. CASE Replay \/ ReplayPassedOver
  BY <1>7, ReplayKeeps
<1>8. CASE Solve
  <2>1. /\ UNCHANGED <<tokens, files, manifest, settings, held, layer>>
        /\ pc = "layer" /\ pc' = "save" /\ layer \in Layers \ held.done
        /\ result' = Solved(act, settings) /\ act' = Through(act, result')
        /\ act = Activations(tokens.holds, Weights(files, layer, settings))
    BY <1>8 DEF Solve, disk, IInv, LayerInv
  <2>2. DiskInv' /\ RunInv'
    BY <2>1 DEF IInv, DiskInv, RunInv, AtLayer, Whole
  <2>3. LayerInv'
    BY <2>1 DEF LayerInv, AtLayer
  <2> QED
    BY <2>2, <2>3 DEF IInv
<1>9. CASE SaveLayer
  <2>1. /\ pc = "save" /\ pc' = "saving" /\ files' = [files EXCEPT ![layer] = Torn]
        /\ UNCHANGED <<tokens, manifest, memory>>
    BY <1>9 DEF SaveLayer
  <2> QED
    BY <2>1, WriteKeeps
<1>10. CASE LayerSaved
  <2>1. /\ pc = "saving" /\ pc' = "list" /\ files' = [files EXCEPT ![layer] = File(result)]
        /\ UNCHANGED <<tokens, manifest, memory>>
    BY <1>10 DEF LayerSaved
  <2> QED
    BY <2>1, WriteKeeps
<1>11. CASE ListLayer
  BY <1>11, ListKeeps
<1>12. CASE UNCHANGED vars
  BY <1>12 DEF IInv, DiskInv, RunInv, LayerInv, AtLayer, vars, disk, memory, Whole
<1> QED
  BY <1>1, <1>2, <1>3, <1>4, <1>5, <1>6, <1>7, <1>8, <1>9, <1>10, <1>11, <1>12 DEF Next, Run

\* The invariant holds in every reachable state.
THEOREM InvariantHolds == Spec => []IInv
<1>1. Init => IInv
  BY InvariantInit
<1>2. IInv /\ [Next]_vars => IInv'
  BY InvariantNext
<1> QED
  BY <1>1, <1>2, PTL DEF Spec

\* A reader sees, for every layer the manifest lists, the whole file it
\* describes, and one set of windows behind all of them.
THEOREM ListedLayersAreWholeAlways == Spec => []ListedLayersAreWhole
<1>1. IInv => ListedLayersAreWhole
  <2> SUFFICES ASSUME IInv, NEW l \in Listed
               PROVE  /\ Whole(files[l]) /\ files[l] = File(manifest.holds.tensors[l])
                      /\ tokens = File(manifest.holds.sha)
                      /\ files[l].holds.on.tokens = manifest.holds.sha
    BY DEF ListedLayersAreWhole, TokensAreRecorded
  <2>1. /\ Whole(manifest) /\ l \in manifest.holds.done
        /\ Whole(tokens) /\ Accounts(manifest.holds, tokens.holds, files)
    BY FileStates DEF Listed, IInv, DiskInv
  <2>2. tokens = File(tokens.holds) /\ manifest.holds.sha = tokens.holds
    BY <2>1, FileStates DEF IInv, DiskInv, Accounts
  <2>3. /\ files[l] = File(manifest.holds.tensors[l])
        /\ SolvedOver(manifest.holds.tensors[l], l, tokens.holds, files, manifest.holds.header)
    BY <2>1 DEF Accounts
  <2>4. files[l].holds.on.tokens = tokens.holds
    BY <2>3, FileStates DEF SolvedOver, Solved, Activations
  <2> QED
    BY <2>2, <2>3, <2>4, FileStates
<1> QED
  BY <1>1, InvariantHolds, PTL

\* What enters a layer has been through the files before it, those that this run
\* names as they were named, and through the checkpoint's weights for the others
\* (sequential.py apply_precomputed passes over what the reader does not have).
THEOREM ActivationsAlways == Spec => []ActivationsAreOfTheArtifacts
<1>1. IInv => ActivationsAreOfTheArtifacts
  BY DEF IInv, LayerInv, ActivationsAreOfTheArtifacts, Weights
<1> QED
  BY <1>1, InvariantHolds, PTL

\* What is listed lies among the layers that this process takes as done.
LEMMA ListedIsHeld ==
    IInv => /\ AtLayer => Listed \subseteq held.done
            /\ \E k \in 0..NumLayers : Listed = 0..(k - 1)
            /\ Listed # {} => Whole(manifest) /\ Accounts(manifest.holds, tokens.holds, files)
<1> SUFFICES ASSUME IInv
             PROVE  /\ AtLayer => Listed \subseteq held.done
                    /\ \E k \in 0..NumLayers : Listed = 0..(k - 1)
                    /\ Listed # {} => Whole(manifest) /\ Accounts(manifest.holds, tokens.holds, files)
  OBVIOUS
<1>1. CASE Whole(manifest)
  BY <1>1, FileStates DEF IInv, DiskInv, RunInv, Listed, Accounts
<1>2. CASE ~ Whole(manifest)
  <2>1. Listed = {} /\ Listed = 0..(0 - 1) /\ 0 \in 0..NumLayers
    BY <1>2, CalibrationAssumption DEF Listed
  <2> QED
    BY <2>1
<1> QED
  BY <1>1, <1>2

\* A step either leaves the listed layers and their files alone, or lists the
\* next layer, solved over them by a run whose checked settings are theirs.
LEMMA StepLists ==
    ASSUME IInv, [Next]_vars
    PROVE  \/ Listed' = Listed /\ \A l \in Listed : files'[l] = files[l]
           \/ /\ pc = "list" /\ layer \notin Listed
              /\ Listed' = Listed \cup {layer}
              /\ files' = files
<1> USE CalibrationAssumption
<1>1. CASE SaveLayer \/ LayerSaved
  <2>1. pc \in {"save", "saving"} /\ UNCHANGED manifest
        /\ \A l : l # layer /\ l \in Layers => files'[l] = files[l]
    BY <1>1 DEF SaveLayer, LayerSaved, IInv, DiskInv
  <2>2. layer \notin Listed
    BY <2>1, ListedIsHeld DEF IInv, LayerInv, AtLayer
  <2>3. Listed \subseteq Layers
    BY ListedIsHeld DEF Layers
  <2> QED
    BY <2>1, <2>2, <2>3 DEF Listed, Whole
<1>2. CASE ListLayer
  <2>1. /\ pc = "list" /\ UNCHANGED files
        /\ held' = [held EXCEPT !.done = @ \cup {layer}, !.tensors[layer] = result]
        /\ manifest' = File(held')
    BY <1>2 DEF ListLayer
  <2>2. held'.done = held.done \cup {layer}
    BY <2>1 DEF IInv, RunInv, AtLayer, Accounts
  <2>3. Listed' = held.done \cup {layer}
    BY <2>1, <2>2, FileStates DEF Listed, Whole
  <2>4. Listed = held.done /\ layer \notin held.done
    BY <2>1 DEF IInv, RunInv, LayerInv, AtLayer, Listed
  <2> QED
    BY <2>1, <2>3, <2>4
<1>3. CASE UNCHANGED manifest /\ UNCHANGED files
  BY <1>3 DEF Listed, Whole
<1>4. SaveLayer \/ LayerSaved \/ ListLayer \/ (UNCHANGED manifest /\ UNCHANGED files)
  BY DEF Next, Run, vars, disk, Start, ReuseTokens, RejectTokens, CreateTokens, WriteTokens,
         OpenArtifacts, ResumeMismatch, Replay, ReplayPassedOver, Solve, Finish, Crash, Ends
<1> QED
  BY <1>1, <1>2, <1>3, <1>4

\* A listed layer is never taken back nor written again.
THEOREM ListedLayersStayAlways == Spec => ListedLayersStay
<1>1. IInv /\ [Next]_vars => [\A l \in Listed : l \in Listed' /\ files'[l] = files[l]]_vars
  BY StepLists
<1> QED
  BY <1>1, InvariantHolds, PTL DEF Spec, ListedLayersStay

\* The frontier counts the listed layers, which are the first ones.
LEMMA FrontierIs ==
    ASSUME NEW k \in 0..NumLayers, Listed = 0..(k - 1)
    PROVE  Frontier = k
<1> USE CalibrationAssumption
<1> DEFINE P(n) == n \notin Listed /\ \A j \in 0..(n - 1) : j \in Listed
<1>1. P(k)
  OBVIOUS
<1>2. \A n \in 0..NumLayers : P(n) => n = k
  OBVIOUS
<1>3. Frontier \in 0..NumLayers /\ P(Frontier)
  BY <1>1 DEF Frontier
<1> QED
  BY <1>2, <1>3

\* The published layers are the first k files, for some k.
PublishedPrefix ==
    \E k \in 0..NumLayers : /\ Listed = 0..(k - 1)
                            /\ PublishedLayers = Held(files, k)

\* That is so in every state of the invariant.
LEMMA PublishedIs == IInv => PublishedPrefix
<1> SUFFICES ASSUME IInv PROVE PublishedPrefix
  OBVIOUS
<1>1. PICK k \in 0..NumLayers : Listed = 0..(k - 1)
  BY ListedIsHeld
<1>2. Frontier = k
  BY <1>1, FrontierIs
<1> QED
  BY <1>1, <1>2 DEF PublishedPrefix, PublishedLayers, Held

\* Every step publishes the next layer, or nothing.
LEMMA StepPublishes ==
    ASSUME IInv, IInv', [Next]_vars
    PROVE  [Promise!Next]_PublishedLayers
<1> USE CalibrationAssumption
<1>1. PICK k \in 0..NumLayers : Listed = 0..(k - 1) /\ PublishedLayers = Held(files, k)
  BY PublishedIs DEF PublishedPrefix
<1>2. PICK n \in 0..NumLayers : Listed' = 0..(n - 1) /\ PublishedLayers' = Held(files', n)
  <2>1. PublishedPrefix'
    BY PublishedIs, PTL
  <2> QED
    BY <2>1 DEF PublishedPrefix, Held
<1>3. CASE Listed' = Listed /\ \A l \in Listed : files'[l] = files[l]
  <2>1. n = k
    BY <1>1, <1>2, <1>3
  <2>2. Held(files', k) = Held(files, k)
    BY <1>1, <1>3, WeightsKept
  <2> QED
    BY <1>1, <1>2, <2>1, <2>2
<1>4. CASE /\ pc = "list" /\ layer \notin Listed
           /\ Listed' = Listed \cup {layer} /\ files' = files
  <2>1. /\ layer \in Layers /\ files[layer] = File(result)
        /\ result = Solved(Activations(tokens.holds, Weights(files, layer, settings)), settings)
        /\ Whole(tokens) /\ settings \in Settings
        /\ Checked[settings] = Checked[held.header]
        /\ \A j \in 0..(layer - 1) : j \in held.done
    BY <1>4 DEF IInv, RunInv, LayerInv, AtLayer
  <2>2. layer = k /\ n = k + 1
    <3>1. Listed = held.done
      BY <1>4 DEF IInv, RunInv, AtLayer, Listed
    <3>2. layer = k
      BY <1>1, <1>4, <2>1, <3>1 DEF Layers
    <3>3. 0..(n - 1) = (0..(k - 1)) \cup {k}
      BY <1>1, <1>2, <1>4, <3>2
    <3>4. n - 1 \in 0..(n - 1) => n - 1 <= k
      BY <3>3
    <3> QED
      BY <3>2, <3>3, <3>4
  <2>3. files[k].holds = result
    BY <2>1, <2>2, FileStates
  <2>4. PublishedLayers' = Append(PublishedLayers, result)
    <3>1. k \in Nat
      OBVIOUS
    <3>2. Append(Held(files, k), files[k].holds) = Held(files, k + 1)
      BY <3>1, HeldAppend
    <3>3. PublishedLayers' = Held(files, k + 1)
      BY <1>2, <1>4, <2>2
    <3> QED
      BY <1>1, <2>3, <3>2, <3>3
  <2>5. PICK w \in Windows : tokens.holds = w
    BY <2>1, FileStates DEF IInv, DiskInv
  <2>6. Len(PublishedLayers) < NumLayers
    BY <1>1, <2>1, <2>2 DEF Held, Layers
  <2>7. PublishedLayers # <<>> => /\ w = PublishedLayers[1].on.tokens
                                  /\ Checked[settings] = Checked[PublishedLayers[1].by]
    <3> SUFFICES ASSUME PublishedLayers # <<>>
                 PROVE  /\ w = PublishedLayers[1].on.tokens
                        /\ Checked[settings] = Checked[PublishedLayers[1].by]
      OBVIOUS
    <3>1. k > 0
      BY <1>1 DEF Held
    <3>2. 0 \in Listed /\ PublishedLayers[1] = files[0].holds
      BY <1>1, <3>1 DEF Held
    <3>3. Whole(manifest) /\ Accounts(manifest.holds, tokens.holds, files)
      BY <3>2, ListedIsHeld
    <3>4. /\ files[0] = File(manifest.holds.tensors[0])
          /\ SolvedOver(manifest.holds.tensors[0], 0, tokens.holds, files, manifest.holds.header)
      BY <3>2, <3>3 DEF Listed, Accounts
    <3>5. held = manifest.holds
      BY <1>4, <3>3 DEF IInv, RunInv, AtLayer
    <3> QED
      BY <2>1, <2>5, <3>2, <3>4, <3>5, FileStates DEF SolvedOver, Solved, Activations
  <2>10. Weights(files, layer, settings) = Promise!Seen(PublishedLayers, settings)
    <3>1. DOMAIN PublishedLayers = 1..k /\ \A j \in 1..k : PublishedLayers[j] = files[j - 1].holds
      BY <1>1 DEF Held
    <3> QED
      BY <2>2, <3>1 DEF Weights, Applied, Promise!Seen
  <2>8. result = Promise!Solved(Promise!Activations(w, Promise!Seen(PublishedLayers, settings)), settings)
    BY <2>1, <2>5, <2>10
    DEF Solved, Activations, Promise!Solved, Promise!Activations
  <2>9. Promise!Publish(w, settings)
    BY <2>4, <2>6, <2>7, <2>8 DEF Promise!Publish
  <2> QED
    BY <2>1, <2>9 DEF Promise!Next
<1> QED
  BY <1>3, <1>4, StepLists

\* Killed and restarted at any step, Stage A publishes what a calibration that
\* is never interrupted publishes, in which each layer is solved on what its run
\* sees of the layers before it.
THEOREM ImplementsCalibrationRunAlways == Spec => ImplementsCalibrationRun
<1>1. Init => Promise!Init
  <2> SUFFICES ASSUME Init PROVE PublishedLayers = <<>>
    BY DEF Promise!Init
  <2>1. PICK k \in 0..NumLayers : Listed = 0..(k - 1) /\ PublishedLayers = Held(files, k)
    BY InvariantInit, PublishedIs DEF PublishedPrefix
  <2>2. Listed = {}
    BY FileStates DEF Init, Listed
  <2>3. k = 0
    BY <2>1, <2>2, CalibrationAssumption
  <2> QED
    BY <2>1, <2>3 DEF Held
<1>2. IInv /\ IInv' /\ [Next]_vars => [Promise!Next]_PublishedLayers
  BY StepPublishes
<1> QED
  BY <1>1, <1>2, InvariantHolds, PTL DEF Spec, ImplementsCalibrationRun, Promise!Spec

\* A listed layer was solved on the activations that the listed layers before it
\* give, if they all are named as it is (sequential.py solve_layer, apply_precomputed
\* look tensors up by name).  So a directory whose runs name the layers alike is
\* that of a calibration from the first layer to the last.
THEOREM SolvedOverTheListedAlways == Spec => []SolvedOverTheListed
<1>1. IInv => SolvedOverTheListed
  <2> SUFFICES ASSUME IInv, NEW l \in Listed,
                      \A j \in 0..(l - 1) : Named[files[j].holds.by] = Named[files[l].holds.by]
               PROVE  files[l].holds.on =
                         Activations(manifest.holds.sha, [k \in 1..l |-> files[k - 1].holds])
    BY DEF SolvedOverTheListed
  <2>1. /\ Whole(manifest) /\ l \in manifest.holds.done
        /\ Accounts(manifest.holds, tokens.holds, files)
    BY FileStates DEF Listed, IInv, DiskInv
  <2>2. manifest.holds.sha = tokens.holds /\ l \in Nat
    BY <2>1 DEF Accounts, Layers
  <2>3. files[l].holds = manifest.holds.tensors[l]
    BY <2>1, FileStates DEF Accounts
  <2>4. PICK s \in Settings : files[l].holds = Solved(Activations(tokens.holds, Weights(files, l, s)), s)
    BY <2>1, <2>3 DEF Accounts, SolvedOver
  <2>5. files[l].holds.by = s /\ files[l].holds.on = Activations(tokens.holds, Weights(files, l, s))
    BY <2>4 DEF Solved
  <2>6. \A k \in 1..l : k - 1 \in 0..(l - 1)
    BY <2>2
  <2>7. Weights(files, l, s) = [k \in 1..l |-> files[k - 1].holds]
    BY <2>5, <2>6 DEF Weights, Applied
  <2> QED
    BY <2>2, <2>5, <2>7
<1> QED
  BY <1>1, InvariantHolds, PTL

(* ------------------------------ the trainer ------------------------------ *)
(* One output directory of the draft's trainer, on constants of its own.      *)

CONSTANTS Prints, TrainSettings, MaxEpochs, EpochSteps, Score(_), MaxTrainings, None, Partial
VARIABLES ckpt, out, report, proc, trainings, parted

Trainer == INSTANCE Distill WITH
    Settings <- TrainSettings, MaxRuns <- MaxTrainings, Torn <- Partial,
    receipt <- report, runs <- trainings

Adapted == Trainer!Params

\* Parameters of so many epochs, with the best of them.
Trained(n, r) ==
    /\ Len(r.cur.by) = n /\ r.step = n * EpochSteps
    /\ Trainer!BestAfter(n, r.cur, r.best, r.bestOf)

CheckpointIs ==
    ckpt # None =>
        /\ ckpt.cur \in Adapted /\ ckpt.bestOf \in Adapted /\ ckpt.next \in Nat
        /\ Trained(ckpt.next, ckpt)

Exported(c, n) ==
    LET exports == Trainer!Exports(c.print)
    IN  \A i \in 1..Len(exports) : i < n => out[exports[i]] = c

ProcessType ==
    [at : {"resume", "evaluate", "train", "save", "export"}, print : Prints, setting : TrainSettings,
     epochs : 0..MaxEpochs, resume : BOOLEAN, next : Nat, step : Nat,
     cur : Adapted, best : Int \cup {None}, bestOf : Adapted]

\* What a run holds at each place.  Up to its first evaluation it is at the start of
\* the training or where the checkpoint was.
ProcessIs ==
    proc # None =>
        /\ proc \in ProcessType
        /\ proc.cur.print = proc.print /\ proc.bestOf.print = proc.print
        /\ \/ /\ proc.at \in {"resume", "evaluate"} /\ proc.next = 0 /\ proc.step = 0
              /\ proc.cur.by = <<>>
           \/ proc.at \in {"evaluate", "train"} /\ Trained(proc.next, proc)
           \/ proc.at = "save" /\ Trained(proc.next + 1, proc)
           \/ /\ proc.at = "export" /\ parted /\ Score(proc.cur) = proc.best
              /\ proc.next \in Nat \ {0} /\ Exported(proc.cur, proc.next)

ReceiptIs ==
    ~parted /\ Trainer!There(report) =>
        \E c \in Adapted : /\ c.print = report.print /\ Score(c) = report.best
                           /\ Exported(c, Len(Trainer!Exports(c.print)) + 1)

TInv == CheckpointIs /\ ProcessIs /\ ReceiptIs /\ out \in [Trainer!Files -> Adapted \cup {None, Partial}]

LEMMA AdaptedIs ==
    ASSUME Trainer!DistillAssumption, NEW c \in Adapted
    PROVE  /\ c \in [print : Prints, by : Seq(TrainSettings)]
           /\ c.print \in Prints /\ c.by \in Seq(TrainSettings) /\ Len(c.by) \in 0..MaxEpochs
           /\ Score(c) \in Int /\ MaxEpochs \in Nat
<1>1. PICK n \in 0..MaxEpochs : c.by \in [1..n -> TrainSettings]
  BY DEF Adapted, Trainer!Params
<1>2. n \in Nat /\ MaxEpochs \in Nat
  BY <1>1 DEF Trainer!DistillAssumption
<1>3. c.by \in Seq(TrainSettings) /\ Len(c.by) = n
  BY <1>1, <1>2, SeqDef
<1>4. c \in [print : Prints, by : {c.by}] /\ c.print \in Prints
  BY DEF Adapted, Trainer!Params
<1>5. c \in [print : Prints, by : Seq(TrainSettings)]
  BY <1>3, <1>4
<1>6. Score(c) \in Int
  BY DEF Trainer!DistillAssumption, Adapted
<1> QED BY <1>1, <1>2, <1>3, <1>4, <1>5, <1>6

LEMMA IsAdapted ==
    ASSUME NEW print \in Prints, NEW by \in Seq(TrainSettings), Len(by) <= MaxEpochs
    PROVE  [print |-> print, by |-> by] \in Adapted
<1>1. Len(by) \in 0..MaxEpochs /\ by \in [1..Len(by) -> TrainSettings]
  BY LenProperties
<1> QED BY <1>1 DEF Adapted, Trainer!Params

LEMMA PrefixIs ==
    ASSUME Trainer!DistillAssumption, NEW c \in Adapted, NEW n \in 0..Len(c.by)
    PROVE  /\ Trainer!Prefix(c, n) \in Adapted
           /\ Trainer!Prefix(c, n).print = c.print
           /\ n = Len(c.by) => Trainer!Prefix(c, n) = c
<1>1. c.by \in Seq(TrainSettings) /\ Len(c.by) \in 0..MaxEpochs /\ n \in Nat /\ c.print \in Prints
      /\ c \in [print : Prints, by : Seq(TrainSettings)] /\ MaxEpochs \in Nat
  BY AdaptedIs
<1>2. PICK b : b = SubSeq(c.by, 1, n)
  BY Zenon
<1>3. b \in Seq(TrainSettings) /\ Len(b) = n /\ (n = Len(c.by) => b = c.by)
  BY <1>1, <1>2
<1>4. Trainer!Prefix(c, n) = [print |-> c.print, by |-> b]
  BY <1>2 DEF Trainer!Prefix
<1>5. [print |-> c.print, by |-> b] \in Adapted
  BY <1>1, <1>3, IsAdapted
<1>6. b = c.by => [print |-> c.print, by |-> b] = c
  BY <1>1
<1> QED BY <1>3, <1>4, <1>5, <1>6

\* One epoch more.
LEMMA OneMoreEpoch ==
    ASSUME Trainer!DistillAssumption, NEW c \in Adapted, NEW s \in TrainSettings, Len(c.by) < MaxEpochs
    PROVE  LET d == Trainer!After(c, s)
           IN  /\ d \in Adapted /\ d.print = c.print /\ Len(d.by) = Len(c.by) + 1
               /\ \A n \in 0..Len(c.by) : Trainer!Prefix(d, n) = Trainer!Prefix(c, n)
<1>1. c.by \in Seq(TrainSettings) /\ Len(c.by) \in 0..MaxEpochs /\ c.print \in Prints
      /\ MaxEpochs \in Nat
  BY AdaptedIs
<1>2. PICK b : b = Append(c.by, s)
  BY Zenon
<1>3. b \in Seq(TrainSettings) /\ Len(b) = Len(c.by) + 1
      /\ \A n \in 0..Len(c.by) : SubSeq(b, 1, n) = SubSeq(c.by, 1, n)
  BY <1>1, <1>2
<1>4. PICK d : d = [print |-> c.print, by |-> b]
  BY Zenon
<1>5. d.by = b /\ d.print = c.print
  BY <1>4
<1>6. d \in Adapted
  <2>1. Len(b) <= MaxEpochs
    BY <1>1, <1>3
  <2> QED BY <1>1, <1>3, <1>4, <2>1, IsAdapted
<1>7. \A n \in 0..Len(c.by) : Trainer!Prefix(d, n) = Trainer!Prefix(c, n)
  BY <1>3, <1>5 DEF Trainer!Prefix
<1>8. Trainer!After(c, s) = d
  BY <1>2, <1>4 DEF Trainer!After
<1> QED BY <1>3, <1>5, <1>6, <1>7, <1>8

\* What is better after an epoch more.
LEMMA BestAfterOneMore ==
    ASSUME Trainer!DistillAssumption, NEW c \in Adapted, NEW d \in Adapted, NEW n \in Nat, n = Len(c.by),
           Len(d.by) = n + 1,
           \A j \in 0..n : Trainer!Prefix(d, j) = Trainer!Prefix(c, j),
           NEW best, NEW bestOf \in Adapted, Trainer!BestAfter(n, c, best, bestOf)
    PROVE  /\ Score(d) < best => Trainer!BestAfter(n + 1, d, Score(d), d)
           /\ ~(Score(d) < best) => Trainer!BestAfter(n + 1, d, best, bestOf)
<1>0. /\ Score(d) \in Int /\ best \in Int /\ best = Score(bestOf)
      /\ Trainer!Prefix(d, n + 1) = d
  <2>1. n + 1 \in 0..Len(d.by)
    BY n \in Nat
  <2>2. Trainer!Prefix(d, n + 1) = d
    BY <2>1, PrefixIs
  <2>3. Score(d) \in Int /\ Score(bestOf) \in Int
    BY AdaptedIs
  <2>4. best = Score(bestOf)
    BY DEF Trainer!BestAfter
  <2> QED BY <2>2, <2>3, <2>4
<1>1. \A j \in 0..n : Score(Trainer!Prefix(c, j)) \in Int
  BY AdaptedIs, PrefixIs
<1>2. PICK k \in 0..n :
         /\ bestOf = Trainer!Prefix(c, k)
         /\ \A j \in 0..n : Score(Trainer!Prefix(c, j)) >= best
         /\ \A j \in 0..(k - 1) : Score(Trainer!Prefix(c, j)) > best
  BY DEF Trainer!BestAfter
<1>3. \A j \in 0..(n + 1) : j \in 0..n \/ j = n + 1
  BY n \in Nat
<1>4. ASSUME Score(d) < best
      PROVE  Trainer!BestAfter(n + 1, d, Score(d), d)
  <2>1. \A j \in 0..n : Score(Trainer!Prefix(d, j)) > Score(d)
    <3> TAKE j \in 0..n
    <3>1. Score(Trainer!Prefix(d, j)) \in Int /\ Score(Trainer!Prefix(d, j)) >= best
      BY <1>1, <1>2
    <3> QED BY <1>0, <1>4, <3>1
  <2>2. \A j \in 0..(n + 1) : Score(Trainer!Prefix(d, j)) >= Score(d)
    <3> TAKE j \in 0..(n + 1)
    <3>1. CASE j \in 0..n
      <4>1. Score(Trainer!Prefix(d, j)) \in Int /\ Score(Trainer!Prefix(d, j)) > Score(d)
        BY <1>1, <2>1, <3>1
      <4> QED BY <1>0, <4>1
    <3>2. CASE j = n + 1
      BY <1>0, <3>2
    <3> QED BY <1>3, <3>1, <3>2
  <2>3. n + 1 \in 0..(n + 1) /\ (n + 1) - 1 = n
    OBVIOUS
  <2> QED BY Zenon, <1>0, <2>1, <2>2, <2>3 DEF Trainer!BestAfter
<1>5. ASSUME ~(Score(d) < best)
      PROVE  Trainer!BestAfter(n + 1, d, best, bestOf)
  <2>1. \A j \in 0..(n + 1) : Score(Trainer!Prefix(d, j)) >= best
    <3> TAKE j \in 0..(n + 1)
    <3>1. CASE j \in 0..n
      BY <1>2, <3>1
    <3>2. CASE j = n + 1
      BY <1>0, <1>5, <3>2
    <3> QED BY <1>3, <3>1, <3>2
  <2>2. k \in 0..(n + 1) /\ \A j \in 0..(k - 1) : j \in 0..n
    OBVIOUS
  <2>3. \A j \in 0..(k - 1) : Score(Trainer!Prefix(d, j)) > best
    BY <1>2, <2>2
  <2>4. bestOf = Trainer!Prefix(d, k)
    BY <1>2
  <2> QED BY <1>0, <2>1, <2>2, <2>3, <2>4 DEF Trainer!BestAfter
<1> QED BY <1>4, <1>5

LEMMA TrainerBegins == Trainer!Init => TInv
BY DEF Trainer!Init, TInv, CheckpointIs, ProcessIs, ReceiptIs, Trainer!There

\* At the beginning of a training the parameters are the best so far.
LEMMA FirstIsBest ==
    ASSUME Trainer!DistillAssumption, NEW c \in Adapted, c.by = <<>>
    PROVE  Trainer!BestAfter(0, c, Score(c), c)
<1>1. 0 \in 0..Len(c.by) /\ Len(c.by) = 0
  BY AdaptedIs
<1>2. Trainer!Prefix(c, 0) = c /\ Score(c) \in Int
  BY <1>1, PrefixIs, AdaptedIs
<1>3. 0 \in 0..0 /\ 0..(0 - 1) = {} /\ \A j \in 0..0 : j = 0
  OBVIOUS
<1>4. \A j \in 0..0 : Score(Trainer!Prefix(c, j)) >= Score(c)
  BY <1>2, <1>3
<1> QED BY <1>2, <1>3, <1>4 DEF Trainer!BestAfter

\* What a step that leaves checkpoint, receipt and files keeps.
LEMMA ProcessMoves ==
    ASSUME TInv, UNCHANGED <<ckpt, out, report>>, parted' = parted, ProcessIs'
    PROVE  TInv'
BY DEF TInv, CheckpointIs, ReceiptIs, Exported, Trained

LEMMA StartHolds ==
    ASSUME Trainer!DistillAssumption, TInv, NEW print \in Prints, NEW s \in TrainSettings, NEW n \in 0..MaxEpochs,
           NEW r \in BOOLEAN, Trainer!Start(print, s, n, r)
    PROVE  TInv'
<1>1. Trainer!Fresh(print) \in Adapted /\ Trainer!Fresh(print).print = print
      /\ Trainer!Fresh(print).by = <<>>
  <2>1. <<>> \in Seq(TrainSettings) /\ Len(<<>>) <= MaxEpochs
    BY EmptySeq DEF Trainer!DistillAssumption
  <2> QED BY Zenon, <2>1, IsAdapted DEF Trainer!Fresh
<1>2. PICK f : f = Trainer!Fresh(print)
  OBVIOUS
<1>3. PICK q : q = proc'
  OBVIOUS
<1>4. q = [at |-> "resume", print |-> print, setting |-> s, epochs |-> n, resume |-> r,
           next |-> 0, step |-> 0, cur |-> f, best |-> None, bestOf |-> f]
  BY <1>2, <1>3 DEF Trainer!Start
<1>5. q \in ProcessType
  BY <1>1, <1>2, <1>4 DEF ProcessType
<1>6. /\ q.at = "resume" /\ q.print = print /\ q.next = 0 /\ q.step = 0 /\ q.cur = f
      /\ q.bestOf = f
  BY <1>4
<1>7. ProcessIs'
  BY <1>1, <1>2, <1>3, <1>5, <1>6 DEF ProcessIs
<1>8. UNCHANGED <<ckpt, out, report>> /\ parted' = parted
  BY DEF Trainer!Start
<1> QED BY <1>7, <1>8, ProcessMoves

LEMMA ResumeHolds ==
    ASSUME Trainer!DistillAssumption, TInv, Trainer!Resume
    PROVE  TInv'
<1>0. proc # None /\ proc.at = "resume" /\ proc \in ProcessType /\ CheckpointIs
      /\ proc.cur.print = proc.print /\ proc.bestOf.print = proc.print
      /\ proc.next = 0 /\ proc.step = 0 /\ proc.cur.by = <<>>
  BY DEF Trainer!Resume, TInv, ProcessIs
<1>1. ASSUME proc' = None
      PROVE  ProcessIs'
  BY <1>1 DEF ProcessIs
<1>2. ASSUME proc' = [proc EXCEPT !.at = "evaluate"]
      PROVE  ProcessIs'
  <2>1. /\ proc' \in ProcessType /\ proc'.at = "evaluate" /\ proc'.next = 0 /\ proc'.step = 0
        /\ proc'.cur = proc.cur /\ proc'.bestOf = proc.bestOf /\ proc'.print = proc.print
    BY <1>0, <1>2 DEF ProcessType
  <2> QED BY <1>0, <2>1 DEF ProcessIs
<1>3. ASSUME ckpt # None, ckpt.cur.print = proc.print,
             proc' = [Trainer!Loaded EXCEPT !.at = "evaluate"]
      PROVE  ProcessIs'
  <2>1. /\ ckpt.cur \in Adapted /\ ckpt.bestOf \in Adapted /\ ckpt.next \in Nat
        /\ ckpt.step \in Nat /\ ckpt.best \in Int /\ ckpt.bestOf.print = ckpt.cur.print
        /\ Trained(ckpt.next, ckpt)
    <3>1. /\ ckpt.cur \in Adapted /\ ckpt.bestOf \in Adapted /\ ckpt.next \in Nat
          /\ Trained(ckpt.next, ckpt)
      BY <1>0, <1>3 DEF CheckpointIs
    <3>2. ckpt.step = ckpt.next * EpochSteps /\ EpochSteps \in Nat
      BY <3>1 DEF Trained, Trainer!DistillAssumption
    <3>3. ckpt.best = Score(ckpt.bestOf)
      BY <3>1 DEF Trained, Trainer!BestAfter
    <3>4. ckpt.bestOf.print = ckpt.cur.print
      <4>1. PICK k \in 0..ckpt.next : ckpt.bestOf = Trainer!Prefix(ckpt.cur, k)
        BY <3>1 DEF Trained, Trainer!BestAfter
      <4>2. k \in 0..Len(ckpt.cur.by)
        BY <3>1 DEF Trained
      <4> QED BY <3>1, <4>1, <4>2, PrefixIs
    <3> QED BY <3>1, <3>2, <3>3, <3>4, AdaptedIs
  <2>2. /\ proc' \in ProcessType /\ proc'.at = "evaluate" /\ proc'.print = proc.print
        /\ proc'.next = ckpt.next /\ proc'.step = ckpt.step
        /\ proc'.cur = ckpt.cur /\ proc'.bestOf = ckpt.bestOf /\ proc'.best = ckpt.best
    BY Zenon, <1>0, <1>3, <2>1 DEF ProcessType, Trainer!Loaded
  <2>3. Trained(proc'.next, proc')
    BY <2>1, <2>2 DEF Trained
  <2> QED BY <1>3, <2>1, <2>2, <2>3 DEF ProcessIs
<1>4. ProcessIs'
  BY <1>1, <1>2, <1>3 DEF Trainer!Resume
<1>5. UNCHANGED <<ckpt, out, report>> /\ parted' = parted
  BY DEF Trainer!Resume
<1> QED BY <1>4, <1>5, ProcessMoves

LEMMA EvaluateFirstHolds ==
    ASSUME Trainer!DistillAssumption, TInv, Trainer!EvaluateFirst
    PROVE  TInv'
<1>0. proc # None /\ proc.at = "evaluate" /\ proc \in ProcessType
      /\ proc.cur.print = proc.print /\ proc.bestOf.print = proc.print
  BY DEF Trainer!EvaluateFirst, TInv, ProcessIs
<1>1. \/ proc.next = 0 /\ proc.step = 0 /\ proc.cur.by = <<>>
      \/ Trained(proc.next, proc)
  BY <1>0 DEF TInv, ProcessIs
<1>2. ASSUME proc.next = 0
      PROVE  ProcessIs'
  <2>1. PICK c : c = proc.cur
    OBVIOUS
  <2>2. c \in Adapted /\ Score(c) \in Int /\ c.print = proc.print
    BY <1>0, <2>1, AdaptedIs DEF ProcessType
  <2>3. /\ proc' \in ProcessType /\ proc'.at = "train" /\ proc'.print = proc.print
        /\ proc'.next = 0 /\ proc'.step = proc.step
        /\ proc'.cur = c /\ proc'.bestOf = c /\ proc'.best = Score(c)
    BY Zenon, <1>0, <1>2, <2>1, <2>2 DEF ProcessType, Trainer!EvaluateFirst
  <2>4. c.by = <<>> /\ proc.step = 0
    <3>1. ASSUME Trained(proc.next, proc)
          PROVE  c.by = <<>> /\ proc.step = 0
      <4>1. Len(c.by) = 0 /\ proc.step = 0 * EpochSteps /\ EpochSteps \in Nat
        BY <1>2, <2>1, <3>1
           DEF Trained,  Trainer!DistillAssumption
      <4>2. c.by \in Seq(TrainSettings)
        BY <2>2, AdaptedIs
      <4> QED BY <4>1, <4>2, EmptySeq
    <3> QED BY <1>1, <2>1, <3>1
  <2>5. Trained(0, proc')
    <3>1. EpochSteps \in Nat /\ Len(<<>>) = 0
      BY DEF Trainer!DistillAssumption
    <3>2. proc'.step = 0 * EpochSteps /\ Len(proc'.cur.by) = 0
      BY <2>3, <2>4, <3>1
    <3>3. Trainer!BestAfter(0, proc'.cur, proc'.best, proc'.bestOf)
      BY <2>2, <2>3, <2>4, FirstIsBest
    <3> QED BY <3>2, <3>3 DEF Trained
  <2> QED BY <2>2, <2>3, <2>5 DEF ProcessIs
<1>3. ASSUME proc.next # 0
      PROVE  ProcessIs'
  <2>1. /\ proc' \in ProcessType /\ proc'.at = "train" /\ proc'.print = proc.print
        /\ proc'.next = proc.next /\ proc'.step = proc.step
        /\ proc'.cur = proc.cur /\ proc'.bestOf = proc.bestOf /\ proc'.best = proc.best
    BY <1>0, <1>3 DEF ProcessType, Trainer!EvaluateFirst
  <2>2. Trained(proc'.next, proc')
    BY <1>1, <1>3, <2>1 DEF Trained
  <2> QED BY <1>0, <2>1, <2>2 DEF ProcessIs
<1>4. UNCHANGED <<ckpt, out, report>> /\ parted' = parted
  BY DEF Trainer!EvaluateFirst
<1> QED BY <1>2, <1>3, <1>4, ProcessMoves

LEMMA EpochHolds ==
    ASSUME Trainer!DistillAssumption, TInv, Trainer!Epoch
    PROVE  TInv'
<1>0. proc # None /\ proc.at = "train" /\ proc \in ProcessType
      /\ proc.cur.print = proc.print /\ proc.bestOf.print = proc.print
      /\ Trained(proc.next, proc) /\ proc.next < proc.epochs
  BY DEF Trainer!Epoch, TInv, ProcessIs
<1>1. PICK c, d, n, b, a : c = proc.cur /\ d = Trainer!After(c, proc.setting) /\ n = proc.next
                           /\ b = proc.best /\ a = proc.bestOf
  OBVIOUS
<1>2. c \in Adapted /\ a \in Adapted /\ n \in Nat /\ n < MaxEpochs /\ proc.setting \in TrainSettings
      /\ proc.step \in Nat /\ Len(c.by) = n /\ Trainer!BestAfter(n, c, b, a)
      /\ proc.step = n * EpochSteps /\ EpochSteps \in Nat /\ proc.print \in Prints
  BY <1>0, <1>1
     DEF ProcessType, Trained,  Trainer!DistillAssumption
<1>3. d \in Adapted /\ d.print = c.print /\ Len(d.by) = n + 1 /\ Score(d) \in Int
      /\ \A j \in 0..n : Trainer!Prefix(d, j) = Trainer!Prefix(c, j)
  <2>1. Len(c.by) < MaxEpochs
    BY <1>2
  <2>2. /\ d \in Adapted /\ d.print = c.print /\ Len(d.by) = Len(c.by) + 1
        /\ \A j \in 0..Len(c.by) : Trainer!Prefix(d, j) = Trainer!Prefix(c, j)
    BY Zenon, <1>1, <1>2, <2>1, OneMoreEpoch
  <2> QED BY <1>2, <2>2, AdaptedIs
<1>4. /\ Score(d) < b => Trainer!BestAfter(n + 1, d, Score(d), d)
      /\ ~(Score(d) < b) => Trainer!BestAfter(n + 1, d, b, a)
  BY <1>2, <1>3, BestAfterOneMore
<1>5. PICK b2, a2 : b2 = (IF Score(d) < b THEN Score(d) ELSE b) /\ a2 = IF Score(d) < b THEN d ELSE a
  OBVIOUS
<1>6. proc' = [proc EXCEPT !.at = "save", !.cur = d, !.step = @ + EpochSteps,
                           !.best = b2, !.bestOf = a2]
  BY <1>1, <1>5 DEF Trainer!Epoch, Trainer!Better
<1>7. b2 \in Int \cup {None} /\ a2 \in Adapted /\ a2.print = proc.print
      /\ Trainer!BestAfter(n + 1, d, b2, a2)
  BY <1>0, <1>1, <1>2, <1>3, <1>4, <1>5 DEF ProcessType
<1>8. /\ proc' \in ProcessType /\ proc'.at = "save" /\ proc'.print = proc.print
      /\ proc'.next = n /\ proc'.step = n * EpochSteps + EpochSteps
      /\ proc'.cur = d /\ proc'.bestOf = a2 /\ proc'.best = b2
  <2>1. PICK m : m = proc.step + EpochSteps
    OBVIOUS
  <2>2. m \in Nat /\ m = n * EpochSteps + EpochSteps
    BY <1>2, <2>1
  <2>3. proc' = [proc EXCEPT !.at = "save", !.cur = d, !.step = m, !.best = b2, !.bestOf = a2]
    BY <1>6, <2>1
  <2>4. proc \in ProcessType /\ d \in Adapted /\ a2 \in Adapted /\ b2 \in Int \cup {None}
        /\ proc.next = n
    BY <1>0, <1>1, <1>3, <1>7
  <2>5. /\ proc' \in ProcessType /\ proc'.at = "save" /\ proc'.print = proc.print
        /\ proc'.next = n /\ proc'.step = m
        /\ proc'.cur = d /\ proc'.bestOf = a2 /\ proc'.best = b2
    BY Zenon, <2>2, <2>3, <2>4 DEF ProcessType
  <2> QED BY <2>2, <2>5
<1>9. Trained(n + 1, proc')
  <2>1. (n + 1) * EpochSteps = n * EpochSteps + EpochSteps
    BY <1>2
  <2> QED BY <1>3, <1>7, <1>8, <2>1 DEF Trained
<1>10. ProcessIs'
  BY <1>0, <1>1, <1>3, <1>7, <1>8, <1>9 DEF ProcessIs
<1>11. UNCHANGED <<ckpt, out, report>> /\ parted' = parted
  BY DEF Trainer!Epoch
<1> QED BY <1>10, <1>11, ProcessMoves

LEMMA SaveHolds ==
    ASSUME TInv, Trainer!Save
    PROVE  TInv'
<1>0. proc # None /\ proc.at = "save" /\ proc \in ProcessType
      /\ proc.cur.print = proc.print /\ proc.bestOf.print = proc.print
      /\ Trained(proc.next + 1, proc)
  BY DEF Trainer!Save, TInv, ProcessIs
<1>1. PICK n : n = proc.next + 1
  OBVIOUS
<1>2. n \in Nat /\ proc.cur \in Adapted /\ proc.bestOf \in Adapted
  BY <1>0, <1>1 DEF ProcessType
<1>3. /\ ckpt'.next = n /\ ckpt'.step = proc.step /\ ckpt'.cur = proc.cur
      /\ ckpt'.best = proc.best /\ ckpt'.bestOf = proc.bestOf
  BY <1>1 DEF Trainer!Save
<1>4. CheckpointIs'
  BY <1>0, <1>1, <1>2, <1>3 DEF CheckpointIs, Trained
<1>5. proc' = [proc EXCEPT !.at = "train", !.next = n]
  BY <1>1 DEF Trainer!Save
<1>6. /\ proc' \in ProcessType /\ proc'.at = "train" /\ proc'.next = n /\ proc'.print = proc.print
      /\ proc'.step = proc.step /\ proc'.cur = proc.cur /\ proc'.best = proc.best
      /\ proc'.bestOf = proc.bestOf
  BY Zenon, <1>0, <1>2, <1>5 DEF ProcessType
<1>7. Trained(proc'.next, proc')
  BY <1>0, <1>1, <1>6 DEF Trained
<1>8. ProcessIs'
  BY <1>0, <1>6, <1>7 DEF ProcessIs
<1>9. UNCHANGED <<out, report, parted>>
  BY DEF Trainer!Save
<1> QED BY <1>4, <1>8, <1>9 DEF TInv, ReceiptIs, Exported

LEMMA ExportBeginHolds ==
    ASSUME TInv, Trainer!ExportBegin
    PROVE  TInv'
<1>0. proc # None /\ proc.at = "train" /\ proc \in ProcessType
      /\ proc.cur.print = proc.print /\ proc.bestOf.print = proc.print
      /\ Trained(proc.next, proc)
  BY DEF Trainer!ExportBegin, TInv, ProcessIs
<1>1. /\ proc' \in ProcessType /\ proc'.at = "export" /\ proc'.next = 1
      /\ proc'.print = proc.print /\ proc'.cur = proc.bestOf /\ proc'.best = proc.best
      /\ proc'.bestOf = proc.bestOf
  BY Zenon, <1>0 DEF ProcessType, Trainer!ExportBegin, Trainer!Restored
<1>2. proc.best = Score(proc.bestOf)
  BY <1>0 DEF Trained, Trainer!BestAfter
<1>3. Exported(proc.cur, proc.next)'
  <2>1. \A i \in 1..Len(Trainer!Exports(proc'.cur.print)) : ~(i < 1)
    OBVIOUS
  <2> QED BY <1>1, <2>1 DEF Exported
<1>4. parted' /\ UNCHANGED <<ckpt, out, report>>
  BY DEF Trainer!ExportBegin
<1>5. ProcessIs'
  BY <1>0, <1>1, <1>2, <1>3, <1>4 DEF ProcessIs
<1>6. ReceiptIs'
  BY <1>4 DEF ReceiptIs
<1> QED BY <1>4, <1>5, <1>6 DEF TInv, CheckpointIs, Trained

\* The files an export writes.
Occurs(f, s) == \E i \in 1..Len(s) : s[i] = f

LEMMA OccursInEither ==
    ASSUME NEW S, NEW s \in Seq(S), NEW t \in Seq(S), NEW f
    PROVE  /\ s \o t \in Seq(S)
           /\ Occurs(f, s) \/ Occurs(f, t) => Occurs(f, s \o t)
<1>1. /\ s \o t \in Seq(S) /\ Len(s \o t) = Len(s) + Len(t) /\ Len(s) \in Nat /\ Len(t) \in Nat
      /\ \A i \in 1..Len(s) : (s \o t)[i] = s[i]
      /\ \A i \in 1..Len(t) : (s \o t)[Len(s) + i] = t[i]
  BY ConcatProperties, LenProperties
<1>2. PICK x : x = s \o t
  BY Zenon
<1>3. ASSUME Occurs(f, s) PROVE Occurs(f, x)
  <2>1. PICK i \in 1..Len(s) : s[i] = f
    BY <1>3 DEF Occurs
  <2>2. i \in 1..Len(x) /\ x[i] = f
    BY <1>1, <1>2, <2>1
  <2> QED BY <2>2 DEF Occurs
<1>4. ASSUME Occurs(f, t) PROVE Occurs(f, x)
  <2>1. PICK i \in 1..Len(t) : t[i] = f
    BY <1>4 DEF Occurs
  <2>2. Len(s) + i \in 1..Len(x) /\ x[Len(s) + i] = f
    BY <1>1, <1>2, <2>1
  <2> QED BY <2>2 DEF Occurs
<1> QED BY <1>1, <1>2, <1>3, <1>4

LEMMA ExportsAre ==
    ASSUME NEW print
    PROVE  /\ Trainer!Exports(print) \in Seq(Trainer!Files)
           /\ Occurs("projection", Trainer!Exports(print))
           /\ Occurs("model", Trainer!Exports(print))
           /\ print.lora => Occurs("lora", Trainer!Exports(print))
           /\ print.qat => Occurs("qat", Trainer!Exports(print))
<1>1. PICK L, Q, P, M :
         /\ L = (IF print.lora THEN <<"lora">> ELSE <<>>)
         /\ Q = (IF print.qat THEN <<"qat">> ELSE <<>>)
         /\ P = <<"projection">> /\ M = <<"model">>
  BY Zenon
<1>2. Trainer!Exports(print) = P \o L \o Q \o M
  BY <1>1 DEF Trainer!Exports
<1>3. /\ L \in Seq(Trainer!Files) /\ Q \in Seq(Trainer!Files)
      /\ P \in Seq(Trainer!Files) /\ M \in Seq(Trainer!Files)
  <2>1. \A f \in Trainer!Files : <<f>> \in Seq(Trainer!Files)
    OBVIOUS
  <2>2. {"projection", "lora", "qat", "model"} = Trainer!Files
    BY DEF Trainer!Files
  <2>3. <<>> \in Seq(Trainer!Files)
    OBVIOUS
  <2> QED BY <1>1, <2>1, <2>2, <2>3
<1>4. /\ Occurs("projection", P) /\ Occurs("model", M)
      /\ print.lora => Occurs("lora", L)
      /\ print.qat => Occurs("qat", Q)
  BY <1>1 DEF Occurs
<1>5. PICK PL : PL = P \o L
  BY Zenon
<1>6. /\ PL \in Seq(Trainer!Files) /\ Occurs("projection", PL)
      /\ print.lora => Occurs("lora", PL)
  BY <1>3, <1>4, <1>5, OccursInEither
<1>7. PICK PLQ : PLQ = PL \o Q
  BY Zenon
<1>8. /\ PLQ \in Seq(Trainer!Files) /\ Occurs("projection", PLQ)
      /\ print.lora => Occurs("lora", PLQ)
      /\ print.qat => Occurs("qat", PLQ)
  BY <1>3, <1>4, <1>6, <1>7, OccursInEither
<1>9. PICK x : x = PLQ \o M
  BY Zenon
<1>10. /\ x \in Seq(Trainer!Files) /\ Occurs("projection", x) /\ Occurs("model", x)
       /\ print.lora => Occurs("lora", x)
       /\ print.qat => Occurs("qat", x)
  BY <1>3, <1>4, <1>8, <1>9, OccursInEither
<1> QED BY <1>2, <1>5, <1>7, <1>9, <1>10

LEMMA ExportFileHolds ==
    ASSUME TInv, Trainer!ExportFile
    PROVE  TInv'
<1>0. proc # None /\ proc.at = "export" /\ proc \in ProcessType
      /\ proc.cur.print = proc.print /\ proc.bestOf.print = proc.print
      /\ parted /\ Score(proc.cur) = proc.best
      /\ proc.next \in Nat \ {0} /\ Exported(proc.cur, proc.next)
      /\ out \in [Trainer!Files -> Adapted \cup {None, Partial}]
  BY DEF Trainer!ExportFile, Trainer!Exporting, TInv, ProcessIs
<1>1. PICK x, n, c : x = Trainer!Exports(proc.print) /\ n = proc.next /\ c = proc.cur
  OBVIOUS
<1>2. x \in Seq(Trainer!Files) /\ Len(x) \in Nat /\ n \in 1..Len(x) /\ x[n] \in Trainer!Files
      /\ c \in Adapted
  <2>1. x \in Seq(Trainer!Files)
    BY <1>1, ExportsAre
  <2>2. n \in Nat \ {0} /\ n <= Len(x)
    BY <1>0, <1>1 DEF Trainer!ExportFile, Trainer!Exporting
  <2>3. Len(x) \in Nat
    BY <2>1, LenProperties
  <2>4. n \in 1..Len(x)
    BY <2>2, <2>3
  <2> QED BY <1>0, <1>1, <2>1, <2>3, <2>4, ElementOfSeq DEF ProcessType
<1>3. out' = [out EXCEPT ![x[n]] = c] /\ UNCHANGED <<ckpt, report, parted>>
  BY <1>1 DEF Trainer!ExportFile, Trainer!FileNow
<1>4. out' \in [Trainer!Files -> Adapted \cup {None, Partial}]
  BY <1>0, <1>2, <1>3
<1>5. proc' = [proc EXCEPT !.next = n + 1]
  BY <1>1 DEF Trainer!ExportFile
<1>6. /\ proc' \in ProcessType /\ proc'.at = "export" /\ proc'.next = n + 1
      /\ proc'.print = proc.print /\ proc'.cur = c /\ proc'.best = proc.best
      /\ proc'.bestOf = proc.bestOf /\ n + 1 \in Nat \ {0}
  BY <1>0, <1>1, <1>2, <1>5 DEF ProcessType
<1>7. \A i \in 1..Len(x) : i < n + 1 => out'[x[i]] = c
  <2> SUFFICES ASSUME NEW i \in 1..Len(x), i < n + 1
               PROVE  out'[x[i]] = c
    OBVIOUS
  <2>1. x[i] \in Trainer!Files
    BY <1>2, ElementOfSeq
  <2>2. CASE i = n
    BY <1>0, <1>2, <1>3, <2>2
  <2>3. CASE i # n
    <3>1. i < n
      BY <1>2, <2>3
    <3>2. out[x[i]] = c
      BY <1>0, <1>1, <3>1 DEF Exported
    <3> QED BY <1>0, <1>2, <1>3, <2>1, <3>2
  <2> QED BY <2>2, <2>3
<1>8. Exported(proc.cur, proc.next)'
  <2>1. Trainer!Exports(proc'.cur.print) = x
    BY <1>0, <1>1, <1>6
  <2> QED BY <1>6, <1>7, <2>1 DEF Exported
<1>9. ProcessIs'
  BY <1>0, <1>1, <1>3, <1>6, <1>8 DEF ProcessIs
<1>10. ReceiptIs'
  BY <1>0, <1>3 DEF ReceiptIs
<1>11. CheckpointIs'
  BY <1>3 DEF TInv, CheckpointIs, Trained
<1> QED BY <1>4, <1>9, <1>10, <1>11 DEF TInv

LEMMA WriteReceiptHolds ==
    ASSUME TInv, Trainer!WriteReceipt
    PROVE  TInv'
<1>0. proc # None /\ proc.at = "export" /\ proc \in ProcessType
      /\ proc.cur.print = proc.print
      /\ Score(proc.cur) = proc.best
      /\ proc.next \in Nat \ {0} /\ Exported(proc.cur, proc.next)
      /\ proc.next > Len(Trainer!Exports(proc.print))
  BY DEF Trainer!WriteReceipt, TInv, ProcessIs
<1>1. PICK x, n, c : x = Trainer!Exports(proc.print) /\ n = proc.next /\ c = proc.cur
  OBVIOUS
<1>2. Len(x) \in Nat /\ n \in Nat /\ n > Len(x) /\ c \in Adapted
  BY <1>0, <1>1, ExportsAre, LenProperties DEF ProcessType
<1>3. \A i \in 1..Len(x) : i < Len(x) + 1 => out[x[i]] = c
  <2> TAKE i \in 1..Len(x)
  <2>1. i < n
    BY <1>2
  <2> QED BY <1>0, <1>1, <2>1 DEF Exported
<1>4. /\ report'.print = proc.print /\ report'.best = proc.best
      /\ UNCHANGED <<ckpt, out>> /\ proc' = None
  BY DEF Trainer!WriteReceipt
<1>5. Exported(c, Len(Trainer!Exports(c.print)) + 1)'
  BY <1>0, <1>1, <1>3, <1>4 DEF Exported
<1>6. ReceiptIs'
  BY <1>0, <1>1, <1>2, <1>4, <1>5 DEF ReceiptIs
<1>7. CheckpointIs' /\ ProcessIs'
  BY <1>4 DEF TInv, CheckpointIs, Trained, ProcessIs
<1> QED BY <1>4, <1>6, <1>7 DEF TInv

LEMMA DieHolds ==
    ASSUME TInv, Trainer!Die
    PROVE  TInv'
<1>1. ProcessIs' /\ UNCHANGED <<ckpt, parted>>
  BY DEF Trainer!Die, ProcessIs
<1>2. CheckpointIs'
  BY <1>1 DEF TInv, CheckpointIs, Trained
<1>3. out' \in [Trainer!Files -> Adapted \cup {None, Partial}]
  BY DEF Trainer!Die, TInv
<1>4. ReceiptIs'
  <2>1. CASE proc.at = "export"
    <3>1. parted'
      BY <1>1, <2>1 DEF Trainer!Die, TInv, ProcessIs
    <3> QED BY <3>1 DEF ReceiptIs
  <2>2. CASE proc.at # "export"
    <3>1. UNCHANGED <<out, report>>
      BY <2>2 DEF Trainer!Die, Trainer!Exporting
    <3> QED BY <1>1, <3>1 DEF TInv, ReceiptIs, Exported
  <2> QED BY <2>1, <2>2
<1> QED BY <1>1, <1>2, <1>3, <1>4 DEF TInv

LEMMA TrainerStep ==
    ASSUME Trainer!DistillAssumption, TInv, [Trainer!Next]_Trainer!vars
    PROVE  TInv'
<1>1. CASE UNCHANGED Trainer!vars
  BY <1>1 DEF Trainer!vars, TInv, CheckpointIs, Trained, ProcessIs, ReceiptIs, Exported
<1>2. CASE Trainer!Next
  BY <1>2, StartHolds, ResumeHolds, EvaluateFirstHolds, EpochHolds, SaveHolds,
     ExportBeginHolds, ExportFileHolds, WriteReceiptHolds, DieHolds DEF Trainer!Next
<1> QED BY <1>1, <1>2

LEMMA TrainerIsSound == TInv => Trainer!DistillIsSound
<1> SUFFICES ASSUME TInv PROVE Trainer!DistillIsSound
  OBVIOUS
<1>1. Trainer!CheckpointIsTraining
  BY DEF TInv, CheckpointIs, Trained, Trainer!CheckpointIsTraining
<1>2. Trainer!AcceptedIsOneTraining
  <2> SUFFICES ASSUME NEW steps \in 0..(MaxEpochs * EpochSteps), NEW qat \in BOOLEAN,
                      Trainer!Accepted(steps, qat), ~parted
               PROVE  /\ LET exports == Trainer!Exports(report.print)
                         IN  \A i \in DOMAIN exports : out[exports[i]] = out["model"]
                      /\ out["model"].print = report.print /\ Score(out["model"]) = report.best
                      /\ report.print.lora => Trainer!Merged = {out["model"]}
                      /\ qat => out["qat"] = out["model"]
    BY DEF Trainer!AcceptedIsOneTraining
  <2>1. PICK c \in Adapted : /\ c.print = report.print /\ Score(c) = report.best
                             /\ Exported(c, Len(Trainer!Exports(c.print)) + 1)
    BY DEF TInv, ReceiptIs, Trainer!Accepted
  <2>2. PICK x : x = Trainer!Exports(report.print)
    OBVIOUS
  <2>3. x \in Seq(Trainer!Files) /\ Len(x) \in Nat /\ DOMAIN x = 1..Len(x)
    BY <2>2, ExportsAre, LenProperties
  <2>4. \A i \in 1..Len(x) : out[x[i]] = c
    <3> TAKE i \in 1..Len(x)
    <3>1. i < Len(x) + 1
      BY <2>3
    <3> QED BY <2>1, <2>2, <3>1 DEF Exported
  <2>5. \A f : Occurs(f, x) => out[f] = c
    BY <2>4 DEF Occurs
  <2>6. /\ out["model"] = c /\ out["projection"] = c
        /\ report.print.lora => out["lora"] = c
        /\ report.print.qat => out["qat"] = c
    BY Zenon, <2>2, <2>5, ExportsAre
  <2>7. qat => report.print.qat
    BY DEF Trainer!Accepted
  <2>8. report.print.lora => Trainer!Merged = {out["model"]}
    BY <2>6 DEF Trainer!Merged
  <2> QED BY <2>1, <2>2, <2>3, <2>4, <2>6, <2>7, <2>8
<1> QED BY <1>1, <1>2 DEF Trainer!DistillIsSound

\* The trainer: for every number of epochs, however often training was killed and gone
\* on with, with whatever settings, a checkpoint is what one run would have saved, and
\* an output directory that the validator accepts is of one training.
THEOREM DistillIsSoundAlways ==
    ASSUME Trainer!DistillAssumption
    PROVE  Trainer!Spec => []Trainer!DistillIsSound
<1>1. Trainer!Init => TInv
  BY Zenon, TrainerBegins
<1>2. TInv /\ [Trainer!Next]_Trainer!vars => TInv'
  BY TrainerStep
<1>3. TInv => Trainer!DistillIsSound
  BY TrainerIsSound
<1> QED BY <1>1, <1>2, <1>3, PTL DEF Trainer!Spec
==============================================================================
