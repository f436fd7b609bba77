-------------------------------- MODULE Holdout --------------------------------
(***************************************************************************)
(* The evaluation texts that must share nothing with the calibration text: *)
(* build_agentic_coding_holdout.py (files of pinned repositories) and      *)
(* build_ultra_fineweb_holdout.py (web documents).  A text is a sequence   *)
(* of words; two texts overlap when they share a run of Width words (20 in *)
(* the code).  A run may die or raise and be repeated with another         *)
(* calibration text; nothing is removed from the output directory.         *)
(***************************************************************************)
EXTENDS Integers, Sequences, FiniteSets, FiniteSetsExt, SequencesExt

CONSTANTS
    Repositories,  \* sequences of repositories: sequences of [path, category, plain, text],
                   \* in the order of selection_key, with distinct paths
    Webs,          \* sequences of documents [key, domain, score, plain, text], distinct keys
    Calibrations,  \* the calibration texts
    FileHeader,        \* the words of render_repository, which stand before each file
    Width,
    Target, Quota, \* characters per repository, and [category -> share of them]
    Minimum, MinimumCombined, CandidateLimit, Runs,
    MaxTotal, MaxSeqLen, MaxChunk   \* bounds of the arguments of window_plan

VARIABLES
    tool,        \* "agentic" or "fineweb"
    inputs,      \* the repositories, or the documents
    calibration, \* calibration_text of this run
    step,        \* "idle", "select", "combine", "check", "manifest" or "receipt"
    done,        \* what is selected: sequence, for each repository, of its files
    heap,        \* candidates: documents kept of those scanned
    scanned,
    combined, rows,  \* the text and the manifest on disk
    receipt,
    runs,
    plan,        \* the arguments of window_plan: [total, seqLen, stride, maxChunks]
    begin,       \* where the next window begins
    reached,     \* previous_end
    windows      \* <<begin, end, scored>> of each

NoText == <<>>
vars == <<tool, inputs, calibration, step, done, heap, scanned, combined, rows, receipt, runs>>
scoringVars == <<plan, begin, reached, windows>>

\* shingle_hashes
Shingles(text) == {SubSeq(text, i, i + Width - 1) : i \in 1..(Len(text) - Width + 1)}
Overlap(text, other) == Shingles(text) \cap Shingles(other) # {}

Total(files) == FoldLeft(LAMBDA n, f : n + Len(f.text), 0, files)

-----------------------------------------------------------------------------
(* Agentic coding                                                          *)

\* candidate_files: eligible path, size, encoding and not generated are "plain".
Candidates(repository) ==
    SelectSeq(repository, LAMBDA f : f.plain /\ ~Overlap(f.text, calibration))

\* Files from the front until their characters reach the limit.
FilesUntil(files, limit, before) ==
    FoldLeft(LAMBDA chosen, f : IF chosen # <<>> /\ before + Total(chosen) >= limit
                                THEN chosen ELSE Append(chosen, f), <<>>, files)

\* A mutant: the top-up forgets which files the categories have taken.
SelectFilesAgain(candidates) ==
    LET first == FlattenSeq([c \in 1..3 |->
                    FilesUntil(SelectSeq(candidates, LAMBDA f : f.category = c), Quota[c], 0)])
        chosen == IF Total(first) >= Target THEN first
                  ELSE first \o FilesUntil(candidates, Target, Total(first))
    IN  SortSeq(chosen, LAMBDA f, g : f.path < g.path)
\* select_files: each category's share, then any file up to the target.
SelectFiles(candidates) ==
    LET first == FlattenSeq([c \in 1..3 |->
                    FilesUntil(SelectSeq(candidates, LAMBDA f : f.category = c), Quota[c], 0)])
        rest == SelectSeq(candidates, LAMBDA f : f \notin ToSet(first))
        chosen == IF Total(first) >= Target THEN first
                  ELSE first \o FilesUntil(rest, Target, Total(first))
    IN  SortSeq(chosen, LAMBDA f, g : f.path < g.path)

Render(files) == FlattenSeq([i \in DOMAIN files |-> FileHeader \o files[i].text])

SelectRepository ==
    /\ tool = "agentic" /\ step = "select" /\ Len(done) < Len(inputs)
    /\ LET chosen == SelectFiles(Candidates(inputs[Len(done) + 1]))
       IN  IF Total(chosen) < Minimum
           THEN step' = "idle" /\ UNCHANGED done
           ELSE done' = Append(done, chosen) /\ UNCHANGED step
    /\ UNCHANGED <<tool, inputs, calibration, heap, scanned, combined, rows, receipt, runs>>

\* The text is written, and only then measured and compared.
WriteCombined ==
    /\ tool = "agentic" /\ step = "select" /\ Len(done) = Len(inputs)
    /\ combined' = FlattenSeq([i \in DOMAIN done |-> Render(done[i])])
    /\ step' = "check"
    /\ UNCHANGED <<tool, inputs, calibration, done, heap, scanned, rows, receipt, runs>>

\* A mutant: the size alone is looked at.
CheckSize ==
    /\ step = "check"
    /\ step' = IF Len(combined) < MinimumCombined THEN "idle" ELSE "manifest"
    /\ UNCHANGED <<tool, inputs, calibration, done, heap, scanned, combined, rows, receipt, runs>>
CheckCombined ==
    /\ step = "check"
    /\ step' = IF Len(combined) < MinimumCombined \/ Overlap(combined, calibration)
               THEN "idle" ELSE "manifest"
    /\ UNCHANGED <<tool, inputs, calibration, done, heap, scanned, combined, rows, receipt, runs>>

-----------------------------------------------------------------------------
(* Ultra-FineWeb                                                           *)

Usable(d) == d.plain /\ ~Overlap(d.text, calibration)

Kept(held, d) ==
    LET largest == CHOOSE h \in held : \A o \in held : o.key <= h.key
    IN  IF Cardinality(held) < CandidateLimit THEN held \cup {d}
        ELSE IF d.key < largest.key THEN (held \ {largest}) \cup {d} ELSE held

Scan ==
    /\ tool = "fineweb" /\ step = "select" /\ scanned < Len(inputs)
    /\ scanned' = scanned + 1
    /\ heap' = IF Usable(inputs[scanned + 1]) THEN Kept(heap, inputs[scanned + 1]) ELSE heap
    /\ UNCHANGED <<tool, inputs, calibration, step, done, combined, rows, receipt, runs>>

\* By score (those under minimum-semantic-score have 0), then by key.
InOrder(held) == SetToSortSeq({d \in held : d.score > 0}, LAMBDA c, d :
                    c.score > d.score \/ (c.score = d.score /\ c.key < d.key))
\* One document of a domain, until there are enough characters; 0 is no domain.
OnePerDomain(ordered) ==
    FoldLeft(LAMBDA chosen, d :
                IF \/ d.domain = 0 \/ \E c \in ToSet(chosen) : c.domain = d.domain
                   \/ Total(chosen) >= Target
                THEN chosen ELSE Append(chosen, d), <<>>, ordered)

Choose ==
    /\ tool = "fineweb" /\ step = "select" /\ scanned = Len(inputs)
    /\ LET chosen == OnePerDomain(InOrder(heap))
       IN  IF Total(chosen) < Target
           THEN step' = "idle" /\ UNCHANGED <<done, combined>>
           ELSE /\ done' = <<chosen>> /\ step' = "manifest"
                /\ combined' = FlattenSeq([i \in DOMAIN chosen |-> chosen[i].text])
    /\ UNCHANGED <<tool, inputs, calibration, heap, scanned, rows, receipt, runs>>

-----------------------------------------------------------------------------
(* Runs                                                                    *)

Start ==
    /\ step = "idle" /\ runs < Runs /\ runs' = runs + 1
    /\ calibration' \in Calibrations
    /\ step' = "select" /\ done' = <<>> /\ heap' = {} /\ scanned' = 0
    /\ UNCHANGED <<tool, inputs, combined, rows, receipt>>

WriteManifest ==
    /\ step = "manifest" /\ step' = "receipt" /\ rows' = FlattenSeq(done)
    /\ UNCHANGED <<tool, inputs, calibration, done, heap, scanned, combined, receipt, runs>>

\* The receipt holds the hashes of the two files as they are on disk.
WriteReceipt ==
    /\ step = "receipt" /\ step' = "idle"
    /\ receipt' = [calibration |-> calibration, text |-> combined, rows |-> rows]
    /\ UNCHANGED <<tool, inputs, calibration, done, heap, scanned, combined, rows, runs>>

Die ==
    /\ step # "idle" /\ step' = "idle"
    /\ UNCHANGED <<tool, inputs, calibration, done, heap, scanned, combined, rows, receipt, runs>>

Init ==
    /\ \/ tool = "agentic" /\ inputs \in Repositories
       \/ tool = "fineweb" /\ inputs \in Webs
    /\ calibration = <<>> /\ step = "idle" /\ done = <<>> /\ heap = {} /\ scanned = 0
    /\ combined = <<>> /\ rows = <<>> /\ receipt = NoText /\ runs = 0

Next == \/ SelectRepository \/ WriteCombined \/ CheckCombined \/ Scan \/ Choose
        \/ Start \/ WriteManifest \/ WriteReceipt \/ Die
Spec == Init /\ [][Next]_vars

-----------------------------------------------------------------------------
(* Measuring: perplexity is taken over windows of a held-out text (modal/  *)
(* bench_model.py); each carries the end of the one before as context and  *)
(* scores the rest.                                                        *)

Smaller(a, b) == IF a < b THEN a ELSE b
Larger(a, b) == IF a > b THEN a ELSE b

\* perplexity() wants more text than one window; the other checks are window_plan's.
ScoringInit ==
    /\ plan \in {p \in [total: 1..MaxTotal, seqLen: 1..MaxSeqLen, stride: 1..MaxSeqLen,
                        maxChunks: 1..MaxChunk] : p.stride <= p.seqLen /\ p.total > p.seqLen}
    /\ begin = 0 /\ reached = 0 /\ windows = <<>>

\* A mutant: the window counts from where the one before ended.
ScoredFromReached(end) == end - reached
\* The first position of a window has no predecessor in it.
Scored(end) == end - Larger(begin + 1, reached)

AddWindow ==
    LET end == Smaller(begin + plan.seqLen, plan.total)
    IN  /\ begin < plan.total /\ reached < plan.total /\ Len(windows) < plan.maxChunks
        /\ reached >= begin
        /\ windows' = Append(windows, <<begin, end, Scored(end)>>)
        /\ reached' = end /\ begin' = begin + plan.stride
        /\ UNCHANGED plan

ScoringSpec == ScoringInit /\ [][AddWindow]_scoringVars

\* causal_score_slices: the labels of a window, and for each the position whose
\* logits are held against it.
Labels(w) == (w[2] - w[3])..(w[2] - 1)
LogitsFor(w) == (w[2] - w[3] - 1)..(w[2] - 2)

-----------------------------------------------------------------------------
(* Properties                                                              *)

\* A receipt whose text and manifest are those on disk vouches for them: no document
\* of the manifest shares a run of words with the calibration text the receipt names,
\* the text holds these documents and, of the agentic tool, shares none as a whole.
HoldoutIsClean ==
    receipt # NoText /\ receipt.text = combined /\ receipt.rows = rows =>
        /\ \A i \in DOMAIN rows : ~Overlap(rows[i].text, receipt.calibration)
        /\ tool = "agentic" => combined = Render(rows) /\ ~Overlap(combined, receipt.calibration)
        /\ tool = "fineweb" => Len(combined) = Total(rows) /\ Total(rows) >= Target

\* No file twice; of each repository the target is reached or every candidate is in,
\* each category has its share or all its files, and of those beyond their category's
\* share the last one was still needed for the target.
FilesAreAsAsked ==
    tool = "agentic" => \A r \in DOMAIN done :
        LET files == done[r]
            candidates == Candidates(inputs[r])
            of(c, s) == SelectSeq(s, LAMBDA f : f.category = c)
            at(f) == CHOOSE i \in DOMAIN candidates : candidates[i] = f
            earlier(f) == of(f.category, SubSeq(candidates, 1, at(f) - 1))
            beyond == {f \in ToSet(files) : /\ earlier(f) # <<>>
                                            /\ Total(earlier(f)) >= Quota[f.category]}
        IN  /\ \A i, j \in DOMAIN files : i < j => files[i].path < files[j].path
            /\ Total(files) >= Target \/ ToSet(files) = ToSet(candidates)
            /\ \A c \in 1..3 : \/ Total(of(c, files)) >= Quota[c]
                               \/ Len(of(c, files)) = Len(of(c, candidates))
            /\ \A f \in beyond : (\A e \in beyond : at(e) <= at(f))
                                  => Total(files) - Len(f.text) < Target

\* The candidates are those with the smallest keys, and the domains of what is
\* selected differ, each with its best candidate.
DocumentsAreAsAsked ==
    tool = "fineweb" =>
        LET usable == {inputs[i] : i \in {i \in 1..scanned : Usable(inputs[i])}}
        IN  /\ Cardinality(heap) = IF Cardinality(usable) < CandidateLimit
                                   THEN Cardinality(usable) ELSE CandidateLimit
            /\ \A d \in heap : \A o \in usable \ heap : d.key < o.key
            /\ \A k \in DOMAIN done : \A i, j \in DOMAIN done[k] :
                  /\ i # j => done[k][i].domain # done[k][j].domain
                  /\ \A o \in heap : o.domain = done[k][i].domain => o.score <= done[k][i].score

\* Every token of the windows so far but the first is scored once, never against
\* logits from outside its window, and from no less context than the windows
\* share; where they share none their first tokens are left out.  A capped plan
\* is short, never full of gaps.
EachTokenScoredOnce ==
    /\ \A i \in 1..(reached - 1) :
          LET scoring == {k \in DOMAIN windows : i \in Labels(windows[k])}
          IN  IF plan.stride = plan.seqLen /\ i % plan.stride = 0 THEN scoring = {}
              ELSE /\ Cardinality(scoring) = 1
                   /\ \A k \in scoring :
                         i - windows[k][1] >= Smaller(i, Larger(1, plan.seqLen - plan.stride))
    /\ \A k \in DOMAIN windows : LogitsFor(windows[k]) \subseteq windows[k][1]..(windows[k][2] - 1)
    /\ reached < plan.total => reached >= begin
HoldoutInvariant == HoldoutIsClean /\ FilesAreAsAsked /\ DocumentsAreAsAsked
================================================================================
