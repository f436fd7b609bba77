-------------------------------- MODULE Corpus --------------------------------
(***************************************************************************)
(* The calibration corpus (tools/*.py, mlx_gptq/data.py): blocks of text   *)
(* are combined without near copies of each other; token windows are cut   *)
(* from the protected corpus, the general one and the challenge documents; *)
(* the rows that are published say where each came from.  The prompts of   *)
(* the draft and coding corpora, and the agentic mix, are chosen from      *)
(* datasets of sessions; sampling is any choice of the size asked for.     *)
(* A text is a short sequence of words, a token its place in a stream, a   *)
(* prompt is told by its text and whether its length fits.                 *)
(***************************************************************************)
EXTENDS Integers, Sequences, FiniteSets, FiniteSetsExt, SequencesExt

CONSTANTS
    Corpora,     \* sequences of blocks; a block is a sequence of words
    Ngram, ExactMin, NearMin,
    Jaccard, Containment,   \* thresholds, <<numerator, denominator>>
    Lengths,     \* of a stream, in tokens
    Documents,   \* sequences of lengths: the challenge corpus
    Window,      \* tokens of a window
    MaxWindows,  \* bound: windows asked of one stratum
    Datasets,    \* sequences of rows [source, session, prompt]
    LengthOf,    \* [prompts -> Nat]
    Shortest, Longest,   \* minimum-chars, maximum-chars
    Quotas,      \* sequences of <<source, count>>
    Reserve,     \* sessions drawn for each one that is asked for
    Pools        \* sequences of rows [project, language, mode], in stable_rank order

VARIABLES
    blocks, next, kept, removed,    \* deduplicate
    want,                           \* [protected, general, documents, count]
    array, receipt,                 \* rows of windows, and what is told of them
    tool, rows, quotas,
    sessions,    \* choose_sessions: the pairs that may be read
    best,        \* by_session / best: sequence of rows, one of each pair
    seen,        \* rows read so far
    output,      \* the rows that are chosen
    outcome      \* "open", "written" or "failed"

corpusVars == <<blocks, next, kept, removed, want, array, receipt>>
promptVars == <<tool, rows, quotas, sessions, best, seen, output, outcome>>

-----------------------------------------------------------------------------
(* Deduplication                                                           *)

Grams(b) == IF Len(b) < Ngram THEN {} ELSE {SubSeq(b, i, i + Ngram - 1) : i \in 1..(Len(b) - Ngram + 1)}

\* Shared grams of a block with a kept one, as the two ratios that are compared with
\* the thresholds; 60 makes them whole for the few grams of a block.
Scale == 60
Jacc(b, k) == (Scale * Cardinality(Grams(b) \cap Grams(k))) \div Cardinality(Grams(b) \cup Grams(k))
Cont(b, k) == (Scale * Cardinality(Grams(b) \cap Grams(k))) \div Cardinality(Grams(b))
NearCopy(b, k) ==
    \/ Jacc(b, k) * Jaccard[2] >= Scale * Jaccard[1]
    \/ Cont(b, k) * Containment[2] >= Scale * Containment[1]

\* The larger of the two ratios, each in units of its threshold.
Score(b, k) ==
    LET j == Jacc(b, k) * Jaccard[2] * Containment[1]
        c == Cont(b, k) * Containment[2] * Jaccard[1]
    IN  IF j > c THEN j ELSE c

Block(i) == blocks[i]
Exact(b) == IF Len(b) >= ExactMin
            THEN {k \in ToSet(kept) : Block(k) = b /\ Len(Block(k)) >= ExactMin} ELSE {}
\* The inverted index leads to the kept blocks that share a gram.
Candidates(b) == IF Len(b) >= NearMin
                 THEN {k \in ToSet(kept) : /\ Len(Block(k)) >= NearMin
                                           /\ Grams(Block(k)) \cap Grams(b) # {}} ELSE {}
\* A mutant: whichever candidate comes first.
BestAny(b) == Candidates(b)
Best(b) == {k \in Candidates(b) : \A o \in Candidates(b) : Score(b, Block(k)) >= Score(b, Block(o))}

Examine ==
    /\ next <= Len(blocks)
    /\ next' = next + 1
    /\ LET b == Block(next)
       IN  IF Exact(b) # {}
           THEN removed' = removed \cup {[at |-> next, of |-> Max(Exact(b)), exact |-> TRUE]}
                /\ UNCHANGED kept
           ELSE IF Best(b) = {} THEN kept' = Append(kept, next) /\ UNCHANGED removed
           ELSE \E k \in Best(b) :
                   IF NearCopy(b, Block(k))
                   THEN removed' = removed \cup {[at |-> next, of |-> k, exact |-> FALSE]}
                        /\ UNCHANGED kept
                   ELSE kept' = Append(kept, next) /\ UNCHANGED removed
    /\ UNCHANGED <<blocks, want, array, receipt>>

-----------------------------------------------------------------------------
(* Windows                                                                 *)

\* A window as the tokens in it: of which stratum and document, from where.
Cut(stratum, doc, from) == [i \in 1..Window |-> <<stratum, doc, from + i - 1>>]

\* covering_windows: every token, the last window moved back over the tail.
\* A mutant leaves the tail out.
CoveringStartsShort(n) == [i \in 1..(n \div Window) |-> (i - 1) * Window]
CoveringStarts(n) ==
    LET even == [i \in 1..(n \div Window) |-> (i - 1) * Window]
    IN  IF n % Window = 0 THEN even ELSE Append(even, n - Window)

Ascending(S) == SetToSortSeq(S, <)
AscendingPairs(S) == SetToSortSeq(S, LAMBDA p, q : p[1] < q[1] \/ (p[1] = q[1] /\ p[2] < q[2]))

\* sampled_windows: some of the disjoint ones, in order.
Sampled(n, count) == {Ascending(S) : S \in kSubset(count, 0..(n \div Window - 1))}

\* sampled_document_windows: one of each document, then any others.
DocumentWindows(docs, count) ==
    LET all == UNION {{d} \X (0..(docs[d] \div Window - 1)) : d \in DOMAIN docs}
    IN  {AscendingPairs(S) : S \in {T \in kSubset(count, all) :
            \A d \in DOMAIN docs : \E p \in T : p[1] = d}}

\* build_stratified_calibration_tokens.py, once its arguments can be met.
Stratify ==
    /\ want.tool = "stratified" /\ array = <<>>
    /\ want.protected >= Window /\ want.general \div Window >= want.count
    /\ Len(want.documents) <= want.count /\ \A n \in ToSet(want.documents) : n >= Window
    /\ \E general \in Sampled(want.general, want.count),
          challenge \in DocumentWindows(want.documents, want.count) :
          LET starts == CoveringStarts(want.protected)
          IN  /\ array' = [i \in DOMAIN starts |-> Cut("protected", 0, starts[i])]
                          \o [i \in DOMAIN general |-> Cut("general", 0, general[i] * Window)]
                          \o [i \in DOMAIN challenge |->
                                Cut("challenge", challenge[i][1], challenge[i][2] * Window)]
              /\ receipt' = [protected |-> starts, general |-> general, challenge |-> challenge]
    /\ UNCHANGED <<blocks, next, kept, removed, want>>

\* build_priority_calibration_tokens.py: as many of the rest as the protected leave.  (Its
\* receipt names its fields otherwise in the code, where no other tool reads it.)
Prioritise ==
    LET starts == CoveringStarts(want.protected)
        needed == want.count - Len(starts)
    IN  /\ want.tool = "priority" /\ array = <<>>
        /\ want.protected >= Window /\ needed >= 0 /\ want.general \div Window >= needed
        /\ \E general \in Sampled(want.general, needed) :
              /\ array' = [i \in DOMAIN starts |-> Cut("protected", 0, starts[i])]
                          \o [i \in DOMAIN general |-> Cut("general", 0, general[i] * Window)]
              /\ receipt' = [protected |-> starts, general |-> general, challenge |-> <<>>]
        /\ UNCHANGED <<blocks, next, kept, removed, want>>

\* load_calibration: disjoint windows while there are enough, else any.
Disjoint(n) == (n - Window) \div Window
Load ==
    /\ want.tool = "load" /\ array = <<>> /\ want.general >= Window + 1
    /\ \E starts \in IF Disjoint(want.general) >= want.count
                     THEN {[i \in DOMAIN s |-> s[i] * Window] :
                              s \in {Ascending(S) : S \in kSubset(want.count, 0..(Disjoint(want.general) - 1))}}
                     ELSE {s \in [1..want.count -> 0..(want.general - Window)] :
                              \A i \in 1..(want.count - 1) : s[i] <= s[i + 1]} :
          array' = [i \in DOMAIN starts |-> Cut("general", 0, starts[i])]
    /\ UNCHANGED <<blocks, next, kept, removed, want, receipt>>

\* export_calibration_parquet.py: what it says of row i, from the receipt alone.
RowOf(i) ==
    LET p == Len(receipt.protected) g == Len(receipt.general)
    IN  CASE i <= p     -> <<"protected", 0, receipt.protected[i]>>
          [] i \in (p + 1)..(p + g) -> <<"general", 0, receipt.general[i - p] * Window>>
          [] OTHER      -> <<"challenge", receipt.challenge[i - p - g][1],
                             receipt.challenge[i - p - g][2] * Window>>

CorpusInit ==
    /\ next = 1 /\ kept = <<>> /\ removed = {} /\ array = <<>> /\ receipt = <<>>
    /\ \/ blocks \in Corpora /\ want = [tool |-> "none"]
       \/ /\ blocks = <<>>
          /\ want \in [tool : {"stratified"}, protected : Lengths, general : Lengths,
                       documents : Documents, count : 1..MaxWindows]
                 \cup [tool : {"priority"}, protected : Lengths, general : Lengths, count : 1..MaxWindows]
                 \cup [tool : {"load"}, general : Lengths, count : 1..MaxWindows]

CorpusNext == Examine \/ Stratify \/ Prioritise \/ Load

-----------------------------------------------------------------------------
(* Prompts                                                                 *)

Fits(r) == LengthOf[r.prompt] \in Shortest..Longest
Pair(r) == <<r.source, r.session>>
Asked == {q[1] : q \in ToSet(quotas)}
HeldAt(r) == {i \in DOMAIN best : Pair(best[i]) = Pair(r)}

\* Where a row stands in the dict, or at its end; a longer text takes the place.
Held(r, better) ==
    IF HeldAt(r) = {} THEN Append(best, r)
    ELSE LET i == CHOOSE i \in HeldAt(r) : TRUE
         IN  IF better THEN [best EXCEPT ![i] = r] ELSE best

-----------------------------------------------------------------------------
(* build_fable_dflash_prompts.py                                           *)

\* A mutant: the first row of a session is its candidate, whatever its length.
BetterNever(r) == FALSE
Better(r) == Fits(r) /\ \A i \in HeldAt(r) : ~Fits(best[i])

Read ==
    /\ tool = "dflash" /\ seen < Len(rows) /\ seen' = seen + 1
    /\ LET r == rows[seen + 1]
       IN  best' = IF r.source \in Asked THEN Held(r, Better(r)) ELSE best
    /\ UNCHANGED <<tool, rows, quotas, sessions, output, outcome>>

Available(source) == {r \in ToSet(best) : r.source = source /\ Fits(r)}

\* Copies of a text are dropped once the samples are drawn: a source may get fewer
\* prompts than its quota.  Which copy stays depends on the order of the sources.
Sample ==
    /\ tool = "dflash" /\ seen = Len(rows) /\ outcome = "open"
    /\ IF \E q \in ToSet(quotas) : Cardinality(Available(q[1])) < q[2]
       THEN outcome' = "failed" /\ UNCHANGED output
       ELSE /\ outcome' = "written"
            /\ \E drawn \in {d \in [DOMAIN quotas -> SUBSET ToSet(best)] :
                              \A i \in DOMAIN quotas :
                                 /\ d[i] \subseteq Available(quotas[i][1])
                                 /\ Cardinality(d[i]) = quotas[i][2]} :
                  output' \in {S \in SUBSET UNION {drawn[i] : i \in DOMAIN quotas} :
                     /\ \A r, o \in S : r # o => r.prompt # o.prompt
                     /\ \A i \in DOMAIN quotas : \A r \in drawn[i] \ S :
                           \E j \in 1..i : \E o \in drawn[j] \cap S : o.prompt = r.prompt}
    /\ UNCHANGED <<tool, rows, quotas, sessions, best, seen>>

-----------------------------------------------------------------------------
(* build_fable_coding_prompts.py                                           *)

SessionsOf(source) == {Pair(r) : r \in {r \in ToSet(rows) : r.source = source}}
ChooseSessions ==
    /\ tool = "coding" /\ sessions = {} /\ outcome = "open"
    /\ IF \E q \in ToSet(quotas) : Cardinality(SessionsOf(q[1])) < q[2]
       THEN outcome' = "failed" /\ UNCHANGED sessions
       ELSE /\ \E S \in SUBSET UNION {SessionsOf(s) : s \in Asked} :
                  /\ \A q \in ToSet(quotas) :
                        LET all == Cardinality(SessionsOf(q[1]))
                        IN  Cardinality(S \cap SessionsOf(q[1]))
                              = IF all < q[2] * Reserve THEN all ELSE q[2] * Reserve
                  /\ sessions' = S
            /\ UNCHANGED outcome
    /\ UNCHANGED <<tool, rows, quotas, best, seen, output>>

\* collect_rows: the longest text that fits, of each session that was chosen.
Collect ==
    /\ tool = "coding" /\ sessions # {} /\ seen < Len(rows) /\ seen' = seen + 1
    /\ LET r == rows[seen + 1]
       IN  best' = IF Pair(r) \in sessions /\ Fits(r)
                   THEN Held(r, \A i \in HeldAt(r) : LengthOf[r.prompt] > LengthOf[best[i].prompt])
                   ELSE best
    /\ UNCHANGED <<tool, rows, quotas, sessions, output, outcome>>

\* A mutant: a copy counts before it is left out.
TakenCounting(taken, r, quota) ==
    IF Cardinality({t \in ToSet(taken) : t.source = r.source}) >= quota THEN taken
    ELSE Append(taken, r)
\* One row of "for row in ordered": past its quota, or a copy, it is left out.
Taken(taken, r, quota) ==
    IF \/ Cardinality({t \in ToSet(taken) : t.source = r.source}) >= quota
       \/ \E t \in ToSet(taken) : t.prompt = r.prompt
    THEN taken ELSE Append(taken, r)

Ordered == FlattenSeq([i \in DOMAIN quotas |-> SelectSeq(best, LAMBDA r : r.source = quotas[i][1])])
QuotaOf(source) == (CHOOSE q \in ToSet(quotas) : q[1] = source)[2]
Finish ==
    /\ tool = "coding" /\ sessions # {} /\ seen = Len(rows) /\ outcome = "open"
    /\ LET taken == FoldLeft(LAMBDA t, r : Taken(t, r, QuotaOf(r.source)), <<>>, Ordered)
       IN  IF \A q \in ToSet(quotas) :
                 Cardinality({i \in DOMAIN taken : taken[i].source = q[1]}) = q[2]
           THEN output' = ToSet(taken) /\ outcome' = "written"
           ELSE outcome' = "failed" /\ UNCHANGED output
    /\ UNCHANGED <<tool, rows, quotas, sessions, best, seen>>

-----------------------------------------------------------------------------
(* build_agentic_calibration_mix.py                                        *)

Count(field, value) == Cardinality({i \in DOMAIN best : rows[best[i]][field] = value})
Desired == IF Len(best) % 10 \in {0, 3, 7} THEN "exact" ELSE "critic"
\* A mutant: languages come before projects.
DiversityByLanguage(r) ==
    <<-Count("language", r.language), IF Count("project", r.project) = 0 THEN 1 ELSE 0, IF r.mode = Desired THEN 1 ELSE 0, -Count("mode", r.mode)>>
Diversity(r) ==
    <<IF Count("project", r.project) = 0 THEN 1 ELSE 0, -Count("language", r.language), IF r.mode = Desired THEN 1 ELSE 0, -Count("mode", r.mode)>>
Above(a, b) == \E k \in 1..4 : a[k] > b[k] /\ \A j \in 1..(k - 1) : a[j] = b[j]

\* select_diverse: the best of what remains, the last in rank among equals.  The
\* selection of a smaller count is a prefix of this one; too few rows raise.
Remaining == DOMAIN rows \ ToSet(best)
SelectDiverse ==
    /\ tool = "diverse" /\ Remaining # {}
    /\ \E i \in Remaining :
          /\ \A j \in Remaining : \/ Above(Diversity(rows[i]), Diversity(rows[j]))
                                  \/ Diversity(rows[i]) = Diversity(rows[j]) /\ j <= i
          /\ best' = Append(best, i)
    /\ UNCHANGED <<tool, rows, quotas, sessions, seen, output, outcome>>

PromptsInit ==
    /\ sessions = {} /\ best = <<>> /\ seen = 0 /\ output = {} /\ outcome = "open"
    /\ \/ tool \in {"dflash", "coding"} /\ rows \in Datasets /\ quotas \in Quotas
       \/ tool = "diverse" /\ rows \in Pools /\ quotas = <<>>
PromptsNext == Read \/ Sample \/ ChooseSessions \/ Collect \/ Finish \/ SelectDiverse

-----------------------------------------------------------------------------
(* Properties                                                              *)

\* Of the blocks examined each is kept or removed, and what is removed has its copy
\* among the kept blocks before it, in text or above a threshold.  No kept block
\* that is long enough is such a copy of an earlier kept one: a second pass over the
\* output removes nothing.
NoCopiesStay ==
    /\ ToSet(kept) \cup {r.at : r \in removed} = 1..(next - 1)
    /\ \A r \in removed :
          /\ r.of \in ToSet(kept) /\ r.of < r.at /\ r.at \notin ToSet(kept)
          /\ IF r.exact THEN Block(r.of) = Block(r.at) ELSE NearCopy(Block(r.at), Block(r.of))
    /\ \A i, j \in DOMAIN kept : i < j =>
          LET early == Block(kept[i]) late == Block(kept[j])
          IN  /\ Len(late) >= ExactMin => early # late
              /\ Len(late) >= NearMin /\ Len(early) >= NearMin /\ Grams(late) # {}
                    => ~NearCopy(late, early)

\* No token of the protected corpus is left out, every challenge document has a
\* window, the strata have the sizes asked for and share no token, no token is taken
\* twice but in the protected tail, and what the rows are said to be they are.
WindowsAreTheStrata ==
    (array # <<>> /\ want.tool # "load") =>
        LET of(s) == SelectSeq(array, LAMBDA w : w[1][1] = s)
            tokens(s) == {w[i] : w \in ToSet(of(s)), i \in 1..Window}
        IN  /\ tokens("protected") = {<<"protected", 0, i>> : i \in 0..(want.protected - 1)}
            /\ Len(of("protected")) <= want.protected \div Window + 1
            /\ \A s \in {"general", "challenge"} : Cardinality(tokens(s)) = Len(of(s)) * Window
            /\ tokens("general") \subseteq {<<"general", 0, i>> : i \in 0..(want.general - 1)}
            /\ \A i \in DOMAIN array : array[i] = Cut(RowOf(i)[1], RowOf(i)[2], RowOf(i)[3])
            /\ IF want.tool = "priority" THEN Len(array) = want.count
               ELSE /\ Len(of("general")) = want.count /\ Len(of("challenge")) = want.count
                    /\ \A d \in DOMAIN want.documents :
                          /\ \E w \in ToSet(of("challenge")) : w[1][2] = d
                          /\ \A t \in tokens("challenge") : t[2] = d => t[3] < want.documents[d]

\* Windows drawn from a mix lie in it, and are disjoint when it holds one more than
\* asked for.
DrawnWindowsFit ==
    (array # <<>> /\ want.tool = "load") =>
        /\ Len(array) = want.count
        /\ \A w \in ToSet(array) : w[1][3] >= 0 /\ w[Window][3] < want.general
        /\ want.general >= (want.count + 1) * Window =>
              \A i, j \in DOMAIN array : i < j => array[i][Window][3] < array[j][1][3]

CorpusInvariant == NoCopiesStay /\ WindowsAreTheStrata /\ DrawnWindowsFit

\* Prompts fit, no two are of one session or the same text; in the coding corpus
\* every source has its quota and each session its longest text, else nothing is
\* written; in the other a source falls short only by texts that another one has,
\* and fails only when it has too few sessions with a text that fits.
PromptsAreAsAsked ==
    (tool \in {"dflash", "coding"} /\ outcome # "open") =>
        LET fitting(s) == {Pair(r) : r \in {r \in ToSet(rows) : r.source = s /\ Fits(r)}}
        IN  IF outcome = "failed"
            THEN tool = "dflash" => \E q \in ToSet(quotas) : Cardinality(fitting(q[1])) < q[2]
            ELSE /\ \A r \in output : r \in ToSet(rows) /\ Fits(r)
                 /\ \A r, o \in output : r # o => Pair(r) # Pair(o) /\ r.prompt # o.prompt
                 /\ \A q \in ToSet(quotas) :
                       LET got == {r \in output : r.source = q[1]}
                       IN  /\ Cardinality(got) <= q[2]
                           /\ Cardinality(got) < q[2] =>
                                 /\ tool = "dflash"
                                 /\ \E r, o \in ToSet(rows) :
                                       /\ r.source = q[1] /\ o.source \in Asked /\ Fits(r)
                                       /\ Pair(r) # Pair(o) /\ r.prompt = o.prompt
                 /\ tool = "coding" => \A r \in output : \A o \in ToSet(rows) :
                       Pair(o) = Pair(r) /\ Fits(o) => LengthOf[o.prompt] <= LengthOf[r.prompt]

\* No row twice, and no project twice while another one is left.
DiverseRows ==
    tool = "diverse" =>
        LET projects == {rows[i].project : i \in DOMAIN rows}
        IN  /\ Cardinality(ToSet(best)) = Len(best)
            /\ \A k \in DOMAIN best :
                  Cardinality({rows[best[i]].project : i \in 1..k})
                    = IF k < Cardinality(projects) THEN k ELSE Cardinality(projects)

PromptsInvariant == PromptsAreAsAsked /\ DiverseRows
===============================================================================
