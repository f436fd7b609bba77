---------------------------- MODULE ReplyLoopProofs ----------------------------
(* What holds of the speculative engine and of its consumer for every target,    *)
(* draft model, prompt, block and client.                                        *)
(*                                                                               *)
(* The first part is about the engine (SpecDecode): both caches hold the         *)
(* committed text, the draft model sees every position once, what is published   *)
(* is true, a finished reply is remembered, and the tokens handed out are those  *)
(* of the plain greedy decoder.  Its invariant follows a request: the prompt is  *)
(* read up to ReadSoFar, then every cycle commits a segment whose tokens are the *)
(* target's, one by one.                                                         *)
(*                                                                               *)
(* The second part is about what the consumer makes of the engine's tokens       *)
(* (ReplyLoop): the responses are these tokens, and each reply ends once.  Its   *)
(* invariant looks at the responses with the one held back, Sent: none of them   *)
(* has a reason to end but the last, and the last has one exactly when the       *)
(* client's reply is over; and at what the engine's own end says of the tokens.  *)
EXTENDS ReplyLoop, SequenceTheorems, TLAPS

\* argmax over the vocabulary gives a token of it, whatever was read.
TargetSpeaks == \A a, b \in Seq(Token) : Target(a, b) \in Token

(* ----------------------------- the invariant ---------------------------- *)

Prefilling == pc \in {"prefill", "boundary", "tail", "freeze"}
Cycling == pc \in {"cycle", "verify", "emit"}
Ending == pc \in {"finish", "summary", "return"}
PlainRuns == pc \in {"plain", "plain first", "plain loop"}
Over == pc \in {"done", "closed"}

\* Which decoder runs; a snapshot is taken only where it ends within the boundary.
RightDecoder ==
    /\ PlainRuns => BeyondLimit(req)
    /\ Prefilling \/ pc = "decode" \/ Cycling \/ pc \in {"finish", "summary"} => ~ BeyondLimit(req)
    /\ Over => event = None

\* The tokens of the prompt that were read or restored.
ReadSoFar ==
    CASE pc = "prefill" -> IF SnapLen(req) = req.boundary THEN req.boundary ELSE pos
      [] pc \in {"boundary", "tail"} -> req.boundary
      [] OTHER -> Len(req.prompt)

\* The features of the prompt as far as it was read.
HiddenTo(r, n) == [i \in 1..Len(r.prompt) |-> IF i <= n THEN FeaturesOf(r, r.prompt)[i] ELSE Hole]

\* While the prompt is read, nothing else has happened.
PromptIsRead ==
    Prefilling \/ pc = "decode" =>
        /\ pc = "prefill" => pos <= ChunkEnd /\ (SnapLen(req) = req.boundary => pos = ChunkEnd)
        /\ pc = "tail" => req.boundary < Len(req.prompt)
        /\ SnapLen(req) <= ReadSoFar
        /\ kv = Prefix(req.prompt, ReadSoFar) /\ gdn = kv
        /\ ReadSoFar > 0 => logits = Greedy(kv)
        /\ feats.hidden = HiddenTo(req, ReadSoFar)
        /\ pc = "decode" => staged = logits /\ start = Len(req.prompt)

NothingYet ==
    Prefilling \/ pc = "decode" \/ pc = "plain" =>
        /\ committed = <<>> /\ given = 0 /\ generated = <<>> /\ emitted = <<>> /\ ~ skip
        /\ draft.fed = <<>> /\ draft.ahead = None
        /\ feats.chunks = <<>> /\ ~ feats.collecting
        /\ pc # "decode" => feats.frozen = None

\* The block that is verified, and the segment that is handed out.
Blocks ==
    Decoding =>
        /\ pc # "emit" => given = Len(committed)
        /\ pc = "emit" => committed # <<>>
        /\ Len(committed) <= Block
        /\ given <= Len(generated)
        /\ \A i \in 1..given : generated[Len(generated) - given + i] = committed[i]
        /\ Len(Text) <= Projected(req)
        /\ pc = "verify" =>
              /\ Len(verify) \in 1..Block /\ Len(verify) <= req.max - Len(generated)
              /\ req.tree # "no" => \A i \in DOMAIN branches :
                    Len(branches[i]) = Len(verify) /\ branches[i][1] = logits
              /\ source = "tree" => req.tree # "no"

\* Every token of the text is the target's after those before it.
TextIsGreedy ==
    Decoding => \A i \in Len(req.prompt) + 1..Len(Text) : Text[i] = Greedy(Prefix(Text, i - 1))

\* The first token is yielded before it is generated; after that they agree.
TokensAreEmitted ==
    Decoding =>
        /\ skip => /\ Cycling /\ req.max > 0 /\ generated = <<>> /\ given = 0
                   /\ emitted = <<IF pc = "emit" THEN committed[1] ELSE logits>>
        /\ ~ skip => emitted = generated

\* A stop token is in the last segment or nowhere, and the reply ends for a reason.
Stops ==
    /\ Decoding /\ Cycling => \A i \in 1..Len(generated) - given : generated[i] \notin Stop
    /\ Decoding /\ pc \in {"cycle", "verify"} => \A i \in 1..Len(generated) : generated[i] \notin Stop
    /\ Ending => Len(emitted) = req.max \/ \E i \in 1..Len(emitted) : emitted[i] \in Stop

\* The plain decoder.
PlainText ==
    /\ pc = "plain first" =>
          /\ kv = req.prompt /\ gdn = kv /\ logits = Greedy(kv)
          /\ generated = <<logits>> /\ emitted = <<>>
    /\ pc = "plain loop" =>
          /\ gdn = kv /\ logits \in Token /\ Context = Append(kv, logits)
          /\ generated # <<>> /\ generated[Len(generated)] = logits
          /\ Len(generated) <= req.max
          /\ emitted = generated
          /\ \A i \in 1..Len(generated) - 1 : generated[i] \notin Stop

\* What the draft cache has been fed, or will be with the features at hand.
Unfinished == Block > 1 /\ Len(Text) < Projected(req)
DraftIsFed ==
    Decoding /\ Cycling =>
        /\ req.tree # "no" => draft.ahead = None
        /\ pc # "verify" /\ draft.ahead # None =>
              /\ ~ req.profile /\ Unfinished
              /\ draft.ahead.len = BlockLen(draft.limit, Projected(req) - Len(Text)) - 1
              /\ draft.ahead.len > 0 /\ Len(draft.ahead.tail) = draft.ahead.len
              /\ draft.ahead.first = logits
              /\ draft.fed = FeaturesOf(req, Text)
        /\ pc # "verify" /\ draft.ahead = None /\ Unfinished =>
              draft.fed \o feats.hidden = FeaturesOf(req, Text)
        /\ pc = "verify" /\ source # "none" => draft.fed = FeaturesOf(req, Text)
        /\ pc = "verify" /\ source = "none" => Block = 1 \/ Len(Text) + 1 = Projected(req)

\* The features kept for the generation snapshot, and the sidecar.
FeaturesAreKept ==
    /\ feats.frozen # None => feats.frozen = FeaturesOf(req, req.prompt)
    /\ Decoding => IF feats.collecting THEN FeaturesOf(req, req.prompt) \o feats.chunks = FeaturesOf(req, Text)
                                       ELSE feats.chunks = <<>>
    /\ side # None => /\ side.at = req.boundary
                      /\ side.gdn = Prefix(req.prompt, req.boundary)
                      /\ side.logits = Greedy(side.gdn)

\* While the cache stays open, everything needed to remember the reply is there.
Remembering ==
    ~ BeyondLimit(req) /\ Collects =>
        /\ pc = "decode" \/ Decoding => feats.frozen # None
        /\ Decoding => feats.collecting
        /\ (pc \in {"tail", "freeze", "decode"} \/ Decoding) /\ req.max > 0
              /\ req.boundary >= SidecarMin => side # None
        /\ pc \in {"summary", "return", "done"} /\ emitted # <<>> =>
              \E p \in published :
                 /\ p.kind = "generation"
                 /\ p.tokens = req.prompt \o emitted
                 /\ req.boundary >= SidecarMin => p.side # None /\ p.side.at = req.boundary

IInv ==
    /\ TypeOK /\ RightDecoder
    /\ PromptIsRead /\ NothingYet
    /\ CachesHoldTheText /\ Blocks /\ TextIsGreedy
    /\ TokensAreEmitted /\ Stops /\ PlainText
    /\ DraftIsFed /\ FeaturesAreKept /\ Remembering
    /\ PublishedStatesAreTrue

(* -------------------------------- sequences ------------------------------ *)

LEMMA PrefixType ==
    ASSUME NEW S, NEW s \in Seq(S), NEW n \in 0..Len(s)
    PROVE  /\ Prefix(s, n) \in Seq(S) /\ Len(Prefix(s, n)) = n
           /\ \A i \in 1..n : Prefix(s, n)[i] = s[i]
  BY DEF Prefix

LEMMA PrefixAll ==
    ASSUME NEW S, NEW s \in Seq(S)
    PROVE  Prefix(s, Len(s)) = s
  BY DEF Prefix

LEMMA PrefixOfConcat ==
    ASSUME NEW S, NEW s \in Seq(S), NEW t \in Seq(S)
    PROVE  /\ \A n \in 0..Len(s) : Prefix(s \o t, n) = Prefix(s, n)
           /\ \A n \in 0..Len(t) : Prefix(s \o t, Len(s) + n) = s \o Prefix(t, n)
  BY DEF Prefix

LEMMA PrefixExtends ==
    ASSUME NEW S, NEW s \in Seq(S), NEW m \in 0..Len(s), NEW n \in m..Len(s)
    PROVE  /\ SubSeq(s, m + 1, n) \in Seq(S) /\ Len(SubSeq(s, m + 1, n)) = n - m
           /\ Prefix(s, m) \o SubSeq(s, m + 1, n) = Prefix(s, n)
           /\ Prefix(Prefix(s, n), m) = Prefix(s, m)
  BY DEF Prefix

LEMMA Concat ==
    ASSUME NEW S, NEW s \in Seq(S), NEW t \in Seq(S)
    PROVE  /\ s \o t \in Seq(S) /\ Len(s \o t) = Len(s) + Len(t)
           /\ s \o <<>> = s
           /\ \A i \in 1..Len(s) : (s \o t)[i] = s[i]
           /\ \A i \in 1..Len(t) : (s \o t)[Len(s) + i] = t[i]
  OBVIOUS

LEMMA ConcatEqual ==
    ASSUME NEW S, NEW a \in Seq(S), NEW b \in Seq(S), NEW c \in Seq(S),
           Len(c) = Len(a) + Len(b),
           \A i \in 1..Len(a) : c[i] = a[i],
           \A i \in 1..Len(b) : c[Len(a) + i] = b[i]
    PROVE  a \o b = c
<1>1. \A i \in 1..Len(c) : c[i] = (a \o b)[i]
  <2> SUFFICES ASSUME NEW i \in 1..Len(c) PROVE c[i] = (a \o b)[i]
    OBVIOUS
  <2>1. CASE i <= Len(a)
    BY <2>1, Concat
  <2>2. CASE i > Len(a)
    <3>1. i - Len(a) \in 1..Len(b) /\ Len(a) + (i - Len(a)) = i
      BY <2>2
    <3> QED BY <3>1, Concat
  <2> QED BY <2>1, <2>2
<1> QED BY <1>1, Concat, SeqEqual

\* The features of a text: of its parts, and one position after the other.
LEMMA FeaturesType ==
    ASSUME NEW r \in Requests, NEW s \in Seq(Token)
    PROVE  /\ FeaturesOf(r, s) \in Seq(Seq(Token)) /\ Len(FeaturesOf(r, s)) = Len(s)
           /\ \A i \in 1..Len(s) : FeaturesOf(r, s)[i] =
                 IF i <= SnapLen(r) /\ i \notin r.cover THEN Hole ELSE Prefix(s, i)
<1>1. \A i \in 1..Len(s) : (IF i <= SnapLen(r) /\ i \notin r.cover THEN Hole ELSE Prefix(s, i)) \in Seq(Token)
  BY PrefixType DEF Hole
<1> QED BY <1>1 DEF FeaturesOf

LEMMA FeaturesOfPrefix ==
    ASSUME NEW r \in Requests, NEW s \in Seq(Token), NEW n \in 0..Len(s)
    PROVE  Prefix(FeaturesOf(r, s), n) = FeaturesOf(r, Prefix(s, n))
<1>1. Prefix(s, n) \in Seq(Token) /\ Len(Prefix(s, n)) = n
  BY PrefixType
<1>2. \A i \in 1..n : Prefix(Prefix(s, n), i) = Prefix(s, i)
  BY PrefixExtends
<1> DEFINE f == Prefix(FeaturesOf(r, s), n)
           g == FeaturesOf(r, Prefix(s, n))
<1>3. f \in Seq(Seq(Token)) /\ Len(f) = n /\ \A i \in 1..n : f[i] = FeaturesOf(r, s)[i]
  BY FeaturesType, PrefixType
<1>4. g \in Seq(Seq(Token)) /\ Len(g) = n
  BY <1>1, FeaturesType
<1>5. \A i \in 1..n : f[i] = g[i]
  <2> SUFFICES ASSUME NEW i \in 1..n PROVE f[i] = g[i]
    OBVIOUS
  <2>0. i \in 1..Len(s)
    OBVIOUS
  <2>1. f[i] = IF i <= SnapLen(r) /\ i \notin r.cover THEN Hole ELSE Prefix(s, i)
    BY <1>3, <2>0, FeaturesType
  <2>2. i \in 1..Len(Prefix(s, n))
    BY <1>1
  <2>3. g[i] = IF i <= SnapLen(r) /\ i \notin r.cover THEN Hole ELSE Prefix(Prefix(s, n), i)
    BY <1>1, <2>2, FeaturesType
  <2> QED BY <1>2, <2>1, <2>3
<1> HIDE DEF f, g
<1>6. f = g
  BY <1>3, <1>4, <1>5, SeqEqual
<1> QED BY <1>6 DEF f, g

\* The features of the last n tokens read.
LEMMA FeaturesOfLast ==
    ASSUME NEW u \in Seq(Token), NEW n \in 0..Len(u)
    PROVE  /\ Features(u, n) \in Seq(Seq(Token)) /\ Len(Features(u, n)) = n
           /\ \A i \in 1..n : Features(u, n)[i] = Prefix(u, Len(u) - n + i)
<1>1. \A i \in 1..n : Prefix(u, Len(u) - n + i) \in Seq(Token)
  BY PrefixType
<1> QED BY <1>1 DEF Features

\* What is read beyond the snapshot has all its features.
LEMMA FeaturesOfConcat ==
    ASSUME NEW r \in Requests, NEW s \in Seq(Token), NEW t \in Seq(Token), NEW u \in Seq(Token),
           u = s \o t, SnapLen(r) \in 0..Len(s)
    PROVE  FeaturesOf(r, s) \o Features(u, Len(t)) = FeaturesOf(r, u)
<1>0. Len(u) = Len(s) + Len(t) /\ Len(s) \in Nat /\ Len(t) \in Nat
  OBVIOUS
<1> DEFINE new == Features(u, Len(t))
           old == FeaturesOf(r, s)
           all == FeaturesOf(r, u)
<1>1. /\ new \in Seq(Seq(Token)) /\ Len(new) = Len(t)
      /\ \A i \in 1..Len(t) : new[i] = Prefix(u, Len(s) + i)
  <2>1. Len(u) - Len(t) = Len(s) /\ Len(t) \in 0..Len(u)
    BY <1>0
  <2>2. /\ new \in Seq(Seq(Token)) /\ Len(new) = Len(t)
        /\ \A i \in 1..Len(t) : new[i] = Prefix(u, Len(u) - Len(t) + i)
    BY <2>1, FeaturesOfLast
  <2> QED BY <2>1, <2>2
<1>2. old \in Seq(Seq(Token)) /\ Len(old) = Len(s)
  BY FeaturesType
<1>3. all \in Seq(Seq(Token)) /\ Len(all) = Len(s) + Len(t)
  BY <1>0, FeaturesType
<1>4. \A i \in 1..Len(s) : all[i] = old[i]
  <2> SUFFICES ASSUME NEW i \in 1..Len(s) PROVE all[i] = old[i]
    OBVIOUS
  <2>1. i \in 1..Len(u) /\ Prefix(u, i) = Prefix(s, i)
    BY <1>0, PrefixOfConcat
  <2> QED BY <2>1, FeaturesType
<1>5. \A i \in 1..Len(t) : all[Len(s) + i] = new[i]
  <2> SUFFICES ASSUME NEW i \in 1..Len(t) PROVE all[Len(s) + i] = new[i]
    OBVIOUS
  <2>1. Len(s) + i \in 1..Len(u) /\ ~ (Len(s) + i <= SnapLen(r))
    BY <1>0
  <2> QED BY <1>1, <2>1, FeaturesType
<1> HIDE DEF new, old, all
<1>6. old \o new = all
  <2>1. Len(all) = Len(old) + Len(new)
    BY <1>1, <1>2, <1>3
  <2>2. \A i \in 1..Len(old) : all[i] = old[i]
    BY <1>2, <1>4
  <2>3. \A i \in 1..Len(new) : all[Len(old) + i] = new[i]
    BY <1>1, <1>2, <1>5
  <2> QED BY <1>1, <1>2, <1>3, <2>1, <2>2, <2>3, ConcatEqual
<1> QED BY <1>6 DEF new, old, all

(* ------------------------------ the request ------------------------------ *)

LEMMA RequestFacts ==
    ASSUME NEW r \in Requests
    PROVE  /\ r.prompt \in Seq(Token) /\ Len(r.prompt) \in Nat
           /\ r.max \in Nat /\ Projected(r) = Len(r.prompt) + r.max
           /\ r.boundary \in Nat /\ 1 <= r.boundary /\ r.boundary <= Len(r.prompt)
           /\ SnapLen(r) \in 0..r.boundary
           /\ Full(r) => \A i \in 1..SnapLen(r) : i \in r.cover
           /\ {r.cached, r.keep, r.profile} \subseteq BOOLEAN
           /\ Cap(r) \in 1..Block /\ Block \in Nat /\ Block > 0
           /\ BeyondLimit(r) => r.max > 0 /\ SnapLen(r) = 0
<1>1. r \in RequestType /\ r.boundary \in 1..Len(r.prompt) /\ r.snap \in 0..r.boundary
  BY RequestAssumption
<1>2. r.prompt \in Seq(Token) /\ Len(r.prompt) \in Nat /\ r.max \in Nat /\ r.cap \in Nat
      /\ {r.cached, r.keep, r.profile} \subseteq BOOLEAN
  BY <1>1 DEF RequestType
<1>3. SnapLen(r) \in {0, r.snap} /\ (Full(r) /\ SnapLen(r) # 0 => r.cover = 1..SnapLen(r))
  BY DEF SnapLen
<1>4. Cap(r) \in 1..Block /\ Block \in Nat /\ Block > 0
  BY <1>2, ModelAssumption DEF Cap, Lesser
<1>5. BeyondLimit(r) => r.max > 0 /\ SnapLen(r) = 0
  BY RequestAssumption DEF SnapLen
<1> QED BY <1>1, <1>2, <1>3, <1>4, <1>5 DEF Projected

\* The text, as a function of what it is made of.
TextOf(r, made, segment, n) == (r.prompt \o made) \o SubSeq(segment, n + 1, Len(segment))

LEMMA TextFacts ==
    ASSUME NEW r \in Requests, NEW made \in Seq(Token), NEW segment \in Seq(Token),
           NEW n \in 0..Len(segment)
    PROVE  /\ r.prompt \o made \in Seq(Token)
           /\ Len(r.prompt \o made) = Len(r.prompt) + Len(made)
           /\ TextOf(r, made, segment, n) \in Seq(Token)
           /\ Len(TextOf(r, made, segment, n)) = Len(r.prompt) + Len(made) + Len(segment) - n
           /\ n = Len(segment) => TextOf(r, made, segment, n) = r.prompt \o made
           /\ n = 0 => TextOf(r, made, segment, n) = (r.prompt \o made) \o segment
<1>1. r.prompt \in Seq(Token) /\ Len(r.prompt) \in Nat
  BY RequestFacts
<1> DEFINE c == r.prompt \o made
           t == SubSeq(segment, n + 1, Len(segment))
<1>2. c \in Seq(Token) /\ Len(c) = Len(r.prompt) + Len(made)
  BY <1>1
<1>3. /\ t \in Seq(Token) /\ Len(t) = Len(segment) - n
      /\ n = Len(segment) => t = <<>>
      /\ n = 0 => t = segment
  OBVIOUS
<1> HIDE DEF c, t
<1>4. c \o t \in Seq(Token) /\ Len(c \o t) = Len(c) + Len(t) /\ c \o <<>> = c
  BY <1>2, <1>3, Concat
<1>5. /\ c \o t \in Seq(Token) /\ Len(c \o t) = Len(r.prompt) + Len(made) + Len(segment) - n
      /\ n = Len(segment) => c \o t = c
      /\ n = 0 => c \o t = c \o segment
  BY <1>1, <1>2, <1>3, <1>4
<1>6. TextOf(r, made, segment, n) = c \o t
  BY DEF TextOf, c, t
<1> HIDE DEF TextOf
<1> QED BY <1>2, <1>5, <1>6 DEF c

LEMMA TextIs == Text = TextOf(req, generated, committed, given) /\ Context = req.prompt \o generated
  BY DEF Text, Context, TextOf

(* ------------------------------- the prompt ------------------------------ *)

LEMMA InitHolds ==
    ASSUME Init, TargetSpeaks
    PROVE  IInv
<1> DEFINE n == SnapLen(req)
<1>1. /\ req \in Requests /\ req.prompt \in Seq(Token) /\ Len(req.prompt) \in Nat
      /\ n \in 0..req.boundary /\ req.boundary \in 1..Len(req.prompt)
      /\ BeyondLimit(req) => n = 0
  BY RequestFacts DEF Init
<1>2. /\ kv = Prefix(req.prompt, n) /\ gdn = kv /\ kv \in Seq(Token)
      /\ logits = IF n > 0 THEN Greedy(kv) ELSE None
      /\ n > 0 => logits \in Token
  BY <1>1, PrefixType DEF Init, Greedy, TargetSpeaks
<1>3. pos = Lesser(n, ChunkEnd) /\ ChunkEnd = req.boundary - 1 /\ pos \in 0..Len(req.prompt)
  BY <1>1 DEF Init, ChunkEnd, Lesser
<1>4. /\ feats = [hidden |-> feats.hidden, frozen |-> None, chunks |-> <<>>, collecting |-> FALSE]
      /\ feats.hidden = [i \in 1..Len(req.prompt) |->
                           IF i <= n THEN FeaturesOf(req, req.prompt)[i] ELSE Hole]
      /\ feats.hidden \in Seq(Seq(Token))
  <2>1. \A i \in 1..Len(req.prompt) : FeaturesOf(req, req.prompt)[i] \in Seq(Token) /\ Hole \in Seq(Token)
    BY <1>1, FeaturesType, ElementOfSeq DEF Hole
  <2>2. \A i \in 1..Len(req.prompt) :
           (IF i <= n /\ i \in req.cover THEN Prefix(req.prompt, i) ELSE Hole)
             = IF i <= n THEN FeaturesOf(req, req.prompt)[i] ELSE Hole
    BY <1>1, FeaturesType
  <2> HIDE DEF n
  <2>3. feats.hidden = [i \in 1..Len(req.prompt) |->
                           IF i <= n THEN FeaturesOf(req, req.prompt)[i] ELSE Hole]
    BY <2>2 DEF Init, n
  <2> QED BY <1>1, <2>1, <2>3 DEF Init
<1>5. /\ draft.fed = <<>> /\ draft.ahead = None /\ draft.copies = req.prompt
      /\ draft \in DraftState
  BY <1>1 DEF Init, DraftState
<1>6. pc = (IF BeyondLimit(req) THEN "plain" ELSE "prefill") /\ event = None
      /\ alive = req.cached /\ alive \in BOOLEAN
  BY <1>1, RequestFacts DEF Init
<1>7. /\ committed = <<>> /\ given = 0 /\ generated = <<>> /\ emitted = <<>> /\ skip = FALSE
      /\ staged = None /\ verify = <<>> /\ source = "none" /\ branches = <<>> /\ start = 0
      /\ side = None /\ published = {}
  BY DEF Init
<1> HIDE DEF n
<1>8. TypeOK
  <2>1. feats \in FeatureStore
    <3>1. PICK h \in Seq(Seq(Token)) :
             feats = [hidden |-> h, frozen |-> None, chunks |-> <<>>, collecting |-> FALSE]
      BY <1>4
    <3> QED BY <3>1 DEF FeatureStore
  <2>2. {kv, gdn, verify, committed, generated, emitted} \subseteq Seq(Token) /\ branches \in Seq(Seq(Token))
    BY <1>2, <1>7
  <2>3. {logits, staged} \subseteq Token \cup {None}
    BY <1>2, <1>7
  <2>4. given \in 0..Len(committed) /\ start \in Nat /\ pos \in 0..Len(req.prompt)
    BY <1>3, <1>7
  <2>5. pc \in {"plain", "prefill"} /\ event = None /\ alive \in BOOLEAN /\ skip \in BOOLEAN
    BY <1>6, <1>7
  <2>6. source \in {"none", "copy", "draft", "tree"} /\ side \in Sidecar \cup {None}
    BY <1>7
  <2> QED BY <1>1, <1>5, <2>1, <2>2, <2>3, <2>4, <2>5, <2>6 DEF TypeOK
<1>9. pc = "prefill" => ReadSoFar = n
  BY <1>1, <1>3 DEF ReadSoFar, Lesser, n
<1>10. PromptIsRead
  BY <1>1, <1>2, <1>3, <1>4, <1>6, <1>9 DEF PromptIsRead, Prefilling, Lesser, HiddenTo, n
<1>11. NothingYet
  BY <1>4, <1>5, <1>7 DEF NothingYet
<1>12. RightDecoder /\ FeaturesAreKept /\ Remembering /\ PlainText
  BY <1>4, <1>6, <1>7 DEF RightDecoder, FeaturesAreKept, Remembering, PlainText, Decoding,
       PlainRuns, Prefilling, Cycling, Over
<1>13. CachesHoldTheText /\ Blocks /\ TextIsGreedy /\ TokensAreEmitted /\ Stops /\ DraftIsFed
  BY <1>6 DEF CachesHoldTheText, Blocks, TextIsGreedy, TokensAreEmitted, Stops, DraftIsFed,
       Decoding, Ending
<1> QED BY <1>7, <1>8, <1>10, <1>11, <1>12, <1>13 DEF IInv, PublishedStatesAreTrue

LEMMA HiddenFacts ==
    ASSUME NEW r \in Requests, NEW n \in 0..Len(r.prompt)
    PROVE  /\ HiddenTo(r, n) \in Seq(Seq(Token)) /\ Len(HiddenTo(r, n)) = Len(r.prompt)
           /\ \A i \in 1..Len(r.prompt) :
                 HiddenTo(r, n)[i] = IF i <= n THEN FeaturesOf(r, r.prompt)[i] ELSE Hole
           /\ Prefix(HiddenTo(r, n), n) = FeaturesOf(r, Prefix(r.prompt, n))
           /\ n = Len(r.prompt) => HiddenTo(r, n) = FeaturesOf(r, r.prompt)
<1> DEFINE h == HiddenTo(r, n)
           f == FeaturesOf(r, r.prompt)
<1>1. r.prompt \in Seq(Token) /\ Len(r.prompt) \in Nat
  BY RequestFacts
<1>2. f \in Seq(Seq(Token)) /\ Len(f) = Len(r.prompt)
  BY <1>1, FeaturesType
<1>3. /\ h \in Seq(Seq(Token)) /\ Len(h) = Len(r.prompt)
      /\ \A i \in 1..Len(r.prompt) : h[i] = IF i <= n THEN f[i] ELSE Hole
  <2>1. \A i \in 1..Len(r.prompt) : f[i] \in Seq(Token) /\ Hole \in Seq(Token)
    BY <1>2, ElementOfSeq DEF Hole
  <2> HIDE DEF f
  <2> QED BY <1>1, <2>1 DEF HiddenTo, f
<1> HIDE DEF f, h
<1>4. Prefix(h, n) = Prefix(f, n)
  <2>1. /\ Prefix(h, n) \in Seq(Seq(Token)) /\ Len(Prefix(h, n)) = n
        /\ \A i \in 1..n : Prefix(h, n)[i] = h[i]
    BY <1>1, <1>3, PrefixType
  <2>2. /\ Prefix(f, n) \in Seq(Seq(Token)) /\ Len(Prefix(f, n)) = n
        /\ \A i \in 1..n : Prefix(f, n)[i] = f[i]
    BY <1>1, <1>2, PrefixType
  <2>3. \A i \in 1..n : h[i] = f[i]
    <3>1. \A i \in 1..n : i \in 1..Len(r.prompt) /\ i <= n
      BY <1>1
    <3> QED BY <1>3, <3>1
  <2> QED BY <2>1, <2>2, <2>3, SeqEqual
<1>5. Prefix(f, n) = FeaturesOf(r, Prefix(r.prompt, n))
  BY <1>1, FeaturesOfPrefix DEF f
<1>6. n = Len(r.prompt) => h = f
  BY <1>1, <1>2, <1>3, SeqEqual
<1> QED BY <1>3, <1>4, <1>5, <1>6 DEF f, h

\* forward_with_hidden_capture over the next part of the prompt.
LEMMA ForwardHolds ==
    ASSUME TargetSpeaks, req \in Requests, feats \in FeatureStore,
           NEW from \in 0..Len(req.prompt), NEW to \in from..Len(req.prompt),
           SnapLen(req) <= from, kv = Prefix(req.prompt, from), gdn = kv,
           feats.hidden = HiddenTo(req, from), Forward(from, to)
    PROVE  /\ kv' = Prefix(req.prompt, to) /\ gdn' = kv' /\ kv' \in Seq(Token)
           /\ logits' = Greedy(kv') /\ logits' \in Token
           /\ feats' = [feats EXCEPT !.hidden = HiddenTo(req, to)] /\ feats' \in FeatureStore
<1> DEFINE t == SubSeq(req.prompt, from + 1, to)
           new == Features(kv \o t, to - from)
<1>1. req.prompt \in Seq(Token) /\ Len(req.prompt) \in Nat /\ SnapLen(req) \in Nat
  BY RequestFacts
<1>2. kv \in Seq(Token) /\ Len(kv) = from /\ t \in Seq(Token) /\ Len(t) = to - from
  BY <1>1, PrefixType, PrefixExtends
<1>3. kv \o t = Prefix(req.prompt, to) /\ kv \o t \in Seq(Token) /\ Len(kv \o t) = to
  <2>1. Prefix(req.prompt, from) \o t = Prefix(req.prompt, to)
    BY <1>1, PrefixExtends
  <2>2. Prefix(req.prompt, to) \in Seq(Token) /\ Len(Prefix(req.prompt, to)) = to
    BY <1>1, PrefixType
  <2> HIDE DEF t
  <2> QED BY <2>1, <2>2
<1>4. kv' = Prefix(req.prompt, to) /\ gdn' = kv' /\ logits' = Target(kv', gdn')
  BY <1>3 DEF Forward
<1>5. logits' = Greedy(kv') /\ logits' \in Token
  BY <1>3, <1>4 DEF Greedy, TargetSpeaks
<1>6. \A i \in 1..(to - from) : new[i] = Prefix(req.prompt, from + i)
  <2> DEFINE u == kv \o t
  <2>1. u \in Seq(Token) /\ Len(u) = to /\ u = Prefix(req.prompt, to)
    BY <1>3
  <2> HIDE DEF u
  <2> SUFFICES ASSUME NEW i \in 1..(to - from)
               PROVE  Features(u, to - from)[i] = Prefix(req.prompt, from + i)
    BY DEF u
  <2>2. to - from \in 0..Len(u) /\ Len(u) - (to - from) + i = from + i /\ from + i \in 0..to
    BY <2>1
  <2>3. Features(u, to - from)[i] = Prefix(u, from + i)
    BY <2>1, <2>2, FeaturesOfLast
  <2>4. Prefix(Prefix(req.prompt, to), from + i) = Prefix(req.prompt, from + i)
    <3> DEFINE m == from + i
    <3>1. m \in 0..Len(req.prompt) /\ to \in m..Len(req.prompt)
      BY <1>1, <2>2
    <3> HIDE DEF m
    <3>2. Prefix(Prefix(req.prompt, to), m) = Prefix(req.prompt, m)
      BY <1>1, <3>1, PrefixExtends
    <3> QED BY <3>2 DEF m
  <2> QED BY <2>1, <2>3, <2>4
<1>7. \A i \in 1..Len(req.prompt) :
         (IF i \in from + 1 .. to THEN new[i - from] ELSE feats.hidden[i])
           = IF i <= to THEN FeaturesOf(req, req.prompt)[i] ELSE Hole
  <2> SUFFICES ASSUME NEW i \in 1..Len(req.prompt)
               PROVE  (IF i \in from + 1 .. to THEN new[i - from] ELSE feats.hidden[i])
                        = IF i <= to THEN FeaturesOf(req, req.prompt)[i] ELSE Hole
    OBVIOUS
  <2> HIDE DEF new
  <2>1. feats.hidden[i] = IF i <= from THEN FeaturesOf(req, req.prompt)[i] ELSE Hole
    BY <1>1, HiddenFacts
  <2>2. CASE i \in from + 1 .. to
    <3>1. i - from \in 1..(to - from) /\ from + (i - from) = i /\ ~ (i <= SnapLen(req))
      BY <1>1, <2>2
    <3>2. new[i - from] = Prefix(req.prompt, i)
      BY <1>6, <3>1
    <3>3. FeaturesOf(req, req.prompt)[i] = Prefix(req.prompt, i)
      BY <1>1, <3>1, FeaturesType
    <3> QED BY <2>2, <3>2, <3>3
  <2>3. CASE i \notin from + 1 .. to
    <3>1. i <= from <=> i <= to
      BY <1>1, <2>3
    <3> QED BY <2>1, <2>3, <3>1
  <2> QED BY <2>2, <2>3
<1>8. feats' = [feats EXCEPT !.hidden = [i \in 1..Len(req.prompt) |->
                   IF i \in from + 1 .. to THEN new[i - from] ELSE feats.hidden[i]]]
  BY DEF Forward
<1> HIDE DEF new
<1>9. [i \in 1..Len(req.prompt) |-> IF i \in from + 1 .. to THEN new[i - from] ELSE feats.hidden[i]]
        = HiddenTo(req, to)
  BY <1>7 DEF HiddenTo
<1>10. HiddenTo(req, to) \in Seq(Seq(Token))
  BY <1>1, HiddenFacts
<1>11. feats' = [feats EXCEPT !.hidden = HiddenTo(req, to)]
  BY <1>8, <1>9
<1>12. feats' \in FeatureStore
  BY <1>10, <1>11 DEF FeatureStore
<1> QED BY <1>3, <1>4, <1>5, <1>11, <1>12

\* Before the first cycle and after the end there is nothing to say of cycles.
LEMMA NotDecoding ==
    ASSUME pc' \notin {"cycle", "verify", "emit", "finish", "summary", "return"}
    PROVE  /\ CachesHoldTheText' /\ Blocks' /\ TextIsGreedy' /\ TokensAreEmitted' /\ Stops'
           /\ DraftIsFed'
  BY DEF CachesHoldTheText, Blocks, TextIsGreedy, TokensAreEmitted, Stops, DraftIsFed,
     Decoding, Ending

\* A snapshot that is what it says.
TrueState(r, p) ==
    /\ p.kv = p.tokens /\ p.gdn = p.tokens
    /\ p.logits = Greedy(p.tokens)
    /\ p.feats = FeaturesOf(r, p.tokens)
    /\ p.side # None =>
          /\ p.side.gdn = Prefix(p.tokens, p.side.at)
          /\ p.side.logits = Greedy(p.side.gdn)

LEMMA PublishHolds ==
    ASSUME PublishedStatesAreTrue, req' = req, NEW wanted, NEW snapshot, Publish(wanted, snapshot),
           wanted => TrueState(req, snapshot)
    PROVE  PublishedStatesAreTrue'
<1>1. \A p \in published : TrueState(req, p)
  BY DEF PublishedStatesAreTrue, TrueState
<1>2. \A p \in published' : TrueState(req, p)
  BY <1>1 DEF Publish
<1>3. \A p \in published' : TrueState(req', p)
  BY <1>2
<1> QED BY <1>3 DEF PublishedStatesAreTrue, TrueState

LEMMA PublishNothingHolds ==
    ASSUME PublishedStatesAreTrue, req' = req, published' = published
    PROVE  PublishedStatesAreTrue'
  BY DEF PublishedStatesAreTrue

\* The parts of the invariant that tell of the reply hold while the prompt is read.
LEMMA PrefillingHolds ==
    ASSUME IInv, Prefilling, req' = req, pc' \in {"prefill", "boundary", "tail", "freeze"},
           UNCHANGED <<alive, draft, committed, given, generated, skip, emitted>>,
           feats' = [feats EXCEPT !.hidden = feats'.hidden]
    PROVE  /\ CachesHoldTheText' /\ Blocks' /\ TextIsGreedy' /\ TokensAreEmitted' /\ Stops'
           /\ DraftIsFed' /\ RightDecoder' /\ PlainText' /\ NothingYet'
           /\ feats'.frozen = None
<1>1. pc \in {"prefill", "boundary", "tail", "freeze"} /\ ~ BeyondLimit(req) /\ feats \in FeatureStore
  BY DEF IInv, Prefilling, RightDecoder, TypeOK
<1>2. feats'.frozen = feats.frozen /\ feats'.chunks = feats.chunks /\ feats'.collecting = feats.collecting
  BY <1>1 DEF FeatureStore
<1>3. NothingYet' /\ feats'.frozen = None
  BY <1>1, <1>2 DEF IInv, NothingYet, Prefilling
<1>4. RightDecoder' /\ PlainText'
  BY <1>1 DEF RightDecoder, PlainText, PlainRuns, Over
<1> QED BY <1>3, <1>4, NotDecoding

LEMMA PrefillChunkHolds ==
    ASSUME TargetSpeaks, IInv, PrefillChunk
    PROVE  IInv'
<1> DEFINE to == Lesser(pos + PrefillStep, ChunkEnd)
<1>1. /\ req \in Requests /\ req' = req /\ req.prompt \in Seq(Token) /\ Len(req.prompt) \in Nat
      /\ req.boundary \in 1..Len(req.prompt) /\ SnapLen(req) \in 0..req.boundary
      /\ pc = "prefill" /\ pc' = pc /\ event = None
  BY RequestFacts DEF IInv, TypeOK, PrefillChunk, At
<1>2. ChunkEnd = req.boundary - 1 /\ pos \in 0..Len(req.prompt) /\ pos < ChunkEnd
  BY DEF ChunkEnd, IInv, TypeOK, PrefillChunk
<1>3. SnapLen(req) # req.boundary /\ ReadSoFar = pos
  BY <1>1, <1>2 DEF IInv, PromptIsRead, Prefilling, ReadSoFar
<1>4. /\ SnapLen(req) <= pos /\ kv = Prefix(req.prompt, pos) /\ gdn = kv
      /\ feats.hidden = HiddenTo(req, pos)
  BY <1>1, <1>3 DEF IInv, PromptIsRead, Prefilling
<1>5. to \in 0..Len(req.prompt) /\ to \in pos..Len(req.prompt) /\ to <= ChunkEnd /\ to > 0
      /\ pos' = to /\ Forward(pos, to)
  BY <1>1, <1>2, ModelAssumption DEF PrefillChunk, Lesser
<1> HIDE DEF to
<1>6. /\ kv' = Prefix(req.prompt, to) /\ gdn' = kv' /\ kv' \in Seq(Token)
      /\ logits' = Greedy(kv') /\ logits' \in Token
      /\ feats' = [feats EXCEPT !.hidden = HiddenTo(req, to)] /\ feats' \in FeatureStore
  BY <1>1, <1>2, <1>4, <1>5, ForwardHolds DEF IInv, TypeOK
<1>7. feats'.hidden = HiddenTo(req, to) /\ feats \in FeatureStore
  BY <1>6 DEF FeatureStore, IInv, TypeOK
<1>8. UNCHANGED <<alive, side, draft, cycle, emitted>> /\ event' = "progress"
  BY DEF PrefillChunk
<1>9. TypeOK'
  BY <1>1, <1>5, <1>6, <1>8 DEF IInv, TypeOK, cycle, batch, Limits, DraftState
<1>10. PromptIsRead'
  <2>1. ReadSoFar' = to
    BY <1>1, <1>3, <1>5 DEF ReadSoFar
  <2>2. to <= ChunkEnd'
    BY <1>1, <1>5 DEF ChunkEnd
  <2> QED BY <1>1, <1>2, <1>3, <1>4, <1>5, <1>6, <1>7, <2>1, <2>2 DEF PromptIsRead, Prefilling
<1>11. /\ CachesHoldTheText' /\ Blocks' /\ TextIsGreedy' /\ TokensAreEmitted' /\ Stops'
       /\ DraftIsFed' /\ RightDecoder' /\ PlainText' /\ NothingYet' /\ feats'.frozen = None
  BY <1>1, <1>6, <1>7, <1>8, PrefillingHolds DEF Prefilling, cycle
<1>12. FeaturesAreKept'
  BY <1>1, <1>8, <1>11 DEF IInv, FeaturesAreKept, Decoding
<1>13. Remembering'
  BY <1>1 DEF Remembering, Decoding
<1>14. PublishedStatesAreTrue'
  <2> DEFINE snapshot == State("frontier", Prefix(req.prompt, to), Prefix(feats'.hidden, to), None)
  <2>1. Prefix(feats'.hidden, to) = FeaturesOf(req, Prefix(req.prompt, to))
    BY <1>1, <1>5, <1>7, HiddenFacts
  <2>2. TrueState(req, snapshot)
    BY <1>6, <2>1 DEF TrueState, State
  <2>3. Publish(req.cached /\ Stride > 0 /\ to % Stride = 0, snapshot)
    BY DEF PrefillChunk, to
  <2> HIDE DEF snapshot
  <2> QED BY <1>1, <2>2, <2>3, PublishHolds DEF IInv
<1> QED BY <1>9, <1>10, <1>11, <1>12, <1>13, <1>14 DEF IInv

\* The token at the boundary, forwarded or restored.
LEMMA PrefillSeamHolds ==
    ASSUME TargetSpeaks, IInv, PrefillSeam
    PROVE  IInv'
<1> DEFINE b == req.boundary
<1>1. /\ req \in Requests /\ req' = req /\ req.prompt \in Seq(Token) /\ Len(req.prompt) \in Nat
      /\ b \in 1..Len(req.prompt) /\ SnapLen(req) \in 0..b
      /\ pc = "prefill" /\ pc' = "boundary" /\ event = None
  BY RequestFacts DEF IInv, TypeOK, PrefillSeam, At
<1>2. pos' = b /\ b \in 0..Len(req.prompt)
  BY <1>1 DEF PrefillSeam
<1>3. /\ kv' = Prefix(req.prompt, b) /\ gdn' = kv' /\ kv' \in Seq(Token)
      /\ logits' = Greedy(kv') /\ logits' \in Token
      /\ feats' = [feats EXCEPT !.hidden = HiddenTo(req, b)] /\ feats' \in FeatureStore
  <2>1. CASE SnapLen(req) = b
    <3>1. ReadSoFar = b
      BY <1>1, <2>1 DEF ReadSoFar
    <3>2. /\ kv = Prefix(req.prompt, b) /\ gdn = kv /\ logits = Greedy(kv)
          /\ feats.hidden = HiddenTo(req, b) /\ feats \in FeatureStore /\ kv \in Seq(Token)
      BY <1>1, <3>1 DEF IInv, PromptIsRead, Prefilling, TypeOK
    <3>3. UNCHANGED <<kv, gdn, logits, feats>>
      BY <2>1 DEF PrefillSeam
    <3>4. logits \in Token
      BY <3>2 DEF TargetSpeaks, Greedy
    <3>5. feats = [feats EXCEPT !.hidden = HiddenTo(req, b)]
      BY <3>2 DEF FeatureStore
    <3> QED BY <3>2, <3>3, <3>4, <3>5
  <2>2. CASE SnapLen(req) # b
    <3>1. pos = b - 1 /\ ReadSoFar = pos
      BY <1>1, <2>2 DEF IInv, PromptIsRead, Prefilling, ReadSoFar, ChunkEnd, PrefillSeam, TypeOK
    <3>2. /\ SnapLen(req) <= pos /\ kv = Prefix(req.prompt, pos) /\ gdn = kv
          /\ feats.hidden = HiddenTo(req, pos) /\ feats \in FeatureStore
      BY <1>1, <3>1 DEF IInv, PromptIsRead, Prefilling, TypeOK
    <3>3. Forward(pos, b) /\ pos \in 0..Len(req.prompt) /\ b \in pos..Len(req.prompt)
      BY <1>1, <2>2, <3>1 DEF PrefillSeam
    <3> QED BY <1>1, <3>2, <3>3, ForwardHolds
  <2> QED BY <2>1, <2>2
<1>4. feats'.hidden = HiddenTo(req, b) /\ feats \in FeatureStore
  BY <1>3 DEF FeatureStore, IInv, TypeOK
<1>5. UNCHANGED <<alive, side, draft, cycle, emitted, published>> /\ event' = "progress"
  BY DEF PrefillSeam
<1>6. TypeOK'
  BY <1>1, <1>2, <1>3, <1>5 DEF IInv, TypeOK, cycle, batch, Limits, DraftState
<1>7. PromptIsRead'
  <2>1. ReadSoFar' = b
    BY <1>1 DEF ReadSoFar
  <2> QED BY <1>1, <1>3, <1>4, <2>1 DEF PromptIsRead, Prefilling
<1>8. /\ CachesHoldTheText' /\ Blocks' /\ TextIsGreedy' /\ TokensAreEmitted' /\ Stops'
      /\ DraftIsFed' /\ RightDecoder' /\ PlainText' /\ NothingYet' /\ feats'.frozen = None
  BY <1>1, <1>3, <1>4, <1>5, PrefillingHolds DEF Prefilling, cycle
<1>9. FeaturesAreKept' /\ Remembering'
  BY <1>1, <1>5, <1>8 DEF IInv, FeaturesAreKept, Remembering, Decoding
<1> QED BY <1>1, <1>5, <1>6, <1>7, <1>8, <1>9, PublishNothingHolds DEF IInv

\* The snapshot of the stable prefix, and the sidecar.
LEMMA PrefillBoundaryHolds ==
    ASSUME TargetSpeaks, IInv, PrefillBoundary
    PROVE  IInv'
<1> DEFINE b == req.boundary
<1>1. /\ req \in Requests /\ req' = req /\ req.prompt \in Seq(Token) /\ Len(req.prompt) \in Nat
      /\ b \in 1..Len(req.prompt) /\ SnapLen(req) \in 0..b
      /\ pc = "boundary" /\ event = None
      /\ pc' = IF b < Len(req.prompt) THEN "tail" ELSE "freeze"
  BY RequestFacts DEF IInv, TypeOK, PrefillBoundary, At
<1>2. ReadSoFar = b /\ ReadSoFar' = b
  BY <1>1 DEF ReadSoFar
<1>3. /\ kv = Prefix(req.prompt, b) /\ gdn = kv /\ logits = Greedy(kv) /\ kv \in Seq(Token)
      /\ feats.hidden = HiddenTo(req, b) /\ feats \in FeatureStore /\ logits \in Token
  BY <1>1, <1>2 DEF IInv, PromptIsRead, Prefilling, TypeOK, TargetSpeaks, Greedy
<1>4. UNCHANGED <<kv, gdn, logits, alive, pos, feats, draft, cycle, emitted>>
      /\ event' \in {"snapshot", None}
  BY DEF PrefillBoundary
<1>5. side' = (IF b >= SidecarMin /\ req.max > 0 /\ Collects THEN SidecarState ELSE None)
  BY DEF PrefillBoundary
<1>6. SidecarState = [at |-> b, gdn |-> Prefix(req.prompt, b), logits |-> Greedy(Prefix(req.prompt, b))]
      /\ SidecarState \in Sidecar
  BY <1>1, <1>3 DEF SidecarState, Sidecar
<1>7. SidecarState # None
  BY <1>6, NoneAssumption
<1>8. TypeOK'
  BY <1>1, <1>3, <1>4, <1>5, <1>6 DEF IInv, TypeOK, cycle, batch, Limits, DraftState
<1>9. PromptIsRead'
  BY <1>1, <1>2, <1>3, <1>4 DEF PromptIsRead, Prefilling
<1>10. /\ CachesHoldTheText' /\ Blocks' /\ TextIsGreedy' /\ TokensAreEmitted' /\ Stops'
       /\ DraftIsFed' /\ RightDecoder' /\ PlainText' /\ NothingYet' /\ feats'.frozen = None
  <2>1. feats' = [feats EXCEPT !.hidden = feats'.hidden]
    BY <1>3, <1>4 DEF FeatureStore
  <2> QED BY <1>1, <1>4, <2>1, PrefillingHolds DEF Prefilling, cycle
<1>11. FeaturesAreKept'
  <2>1. side' # None => /\ side'.at = b /\ side'.gdn = Prefix(req.prompt, b)
                        /\ side'.logits = Greedy(side'.gdn)
    BY <1>5, <1>6
  <2> QED BY <1>1, <1>10, <2>1 DEF FeaturesAreKept, Decoding
<1>12. Remembering'
  BY <1>1, <1>4, <1>5, <1>7 DEF Remembering, Decoding, Collects
<1>13. PublishedStatesAreTrue'
  <2> DEFINE snapshot == State("prefill", Prefix(req.prompt, b), Prefix(feats.hidden, b), None)
  <2>1. Prefix(feats.hidden, b) = FeaturesOf(req, Prefix(req.prompt, b))
    BY <1>1, <1>3, HiddenFacts
  <2>2. TrueState(req, snapshot)
    BY <1>3, <1>4, <2>1 DEF TrueState, State
  <2>3. Publish(req.cached /\ SnapLen(req) # b, snapshot)
    BY DEF PrefillBoundary
  <2> HIDE DEF snapshot
  <2> QED BY <1>1, <2>2, <2>3, PublishHolds DEF IInv
<1> QED BY <1>8, <1>9, <1>10, <1>11, <1>12, <1>13 DEF IInv

\* The rest of the prompt.
LEMMA PrefillTailHolds ==
    ASSUME TargetSpeaks, IInv, PrefillTail
    PROVE  IInv'
<1> DEFINE n == Len(req.prompt)
<1>1. /\ req \in Requests /\ req' = req /\ req.prompt \in Seq(Token) /\ n \in Nat
      /\ req.boundary \in 1..n /\ SnapLen(req) \in 0..req.boundary
      /\ pc = "tail" /\ pc' = "freeze" /\ event = None
  BY RequestFacts DEF IInv, TypeOK, PrefillTail, At
<1>2. ReadSoFar = req.boundary /\ ReadSoFar' = n
  BY <1>1 DEF ReadSoFar
<1>3. /\ SnapLen(req) <= req.boundary /\ kv = Prefix(req.prompt, req.boundary) /\ gdn = kv
      /\ feats.hidden = HiddenTo(req, req.boundary) /\ feats \in FeatureStore
  BY <1>1, <1>2 DEF IInv, PromptIsRead, Prefilling, TypeOK
<1>4. Forward(req.boundary, n) /\ req.boundary \in 0..n /\ n \in req.boundary..n /\ pos' = n
  BY <1>1 DEF PrefillTail
<1>5. /\ kv' = Prefix(req.prompt, n) /\ gdn' = kv' /\ kv' \in Seq(Token)
      /\ logits' = Greedy(kv') /\ logits' \in Token
      /\ feats' = [feats EXCEPT !.hidden = HiddenTo(req, n)] /\ feats' \in FeatureStore
  BY <1>1, <1>3, <1>4, ForwardHolds
<1>6. feats'.hidden = HiddenTo(req, n)
  BY <1>3, <1>5 DEF FeatureStore
<1>7. UNCHANGED <<alive, side, draft, cycle, emitted, published>> /\ event' = "progress"
  BY DEF PrefillTail
<1>8. TypeOK'
  BY <1>1, <1>4, <1>5, <1>7 DEF IInv, TypeOK, cycle, batch, Limits, DraftState
<1>9. PromptIsRead'
  BY <1>1, <1>2, <1>5, <1>6 DEF PromptIsRead, Prefilling
<1>10. /\ CachesHoldTheText' /\ Blocks' /\ TextIsGreedy' /\ TokensAreEmitted' /\ Stops'
       /\ DraftIsFed' /\ RightDecoder' /\ PlainText' /\ NothingYet' /\ feats'.frozen = None
  BY <1>1, <1>5, <1>6, <1>7, PrefillingHolds DEF Prefilling, cycle
<1>11. FeaturesAreKept'
  BY <1>1, <1>7, <1>10 DEF IInv, FeaturesAreKept, Decoding
<1>12. Remembering'
  BY <1>1, <1>7 DEF IInv, Remembering, Decoding, Collects
<1> QED BY <1>1, <1>7, <1>8, <1>9, <1>10, <1>11, <1>12, PublishNothingHolds DEF IInv

LEMMA NoneIsNothing ==
    /\ \A x \in Seq(Seq(Token)) : x # None
    /\ \A x \in Sidecar \cup Ahead : x # None
  BY NoneAssumption

\* The prompt is in.
LEMMA PrefillCompleteHolds ==
    ASSUME TargetSpeaks, IInv, PrefillComplete
    PROVE  IInv'
<1> DEFINE n == Len(req.prompt)
<1>1. /\ req \in Requests /\ req' = req /\ req.prompt \in Seq(Token) /\ n \in Nat
      /\ n > 0 /\ SnapLen(req) \in 0..n
      /\ pc = "freeze" /\ pc' = "decode" /\ event = None
  <2>1. req \in Requests /\ req' = req /\ pc = "freeze" /\ pc' = "decode" /\ event = None
    BY DEF IInv, TypeOK, PrefillComplete, At
  <2> QED BY <2>1, RequestFacts
<1>2. ReadSoFar = n /\ ReadSoFar' = n
  BY <1>1 DEF ReadSoFar
<1>3. /\ SnapLen(req) <= n /\ kv = Prefix(req.prompt, n) /\ gdn = kv /\ logits = Greedy(kv)
      /\ feats.hidden = HiddenTo(req, n) /\ feats \in FeatureStore
  BY <1>1, <1>2 DEF IInv, PromptIsRead, Prefilling, TypeOK
<1>4. /\ feats' = [feats EXCEPT !.frozen = IF Collects THEN feats.hidden ELSE None]
      /\ staged' = logits /\ start' = n /\ event' = "prefilled"
      /\ UNCHANGED <<alive, prefill, kv, gdn, logits, draft, batch, committed,
                     given, generated, skip, emitted, published>>
  BY DEF PrefillComplete
<1>5. /\ feats'.frozen = (IF Collects THEN FeaturesOf(req, req.prompt) ELSE None)
      /\ feats'.hidden = feats.hidden /\ feats'.chunks = feats.chunks
      /\ feats'.collecting = feats.collecting /\ feats' \in FeatureStore
      /\ FeaturesOf(req, req.prompt) # None
  <2>1. HiddenTo(req, n) = FeaturesOf(req, req.prompt)
    <3>1. n \in 0..Len(req.prompt)
      BY <1>1
    <3> QED BY <1>1, <3>1, HiddenFacts
  <2>2. FeaturesOf(req, req.prompt) # None
    BY <1>1, FeaturesType, NoneIsNothing
  <2> QED BY <1>3, <1>4, <2>1, <2>2 DEF FeatureStore
<1>6. TypeOK'
  BY <1>1, <1>4, <1>5 DEF IInv, TypeOK, prefill, batch, Limits, DraftState
<1>7. PromptIsRead'
  BY <1>1, <1>2, <1>3, <1>4, <1>5 DEF PromptIsRead, Prefilling
<1>8. NothingYet'
  BY <1>1, <1>4, <1>5 DEF IInv, NothingYet, Prefilling
<1>9. RightDecoder' /\ PlainText'
  BY <1>1 DEF IInv, RightDecoder, PlainText, PlainRuns, Over, Prefilling
<1>10. FeaturesAreKept'
  BY <1>1, <1>4, <1>5 DEF IInv, FeaturesAreKept, Decoding, prefill
<1>11. Remembering'
  BY <1>1, <1>4, <1>5 DEF IInv, Remembering, Decoding, Collects, prefill
<1> QED BY <1>1, <1>4, <1>6, <1>7, <1>8, <1>9, <1>10, <1>11, NotDecoding, PublishNothingHolds DEF IInv

(* -------------------------------- drafting ------------------------------- *)

\* What the text is while decoding.
LEMMA TextNow ==
    ASSUME IInv
    PROVE  /\ req \in Requests /\ generated \in Seq(Token) /\ committed \in Seq(Token)
           /\ Text \in Seq(Token) /\ Context \in Seq(Token)
           /\ Len(Text) = Len(req.prompt) + Len(generated) + Len(committed) - given
           /\ Len(Context) = Len(req.prompt) + Len(generated)
           /\ given = Len(committed) => Text = Context
<1>1. /\ req \in Requests /\ generated \in Seq(Token) /\ committed \in Seq(Token)
      /\ given \in 0..Len(committed)
  BY DEF IInv, TypeOK
<1> QED BY <1>1, TextFacts, TextIs

LEMMA SameText ==
    ASSUME UNCHANGED <<req, generated, committed, given>>
    PROVE  Text' = Text
  BY DEF Text, Context

\* The first token starts the cycles.
LEMMA FirstTokenHolds ==
    ASSUME TargetSpeaks, IInv, FirstToken
    PROVE  IInv'
<1>1. /\ req \in Requests /\ req' = req /\ req.prompt \in Seq(Token) /\ Len(req.prompt) \in Nat
      /\ Len(req.prompt) > 0 /\ req.max \in Nat
      /\ pc = "decode" /\ pc' = "cycle" /\ event = None /\ ~ BeyondLimit(req)
  <2>1. req \in Requests /\ req' = req /\ pc = "decode" /\ pc' = "cycle" /\ event = None
    BY DEF IInv, TypeOK, FirstToken, At
  <2>2. ~ BeyondLimit(req)
    BY <2>1 DEF IInv, RightDecoder
  <2> QED BY <2>1, <2>2, RequestFacts
<1>2. /\ kv = req.prompt /\ gdn = req.prompt /\ logits = Greedy(req.prompt) /\ logits \in Token
      /\ staged = logits /\ start = Len(req.prompt)
      /\ feats.hidden = FeaturesOf(req, req.prompt) /\ feats \in FeatureStore
  <2>1. ReadSoFar = Len(req.prompt)
    BY <1>1 DEF ReadSoFar
  <2>2. Prefix(req.prompt, Len(req.prompt)) = req.prompt
    BY <1>1, PrefixAll
  <2>3. HiddenTo(req, Len(req.prompt)) = FeaturesOf(req, req.prompt)
    <3>1. Len(req.prompt) \in 0..Len(req.prompt)
      BY <1>1
    <3> QED BY <1>1, <3>1, HiddenFacts
  <2> QED BY <1>1, <2>1, <2>2, <2>3 DEF IInv, PromptIsRead, TypeOK, TargetSpeaks, Greedy
<1>3. /\ committed = <<>> /\ given = 0 /\ generated = <<>> /\ emitted = <<>> /\ skip = FALSE
      /\ draft.fed = <<>> /\ draft.ahead = None
      /\ feats.chunks = <<>> /\ feats.collecting = FALSE
  BY <1>1 DEF IInv, NothingYet, FeatureStore, TypeOK
<1>4. UNCHANGED <<alive, prefill, kv, gdn, logits, draft, staged, batch,
                  committed, given, start, generated, published>>
  BY DEF FirstToken
<1>5. /\ IF req.max > 0 THEN skip' = TRUE /\ emitted' = <<logits>>
                        ELSE skip' = FALSE /\ emitted' = <<>>
      /\ event' \in {"token", None}
  BY <1>1, <1>2, <1>3 DEF FirstToken
<1>6. /\ feats'.hidden = FeaturesOf(req, req.prompt) /\ feats'.frozen = feats.frozen
      /\ feats'.chunks = <<>> /\ feats'.collecting = Collects
      /\ feats' \in FeatureStore
  <2>1. Collects \in BOOLEAN
    BY DEF Collects
  <2>2. feats' = [feats EXCEPT !.collecting = Collects]
    BY DEF FirstToken
  <2> QED BY <1>2, <1>3, <2>1, <2>2 DEF FeatureStore
<1>7. Text' = req.prompt
  <2>1. Text' = Text
    BY <1>1, <1>4, SameText
  <2>2. Text = Context /\ Context = req.prompt \o generated
    BY <1>3, TextNow DEF Context
  <2> QED BY <1>1, <1>3, <2>1, <2>2
<1>8. TypeOK'
  <2>1. emitted' \in Seq(Token) /\ skip' \in BOOLEAN
    <3>1. logits \in Token
      BY <1>2
    <3>2. <<logits>> \in Seq(Token) /\ <<>> \in Seq(Token)
      BY <3>1
    <3> QED BY <1>5, <3>2
  <2> QED BY <1>1, <1>4, <1>5, <1>6, <2>1 DEF IInv, TypeOK, prefill, batch, Limits, DraftState
<1>9. CachesHoldTheText'
  BY <1>1, <1>2, <1>4, <1>7 DEF CachesHoldTheText
<1>10. Blocks'
  <2>1. Len(req.prompt) <= Projected(req) /\ Block > 0
    BY <1>1, RequestFacts
  <2>2. committed' = <<>> /\ given' = 0 /\ generated' = <<>>
    BY <1>3, <1>4
  <2>3. Len(Text') <= Projected(req')
    BY <1>1, <1>7, <2>1
  <2>4. Len(committed') = 0 /\ Len(generated') = 0 /\ Len(committed') <= Block
    BY <2>2, ModelAssumption
  <2>5. \A i \in 1..given' : generated'[Len(generated') - given' + i] = committed'[i]
    BY <2>2
  <2> QED BY <1>1, <2>2, <2>3, <2>4, <2>5 DEF Blocks
<1>11. TextIsGreedy'
  BY <1>1, <1>7 DEF TextIsGreedy
<1>12. TokensAreEmitted' /\ Stops'
  BY <1>1, <1>3, <1>4, <1>5 DEF TokensAreEmitted, Stops, Cycling, Ending
<1>13. DraftIsFed'
  <2>1. draft.fed \o feats'.hidden = FeaturesOf(req, req.prompt)
    BY <1>1, <1>3, <1>6, FeaturesType, Concat
  <2> QED BY <1>1, <1>3, <1>4, <1>7, <2>1 DEF DraftIsFed
<1>14. FeaturesAreKept'
  <2>1. FeaturesOf(req, req.prompt) \o <<>> = FeaturesOf(req, req.prompt)
    BY <1>1, FeaturesType, Concat
  <2> QED BY <1>1, <1>4, <1>6, <1>7, <2>1 DEF IInv, FeaturesAreKept, prefill
<1>15. Remembering'
  BY <1>1, <1>4, <1>6 DEF IInv, Remembering, Collects, prefill
<1>16. RightDecoder' /\ PromptIsRead' /\ NothingYet' /\ PlainText'
  BY <1>1 DEF RightDecoder, PromptIsRead, NothingYet, PlainText, Prefilling, Cycling, PlainRuns, Over
<1> QED BY <1>1, <1>4, <1>8, <1>9, <1>10, <1>11, <1>12, <1>13, <1>14, <1>15, <1>16,
           PublishNothingHolds DEF IInv

LEMMA LimitFacts ==
    ASSUME req \in Requests
    PROVE  \A limit \in Limits : limit \in 1..Block /\ (limit = 1 => Block = 1)
  BY ModelAssumption DEF Limits

\* The length of a block: at most what is left, and one only if it cannot be more.
LEMMA BlockLenFacts ==
    ASSUME NEW limit \in 1..Block, limit = 1 => Block = 1, NEW remaining \in Nat, remaining > 0
    PROVE  /\ BlockLen(limit, remaining) \in 1..Block /\ BlockLen(limit, remaining) <= remaining
           /\ BlockLen(limit, remaining) = 1 => Block = 1 \/ remaining = 1
           /\ BlockLen(limit, remaining) > 1 => Block > 1
  BY ModelAssumption DEF BlockLen, Lesser, Greater

LEMMA CopyFacts ==
    ASSUME NEW copies \in Seq(Token), NEW first, NEW n \in Nat, NEW t \in CopyOf(copies, first, n)
    PROVE  t \in Seq(Token) /\ Len(t) = n
<1>1. PICK p \in CopyWindow..Len(copies) : Len(copies) - p >= n /\ t = SubSeq(copies, p + 1, p + n)
  BY DEF CopyOf
<1> QED BY <1>1, ModelAssumption

LEMMA ProposalFacts ==
    ASSUME NEW d, d.copies \in Seq(Token), NEW first, NEW n \in Nat, NEW p \in Proposals(d, first, n)
    PROVE  p.tail \in Seq(Token) /\ Len(p.tail) = n /\ p.source \in {"copy", "draft"}
<1>1. \/ \E t \in CopyOf(d.copies, first, n) : p = [tail |-> t, source |-> "copy"]
      \/ \E t \in [1..n -> Token \ Suppressed] : p = [tail |-> t, source |-> "draft"]
  BY DEF Proposals
<1> QED BY <1>1, CopyFacts

\* A block was proposed after the draft cache was fed, or there is no need to.
LEMMA ProposedHolds ==
    ASSUME IInv, pc = "cycle", pc' = "verify", ~ BeyondLimit(req),
           UNCHANGED <<req, event, alive, prefill, kv, gdn, logits, feats, staged,
                       committed, given, start, generated, skip, emitted, published>>,
           verify' \in Seq(Token), Len(verify') \in 1..Block,
           Len(verify') <= req.max - Len(generated), verify'[1] = logits,
           branches' \in Seq(Seq(Token)),
           req.tree # "no" => \A i \in DOMAIN branches' :
              Len(branches'[i]) = Len(verify') /\ branches'[i][1] = logits,
           source' \in {"none", "copy", "draft", "tree"}, draft' \in DraftState,
           req.tree # "no" => draft'.ahead = None, source' = "tree" => req.tree # "no",
           source' # "none" => draft'.fed = FeaturesOf(req, Text),
           source' = "none" => Block = 1 \/ Len(Text) + 1 = Projected(req)
    PROVE  IInv'
<1>1. Text' = Text
  BY SameText
<1>2. TypeOK'
  BY DEF IInv, TypeOK, prefill, Limits, DraftState
<1>3. CachesHoldTheText'
  BY <1>1 DEF IInv, CachesHoldTheText, Decoding
<1>4. Blocks'
  BY <1>1 DEF IInv, Blocks, Decoding
<1>5. TextIsGreedy'
  BY <1>1 DEF IInv, TextIsGreedy, Decoding
<1>6. TokensAreEmitted' /\ Stops'
  BY DEF IInv, TokensAreEmitted, Stops, Cycling, Ending, Decoding
<1>7. DraftIsFed'
  BY <1>1 DEF DraftIsFed
<1>8. FeaturesAreKept' /\ Remembering'
  BY <1>1 DEF IInv, FeaturesAreKept, Remembering, Decoding, Collects, prefill
<1>9. RightDecoder' /\ PromptIsRead' /\ NothingYet' /\ PlainText'
  BY DEF RightDecoder, PromptIsRead, NothingYet, PlainText, Prefilling, Cycling, PlainRuns, Over
<1> QED BY <1>2, <1>3, <1>4, <1>5, <1>6, <1>7, <1>8, <1>9, PublishNothingHolds DEF IInv

\* What holds at the top of the loop while tokens are left.
LEMMA AtCycle ==
    ASSUME TargetSpeaks, IInv, pc = "cycle", Len(generated) < req.max
    PROVE  /\ req \in Requests /\ ~ BeyondLimit(req) /\ Decoding
           /\ Text \in Seq(Token) /\ Len(Text) \in Nat
           /\ req.max - Len(generated) \in Nat /\ req.max - Len(generated) > 0
           /\ Projected(req) - Len(Text) = req.max - Len(generated)
           /\ Projected(req) \in Nat /\ Len(Text) < Projected(req)
           /\ staged = logits /\ logits \in Token
           /\ draft \in DraftState /\ draft.copies \in Seq(Token)
           /\ draft.fed \in Seq(Seq(Token)) /\ feats.hidden \in Seq(Seq(Token))
           /\ draft.limit \in 1..Block /\ (draft.limit = 1 => Block = 1)
<1>1. req \in Requests /\ ~ BeyondLimit(req) /\ Decoding
  BY DEF IInv, TypeOK, RightDecoder, Cycling, Decoding
<1>2. /\ Text \in Seq(Token)
      /\ Len(Text) = Len(req.prompt) + Len(generated) + Len(committed) - given
      /\ given = Len(committed) /\ generated \in Seq(Token) /\ committed \in Seq(Token)
  BY <1>1, TextNow DEF IInv, Blocks
<1>3. req.max \in Nat /\ Projected(req) = Len(req.prompt) + req.max /\ Len(req.prompt) \in Nat
  BY <1>1, RequestFacts
<1>4. /\ req.max - Len(generated) \in Nat /\ req.max - Len(generated) > 0
      /\ Projected(req) - Len(Text) = req.max - Len(generated)
      /\ Projected(req) \in Nat /\ Len(Text) < Projected(req) /\ Len(Text) \in Nat
  BY <1>2, <1>3
<1>5. staged = logits /\ logits \in Token
  BY <1>1, <1>2 DEF IInv, CachesHoldTheText, TargetSpeaks, Greedy
<1>6. /\ draft \in DraftState /\ draft.copies \in Seq(Token) /\ draft.limit \in Limits
      /\ draft.fed \in Seq(Seq(Token)) /\ feats.hidden \in Seq(Seq(Token))
  BY DEF IInv, TypeOK, DraftState, FeatureStore
<1>7. draft.limit \in 1..Block /\ (draft.limit = 1 => Block = 1)
  BY <1>1, <1>6, LimitFacts
<1> QED BY <1>1, <1>2, <1>4, <1>5, <1>6, <1>7

\* The staged token and the first tokens of a tail.
LEMMA BlockOf ==
    ASSUME NEW first \in Token, NEW tail \in Seq(Token), NEW m \in 0..Len(tail)
    PROVE  /\ <<first>> \o Prefix(tail, m) \in Seq(Token)
           /\ Len(<<first>> \o Prefix(tail, m)) = m + 1
           /\ (<<first>> \o Prefix(tail, m))[1] = first
<1>1. Prefix(tail, m) \in Seq(Token) /\ Len(Prefix(tail, m)) = m
  BY PrefixType
<1> DEFINE p == Prefix(tail, m)
<1> HIDE DEF p
<1>2. <<first>> \o p \in Seq(Token) /\ Len(<<first>> \o p) = m + 1 /\ (<<first>> \o p)[1] = first
  BY <1>1 DEF p
<1> QED BY <1>2 DEF p

\* Feeding the features at hand brings the draft cache up to the text.
LEMMA FeedHolds ==
    ASSUME TargetSpeaks, IInv, pc = "cycle", Len(generated) < req.max, draft.ahead = None, Block > 1
    PROVE  /\ Feed(draft, feats.hidden).fed = FeaturesOf(req, Text)
           /\ Feed(draft, feats.hidden).ahead = None
           /\ Feed(draft, feats.hidden) \in DraftState
<1>1. draft.fed \o feats.hidden = FeaturesOf(req, Text)
  BY AtCycle DEF IInv, DraftIsFed, Unfinished, Cycling
<1>2. draft \in DraftState /\ draft.fed \o feats.hidden \in Seq(Seq(Token))
  BY AtCycle, Concat
<1> QED BY <1>1, <1>2 DEF Feed, DraftState

LEMMA ProposeHolds ==
    ASSUME TargetSpeaks, IInv, Propose
    PROVE  IInv'
<1> DEFINE n == BlockLen(draft.limit, req.max - Len(generated))
<1>1. pc = "cycle" /\ pc' = "verify" /\ req.tree = "no" /\ Len(generated) < req.max
  BY DEF Propose, At
<1>2. /\ req \in Requests /\ ~ BeyondLimit(req) /\ Decoding
      /\ Text \in Seq(Token)
      /\ Projected(req) - Len(Text) = req.max - Len(generated)
      /\ Projected(req) \in Nat /\ Len(Text) < Projected(req) /\ Len(Text) \in Nat
      /\ staged = logits /\ logits \in Token
      /\ draft \in DraftState /\ draft.copies \in Seq(Token)
  BY <1>1, AtCycle
<1>3. /\ n \in 1..Block /\ n <= req.max - Len(generated)
      /\ n = 1 => Block = 1 \/ req.max - Len(generated) = 1
      /\ n > 1 => Block > 1
  BY <1>1, AtCycle, BlockLenFacts
<1>4. UNCHANGED <<req, event, alive, prefill, kv, gdn, logits, feats, staged, branches,
                  committed, given, start, generated, skip, emitted, published>>
  BY DEF Propose
<1>5. IF n > 1
      THEN \E d \in Drafts(n - 1) :
              /\ verify' = <<d.first>> \o Prefix(d.tail, Lesser(n, Cap(req)) - 1)
              /\ source' = d.source
              /\ draft' = d.draft
      ELSE verify' = <<staged>> /\ source' = "none" /\ draft' = draft
  BY DEF Propose
<1> HIDE DEF n
<1>6. branches' = branches /\ branches \in Seq(Seq(Token))
  BY <1>4 DEF IInv, TypeOK
<1>7. CASE n = 1
  <2>1. verify' = <<staged>> /\ source' = "none" /\ draft' = draft
    BY <1>5, <1>7
  <2>2. verify' \in Seq(Token) /\ Len(verify') = 1 /\ verify'[1] = logits
    BY <1>2, <2>1
  <2>3. Block = 1 \/ Len(Text) + 1 = Projected(req)
    BY <1>2, <1>3, <1>7
  <2> QED BY <1>1, <1>2, <1>3, <1>4, <1>6, <1>7, <2>1, <2>2, <2>3, ProposedHolds
<1>8. CASE n > 1
  <2>1. PICK d \in Drafts(n - 1) :
           /\ verify' = <<d.first>> \o Prefix(d.tail, Lesser(n, Cap(req)) - 1)
           /\ source' = d.source
           /\ draft' = d.draft
    BY <1>5, <1>8
  <2>2. /\ d.first = logits /\ d.tail \in Seq(Token) /\ Len(d.tail) = n - 1
        /\ d.source \in {"copy", "draft"}
        /\ d.draft \in DraftState /\ d.draft.fed = FeaturesOf(req, Text)
    <3>1. CASE draft.ahead # None /\ ~ req.profile /\ draft.ahead.len = n - 1
      <4>1. d = [first |-> draft.ahead.first, tail |-> draft.ahead.tail,
                 source |-> draft.ahead.source, draft |-> [draft EXCEPT !.ahead = None]]
        BY <2>1, <3>1 DEF Drafts
      <4>2. draft.ahead \in Ahead
        BY <1>2, <3>1 DEF DraftState
      <4>3. /\ Len(draft.ahead.tail) = draft.ahead.len /\ draft.ahead.first = logits
            /\ draft.fed = FeaturesOf(req, Text)
        BY <1>1, <1>2, <3>1 DEF IInv, DraftIsFed, Cycling
      <4>4. [draft EXCEPT !.ahead = None] \in DraftState /\ [draft EXCEPT !.ahead = None].fed = draft.fed
        BY <1>2 DEF DraftState
      <4> QED BY <3>1, <4>1, <4>2, <4>3, <4>4 DEF Ahead
    <3>2. CASE ~ (draft.ahead # None /\ ~ req.profile /\ draft.ahead.len = n - 1)
      <4>1. PICK p \in Proposals(draft, staged, n - 1) :
               d = [first |-> staged, tail |-> p.tail, source |-> p.source,
                    draft |-> [Feed(draft, feats.hidden) EXCEPT !.ahead = None]]
        BY <2>1, <3>2 DEF Drafts
      <4>2. p.tail \in Seq(Token) /\ Len(p.tail) = n - 1 /\ p.source \in {"copy", "draft"}
        BY <1>2, <1>3, <1>8, <4>1, ProposalFacts
      <4>3. draft.ahead = None
        <5>1. draft.ahead # None => ~ req.profile /\ draft.ahead.len = n - 1
          BY <1>1, <1>2 DEF IInv, DraftIsFed, Cycling, n
        <5> QED BY <3>2, <5>1
      <4>4. /\ Feed(draft, feats.hidden).fed = FeaturesOf(req, Text)
            /\ Feed(draft, feats.hidden).ahead = None
            /\ Feed(draft, feats.hidden) \in DraftState
        BY <1>1, <1>3, <1>8, <4>3, FeedHolds
      <4>5. [Feed(draft, feats.hidden) EXCEPT !.ahead = None] = Feed(draft, feats.hidden)
        BY <4>4 DEF DraftState
      <4> QED BY <1>2, <4>1, <4>2, <4>4, <4>5
    <3> QED BY <3>1, <3>2
  <2>3. /\ verify' \in Seq(Token) /\ Len(verify') \in 1..Block
        /\ Len(verify') <= req.max - Len(generated) /\ verify'[1] = logits
    <3> DEFINE m == Lesser(n, Cap(req)) - 1
    <3>1. m \in 0..(n - 1) /\ m + 1 \in 1..Block /\ m + 1 <= n
      BY <1>2, <1>3, RequestFacts DEF Lesser
    <3> HIDE DEF m
    <3>2. verify' = <<d.first>> \o Prefix(d.tail, m)
      BY <2>1 DEF m
    <3>3. verify' \in Seq(Token) /\ Len(verify') = m + 1 /\ verify'[1] = logits
      BY <1>2, <2>2, <3>1, <3>2, BlockOf
    <3> QED BY <1>2, <1>3, <3>1, <3>3
  <2> QED BY <1>1, <1>2, <1>4, <1>6, <2>1, <2>2, <2>3, ProposedHolds
<1> QED BY <1>3, <1>7, <1>8

\* A branch is as long as the greedy block and starts with the same token.
LEMMA BranchFacts ==
    ASSUME NEW first \in Token, NEW tail \in Seq(Token), NEW bs \in Branches(first, tail),
           NEW v \in 1..(Len(tail) + 1), NEW cut, cut = [p \in DOMAIN bs |-> Prefix(bs[p], v)]
    PROVE  /\ cut \in Seq(Seq(Token))
           /\ \A i \in DOMAIN cut : Len(cut[i]) = v /\ cut[i][1] = first
<1> DEFINE n == Len(tail)
           m == Lesser(BranchPositions, n)
<1>1. m \in Nat /\ m <= n
  BY ModelAssumption DEF Lesser
<1>2. DOMAIN bs = 1..m /\ \A p \in 1..m : \E t \in [1..n -> Token] : bs[p] = <<first>> \o t
  <2>1. DOMAIN bs = 1..m
    BY DEF Branches
  <2>2. \A p \in DOMAIN bs : \E b \in {t \in [1..n -> Token \ Suppressed] :
                        Prefix(t, p - 1) = Prefix(tail, p - 1) /\ t[p] # tail[p]} : bs[p] = <<first>> \o b
    BY DEF Branches
  <2>3. \A p \in DOMAIN bs : \E t \in [1..n -> Token] : bs[p] = <<first>> \o t
    BY <2>2
  <2> QED BY <2>1, <2>3
<1> HIDE DEF m
<1>3. ASSUME NEW p \in 1..m
      PROVE  Prefix(bs[p], v) \in Seq(Token) /\ Len(Prefix(bs[p], v)) = v /\ Prefix(bs[p], v)[1] = first
  <2>1. PICK t \in [1..n -> Token] : bs[p] = <<first>> \o t
    BY <1>2
  <2>2. t \in Seq(Token) /\ Len(t) = n
    OBVIOUS
  <2>3. bs[p] \in Seq(Token) /\ Len(bs[p]) = n + 1 /\ bs[p][1] = first
    BY <2>1, <2>2
  <2>4. v \in 0..Len(bs[p])
    BY <2>3
  <2> QED BY <2>3, <2>4, PrefixType
<1>4. DOMAIN cut = 1..m /\ \A p \in 1..m : cut[p] = Prefix(bs[p], v)
  BY <1>2
<1>5. cut \in Seq(Seq(Token))
  BY <1>1, <1>2, <1>3
<1> QED BY <1>3, <1>4, <1>5

LEMMA ProposeTreeHolds ==
    ASSUME TargetSpeaks, IInv, ProposeTree
    PROVE  IInv'
<1> DEFINE n == BlockLen(Block, req.max - Len(generated))
           v == Lesser(n, Cap(req))
           rows == IF req.tree = "target" THEN v - 1 ELSE n - 1
           copied == {p \in Proposals(draft, staged, n - 1) : p.source = "copy"}
<1>1. pc = "cycle" /\ pc' = "verify" /\ req.tree # "no" /\ Len(generated) < req.max
  BY DEF ProposeTree, At
<1>2. /\ req \in Requests /\ ~ BeyondLimit(req) /\ Decoding
      /\ Text \in Seq(Token)
      /\ Projected(req) - Len(Text) = req.max - Len(generated)
      /\ Projected(req) \in Nat /\ Len(Text) < Projected(req) /\ Len(Text) \in Nat
      /\ staged = logits /\ logits \in Token
      /\ draft \in DraftState /\ draft.copies \in Seq(Token)
  BY <1>1, AtCycle
<1>3. /\ n \in 1..Block /\ n <= req.max - Len(generated)
      /\ n = 1 => Block = 1 \/ req.max - Len(generated) = 1
      /\ n > 1 => Block > 1
  <2>1. Block \in 1..Block /\ req.max - Len(generated) \in Nat /\ req.max - Len(generated) > 0
    BY <1>1, AtCycle, ModelAssumption
  <2> QED BY <2>1, BlockLenFacts
<1>4. v \in 1..n /\ v \in 1..Block /\ rows \in Nat /\ v - 1 \in 0..rows /\ v - 1 \in 0..(n - 1)
  BY <1>2, <1>3, RequestFacts DEF Lesser
<1>5. UNCHANGED <<req, event, alive, prefill, kv, gdn, logits, feats, staged,
                  committed, given, start, generated, skip, emitted, published>>
  BY DEF ProposeTree
<1>6. draft.ahead = None
  BY <1>1, <1>2 DEF IInv, DraftIsFed, Cycling
<1>7. \/ /\ n = 1
         /\ verify' = <<staged>> /\ source' = "none" /\ branches' = <<>> /\ draft' = draft
      \/ /\ n # 1
         /\ \E p \in copied :
               /\ verify' = <<staged>> \o Prefix(p.tail, v - 1)
               /\ source' = "copy" /\ branches' = <<>>
               /\ draft' = Feed(draft, feats.hidden)
      \/ /\ n # 1
         /\ \E tail \in [1..rows -> Token \ Suppressed] :
               /\ verify' = <<staged>> \o Prefix(tail, v - 1)
               /\ \/ /\ source' = "tree" /\ branches' = <<>>
                     /\ draft' = Feed(draft, feats.hidden)
                  \/ /\ req.tree # "target" /\ source' = "draft"
                     /\ \E bs \in Branches(staged, tail) :
                           branches' = [p \in DOMAIN bs |-> Prefix(bs[p], v)]
                     /\ draft' = Feed(draft, feats.hidden)
  BY Zenon DEF ProposeTree, AfterBranches
<1> HIDE DEF n, v, rows, copied
<1>8. <<>> \in Seq(Seq(Token))
  OBVIOUS
<1>9. n # 1 => /\ Feed(draft, feats.hidden).fed = FeaturesOf(req, Text)
               /\ Feed(draft, feats.hidden).ahead = None
               /\ Feed(draft, feats.hidden) \in DraftState
  BY <1>1, <1>3, <1>6, FeedHolds
<1>10. ASSUME NEW tail \in Seq(Token), Len(tail) = rows \/ Len(tail) = n - 1,
              verify' = <<staged>> \o Prefix(tail, v - 1)
       PROVE  /\ verify' \in Seq(Token) /\ Len(verify') = v
              /\ verify'[1] = logits
  <2> DEFINE m == v - 1
  <2>1. m \in 0..Len(tail) /\ m + 1 = v
    BY <1>4, <1>10
  <2> HIDE DEF m
  <2>2. verify' = <<staged>> \o Prefix(tail, m)
    BY <1>10 DEF m
  <2> QED BY <1>2, <2>1, <2>2, BlockOf
<1>11. CASE /\ n = 1
            /\ verify' = <<staged>> /\ source' = "none" /\ branches' = <<>> /\ draft' = draft
  <2>1. verify' \in Seq(Token) /\ Len(verify') = 1 /\ verify'[1] = logits
    BY <1>2, <1>11
  <2>2. Block = 1 \/ Len(Text) + 1 = Projected(req)
    BY <1>2, <1>3, <1>11
  <2>3. \A i \in DOMAIN branches' : FALSE
    BY <1>11
  <2> QED BY <1>1, <1>2, <1>3, <1>5, <1>6, <1>8, <1>11, <2>1, <2>2, <2>3, ProposedHolds
<1>12. CASE /\ n # 1
            /\ \E p \in copied :
                  /\ verify' = <<staged>> \o Prefix(p.tail, v - 1)
                  /\ source' = "copy" /\ branches' = <<>>
                  /\ draft' = Feed(draft, feats.hidden)
  <2>1. PICK p \in copied :
           /\ verify' = <<staged>> \o Prefix(p.tail, v - 1)
           /\ source' = "copy" /\ branches' = <<>>
           /\ draft' = Feed(draft, feats.hidden)
    BY <1>12
  <2>2. p.tail \in Seq(Token) /\ Len(p.tail) = n - 1
    <3>1. n - 1 \in Nat /\ p \in Proposals(draft, staged, n - 1)
      BY <1>3, <2>1 DEF copied
    <3> QED BY <1>2, <3>1, ProposalFacts
  <2>3. verify' \in Seq(Token) /\ Len(verify') = v /\ verify'[1] = logits
    BY <1>10, <2>1, <2>2
  <2>4. \A i \in DOMAIN branches' : FALSE
    BY <2>1
  <2> QED BY <1>1, <1>2, <1>3, <1>4, <1>5, <1>8, <1>9, <1>12, <2>1, <2>3, <2>4, ProposedHolds
<1>13. CASE /\ n # 1
            /\ \E tail \in [1..rows -> Token \ Suppressed] :
                  /\ verify' = <<staged>> \o Prefix(tail, v - 1)
                  /\ \/ /\ source' = "tree" /\ branches' = <<>>
                        /\ draft' = Feed(draft, feats.hidden)
                     \/ /\ req.tree # "target" /\ source' = "draft"
                        /\ \E bs \in Branches(staged, tail) :
                              branches' = [p \in DOMAIN bs |-> Prefix(bs[p], v)]
                        /\ draft' = Feed(draft, feats.hidden)
  <2>1. PICK tail \in [1..rows -> Token \ Suppressed] :
           /\ verify' = <<staged>> \o Prefix(tail, v - 1)
           /\ \/ /\ source' = "tree" /\ branches' = <<>>
                 /\ draft' = Feed(draft, feats.hidden)
              \/ /\ req.tree # "target" /\ source' = "draft"
                 /\ \E bs \in Branches(staged, tail) :
                       branches' = [p \in DOMAIN bs |-> Prefix(bs[p], v)]
                 /\ draft' = Feed(draft, feats.hidden)
    BY <1>13
  <2>2. tail \in Seq(Token) /\ Len(tail) = rows
    BY <1>4
  <2>3. verify' \in Seq(Token) /\ Len(verify') = v /\ verify'[1] = logits
    BY <1>10, <2>1, <2>2
  <2>4. branches' \in Seq(Seq(Token))
        /\ \A i \in DOMAIN branches' : Len(branches'[i]) = Len(verify') /\ branches'[i][1] = logits
    <3>1. CASE branches' = <<>>
      BY <1>8, <3>1
    <3>2. CASE /\ req.tree # "target"
               /\ \E bs \in Branches(staged, tail) : branches' = [p \in DOMAIN bs |-> Prefix(bs[p], v)]
      <4>1. PICK bs \in Branches(staged, tail) : branches' = [p \in DOMAIN bs |-> Prefix(bs[p], v)]
        BY <3>2
      <4>2. v \in 1..(Len(tail) + 1)
        BY <1>4, <2>2, <3>2 DEF rows
      <4> QED BY <1>2, <2>2, <2>3, <4>1, <4>2, BranchFacts
    <3> QED BY <2>1, <3>1, <3>2
  <2>5. source' \in {"tree", "draft"} /\ draft' = Feed(draft, feats.hidden)
    BY <2>1
  <2>6. Len(verify') \in 1..Block /\ Len(verify') <= req.max - Len(generated)
    <3>1. req.max - Len(generated) \in Nat
      BY <1>1, AtCycle
    <3> QED BY <1>3, <1>4, <2>3, <3>1
  <2>7. draft' \in DraftState /\ draft'.ahead = None /\ draft'.fed = FeaturesOf(req, Text)
    BY <1>9, <1>13, <2>5
  <2> QED BY <1>1, <1>2, <1>5, <2>3, <2>4, <2>5, <2>6, <2>7, ProposedHolds
<1> QED BY <1>7, <1>11, <1>12, <1>13

(* ------------------------------- committing ------------------------------ *)

\* The tokens of a text after the first `from` are the target's.
SaysGreedy(text, from) == \A i \in from + 1..Len(text) : text[i] = Greedy(Prefix(text, i - 1))

LEMMA GreedyExtends ==
    ASSUME NEW text \in Seq(Token), NEW c \in Seq(Token), NEW from \in Nat, SaysGreedy(text, from),
           \A j \in 1..Len(c) : c[j] = Greedy(text \o Prefix(c, j - 1))
    PROVE  SaysGreedy(text \o c, from)
<1> SUFFICES ASSUME NEW i \in from + 1..Len(text \o c)
             PROVE  (text \o c)[i] = Greedy(Prefix(text \o c, i - 1))
  BY DEF SaysGreedy
<1>1. Len(text \o c) = Len(text) + Len(c) /\ Len(text) \in Nat /\ Len(c) \in Nat
  BY Concat
<1>2. CASE i <= Len(text)
  <2>1. i \in 1..Len(text) /\ i \in from + 1..Len(text) /\ i - 1 \in 0..Len(text)
    BY <1>1, <1>2
  <2>2. (text \o c)[i] = text[i] /\ Prefix(text \o c, i - 1) = Prefix(text, i - 1)
    BY <2>1, Concat, PrefixOfConcat
  <2> QED BY <2>1, <2>2 DEF SaysGreedy
<1>3. CASE i > Len(text)
  <2> DEFINE j == i - Len(text)
             m == j - 1
  <2>1. j \in 1..Len(c) /\ i = Len(text) + j /\ m \in 0..Len(c) /\ i - 1 = Len(text) + m
    BY <1>1, <1>3
  <2> HIDE DEF j
  <2>2. (text \o c)[i] = c[j]
    BY <2>1, Concat
  <2>3. c[j] = Greedy(text \o Prefix(c, m))
    BY <2>1
  <2> HIDE DEF m
  <2>4. Prefix(text \o c, Len(text) + m) = text \o Prefix(c, m)
    BY <2>1, PrefixOfConcat
  <2> QED BY <2>1, <2>2, <2>3, <2>4
<1> QED BY <1>1, <1>2, <1>3

\* What was read of a block, cut to the accepted part, is what reading that part gives.
LEMMA FeaturesAccepted ==
    ASSUME NEW u \in Seq(Token), NEW block \in Seq(Token), NEW n \in 0..Len(block),
           NEW c, c = Prefix(block, n)
    PROVE  /\ Prefix(Features(u \o block, Len(block)), n) = Features(u \o c, n)
           /\ Features(u \o c, n) \in Seq(Seq(Token)) /\ Len(Features(u \o c, n)) = n
<1> DEFINE all == u \o block
           some == u \o c
<1>1. c \in Seq(Token) /\ Len(c) = n /\ Len(block) \in Nat
  BY PrefixType
<1>2. /\ all \in Seq(Token) /\ Len(all) = Len(u) + Len(block)
      /\ some \in Seq(Token) /\ Len(some) = Len(u) + n /\ Len(u) \in Nat
  <2>1. \A s, t \in Seq(Token) : s \o t \in Seq(Token) /\ Len(s \o t) = Len(s) + Len(t)
    BY Concat
  <2> QED BY <1>1, <2>1
<1>3. some = Prefix(all, Len(u) + n)
  <2>1. \A m \in 0..Len(block) : Prefix(u \o block, Len(u) + m) = u \o Prefix(block, m)
    BY PrefixOfConcat
  <2> QED BY <2>1
<1> HIDE DEF all, some
<1>4. /\ Features(all, Len(block)) \in Seq(Seq(Token)) /\ Len(Features(all, Len(block))) = Len(block)
      /\ \A i \in 1..Len(block) : Features(all, Len(block))[i] = Prefix(all, Len(u) + i)
  <2>1. Len(block) \in 0..Len(all) /\ Len(all) - Len(block) = Len(u)
    BY <1>1, <1>2
  <2>2. /\ Features(all, Len(block)) \in Seq(Seq(Token)) /\ Len(Features(all, Len(block))) = Len(block)
        /\ \A i \in 1..Len(block) : Features(all, Len(block))[i] = Prefix(all, Len(all) - Len(block) + i)
    BY <1>2, <2>1, FeaturesOfLast
  <2> QED BY <2>1, <2>2
<1>5. /\ Features(some, n) \in Seq(Seq(Token)) /\ Len(Features(some, n)) = n
      /\ \A i \in 1..n : Features(some, n)[i] = Prefix(some, Len(u) + i)
  <2>1. n \in 0..Len(some) /\ Len(some) - n = Len(u)
    BY <1>2
  <2>2. /\ Features(some, n) \in Seq(Seq(Token)) /\ Len(Features(some, n)) = n
        /\ \A i \in 1..n : Features(some, n)[i] = Prefix(some, Len(some) - n + i)
    BY <1>2, <2>1, FeaturesOfLast
  <2> QED BY <2>1, <2>2
<1> DEFINE f == Features(all, Len(block))
           g == Features(some, n)
<1> HIDE DEF f, g
<1>6. /\ Prefix(f, n) \in Seq(Seq(Token)) /\ Len(Prefix(f, n)) = n
      /\ \A i \in 1..n : Prefix(f, n)[i] = f[i]
  BY <1>4, PrefixType DEF f
<1>7. \A i \in 1..n : Prefix(f, n)[i] = g[i]
  <2> SUFFICES ASSUME NEW i \in 1..n PROVE Prefix(f, n)[i] = g[i]
    OBVIOUS
  <2>1. i \in 1..Len(block)
    BY <1>1
  <2>2. Prefix(f, n)[i] = Prefix(all, Len(u) + i) /\ g[i] = Prefix(some, Len(u) + i)
    BY <1>4, <1>5, <1>6, <2>1 DEF f, g
  <2> DEFINE a == Len(u) + i
             b == Len(u) + n
  <2>3. a \in 0..Len(all) /\ b \in a..Len(all)
    BY <1>2, <2>1
  <2> HIDE DEF a, b
  <2>4. Prefix(Prefix(all, b), a) = Prefix(all, a)
    BY <1>2, <2>3, PrefixExtends
  <2> QED BY <1>3, <2>2, <2>4 DEF a, b
<1>8. Prefix(f, n) = g
  BY <1>5, <1>6, <1>7, SeqEqual DEF g
<1> QED BY <1>5, <1>8 DEF f, g, all, some

\* The target's answers to an accepted part are its greedy continuation.
LEMMA AcceptedHolds ==
    ASSUME TargetSpeaks, kv \in Seq(Token), gdn = kv, NEW block \in Seq(Token),
           NEW k \in 0..(Len(block) - 1), Accepts(block, k), block[1] = Greedy(kv)
    PROVE  /\ Prefix(block, k + 1) \in Seq(Token) /\ Len(Prefix(block, k + 1)) = k + 1
           /\ \A j \in 1..(k + 1) : Prefix(block, k + 1)[j]
                                      = Greedy(kv \o Prefix(Prefix(block, k + 1), j - 1))
           /\ Posterior(block)[k + 1] = Greedy(kv \o Prefix(block, k + 1))
           /\ Posterior(block)[k + 1] \in Token
<1> DEFINE c == Prefix(block, k + 1)
<1>1. Len(block) \in Nat /\ k + 1 \in 1..Len(block) /\ k + 1 \in 0..Len(block)
  OBVIOUS
<1>2. c \in Seq(Token) /\ Len(c) = k + 1 /\ \A i \in 1..(k + 1) : c[i] = block[i]
  BY <1>1, PrefixType
<1>3. \A i \in 1..Len(block) : /\ Posterior(block)[i] = Greedy(kv \o Prefix(block, i))
                               /\ Posterior(block)[i] \in Token
  <2> SUFFICES ASSUME NEW i \in 1..Len(block)
               PROVE  /\ Posterior(block)[i] = Greedy(kv \o Prefix(block, i))
                      /\ Posterior(block)[i] \in Token
    OBVIOUS
  <2>1. Prefix(block, i) \in Seq(Token)
    BY PrefixType
  <2>2. kv \o Prefix(block, i) \in Seq(Token)
    BY <2>1, Concat
  <2>3. Posterior(block)[i] = Target(kv \o Prefix(block, i), kv \o Prefix(block, i))
    BY DEF Posterior
  <2> QED BY <2>2, <2>3 DEF Greedy, TargetSpeaks
<1>4. \A j \in 1..(k + 1) : c[j] = Greedy(kv \o Prefix(c, j - 1))
  <2> SUFFICES ASSUME NEW j \in 1..(k + 1) PROVE c[j] = Greedy(kv \o Prefix(c, j - 1))
    OBVIOUS
  <2> DEFINE m == j - 1
  <2>1. m \in 0..k /\ j = m + 1 /\ j - 1 = m /\ m \in 0..Len(block) /\ k + 1 \in m..Len(block)
    BY <1>1
  <2> HIDE DEF m
  <2>2. Prefix(c, m) = Prefix(block, m)
    BY <1>1, <2>1, PrefixExtends
  <2>3. c[j] = block[j]
    BY <1>2
  <2>4. CASE m = 0
    <3>1. Prefix(block, m) = <<>> /\ kv \o <<>> = kv
      BY <2>4, Concat DEF Prefix
    <3>2. c[j] = Greedy(kv)
      BY <2>1, <2>3, <2>4
    <3> QED BY <2>1, <2>2, <3>1, <3>2
  <2>5. CASE m > 0
    <3>1. m \in 1..k /\ m \in 1..Len(block)
      BY <2>1, <2>5
    <3>2. block[m + 1] = Posterior(block)[m]
      BY <3>1 DEF Accepts
    <3> QED BY <1>3, <2>1, <2>2, <2>3, <3>1, <3>2
  <2> QED BY <2>1, <2>4, <2>5
<1> QED BY <1>1, <1>2, <1>3, <1>4

LEMMA ConcatThree ==
    ASSUME NEW S, NEW a \in Seq(S), NEW b \in Seq(S), NEW c \in Seq(S)
    PROVE  (a \o b) \o c = a \o (b \o c)
  OBVIOUS

LEMMA TokensConcat ==
    ASSUME NEW a \in Seq(Token), NEW b \in Seq(Token), NEW c \in Seq(Token)
    PROVE  (a \o b) \o c = a \o (b \o c)
  OBVIOUS

\* What holds when a block is verified.
LEMMA AtVerify ==
    ASSUME TargetSpeaks, IInv, pc = "verify"
    PROVE  /\ req \in Requests /\ ~ BeyondLimit(req) /\ Decoding
           /\ generated \in Seq(Token) /\ verify \in Seq(Token)
           /\ Context = req.prompt \o generated /\ Context \in Seq(Token)
           /\ Len(Context) = Len(req.prompt) + Len(generated)
           /\ Len(req.prompt) \in Nat /\ Len(generated) \in Nat /\ req.max \in Nat
           /\ Projected(req) = Len(req.prompt) + req.max
           /\ SnapLen(req) \in 0..Len(req.prompt)
           /\ Text = Context /\ kv = Context /\ gdn = kv /\ start = Len(Context)
           /\ logits = Greedy(Context) /\ logits \in Token /\ verify[1] = logits
           /\ Len(verify) \in 1..Block /\ Len(verify) <= req.max - Len(generated)
           /\ SaysGreedy(Context, Len(req.prompt))
           /\ feats \in FeatureStore /\ draft \in DraftState
<1>1. req \in Requests /\ ~ BeyondLimit(req) /\ Decoding
  BY DEF IInv, TypeOK, RightDecoder, Cycling, Decoding
<1>2. /\ generated \in Seq(Token) /\ Context \in Seq(Token) /\ Text = Context
      /\ Len(Context) = Len(req.prompt) + Len(generated)
  BY <1>1, TextNow DEF IInv, Blocks
<1>3. verify \in Seq(Token) /\ feats \in FeatureStore /\ draft \in DraftState
  BY DEF IInv, TypeOK
<1>4. /\ kv = Context /\ gdn = kv /\ start = Len(Context)
      /\ logits = Greedy(Context) /\ verify[1] = logits
  BY <1>1, <1>2 DEF IInv, CachesHoldTheText
<1>5. logits \in Token
  BY <1>2, <1>4 DEF TargetSpeaks, Greedy
<1>6. Len(verify) \in 1..Block /\ Len(verify) <= req.max - Len(generated)
  BY <1>1 DEF IInv, Blocks
<1>7. SaysGreedy(Context, Len(req.prompt))
  BY <1>1, <1>2 DEF IInv, TextIsGreedy, SaysGreedy
<1>8. /\ Len(req.prompt) \in Nat /\ Len(generated) \in Nat /\ req.max \in Nat
      /\ Projected(req) = Len(req.prompt) + req.max /\ SnapLen(req) \in 0..Len(req.prompt)
  BY <1>1, <1>2, RequestFacts
<1> QED BY <1>1, <1>2, <1>3, <1>4, <1>5, <1>6, <1>7, <1>8 DEF Context

\* Both caches have read the committed part, and no more.
ReadCommitted == kv' = kv \o committed' /\ gdn' = kv'

\* After a commit the draft cache waits for its features, or has got them and a draft.
DraftedAhead ==
    /\ draft' \in DraftState
    /\ req.tree # "no" => draft'.ahead = None
    /\ draft'.ahead = None => draft'.fed = draft.fed
    /\ draft'.ahead # None =>
          LET remaining == req.max - Len(generated) - Len(committed')
          IN  /\ ~ req.profile /\ Block > 1 /\ remaining > 0
              /\ draft'.ahead.len = BlockLen(draft'.limit, remaining) - 1
              /\ draft'.ahead.len > 0 /\ Len(draft'.ahead.tail) = draft'.ahead.len
              /\ draft'.ahead.first = logits'
              /\ draft'.fed = draft.fed \o feats'.hidden

LEMMA TextAfterCommit ==
    ASSUME NEW r \in Requests, NEW made \in Seq(Token), NEW c \in Seq(Token)
    PROVE  TextOf(r, made, c, 0) = (r.prompt \o made) \o c
<1>1. SubSeq(c, 0 + 1, Len(c)) = c
  OBVIOUS
<1> QED BY <1>1 DEF TextOf

LEMMA ChunksGrow ==
    ASSUME NEW a \in Seq(Seq(Token)), NEW b \in Seq(Seq(Token)), NEW c \in Seq(Seq(Token))
    PROVE  (a \o b) \o c = a \o (b \o c)
  BY ConcatThree

\* However a block was verified: the accepted part is committed, both caches have
\* read it and no more, and the draft cache was fed its features or will be.
LEMMA CommitHolds ==
    ASSUME TargetSpeaks, IInv, pc = "verify", pc' = "emit",
           NEW block \in Seq(Token), Len(block) = Len(verify), block[1] = logits,
           NEW k \in 0..(Len(verify) - 1), Accepts(block, k), Commit(block, k),
           ReadCommitted, DraftedAhead,
           UNCHANGED <<req, event, alive, prefill, staged, batch, generated, skip, emitted,
                       published>>
    PROVE  IInv'
<1> DEFINE c == Prefix(block, k + 1)
           hidden == Prefix(Features(kv \o block, Len(block)), k + 1)
<1>1. /\ req \in Requests /\ ~ BeyondLimit(req) /\ Decoding
      /\ generated \in Seq(Token) /\ verify \in Seq(Token)
      /\ Context = req.prompt \o generated /\ Context \in Seq(Token)
      /\ Len(Context) = Len(req.prompt) + Len(generated)
      /\ Len(req.prompt) \in Nat /\ Len(generated) \in Nat /\ req.max \in Nat
      /\ Projected(req) = Len(req.prompt) + req.max
      /\ SnapLen(req) \in 0..Len(req.prompt)
      /\ Text = Context /\ kv = Context /\ gdn = kv /\ start = Len(Context)
      /\ logits = Greedy(Context) /\ logits \in Token /\ verify[1] = logits
      /\ Len(verify) \in 1..Block /\ Len(verify) <= req.max - Len(generated)
      /\ SaysGreedy(Context, Len(req.prompt))
      /\ feats \in FeatureStore /\ draft \in DraftState
  BY AtVerify
<1>2. /\ c \in Seq(Token) /\ Len(c) = k + 1
      /\ \A j \in 1..(k + 1) : c[j] = Greedy(Context \o Prefix(c, j - 1))
      /\ Posterior(block)[k + 1] = Greedy(Context \o c) /\ Posterior(block)[k + 1] \in Token
  BY <1>1, AcceptedHolds
<1>3. c # <<>> /\ c[1] = logits
  <2>1. k + 1 \in 0..Len(block) /\ 1 \in 1..(k + 1)
    BY <1>1
  <2> QED BY <1>2, <2>1, PrefixType
<1>4. /\ committed' = c /\ given' = 0 /\ start' = start + k + 1
      /\ logits' = Posterior(block)[k + 1]
      /\ feats' = [feats EXCEPT !.hidden = hidden,
                      !.chunks = IF feats.collecting THEN feats.chunks \o hidden ELSE feats.chunks]
      /\ kv' = kv \o c /\ gdn' = kv'
  BY DEF Commit, ReadCommitted
<1>5. /\ hidden = Features(Context \o c, Len(c))
      /\ hidden \in Seq(Seq(Token)) /\ Len(hidden) = k + 1
  <2>1. k + 1 \in 0..Len(block) /\ kv \in Seq(Token)
    BY <1>1
  <2>2. /\ hidden = Features(kv \o c, k + 1)
        /\ Features(kv \o c, k + 1) \in Seq(Seq(Token)) /\ Len(Features(kv \o c, k + 1)) = k + 1
    BY <2>1, FeaturesAccepted
  <2>3. kv = Context
    BY <1>1
  <2> HIDE DEF c, hidden
  <2> QED BY <1>2, <2>2, <2>3
<1>6. Context \o c \in Seq(Token) /\ Len(Context \o c) = Len(Context) + k + 1
  <2>1. Context \in Seq(Token) /\ c \in Seq(Token) /\ Len(c) = k + 1
    BY <1>1, <1>2
  <2> HIDE DEF c
  <2>2. Context \o c \in Seq(Token) /\ Len(Context \o c) = Len(Context) + Len(c) /\ Len(Context) \in Nat
    BY <2>1
  <2> QED BY <2>1, <2>2
<1> HIDE DEF c
<1>7. Text' = Context \o c
  <2>1. Text' = TextOf(req', generated', committed', given')
    BY DEF Text, Context, TextOf
  <2>2. TextOf(req, generated, c, 0) = (req.prompt \o generated) \o c
    BY <1>1, <1>2, TextAfterCommit
  <2> QED BY <1>1, <1>4, <2>1, <2>2
<1>8. FeaturesOf(req, Context) \o hidden = FeaturesOf(req, Context \o c)
  <2>1. /\ SnapLen(req) \in 0..Len(Context)
        /\ req \in Requests /\ Context \in Seq(Token) /\ c \in Seq(Token)
    BY <1>1, <1>2
  <2> DEFINE u == Context \o c
  <2>2. u \in Seq(Token) /\ u = Context \o c
    BY <1>6
  <2> HIDE DEF u
  <2>3. FeaturesOf(req, Context) \o Features(u, Len(c)) = FeaturesOf(req, u)
    BY <2>1, <2>2, FeaturesOfConcat
  <2> QED BY <1>5, <2>2, <2>3
<1> HIDE DEF hidden
<1>9. /\ feats' \in FeatureStore /\ feats'.hidden = hidden /\ feats'.frozen = feats.frozen
      /\ feats'.collecting = feats.collecting
      /\ feats'.chunks = IF feats.collecting THEN feats.chunks \o hidden ELSE feats.chunks
      /\ feats.chunks \in Seq(Seq(Token))
  <2>1. feats.chunks \in Seq(Seq(Token)) /\ feats.chunks \o hidden \in Seq(Seq(Token))
    BY <1>1, <1>5, Concat DEF FeatureStore
  <2> QED BY <1>1, <1>4, <1>5, <2>1 DEF FeatureStore
<1>10. given = Len(committed)
  BY <1>1 DEF IInv, Blocks
<1>11. TypeOK'
  <2>1. given' \in 0..Len(committed') /\ start' \in Nat
    <3>1. k \in Nat /\ start \in Nat
      BY <1>1
    <3>2. given' = 0 /\ Len(committed') = k + 1 /\ start' = start + k + 1
      BY <1>2, <1>4
    <3> QED BY <3>1, <3>2
  <2>2. kv' \in Seq(Token) /\ gdn' \in Seq(Token) /\ committed' \in Seq(Token) /\ logits' \in Token
    BY <1>1, <1>2, <1>4, <1>6
  <2>3. draft' \in DraftState'
    <3>1. draft' \in DraftState
      BY DEF DraftedAhead
    <3>2. Limits' = Limits
      BY DEF Limits
    <3> QED BY <3>1, <3>2 DEF DraftState
  <2>4. feats' \in FeatureStore'
    BY <1>9
  <2> QED BY <2>1, <2>2, <2>3, <2>4 DEF IInv, TypeOK, prefill, batch
<1>12. CachesHoldTheText'
  <2>1. kv' = Text' /\ gdn' = Text' /\ start' = Len(Text') /\ logits' = Greedy(Text')
    BY <1>1, <1>2, <1>4, <1>6, <1>7
  <2> QED BY <2>1 DEF CachesHoldTheText
<1>13. Blocks'
  <2>1. Len(committed') <= Block /\ committed' # <<>>
    <3>1. Block \in Nat /\ k + 1 <= Block
      BY <1>1, ModelAssumption
    <3> QED BY <1>2, <1>3, <1>4, <3>1
  <2>2. Len(Text') <= Projected(req')
    BY <1>1, <1>6, <1>7
  <2>3. given' <= Len(generated') /\ \A i \in 1..given' : generated'[Len(generated') - given' + i] = committed'[i]
    BY <1>1, <1>4
  <2> QED BY <2>1, <2>2, <2>3 DEF Blocks
<1>14. TextIsGreedy'
  <2>1. SaysGreedy(Context \o c, Len(req.prompt))
    BY <1>1, <1>2, GreedyExtends
  <2>2. SaysGreedy(Text', Len(req'.prompt))
    BY <1>7, <2>1
  <2> QED BY <2>2 DEF TextIsGreedy, SaysGreedy
<1>15. TokensAreEmitted'
  <2>1. skip => req.max > 0 /\ generated = <<>> /\ emitted = <<logits>>
    BY <1>1 DEF IInv, TokensAreEmitted
  <2>2. ~ skip => emitted = generated
    BY <1>1 DEF IInv, TokensAreEmitted
  <2> QED BY <1>3, <1>4, <2>1, <2>2 DEF TokensAreEmitted, Cycling
<1>16. Stops'
  <2>1. \A i \in 1..Len(generated) : generated[i] \notin Stop
    BY <1>1 DEF IInv, Stops
  <2>2. Len(generated') - given' = Len(generated)
    BY <1>1, <1>4
  <2> QED BY <2>1, <2>2 DEF Stops, Ending
<1>17. Unfinished' => source # "none"
  <2>1. source = "none" => Block = 1 \/ Len(Context) + 1 = Projected(req)
    BY <1>1 DEF IInv, DraftIsFed, Cycling
  <2>2. Len(Text') >= Len(Context) + 1
    BY <1>1, <1>6, <1>7
  <2> QED BY <1>1, <2>1, <2>2 DEF Unfinished
<1>18. source # "none" => draft.fed = FeaturesOf(req, Context)
  BY <1>1 DEF IInv, DraftIsFed, Cycling
<1>19. DraftIsFed'
  <2>0. Len(Text') = Len(req.prompt) + Len(generated) + k + 1 /\ req' = req
    BY <1>1, <1>6, <1>7
  <2> DEFINE remaining == req.max - Len(generated) - Len(committed')
  <2>1. Projected(req') - Len(Text') = remaining
    <3>1. Projected(req') = Len(req.prompt) + req.max
      BY <1>1
    <3>2. /\ Len(req.prompt) \in Nat /\ Len(generated) \in Nat /\ req.max \in Nat /\ k \in Nat
          /\ Len(committed') = k + 1
      BY <1>1, <1>2, <1>4
    <3> QED BY <2>0, <3>1, <3>2
  <2>2. draft'.ahead # None => Unfinished'
    <3>1. Len(Text') \in Nat /\ Projected(req') \in Nat
      BY <1>1, <2>0
    <3>2. draft'.ahead # None => Block > 1 /\ Projected(req') - Len(Text') > 0
      BY <2>1 DEF DraftedAhead
    <3> QED BY <3>1, <3>2 DEF Unfinished
  <2>3. draft'.ahead # None => draft'.fed = FeaturesOf(req', Text')
    BY <1>7, <1>8, <1>9, <1>17, <1>18, <2>2 DEF DraftedAhead
  <2>4. draft'.ahead = None /\ Unfinished' => draft'.fed \o feats'.hidden = FeaturesOf(req', Text')
    BY <1>7, <1>8, <1>9, <1>17, <1>18 DEF DraftedAhead
  <2> QED BY <2>1, <2>2, <2>3, <2>4 DEF DraftIsFed, DraftedAhead
<1>20. FeaturesAreKept'
  <2>1. IF feats.collecting THEN FeaturesOf(req, req.prompt) \o feats.chunks = FeaturesOf(req, Context)
                            ELSE feats.chunks = <<>>
    BY <1>1 DEF IInv, FeaturesAreKept
  <2>2. feats.collecting => FeaturesOf(req, req.prompt) \o (feats.chunks \o hidden) = FeaturesOf(req, Text')
    <3>1. FeaturesOf(req, req.prompt) \in Seq(Seq(Token))
      BY <1>1, FeaturesType, RequestFacts
    <3>2. (FeaturesOf(req, req.prompt) \o feats.chunks) \o hidden
             = FeaturesOf(req, req.prompt) \o (feats.chunks \o hidden)
      BY <1>5, <1>9, <3>1, ChunksGrow
    <3>3. feats.collecting => (FeaturesOf(req, req.prompt) \o feats.chunks) \o hidden = FeaturesOf(req, Text')
      BY <1>7, <1>8, <2>1, Zenon
    <3> QED BY <3>2, <3>3, Zenon
  <2> QED BY <1>9, <2>1, <2>2 DEF IInv, FeaturesAreKept, prefill
<1>21. Remembering'
  BY <1>1, <1>9 DEF IInv, Remembering, Collects, Decoding, prefill
<1>22. RightDecoder' /\ PromptIsRead' /\ NothingYet' /\ PlainText'
  BY <1>1 DEF RightDecoder, PromptIsRead, NothingYet, PlainText, Prefilling, Cycling, PlainRuns, Over
<1> QED BY <1>11, <1>12, <1>13, <1>14, <1>15, <1>16, <1>19, <1>20, <1>21, <1>22,
           PublishNothingHolds DEF IInv

\* Rolled back or trimmed, both caches come to the same.
LEMMA CachesAfter ==
    ASSUME kv \in Seq(Token), gdn = kv, NEW block \in Seq(Token), NEW k \in 0..(Len(block) - 1)
    PROVE  /\ RecurrentAfter(block, k) = kv \o Prefix(block, k + 1)
           /\ AttentionAfter(block, Len(kv) + k + 1) = kv \o Prefix(block, k + 1)
<1> DEFINE n == k + 1
           read == kv \o block
<1>1. n \in 0..Len(block) /\ (k = Len(block) - 1 => n = Len(block)) /\ Len(kv) + k + 1 = Len(kv) + n
  OBVIOUS
<1>2. read \in Seq(Token) /\ Len(read) = Len(kv) + Len(block) /\ Len(kv) \in Nat /\ Len(block) \in Nat
  OBVIOUS
<1> HIDE DEF n
<1>3. Prefix(read, Len(kv) + n) = kv \o Prefix(block, n)
  <2>1. \A s \in Seq(Token) : \A m \in 0..Len(block) :
           Prefix(s \o block, Len(s) + m) = s \o Prefix(block, m)
    BY PrefixOfConcat
  <2> QED BY <1>1, <2>1
<1>4. RecurrentAfter(block, k) = kv \o Prefix(block, n)
  <2>1. n = Len(block) => Prefix(block, n) = block
    BY PrefixAll
  <2> QED BY <1>1, <2>1 DEF RecurrentAfter, Rollback, n
<1>5. AttentionAfter(block, Len(kv) + n) = kv \o Prefix(block, n)
  <2>1. CASE n = Len(block)
    <3>1. Prefix(block, n) = block
      BY <2>1, PrefixAll
    <3>2. ~ (Len(read) > Len(kv) + n)
      BY <1>2, <2>1
    <3> QED BY <3>1, <3>2 DEF AttentionAfter
  <2>2. CASE n # Len(block)
    <3>1. Len(read) > Len(kv) + n
      BY <1>1, <1>2, <2>2
    <3> QED BY <1>3, <3>1 DEF AttentionAfter
  <2> QED BY <2>1, <2>2
<1> QED BY <1>1, <1>4, <1>5 DEF n

\* What a commit leaves.
LEMMA CommitFacts ==
    ASSUME TargetSpeaks, IInv, pc = "verify", NEW block \in Seq(Token), Len(block) = Len(verify),
           block[1] = logits, NEW k \in 0..(Len(verify) - 1), Accepts(block, k), Commit(block, k)
    PROVE  /\ committed' = Prefix(block, k + 1) /\ committed' \in Seq(Token) /\ Len(committed') = k + 1
           /\ logits' \in Token /\ feats'.hidden \in Seq(Seq(Token))
           /\ start' = Len(kv) + k + 1
           /\ req.max - Len(generated) - (k + 1) \in Nat
           /\ k + 1 \in Nat /\ Len(generated) \in Nat /\ req.max \in Nat
<1> DEFINE hidden == Prefix(Features(kv \o block, Len(block)), k + 1)
<1>1. /\ kv \in Seq(Token) /\ gdn = kv /\ start = Len(kv) /\ logits = Greedy(kv)
      /\ feats \in FeatureStore
      /\ Len(verify) \in 1..Block /\ Len(verify) <= req.max - Len(generated)
      /\ Len(generated) \in Nat /\ req.max \in Nat
  BY AtVerify
<1>2. /\ committed' = Prefix(block, k + 1) /\ start' = start + k + 1
      /\ logits' = Posterior(block)[k + 1]
      /\ feats' = [feats EXCEPT !.hidden = hidden,
                      !.chunks = IF feats.collecting THEN feats.chunks \o hidden ELSE feats.chunks]
  BY DEF Commit
<1>3. /\ Prefix(block, k + 1) \in Seq(Token) /\ Len(Prefix(block, k + 1)) = k + 1
      /\ Posterior(block)[k + 1] \in Token
  BY <1>1, AcceptedHolds
<1>4. hidden \in Seq(Seq(Token))
  <2>1. k + 1 \in 0..Len(block) /\ kv \in Seq(Token)
    BY <1>1
  <2> QED BY <2>1, FeaturesAccepted
<1> HIDE DEF hidden
<1>5. feats'.hidden = hidden
  BY <1>1, <1>2 DEF FeatureStore
<1>6. req.max - Len(generated) - (k + 1) \in Nat /\ k + 1 \in Nat
  BY <1>1
<1> QED BY <1>1, <1>2, <1>3, <1>4, <1>5, <1>6

\* A draft ahead of its cycle is made with the draft cache fed.
LEMMA PrefetchFacts ==
    ASSUME req \in Requests, NEW d \in DraftState, NEW hidden \in Seq(Seq(Token)),
           NEW first \in Token, NEW remaining \in Nat, NEW e \in Prefetched(d, hidden, first, remaining)
    PROVE  /\ e \in DraftState
           /\ e.ahead = None => e.fed = d.fed
           /\ e.ahead # None =>
                 /\ ~ req.profile /\ Block > 1 /\ remaining > 0
                 /\ e.ahead.len = BlockLen(e.limit, remaining) - 1
                 /\ e.ahead.len > 0 /\ Len(e.ahead.tail) = e.ahead.len
                 /\ e.ahead.first = first
                 /\ e.fed = d.fed \o hidden
<1> DEFINE n == BlockLen(d.limit, remaining)
<1>1. /\ d.limit \in Limits /\ d.fed \in Seq(Seq(Token)) /\ d.copies \in Seq(Token)
      /\ d.copyOff \in BOOLEAN
      /\ d = [fed |-> d.fed, ahead |-> d.ahead, copies |-> d.copies, copyOff |-> d.copyOff, limit |-> d.limit]
  BY DEF DraftState
<1>2. d.limit \in 1..Block /\ (d.limit = 1 => Block = 1)
  BY <1>1, LimitFacts
<1>3. CASE e = [d EXCEPT !.ahead = None]
  BY <1>1, <1>3 DEF DraftState
<1>4. CASE e # [d EXCEPT !.ahead = None]
  <2>1. ~ req.profile /\ remaining > 0 /\ n > 1
    <3>1. n \in Int
      BY <1>2, ModelAssumption DEF BlockLen, Greater, Lesser
    <3>2. ~ (req.profile \/ remaining <= 0 \/ n <= 1)
      BY <1>4 DEF Prefetched
    <3> QED BY <3>1, <3>2
  <2>2. n \in 1..Block /\ Block > 1 /\ n - 1 \in Nat
    <3>1. n \in 1..Block /\ Block > 1
      BY <1>2, <2>1, BlockLenFacts
    <3> QED BY <2>1, <3>1
  <2>3. PICK p \in Proposals(d, first, n - 1) :
           e = [Feed(d, hidden) EXCEPT !.ahead =
                  [len |-> n - 1, first |-> first, tail |-> p.tail, source |-> p.source]]
    BY <2>1, <2>2 DEF Prefetched
  <2>4. p.tail \in Seq(Token) /\ Len(p.tail) = n - 1 /\ p.source \in {"copy", "draft"}
    BY <1>1, <2>2, <2>3, ProposalFacts
  <2> DEFINE ahead == [len |-> n - 1, first |-> first, tail |-> p.tail, source |-> p.source]
  <2>5. ahead \in Ahead /\ ahead.len = n - 1 /\ ahead.tail = p.tail /\ ahead.first = first
    BY <2>2, <2>4 DEF Ahead
  <2>6. ahead # None
    BY <2>5, NoneIsNothing
  <2>7. d.fed \o hidden \in Seq(Seq(Token))
    BY <1>1, Concat
  <2> HIDE DEF n, ahead
  <2>8. e = [fed |-> d.fed \o hidden, ahead |-> ahead, copies |-> d.copies, copyOff |-> d.copyOff,
             limit |-> d.limit]
    <3>1. e = [Feed(d, hidden) EXCEPT !.ahead = ahead]
      BY <2>3 DEF ahead
    <3> QED BY <1>1, <3>1 DEF Feed
  <2>9. e \in DraftState
    BY <1>1, <2>5, <2>7, <2>8 DEF DraftState
  <2> QED BY <2>1, <2>2, <2>4, <2>5, <2>6, <2>8, <2>9 DEF n
<1> QED BY <1>3, <1>4

LEMMA VerifyAndCommitHolds ==
    ASSUME TargetSpeaks, IInv, VerifyAndCommit
    PROVE  IInv'
<1>1. /\ pc = "verify" /\ pc' = "emit" /\ req.tree = "no"
      /\ UNCHANGED <<req, event, alive, prefill, staged, batch, generated, skip, emitted, published>>
  BY DEF VerifyAndCommit, At
<1>2. /\ req \in Requests /\ verify \in Seq(Token) /\ Len(verify) \in 1..Block /\ verify[1] = logits
      /\ kv \in Seq(Token) /\ gdn = kv /\ draft \in DraftState
  BY <1>1, AtVerify
<1>3. PICK k \in 0..(Len(verify) - 1) :
         /\ Accepts(verify, k)
         /\ Commit(verify, k)
         /\ gdn' = RecurrentAfter(verify, k)
         /\ kv' = AttentionAfter(verify, start')
         /\ \E limit \in Limits :
               draft' \in Prefetched(
                   [draft EXCEPT !.limit = limit,
                        !.copies = @ \o committed',
                        !.copyOff = @ \/ (/\ source = "copy" /\ k = 0
                                         /\ req.copy = "conservative")],
                   feats'.hidden, logits', req.max - Len(generated) - (k + 1))
  BY DEF VerifyAndCommit
<1>4. /\ committed' = Prefix(verify, k + 1) /\ committed' \in Seq(Token) /\ Len(committed') = k + 1
      /\ logits' \in Token /\ feats'.hidden \in Seq(Seq(Token))
      /\ start' = Len(kv) + k + 1
      /\ req.max - Len(generated) - (k + 1) \in Nat
  BY <1>1, <1>2, <1>3, CommitFacts
<1>5. ReadCommitted
  <2>1. /\ RecurrentAfter(verify, k) = kv \o Prefix(verify, k + 1)
        /\ AttentionAfter(verify, Len(kv) + k + 1) = kv \o Prefix(verify, k + 1)
    BY <1>2, CachesAfter
  <2> QED BY <1>3, <1>4, <2>1 DEF ReadCommitted
<1>6. DraftedAhead
  <2> DEFINE remaining == req.max - Len(generated) - (k + 1)
             off == source = "copy" /\ k = 0 /\ req.copy = "conservative"
  <2>1. PICK limit \in Limits :
           draft' \in Prefetched(
               [draft EXCEPT !.limit = limit, !.copies = @ \o committed', !.copyOff = @ \/ off],
               feats'.hidden, logits', remaining)
    BY <1>3
  <2> DEFINE d == [draft EXCEPT !.limit = limit, !.copies = @ \o committed', !.copyOff = @ \/ off]
  <2>2. d \in DraftState /\ d.fed = draft.fed
    <3>1. draft.copies \in Seq(Token) /\ draft.copies \o committed' \in Seq(Token)
      BY <1>2, <1>4, Concat DEF DraftState
    <3>2. (draft.copyOff \/ off) \in BOOLEAN
      OBVIOUS
    <3> HIDE DEF off
    <3> QED BY <1>2, <3>1, <3>2 DEF DraftState
  <2>3. draft' \in Prefetched(d, feats'.hidden, logits', remaining) /\ remaining \in Nat
    BY <1>4, <2>1
  <2>4. remaining = req.max - Len(generated) - Len(committed')
    BY <1>4
  <2> HIDE DEF d, remaining
  <2>5. /\ draft' \in DraftState
        /\ draft'.ahead = None => draft'.fed = d.fed
        /\ draft'.ahead # None =>
              /\ ~ req.profile /\ Block > 1 /\ remaining > 0
              /\ draft'.ahead.len = BlockLen(draft'.limit, remaining) - 1
              /\ draft'.ahead.len > 0 /\ Len(draft'.ahead.tail) = draft'.ahead.len
              /\ draft'.ahead.first = logits'
              /\ draft'.fed = d.fed \o feats'.hidden
    <3>1. /\ req \in Requests /\ d \in DraftState /\ feats'.hidden \in Seq(Seq(Token))
          /\ logits' \in Token /\ remaining \in Nat
      BY <1>2, <1>4, <2>2, <2>3
    <3>2. PICK e, h, first : e = draft' /\ h = feats'.hidden /\ first = logits'
      OBVIOUS
    <3>3. /\ e \in DraftState
          /\ e.ahead = None => e.fed = d.fed
          /\ e.ahead # None =>
                /\ ~ req.profile /\ Block > 1 /\ remaining > 0
                /\ e.ahead.len = BlockLen(e.limit, remaining) - 1
                /\ e.ahead.len > 0 /\ Len(e.ahead.tail) = e.ahead.len
                /\ e.ahead.first = first
                /\ e.fed = d.fed \o h
      <4>1. /\ req \in Requests /\ d \in DraftState /\ h \in Seq(Seq(Token))
            /\ first \in Token /\ remaining \in Nat /\ e \in Prefetched(d, h, first, remaining)
        BY <2>3, <3>1, <3>2
      <4> QED BY <4>1, PrefetchFacts
    <3> QED BY <3>2, <3>3
  <2> QED BY <1>1, <2>2, <2>4, <2>5 DEF DraftedAhead
<1> QED BY <1>1, <1>2, <1>3, <1>5, <1>6, CommitHolds

LEMMA VerifyTreeHolds ==
    ASSUME TargetSpeaks, IInv, VerifyTree
    PROVE  IInv'
<1>1. /\ pc = "verify" /\ pc' = "emit"
      /\ UNCHANGED <<req, event, alive, prefill, staged, batch, generated, skip, emitted, published>>
      /\ draft' = [draft EXCEPT !.copies = @ \o committed']
      /\ gdn' = gdn \o committed' /\ kv' = kv \o committed'
  BY DEF VerifyTree, At
<1>2. /\ req \in Requests /\ verify \in Seq(Token) /\ Len(verify) \in 1..Block /\ verify[1] = logits
      /\ kv \in Seq(Token) /\ gdn = kv /\ draft \in DraftState
  BY <1>1, AtVerify
<1>3. PICK k \in 0..(Len(verify) - 1) : Accepts(verify, k) /\ Commit(verify, k)
  BY DEF VerifyTree
<1>4. committed' \in Seq(Token)
  BY <1>1, <1>2, <1>3, CommitFacts
<1>5. ReadCommitted
  BY <1>1, <1>2 DEF ReadCommitted
<1>6. DraftedAhead
  <2>1. draft.ahead = None
    BY <1>1, <1>2, AtVerify DEF VerifyTree, IInv, DraftIsFed, Blocks, Cycling
  <2>2. draft.copies \o committed' \in Seq(Token)
    BY <1>2, <1>4, Concat DEF DraftState
  <2>3. draft' \in DraftState /\ draft'.ahead = None /\ draft'.fed = draft.fed
    BY <1>1, <1>2, <2>1, <2>2 DEF DraftState
  <2> QED BY <2>3 DEF DraftedAhead
<1> QED BY <1>1, <1>2, <1>3, <1>5, <1>6, CommitHolds

\* Every row of the batch is a block that starts with the staged token.
LEMMA RowFacts ==
    ASSUME TargetSpeaks, IInv, pc = "verify", req.tree # "no", NEW i \in DOMAIN Rows
    PROVE  Rows[i] \in Seq(Token) /\ Len(Rows[i]) = Len(verify) /\ Rows[i][1] = logits
<1>1. verify \in Seq(Token) /\ verify[1] = logits /\ Decoding
  BY AtVerify
<1>2. branches \in Seq(Seq(Token)) /\ Len(branches) \in Nat
  BY DEF IInv, TypeOK
<1>3. \A j \in DOMAIN branches : Len(branches[j]) = Len(verify) /\ branches[j][1] = logits
  BY <1>1 DEF IInv, Blocks
<1>4. /\ DOMAIN Rows = 1..(Len(branches) + 1) /\ Rows[1] = verify
      /\ \A j \in 1..Len(branches) : Rows[j + 1] = branches[j]
  BY <1>1, <1>2 DEF Rows
<1>5. CASE i = 1
  BY <1>1, <1>4, <1>5
<1>6. CASE i # 1
  <2>1. PICK j \in 1..Len(branches) : i = j + 1
    <3>1. i - 1 \in 1..Len(branches) /\ i = (i - 1) + 1
      BY <1>2, <1>4, <1>6
    <3> QED BY <3>1
  <2>2. branches[j] \in Seq(Token) /\ j \in DOMAIN branches
    BY <1>2
  <2> QED BY <1>3, <1>4, <2>1, <2>2
<1> QED BY <1>5, <1>6

LEMMA VerifyBatchHolds ==
    ASSUME TargetSpeaks, IInv, VerifyBatch
    PROVE  IInv'
<1>1. /\ pc = "verify" /\ pc' = "emit" /\ req.tree # "no"
      /\ UNCHANGED <<req, event, alive, prefill, staged, batch, generated, skip, emitted, published>>
  BY DEF VerifyBatch, At
<1>2. PICK best \in DOMAIN Rows, k \in 0..(Len(verify) - 1) :
         /\ Accepts(Rows[best], k)
         /\ Commit(Rows[best], k)
         /\ gdn' = RecurrentAfter(Rows[best], k)
         /\ kv' = AttentionAfter(Rows[best], start')
         /\ draft' = [draft EXCEPT !.copies = @ \o committed',
                         !.copyOff = @ \/ (source = "copy" /\ k = 0)]
  BY DEF VerifyBatch
<1>3. PICK block : block = Rows[best]
  OBVIOUS
<1>4. block \in Seq(Token) /\ Len(block) = Len(verify) /\ block[1] = logits
  BY <1>1, <1>3, RowFacts
<1>5. /\ req \in Requests /\ Len(verify) \in 1..Block
      /\ kv \in Seq(Token) /\ gdn = kv /\ draft \in DraftState /\ Decoding
  BY <1>1, AtVerify
<1>6. /\ Accepts(block, k) /\ Commit(block, k)
      /\ gdn' = RecurrentAfter(block, k) /\ kv' = AttentionAfter(block, start')
  BY <1>2, <1>3
<1>7. /\ committed' = Prefix(block, k + 1) /\ committed' \in Seq(Token)
      /\ start' = Len(kv) + k + 1
  BY <1>1, <1>4, <1>6, CommitFacts
<1>8. ReadCommitted
  <2>1. /\ RecurrentAfter(block, k) = kv \o Prefix(block, k + 1)
        /\ AttentionAfter(block, Len(kv) + k + 1) = kv \o Prefix(block, k + 1)
    BY <1>4, <1>5, CachesAfter
  <2> QED BY <1>6, <1>7, <2>1 DEF ReadCommitted
<1>9. DraftedAhead
  <2> DEFINE off == source = "copy" /\ k = 0
  <2>1. draft.ahead = None
    BY <1>1, <1>5 DEF IInv, DraftIsFed, Cycling
  <2>2. draft.copies \o committed' \in Seq(Token) /\ (draft.copyOff \/ off) \in BOOLEAN
    BY <1>5, <1>7, Concat DEF DraftState
  <2>3. draft' = [draft EXCEPT !.copies = draft.copies \o committed', !.copyOff = draft.copyOff \/ off]
    BY <1>2
  <2> HIDE DEF off
  <2>4. draft' \in DraftState /\ draft'.ahead = None /\ draft'.fed = draft.fed
    BY <1>5, <2>1, <2>2, <2>3 DEF DraftState
  <2> QED BY <2>4 DEF DraftedAhead
<1> QED BY <1>1, <1>4, <1>6, <1>8, <1>9, CommitHolds

(* ------------------------------ handing out ------------------------------ *)

\* Handing a token out does not change the text.
LEMMA TextKept ==
    ASSUME NEW r \in Requests, NEW made \in Seq(Token), NEW segment \in Seq(Token),
           NEW n \in 0..(Len(segment) - 1)
    PROVE  /\ Append(made, segment[n + 1]) \in Seq(Token)
           /\ TextOf(r, Append(made, segment[n + 1]), segment, n + 1) = TextOf(r, made, segment, n)
<1> DEFINE x == segment[n + 1]
           m == n + 1
           rest == SubSeq(segment, m + 1, Len(segment))
<1>1. r.prompt \in Seq(Token)
  BY RequestFacts
<1>2. m \in 1..Len(segment) /\ Len(segment) \in Nat /\ x \in Token
  OBVIOUS
<1>3. rest \in Seq(Token) /\ SubSeq(segment, n + 1, Len(segment)) = <<x>> \o rest
  OBVIOUS
<1> HIDE DEF m, rest, x
<1>4. Append(made, x) \in Seq(Token) /\ Append(made, x) = made \o <<x>> /\ <<x>> \in Seq(Token)
  BY <1>2
<1>5. (r.prompt \o (made \o <<x>>)) \o rest = (r.prompt \o made) \o (<<x>> \o rest)
  <2> DEFINE p == r.prompt
             o == <<x>>
  <2>1. p \in Seq(Token) /\ o \in Seq(Token)
    BY <1>1, <1>4
  <2> HIDE DEF p, o
  <2>2. (p \o (made \o o)) \o rest = (p \o made) \o (o \o rest)
    <3>1. \A a, b, c \in Seq(Token) : (a \o b) \o c = a \o (b \o c)
      BY TokensConcat
    <3>2. p \o made \in Seq(Token)
      BY <2>1, Concat
    <3>3. (p \o made) \o o = p \o (made \o o)
      BY <2>1, <3>1, Zenon
    <3>4. ((p \o made) \o o) \o rest = (p \o made) \o (o \o rest)
      BY <1>3, <2>1, <3>1, <3>2, Zenon
    <3> QED BY <3>3, <3>4, Zenon
  <2> QED BY <2>2 DEF p, o
<1>6. TextOf(r, made, segment, n) = (r.prompt \o made) \o (<<x>> \o rest)
  BY <1>3 DEF TextOf
<1>7. TextOf(r, Append(made, x), segment, m) = (r.prompt \o (made \o <<x>>)) \o rest
  BY <1>4 DEF TextOf, rest
<1> QED BY <1>4, <1>5, <1>6, <1>7 DEF m, x

LEMMA EmitTokenHolds ==
    ASSUME TargetSpeaks, IInv, EmitToken
    PROVE  IInv'
<1> DEFINE x == committed[given + 1]
<1>1. /\ pc = "emit" /\ pc' = "emit" /\ event = None
      /\ given < Len(committed) /\ Len(generated) < req.max
      /\ generated' = Append(generated, x) /\ given' = given + 1
      /\ UNCHANGED <<req, alive, prefill, kv, gdn, logits, feats, draft, staged, batch,
                     committed, start, published>>
  BY DEF EmitToken, At
<1>2. /\ req \in Requests /\ ~ BeyondLimit(req) /\ Decoding
      /\ generated \in Seq(Token) /\ committed \in Seq(Token) /\ given \in 0..Len(committed)
      /\ emitted \in Seq(Token) /\ req.max \in Nat
  BY <1>1, RequestFacts DEF IInv, TypeOK, RightDecoder, Cycling, Decoding
<1>3. given \in 0..(Len(committed) - 1) /\ given + 1 \in 1..Len(committed) /\ x \in Token
  BY <1>1, <1>2
<1>4. /\ generated' \in Seq(Token) /\ Len(generated') = Len(generated) + 1
      /\ \A i \in 1..Len(generated) : generated'[i] = generated[i]
      /\ generated'[Len(generated) + 1] = x
      /\ Len(generated) \in Nat
  BY <1>1, <1>2, <1>3
<1>5. Text' = Text
  <2>1. Text' = TextOf(req', generated', committed', given')
    BY DEF Text, Context, TextOf
  <2>2. TextOf(req, Append(generated, x), committed, given + 1) = TextOf(req, generated, committed, given)
    BY <1>2, <1>3, TextKept
  <2> QED BY <1>1, <2>1, <2>2, TextIs
<1>6. /\ skip => emitted' = emitted /\ skip' = FALSE
      /\ ~ skip => emitted' = Append(emitted, x) /\ skip' = skip
      /\ event' \in {None, "token"}
  BY <1>1 DEF EmitToken
<1> HIDE DEF x
<1>7. TypeOK'
  <2>1. emitted' \in Seq(Token) /\ skip' \in BOOLEAN
    <3>1. Append(emitted, x) \in Seq(Token) /\ skip \in BOOLEAN
      <4>1. skip \in BOOLEAN
        BY DEF IInv, TypeOK
      <4> QED BY <1>2, <1>3, <4>1
    <3> QED BY <1>2, <1>6, <3>1
  <2>2. given' \in 0..Len(committed')
    BY <1>1, <1>2, <1>3
  <2> QED BY <1>1, <1>4, <1>6, <2>1, <2>2 DEF IInv, TypeOK, prefill, batch, Limits, DraftState
<1>8. CachesHoldTheText'
  BY <1>1, <1>2, <1>5 DEF IInv, CachesHoldTheText
<1>9. Blocks'
  <2>1. /\ committed # <<>> /\ Len(committed) <= Block /\ given <= Len(generated)
        /\ \A i \in 1..given : generated[Len(generated) - given + i] = committed[i]
        /\ Len(Text) <= Projected(req)
    BY <1>1, <1>2 DEF IInv, Blocks
  <2>2. given' <= Len(generated') /\ Len(generated') - given' = Len(generated) - given
    BY <1>1, <1>2, <1>4, <2>1
  <2>3. \A i \in 1..given' : generated'[Len(generated') - given' + i] = committed'[i]
    <3> SUFFICES ASSUME NEW i \in 1..given'
                 PROVE  generated'[Len(generated) - given + i] = committed[i]
      BY <1>1, <2>2
    <3>1. CASE i <= given
      <4> DEFINE j == Len(generated) - given + i
      <4>1. i \in 1..given /\ j \in 1..Len(generated)
        BY <1>1, <1>2, <1>4, <2>1, <3>1
      <4> HIDE DEF j
      <4>2. generated'[j] = generated[j]
        BY <1>4, <4>1
      <4> QED BY <2>1, <4>1, <4>2 DEF j
    <3>2. CASE i = given + 1
      <4>1. Len(generated) - given + i = Len(generated) + 1
        BY <1>2, <1>4, <3>2
      <4> QED BY <1>4, <3>2, <4>1 DEF x
    <3>3. i <= given \/ i = given + 1
      BY <1>1, <1>2
    <3> QED BY <3>1, <3>2, <3>3
  <2> QED BY <1>1, <1>5, <2>1, <2>2, <2>3 DEF Blocks
<1>10. TextIsGreedy'
  BY <1>1, <1>2, <1>5 DEF IInv, TextIsGreedy
<1>11. TokensAreEmitted'
  <2>1. CASE skip
    <3>1. generated = <<>> /\ given = 0 /\ emitted = <<committed[1]>>
      BY <1>1, <1>2, <2>1 DEF IInv, TokensAreEmitted
    <3>2. generated' = <<committed[1]>>
      BY <1>1, <3>1 DEF x
    <3> QED BY <1>6, <2>1, <3>1, <3>2 DEF TokensAreEmitted
  <2>2. CASE ~ skip
    <3>1. emitted = generated
      BY <1>1, <1>2, <2>2 DEF IInv, TokensAreEmitted
    <3> QED BY <1>1, <1>6, <2>2, <3>1 DEF TokensAreEmitted
  <2> QED BY <2>1, <2>2
<1>12. Stops'
  <2>1. \A i \in 1..Len(generated) - given : generated[i] \notin Stop
    BY <1>1, <1>2 DEF IInv, Stops, Cycling
  <2>2. Len(generated') - given' = Len(generated) - given
    BY <1>1, <1>2, <1>4
  <2>3. \A i \in 1..Len(generated) - given : generated'[i] = generated[i]
    BY <1>2, <1>4
  <2>4. \A i \in 1..Len(generated') - given' : generated'[i] \notin Stop
    BY <2>1, <2>2, <2>3
  <2> QED BY <1>1, <2>4 DEF Stops, Ending
<1>13. DraftIsFed'
  <2>1. Unfinished' = Unfinished
    BY <1>1, <1>5 DEF Unfinished
  <2> QED BY <1>1, <1>2, <1>5, <2>1 DEF IInv, DraftIsFed, Cycling
<1>14. FeaturesAreKept' /\ Remembering'
  BY <1>1, <1>2, <1>5 DEF IInv, FeaturesAreKept, Remembering, Decoding, Collects, prefill
<1>15. RightDecoder' /\ PromptIsRead' /\ NothingYet' /\ PlainText'
  BY <1>1, <1>2 DEF RightDecoder, PromptIsRead, NothingYet, PlainText, Prefilling, Cycling, PlainRuns, Over
<1> QED BY <1>1, <1>7, <1>8, <1>9, <1>10, <1>11, <1>12, <1>13, <1>14, <1>15,
           PublishNothingHolds DEF IInv

(* --------------------------------- ending -------------------------------- *)

\* What an action keeps that only moves on, once the tokens of a cycle are out.
LEMMA MovedOn ==
    ASSUME IInv, Decoding, pc' \in {"cycle", "finish", "summary", "return"}, given = Len(committed),
           UNCHANGED <<req, alive, prefill, kv, gdn, logits, feats, draft, batch,
                       committed, given, start, generated, skip, emitted>>,
           staged' \in {staged, logits}, pc' = "cycle" => staged' = logits,
           event' \in {None, "cycle", "snapshot", "summary"}
    PROVE  /\ TypeOK' /\ RightDecoder' /\ PromptIsRead' /\ NothingYet' /\ CachesHoldTheText'
           /\ Blocks' /\ TextIsGreedy' /\ PlainText' /\ FeaturesAreKept' /\ Text' = Text
<1>1. Text' = Text /\ ~ BeyondLimit(req)
  BY SameText DEF Decoding
<1>2. TypeOK'
  BY DEF IInv, TypeOK, prefill, batch, Limits, DraftState
<1>3. CachesHoldTheText' /\ TextIsGreedy'
  BY <1>1 DEF IInv, CachesHoldTheText, TextIsGreedy
<1>4. Blocks'
  BY <1>1 DEF IInv, Blocks
<1>5. FeaturesAreKept'
  BY <1>1 DEF IInv, FeaturesAreKept, prefill
<1>6. RightDecoder' /\ PromptIsRead' /\ NothingYet' /\ PlainText'
  BY <1>1 DEF RightDecoder, PromptIsRead, NothingYet, PlainText, Prefilling, Cycling, PlainRuns, Over
<1> QED BY <1>1, <1>2, <1>3, <1>4, <1>5, <1>6

LEMMA EndCycleHolds ==
    ASSUME TargetSpeaks, IInv, EndCycle
    PROVE  IInv'
<1>0. given = Len(committed) \/ Len(generated) >= req.max
  BY DEF EndCycle
<1>1. /\ pc = "emit" /\ event = None
      /\ UNCHANGED <<req, alive, prefill, kv, gdn, logits, feats, draft, batch,
                     committed, given, start, generated, skip, emitted, published>>
  BY DEF EndCycle, At
<1>2. /\ StopHit => pc' = "finish" /\ staged' = staged /\ event' = event
      /\ ~ StopHit => pc' = "cycle" /\ staged' = logits /\ event' \in {None, "cycle"}
  BY DEF EndCycle
<1>3. /\ req \in Requests /\ ~ BeyondLimit(req) /\ Decoding
      /\ generated \in Seq(Token) /\ committed \in Seq(Token) /\ given \in 0..Len(committed)
      /\ req.max \in Nat /\ Projected(req) = Len(req.prompt) + req.max /\ Len(req.prompt) \in Nat
  <2>1. req \in Requests /\ ~ BeyondLimit(req) /\ Decoding
    BY <1>1 DEF IInv, TypeOK, RightDecoder, Cycling, Decoding
  <2>2. generated \in Seq(Token) /\ committed \in Seq(Token) /\ given \in 0..Len(committed)
    BY DEF IInv, TypeOK
  <2> QED BY <2>1, <2>2, RequestFacts
<1>4. /\ committed # <<>> /\ Len(Text) <= Projected(req)
      /\ \A i \in 1..given : generated[Len(generated) - given + i] = committed[i]
      /\ given <= Len(generated)
  <2>1. pc = "emit" /\ Decoding
    BY <1>1, <1>3
  <2> QED BY <2>1 DEF IInv, Blocks
<1>5. given = Len(committed)
  <2>1. Len(Text) = Len(req.prompt) + Len(generated) + Len(committed) - given
    BY TextNow
  <2> QED BY <1>0, <1>3, <1>4, <2>1
<1>6. given > 0 /\ Len(generated) \in Nat
  BY <1>3, <1>4, <1>5
<1>7. ~ skip /\ emitted = generated
  BY <1>1, <1>3, <1>6 DEF IInv, TokensAreEmitted
<1>8. /\ TypeOK' /\ RightDecoder' /\ PromptIsRead' /\ NothingYet' /\ CachesHoldTheText'
      /\ Blocks' /\ TextIsGreedy' /\ PlainText' /\ FeaturesAreKept' /\ Text' = Text
  BY <1>1, <1>2, <1>3, <1>5, MovedOn
<1>9. TokensAreEmitted'
  BY <1>1, <1>7 DEF TokensAreEmitted
<1>10. Stops'
  <2>1. \A i \in 1..Len(generated) - given : generated[i] \notin Stop
    BY <1>1, <1>3 DEF IInv, Stops, Cycling
  <2>2. CASE StopHit
    <3>1. PICK i \in 1..Len(committed) : committed[i] \in Stop
      BY <2>2 DEF StopHit
    <3> DEFINE j == Len(generated) - given + i
    <3>2. j \in 1..Len(generated) /\ generated[j] = committed[i]
      BY <1>3, <1>4, <1>5, <1>6, <3>1
    <3> HIDE DEF j
    <3>3. \E l \in 1..Len(emitted') : emitted'[l] \in Stop
      BY <1>1, <1>7, <3>1, <3>2
    <3> QED BY <1>1, <1>2, <2>2, <3>3 DEF Stops, Cycling
  <2>3. CASE ~ StopHit
    <3>1. \A i \in 1..Len(generated) : generated[i] \notin Stop
      <4> SUFFICES ASSUME NEW i \in 1..Len(generated) PROVE generated[i] \notin Stop
        OBVIOUS
      <4>1. CASE i <= Len(generated) - given
        BY <1>3, <1>6, <2>1, <4>1
      <4>2. CASE i > Len(generated) - given
        <5> DEFINE j == i - (Len(generated) - given)
        <5>1. j \in 1..given /\ j \in 1..Len(committed) /\ Len(generated) - given + j = i
          BY <1>3, <1>5, <1>6, <4>2
        <5> HIDE DEF j
        <5>2. generated[i] = committed[j]
          BY <1>4, <5>1
        <5> QED BY <2>3, <5>1, <5>2 DEF StopHit
      <4>3. i <= Len(generated) - given \/ i > Len(generated) - given
        BY <1>3, <1>6
      <4> QED BY <4>1, <4>2, <4>3
    <3> QED BY <1>1, <1>2, <2>1, <2>3, <3>1 DEF Stops, Ending
  <2> QED BY <2>2, <2>3
<1>11. DraftIsFed'
  <2>1. Unfinished' = Unfinished
    BY <1>1, <1>8 DEF Unfinished
  <2>2. StopHit => DraftIsFed'
    BY <1>2 DEF DraftIsFed, Cycling
  <2>3. ~ StopHit => DraftIsFed'
    BY <1>1, <1>2, <1>3, <1>8, <2>1 DEF IInv, DraftIsFed, Cycling
  <2> QED BY <2>2, <2>3
<1>12. Remembering'
  BY <1>1, <1>2, <1>3 DEF IInv, Remembering, Decoding, Collects, prefill
<1> QED BY <1>1, <1>8, <1>9, <1>10, <1>11, <1>12, PublishNothingHolds DEF IInv

LEMMA LoopDoneHolds ==
    ASSUME TargetSpeaks, IInv, LoopDone
    PROVE  IInv'
<1>1. /\ pc = "cycle" /\ pc' = "finish" /\ event = None /\ Len(generated) >= req.max
      /\ UNCHANGED <<req, event, alive, prefill, kv, gdn, logits, feats, draft, staged, batch,
                     committed, given, start, generated, skip, emitted, published>>
  BY DEF LoopDone, At, cycle
<1>2. /\ req \in Requests /\ ~ BeyondLimit(req) /\ Decoding
      /\ generated \in Seq(Token) /\ committed \in Seq(Token)
      /\ req.max \in Nat /\ Projected(req) = Len(req.prompt) + req.max /\ Len(req.prompt) \in Nat
  <2>1. req \in Requests /\ ~ BeyondLimit(req) /\ Decoding
    BY <1>1 DEF IInv, TypeOK, RightDecoder, Cycling, Decoding
  <2>2. generated \in Seq(Token) /\ committed \in Seq(Token) /\ given \in 0..Len(committed)
    BY DEF IInv, TypeOK
  <2> QED BY <2>1, <2>2, RequestFacts
<1>3. given = Len(committed) /\ Len(Text) <= Projected(req)
  BY <1>1, <1>2 DEF IInv, Blocks
<1>4. Len(generated) = req.max
  <2>1. Len(Text) = Len(req.prompt) + Len(generated) + Len(committed) - given
    BY TextNow
  <2> QED BY <1>1, <1>2, <1>3, <2>1
<1>5. ~ skip /\ emitted = generated
  <2>1. skip => generated = <<>> /\ req.max > 0
    BY <1>1, <1>2 DEF IInv, TokensAreEmitted
  <2> QED BY <1>2, <1>4, <2>1 DEF IInv, TokensAreEmitted
<1>6. /\ TypeOK' /\ RightDecoder' /\ PromptIsRead' /\ NothingYet' /\ CachesHoldTheText'
      /\ Blocks' /\ TextIsGreedy' /\ PlainText' /\ FeaturesAreKept' /\ Text' = Text
  BY <1>1, <1>2, <1>3, MovedOn
<1>7. TokensAreEmitted' /\ Stops' /\ DraftIsFed'
  BY <1>1, <1>4, <1>5 DEF TokensAreEmitted, Stops, DraftIsFed, Cycling
<1>8. Remembering'
  BY <1>1, <1>2 DEF IInv, Remembering, Decoding, Collects, prefill
<1> QED BY <1>1, <1>6, <1>7, <1>8, PublishNothingHolds DEF IInv

\* What holds after the cycles.
LEMMA AtEnd ==
    ASSUME IInv, pc \in {"finish", "summary", "return"}, ~ BeyondLimit(req)
    PROVE  /\ Decoding /\ req \in Requests /\ given = Len(committed) /\ Text = Context
           /\ generated \in Seq(Token) /\ Context \in Seq(Token) /\ Context = req.prompt \o generated
           /\ ~ skip /\ emitted = generated
           /\ kv = Context /\ gdn = Context /\ logits = Greedy(Context)
           /\ Len(generated) <= req.max /\ req.max \in Nat
<1>1. Decoding /\ ~ (pc \in {"cycle", "verify", "emit"})
  BY DEF Decoding
<1>2. given = Len(committed) /\ Len(Text) <= Projected(req)
  BY <1>1 DEF IInv, Blocks
<1>3. /\ req \in Requests /\ generated \in Seq(Token) /\ Context \in Seq(Token) /\ Text = Context
      /\ Len(Context) = Len(req.prompt) + Len(generated)
  BY <1>2, TextNow
<1>4. ~ skip /\ emitted = generated
  BY <1>1 DEF IInv, TokensAreEmitted, Cycling
<1>5. kv = Text /\ gdn = Text /\ logits = Greedy(Text)
  BY <1>1 DEF IInv, CachesHoldTheText
<1>6. Len(generated) <= req.max /\ req.max \in Nat
  <2>1. Projected(req) = Len(req.prompt) + req.max /\ req.max \in Nat /\ Len(req.prompt) \in Nat
    BY <1>3, RequestFacts
  <2> QED BY <1>2, <1>3, <2>1
<1> QED BY <1>1, <1>2, <1>3, <1>4, <1>5, <1>6 DEF Context

LEMMA PublishGenerationHolds ==
    ASSUME TargetSpeaks, IInv, PublishGeneration
    PROVE  IInv'
<1> DEFINE wanted == generated # <<>> /\ Collects /\ feats.frozen # None /\ feats.chunks # <<>>
           snapshot == State("generation", Context, feats.frozen \o feats.chunks, side)
<1>1. /\ pc = "finish" /\ pc' = "summary" /\ event = None
      /\ UNCHANGED <<req, alive, prefill, kv, gdn, logits, feats, draft, staged, batch,
                     committed, given, start, generated, skip, emitted>>
      /\ event' \in {None, "snapshot"}
  BY DEF PublishGeneration, At, cycle
<1>2. ~ BeyondLimit(req)
  BY <1>1 DEF IInv, RightDecoder
<1>3. /\ Decoding /\ req \in Requests /\ given = Len(committed) /\ Text = Context
      /\ generated \in Seq(Token) /\ Context \in Seq(Token) /\ Context = req.prompt \o generated
      /\ ~ skip /\ emitted = generated
      /\ kv = Context /\ gdn = Context /\ logits = Greedy(Context)
      /\ Len(generated) <= req.max /\ req.max \in Nat
  BY <1>1, <1>2, AtEnd
<1>4. /\ wanted => Publish(TRUE, snapshot)
      /\ ~ wanted => published' = published
  BY DEF PublishGeneration
<1>5. /\ TypeOK' /\ RightDecoder' /\ PromptIsRead' /\ NothingYet' /\ CachesHoldTheText'
      /\ Blocks' /\ TextIsGreedy' /\ PlainText' /\ FeaturesAreKept' /\ Text' = Text
  BY <1>1, <1>3, MovedOn
<1>6. TokensAreEmitted' /\ DraftIsFed'
  BY <1>1, <1>3 DEF TokensAreEmitted, DraftIsFed, Cycling
<1>7. Stops'
  BY <1>1 DEF IInv, Stops, Cycling, Ending
<1>8. /\ feats.frozen # None => feats.frozen = FeaturesOf(req, req.prompt)
      /\ feats.chunks # <<>> => feats.collecting
      /\ feats.collecting => FeaturesOf(req, req.prompt) \o feats.chunks = FeaturesOf(req, Context)
      /\ side # None => /\ side.at = req.boundary
                        /\ side.gdn = Prefix(req.prompt, req.boundary)
                        /\ side.logits = Greedy(side.gdn)
  BY <1>3 DEF IInv, FeaturesAreKept
<1>9. snapshot.kind = "generation" /\ snapshot.tokens = Context /\ snapshot.side = side
  BY DEF State
<1>10. wanted => TrueState(req, snapshot)
  <2> SUFFICES ASSUME wanted PROVE TrueState(req, snapshot)
    OBVIOUS
  <2>1. snapshot.feats = FeaturesOf(req, Context)
    BY <1>8 DEF State
  <2>2. snapshot.kv = Context /\ snapshot.gdn = Context /\ snapshot.logits = Greedy(Context)
    BY <1>1, <1>3 DEF State
  <2>3. Prefix(Context, req.boundary) = Prefix(req.prompt, req.boundary)
    <3>1. req.prompt \in Seq(Token) /\ req.boundary \in 0..Len(req.prompt)
      BY <1>3, RequestFacts
    <3> QED BY <1>3, <3>1, PrefixOfConcat
  <2> HIDE DEF snapshot
  <2> QED BY <1>8, <1>9, <2>1, <2>2, <2>3 DEF TrueState
<1> HIDE DEF snapshot
<1>11. PublishedStatesAreTrue'
  <2>1. CASE wanted
    BY <1>1, <1>4, <1>10, <2>1, PublishHolds DEF IInv
  <2>2. CASE ~ wanted
    BY <1>1, <1>4, <2>2, PublishNothingHolds DEF IInv
  <2> QED BY <2>1, <2>2
<1>12. Remembering'
  <2>1. Collects' = Collects
    BY <1>1 DEF Collects
  <2>2. Collects => feats.frozen # None /\ feats.collecting
    BY <1>2, <1>3 DEF IInv, Remembering
  <2>3. Collects /\ req.max > 0 /\ req.boundary >= SidecarMin => side # None
    BY <1>2, <1>3 DEF IInv, Remembering
  <2>4. Collects /\ generated # <<>> => wanted
    <3> SUFFICES ASSUME Collects, generated # <<>>, feats.chunks = <<>> PROVE FALSE
      BY <2>2
    <3>1. FeaturesOf(req, req.prompt) \o <<>> = FeaturesOf(req, Context)
      BY <1>8, <2>2
    <3>2. /\ FeaturesOf(req, req.prompt) \in Seq(Seq(Token)) /\ req.prompt \in Seq(Token)
          /\ Len(FeaturesOf(req, req.prompt)) = Len(req.prompt)
          /\ Len(FeaturesOf(req, Context)) = Len(Context)
      BY <1>3, FeaturesType, RequestFacts
    <3>3. FeaturesOf(req, req.prompt) \o <<>> = FeaturesOf(req, req.prompt)
      BY <3>2, Concat
    <3>4. Len(Context) = Len(req.prompt)
      BY <3>1, <3>2, <3>3
    <3>5. Len(Context) = Len(req.prompt) + Len(generated) /\ Len(generated) > 0 /\ Len(req.prompt) \in Nat
      BY <1>3, <3>2, TextNow
    <3> QED BY <3>4, <3>5
  <2>5. Collects /\ generated # <<>> => snapshot \in published'
    BY <1>4, <2>4 DEF Publish, Collects
  <2>6. generated # <<>> => req.max > 0
    BY <1>3
  <2>7. Collects /\ generated # <<>> =>
          \E p \in published' : /\ p.kind = "generation" /\ p.tokens = req.prompt \o emitted
                                /\ req.boundary >= SidecarMin => p.side # None /\ p.side.at = req.boundary
    <3> SUFFICES ASSUME Collects, generated # <<>>
                 PROVE  /\ snapshot.kind = "generation" /\ snapshot.tokens = req.prompt \o emitted
                        /\ req.boundary >= SidecarMin =>
                              snapshot.side # None /\ snapshot.side.at = req.boundary
      BY <2>5
    <3> QED BY <1>3, <1>8, <1>9, <2>3, <2>6
  <2>8. req' = req /\ emitted' = generated /\ feats' = feats /\ side' = side
    BY <1>1, <1>3 DEF prefill
  <2> QED BY <1>1, <1>3, <2>1, <2>2, <2>3, <2>7, <2>8 DEF Remembering
<1> QED BY <1>5, <1>6, <1>7, <1>11, <1>12 DEF IInv

LEMMA SummaryHolds ==
    ASSUME TargetSpeaks, IInv, Summary
    PROVE  IInv'
<1>1. /\ pc = "summary" /\ pc' = "return" /\ event = None /\ event' = "summary"
      /\ UNCHANGED <<req, alive, prefill, kv, gdn, logits, feats, draft, staged, batch,
                     committed, given, start, generated, skip, emitted, published>>
  BY DEF Summary, At, cycle
<1>2. ~ BeyondLimit(req)
  BY <1>1 DEF IInv, RightDecoder
<1>3. Decoding /\ given = Len(committed) /\ ~ skip /\ emitted = generated
  BY <1>1, <1>2, AtEnd
<1>4. /\ TypeOK' /\ RightDecoder' /\ PromptIsRead' /\ NothingYet' /\ CachesHoldTheText'
      /\ Blocks' /\ TextIsGreedy' /\ PlainText' /\ FeaturesAreKept' /\ Text' = Text
  BY <1>1, <1>3, MovedOn
<1>5. TokensAreEmitted' /\ DraftIsFed'
  BY <1>1, <1>3 DEF TokensAreEmitted, DraftIsFed, Cycling
<1>6. Stops'
  BY <1>1 DEF IInv, Stops, Cycling, Ending
<1>7. Remembering'
  BY <1>1, <1>3 DEF IInv, Remembering, Decoding, Collects, prefill
<1> QED BY <1>1, <1>4, <1>5, <1>6, <1>7, PublishNothingHolds DEF IInv

\* When the generator ends, what it published and what it told remain.
LEMMA EndedHolds ==
    ASSUME IInv, Cleanup, pc' \in {"done", "closed"}, event' = None,
           pc' = "done" => pc = "return",
           UNCHANGED <<req, alive, prefill, logits, feats, cycle, emitted, published>>
    PROVE  IInv'
<1>1. TypeOK'
  <2>1. <<>> \in Seq(Seq(Token)) /\ <<>> \in Seq(Token)
    OBVIOUS
  <2>5. draft \in DraftState /\ kv \in Seq(Token) /\ gdn \in Seq(Token)
    BY DEF IInv, TypeOK
  <2>2. draft' \in DraftState
    BY <2>1, <2>5 DEF Cleanup, DraftState
  <2>3. kv' \in Seq(Token) /\ gdn' \in Seq(Token)
    BY <2>1, <2>5 DEF Cleanup
  <2>4. draft' \in DraftState'
    BY <2>2 DEF DraftState, Limits
  <2> QED BY <2>3, <2>4 DEF IInv, TypeOK, prefill, cycle, batch
<1>2. RightDecoder' /\ PromptIsRead' /\ NothingYet' /\ PlainText'
  BY DEF RightDecoder, PromptIsRead, NothingYet, PlainText, Prefilling, Cycling, PlainRuns, Over
<1>3. FeaturesAreKept'
  BY DEF IInv, FeaturesAreKept, Decoding, prefill
<1>4. Remembering'
  BY DEF IInv, Remembering, Decoding, Collects
<1> QED BY <1>1, <1>2, <1>3, <1>4, NotDecoding, PublishNothingHolds DEF IInv

LEMMA ReturnHolds ==
    ASSUME TargetSpeaks, IInv, Return
    PROVE  IInv'
  BY EndedHolds DEF Return, At

LEMMA CloseHolds ==
    ASSUME TargetSpeaks, IInv, Close
    PROVE  IInv'
  BY EndedHolds DEF Close

(* --------------------------- the plain decoder --------------------------- *)

\* The parts of the invariant that tell of the speculative engine say nothing here.
LEMMA PlainHolds ==
    ASSUME IInv, BeyondLimit(req), req' = req,
           pc' \in {"plain first", "plain loop"},
           UNCHANGED <<alive, prefill, feats, draft, staged, batch, committed, given, start, skip,
                       published>>,
           event' \in {"prefilled", "token"},
           kv' \in Seq(Token), gdn' \in Seq(Token), generated' \in Seq(Token),
           emitted' \in Seq(Token), logits' \in Token, PlainText'
    PROVE  IInv'
<1>1. TypeOK'
  <2>1. draft' \in DraftState'
    BY DEF IInv, TypeOK, DraftState, Limits
  <2> QED BY <2>1 DEF IInv, TypeOK, prefill, batch
<1>2. RightDecoder' /\ PromptIsRead' /\ NothingYet'
  BY DEF RightDecoder, PromptIsRead, NothingYet, Prefilling, Cycling, PlainRuns, Over
<1>3. FeaturesAreKept' /\ Remembering'
  BY DEF IInv, FeaturesAreKept, Remembering, Decoding, prefill
<1> QED BY <1>1, <1>2, <1>3, NotDecoding, PublishNothingHolds DEF IInv

LEMMA PlainPrefillHolds ==
    ASSUME TargetSpeaks, IInv, PlainPrefill
    PROVE  IInv'
<1>1. /\ pc = "plain" /\ pc' = "plain first" /\ req \in Requests /\ BeyondLimit(req) /\ req' = req
      /\ emitted = <<>>
  BY DEF PlainPrefill, At, IInv, TypeOK, RightDecoder, PlainRuns, NothingYet
<1>2. req.prompt \in Seq(Token)
  BY <1>1, RequestFacts
<1>3. /\ kv' = req.prompt /\ gdn' = req.prompt /\ logits' = Target(kv', gdn')
      /\ generated' = <<logits'>> /\ event' = "prefilled"
      /\ UNCHANGED <<alive, prefill, feats, draft, staged, batch, committed, given, start, skip,
                     emitted, published>>
  BY DEF PlainPrefill
<1>4. logits' = Greedy(kv') /\ logits' \in Token
  BY <1>2, <1>3 DEF Greedy, TargetSpeaks
<1>5. generated' \in Seq(Token) /\ emitted' = <<>> /\ emitted' \in Seq(Token)
  <2>1. <<>> \in Seq(Token) /\ <<logits'>> \in Seq(Token)
    BY <1>4
  <2> QED BY <1>1, <1>3, <2>1
<1>6. PlainText'
  BY <1>1, <1>3, <1>4, <1>5 DEF PlainText
<1> QED BY <1>1, <1>2, <1>3, <1>4, <1>5, <1>6, PlainHolds

LEMMA PlainFirstHolds ==
    ASSUME TargetSpeaks, IInv, PlainFirst
    PROVE  IInv'
<1>1. /\ pc = "plain first" /\ pc' = "plain loop" /\ req \in Requests /\ BeyondLimit(req) /\ req' = req
      /\ kv \in Seq(Token)
  BY DEF PlainFirst, At, IInv, TypeOK, RightDecoder, PlainRuns
<1>2. req.prompt \in Seq(Token) /\ req.max \in Nat /\ req.max > 0
  BY <1>1, RequestFacts
<1>3. kv = req.prompt /\ gdn = kv /\ logits = Greedy(kv) /\ generated = <<logits>>
  BY <1>1 DEF IInv, PlainText
<1>4. logits \in Token
  BY <1>1, <1>3 DEF Greedy, TargetSpeaks
<1>5. /\ UNCHANGED <<alive, prefill, kv, gdn, logits, feats, draft, staged, batch, committed, given,
                     start, generated, skip, published>>
      /\ emitted' = generated /\ event' = "token"
  BY DEF PlainFirst, cycle
<1>6. /\ generated \in Seq(Token) /\ Len(generated) = 1 /\ generated[1] = logits /\ generated # <<>>
  BY <1>3, <1>4
<1>7. Context' = Append(kv', logits')
  <2>1. req.prompt \o <<logits>> = Append(req.prompt, logits)
    BY <1>2, <1>4
  <2> QED BY <1>1, <1>3, <1>5, <2>1 DEF Context
<1>8. PlainText'
  <2>1. Len(generated') = 1 /\ generated'[Len(generated')] = logits' /\ generated' # <<>>
    BY <1>5, <1>6
  <2>2. Len(generated') <= req'.max /\ \A i \in 1..Len(generated') - 1 : generated'[i] \notin Stop
    <3>0. 1 <= req.max
      BY <1>2
    <3>1. 1 <= req'.max
      BY <1>1, <3>0, Zenon
    <3>2. 1..Len(generated') - 1 = {}
      BY <2>1
    <3> QED BY <2>1, <3>1, <3>2
  <2> QED BY <1>1, <1>3, <1>4, <1>5, <1>7, <2>1, <2>2 DEF PlainText
<1> QED BY <1>1, <1>3, <1>4, <1>5, <1>6, <1>8, PlainHolds

LEMMA AppendFacts ==
    ASSUME NEW g \in Seq(Token), NEW t \in Token
    PROVE  /\ Append(g, t) \in Seq(Token) /\ Len(Append(g, t)) = Len(g) + 1 /\ Len(g) \in Nat
           /\ Append(g, t)[Len(Append(g, t))] = t /\ Append(g, t) # <<>>
           /\ \A i \in 1..Len(g) : Append(g, t)[i] = g[i]
<1>1. Append(g, t) \in Seq(Token) /\ Len(Append(g, t)) = Len(g) + 1 /\ Len(g) \in Nat
  OBVIOUS
<1>2. Append(g, t)[Len(g) + 1] = t /\ \A i \in 1..Len(g) : Append(g, t)[i] = g[i]
  OBVIOUS
<1> QED BY <1>1, <1>2

LEMMA AppendLast ==
    ASSUME NEW p \in Seq(Token), NEW g \in Seq(Token), NEW t \in Token
    PROVE  p \o Append(g, t) = Append(p \o g, t)
  OBVIOUS

LEMMA PlainTokenHolds ==
    ASSUME TargetSpeaks, IInv, PlainToken
    PROVE  IInv'
<1>1. /\ pc = "plain loop" /\ pc' = "plain loop" /\ req \in Requests /\ BeyondLimit(req) /\ req' = req
      /\ kv \in Seq(Token) /\ generated \in Seq(Token)
  BY DEF PlainToken, At, IInv, TypeOK, RightDecoder, PlainRuns
<1>2. req.prompt \in Seq(Token) /\ req.max \in Nat
  BY <1>1, RequestFacts
<1>3. /\ gdn = kv /\ logits \in Token /\ Context = Append(kv, logits)
      /\ generated # <<>> /\ generated[Len(generated)] = logits
      /\ \A i \in 1..Len(generated) - 1 : generated[i] \notin Stop
  BY <1>1 DEF IInv, PlainText
<1>4. /\ kv' = Append(kv, logits) /\ gdn' = Append(gdn, logits)
      /\ logits' = Target(kv', gdn')
      /\ generated' = Append(generated, logits')
      /\ emitted' = generated' /\ event' = "token"
      /\ UNCHANGED <<alive, prefill, feats, draft, staged, batch, committed, given, start, skip,
                     published>>
  BY DEF PlainToken
<1>5. kv' \in Seq(Token) /\ gdn' = kv' /\ logits' \in Token
  <2>1. Append(kv, logits) \in Seq(Token)
    BY <1>1, <1>3, AppendFacts
  <2>2. kv' \in Seq(Token) /\ gdn' = kv'
    BY <1>3, <1>4, <2>1
  <2> QED BY <1>4, <2>2 DEF TargetSpeaks
<1>6. /\ generated' \in Seq(Token) /\ Len(generated') = Len(generated) + 1 /\ Len(generated) \in Nat
      /\ generated'[Len(generated')] = logits' /\ generated' # <<>>
      /\ \A i \in 1..Len(generated) : generated'[i] = generated[i]
  BY <1>1, <1>4, <1>5, AppendFacts
<1>7. Context' = Append(kv', logits')
  <2>1. req.prompt \o generated = kv'
    BY <1>3, <1>4, Zenon DEF Context
  <2>2. req.prompt \o Append(generated, logits') = Append(req.prompt \o generated, logits')
    BY <1>1, <1>2, <1>5, AppendLast
  <2>3. Context' = req.prompt \o Append(generated, logits')
    BY <1>1, <1>4 DEF Context
  <2> QED BY <2>1, <2>2, <2>3, Zenon
<1>8. Len(generated) < req.max /\ logits \notin Stop
  BY DEF PlainToken, PlainMore
<1>9. PlainText'
  <2>1. \A i \in 1..Len(generated') - 1 : generated'[i] \notin Stop
    <3> SUFFICES ASSUME NEW i \in 1..Len(generated) PROVE generated[i] \notin Stop
      BY <1>6
    <3>1. i \in 1..Len(generated) - 1 \/ i = Len(generated)
      BY <1>6
    <3> QED BY <1>3, <1>8, <3>1
  <2>2. Len(generated') <= req'.max
    <3>1. Len(generated) + 1 <= req.max
      BY <1>2, <1>6, <1>8
    <3> QED BY <1>1, <1>6, <3>1
  <2> QED BY <1>1, <1>4, <1>5, <1>6, <1>7, <2>1, <2>2 DEF PlainText
<1> QED BY <1>1, <1>4, <1>5, <1>6, <1>9, PlainHolds

LEMMA PlainEndHolds ==
    ASSUME TargetSpeaks, IInv, PlainEnd
    PROVE  IInv'
<1>1. /\ pc = "plain loop" /\ pc' = "return" /\ req \in Requests /\ BeyondLimit(req) /\ req' = req
      /\ generated \in Seq(Token) /\ event' = "summary"
  BY DEF PlainEnd, At, IInv, TypeOK, RightDecoder, PlainRuns
<1>2. UNCHANGED <<alive, prefill, kv, gdn, logits, feats, draft, staged, batch, committed, given,
                  start, generated, skip, emitted, published>>
  BY DEF PlainEnd, cycle
<1>3. TypeOK'
  <2>1. draft' \in DraftState'
    BY <1>1, <1>2 DEF IInv, TypeOK, DraftState, Limits
  <2> QED BY <1>1, <1>2, <2>1 DEF IInv, TypeOK, prefill, batch
<1>4. RightDecoder' /\ PromptIsRead' /\ NothingYet' /\ PlainText'
  BY <1>1 DEF RightDecoder, PromptIsRead, NothingYet, PlainText, Prefilling, Cycling, PlainRuns, Over
<1>5. Stops'
  <2>6. PlainText
    BY DEF IInv
  <2>1. /\ generated # <<>> /\ generated[Len(generated)] = logits
        /\ Len(generated) <= req.max /\ emitted = generated
    BY <1>1, <2>6 DEF PlainText
  <2>2. Len(generated) >= req.max \/ logits \in Stop
    <3>1. req.max \in Nat
      BY <1>1, RequestFacts
    <3>4. \A g \in Seq(Token) : Len(g) \in Nat
      OBVIOUS
    <3>3. Len(generated) \in Nat
      BY <1>1, <3>4, Zenon
    <3>2. ~ PlainMore
      BY DEF PlainEnd
    <3> QED BY <3>1, <3>2, <3>3 DEF PlainMore
  <2>3. Len(generated) \in 1..Len(generated) /\ req.max \in Nat
    <3>1. \A g \in Seq(Token) : g # <<>> => Len(g) \in Nat /\ Len(g) > 0
      OBVIOUS
    <3>2. req.max \in Nat
      BY <1>1, RequestFacts
    <3>3. Len(generated) \in Nat /\ Len(generated) > 0
      BY <1>1, <2>1, <3>1, Zenon
    <3> QED BY <3>2, <3>3
  <2>4. Len(emitted) = req.max \/ \E i \in 1..Len(emitted) : emitted[i] \in Stop
    <3>1. CASE logits \in Stop
      BY <2>1, <2>3, <3>1
    <3>2. CASE Len(generated) >= req.max
      BY <2>1, <2>3, <3>2
    <3> QED BY <2>2, <3>1, <3>2
  <2> QED BY <1>1, <1>2, <2>4 DEF Stops, Decoding
<1>6. /\ CachesHoldTheText' /\ Blocks' /\ TextIsGreedy' /\ TokensAreEmitted' /\ DraftIsFed'
  BY <1>1 DEF CachesHoldTheText, Blocks, TextIsGreedy, TokensAreEmitted, DraftIsFed, Decoding
<1>7. FeaturesAreKept' /\ Remembering'
  BY <1>1, <1>2 DEF IInv, FeaturesAreKept, Remembering, Decoding, prefill
<1> QED BY <1>1, <1>2, <1>3, <1>4, <1>5, <1>6, <1>7, PublishNothingHolds DEF IInv

(* ------------------------------ the consumer ----------------------------- *)

\* Taking an event, or closing the cache, changes neither text nor states.
LEMMA OthersHold ==
    ASSUME IInv, UNCHANGED <<req, pc, prefill, kv, gdn, logits, feats, draft, cycle, emitted, published>>,
           event' \in {event, None}, alive' \in {alive, FALSE}
    PROVE  IInv'
<1>1. Text' = Text /\ Unfinished' = Unfinished /\ Decoding' = Decoding
  BY SameText DEF cycle, Unfinished, Decoding
<1>2. TypeOK'
  <2>1. draft' \in DraftState'
    BY DEF IInv, TypeOK, DraftState, Limits
  <2>2. /\ event' \in {None, "progress", "prefilled", "snapshot", "token", "cycle", "summary"}
        /\ alive' \in BOOLEAN
    BY DEF IInv, TypeOK
  <2> QED BY <2>1, <2>2 DEF IInv, TypeOK, prefill, cycle, batch
<1>3. RightDecoder' /\ NothingYet' /\ Stops'
  BY <1>1 DEF IInv, RightDecoder, NothingYet, Stops, Prefilling, Cycling, PlainRuns, Over, Ending, cycle
<1>4. PromptIsRead'
  BY DEF IInv, PromptIsRead, ReadSoFar, ChunkEnd, Prefilling, prefill, cycle
<1>5. CachesHoldTheText' /\ TextIsGreedy' /\ TokensAreEmitted'
  BY <1>1 DEF IInv, CachesHoldTheText, TextIsGreedy, TokensAreEmitted, Cycling, cycle, batch
<1>6. Blocks'
  BY <1>1 DEF IInv, Blocks, cycle, batch
<1>7. PlainText'
  BY DEF IInv, PlainText, Context, cycle
<1>8. DraftIsFed'
  BY <1>1 DEF IInv, DraftIsFed, Cycling, cycle, batch
<1>9. FeaturesAreKept'
  BY <1>1 DEF IInv, FeaturesAreKept, prefill
<1>10. Remembering'
  <2>1. Collects' => Collects
    BY DEF Collects
  <2> QED BY <1>1, <2>1 DEF IInv, Remembering, prefill
<1> QED BY <1>2, <1>3, <1>4, <1>5, <1>6, <1>7, <1>8, <1>9, <1>10, PublishNothingHolds DEF IInv

LEMMA StepHolds ==
    ASSUME TargetSpeaks, IInv, [Next]_vars
    PROVE  IInv'
<1>1. CASE UNCHANGED vars
  BY <1>1, OthersHold DEF vars
<1>2. CASE Resume \/ CacheCloses
  BY <1>2, OthersHold DEF Resume, CacheCloses
<1>3. CASE Close
  BY <1>3, CloseHolds
<1>4. CASE Prefill
  BY <1>4, PrefillChunkHolds, PrefillSeamHolds, PrefillBoundaryHolds, PrefillTailHolds,
     PrefillCompleteHolds DEF Prefill
<1>5. CASE Decode
  BY <1>5, FirstTokenHolds, ProposeHolds, ProposeTreeHolds, VerifyAndCommitHolds, VerifyBatchHolds,
     VerifyTreeHolds, EmitTokenHolds, EndCycleHolds, LoopDoneHolds DEF Decode
<1>6. CASE Finish
  BY <1>6, PublishGenerationHolds, SummaryHolds, ReturnHolds DEF Finish
<1>7. CASE Plain
  BY <1>7, PlainPrefillHolds, PlainFirstHolds, PlainTokenHolds, PlainEndHolds DEF Plain
<1> QED BY <1>1, <1>2, <1>3, <1>4, <1>5, <1>6, <1>7 DEF Next, Engine

\* Whatever the target, the draft model, the requests and the block, the invariant
\* holds in every state of every run.
LEMMA InvariantHolds ==
    ASSUME TargetSpeaks
    PROVE  Spec => []IInv
  BY InitHolds, StepHolds, PTL DEF Spec

(* ------------------------------- the theorems ---------------------------- *)

\* Every variable holds what the code keeps there, whatever the constants.
THEOREM TypeOKAlways ==
    ASSUME TargetSpeaks
    PROVE  Spec => []TypeOK
<1>1. IInv => TypeOK
  BY DEF IInv
<1> QED BY <1>1, InvariantHolds, PTL

\* verify_target_block and restore_after_acceptance leave both caches of the
\* target with exactly the committed text, for every block and acceptance length.
THEOREM CachesHoldTheTextAlways ==
    ASSUME TargetSpeaks
    PROVE  Spec => []CachesHoldTheText
<1>1. IInv => CachesHoldTheText
  BY DEF IInv
<1> QED BY <1>1, InvariantHolds, PTL

LEMMA DraftSeesWhatItIsFed ==
    ASSUME IInv
    PROVE  DraftSeesEachPositionOnce
<1> SUFFICES ASSUME Decoding,
                    \/ pc = "verify" /\ source # "none"
                    \/ pc \in {"cycle", "emit"} /\ draft.ahead # None
             PROVE  /\ draft.fed = FeaturesOf(req, Text)
                    /\ Full(req) => \A i \in 1..Len(draft.fed) : draft.fed[i] # Hole
  BY DEF DraftSeesEachPositionOnce
<1>1. draft.fed = FeaturesOf(req, Text)
  BY DEF IInv, DraftIsFed, Cycling
<1>2. req \in Requests
  BY DEF IInv, TypeOK
<1>3. Text \in Seq(Token)
  BY TextNow
<1>4. ASSUME Full(req), NEW i \in 1..Len(draft.fed) PROVE draft.fed[i] # Hole
  <2>0. Len(FeaturesOf(req, Text)) = Len(Text)
    BY <1>2, <1>3, FeaturesType
  <2>1. i \in 1..Len(Text) /\ draft.fed[i] = FeaturesOf(req, Text)[i]
    BY <1>1, <1>4, <2>0
  <2>2. i <= SnapLen(req) => i \in req.cover
    <3>1. i \in Nat /\ 1 <= i
      BY <1>4
    <3>2. SnapLen(req) \in Nat /\ \A j \in 1..SnapLen(req) : j \in req.cover
      <4>1. /\ SnapLen(req) \in 0..req.boundary /\ req.boundary \in Nat
            /\ \A j \in 1..SnapLen(req) : j \in req.cover
        BY <1>2, <1>4, RequestFacts
      <4> QED BY <4>1
    <3> QED BY <3>1, <3>2
  <2>3. draft.fed[i] = Prefix(Text, i)
    BY <1>2, <1>3, <2>1, <2>2, FeaturesType
  <2>4. Len(Prefix(Text, i)) = i
    BY <1>3, <2>1, PrefixType
  <2> QED BY <2>1, <2>3, <2>4 DEF Hole
<1> QED BY <1>1, <1>4

\* draft_greedy, advance_context and the prefetch feed the draft cache every
\* position once, whoever proposed the blocks in between.
THEOREM DraftSeesEachPositionOnceAlways ==
    ASSUME TargetSpeaks
    PROVE  Spec => []DraftSeesEachPositionOnce
  BY DraftSeesWhatItIsFed, InvariantHolds, PTL

\* Every snapshot handed to the prefix cache is the state after its own tokens.
THEOREM PublishedStatesAreTrueAlways ==
    ASSUME TargetSpeaks
    PROVE  Spec => []PublishedStatesAreTrue
<1>1. IInv => PublishedStatesAreTrue
  BY DEF IInv
<1> QED BY <1>1, InvariantHolds, PTL

\* A reply that ends while the cache is open was published whole.
THEOREM RepliesAreRememberedAlways ==
    ASSUME TargetSpeaks
    PROVE  Spec => []RepliesAreRemembered
<1>1. IInv => RepliesAreRemembered
  BY DEF IInv, Remembering, RepliesAreRemembered
<1> QED BY <1>1, InvariantHolds, PTL

(* ------------------------------ the refinement --------------------------- *)

\* A token that is handed out is the decoder's next one.
LEMMA EmitRefines ==
    ASSUME NEW t, req' = req, Outcome = "running", Outcome' = "running",
           emitted' = Append(emitted, t), t = Greedy(req.prompt \o emitted),
           Len(emitted) < req.max,
           \A i \in 1..(Len(emitted) - (Block - 1)) : emitted[i] \notin Stop
    PROVE  Decoder!Next
  BY DEF Decoder!Next, Decoder!Emit

LEMMA NothingBefore ==
    ASSUME NEW b \in Nat, b > 0
    PROVE  1..(0 - (b - 1)) = {}
  OBVIOUS

LEMMA NothingEmitted ==
    ASSUME NEW p \in Seq(Token)
    PROVE  p \o <<>> = p /\ \A t : Append(<<>>, t) = <<t>>
  OBVIOUS

\* The first token comes before any cycle.
LEMMA FirstTokenRefines ==
    ASSUME IInv, pc \in {"decode", "plain first"}, pc' \in {"cycle", "plain loop"}, req' = req,
           emitted = <<>>, req.max > 0, emitted' = <<Greedy(req.prompt)>>
    PROVE  Decoder!Next
<1>1. req \in Requests /\ Outcome = "running" /\ Outcome' = "running"
  BY DEF IInv, TypeOK, Outcome
<1>2. req.prompt \in Seq(Token) /\ Block \in Nat /\ Block > 0
  BY <1>1, RequestFacts
<1>3. Len(emitted) = 0
  OBVIOUS
<1>4. \A i \in 1..(Len(emitted) - (Block - 1)) : emitted[i] \notin Stop
  <2>1. 1..(0 - (Block - 1)) = {}
    BY <1>2, NothingBefore
  <2>2. 1..(Len(emitted) - (Block - 1)) = {}
    BY <1>3, <2>1, Zenon
  <2> QED BY <2>2, Zenon
<1>5. emitted' = Append(emitted, Greedy(req.prompt \o emitted))
  BY <1>2, NothingEmitted
<1>6. Len(emitted) < req.max
  BY <1>3
<1> QED BY <1>1, <1>4, <1>5, <1>6, EmitRefines

\* The token of the segment that is next, and the text before it.
LEMMA NextOfText ==
    ASSUME NEW r \in Requests, NEW made \in Seq(Token), NEW segment \in Seq(Token),
           NEW n \in 0..(Len(segment) - 1)
    PROVE  /\ TextOf(r, made, segment, n)[Len(r.prompt) + Len(made) + 1] = segment[n + 1]
           /\ Prefix(TextOf(r, made, segment, n), Len(r.prompt) + Len(made)) = r.prompt \o made
<1> DEFINE c == r.prompt \o made
           t == SubSeq(segment, n + 1, Len(segment))
<1>1. /\ n \in 0..Len(segment) /\ Len(segment) \in Nat
      /\ t \in Seq(Token) /\ t[1] = segment[n + 1] /\ Len(t) = Len(segment) - n /\ Len(t) > 0
  <2>1. n \in 0..Len(segment) /\ Len(segment) \in Nat /\ Len(segment) - n > 0
    OBVIOUS
  <2>2. t \in Seq(Token) /\ Len(t) = Len(segment) - n
    OBVIOUS
  <2>3. t[1] = segment[n + 1]
    OBVIOUS
  <2> QED BY <2>1, <2>2, <2>3
<1>2. /\ c \in Seq(Token) /\ Len(c) = Len(r.prompt) + Len(made) /\ Len(c) \in Nat
      /\ Len(c) \in 0..Len(c)
  <2>1. c \in Seq(Token) /\ Len(c) = Len(r.prompt) + Len(made)
    BY <1>1, TextFacts
  <2> HIDE DEF c
  <2> QED BY <2>1
<1>3. TextOf(r, made, segment, n) = c \o t
  BY DEF TextOf
<1> HIDE DEF c, t
<1>4. (c \o t)[Len(c) + 1] = t[1]
  BY <1>1, <1>2
<1>5. Prefix(c \o t, Len(c)) = c
  <2>1. \A m \in 0..Len(c) : Prefix(c \o t, m) = Prefix(c, m)
    BY <1>1, <1>2, PrefixOfConcat
  <2>2. Prefix(c \o t, Len(c)) = Prefix(c, Len(c))
    BY <1>2, <2>1
  <2>3. Prefix(c, Len(c)) = c
    BY <1>2, PrefixAll
  <2> QED BY <2>2, <2>3
<1>6. /\ TextOf(r, made, segment, n)[Len(c) + 1] = segment[n + 1]
      /\ Prefix(TextOf(r, made, segment, n), Len(c)) = c
  BY <1>1, <1>3, <1>4, <1>5
<1> QED BY <1>2, <1>6 DEF c

LEMMA EmitTokenRefines ==
    ASSUME TargetSpeaks, IInv, EmitToken, ~ skip
    PROVE  Decoder!Next
<1>1. /\ pc = "emit" /\ pc' = "emit" /\ req' = req
      /\ given < Len(committed) /\ Len(generated) < req.max
      /\ emitted' = Append(emitted, committed[given + 1])
  BY DEF EmitToken, At
<1>2. ~ BeyondLimit(req)
  BY <1>1 DEF IInv, RightDecoder, Cycling
<1>3. Decoding /\ Outcome = "running" /\ Outcome' = "running"
  BY <1>1, <1>2 DEF Decoding, Outcome
<1>4. emitted = generated
  BY <1>3 DEF IInv, TokensAreEmitted
<1>7. /\ req \in Requests /\ generated \in Seq(Token) /\ committed \in Seq(Token)
      /\ given \in 0..Len(committed)
  BY DEF IInv, TypeOK
<1>8. /\ Len(generated) \in Nat /\ Len(committed) \in Nat /\ given \in 0..(Len(committed) - 1)
      /\ Len(req.prompt) \in Nat /\ Block \in Nat
  <2>1. Len(req.prompt) \in Nat /\ Block \in Nat
    BY <1>7, RequestFacts
  <2>2. \A g \in Seq(Token) : Len(g) \in Nat
    OBVIOUS
  <2>3. Len(generated) \in Nat /\ Len(committed) \in Nat
    BY <1>7, <2>2, Zenon
  <2>4. given \in 0..(Len(committed) - 1)
    BY <1>1, <1>7, <2>3
  <2> QED BY <2>1, <2>3, <2>4
<1>5. committed[given + 1] = Greedy(req.prompt \o generated)
  <2> DEFINE n == Len(req.prompt) + Len(generated)
  <2>1. n \in Nat /\ n + 1 \in Len(req.prompt) + 1..Len(Text) /\ (n + 1) - 1 = n
    <3>1. Len(Text) = Len(req.prompt) + Len(generated) + Len(committed) - given
      BY TextNow
    <3> QED BY <1>1, <1>8, <3>1
  <2>2. Text = TextOf(req, generated, committed, given)
    BY TextIs
  <2>3. Text[n + 1] = committed[given + 1] /\ Prefix(Text, n) = req.prompt \o generated
    BY <1>7, <1>8, <2>2, NextOfText
  <2> HIDE DEF n
  <2>4. Text[n + 1] = Greedy(Prefix(Text, (n + 1) - 1))
    BY <1>3, <2>1 DEF IInv, TextIsGreedy
  <2> QED BY <2>1, <2>3, <2>4
<1>6. ASSUME NEW i \in 1..(Len(emitted) - (Block - 1)) PROVE emitted[i] \notin Stop
  <2>1. Len(committed) <= Block
    BY <1>3 DEF IInv, Blocks
  <2>2. i \in 1..Len(generated) - given
    BY <1>1, <1>4, <1>8, <2>1
  <2>3. \A j \in 1..Len(generated) - given : generated[j] \notin Stop
    BY <1>1, <1>3 DEF IInv, Stops, Cycling
  <2> QED BY <1>4, <2>2, <2>3
<1> QED BY <1>1, <1>3, <1>4, <1>5, <1>6, EmitRefines

LEMMA PlainTokenRefines ==
    ASSUME TargetSpeaks, IInv, PlainToken
    PROVE  Decoder!Next
<1>1. /\ pc = "plain loop" /\ pc' = "plain loop" /\ req' = req
      /\ Len(generated) < req.max /\ logits \notin Stop
      /\ kv' = Append(kv, logits) /\ gdn' = Append(gdn, logits)
      /\ logits' = Target(kv', gdn')
      /\ generated' = Append(generated, logits') /\ emitted' = generated'
  BY DEF PlainToken, At, PlainMore
<1>2. /\ gdn = kv /\ logits \in Token /\ req.prompt \o generated = Append(kv, logits)
      /\ generated # <<>> /\ generated[Len(generated)] = logits /\ emitted = generated
      /\ \A i \in 1..Len(generated) - 1 : generated[i] \notin Stop
  BY <1>1 DEF IInv, PlainText, Context
<1>3. /\ emitted' = Append(emitted, logits') /\ logits' = Greedy(req.prompt \o emitted)
      /\ Len(emitted) < req.max
  BY <1>1, <1>2, Zenon DEF Greedy
<1>4. ASSUME NEW i \in 1..(Len(emitted) - (Block - 1)) PROVE emitted[i] \notin Stop
  <2>1. req \in Requests /\ generated \in Seq(Token)
    BY DEF IInv, TypeOK
  <2>2. Len(generated) \in Nat /\ Block \in Nat /\ Block > 0
    <3>1. \A g \in Seq(Token) : Len(g) \in Nat
      OBVIOUS
    <3>2. Block \in Nat /\ Block > 0
      BY <2>1, RequestFacts
    <3> QED BY <2>1, <3>1, <3>2
  <2>3. i \in 1..Len(generated) - 1 \/ i = Len(generated)
    BY <1>2, <2>2
  <2> QED BY <1>1, <1>2, <2>3
<1>5. Outcome = "running" /\ Outcome' = "running"
  BY <1>1 DEF Outcome
<1> QED BY <1>1, <1>3, <1>4, <1>5, EmitRefines

\* A step that hands out no token and does not end is not seen.
LEMMA QuietStep ==
    ASSUME req' = req, emitted' = emitted,
           pc' = pc \/ {pc, pc'} \cap {"done", "closed"} = {}
    PROVE  UNCHANGED Decoder!vars
<1>1. Outcome' = Outcome
  BY DEF Outcome
<1> QED BY <1>1 DEF Decoder!vars

LEMMA EndRefines ==
    ASSUME IInv, req' = req, emitted' = emitted,
           \/ pc = "return" /\ pc' = "done"
           \/ event # None /\ pc' = "closed"
    PROVE  Decoder!Next
<1>1. pc \notin {"done", "closed"}
  BY DEF IInv, RightDecoder, Over
<1>2. Outcome = "running"
  BY <1>1 DEF Outcome
<1>3. CASE pc = "return" /\ pc' = "done"
  <2>1. Len(emitted) = req.max \/ \E i \in 1..Len(emitted) : emitted[i] \in Stop
    BY <1>3 DEF IInv, Stops, Ending
  <2>2. Outcome' = "complete"
    BY <1>3 DEF Outcome
  <2> QED BY <1>2, <2>1, <2>2 DEF Decoder!Next, Decoder!Complete, Decoder!HasStop
<1>4. CASE event # None /\ pc' = "closed"
  <2>1. Outcome' = "abandoned"
    BY <1>4 DEF Outcome
  <2> QED BY <1>2, <2>1 DEF Decoder!Next, Decoder!Abandon
<1> QED BY <1>3, <1>4

\* The whole prompt is read, and the first token is the target's.
LEMMA AtDecode ==
    ASSUME IInv, pc = "decode"
    PROVE  /\ emitted = <<>> /\ kv = req.prompt /\ kv \in Seq(Token)
           /\ staged = Greedy(kv)
<1>1. req \in Requests
  BY DEF IInv, TypeOK
<1>2. req.prompt \in Seq(Token) /\ Len(req.prompt) > 0
  <2>1. /\ req.prompt \in Seq(Token) /\ Len(req.prompt) \in Nat /\ req.boundary \in Nat
        /\ 1 <= req.boundary /\ req.boundary <= Len(req.prompt)
    BY <1>1, RequestFacts
  <2> QED BY <2>1
<1>3. ReadSoFar = Len(req.prompt)
  BY DEF ReadSoFar
<1>4. Prefix(req.prompt, Len(req.prompt)) = req.prompt
  BY <1>2, PrefixAll
<1>5. emitted = <<>> /\ PromptIsRead
  BY DEF IInv, NothingYet
<1> QED BY <1>2, <1>3, <1>4, <1>5 DEF PromptIsRead

LEMMA StepRefines ==
    ASSUME TargetSpeaks, IInv, [Next]_vars
    PROVE  [Decoder!Next]_(Decoder!vars)
<1>1. CASE UNCHANGED vars
  BY <1>1, QuietStep DEF vars
<1>2. CASE Resume \/ CacheCloses
  BY <1>2, QuietStep DEF Resume, CacheCloses
<1>3. CASE Close \/ Return
  BY <1>3, EndRefines DEF Close, Return, At
<1>4. CASE Prefill
  <2>1. /\ req' = req /\ emitted' = emitted
        /\ pc \in {"prefill", "boundary", "tail", "freeze"}
        /\ pc' \in {"prefill", "boundary", "tail", "freeze", "decode"}
    BY <1>4 DEF Prefill, PrefillChunk, PrefillSeam, PrefillBoundary, PrefillTail, PrefillComplete, At
  <2> QED BY <2>1, QuietStep
<1>5. CASE FirstToken
  <2>1. /\ pc = "decode" /\ pc' = "cycle" /\ req' = req
        /\ IF req.max > 0 THEN emitted' = <<staged>> ELSE emitted' = emitted
    BY <1>5 DEF FirstToken, At
  <2>2. emitted = <<>> /\ staged = Greedy(kv) /\ kv = req.prompt
    BY <2>1, AtDecode
  <2>3. CASE req.max > 0
    BY <2>1, <2>2, <2>3, FirstTokenRefines
  <2>4. CASE ~ (req.max > 0)
    BY <2>1, <2>4, QuietStep
  <2> QED BY <2>3, <2>4
<1>6. CASE EmitToken
  <2>1. CASE skip
    BY <1>6, <2>1, QuietStep DEF EmitToken, At
  <2>2. CASE ~ skip
    BY <1>6, <2>2, EmitTokenRefines
  <2> QED BY <2>1, <2>2
<1>7. CASE Propose \/ ProposeTree \/ VerifyAndCommit \/ VerifyBatch \/ VerifyTree \/ EndCycle \/ LoopDone
  <2>1. /\ req' = req /\ emitted' = emitted
        /\ pc \in {"cycle", "verify", "emit"} /\ pc' \in {"cycle", "verify", "emit", "finish"}
    BY <1>7 DEF Propose, ProposeTree, VerifyAndCommit, VerifyBatch, VerifyTree, EndCycle, LoopDone, At
  <2> QED BY <2>1, QuietStep
<1>8. CASE PublishGeneration \/ Summary \/ PlainPrefill \/ PlainEnd
  <2>1. /\ req' = req /\ emitted' = emitted
        /\ pc \in {"finish", "summary", "plain", "plain loop"}
        /\ pc' \in {"summary", "return", "plain first"}
    BY <1>8 DEF PublishGeneration, Summary, PlainPrefill, PlainEnd, At
  <2> QED BY <2>1, QuietStep
<1>9. CASE PlainFirst
  <2>1. /\ pc = "plain first" /\ pc' = "plain loop" /\ req' = req /\ emitted' = generated
    BY <1>9 DEF PlainFirst, At
  <2>2. emitted = <<>> /\ generated = <<Greedy(req.prompt)>>
    BY <2>1 DEF IInv, PlainText
  <2>3. BeyondLimit(req) /\ req \in Requests
    BY <2>1 DEF IInv, TypeOK, RightDecoder, PlainRuns
  <2>4. req.max > 0
    BY <2>3, RequestFacts
  <2> QED BY <2>1, <2>2, <2>4, FirstTokenRefines
<1>10. CASE PlainToken
  BY <1>10, PlainTokenRefines
<1> QED BY <1>1, <1>2, <1>3, <1>4, <1>5, <1>6, <1>7, <1>8, <1>9, <1>10
        DEF Next, Engine, Decode, Finish, Plain

\* Whatever is proposed, accepted, rolled back or drafted ahead, what is handed out
\* is what the plainest greedy decoder hands out.
THEOREM ImplementsGreedyDecodeAlways ==
    ASSUME TargetSpeaks
    PROVE  Spec => ImplementsGreedyDecode
<1>1. Init => Decoder!Init
  BY DEF Init, Decoder!Init, Outcome
<1> QED BY <1>1, InvariantHolds, StepRefines, PTL DEF Spec, ImplementsGreedyDecode, Decoder!Spec

(* -------------------------- the engine's consumer ------------------------ *)

Sent == IF pending = None \/ over THEN rqueue ELSE Append(rqueue, pending)
Unread == IF event = "token" THEN 1 ELSE 0

\* A response gives a reason exactly when its token is the last that may be sent.
Reasoned(max, r, i) ==
    /\ r.finish = "stop" <=> (r.match \/ r.token \in Stop)
    /\ r.finish = "length" => i >= max
    /\ i >= max => r.finish # None

\* Only the last response gives a reason, and then the client's reply is over.
ResponsesAreReasoned ==
    ~ over =>
        /\ \A i \in 1..Len(Sent) : Reasoned(req.max, Sent[i], i)
        /\ \A i \in 1..Len(Sent) - 1 : Sent[i].finish = None
        /\ clientDone => Sent # <<>> /\ Sent[Len(Sent)].finish # None
        /\ ~ clientDone /\ Sent # <<>> /\ pc # "closed" => Sent[Len(Sent)].finish = None

\* Nothing is held back before the first response is out.
HeldBack == ~ flushed => rqueue = <<>> /\ pending = None /\ live = 0

\* When the engine ends by itself, its reply ends there, and its summary says how.
SummaryReason ==
    IF generated # <<>> /\ generated[Len(generated)] \notin Stop /\ Len(generated) >= req.max
    THEN "length" ELSE "stop"
EngineEnds ==
    /\ event = "summary" => pc = "return"
    /\ pc = "return" => event \in {None, "summary"}
    /\ pc \in {"return", "done"} =>
          /\ emitted = generated
          /\ Len(emitted) = req.max \/ \E i \in 1..Len(emitted) : emitted[i] \in Stop
          /\ event = None => finish = SummaryReason
    /\ pc \notin {"return", "done"} \/ event # None => finish = None
    /\ over => Ended /\ RepliesEndWell

RInv ==
    /\ ReplyTypeOK /\ Len(emitted) <= req.max
    /\ TokensOf(Sent) = Prefix(emitted, live)
    /\ ~ clientDone => live = Len(emitted) - Unread
    /\ ResponsesAreReasoned /\ HeldBack /\ EngineEnds

(* ------------------------------- responses ------------------------------- *)

LEMMA NoneIsNoAnswer ==
    /\ None \notin Response
    /\ None # "progress" /\ None # "prefilled" /\ None # "snapshot" /\ None # "token"
    /\ None # "cycle" /\ None # "summary" /\ None # "stop" /\ None # "length"
  BY ReplyAssumption

LEMMA PrefixAppend ==
    ASSUME NEW s \in Seq(Token), NEW t \in Token
    PROVE  /\ Append(s, t) \in Seq(Token) /\ Len(Append(s, t)) = Len(s) + 1 /\ Len(s) \in Nat
           /\ \A i \in 1..Len(s) : Append(s, t)[i] = s[i]
           /\ \A n \in 0..Len(s) : Prefix(Append(s, t), n) = Prefix(s, n)
<1>1. Append(s, t) \in Seq(Token) /\ Len(Append(s, t)) = Len(s) + 1 /\ Len(s) \in Nat
  OBVIOUS
<1>2. \A i \in 1..Len(s) : Append(s, t)[i] = s[i]
  OBVIOUS
<1>3. ASSUME NEW n \in 0..Len(s) PROVE Prefix(Append(s, t), n) = Prefix(s, n)
  BY DEF Prefix
<1> QED BY <1>1, <1>2, <1>3

LEMMA TokensType ==
    ASSUME NEW s \in Seq(Response)
    PROVE  /\ TokensOf(s) \in Seq(Token) /\ Len(TokensOf(s)) = Len(s) /\ Len(s) \in Nat
           /\ \A i \in 1..Len(s) : s[i] \in Response /\ TokensOf(s)[i] = s[i].token
<1>1. Len(s) \in Nat /\ \A i \in 1..Len(s) : s[i] \in Response
  OBVIOUS
<1>2. \A i \in 1..Len(s) : s[i].token \in Token
  BY <1>1 DEF Response
<1> DEFINE t == [i \in 1..Len(s) |-> s[i].token]
<1>3. t \in Seq(Token) /\ Len(t) = Len(s)
  BY <1>1, <1>2
<1>4. \A i \in 1..Len(s) : t[i] = s[i].token
  OBVIOUS
<1>5. TokensOf(s) = t
  BY DEF TokensOf
<1> HIDE DEF t
<1> QED BY <1>1, <1>3, <1>4, <1>5

LEMMA TokensAppend ==
    ASSUME NEW s \in Seq(Response), NEW r \in Response
    PROVE  /\ Append(s, r) \in Seq(Response) /\ Len(Append(s, r)) = Len(s) + 1
           /\ \A i \in 1..Len(s) : Append(s, r)[i] = s[i]
           /\ Append(s, r)[Len(s) + 1] = r /\ Append(s, r) # <<>>
           /\ TokensOf(Append(s, r)) = Append(TokensOf(s), r.token)
<1> DEFINE a == Append(s, r)
           b == TokensOf(s)
           c == Append(b, r.token)
<1>1. /\ a \in Seq(Response) /\ Len(a) = Len(s) + 1 /\ Len(s) \in Nat
      /\ \A i \in 1..Len(s) : a[i] = s[i]
      /\ a[Len(s) + 1] = r
  OBVIOUS
<1>2. a # <<>>
  BY <1>1
<1>3. r.token \in Token
  BY DEF Response
<1>4. /\ b \in Seq(Token) /\ Len(b) = Len(s)
      /\ \A i \in 1..Len(s) : b[i] = s[i].token
  BY TokensType
<1> HIDE DEF a, b
<1>5. /\ TokensOf(a) \in Seq(Token) /\ Len(TokensOf(a)) = Len(a)
      /\ \A i \in 1..Len(a) : TokensOf(a)[i] = a[i].token
  BY <1>1, TokensType
<1>6. /\ c \in Seq(Token) /\ Len(c) = Len(b) + 1
      /\ \A i \in 1..Len(b) : c[i] = b[i]
      /\ c[Len(b) + 1] = r.token
  BY <1>3, <1>4
<1> HIDE DEF c
<1>7. \A i \in 1..Len(a) : TokensOf(a)[i] = c[i]
  <2> SUFFICES ASSUME NEW i \in 1..Len(a) PROVE a[i].token = c[i]
    BY <1>5
  <2>1. CASE i \in 1..Len(s)
    BY <1>1, <1>4, <1>6, <2>1
  <2>2. CASE i = Len(s) + 1
    BY <1>1, <1>4, <1>6, <2>2
  <2> QED BY <1>1, <2>1, <2>2
<1>8. TokensOf(a) = c
  BY <1>1, <1>4, <1>5, <1>6, <1>7, SeqEqual
<1> QED BY <1>1, <1>2, <1>8 DEF a, b, c

LEMMA PrefixNext ==
    ASSUME NEW s \in Seq(Token), s # <<>>
    PROVE  /\ s[Len(s)] \in Token /\ Len(s) \in Nat /\ Len(s) > 0
           /\ Append(Prefix(s, Len(s) - 1), s[Len(s)]) = Prefix(s, Len(s))
<1>1. Len(s) \in Nat /\ Len(s) > 0 /\ s[Len(s)] \in Token
  OBVIOUS
<1> DEFINE n == Len(s)
           a == Prefix(s, n - 1)
           t == s[n]
<1>2. /\ a \in Seq(Token) /\ Len(a) = n - 1 /\ \A i \in 1..(n - 1) : a[i] = s[i]
      /\ Prefix(s, n) = s
  BY <1>1, PrefixType, PrefixAll
<1>3. \A i \in 1..n : i \in 1..(n - 1) \/ i = n
  BY <1>1
<1> HIDE DEF n, a, t
<1>4. /\ Append(a, t) \in Seq(Token) /\ Len(Append(a, t)) = Len(a) + 1
      /\ \A i \in 1..Len(a) : Append(a, t)[i] = a[i]
  BY <1>1, <1>2, PrefixAppend DEF n, t
<1>5. Append(a, t)[n] = t
  BY <1>1, <1>2 DEF n
<1>6. Append(a, t) = s
  <2>1. Len(Append(a, t)) = Len(s) /\ Len(a) = n - 1 /\ n = Len(s)
    BY <1>1, <1>2, <1>4 DEF n
  <2>2. \A i \in 1..n : Append(a, t)[i] = s[i]
    BY <1>2, <1>3, <1>4, <1>5, <2>1 DEF t
  <2> QED BY <1>4, <2>1, <2>2, SeqEqual
<1> QED BY <1>1, <1>2, <1>6 DEF a, t, n

\* The responses with the one held back, and the tokens they carry.
LEMMA SentFacts ==
    ASSUME ReplyTypeOK, TokensOf(Sent) = Prefix(emitted, live)
    PROVE  /\ Sent \in Seq(Response) /\ Len(Sent) = live
           /\ live \in 0..Len(emitted) /\ Len(emitted) \in Nat
           /\ emitted \in Seq(Token)
           /\ \A i \in 1..live : Sent[i] \in Response /\ Sent[i].token = emitted[i]
           /\ \A i \in 1..Len(rqueue) : i <= Len(Sent) /\ rqueue[i] = Sent[i]
<1>1. /\ rqueue \in Seq(Response) /\ pending \in Response \cup {None} /\ live \in 0..Len(emitted)
      /\ emitted \in Seq(Token)
  BY DEF ReplyTypeOK, TypeOK
<1>2. /\ Sent \in Seq(Response)
      /\ \A i \in 1..Len(rqueue) : i <= Len(Sent) /\ rqueue[i] = Sent[i]
  <2>1. CASE pending = None \/ over
    BY <1>1, <2>1 DEF Sent
  <2>2. CASE ~ (pending = None \/ over)
    <3>1. pending \in Response /\ Sent = Append(rqueue, pending)
      BY <1>1, <2>2 DEF Sent
    <3> QED BY <1>1, <3>1, TokensAppend
  <2> QED BY <2>1, <2>2
<1>3. /\ Len(TokensOf(Sent)) = Len(Sent)
      /\ \A i \in 1..Len(Sent) : Sent[i] \in Response /\ TokensOf(Sent)[i] = Sent[i].token
  BY <1>2, TokensType
<1>4. Len(emitted) \in Nat
  BY <1>1
<1>5. Len(Prefix(emitted, live)) = live /\ \A i \in 1..live : Prefix(emitted, live)[i] = emitted[i]
  BY <1>1, PrefixType
<1>6. Len(Sent) = live
  BY <1>3, <1>5
<1>7. \A i \in 1..live : Sent[i] \in Response /\ Sent[i].token = emitted[i]
  BY <1>2, <1>3, <1>5, <1>6
<1> QED BY <1>1, <1>2, <1>4, <1>6, <1>7

(* -------------------------------- the engine ----------------------------- *)

\* A step of the engine that hands out a token.
HandsOut == \E t \in Token : emitted' = Append(emitted, t)

\* What the loop sees of a step of the engine.
LEMMA EngineFacts ==
    ASSUME TargetSpeaks, IInv, Engine
    PROVE  /\ event = None /\ req' = req
           /\ pc \notin {"done", "closed"} /\ pc' # "closed"
           /\ \/ event' # "token" /\ emitted' = emitted
              \/ event' = "token" /\ HandsOut
           /\ event' = "summary" => pc' = "return"
           /\ pc' = "return" => /\ event' = "summary" /\ pc # "return"
                                /\ emitted' = emitted /\ emitted = generated /\ generated' = generated
           /\ pc' = "done" => /\ pc = "return" /\ event' = None
                              /\ emitted' = emitted /\ generated' = generated
           /\ pc = "return" => pc' = "done"
<1>0. req \in Requests
  BY DEF IInv, TypeOK
<1>1. CASE Prefill
  <2>1. /\ event = None /\ req' = req /\ emitted' = emitted
        /\ pc \in {"prefill", "boundary", "tail", "freeze"}
        /\ pc' \in {"prefill", "boundary", "tail", "freeze", "decode"}
        /\ event' \in {"progress", "snapshot", "prefilled", None}
    <3>2. CASE PrefillBoundary
      BY <3>2, Zenon DEF PrefillBoundary, At
    <3>3. CASE PrefillChunk \/ PrefillSeam \/ PrefillTail \/ PrefillComplete
      BY <3>3 DEF PrefillChunk, PrefillSeam, PrefillTail, PrefillComplete, At
    <3> QED BY <1>1, <3>2, <3>3 DEF Prefill
  <2> QED BY <2>1, NoneIsNoAnswer
<1>2. CASE FirstToken
  <2>1. /\ event = None /\ req' = req /\ pc = "decode" /\ pc' = "cycle"
        /\ \/ emitted' = emitted /\ event' = event
           \/ emitted' = <<staged>> /\ event' = "token"
    BY <1>2 DEF FirstToken, At
  <2>2. emitted = <<>> /\ staged \in Token
    BY <2>1, AtDecode DEF TargetSpeaks, Greedy
  <2>3. <<staged>> = Append(<<>>, staged)
    OBVIOUS
  <2>5. emitted' = <<staged>> => emitted' = Append(emitted, staged)
    BY <2>2, <2>3
  <2>4. \/ emitted' = emitted /\ event' = event
        \/ HandsOut /\ event' = "token"
    <3>1. ASSUME emitted' = Append(emitted, staged) PROVE HandsOut
      BY <2>2, <3>1, Zenon DEF HandsOut
    <3> QED BY <2>1, <2>5, <3>1
  <2> QED BY <2>1, <2>4, NoneIsNoAnswer
<1>3. CASE EmitToken
  <2>1. /\ event = None /\ req' = req /\ pc = "emit" /\ pc' = "emit"
        /\ given < Len(committed)
        /\ \/ emitted' = emitted /\ event' = event
           \/ emitted' = Append(emitted, committed[given + 1]) /\ event' = "token"
    BY <1>3 DEF EmitToken, At
  <2>2. committed \in Seq(Token) /\ given \in 0..Len(committed)
    BY DEF IInv, TypeOK
  <2>3. committed[given + 1] \in Token
    BY <2>1, <2>2
  <2>4. \/ emitted' = emitted /\ event' = event
        \/ HandsOut /\ event' = "token"
    <3>1. ASSUME emitted' = Append(emitted, committed[given + 1]) PROVE HandsOut
      BY <2>3, <3>1, Zenon DEF HandsOut
    <3> QED BY <2>1, <3>1
  <2> QED BY <2>1, <2>4, NoneIsNoAnswer
<1>4. CASE Propose \/ ProposeTree \/ VerifyAndCommit \/ VerifyBatch \/ VerifyTree \/ EndCycle \/ LoopDone
  <2>1. /\ event = None /\ req' = req /\ emitted' = emitted
        /\ pc \in {"cycle", "verify", "emit"} /\ pc' \in {"cycle", "verify", "emit", "finish"}
        /\ event' \in {"cycle", None}
    BY <1>4 DEF Propose, ProposeTree, VerifyAndCommit, VerifyBatch, VerifyTree, EndCycle, LoopDone, At
  <2> QED BY <2>1, NoneIsNoAnswer
<1>5. CASE PublishGeneration
  <2>1. /\ event = None /\ req' = req /\ emitted' = emitted
        /\ pc = "finish" /\ pc' = "summary" /\ event' \in {"snapshot", None}
    BY <1>5 DEF PublishGeneration, At
  <2> QED BY <2>1, NoneIsNoAnswer
<1>6. CASE Summary
  <2>1. /\ event = None /\ event' = "summary" /\ req' = req /\ emitted' = emitted
        /\ generated' = generated /\ pc = "summary" /\ pc' = "return"
    BY <1>6 DEF Summary, At, cycle
  <2>2. ~ BeyondLimit(req)
    BY <2>1 DEF IInv, RightDecoder
  <2>3. emitted = generated
    BY <2>1, <2>2 DEF IInv, TokensAreEmitted, Decoding, Cycling
  <2> QED BY <2>1, <2>3, NoneIsNoAnswer
<1>7. CASE Return
  <2>1. /\ event = None /\ event' = None /\ req' = req /\ emitted' = emitted /\ generated' = generated
        /\ pc = "return" /\ pc' = "done"
    BY <1>7 DEF Return, At, cycle
  <2> QED BY <2>1, NoneIsNoAnswer
<1>8. CASE PlainPrefill
  <2>1. /\ event = None /\ req' = req /\ emitted' = emitted
        /\ pc = "plain" /\ pc' = "plain first" /\ event' = "prefilled"
    BY <1>8 DEF PlainPrefill, At
  <2> QED BY <2>1, NoneIsNoAnswer
<1>9. CASE PlainFirst
  <2>1. /\ event = None /\ event' = "token" /\ req' = req /\ emitted' = generated
        /\ pc = "plain first" /\ pc' = "plain loop"
    BY <1>9 DEF PlainFirst, At
  <2>2. emitted = <<>> /\ generated = <<logits>> /\ logits = Greedy(req.prompt)
    BY <2>1 DEF IInv, PlainText
  <2>3. logits \in Token
    BY <1>0, <2>2, RequestFacts DEF Greedy, TargetSpeaks
  <2>4. <<logits>> = Append(<<>>, logits)
    OBVIOUS
  <2>5. HandsOut
    BY <2>1, <2>2, <2>3, <2>4, Zenon DEF HandsOut
  <2> QED BY <2>1, <2>5, NoneIsNoAnswer
<1>10. CASE PlainToken
  <2>1. /\ event = None /\ event' = "token" /\ req' = req /\ emitted' = Append(generated, logits')
        /\ pc = "plain loop" /\ pc' = "plain loop" /\ logits' = Target(kv', gdn')
        /\ kv' = Append(kv, logits) /\ gdn' = Append(gdn, logits)
    BY <1>10 DEF PlainToken, At
  <2>2. emitted = generated /\ logits \in Token /\ kv \in Seq(Token) /\ gdn = kv
    BY <2>1 DEF IInv, PlainText, TypeOK
  <2>3. Append(kv, logits) \in Seq(Token)
    BY <2>2, AppendFacts
  <2>4. logits' \in Token
    BY <2>1, <2>2, <2>3 DEF TargetSpeaks
  <2>5. HandsOut
    BY <2>1, <2>2, <2>4, Zenon DEF HandsOut
  <2> QED BY <2>1, <2>5, NoneIsNoAnswer
<1>11. CASE PlainEnd
  <2>1. /\ event = None /\ event' = "summary" /\ req' = req /\ emitted' = emitted
        /\ generated' = generated /\ pc = "plain loop" /\ pc' = "return"
    BY <1>11 DEF PlainEnd, At, cycle
  <2>2. emitted = generated
    BY <2>1 DEF IInv, PlainText
  <2> QED BY <2>1, <2>2, NoneIsNoAnswer
<1> QED
  BY <1>1, <1>2, <1>3, <1>4, <1>5, <1>6, <1>7, <1>8, <1>9, <1>10, <1>11
     DEF Engine, Decode, Finish, Plain

\* The engine never hands out more than was asked for.
LEMMA EmittedWithin ==
    ASSUME TargetSpeaks, IInv, [Next]_vars, Len(emitted) <= req.max
    PROVE  Len(emitted') <= req'.max
<1>1. [Decoder!Next]_(Decoder!vars)
  BY StepRefines
<1>2. CASE Decoder!Emit
  <2>1. /\ req \in Requests /\ emitted \in Seq(Token)
    BY DEF IInv, TypeOK
  <2>2. req.prompt \in Seq(Token) /\ req.max \in Nat
    BY <2>1, RequestFacts
  <2>3. req.prompt \o emitted \in Seq(Token)
    BY <2>1, <2>2, Concat
  <2>4. Greedy(req.prompt \o emitted) \in Token
    BY <2>3 DEF Greedy, TargetSpeaks
  <2>5. /\ Len(emitted) < req.max /\ req'.max = req.max
        /\ emitted' = Append(emitted, Greedy(req.prompt \o emitted))
    BY <1>2 DEF Decoder!Emit
  <2>6. Len(emitted') = Len(emitted) + 1 /\ Len(emitted) \in Nat
    BY <2>1, <2>4, <2>5, AppendFacts
  <2> QED BY <2>2, <2>5, <2>6
<1>3. CASE emitted' = emitted /\ req'.max = req.max
  BY <1>3
<1> QED BY <1>1, <1>2, <1>3 DEF Decoder!Next, Decoder!Complete, Decoder!Abandon, Decoder!vars

(* -------------------------------- the steps ------------------------------ *)

LEMMA InitReplies ==
    ASSUME ReplyInit, IInv
    PROVE  RInv
<1>1. /\ rqueue = <<>> /\ pending = None /\ flushed = FALSE /\ clientDone = FALSE /\ live = 0
      /\ finish = None /\ shouldStop = FALSE /\ over = FALSE
      /\ emitted = <<>> /\ event = None /\ pc \in {"plain", "prefill"}
  BY DEF ReplyInit, Init
<1>2. Sent = <<>> /\ Len(Sent) = 0
  BY <1>1 DEF Sent
<1>3. TypeOK /\ req \in Requests
  BY DEF IInv, TypeOK
<1>4. Len(emitted) = 0 /\ req.max \in Nat
  BY <1>1, <1>3, RequestFacts
<1>5. ReplyTypeOK
  <2>1. <<>> \in Seq(Response)
    OBVIOUS
  <2>2. rqueue \in Seq(Response) /\ pending \in Response \cup {None}
    BY <1>1, <2>1, Zenon
  <2>3. {flushed, clientDone, shouldStop, over} \subseteq BOOLEAN /\ finish \in {None, "stop", "length"}
    BY <1>1
  <2>4. live \in 0..Len(emitted)
    BY <1>1, <1>4
  <2> QED BY <1>3, <2>2, <2>3, <2>4 DEF ReplyTypeOK
<1>6. TokensOf(Sent) = Prefix(emitted, live)
  <2>1. TokensOf(Sent) = <<>>
    BY <1>2 DEF TokensOf
  <2>2. \A e \in Seq(Token) : Prefix(e, Len(e)) = e
    BY PrefixAll
  <2>3. emitted \in Seq(Token) /\ Len(emitted) = live
    BY <1>1, <1>3, <1>4 DEF TypeOK
  <2> QED BY <1>1, <2>1, <2>2, <2>3
<1>7. live = Len(emitted) - Unread
  BY <1>1, <1>4, NoneIsNoAnswer DEF Unread
<1>8. ResponsesAreReasoned
  BY <1>1, <1>2 DEF ResponsesAreReasoned
<1>9. HeldBack /\ EngineEnds
  BY <1>1, NoneIsNoAnswer DEF HeldBack, EngineEnds
<1> QED BY <1>4, <1>5, <1>6, <1>7, <1>8, <1>9 DEF RInv

\* Steps of the engine, which the loop does not see.
LEMMA EngineStepReplies ==
    ASSUME TargetSpeaks, IInv, IInv', RInv, Engine, UNCHANGED reply
    PROVE  RInv'
<1>1. /\ event = None /\ req' = req /\ pc \notin {"done", "closed"} /\ pc' # "closed"
      /\ \/ event' # "token" /\ emitted' = emitted
         \/ event' = "token" /\ HandsOut
      /\ event' = "summary" => pc' = "return"
      /\ pc' = "return" => /\ event' = "summary" /\ pc # "return"
                           /\ emitted' = emitted /\ emitted = generated /\ generated' = generated
      /\ pc' = "done" => /\ pc = "return" /\ event' = None
                         /\ emitted' = emitted /\ generated' = generated
      /\ pc = "return" => pc' = "done"
  BY EngineFacts
<1>2. /\ rqueue' = rqueue /\ pending' = pending /\ flushed' = flushed /\ clientDone' = clientDone
      /\ live' = live /\ finish' = finish /\ shouldStop' = shouldStop /\ over' = over
      /\ Sent' = Sent
  BY DEF reply, Sent
<1>3. /\ ReplyTypeOK /\ Len(emitted) <= req.max /\ TokensOf(Sent) = Prefix(emitted, live)
      /\ ~ clientDone => live = Len(emitted) - Unread
      /\ emitted \in Seq(Token) /\ live \in 0..Len(emitted) /\ Len(emitted) \in Nat
  BY SentFacts DEF RInv
<1>4. ~ over
  BY <1>1 DEF RInv, EngineEnds, Ended
<1>5. /\ Prefix(emitted', live) = Prefix(emitted, live) /\ Len(emitted') \in Nat
      /\ Len(emitted') = Len(emitted) + Unread' /\ Unread = 0
  <2>1. CASE event' # "token" /\ emitted' = emitted
    BY <1>1, <1>3, <2>1, NoneIsNoAnswer DEF Unread
  <2>2. CASE event' = "token" /\ HandsOut
    <3>1. PICK t \in Token : emitted' = Append(emitted, t)
      BY <2>2 DEF HandsOut
    <3>2. /\ Len(emitted') = Len(emitted) + 1 /\ Prefix(emitted', live) = Prefix(emitted, live)
      BY <1>3, <3>1, PrefixAppend
    <3> QED BY <1>1, <1>3, <2>2, <3>2, NoneIsNoAnswer DEF Unread
  <2> QED BY <1>1, <2>1, <2>2
<1>6. ReplyTypeOK'
  <2>1. TypeOK'
    BY DEF IInv
  <2>2. live' \in 0..Len(emitted')
    BY <1>2, <1>3, <1>5 DEF Unread
  <2> QED BY <1>2, <1>3, <2>1, <2>2 DEF ReplyTypeOK
<1>7. Len(emitted') <= req'.max
  BY <1>3, EmittedWithin DEF Next
<1>8. TokensOf(Sent') = Prefix(emitted', live')
  BY <1>2, <1>3, <1>5
<1>9. ~ clientDone' => live' = Len(emitted') - Unread'
  BY <1>2, <1>3, <1>5 DEF Unread
<1>10. ResponsesAreReasoned'
  BY <1>1, <1>2, <1>4 DEF RInv, ResponsesAreReasoned, Reasoned
<1>11. HeldBack'
  BY <1>2 DEF RInv, HeldBack
<1>12. EngineEnds'
  <2>1. /\ event' = "summary" => pc' = "return"
        /\ pc' = "return" => event' \in {None, "summary"}
        /\ over' => Ended' /\ RepliesEndWell'
    BY <1>1, <1>2, <1>4
  <2>2. ASSUME pc' \in {"return", "done"}
        PROVE  /\ emitted' = generated'
               /\ Len(emitted') = req'.max \/ \E i \in 1..Len(emitted') : emitted'[i] \in Stop
               /\ event' = None => finish' = SummaryReason'
    <3>1. CASE pc' = "return"
      <4>1. Len(emitted') = req'.max \/ \E i \in 1..Len(emitted') : emitted'[i] \in Stop
        BY <3>1 DEF IInv, Stops, Ending
      <4> QED BY <1>1, <3>1, <4>1, NoneIsNoAnswer
    <3>2. CASE pc' = "done"
      <4>1. /\ pc = "return" /\ emitted' = emitted /\ generated' = generated
            /\ SummaryReason' = SummaryReason
        BY <1>1, <3>2 DEF SummaryReason
      <4>2. /\ emitted = generated /\ finish = SummaryReason
            /\ Len(emitted) = req.max \/ \E i \in 1..Len(emitted) : emitted[i] \in Stop
        BY <1>1, <4>1 DEF RInv, EngineEnds
      <4> QED BY <1>1, <1>2, <4>1, <4>2
    <3> QED BY <2>2, <3>1, <3>2
  <2>3. pc' \notin {"return", "done"} \/ event' # None => finish' = None
    <3>1. pc # "return" => finish = None
      BY <1>1 DEF RInv, EngineEnds
    <3> QED BY <1>1, <1>2, <3>1
  <2> QED BY <2>1, <2>2, <2>3 DEF EngineEnds
<1> QED BY <1>6, <1>7, <1>8, <1>9, <1>10, <1>11, <1>12 DEF RInv

\* The client goes away, or the cache is closed: neither moves a response.
LEMMA OtherStepReplies ==
    ASSUME IInv', RInv, UNCHANGED <<req, pc, event, emitted, generated>>,
           UNCHANGED <<rqueue, pending, flushed, clientDone, live, finish, over>>,
           shouldStop' \in BOOLEAN
    PROVE  RInv'
<1>1. Sent' = Sent /\ Unread' = Unread /\ SummaryReason' = SummaryReason /\ Ended' = Ended
  BY DEF Sent, Unread, SummaryReason, Ended
<1>2. RepliesEndWell' = RepliesEndWell
  BY DEF RepliesEndWell, RepliesEndOnce, EndIsTold
<1>3. ReplyTypeOK'
  BY DEF IInv, RInv, ReplyTypeOK
<1>4. ResponsesAreReasoned' /\ HeldBack'
  BY <1>1 DEF RInv, ResponsesAreReasoned, Reasoned, HeldBack
<1>5. EngineEnds'
  BY <1>1, <1>2 DEF RInv, EngineEnds
<1> QED BY <1>1, <1>3, <1>4, <1>5 DEF RInv

\* An event that is not for the client.
LEMMA PassedOverReplies ==
    ASSUME IInv, IInv', RInv, Resume, UNCHANGED reply,
           event # "summary", event = "token" => clientDone
    PROVE  RInv'
<1>1. /\ event # None /\ event' = None /\ req' = req /\ pc' = pc /\ emitted' = emitted
      /\ generated' = generated
  BY DEF Resume, cycle
<1>2. /\ rqueue' = rqueue /\ pending' = pending /\ flushed' = flushed /\ clientDone' = clientDone
      /\ live' = live /\ finish' = finish /\ shouldStop' = shouldStop /\ over' = over
      /\ Sent' = Sent
  BY DEF reply, Sent
<1>3. ~ over /\ pc \notin {"return", "done"} /\ finish = None
  <2>1. pc # "done"
    BY <1>1 DEF IInv, RightDecoder, Over
  <2> QED BY <1>1, <2>1 DEF RInv, EngineEnds, Ended
<1>4. ReplyTypeOK'
  BY <1>1, <1>2 DEF IInv, RInv, ReplyTypeOK
<1>5. ~ clientDone' => live' = Len(emitted') - Unread'
  BY <1>1, <1>2, NoneIsNoAnswer DEF RInv, Unread
<1>6. ResponsesAreReasoned' /\ HeldBack'
  BY <1>1, <1>2 DEF RInv, ResponsesAreReasoned, Reasoned, HeldBack
<1>7. EngineEnds'
  BY <1>1, <1>2, <1>3, NoneIsNoAnswer DEF EngineEnds
<1> QED BY <1>1, <1>2, <1>4, <1>5, <1>6, <1>7 DEF RInv

LEMMA TakeSummaryReplies ==
    ASSUME IInv', RInv, TakeSummary
    PROVE  RInv'
<1>1. /\ event = "summary" /\ event' = None /\ req' = req /\ pc' = pc /\ emitted' = emitted
      /\ generated' = generated /\ finish' = SummaryReason
  BY DEF TakeSummary, Resume, cycle, SummaryReason
<1>2. /\ rqueue' = rqueue /\ pending' = pending /\ flushed' = flushed /\ clientDone' = clientDone
      /\ live' = live /\ shouldStop' = shouldStop /\ over' = over
      /\ Sent' = Sent
  BY DEF TakeSummary, Sent
<1>3. /\ ~ over /\ pc = "return" /\ emitted = generated
      /\ Len(emitted) = req.max \/ \E i \in 1..Len(emitted) : emitted[i] \in Stop
  BY <1>1, NoneIsNoAnswer DEF RInv, EngineEnds, Ended
<1>4. SummaryReason' = SummaryReason /\ finish' \in {"stop", "length"}
  BY <1>1 DEF SummaryReason
<1>5. ReplyTypeOK'
  BY <1>1, <1>2, <1>4 DEF IInv, RInv, ReplyTypeOK
<1>6. ~ clientDone' => live' = Len(emitted') - Unread'
  BY <1>1, <1>2, NoneIsNoAnswer DEF RInv, Unread
<1>7. ResponsesAreReasoned' /\ HeldBack'
  BY <1>1, <1>2 DEF RInv, ResponsesAreReasoned, Reasoned, HeldBack
<1>8. EngineEnds'
  BY <1>1, <1>2, <1>3, <1>4, NoneIsNoAnswer DEF EngineEnds
<1> QED BY <1>1, <1>2, <1>5, <1>6, <1>7, <1>8 DEF RInv

\* The reason of a response, from its token and the count.
LEMMA FinishFacts ==
    ASSUME NEW token \in Token, NEW match \in BOOLEAN, NEW n \in Nat, req.max \in Nat
    PROVE  LET r == [token |-> token, match |-> match, finish |-> FinishOf(token, match, n)]
           IN  r \in Response /\ Reasoned(req.max, r, n) /\ r.token = token
<1> DEFINE f == FinishOf(token, match, n)
           r == [token |-> token, match |-> match, finish |-> f]
<1>1. /\ f \in {None, "stop", "length"}
      /\ f = "stop" <=> (match \/ token \in Stop)
      /\ f = "length" => n >= req.max
      /\ n >= req.max => f # None
  BY NoneIsNoAnswer DEF FinishOf
<1> HIDE DEF f
<1>2. r \in Response /\ r.token = token /\ r.match = match /\ r.finish = f
  BY <1>1 DEF Response
<1> HIDE DEF r
<1>3. r \in Response /\ Reasoned(req.max, r, n) /\ r.token = token
  BY <1>1, <1>2 DEF Reasoned
<1> QED BY <1>3 DEF r, f

LEMMA TakeTokenReplies ==
    ASSUME IInv, IInv', RInv, NEW match \in BOOLEAN, TakeToken(match)
    PROVE  RInv'
<1> DEFINE token == emitted[Len(emitted)]
           reason == FinishOf(token, match, live + 1)
           response == [token |-> token, match |-> match, finish |-> reason]
<1>1. /\ event = "token" /\ ~ clientDone /\ event # None /\ event' = None
      /\ live' = live + 1 /\ flushed' = TRUE
      /\ UNCHANGED <<req, emitted, generated, finish, shouldStop, over>>
      /\ IF ~ flushed THEN rqueue' = Append(rqueue, response) /\ pending' = pending
                      ELSE rqueue' = NextOut /\ pending' = response
      /\ IF shouldStop THEN pc' = "closed" /\ clientDone' = clientDone
                       ELSE pc' = pc /\ clientDone' = (reason # None)
  BY NoneIsNoAnswer DEF TakeToken, Resume, Close, cycle
<1>2. /\ ~ over /\ pc \notin {"return", "done", "closed"} /\ finish = None
  <2>1. pc \notin {"done", "closed"}
    BY <1>1 DEF IInv, RightDecoder, Over
  <2> QED BY <1>1, <2>1, NoneIsNoAnswer DEF RInv, EngineEnds, Ended
<1>3. /\ ReplyTypeOK /\ TokensOf(Sent) = Prefix(emitted, live)
      /\ live = Len(emitted) - 1 /\ Len(emitted) <= req.max
      /\ rqueue \in Seq(Response) /\ pending \in Response \cup {None}
      /\ {flushed, clientDone, shouldStop, over} \subseteq BOOLEAN
  BY <1>1 DEF RInv, Unread, ReplyTypeOK
<1>4. /\ Sent \in Seq(Response) /\ Len(Sent) = live /\ live \in Nat
      /\ emitted \in Seq(Token) /\ Len(emitted) = live + 1 /\ emitted # <<>>
  <2>1. /\ Sent \in Seq(Response) /\ Len(Sent) = live /\ live \in 0..Len(emitted) /\ Len(emitted) \in Nat
        /\ emitted \in Seq(Token)
    BY <1>3, SentFacts
  <2>2. Len(emitted) = live + 1 /\ live \in Nat
    BY <1>3, <2>1
  <2>3. emitted # <<>>
    BY <2>2
  <2> QED BY <2>1, <2>2, <2>3
<1>5. req \in Requests /\ req.max \in Nat
  BY RequestFacts DEF IInv, TypeOK
<1>6. /\ token \in Token
      /\ Append(Prefix(emitted, live), token) = Prefix(emitted, live + 1)
  <2>1. /\ token \in Token
        /\ Append(Prefix(emitted, Len(emitted) - 1), token) = Prefix(emitted, Len(emitted))
    BY <1>4, PrefixNext
  <2> HIDE DEF token
  <2> QED BY <1>3, <1>4, <2>1
<1> HIDE DEF token
<1>7. response \in Response /\ Reasoned(req.max, response, live + 1) /\ response.token = token
      /\ response.finish = reason
  BY <1>4, <1>5, <1>6, FinishFacts
<1> HIDE DEF reason, response
<1>8. Sent' = Append(Sent, response)
  <2>1. CASE ~ flushed
    <3>1. pending = None
      BY <2>1 DEF RInv, HeldBack
    <3> QED BY <1>1, <2>1, <3>1 DEF Sent
  <2>2. CASE flushed
    <3>1. NextOut = Sent
      BY <1>2 DEF NextOut, Sent
    <3>2. pending' = response /\ response # None /\ rqueue' = Sent /\ ~ over'
      BY <1>1, <1>2, <1>7, <2>2, <3>1, NoneIsNoAnswer
    <3> QED BY <3>2 DEF Sent
  <2> QED BY <2>1, <2>2
<1>9. /\ Sent' \in Seq(Response) /\ Len(Sent') = live + 1 /\ Sent' # <<>>
      /\ \A i \in 1..live : Sent'[i] = Sent[i]
      /\ Sent'[live + 1] = response
      /\ TokensOf(Sent') = Prefix(emitted', live')
  <2>1. TokensOf(Append(Sent, response)) = Append(TokensOf(Sent), response.token)
    BY <1>4, <1>7, TokensAppend
  <2>2. TokensOf(Sent') = Prefix(emitted', live')
    BY <1>1, <1>3, <1>6, <1>7, <1>8, <2>1
  <2> QED BY <1>4, <1>7, <1>8, <2>2, TokensAppend
<1>10. ReplyTypeOK'
  <2>1. rqueue' \in Seq(Response) /\ pending' \in Response \cup {None}
    <3>1. Append(rqueue, response) \in Seq(Response)
      BY <1>3, <1>7, TokensAppend
    <3>2. NextOut \in Seq(Response)
      BY <1>3, TokensAppend DEF NextOut
    <3> QED BY <1>1, <1>3, <1>7, <3>1, <3>2
  <2>2. live' \in 0..Len(emitted')
    BY <1>1, <1>4
  <2>3. {flushed', clientDone', shouldStop', over'} \subseteq BOOLEAN
    BY <1>1, <1>3
  <2>4. TypeOK' /\ finish' \in {None, "stop", "length"}
    BY <1>1, <1>2 DEF IInv
  <2> QED BY <2>1, <2>2, <2>3, <2>4 DEF ReplyTypeOK
<1>11. ~ clientDone' => live' = Len(emitted') - Unread'
  BY <1>1, <1>4, NoneIsNoAnswer DEF Unread
<1>12. ResponsesAreReasoned'
  <2>1. /\ \A i \in 1..live : Reasoned(req.max, Sent[i], i)
        /\ \A i \in 1..live - 1 : Sent[i].finish = None
        /\ Sent # <<>> => Sent[live].finish = None
    BY <1>1, <1>2, <1>4 DEF RInv, ResponsesAreReasoned
  <2>2. \A i \in 1..live : Sent[i].finish = None
    <3> SUFFICES ASSUME NEW i \in 1..live PROVE Sent[i].finish = None
      OBVIOUS
    <3>1. i \in 1..live - 1 \/ (i = live /\ Sent # <<>>)
      BY <1>4
    <3> QED BY <2>1, <3>1
  <2>3. \A i \in 1..live + 1 : Reasoned(req.max, Sent'[i], i)
    <3> SUFFICES ASSUME NEW i \in 1..live + 1 PROVE Reasoned(req.max, Sent'[i], i)
      OBVIOUS
    <3>1. CASE i \in 1..live
      BY <1>9, <2>1, <3>1
    <3>2. CASE i = live + 1
      BY <1>7, <1>9, <3>2
    <3> QED BY <1>4, <3>1, <3>2
  <2>4. \A i \in 1..Len(Sent') : Reasoned(req'.max, Sent'[i], i)
    BY <1>1, <1>9, <2>3
  <2>5. \A i \in 1..Len(Sent') - 1 : Sent'[i].finish = None
    BY <1>4, <1>9, <2>2
  <2>6. clientDone' => Sent'[Len(Sent')].finish # None
    BY <1>1, <1>7, <1>9
  <2>7. ~ clientDone' /\ pc' # "closed" => Sent'[Len(Sent')].finish = None
    BY <1>1, <1>7, <1>9
  <2> QED BY <1>9, <2>4, <2>5, <2>6, <2>7 DEF ResponsesAreReasoned
<1>13. HeldBack' /\ EngineEnds'
  BY <1>1, <1>2, NoneIsNoAnswer DEF HeldBack, EngineEnds
<1> QED BY <1>1, <1>3, <1>9, <1>10, <1>11, <1>12, <1>13 DEF RInv

\* When the loop ends: what is in the queue is Sent, but for the summary's reason.
LEMMA EndedWell ==
    ASSUME IInv, RInv, ~ over, Ended, pc = "done", emitted # <<>>
    PROVE  /\ Sent # <<>> /\ finish = SummaryReason /\ emitted = generated
           /\ Sent[Len(Sent)].finish # None
<1>1. /\ Len(Sent) = live /\ live \in 0..Len(emitted) /\ Len(emitted) \in Nat
      /\ emitted \in Seq(Token)
      /\ \A i \in 1..live : Sent[i].token = emitted[i]
  BY SentFacts DEF RInv
<1>2. /\ finish = SummaryReason /\ emitted = generated
      /\ Len(emitted) = req.max \/ \E i \in 1..Len(emitted) : emitted[i] \in Stop
  BY DEF RInv, EngineEnds, Ended
<1>3. CASE clientDone
  BY <1>2, <1>3 DEF RInv, ResponsesAreReasoned
<1>4. CASE ~ clientDone
  <2>1. live = Len(emitted)
    BY <1>1, <1>4, NoneIsNoAnswer DEF RInv, Unread, Ended
  <2>2. Len(emitted) > 0 /\ Sent # <<>>
    BY <1>1, <2>1
  <2>3. Sent[live].finish = None /\ \A i \in 1..live - 1 : Sent[i].finish = None
    BY <1>1, <1>4, <2>2 DEF RInv, ResponsesAreReasoned
  <2>4. \A i \in 1..live : Reasoned(req.max, Sent[i], i)
    BY <1>1 DEF RInv, ResponsesAreReasoned
  <2>5. ASSUME Len(emitted) = req.max PROVE FALSE
    <3>1. live \in 1..live /\ live >= req.max
      BY <1>1, <2>1, <2>2, <2>5
    <3> QED BY <2>3, <2>4, <3>1 DEF Reasoned
  <2>6. ASSUME NEW i \in 1..Len(emitted), emitted[i] \in Stop PROVE FALSE
    <3>1. i \in 1..live /\ (i \in 1..live - 1 \/ i = live)
      BY <1>1, <2>1
    <3>2. Sent[i].finish = "stop"
      BY <1>1, <2>4, <2>6, <3>1 DEF Reasoned
    <3> QED BY <2>3, <3>1, <3>2, NoneIsNoAnswer
  <2> QED BY <1>2, <2>5, <2>6
<1> QED BY <1>2, <1>3, <1>4

\* The summary's reason is true of the last response as well.
LEMMA SummaryIsTrue ==
    ASSUME IInv, RInv, ~ over, Ended, pc = "done", emitted # <<>>
    PROVE  /\ finish = "length" => Len(emitted) = req.max
           /\ finish = "stop" => \/ Sent[Len(Sent)].match
                                 \/ Sent[Len(Sent)].token \in Stop
<1>1. /\ Len(Sent) = live /\ live \in 0..Len(emitted) /\ Len(emitted) \in Nat
      /\ emitted \in Seq(Token) /\ Len(emitted) <= req.max
      /\ \A i \in 1..live : Sent[i] \in Response /\ Sent[i].token = emitted[i]
  BY SentFacts DEF RInv
<1>2. /\ Sent # <<>> /\ finish = SummaryReason /\ emitted = generated
      /\ Sent[Len(Sent)].finish # None
  BY EndedWell
<1>3. req.max \in Nat
  BY RequestFacts DEF IInv, TypeOK
<1>4. live > 0 /\ live \in 1..live
  BY <1>1, <1>2, SentFacts DEF RInv
<1>5. finish = "length" => Len(emitted) = req.max
  BY <1>1, <1>2, <1>3 DEF SummaryReason
<1>6. ASSUME finish = "stop" PROVE Sent[live].match \/ Sent[live].token \in Stop
  <2>1. Sent[live] \in Response /\ Reasoned(req.max, Sent[live], live)
    BY <1>1, <1>4 DEF RInv, ResponsesAreReasoned
  <2>2. CASE Sent[live].finish = "stop"
    BY <2>1, <2>2 DEF Reasoned
  <2>3. CASE Sent[live].finish = "length"
    <3>1. live = Len(emitted) /\ Len(emitted) = req.max
      BY <1>1, <1>3, <2>1, <2>3 DEF Reasoned
    <3>2. generated[Len(generated)] \in Stop
      <4>1. "length" # "stop"
        OBVIOUS
      <4> QED BY <1>2, <1>3, <1>6, <3>1, <4>1 DEF SummaryReason
    <3>3. Sent[live].token = emitted[Len(emitted)]
      BY <1>1, <1>4, <3>1
    <3> QED BY <1>2, <3>2, <3>3
  <2> QED BY <1>1, <1>2, <2>1, <2>2, <2>3 DEF Response
<1> QED BY <1>1, <1>5, <1>6

\* What is handed on ends once, at any time.
LEMMA SentEndsOnce ==
    ASSUME IInv, RInv, ~ over
    PROVE  \A i \in 1..Len(Sent) :
              /\ Sent[i] \in Response /\ i <= Len(Sent)
              /\ (Sent[i].finish # None \/ Sent[i].match \/ Sent[i].token \in Stop) => i = Len(Sent)
              /\ Sent[i].finish = "stop" => Sent[i].match \/ Sent[i].token \in Stop
              /\ Sent[i].finish = "length" => Len(emitted) = req.max
<1> SUFFICES ASSUME NEW i \in 1..Len(Sent)
             PROVE  /\ Sent[i] \in Response /\ i <= Len(Sent)
                    /\ (Sent[i].finish # None \/ Sent[i].match \/ Sent[i].token \in Stop) => i = Len(Sent)
                    /\ Sent[i].finish = "stop" => Sent[i].match \/ Sent[i].token \in Stop
                    /\ Sent[i].finish = "length" => Len(emitted) = req.max
  OBVIOUS
<1>1. /\ Len(Sent) = live /\ live \in 0..Len(emitted) /\ Len(emitted) \in Nat
      /\ Len(emitted) <= req.max
      /\ \A k \in 1..live : Sent[k] \in Response /\ Sent[k].token = emitted[k]
  BY SentFacts DEF RInv
<1>2. Sent[i] \in Response /\ i <= Len(Sent) /\ i \in 1..live
  BY <1>1
<1>3. Reasoned(req.max, Sent[i], i) /\ (i \in 1..live - 1 => Sent[i].finish = None)
  BY <1>1 DEF RInv, ResponsesAreReasoned
<1>4. i = live \/ i \in 1..live - 1
  BY <1>1
<1>5. (Sent[i].finish # None \/ Sent[i].match \/ Sent[i].token \in Stop) => i = live
  BY <1>3, <1>4, NoneIsNoAnswer DEF Reasoned
<1>6. Sent[i].finish = "length" => Len(emitted) = req.max
  <2>1. req.max \in Nat
    BY RequestFacts DEF IInv, TypeOK
  <2> QED BY <1>1, <1>2, <1>3, <2>1 DEF Reasoned
<1> QED BY <1>1, <1>2, <1>3, <1>5, <1>6 DEF Reasoned

\* The queue after the flush: Sent, the last with the summary's reason.
LEMMA FlushedQueue ==
    ASSUME RInv, FlushPending
    PROVE  /\ rqueue' \in Seq(Response) /\ Len(rqueue') = Len(Sent)
           /\ TokensOf(rqueue') = TokensOf(Sent)
           /\ \A i \in 1..Len(Sent) :
                 /\ rqueue'[i].token = Sent[i].token /\ rqueue'[i].match = Sent[i].match
                 /\ \/ rqueue'[i].finish = Sent[i].finish
                    \/ i = Len(Sent) /\ finish # None /\ rqueue'[i].finish = finish
<1>1. /\ rqueue \in Seq(Response) /\ pending \in Response \cup {None}
      /\ finish \in {None, "stop", "length"} /\ ~ over /\ rqueue' = LastOut
  BY DEF RInv, ReplyTypeOK, FlushPending
<1>2. CASE pending = None
  <2>1. rqueue' = rqueue /\ Sent = rqueue
    BY <1>1, <1>2 DEF LastOut, Sent
  <2> QED BY <1>1, <2>1
<1>3. CASE pending # None
  <2> DEFINE last == [pending EXCEPT !.finish = IF finish # None THEN finish ELSE @]
  <2>1. pending \in Response /\ rqueue' = Append(rqueue, last) /\ Sent = Append(rqueue, pending)
    BY <1>1, <1>3 DEF LastOut, Sent
  <2>2. /\ last \in Response /\ last.token = pending.token /\ last.match = pending.match
        /\ last.finish = IF finish # None THEN finish ELSE pending.finish
    BY <1>1, <2>1 DEF Response
  <2> HIDE DEF last
  <2>3. /\ rqueue' \in Seq(Response) /\ Len(rqueue') = Len(rqueue) + 1 /\ Len(Sent) = Len(rqueue) + 1
        /\ \A i \in 1..Len(rqueue) : rqueue'[i] = rqueue[i] /\ Sent[i] = rqueue[i]
        /\ rqueue'[Len(rqueue) + 1] = last /\ Sent[Len(rqueue) + 1] = pending
    BY <1>1, <2>1, <2>2, TokensAppend
  <2>4. TokensOf(rqueue') = TokensOf(Sent)
    <3>1. /\ TokensOf(Append(rqueue, last)) = Append(TokensOf(rqueue), last.token)
          /\ TokensOf(Append(rqueue, pending)) = Append(TokensOf(rqueue), pending.token)
      BY <1>1, <2>1, <2>2, TokensAppend
    <3> QED BY <2>1, <2>2, <3>1
  <2>5. Len(rqueue) \in Nat
    BY <1>1, TokensType
  <2>6. ASSUME NEW i \in 1..Len(Sent)
        PROVE  /\ rqueue'[i].token = Sent[i].token /\ rqueue'[i].match = Sent[i].match
               /\ \/ rqueue'[i].finish = Sent[i].finish
                  \/ i = Len(Sent) /\ finish # None /\ rqueue'[i].finish = finish
    <3>1. CASE i \in 1..Len(rqueue)
      BY <2>3, <3>1
    <3>2. CASE i = Len(rqueue) + 1
      BY <2>2, <2>3, <3>2
    <3> QED BY <2>3, <2>5, <3>1, <3>2
  <2> QED BY <2>3, <2>4, <2>6
<1> QED BY <1>2, <1>3

LEMMA FlushReplies ==
    ASSUME IInv, IInv', RInv, FlushPending
    PROVE  RInv'
<1>1. /\ Ended /\ ~ over /\ over' = TRUE /\ event = None /\ pc \in {"done", "closed"}
      /\ UNCHANGED <<req, pc, event, emitted, generated>>
      /\ UNCHANGED <<pending, flushed, clientDone, live, finish, shouldStop>>
  BY DEF FlushPending, Ended, vars, cycle
<1>2. /\ rqueue' \in Seq(Response) /\ Len(rqueue') = Len(Sent)
      /\ TokensOf(rqueue') = TokensOf(Sent)
      /\ \A i \in 1..Len(Sent) :
            /\ rqueue'[i].token = Sent[i].token /\ rqueue'[i].match = Sent[i].match
            /\ \/ rqueue'[i].finish = Sent[i].finish
               \/ i = Len(Sent) /\ finish # None /\ rqueue'[i].finish = finish
  BY FlushedQueue
<1>3. Sent' = rqueue'
  BY <1>1 DEF Sent
<1>4. /\ Len(Sent) = live /\ live \in 0..Len(emitted) /\ Len(emitted) \in Nat
      /\ Sent \in Seq(Response)
  BY SentFacts DEF RInv
<1>5. finish # None => pc = "done"
  BY <1>1 DEF RInv, EngineEnds
<1>6. ReplyTypeOK'
  <2>1. TypeOK'
    BY DEF IInv
  <2> QED BY <1>1, <1>2, <2>1 DEF RInv, ReplyTypeOK
<1>7. /\ Len(emitted') <= req'.max /\ TokensOf(Sent') = Prefix(emitted', live')
      /\ ~ clientDone' => live' = Len(emitted') - Unread'
  BY <1>1, <1>2, <1>3 DEF RInv, Unread
<1>8. RepliesEndOnce'
  <2> SUFFICES ASSUME NEW i \in 1..Len(rqueue')
               PROVE  /\ (\/ rqueue'[i].finish # None \/ rqueue'[i].match
                          \/ rqueue'[i].token \in Stop) => i = Len(rqueue')
                      /\ rqueue'[i].finish = "stop" => rqueue'[i].match \/ rqueue'[i].token \in Stop
                      /\ rqueue'[i].finish = "length" => Len(emitted') = req'.max
    BY DEF RepliesEndOnce
  <2>1. i \in 1..Len(Sent) /\ Len(Sent) \in Nat
    BY <1>2, <1>4
  <2>2. /\ (Sent[i].finish # None \/ Sent[i].match \/ Sent[i].token \in Stop) => i = Len(Sent)
        /\ Sent[i].finish = "stop" => Sent[i].match \/ Sent[i].token \in Stop
        /\ Sent[i].finish = "length" => Len(emitted) = req.max
    BY <1>1, <2>1, SentEndsOnce
  <2>3. CASE rqueue'[i].finish = Sent[i].finish
    BY <1>1, <1>2, <2>1, <2>2, <2>3
  <2>4. CASE i = Len(Sent) /\ finish # None /\ rqueue'[i].finish = finish
    <3>1. pc = "done" /\ emitted # <<>>
      <4>1. Len(emitted) > 0
        BY <1>4, <2>1
      <4>2. emitted = <<>> => Len(emitted) = 0
        OBVIOUS
      <4> QED BY <1>5, <2>4, <4>1, <4>2
    <3>2. /\ finish = "length" => Len(emitted) = req.max
          /\ finish = "stop" => Sent[Len(Sent)].match \/ Sent[Len(Sent)].token \in Stop
      BY <1>1, <3>1, SummaryIsTrue
    <3> QED BY <1>1, <1>2, <2>1, <2>4, <3>2
  <2> QED BY <1>2, <2>1, <2>3, <2>4
<1>9. EndIsTold'
  <2> SUFFICES ASSUME pc = "done", emitted # <<>>
               PROVE  rqueue' # <<>> /\ rqueue'[Len(rqueue')].finish # None
    BY <1>1 DEF EndIsTold
  <2>1. Sent # <<>> /\ Sent[Len(Sent)].finish # None
    BY <1>1, EndedWell
  <2>2. Len(Sent) \in 1..Len(Sent)
    BY <1>4, <2>1
  <2>3. rqueue' # <<>>
    BY <1>2, <2>2
  <2>4. rqueue'[Len(Sent)].finish # None
    BY <1>2, <2>1, <2>2
  <2> QED BY <1>2, <2>3, <2>4
<1>10. Ended' /\ SummaryReason' = SummaryReason
  BY <1>1 DEF Ended, SummaryReason
<1>11. EngineEnds'
  BY <1>1, <1>8, <1>9, <1>10 DEF RInv, EngineEnds, RepliesEndWell
<1>12. ResponsesAreReasoned'
  BY <1>1 DEF ResponsesAreReasoned
<1>13. HeldBack'
  <2>1. ~ flushed => rqueue = <<>> /\ pending = None /\ live = 0
    BY DEF RInv, HeldBack
  <2>2. rqueue' = LastOut
    BY DEF FlushPending
  <2> QED BY <1>1, <2>1, <2>2 DEF HeldBack, LastOut
<1> QED BY <1>6, <1>7, <1>11, <1>12, <1>13 DEF RInv

LEMMA ReplyStepIsAStep ==
    ASSUME [ReplyNext]_allVars
    PROVE  [Next]_vars
<1>1. CASE EngineStep
  BY <1>1 DEF EngineStep, Next
<1>2. CASE TakeEvent
  BY <1>2 DEF TakeEvent, TakeProgress, TakeSummary, IgnoreToken, TakeToken, Next
<1>3. CASE FlushPending \/ Cancel \/ UNCHANGED allVars
  BY <1>3 DEF FlushPending, Cancel, allVars
<1> QED BY <1>1, <1>2, <1>3 DEF ReplyNext

LEMMA StepReplies ==
    ASSUME TargetSpeaks, IInv, RInv, [ReplyNext]_allVars
    PROVE  RInv'
<1>1. IInv'
  BY ReplyStepIsAStep, StepHolds
<1>2. CASE UNCHANGED allVars
  BY <1>1, <1>2, OtherStepReplies DEF allVars, vars, reply, cycle, RInv, ReplyTypeOK
<1>3. CASE EngineStep
  <2>1. CASE Engine /\ UNCHANGED reply
    BY <1>1, <2>1, EngineStepReplies
  <2>2. CASE CacheCloses /\ UNCHANGED reply
    BY <1>1, <2>2, OtherStepReplies DEF CacheCloses, reply, cycle, RInv, ReplyTypeOK
  <2> QED BY <1>3, <2>1, <2>2 DEF EngineStep
<1>4. CASE TakeProgress \/ IgnoreToken
  BY <1>1, <1>4, PassedOverReplies DEF TakeProgress, IgnoreToken
<1>5. CASE TakeSummary
  BY <1>1, <1>5, TakeSummaryReplies
<1>6. ASSUME NEW match \in IF MayMatch THEN BOOLEAN ELSE {FALSE}, TakeToken(match) PROVE RInv'
  BY <1>1, <1>6, TakeTokenReplies
<1>7. CASE FlushPending
  BY <1>1, <1>7, FlushReplies
<1>8. CASE Cancel
  BY <1>1, <1>8, OtherStepReplies DEF Cancel, vars, cycle
<1> QED BY <1>2, <1>3, <1>4, <1>5, <1>6, <1>7, <1>8 DEF ReplyNext, TakeEvent

LEMMA RepliesHold ==
    ASSUME TargetSpeaks
    PROVE  ReplySpec => [](IInv /\ RInv)
<1>1. ReplyInit => IInv /\ RInv
  BY InitHolds, InitReplies DEF ReplyInit
<1>2. IInv /\ RInv /\ [ReplyNext]_allVars => (IInv /\ RInv)'
  BY ReplyStepIsAStep, StepHolds, StepReplies
<1> QED BY <1>1, <1>2, PTL DEF ReplySpec

(* ------------------------------- the theorems ---------------------------- *)

\* consume_dflash_events drives the engine only as SpecDecode says, so that what
\* is proved of the engine holds under its consumer.
THEOREM ReplyDrivesTheEngine == ReplySpec => Spec
<1>1. ReplyInit => Init
  BY DEF ReplyInit
<1> QED BY <1>1, ReplyStepIsAStep, PTL DEF ReplySpec, Spec

\* The responses are the engine's tokens, each once and in order, whatever the
\* client does and whenever the first is flushed or another held back.
THEOREM ResponsesFollowTheEngineAlways ==
    ASSUME TargetSpeaks
    PROVE  ReplySpec => []ResponsesFollowTheEngine
<1>1. RInv => ResponsesFollowTheEngine
  BY DEF RInv, ResponsesFollowTheEngine, Sent, Unread
<1> QED BY <1>1, RepliesHold, PTL

LEMMA QueueEndsWell ==
    ASSUME IInv, RInv
    PROVE  RepliesEndWell
<1>1. CASE over
  BY <1>1 DEF RInv, EngineEnds
<1>2. CASE ~ over
  <2>1. EndIsTold
    BY <1>2 DEF EndIsTold
  <2>2. ASSUME NEW i \in 1..Len(rqueue)
        PROVE  /\ (rqueue[i].finish # None \/ rqueue[i].match \/ rqueue[i].token \in Stop) => i = Len(rqueue)
               /\ rqueue[i].finish = "stop" => rqueue[i].match \/ rqueue[i].token \in Stop
               /\ rqueue[i].finish = "length" => Len(emitted) = req.max
    <3>1. /\ i <= Len(Sent) /\ rqueue[i] = Sent[i] /\ Sent \in Seq(Response)
          /\ \A k \in 1..Len(rqueue) : k <= Len(Sent)
      BY SentFacts DEF RInv
    <3>2. Len(rqueue) \in Nat /\ Len(Sent) \in Nat
      BY <3>1, TokensType DEF RInv, ReplyTypeOK
    <3>3. i \in 1..Len(Sent) /\ Len(rqueue) <= Len(Sent)
      BY <3>1, <3>2
    <3>4. /\ (Sent[i].finish # None \/ Sent[i].match \/ Sent[i].token \in Stop) => i = Len(Sent)
          /\ Sent[i].finish = "stop" => Sent[i].match \/ Sent[i].token \in Stop
          /\ Sent[i].finish = "length" => Len(emitted) = req.max
      BY <1>2, <3>3, SentEndsOnce
    <3> QED BY <3>1, <3>2, <3>3, <3>4
  <2>3. RepliesEndOnce
    BY <2>2 DEF RepliesEndOnce
  <2> QED BY <2>1, <2>3 DEF RepliesEndWell
<1> QED BY <1>1, <1>2

\* A reply has one end, its reason is true, and a client that stays is told.
THEOREM RepliesEndWellAlways ==
    ASSUME TargetSpeaks
    PROVE  ReplySpec => []RepliesEndWell
  BY QueueEndsWell, RepliesHold, PTL
================================================================================
