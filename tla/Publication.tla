----------------------------- MODULE Publication -----------------------------
(***************************************************************************)
(* Publishing the measured artifact of a campaign to one repository of the *)
(* hub (modal/publish_mxfp4.py with mlx_gptq_calibration/publication.py).  *)
(* Publishers run one after the other or beside each other; each commits   *)
(* on top of whatever is there, checks what became of its commit, and only *)
(* then tags it.  Files are abstracted to the artifact's, the model card,  *)
(* the receipts a refresh uploads again and those it leaves.               *)
(***************************************************************************)
EXTENDS Integers, Sequences, FiniteSets

CONSTANTS
    Runs,         \* calls of publish()
    Versions,     \* of a document
    SizeOf(_),    \* their sizes: all that a listing tells of most files
    Pin,          \* MODEL_SHARD: the one model that may be published
    OlderModel,   \* what earlier editions left in the repository
    None

Documents == {"card", "measured", "provenance"}

VARIABLES
    volume,       \* the receipts on the volume: ["measured", "provenance" -> Versions]
    commits,      \* of the repository: what each file was when it was made
    tag,          \* the commit TAG names, or None
    runOf         \* per run: [pc, refresh, files, at]

vars == <<volume, commits, tag, runOf>>

Idle == [pc |-> "idle", refresh |-> FALSE, files |-> <<>>, at |-> 0]

\* An empty repository, or earlier editions: of another model, with a file that is
\* not published any more, without the receipts.
Init ==
    /\ \E v \in Versions : volume = [measured |-> v, provenance |-> v]
    /\ \E v \in Versions, model \in {Pin, OlderModel} :
          LET bare == [f \in {"model", "card"} |-> IF f = "model" THEN model ELSE v]
              whole == [f \in {"model"} \cup Documents |-> IF f = "model" THEN model ELSE v]
              more == [f \in {"model", "stray"} \cup Documents |-> IF f = "model" THEN model ELSE v]
          IN  commits \in {<<>>, <<bare>>, <<whole>>, <<more>>}
    /\ tag = None
    /\ runOf = [r \in Runs |-> Idle]

Goes(r, from, to) == runOf[r].pc = from /\ runOf' = [runOf EXCEPT ![r].pc = to]
Fails(r, from) == Goes(r, from, "raised") /\ UNCHANGED <<volume, commits, tag>>

\* verify_artifact, verify_ladder_result, verify_local_receipts_match_volume: what is
\* prepared is the pinned model, receipts as they are on the volume, and a card.
Prepare(r) ==
    /\ runOf[r].pc = "idle"
    /\ \E refresh \in BOOLEAN, card \in Versions :
          runOf' = [runOf EXCEPT ![r] = [pc |-> "prepared", refresh |-> refresh, at |-> 0,
              files |-> [f \in {"model"} \cup Documents |->
                            CASE f = "model" -> Pin [] f = "card" -> card
                              [] OTHER -> volume[f]]]]
    /\ UNCHANGED <<volume, commits, tag>>

\* A benchmark is run again and writes its receipt.
Rerecord ==
    /\ \E v \in Versions \ {volume.measured} : volume' = [volume EXCEPT !.measured = v]
    /\ UNCHANGED <<commits, tag, runOf>>

Latest == IF commits = <<>> THEN <<>> ELSE commits[Len(commits)]

\* verify_remote_artifact_files: a refresh wants the pinned model to be there.
ModelIsThere == "model" \in DOMAIN Latest /\ Latest["model"] = Pin

CheckLatest(r) ==
    /\ IF runOf[r].refresh => ModelIsThere
       THEN Goes(r, "prepared", "checked") ELSE Goes(r, "prepared", "raised")
    /\ UNCHANGED <<volume, commits, tag>>

Uploads(r) == IF runOf[r].refresh THEN {"card", "measured"} ELSE DOMAIN runOf[r].files

\* create_commit adds to the head as it is by now, and deletes nothing.
CreateCommit(r) ==
    /\ runOf[r].pc = "checked"
    /\ commits' = Append(commits,
           [f \in DOMAIN Latest \cup Uploads(r) |->
               IF f \in Uploads(r) THEN runOf[r].files[f] ELSE Latest[f]])
    /\ runOf' = [runOf EXCEPT ![r].pc = "committed", ![r].at = Len(commits) + 1]
    /\ UNCHANGED <<volume, tag>>

\* A mutant: the head of the repository is verified, not the commit of this run.
AsPreparedByNow(r) ==
    /\ DOMAIN Latest = DOMAIN runOf[r].files
    /\ \A f \in Documents : SizeOf(Latest[f]) = SizeOf(runOf[r].files[f])
    /\ Latest["model"] = Pin
\* verify_remote_files, and the pin: the files that were prepared and no other, of
\* the size they should have; the model by its hash.
AsPrepared(r) ==
    LET tree == commits[runOf[r].at]
    IN  /\ DOMAIN tree = DOMAIN runOf[r].files
        /\ \A f \in Documents : SizeOf(tree[f]) = SizeOf(runOf[r].files[f])
        /\ tree["model"] = Pin

VerifyCommit(r) ==
    /\ runOf[r].pc = "committed"
    /\ IF AsPrepared(r) THEN Goes(r, "committed", "verified") ELSE Goes(r, "committed", "raised")
    /\ UNCHANGED <<volume, commits, tag>>

\* ensure_tag lists the tags first ...
ListTags(r) ==
    /\ runOf[r].pc = "verified"
    /\ CASE tag = None          -> Goes(r, "verified", "untagged")
         [] tag = runOf[r].at   -> Goes(r, "verified", "recorded")
         [] OTHER               -> Goes(r, "verified", "raised")
    /\ UNCHANGED <<volume, commits, tag>>

\* A mutant: a tag that was set in between is moved.
CreateTagAnyway(r) ==
    /\ Goes(r, "untagged", "recorded")
    /\ tag' = runOf[r].at
    /\ UNCHANGED <<volume, commits>>
\* ... and creates its own, which the hub refuses if there is one by now.
CreateTag(r) ==
    /\ IF tag = None THEN Goes(r, "untagged", "recorded") /\ tag' = runOf[r].at
       ELSE Goes(r, "untagged", "raised") /\ UNCHANGED tag
    /\ UNCHANGED <<volume, commits>>

\* The call times out, or the hub does not answer.
Interrupt(r) == \E pc \in {"prepared", "checked", "committed", "verified", "untagged"} : Fails(r, pc)

Next ==
    \/ Rerecord
    \/ \E r \in Runs : \/ Prepare(r) \/ CheckLatest(r) \/ CreateCommit(r) \/ VerifyCommit(r)
                       \/ ListTags(r) \/ CreateTag(r) \/ Interrupt(r)

Spec == Init /\ [][Next]_vars

-----------------------------------------------------------------------------
(* Properties                                                              *)

\* Whatever other runs commit, refresh or tag in between, a run that records its
\* publication records the tagged commit; there the model is the pinned one, what
\* it uploaded is as it prepared it, what it did not upload has at least the size,
\* and nothing else is there.
RecordedIsTagged ==
    \A r \in Runs : runOf[r].pc = "recorded" =>
        /\ tag = runOf[r].at
        /\ LET tree == commits[tag]
           IN  /\ DOMAIN tree = {"model"} \cup Documents
               /\ tree["model"] = Pin
               /\ \A f \in Uploads(r) : tree[f] = runOf[r].files[f]
               /\ \A f \in Documents : SizeOf(tree[f]) = SizeOf(runOf[r].files[f])

\* No step moves the tag, or rewrites what it names.
TagStays ==
    tag # None => tag' = tag /\ commits'[tag] = commits[tag]
=============================================================================
